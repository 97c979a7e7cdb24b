-------------------------- MODULE MCTokenRefresh --------------------------
(* Small instances of TokenRefresh for TLC. *)
EXTENDS TokenRefresh, TLC

CONSTANTS a1, a2, b1, p, q

\* One request in each of two processes, and two requests of one.
PairProcOf == (a1 :> p) @@ (b1 :> q)
SharedProcOf == (a1 :> p) @@ (a2 :> p)

\* Requests are interchangeable together with their processes, and so are accounts.
MCSymmetry ==
  { f \in Permutations(Requests \cup Procs) :
      \A r \in Requests : f[r] \in Requests /\ f[procOf[r]] = procOf[f[r]] }
  \cup Permutations(Accounts)
=============================================================================
