----------------------- MODULE MCChatgptCredentials -----------------------
(* Small instances of ChatgptCredentials for TLC. *)
EXTENDS ChatgptCredentials, TLC

CONSTANTS s1, s2

\* Replies that tell the paths apart: no ID token and inherited scopes, the
\* subject's own ID token, another account's, one that does not verify, and one
\* without the sharing scope; one may not be refreshed yet.
MCOffers ==
  { [id |-> NONE, scope |-> NONE, hold |-> FALSE],
    [id |-> s1, scope |-> TRUE, hold |-> TRUE],
    [id |-> s2, scope |-> TRUE, hold |-> FALSE],
    [id |-> INVALID, scope |-> TRUE, hold |-> FALSE],
    [id |-> s1, scope |-> FALSE, hold |-> FALSE] }

\* Replies of two accounts that share, for the runs about logins.
TwoAccounts == { [id |-> s, scope |-> TRUE, hold |-> FALSE] : s \in {s1, s2} }

\* Refreshes are interchangeable.
RefresherSymmetry == Permutations(Refreshers)
=============================================================================
