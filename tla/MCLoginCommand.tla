-------------------------- MODULE MCLoginCommand --------------------------
(* Small instances of the login commands for TLC. *)
EXTENDS LoginCommand

CONSTANTS c1, c2

Url(own, error, code, client) ==
  [exact |-> TRUE, own |-> own, error |-> error, code |-> code, client |-> client]

\* A code without a client, which is for the registered one, a refusal, and a URL
\* with a client that is not.
MCUrls ==
  { Url(TRUE, FALSE, "code1", NULL), Url(TRUE, TRUE, NULL, NULL),
    Url(TRUE, FALSE, "code1", c2) }

MCLines ==
  { Url(TRUE, FALSE, "code3", c1), Url(TRUE, TRUE, "code1", c1), BLANK, GARBLED, LONG }
=============================================================================
