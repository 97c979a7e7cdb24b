-------------------------- MODULE MCRelayTask --------------------------
(* Bodies for TLC: streams of up to two events of several kinds, by blank  *)
(* lines of either form or not quite, and a rest; and image responses.     *)
EXTENDS RelayTask, TLC

Doc(type, delta, model, tokens) ==
  [type |-> type, delta |-> delta, model |-> model, tokens |-> tokens]

\* One text spans two data lines.
MCDocuments ==
  <<"completed">> :> Doc("response.completed", FALSE, "m1", 7)
  @@ <<"failed">> :> Doc("error", FALSE, NULL, NULL)
  @@ <<"text">> :> Doc("response.output_text.delta", TRUE, NULL, NULL)
  @@ <<"open", "close">> :> Doc("response.reasoning_text.delta", TRUE, "m2", 0)

LfLf == <<LF, LF>>
CrLfs == <<CR, LF, CR, LF>>

Firsts ==
  { payload \o break : break \in {LfLf, CrLfs},
      payload \in { <<DATA, "completed">>, <<DATA, "text">>, <<DATA, DONE>>,
                   <<DATA, "open", LF, DATA, "close">>, <<"comment">>, <<BAD>> } }
Seconds == { <<DATA, "failed">> \o LfLf, <<DATA, "text">> \o CrLfs, <<DATA, "junk">> \o LfLf }
\* Not quite a separator, an event left unfinished, and a separator too many.
Rests == { <<>>, <<CR, LF, LF>>, <<DATA, "text", LF>>, LfLf }

MCBodies == { first \o rest : first \in Firsts, rest \in Seconds \cup Rests }

\* Image responses: good ones with and without metadata, one of each defect, and
\* one that is good but too long.
Response(data, input, cached, model) ==
  [data |-> data, input |-> input, cached |-> cached, model |-> model]

MCImages ==
  <<"{", "image", "}">> :> Response(<<TRUE>>, 3, 0, "m1")
  @@ <<"{", "images", "odd", "}">> :> Response(<<TRUE, TRUE>>, NONE, ODD, ODD)
  @@ <<"{", "none", "}">> :> Response(<<>>, 3, NONE, NONE)
  @@ <<"{", "empty", "}">> :> Response(<<TRUE, FALSE>>, NONE, NONE, NONE)
  @@ <<"{", "usage", "}">> :> Response(<<TRUE>>, ODD, NONE, NONE)
  @@ <<"{", "image", " ", " ", "}">> :> Response(<<TRUE>>, 3, NONE, NONE)

MCImageBodies == DOMAIN MCImages \cup { <<"{", "image">> }
=============================================================================
