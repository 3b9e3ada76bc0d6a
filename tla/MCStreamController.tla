------------------------- MODULE MCStreamController -------------------------
(***************************************************************************)
(* The calls of a run are model values, or, where some are made by the     *)
(* handlers of others, strings.                                            *)
(***************************************************************************)
EXTENDS StreamController

\* The handlers of "c1" and "c2" may call the client back.
CallsBack == {<<"c1", "s1">>, <<"c2", "s2">>}
=============================================================================
