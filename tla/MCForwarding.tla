----------------------------- MODULE MCForwarding -----------------------------
(***************************************************************************)
(* Calls in both directions through a hub whose two streams may both end.  *)
(***************************************************************************)
EXTENDS Forwarding

MCEnds == {<<"main", "err">>, <<"spliced", "eof">>, <<"spliced", "err">>}
===============================================================================
