------------------------------ MODULE MCDispatch ------------------------------
(***************************************************************************)
(* Two handlers at the start and a third that may join; a broadcast, a  *)
(* plain request and one for an unknown method.                            *)
(***************************************************************************)
EXTENDS Dispatch

CONSTANTS h1, h2, h3, bcast, plain, unknown

MCHandlers   == {h1, h2, h3}
MCInitial    == <<h1, h2>>
MCRequests   == {bcast, plain, unknown}
MCBroadcasts == {bcast}
MCMissing    == {unknown}
===============================================================================
