----------------------------- MODULE MCDiscovery ------------------------------
(***************************************************************************)
(* The bidirectional nested topology of totem_test.go: node 3 splices      *)
(* nodes 4 and 2, node 2 splices node 1, and node 5 is the client at the   *)
(* other end of node 3's main stream. mN is the main controller of node N, *)
(* s32 the one node 3 made for the stream to node 2. Node 3's service is   *)
(* visible to spliced clients, which in the tests none is.                 *)
(***************************************************************************)
EXTENDS Discovery, TLC

CONSTANTS m1, m2, m3, m4, m5, s21, s32, s34, inc, dec, hash, mul, refl

MCNode      == 1 .. 5
MCMain      == <<m1, m2, m3, m4, m5>>
MCSplices   == <<<<>>, <<s21>>, <<s34, s32>>, <<>>, <<>>>>
MCPeer      == m1 :> s21 @@ s21 :> m1 @@ m2 :> s32 @@ s32 :> m2
                 @@ m4 :> s34 @@ s34 :> m4 @@ m3 :> m5 @@ m5 :> m3
MCLocal     == <<{inc}, {dec}, {hash}, {mul}, {}>>
MCVisible   == {hash, refl}
MCHopLimit  == <<1, 1, -1, 2, 3>>
MCBreakable == {m2}
MCCleaned   == {m3}
===============================================================================
