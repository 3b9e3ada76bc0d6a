------------------------ MODULE StreamControllerProofs ------------------------
(***************************************************************************)
(* Proofs about StreamController, for any sets of calls and any capacity   *)
(* of the channels and pools.                                              *)
(***************************************************************************)
EXTENDS StreamController, SequenceTheorems, TLAPS

\* The payload after a controller's Append or Tail on a channel.
LEMMA SeqFacts ==
  ASSUME NEW S, NEW s \in Seq(S)
  PROVE  /\ \A x \in S : /\ Append(s, x) \in Seq(S)
                         /\ Len(Append(s, x)) = Len(s) + 1
                         /\ \A i \in 1 .. Len(s) : Append(s, x)[i] = s[i]
                         /\ Append(s, x)[Len(s) + 1] = x
         /\ s # <<>> => /\ Head(s) \in S
                        /\ Head(s) = s[1]
                        /\ Tail(s) \in Seq(S)
                        /\ Len(Tail(s)) = Len(s) - 1
                        /\ \A i \in 1 .. Len(s) - 1 : Tail(s)[i] = s[i + 1]
         /\ Len(s) \in Nat
         /\ Len(s) > 0 <=> s # <<>>
         /\ \A k \in 0 .. Len(s) : /\ SubSeq(s, 1, k) \in Seq(S)
                                   /\ Len(SubSeq(s, 1, k)) = k
                                   /\ \A i \in 1 .. k : SubSeq(s, 1, k)[i] = s[i]
         /\ \A i \in 1 .. Len(s) : s[i] \in S
  OBVIOUS

\* Every controller starts without calls, messages and tasks.
LEMMA InitTypeOK == Init => TypeOK
<1> SUFFICES ASSUME Init PROVE TypeOK
  OBVIOUS
<1> USE DEF Init
<1>1. CtrlTypeOK
  BY DEF CtrlTypeOK
<1>2. RunTypeOK
  BY DEF RunTypeOK
<1>3. PumpTypeOK
  BY CapAssumption DEF PumpTypeOK, CapAssumption
<1>4. FlagTypeOK
  BY DEF FlagTypeOK
<1>5. PoolTypeOK
  BY DEF PoolTypeOK
<1>6. CallTypeOK
  BY DEF CallTypeOK, Status
<1>7. QED
  BY <1>1, <1>2, <1>3, <1>4, <1>5, <1>6 DEF TypeOK

\* A Send keeps the transport's capacity, and changes nothing but the inbox of
\* the other end and the kick.
LEMMA SendTypeOK ==
  ASSUME TypeOK, NEW p \in Peer, NEW m \in RPC, Send(p, m), UNCHANGED pumpVars
  PROVE  /\ PumpTypeOK'
         /\ kick' \in [Peer -> BOOLEAN]
         /\ kickOnce' \in [Peer -> BOOLEAN]
<1>1. Other(p) \in Peer
  BY DEF Other, Peer
<1>2. PumpTypeOK'
  <2>1. CASE inbox' = inbox
    BY <2>1 DEF PumpTypeOK, TypeOK, pumpVars
  <2>2. CASE /\ Len(inbox[Other(p)]) < pumped[Other(p)] + WireCap
             /\ inbox' = [inbox EXCEPT ![Other(p)] = Append(@, m)]
    BY <1>1, <2>2, SeqFacts, CapAssumption
    DEF PumpTypeOK, TypeOK, pumpVars, CapAssumption
  <2>3. QED
    BY <2>1, <2>2 DEF Send
<1>3. kick' \in [Peer -> BOOLEAN] /\ kickOnce' \in [Peer -> BOOLEAN]
  BY DEF Send, Kick, kickVars, FlagTypeOK, TypeOK
<1>4. QED
  BY <1>2, <1>3

\* What a message built by a controller is.
LEMMA MsgType ==
  ASSUME NEW t \in Nat, NEW c \in Call, NEW k \in Nat, NEW s \in Status
  PROVE  RequestMsg(t, c) \in RPC /\ ResponseMsg(t, c, s) \in RPC
         /\ ServerStreamMsg(t, c, k) \in RPC
  BY DEF RequestMsg, ResponseMsg, ServerStreamMsg, RPC, Status

\* Every call has a caller, and every peer another one.
LEMMA CallerPeer == /\ \A c : Caller(c) \in Peer
                    /\ \A p : Other(p) \in Peer
  BY DEF Caller, Other, Peer

\* What Run takes from recvWrapper.c is a message, and the buffer shrinks.
LEMMA TakeTypeOK ==
  ASSUME TypeOK, NEW p \in Peer, pumped[p] > 0, Take(p), UNCHANGED ended
  PROVE  /\ PumpTypeOK'
         /\ inbox[p] # <<>> /\ Head(inbox[p]) \in RPC
         /\ Head(inbox[p]).call \in Call /\ Head(inbox[p]).tag \in Nat
<1>1. inbox[p] \in Seq(RPC) /\ Len(inbox[p]) > 0
  BY DEF TypeOK, PumpTypeOK
<1>2. inbox[p] # <<>> /\ Head(inbox[p]) \in RPC
  BY <1>1, SeqFacts
<1>3. Tail(inbox[p]) \in Seq(RPC) /\ Len(Tail(inbox[p])) = Len(inbox[p]) - 1
  BY <1>1, <1>2, SeqFacts
<1>4. PumpTypeOK'
  BY <1>1, <1>3, CapAssumption DEF Take, TypeOK, PumpTypeOK, CapAssumption
<1>5. QED
  BY <1>2, <1>4 DEF RPC

\* A task of the pool is a message of some call.
LEMMA TaskType ==
  ASSUME TypeOK, NEW p \in Peer, NEW m \in active[p]
  PROVE  m \in RPC /\ m.tag \in Nat /\ m.call \in Call
<1>1. m \in RPC
  BY DEF TypeOK, PoolTypeOK
<1>2. QED
  BY <1>1 DEF RPC

\* Every step keeps the types.
LEMMA NextTypeOK ==
  ASSUME TypeOK, [Next]_vars
  PROVE  TypeOK'
<1> USE DEF TypeOK
<1>1. CASE UNCHANGED vars
  BY <1>1
  DEF vars, ctrlVars, futureVars, runVars, pumpVars, kickVars, poolVars,
      closeVars, linkVars, callVars, history, CtrlTypeOK, RunTypeOK, PumpTypeOK,
      FlagTypeOK, PoolTypeOK, CallTypeOK
<1>2. ASSUME NEW c \in Call, RequestStore(c) PROVE TypeOK'
  <2>1. Caller(c) \in Peer /\ NextTag(Caller(c)) \in Nat
    BY <1>2, CallerPeer DEF NextTag, CtrlTypeOK
  <2>2. CtrlTypeOK'
    BY <1>2, <2>1 DEF RequestStore, CtrlTypeOK, Pending, futureVars
  <2>3. CallTypeOK'
    BY <1>2, <2>1 DEF RequestStore, CallTypeOK, history
  <2>4. RunTypeOK' /\ PumpTypeOK' /\ FlagTypeOK' /\ PoolTypeOK'
    BY <1>2
    DEF RequestStore, ctrlVars, futureVars, runVars, pumpVars, kickVars,
        poolVars, closeVars, linkVars, callVars, history, RunTypeOK, PumpTypeOK,
        FlagTypeOK, PoolTypeOK
  <2> QED
    BY <2>2, <2>3, <2>4
<1>3. ASSUME NEW c \in Call, RequestSend(c) PROVE TypeOK'
  <2>1. RequestMsg(tag[c], c) \in RPC
    BY <1>3, MsgType DEF CallTypeOK, Status
  <2>2. PumpTypeOK'
    BY <1>3, <2>1, SendTypeOK, CallerPeer DEF RequestSend, pumpVars
  <2>3. FlagTypeOK'
    BY <1>3, <2>1, SendTypeOK, CallerPeer
    DEF RequestSend, FlagTypeOK, pumpVars, closeVars, linkVars
  <2>4. CallTypeOK'
    BY <1>3 DEF RequestSend, CallTypeOK
  <2>5. CtrlTypeOK' /\ RunTypeOK' /\ PoolTypeOK'
    BY <1>3
    DEF RequestSend, ctrlVars, futureVars, runVars, pumpVars, kickVars,
        poolVars, closeVars, linkVars, callVars, history, CtrlTypeOK, RunTypeOK,
        PoolTypeOK
  <2> QED
    BY <2>2, <2>3, <2>4, <2>5
<1>4. ASSUME NEW c \in Call, Await(c) PROVE TypeOK'
  <2>1. Head(future[c]) \in RPC /\ Tail(future[c]) \in Seq(RPC)
    BY <1>4, SeqFacts DEF Await, CtrlTypeOK
  <2>2. CtrlTypeOK'
    BY <1>4, <2>1 DEF Await, CtrlTypeOK, ctrlVars
  <2>3. CallTypeOK'
    BY <1>4, <2>1, SeqFacts DEF Await, CallTypeOK, history
  <2>4. RunTypeOK' /\ PumpTypeOK' /\ FlagTypeOK' /\ PoolTypeOK'
    BY <1>4
    DEF Await, ctrlVars, futureVars, runVars, pumpVars, kickVars, poolVars,
        closeVars, linkVars, callVars, history, RunTypeOK, PumpTypeOK,
        FlagTypeOK, PoolTypeOK
  <2> QED
    BY <2>2, <2>3, <2>4
<1>5. ASSUME NEW c \in Call, CtxDone(c) PROVE TypeOK'
  BY <1>5
  DEF CtxDone, ctrlVars, futureVars, runVars, pumpVars, kickVars, poolVars,
      closeVars, linkVars, callVars, history, CtrlTypeOK, RunTypeOK, PumpTypeOK,
      FlagTypeOK, PoolTypeOK, CallTypeOK
<1>6. ASSUME NEW p \in Peer, PumpRecv(p) PROVE TypeOK'
  <2>1. PumpTypeOK'
    BY <1>6, CapAssumption DEF PumpRecv, PumpTypeOK, CapAssumption
  <2>2. CtrlTypeOK' /\ RunTypeOK' /\ FlagTypeOK' /\ PoolTypeOK' /\ CallTypeOK'
    BY <1>6
    DEF PumpRecv, ctrlVars, futureVars, runVars, pumpVars, kickVars, poolVars,
        closeVars, linkVars, callVars, history, CtrlTypeOK, RunTypeOK,
        FlagTypeOK, PoolTypeOK, CallTypeOK
  <2> QED
    BY <2>1, <2>2
<1>7. ASSUME NEW p \in Peer, PumpEnd(p) PROVE TypeOK'
  <2>1. SubSeq(inbox[p], 1, pumped[p]) \in Seq(RPC)
        /\ Len(SubSeq(inbox[p], 1, pumped[p])) = pumped[p]
    BY <1>7, SeqFacts DEF PumpTypeOK
  <2>2. PumpTypeOK'
    BY <1>7, <2>1, CapAssumption
    DEF PumpEnd, RecvErrors, PumpTypeOK, CapAssumption
  <2>3. CtrlTypeOK' /\ RunTypeOK' /\ FlagTypeOK' /\ PoolTypeOK' /\ CallTypeOK'
    BY <1>7
    DEF PumpEnd, ctrlVars, futureVars, runVars, pumpVars, kickVars, poolVars,
        closeVars, linkVars, callVars, history, CtrlTypeOK, RunTypeOK,
        FlagTypeOK, PoolTypeOK, CallTypeOK
  <2> QED
    BY <2>2, <2>3
<1>8. ASSUME NEW p \in Peer, RunRequest(p) PROVE TypeOK'
  <2>1. PumpTypeOK' /\ Head(inbox[p]) \in RPC
        /\ Head(inbox[p]).call \in Call
    BY <1>8, TakeTypeOK DEF RunRequest, Receiving
  <2>2. PumpTypeOK'
    BY <1>8, <2>1 DEF TypeOK
  <2>3. PoolTypeOK'
    BY <1>8, <2>1, SeqFacts DEF RunRequest, PoolTypeOK
  <2>4. CallTypeOK'
    BY <1>8, <2>1 DEF RunRequest, CallTypeOK, callVars
  <2>5. CtrlTypeOK' /\ RunTypeOK' /\ FlagTypeOK'
    BY <1>8
    DEF RunRequest, ctrlVars, futureVars, runVars, pumpVars, kickVars, poolVars,
        closeVars, linkVars, callVars, history, CtrlTypeOK, RunTypeOK,
        FlagTypeOK
  <2> QED
    BY <2>2, <2>3, <2>4, <2>5
<1>9. ASSUME NEW p \in Peer, RunResponse(p) PROVE TypeOK'
  <2>1. PumpTypeOK' /\ Head(inbox[p]) \in RPC
        /\ Head(inbox[p]).call \in Call
    BY <1>9, TakeTypeOK DEF RunResponse, Receiving
  <2>2. PumpTypeOK'
    BY <1>9, <2>1 DEF TypeOK
  <2>3. CtrlTypeOK'
    BY <1>9, <2>1, SeqFacts DEF RunResponse, Lookup, CtrlTypeOK, Pending
  <2>4. CallTypeOK'
    BY <1>9, <2>1 DEF RunResponse, CallTypeOK, callVars
  <2>5. RunTypeOK' /\ FlagTypeOK' /\ PoolTypeOK'
    BY <1>9
    DEF RunResponse, ctrlVars, futureVars, runVars, pumpVars, kickVars,
        poolVars, closeVars, linkVars, callVars, history, RunTypeOK, FlagTypeOK,
        PoolTypeOK
  <2> QED
    BY <2>2, <2>3, <2>4, <2>5
<1>10. ASSUME NEW p \in Peer, RunStreamMsg(p) PROVE TypeOK'
  <2>1. PumpTypeOK' /\ Head(inbox[p]) \in RPC
        /\ Head(inbox[p]).call \in Call
    BY <1>10, TakeTypeOK DEF RunStreamMsg, Receiving
  <2>2. PumpTypeOK'
    BY <1>10, <2>1 DEF TypeOK
  <2>3. CtrlTypeOK'
    BY <1>10, <2>1, SeqFacts
    DEF RunStreamMsg, Lookup, CtrlTypeOK, ctrlVars, Pending
  <2>4. RunTypeOK' /\ FlagTypeOK' /\ PoolTypeOK' /\ CallTypeOK'
    BY <1>10
    DEF RunStreamMsg, ctrlVars, futureVars, runVars, pumpVars, kickVars,
        poolVars, closeVars, linkVars, callVars, history, RunTypeOK, FlagTypeOK,
        PoolTypeOK, CallTypeOK
  <2> QED
    BY <2>2, <2>3, <2>4
<1>12. ASSUME NEW p \in Peer, RunEnd(p) PROVE TypeOK'
  BY <1>12
  DEF RunEnd, Leave, Pending, ctrlVars, futureVars, runVars, pumpVars, kickVars,
      poolVars, closeVars, linkVars, callVars, history, CtrlTypeOK, RunTypeOK,
      PumpTypeOK, FlagTypeOK, PoolTypeOK, CallTypeOK
<1>13. ASSUME NEW p \in Peer, RunKick(p) PROVE TypeOK'
  BY <1>13
  DEF RunKick, Leave, Pending, ctrlVars, futureVars, runVars, pumpVars,
      kickVars, poolVars, closeVars, linkVars, callVars, history, CtrlTypeOK,
      RunTypeOK, PumpTypeOK, FlagTypeOK, PoolTypeOK, CallTypeOK
<1>14. ASSUME NEW p \in Peer, NEW e \in pendingRPCs[p], Sweep(p,
         e) PROVE TypeOK'
  <2>1. e \in Pending /\ ResponseMsg(e.tag, e.call,
         CancelStatus(streamErr[p])) \in RPC
    BY <1>14, MsgType DEF Sweep, CtrlTypeOK, Pending, CancelStatus, Status
  <2>2. CtrlTypeOK'
    BY <1>14, <2>1, SeqFacts DEF Sweep, CtrlTypeOK, Pending
  <2>3. RunTypeOK' /\ PumpTypeOK' /\ FlagTypeOK' /\ PoolTypeOK' /\ CallTypeOK'
    BY <1>14
    DEF Sweep, ctrlVars, futureVars, runVars, pumpVars, kickVars, poolVars,
        closeVars, linkVars, callVars, history, RunTypeOK, PumpTypeOK,
        FlagTypeOK, PoolTypeOK, CallTypeOK
  <2> QED
    BY <2>2, <2>3
<1>15. ASSUME NEW p \in Peer, SweepDone(p) PROVE TypeOK'
  BY <1>15
  DEF SweepDone, ctrlVars, futureVars, runVars, pumpVars, kickVars, poolVars,
      closeVars, linkVars, callVars, history, CtrlTypeOK, RunTypeOK, PumpTypeOK,
      FlagTypeOK, PoolTypeOK, CallTypeOK
<1>16. ASSUME NEW p \in Peer, StopAndWait(p) PROVE TypeOK'
  BY <1>16
  DEF StopAndWait, ctrlVars, futureVars, runVars, pumpVars, kickVars, poolVars,
      closeVars, linkVars, callVars, history, CtrlTypeOK, RunTypeOK, PumpTypeOK,
      FlagTypeOK, PoolTypeOK, CallTypeOK
<1>17. ASSUME NEW p \in Peer, PoolCancel(p) PROVE TypeOK'
  BY <1>17
  DEF PoolCancel, ctrlVars, futureVars, runVars, pumpVars, kickVars, poolVars,
      closeVars, linkVars, callVars, history, CtrlTypeOK, RunTypeOK, PumpTypeOK,
      FlagTypeOK, PoolTypeOK, CallTypeOK
<1>18. ASSUME NEW p \in Peer, CloseOrRecv(p) PROVE TypeOK'
  BY <1>18
  DEF CloseOrRecv, ctrlVars, futureVars, runVars, pumpVars, kickVars, poolVars,
      closeVars, linkVars, callVars, history, CtrlTypeOK, RunTypeOK, PumpTypeOK,
      FlagTypeOK, PoolTypeOK, CallTypeOK
<1>19. ASSUME NEW p \in Peer, CloseOrRecvDone(p) PROVE TypeOK'
  BY <1>19
  DEF CloseOrRecvDone, ctrlVars, futureVars, runVars, pumpVars, kickVars,
      poolVars, closeVars, linkVars, callVars, history, CtrlTypeOK, RunTypeOK,
      PumpTypeOK, FlagTypeOK, PoolTypeOK, CallTypeOK
<1>20. ASSUME NEW p \in Peer, WorkerStart(p) PROVE TypeOK'
  <2>1. Head(queue[p]) \in RPC /\ Tail(queue[p]) \in Seq(RPC)
    BY <1>20, SeqFacts DEF WorkerStart, PoolTypeOK
  <2>2. PoolTypeOK'
    BY <1>20, <2>1 DEF WorkerStart, PoolTypeOK
  <2>3. CallTypeOK'
    BY <1>20, <2>1 DEF WorkerStart, CallTypeOK, callVars, RPC
  <2>4. CtrlTypeOK' /\ RunTypeOK' /\ PumpTypeOK' /\ FlagTypeOK'
    BY <1>20
    DEF WorkerStart, ctrlVars, futureVars, runVars, pumpVars, kickVars,
        poolVars, closeVars, linkVars, callVars, history, CtrlTypeOK, RunTypeOK,
        PumpTypeOK, FlagTypeOK
  <2> QED
    BY <2>2, <2>3, <2>4
<1>21. ASSUME NEW p \in Peer, NEW m \in active[p], StreamReply(p, m)
       PROVE  TypeOK'
  <2>1. ServerStreamMsg(m.tag, m.call, sent[m.call] + 1) \in RPC
    <3>1. m.tag \in Nat /\ m.call \in Call
      BY TaskType
    <3>2. sent[m.call] + 1 \in Nat /\ "ok" \in Status
      BY <3>1 DEF CallTypeOK, Status
    <3>3. QED
      BY <3>1, <3>2, MsgType
  <2>2. PumpTypeOK'
    BY <1>21, <2>1, SendTypeOK DEF StreamReply, pumpVars
  <2>3. FlagTypeOK'
    BY <1>21, <2>1, SendTypeOK
    DEF StreamReply, FlagTypeOK, pumpVars, closeVars, linkVars
  <2>4. CallTypeOK'
    BY <1>21, TaskType DEF StreamReply, CallTypeOK, callVars
  <2>5. CtrlTypeOK' /\ RunTypeOK' /\ PoolTypeOK'
    BY <1>21
    DEF StreamReply, ctrlVars, futureVars, runVars, pumpVars, kickVars,
        poolVars, closeVars, linkVars, callVars, history, CtrlTypeOK, RunTypeOK,
        PoolTypeOK
  <2> QED
    BY <2>2, <2>3, <2>4, <2>5
<1>22. ASSUME NEW p \in Peer, NEW m \in active[p], NEW s \in Status,
              Answer(p, m, s)
       PROVE  TypeOK'
  <2>1. ResponseMsg(m.tag, m.call, s) \in RPC
    BY TaskType, MsgType
  <2>2. PumpTypeOK'
    BY <1>22, <2>1, SendTypeOK DEF Answer, pumpVars
  <2>3. FlagTypeOK'
    BY <1>22, <2>1, SendTypeOK
    DEF Answer, FlagTypeOK, pumpVars, closeVars, linkVars
  <2>4. PoolTypeOK'
    BY <1>22 DEF Answer, PoolTypeOK
  <2>5. CallTypeOK'
    BY <1>22, TaskType DEF Answer, CallTypeOK, callVars
  <2>6. CtrlTypeOK' /\ RunTypeOK'
    BY <1>22
    DEF Answer, ctrlVars, futureVars, runVars, pumpVars, kickVars, poolVars,
        closeVars, linkVars, callVars, history, CtrlTypeOK, RunTypeOK
  <2> QED
    BY <2>2, <2>3, <2>4, <2>5, <2>6
<1>23. ASSUME NEW p \in Peer, NEW m \in active[p], GiveUp(p, m) PROVE TypeOK'
  BY <1>23
  DEF GiveUp, ctrlVars, futureVars, runVars, pumpVars, kickVars, poolVars,
      closeVars, linkVars, callVars, history, CtrlTypeOK, RunTypeOK, PumpTypeOK,
      FlagTypeOK, PoolTypeOK, CallTypeOK
<1>24. ASSUME NEW p \in Peer, NEW m \in detached[p], DetachedEnds(p, m)
       PROVE  TypeOK'
  BY <1>24
  DEF DetachedEnds, ctrlVars, futureVars, runVars, pumpVars, kickVars, poolVars,
      closeVars, linkVars, callVars, history, CtrlTypeOK, RunTypeOK, PumpTypeOK,
      FlagTypeOK, PoolTypeOK, CallTypeOK
<1>25. CASE Break
  BY <1>25
  DEF Break, ctrlVars, futureVars, runVars, pumpVars, kickVars, poolVars,
      closeVars, linkVars, callVars, history, CtrlTypeOK, RunTypeOK, PumpTypeOK,
      FlagTypeOK, PoolTypeOK, CallTypeOK
<1>26. CASE HandlerReturn
  BY <1>26
  DEF HandlerReturn, ctrlVars, futureVars, runVars, pumpVars, kickVars,
      poolVars, closeVars, linkVars, callVars, history, CtrlTypeOK, RunTypeOK,
      PumpTypeOK, FlagTypeOK, PoolTypeOK, CallTypeOK
<1>27. QED
  BY <1>1, <1>2, <1>3, <1>4, <1>5, <1>6, <1>7, <1>8, <1>9, <1>10, <1>12,
     <1>13, <1>14, <1>15, <1>16, <1>17, <1>18, <1>19, <1>20, <1>21, <1>22,
     <1>23, <1>24, <1>25, <1>26
  DEF Next, Pump, Run, Work, Close, Reply, ReplyErr, Status

\* Every state of the two controllers has the types and respects the
\* capacities: recvWrapper.c never holds more than RecvCap payloads.
THEOREM TypeCorrect == Spec => []TypeOK
  BY InitTypeOK, NextTypeOK, PTL DEF Spec

-------------------------------------------------------------------------------
(***************************************************************************)
(* Run never panics. Bookkeeping is inductive: one lemma for each action   *)
(* that disturbs it.                                                       *)
(***************************************************************************)

\* Messages, tasks and entries are about calls.
LEMMA Elements ==
  ASSUME TypeOK, NEW p \in Peer
  PROVE  /\ inbox[p] \in Seq(RPC)
         /\ queue[p] \in Seq(RPC)
         /\ \A i \in 1 .. Len(inbox[p]) :
              inbox[p][i] \in RPC /\ inbox[p][i].call \in Call
         /\ \A i \in 1 .. Len(queue[p]) :
              queue[p][i] \in RPC /\ queue[p][i].call \in Call
         /\ \A e \in pendingRPCs[p] :
              e = [tag |-> e.tag, call |-> e.call] /\ e.call \in Call
<1>1. inbox[p] \in Seq(RPC) /\ queue[p] \in Seq(RPC)
  BY DEF TypeOK, PumpTypeOK, PoolTypeOK
<1>2. \A e \in pendingRPCs[p] : e \in Pending
  BY DEF TypeOK, CtrlTypeOK
<1>3. \A e \in pendingRPCs[p] :
        e = [tag |-> e.tag, call |-> e.call] /\ e.call \in Call
  BY <1>2 DEF Pending
<1>4. \A m \in RPC : m.call \in Call
  BY DEF RPC
<1>5. QED
  BY <1>1, <1>3, <1>4, SeqFacts

\* The bookkeeping holds when both peers have just called Serve.
LEMMA InitBookkeeping == Init => Bookkeeping
<1> SUFFICES ASSUME Init PROVE Bookkeeping
  OBVIOUS
<1> USE CallerPeer DEF Init
<1>1. TagsUnique /\ Unsent
  BY DEF TagsUnique, Unsent
<1>2. PendingOpen /\ Registered
  BY DEF PendingOpen, Registered
<1>3. WireInv /\ WireOrder /\ PoolInv
  BY DEF WireInv, WireOrder, PoolInv
<1>4. QED
  BY <1>1, <1>2, <1>3 DEF Bookkeeping

\* A step that only moves a caller on from waiting, or nothing that the
\* bookkeeping is about.
LEMMA CallerStep ==
  ASSUME TypeOK, Bookkeeping, NEW c \in Call, caller[c] = "waiting",
         \/ caller' = [caller EXCEPT ![c] = "done"]
         \/ caller' = [caller EXCEPT ![c] = "cancelled"]
         \/ UNCHANGED caller,
         UNCHANGED <<ctrlVars, closed, run, inbox, queue, active, tag, stage>>
  PROVE  Bookkeeping'
<1> USE DEF ctrlVars
<1>1. \A d \in Call : /\ caller'[d] = "idle" <=> caller[d] = "idle"
                      /\ caller'[d] = "stored" <=> caller[d] = "stored"
  BY DEF TypeOK, CallTypeOK
<1>2. \A m : m.call \in Call => (Tagged(m)' <=> Tagged(m))
  BY <1>1 DEF Tagged
<1>3. TagsUnique' /\ Registered' /\ Unsent'
  BY <1>1 DEF Bookkeeping, TagsUnique, Registered, Unsent
<1>4. PendingOpen'
  BY <1>1, <1>2, Elements DEF Bookkeeping, PendingOpen, TypeOK, CtrlTypeOK
<1>5. WireInv' /\ WireOrder'
  BY <1>2, Elements DEF Bookkeeping, WireInv, WireOrder, InFlight
<1>6. PoolInv'
  BY <1>2, Elements, TaskType DEF Bookkeeping, PoolInv, IsTask
<1>7. QED
  BY <1>3, <1>4, <1>5, <1>6 DEF Bookkeeping

\* A step that changes nothing the bookkeeping is about.
LEMMA Untouched ==
  ASSUME Bookkeeping,
         UNCHANGED <<ctrlVars, closed, run, inbox, queue, active, caller, tag,
                     stage>>
  PROVE  Bookkeeping'
<1> USE DEF ctrlVars, Tagged
<1>1. TagsUnique' /\ PendingOpen' /\ Registered' /\ Unsent'
  BY DEF Bookkeeping, TagsUnique, PendingOpen, Registered, Unsent
<1>2. WireInv' /\ WireOrder' /\ PoolInv'
  BY DEF Bookkeeping, WireInv, WireOrder, InFlight, PoolInv, IsTask
<1>3. QED
  BY <1>1, <1>2 DEF Bookkeeping

\* Leaving the loop only weakens what is asked of the pending entries.
LEMMA RunStep ==
  ASSUME TypeOK, Bookkeeping, NEW p \in Peer,
         NEW x \in {"sweep", "stopping", "returned"},
         run' = [run EXCEPT ![p] = x],
         UNCHANGED <<ctrlVars, closed, inbox, queue, active, caller, tag, stage>>
  PROVE  Bookkeeping'
<1> USE DEF ctrlVars, Tagged
<1>1. \A q \in Peer : run'[q] = "loop" => run[q] = "loop"
  BY DEF TypeOK, RunTypeOK
<1>2. TagsUnique' /\ PendingOpen' /\ Unsent'
  BY <1>1 DEF Bookkeeping, TagsUnique, PendingOpen, Unsent
<1>3. Registered'
  BY <1>1, CallerPeer DEF Bookkeeping, Registered
<1>4. WireInv' /\ WireOrder' /\ PoolInv'
  BY DEF Bookkeeping, WireInv, WireOrder, InFlight, PoolInv, IsTask
<1>5. QED
  BY <1>2, <1>3, <1>4 DEF Bookkeeping

\* The pool forgets tasks.
LEMMA PoolStep ==
  ASSUME TypeOK, Bookkeeping, NEW p \in Peer,
         \/ queue' = [queue EXCEPT ![p] = <<>>] /\ UNCHANGED active
         \/ UNCHANGED queue /\ \E m : active' = [active EXCEPT ![p] = @ \ {m}],
         UNCHANGED <<ctrlVars, closed, run, inbox, caller, tag, stage>>
  PROVE  Bookkeeping'
<1> USE DEF ctrlVars, Tagged
<1>1. TagsUnique' /\ PendingOpen' /\ Registered' /\ Unsent'
  BY DEF Bookkeeping, TagsUnique, PendingOpen, Registered, Unsent
<1>2. WireInv' /\ WireOrder'
  BY DEF Bookkeeping, WireInv, WireOrder, InFlight
<1>3. PoolInv'
  <2>1. \A q \in Peer : \A m \in active'[q] : m \in active[q]
    BY DEF TypeOK, PoolTypeOK
  <2>2. \A q \in Peer : queue'[q] = queue[q] \/ queue'[q] = <<>>
    BY DEF TypeOK, PoolTypeOK
  <2>3. \A q \in Peer : \A m \in active'[q] : IsTask(q, m, "running")'
    BY <2>1 DEF Bookkeeping, PoolInv, IsTask
  <2>4. ASSUME NEW q \in Peer
        PROVE  /\ \A i \in 1 .. Len(queue'[q]) : IsTask(q, queue[q][i], "queued")'
               /\ \A i, j \in 1 .. Len(queue'[q]) :
                    queue'[q][i].call = queue'[q][j].call => i = j
    <3>1. CASE queue'[q] = queue[q]
      BY <3>1 DEF Bookkeeping, PoolInv, IsTask
    <3>2. CASE queue'[q] = <<>>
      BY <3>2
    <3>3. QED
      BY <2>2, <3>1, <3>2
  <2>5. QED
    BY <2>3, <2>4 DEF PoolInv
<1>4. QED
  BY <1>1, <1>2, <1>3 DEF Bookkeeping

\* A payload taken by Run is the head of the inbox, and the error payload
\* cuts off a suffix: the order of what remains is as it was.
LEMMA ShrinkOrder ==
  ASSUME TypeOK, WireOrder, NEW p \in Peer,
         \/ \E k \in 0 .. Len(inbox[p]) :
              inbox' = [inbox EXCEPT ![p] = SubSeq(@, 1, k)]
         \/ inbox[p] # <<>> /\ inbox' = [inbox EXCEPT ![p] = Tail(@)]
  PROVE  /\ \A q \in Peer : \A i \in 1 .. Len(inbox'[q]) :
              \E k \in 1 .. Len(inbox[q]) : inbox'[q][i] = inbox[q][k]
         /\ WireOrder'
<1>1. PICK s \in Seq(RPC) : /\ inbox' = [inbox EXCEPT ![p] = s]
                            /\ \/ \E k \in 0 .. Len(inbox[p]) :
                                    s = SubSeq(inbox[p], 1, k)
                               \/ inbox[p] # <<>> /\ s = Tail(inbox[p])
  BY Elements, SeqFacts
<1>2. inbox[p] \in Seq(RPC) /\ Len(s) \in Nat /\ Len(inbox[p]) \in Nat
  BY Elements, SeqFacts
<1>3. \A q \in Peer : inbox'[q] = IF q = p THEN s ELSE inbox[q]
  BY <1>1 DEF TypeOK, PumpTypeOK
<1>4. \E d \in {0, 1} : /\ Len(s) + d <= Len(inbox[p])
                        /\ \A i \in 1 .. Len(s) : s[i] = inbox[p][i + d]
  <2>1. CASE \E k \in 0 .. Len(inbox[p]) : s = SubSeq(inbox[p], 1, k)
    <3>1. /\ Len(s) + 0 <= Len(inbox[p])
          /\ \A i \in 1 .. Len(s) : s[i] = inbox[p][i + 0]
      BY <1>2, <2>1, SeqFacts
    <3>2. QED
      BY <3>1
  <2>2. CASE inbox[p] # <<>> /\ s = Tail(inbox[p])
    <3>1. /\ Len(s) + 1 <= Len(inbox[p])
          /\ \A i \in 1 .. Len(s) : s[i] = inbox[p][i + 1]
      BY <1>2, <2>2, SeqFacts
    <3>2. QED
      BY <3>1
  <2>3. QED
    BY <1>1, <2>1, <2>2
<1>5. PICK d \in {0, 1} : /\ Len(s) + d <= Len(inbox[p])
                          /\ \A i \in 1 .. Len(s) : s[i] = inbox[p][i + d]
  BY <1>4
<1>6. \A i \in 1 .. Len(s) : i + d \in 1 .. Len(inbox[p])
  BY <1>2, <1>5
<1>7. \A q \in Peer : \A i \in 1 .. Len(inbox'[q]) :
        \E k \in 1 .. Len(inbox[q]) : inbox'[q][i] = inbox[q][k]
  BY <1>3, <1>5, <1>6
<1>8. WireOrder'
  <2> SUFFICES ASSUME NEW q \in Peer, NEW i \in 1 .. Len(inbox'[q]),
                      NEW j \in 1 .. Len(inbox'[q]),
                      inbox'[q][i].call = inbox'[q][j].call, i < j
               PROVE  /\ inbox'[q][i].type # "response"
                      /\ \/ inbox'[q][i].type # "request"
                         \/ inbox'[q][j].type # "request"
    BY DEF WireOrder
  <2>1. CASE q # p
    BY <1>3, <2>1 DEF WireOrder
  <2>2. CASE q = p
    <3>1. /\ i + d \in 1 .. Len(inbox[p]) /\ j + d \in 1 .. Len(inbox[p])
          /\ i + d < j + d
          /\ inbox'[q][i] = inbox[p][i + d] /\ inbox'[q][j] = inbox[p][j + d]
      <4>1. i \in 1 .. Len(s) /\ j \in 1 .. Len(s) /\ inbox'[q] = s
        BY <1>3, <2>2
      <4>2. i \in Int /\ j \in Int /\ d \in Int /\ i + d < j + d
        OBVIOUS
      <4>3. QED
        BY <1>5, <1>6, <4>1, <4>2
    <3>2. QED
      BY <3>1 DEF WireOrder
  <2>3. QED
    BY <2>1, <2>2
<1>9. QED
  BY <1>7, <1>8

\* Messages leave the wire, and nothing else changes.
LEMMA ShrinkStep ==
  ASSUME TypeOK, Bookkeeping, NEW p \in Peer,
         \/ \E k \in 0 .. Len(inbox[p]) :
              inbox' = [inbox EXCEPT ![p] = SubSeq(@, 1, k)]
         \/ inbox[p] # <<>> /\ inbox' = [inbox EXCEPT ![p] = Tail(@)],
         UNCHANGED <<ctrlVars, closed, run, queue, active, caller, tag, stage>>
  PROVE  Bookkeeping'
<1> USE DEF ctrlVars, Tagged
<1>1. TagsUnique' /\ PendingOpen' /\ Registered' /\ Unsent'
  BY DEF Bookkeeping, TagsUnique, PendingOpen, Registered, Unsent
<1>2. PoolInv'
  BY DEF Bookkeeping, PoolInv, IsTask
<1>3. /\ \A q \in Peer : \A i \in 1 .. Len(inbox'[q]) :
           \E k \in 1 .. Len(inbox[q]) : inbox'[q][i] = inbox[q][k]
      /\ WireOrder'
  BY ShrinkOrder DEF Bookkeeping
<1>4. WireInv'
  BY <1>3, SMTT(30) DEF Bookkeeping, WireInv, InFlight
<1>5. QED
  BY <1>1, <1>2, <1>3, <1>4 DEF Bookkeeping

\* The last message of its call leaves the wire, and its stage changes: no
\* other message is affected.
LEMMA TakeLast ==
  ASSUME TypeOK, Bookkeeping, NEW p \in Peer, inbox[p] # <<>>,
         Head(inbox[p]).type \in {"request", "response"},
         inbox' = [inbox EXCEPT ![p] = Tail(@)],
         NEW c \in Call, Head(inbox[p]).call = c, NEW st,
         stage' = [stage EXCEPT ![c] = st],
         UNCHANGED <<caller, tag>>
  PROVE  WireInv' /\ WireOrder'
<1>1. /\ inbox[p] \in Seq(RPC) /\ Head(inbox[p]) = inbox[p][1]
      /\ 1 \in 1 .. Len(inbox[p]) /\ Len(inbox[p]) \in Nat
  BY Elements, SeqFacts
<1>2. InFlight(p, inbox[p][1])
  BY <1>1 DEF Bookkeeping, WireInv
<1>3. ASSUME NEW q \in Peer, NEW i \in 1 .. Len(inbox'[q])
      PROVE  inbox'[q][i].call # c
  <2>1. CASE q = p
    <3>1. /\ inbox'[q] = Tail(inbox[p])
          /\ i + 1 \in 1 .. Len(inbox[p]) /\ 1 < i + 1
          /\ inbox'[q][i] = inbox[p][i + 1]
      BY <1>1, <2>1, SeqFacts DEF TypeOK, PumpTypeOK
    <3>2. InFlight(p, inbox[p][i + 1]) /\ inbox[p][i + 1] \in RPC
      BY <3>1, Elements DEF Bookkeeping, WireInv
    <3>3. \/ inbox[p][i + 1].call # c
          \/ inbox[p][1].type = "request" /\ inbox[p][i + 1].type # "request"
      BY <1>1, <3>1 DEF Bookkeeping, WireOrder
    <3>4. QED
      BY <1>1, <1>2, <3>1, <3>2, <3>3 DEF InFlight, RPC
  <2>2. CASE q # p
    <3>1. inbox'[q] = inbox[q]
      BY <2>2 DEF TypeOK, PumpTypeOK
    <3>2. InFlight(q, inbox[q][i]) /\ inbox[q][i] \in RPC
      BY <3>1, Elements DEF Bookkeeping, WireInv
    <3>3. Other(p) # Other(q)
      BY <2>2 DEF Other, Peer
    <3>4. CASE inbox[p][1].type = "request"
      <4>1. stage[c] = "sent" /\ Caller(c) = Other(p)
        BY <1>1, <1>2, <3>4 DEF InFlight
      <4>2. QED
        BY <3>1, <3>2, <3>3, <4>1 DEF InFlight, RPC
    <3>5. CASE inbox[p][1].type = "response"
      <4>1. stage[c] = "replied" /\ Caller(c) = p
        BY <1>1, <1>2, <3>5 DEF InFlight
      <4>2. QED
        BY <2>2, <3>1, <3>2, <4>1 DEF InFlight, RPC
    <3>6. QED
      BY <1>1, <3>4, <3>5
  <2>3. QED
    BY <2>1, <2>2
<1>4. /\ \A q \in Peer : \A i \in 1 .. Len(inbox'[q]) :
           \E k \in 1 .. Len(inbox[q]) : inbox'[q][i] = inbox[q][k]
      /\ WireOrder'
  BY ShrinkOrder DEF Bookkeeping
<1>5. WireInv'
  <2> SUFFICES ASSUME NEW q \in Peer, NEW i \in 1 .. Len(inbox'[q])
               PROVE  InFlight(q, inbox[q][i])'
    BY DEF WireInv
  <2>1. PICK k \in 1 .. Len(inbox[q]) : inbox'[q][i] = inbox[q][k]
    BY <1>4
  <2>2. inbox[q][k].call \in Call /\ inbox[q][k].call # c
    BY <1>3, <2>1, Elements
  <2>3. stage'[inbox[q][k].call] = stage[inbox[q][k].call]
    BY <2>2 DEF TypeOK, CallTypeOK
  <2>4. InFlight(q, inbox[q][k])
    BY DEF Bookkeeping, WireInv
  <2>5. QED
    BY <2>1, <2>3, <2>4 DEF InFlight, Tagged
<1>6. QED
  BY <1>4, <1>5

\* A call gets a tag no other call of its controller has.
LEMMA RequestStoreStep ==
  ASSUME TypeOK, Bookkeeping, NEW c \in Call, RequestStore(c)
  PROVE  Bookkeeping'
<1> DEFINE p == Caller(c)
           t == count[p] + 1
<1>1. /\ p \in Peer /\ t \in Nat /\ caller[c] = "idle"
      /\ count' = [count EXCEPT ![p] = t]
      /\ tag' = [tag EXCEPT ![c] = t]
      /\ pendingRPCs' = [pendingRPCs EXCEPT ![p] =
           {e \in @ : e.tag # t} \cup {[tag |-> t, call |-> c]}]
      /\ caller' = [caller EXCEPT ![c] = "stored"]
      /\ UNCHANGED <<closed, run, inbox, queue, active, stage>>
  BY CallerPeer
  DEF RequestStore, NextTag, TypeOK, CtrlTypeOK, futureVars, runVars, poolVars,
      history
<1> HIDE DEF p
<1>2. \A d \in Call : d # c => caller'[d] = caller[d] /\ tag'[d] = tag[d]
  BY <1>1 DEF TypeOK, CallTypeOK
<1>3. tag'[c] = t /\ caller'[c] = "stored" /\ count'[p] = t
  BY <1>1 DEF TypeOK, CallTypeOK, CtrlTypeOK
<1>4. \A m : m.call \in Call /\ Tagged(m) => m.call # c /\ Tagged(m)'
  BY <1>1, <1>2 DEF Tagged
<1>5. TagsUnique'
  <2>1. \A d \in Call : caller[d] # "idle" /\ Caller(d) = p => tag[d] # t
    BY <1>1 DEF Bookkeeping, TagsUnique, TypeOK, CtrlTypeOK, CallTypeOK
  <2>2. ASSUME NEW d \in Call, caller'[d] # "idle"
        PROVE  tag'[d] \in Nat /\ tag'[d] <= count'[Caller(d)]
    <3>1. CASE d = c
      BY <1>1, <1>3, <3>1 DEF p
    <3>2. CASE d # c
      <4>1. tag'[d] \in Nat /\ tag'[d] <= count[Caller(d)] /\ Caller(d) \in Peer
        BY <1>2, <2>2, <3>2, CallerPeer DEF Bookkeeping, TagsUnique
      <4>2. count'[Caller(d)] \in Nat /\ count[Caller(d)] <= count'[Caller(d)]
            /\ count[Caller(d)] \in Nat
        BY <1>1, <4>1 DEF TypeOK, CtrlTypeOK
      <4>3. QED
        BY <4>1, <4>2
    <3>3. QED
      BY <3>1, <3>2
  <2>3. ASSUME NEW d \in Call, NEW f \in Call,
               caller'[d] # "idle", caller'[f] # "idle",
               Caller(d) = Caller(f), tag'[d] = tag'[f]
        PROVE  d = f
    BY <1>1, <1>2, <1>3, <2>1, <2>3 DEF p, Bookkeeping, TagsUnique
  <2>4. QED
    BY <2>2, <2>3 DEF TagsUnique
<1>6. PendingOpen'
  BY <1>1, <1>2, <1>3, <1>4, Elements
  DEF p, Bookkeeping, PendingOpen, Tagged, TypeOK, CtrlTypeOK
<1>7. Registered'
  <2>1. ASSUME NEW d \in Call, run'[Caller(d)] = "loop", caller'[d] # "idle",
               stage'[d] # "delivered"
        PROVE  [tag |-> tag'[d], call |-> d] \in pendingRPCs'[Caller(d)]
    <3>1. CASE d = c
      BY <1>1, <1>3, <3>1 DEF p, TypeOK, CtrlTypeOK
    <3>2. CASE d # c
      <4>1. [tag |-> tag[d], call |-> d] \in pendingRPCs[Caller(d)]
        BY <1>1, <1>2, <2>1, <3>2 DEF Bookkeeping, Registered
      <4>2. Caller(d) = p => tag[d] # t
        BY <1>1, <1>2, <2>1, <3>2
        DEF Bookkeeping, TagsUnique, TypeOK, CtrlTypeOK, CallTypeOK
      <4>3. QED
        BY <1>1, <1>2, <3>2, <4>1, <4>2, CallerPeer DEF TypeOK, CtrlTypeOK
    <3>3. QED
      BY <3>1, <3>2
  <2>2. QED
    BY <2>1 DEF Registered
<1>8. Unsent'
  BY <1>1, <1>2 DEF Bookkeeping, Unsent
<1>9. WireInv' /\ WireOrder'
  BY <1>1, <1>4, Elements DEF Bookkeeping, WireInv, WireOrder, InFlight
<1>10. PoolInv'
  BY <1>1, <1>4, Elements, TaskType DEF Bookkeeping, PoolInv, IsTask
<1>11. QED
  BY <1>5, <1>6, <1>7, <1>8, <1>9, <1>10 DEF Bookkeeping

\* Where the messages of an inbox come from after a Send.
LEMMA Appended ==
  ASSUME TypeOK, NEW q \in Peer, NEW m \in RPC,
         inbox' = inbox \/ inbox' = [inbox EXCEPT ![q] = Append(@, m)]
  PROVE  \A r \in Peer : \A i \in 1 .. Len(inbox'[r]) :
           /\ Len(inbox[r]) \in Nat /\ i \in Nat
           /\ \/ i \in 1 .. Len(inbox[r]) /\ inbox'[r][i] = inbox[r][i]
              \/ r = q /\ i = Len(inbox[q]) + 1 /\ inbox'[r][i] = m
<1>1. \A r \in Peer : inbox[r] \in Seq(RPC) /\ Len(inbox[r]) \in Nat
  BY Elements, SeqFacts
<1>2. CASE inbox' = inbox
  BY <1>1, <1>2
<1>3. CASE inbox' = [inbox EXCEPT ![q] = Append(@, m)]
  <2>1. \A r \in Peer : inbox'[r] = IF r = q THEN Append(inbox[q], m) ELSE inbox[r]
    BY <1>3 DEF TypeOK, PumpTypeOK
  <2>2. /\ Len(Append(inbox[q], m)) = Len(inbox[q]) + 1
        /\ \A i \in 1 .. Len(inbox[q]) : Append(inbox[q], m)[i] = inbox[q][i]
        /\ Append(inbox[q], m)[Len(inbox[q]) + 1] = m
    BY <1>1, SeqFacts
  <2>3. ASSUME NEW r \in Peer, NEW i \in 1 .. Len(inbox'[r])
        PROVE  /\ Len(inbox[r]) \in Nat /\ i \in Nat
               /\ \/ i \in 1 .. Len(inbox[r]) /\ inbox'[r][i] = inbox[r][i]
                  \/ r = q /\ i = Len(inbox[q]) + 1 /\ inbox'[r][i] = m
    <3>1. CASE r = q
      <4>1. inbox'[r] = Append(inbox[q], m) /\ i \in 1 .. Len(inbox[q]) + 1
        BY <2>1, <2>2, <3>1
      <4>2. QED
        BY <1>1, <2>2, <3>1, <4>1
    <3>2. CASE r # q
      BY <1>1, <2>1, <3>2
    <3>3. QED
      BY <3>1, <3>2
  <2>4. QED
    BY <2>3
<1>4. QED
  BY <1>2, <1>3

\* A Send keeps the order of the stream if nothing of its call that must come
\* later is already in flight.
LEMMA SendStep ==
  ASSUME TypeOK, WireInv, WireOrder, NEW q \in Peer, NEW m \in RPC,
         inbox' = inbox \/ inbox' = [inbox EXCEPT ![q] = Append(@, m)],
         \A r \in Peer : \A x \in RPC : InFlight(r, x) => InFlight(r, x)',
         InFlight(q, m)',
         \A i \in 1 .. Len(inbox[q]) :
           inbox[q][i].call = m.call =>
             /\ inbox[q][i].type # "response"
             /\ inbox[q][i].type # "request" \/ m.type # "request"
  PROVE  WireInv' /\ WireOrder'
<1>1. \A r \in Peer : \A i \in 1 .. Len(inbox'[r]) :
        /\ Len(inbox[r]) \in Nat /\ i \in Nat
        /\ \/ i \in 1 .. Len(inbox[r]) /\ inbox'[r][i] = inbox[r][i]
           \/ r = q /\ i = Len(inbox[q]) + 1 /\ inbox'[r][i] = m
  BY Appended
<1>2. WireInv'
  <2> SUFFICES ASSUME NEW r \in Peer, NEW i \in 1 .. Len(inbox'[r])
               PROVE  InFlight(r, inbox[r][i])'
    BY DEF WireInv
  <2>1. \E x \in RPC : x = inbox'[r][i] /\ InFlight(r, x)'
    <3>1. CASE i \in 1 .. Len(inbox[r]) /\ inbox'[r][i] = inbox[r][i]
      <4>1. inbox[r][i] \in RPC
        BY <3>1, Elements
      <4>2. PICK x \in RPC : x = inbox[r][i]
        BY <4>1
      <4>3. InFlight(r, x)
        BY <3>1, <4>2 DEF WireInv
      <4>4. QED
        BY <3>1, <4>2, <4>3
    <3>2. CASE r = q /\ inbox'[r][i] = m
      BY <3>2
    <3>3. QED
      BY <1>1, <3>1, <3>2
  <2>2. PICK x \in RPC : x = inbox'[r][i] /\ InFlight(r, x)'
    BY <2>1
  <2>3. QED
    BY <2>2 DEF InFlight, Tagged
<1>3. WireOrder'
  <2> SUFFICES ASSUME NEW r \in Peer, NEW i \in 1 .. Len(inbox'[r]),
                      NEW j \in 1 .. Len(inbox'[r]),
                      inbox'[r][i].call = inbox'[r][j].call, i < j
               PROVE  /\ inbox'[r][i].type # "response"
                      /\ \/ inbox'[r][i].type # "request"
                         \/ inbox'[r][j].type # "request"
    BY DEF WireOrder
  <2>1. i \in 1 .. Len(inbox[r]) /\ inbox'[r][i] = inbox[r][i]
    <3>1. j <= Len(inbox[r]) + 1
      BY <1>1
    <3>2. QED
      BY <1>1, <3>1
  <2>2. CASE j \in 1 .. Len(inbox[r]) /\ inbox'[r][j] = inbox[r][j]
    BY <2>1, <2>2 DEF WireOrder
  <2>3. CASE r = q /\ inbox'[r][j] = m
    BY <2>1, <2>3
  <2>4. QED
    BY <1>1, <2>2, <2>3
<1>4. QED
  BY <1>2, <1>3

\* No message or task of a call is anywhere before its request is sent.
LEMMA RequestSendStep ==
  ASSUME TypeOK, Bookkeeping, NEW c \in Call, RequestSend(c)
  PROVE  Bookkeeping'
<1> DEFINE q == Other(Caller(c))
<1>1. PICK m \in RPC : m = RequestMsg(tag[c], c)
  BY MsgType DEF Status, TypeOK, CallTypeOK
<1>2. /\ q \in Peer /\ Caller(c) \in Peer /\ caller[c] = "stored"
      /\ stage[c] = "none"
      /\ caller' = [caller EXCEPT ![c] = "waiting"]
      /\ stage' = [stage EXCEPT ![c] = "sent"]
      /\ \/ inbox' = inbox
         \/ inbox' = [inbox EXCEPT ![q] = Append(@, m)]
      /\ UNCHANGED <<count, pendingRPCs, closed, run, queue, active, tag>>
      /\ m.call = c /\ m.type = "request" /\ m.tag = tag[c]
      /\ Caller(c) = Other(q)
  BY <1>1, CallerPeer
  DEF RequestSend, Send, Bookkeeping, Unsent, ctrlVars, futureVars, runVars,
      poolVars, RequestMsg, Other, Peer
<1> HIDE DEF q
<1>3. \A d \in Call : /\ d # c => stage'[d] = stage[d] /\ caller'[d] = caller[d]
                      /\ caller[d] # "idle" <=> caller'[d] # "idle"
  BY <1>2 DEF TypeOK, CallTypeOK
<1>4. stage'[c] = "sent" /\ caller'[c] = "waiting"
  BY <1>2 DEF TypeOK, CallTypeOK
<1>5. TagsUnique' /\ Unsent'
  BY <1>2, <1>3, <1>4 DEF Bookkeeping, TagsUnique, Unsent
<1>6. PendingOpen' /\ Registered'
  BY <1>2, <1>3, <1>4, Elements
  DEF Bookkeeping, PendingOpen, Registered, Tagged, TypeOK, CtrlTypeOK
<1>7. \A r \in Peer : \A x \in RPC : InFlight(r, x) => x.call # c /\ InFlight(r, x)'
  <2> SUFFICES ASSUME NEW r \in Peer, NEW x \in RPC, InFlight(r, x)
               PROVE  x.call # c /\ InFlight(r, x)'
    OBVIOUS
  <2>1. x.call \in Call /\ x.type \in {"request", "response", "streamMsg"}
    BY DEF RPC
  <2>2. x.call # c
    BY <1>2, <2>1 DEF InFlight
  <2>3. QED
    BY <1>2, <1>3, <2>1, <2>2 DEF InFlight, Tagged
<1>8. InFlight(q, m)'
  <2>1. m = RequestMsg(m.tag, m.call)
    BY <1>1, <1>2
  <2>2. QED
    BY <1>2, <1>4, <2>1 DEF InFlight, Tagged
<1>9. \A i \in 1 .. Len(inbox[q]) : inbox[q][i].call # m.call
  BY <1>2, <1>7, Elements DEF Bookkeeping, WireInv
<1>10. WireInv' /\ WireOrder'
  BY <1>2, <1>7, <1>8, <1>9, SendStep DEF Bookkeeping
<1>11. PoolInv'
  <2>1. \A r \in Peer : \A x \in RPC : \A st \in {"queued", "running"} :
          IsTask(r, x, st) => IsTask(r, x, st)'
    BY <1>2, <1>3 DEF IsTask, Tagged, RPC
  <2>2. QED
    BY <1>2, <2>1, Elements, TaskType DEF Bookkeeping, PoolInv
<1>12. QED
  BY <1>5, <1>6, <1>10, <1>11 DEF Bookkeeping

\* The head Run takes, as the rest of the proofs use it.
LEMMA HeadInFlight ==
  ASSUME TypeOK, Bookkeeping, NEW p \in Peer, pumped[p] > 0
  PROVE  /\ inbox[p] # <<>> /\ Head(inbox[p]) \in RPC
         /\ Head(inbox[p]).call \in Call
         /\ InFlight(p, Head(inbox[p]))
<1>1. inbox[p] \in Seq(RPC) /\ Len(inbox[p]) > 0 /\ Len(inbox[p]) \in Nat
  BY Elements, SeqFacts DEF TypeOK, PumpTypeOK
<1>2. inbox[p] # <<>> /\ Head(inbox[p]) = inbox[p][1] /\ 1 \in 1 .. Len(inbox[p])
  BY <1>1, SeqFacts
<1>3. QED
  BY <1>2, Elements DEF Bookkeeping, WireInv

\* A request moves from the wire to the pool.
LEMMA RunRequestStep ==
  ASSUME TypeOK, Bookkeeping, NEW p \in Peer, RunRequest(p)
  PROVE  Bookkeeping'
<1>1. PICK m \in RPC : m = Head(inbox[p]) /\ m.call \in Call
  BY HeadInFlight DEF RunRequest, Receiving
<1>2. /\ inbox[p] # <<>> /\ m.type = "request" /\ InFlight(p, m)
      /\ inbox' = [inbox EXCEPT ![p] = Tail(@)]
      /\ queue' = [queue EXCEPT ![p] = Append(@, m)]
      /\ stage' = [stage EXCEPT ![m.call] = "queued"]
      /\ UNCHANGED <<count, pendingRPCs, closed, run, active, caller, tag>>
  BY <1>1, HeadInFlight
  DEF RunRequest, Receiving, Take, ctrlVars, futureVars, runVars, callVars
<1>3. /\ Tagged(m) /\ Caller(m.call) = Other(p) /\ stage[m.call] = "sent"
      /\ stage'[m.call] = "queued"
      /\ \A d \in Call : d # m.call => stage'[d] = stage[d]
  BY <1>1, <1>2 DEF InFlight, TypeOK, CallTypeOK
<1>4. WireInv' /\ WireOrder'
  BY <1>1, <1>2, TakeLast
<1>5. TagsUnique' /\ PendingOpen'
  BY <1>2 DEF Bookkeeping, TagsUnique, PendingOpen, Tagged
<1>6. Registered' /\ Unsent'
  BY <1>2, <1>3 DEF Bookkeeping, Registered, Unsent
<1>7. PoolInv'
  <2>1. \A q \in Peer : \A x \in RPC : \A st \in {"queued", "running"} :
          IsTask(q, x, st) => x.call # m.call /\ IsTask(q, x, st)'
    BY <1>2, <1>3 DEF IsTask, Tagged, RPC
  <2>2. IsTask(p, m, "queued")'
    <3>1. m = RequestMsg(m.tag, m.call)
      BY <1>2 DEF InFlight
    <3>2. QED
      BY <1>2, <1>3, <3>1 DEF IsTask, Tagged
  <2>3. ASSUME NEW q \in Peer
        PROVE  /\ \A i \in 1 .. Len(queue'[q]) : IsTask(q, queue[q][i], "queued")'
               /\ \A i, j \in 1 .. Len(queue'[q]) :
                    queue'[q][i].call = queue'[q][j].call => i = j
    <3>1. \A i \in 1 .. Len(queue[q]) :
            /\ queue[q][i] \in RPC /\ IsTask(q, queue[q][i], "queued")
            /\ queue[q][i].call # m.call
      BY <2>1, Elements DEF Bookkeeping, PoolInv
    <3>2. \A i \in 1 .. Len(queue'[q]) :
            /\ Len(queue[q]) \in Nat
            /\ \/ i \in 1 .. Len(queue[q]) /\ queue'[q][i] = queue[q][i]
               \/ q = p /\ i = Len(queue[q]) + 1 /\ queue'[q][i] = m
      <4>1. queue[q] \in Seq(RPC) /\ Len(queue[q]) \in Nat
        BY Elements, SeqFacts
      <4>2. CASE q = p
        <5>1. queue'[q] = Append(queue[q], m)
          BY <1>2, <4>2 DEF TypeOK, PoolTypeOK
        <5>2. QED
          BY <4>1, <4>2, <5>1, SeqFacts
      <4>3. CASE q # p
        <5>1. queue'[q] = queue[q]
          BY <1>2, <4>3 DEF TypeOK, PoolTypeOK
        <5>2. QED
          BY <4>1, <5>1
      <4>4. QED
        BY <4>2, <4>3
    <3>3. ASSUME NEW i \in 1 .. Len(queue'[q])
          PROVE  IsTask(q, queue[q][i], "queued")'
      <4>1. PICK x \in RPC : x = queue'[q][i] /\ IsTask(q, x, "queued")'
        <5>1. CASE i \in 1 .. Len(queue[q]) /\ queue'[q][i] = queue[q][i]
          <6>1. PICK x \in RPC : x = queue[q][i] /\ IsTask(q, x, "queued")
            BY <3>1, <5>1
          <6>2. QED
            BY <2>1, <5>1, <6>1
        <5>2. CASE q = p /\ queue'[q][i] = m
          BY <2>2, <5>2
        <5>3. QED
          BY <3>2, <5>1, <5>2
      <4>2. QED
        BY <4>1 DEF IsTask, Tagged
    <3>4. ASSUME NEW i \in 1 .. Len(queue'[q]), NEW j \in 1 .. Len(queue'[q]),
                 queue'[q][i].call = queue'[q][j].call
          PROVE  i = j
      BY <3>1, <3>2, <3>4 DEF Bookkeeping, PoolInv
    <3>5. QED
      BY <3>3, <3>4
  <2>4. \A q \in Peer : \A x \in active[q] : IsTask(q, x, "running")'
    BY <2>1, TaskType DEF Bookkeeping, PoolInv
  <2>5. QED
    BY <1>2, <2>3, <2>4 DEF PoolInv
<1>8. QED
  BY <1>4, <1>5, <1>6, <1>7 DEF Bookkeeping

\* A response closes the future of the call it answers, and of no other.
LEMMA RunResponseStep ==
  ASSUME TypeOK, Bookkeeping, NEW p \in Peer, RunResponse(p)
  PROVE  Bookkeeping'
<1>1. PICK m \in RPC : m = Head(inbox[p]) /\ m.call \in Call
  BY HeadInFlight DEF RunResponse, Receiving
<1>2. PICK e \in pendingRPCs[p] :
        /\ e.tag = m.tag
        /\ closed' = closed \cup {e.call}
        /\ pendingRPCs' = [pendingRPCs EXCEPT ![p] = @ \ {e}]
  BY <1>1 DEF RunResponse, Lookup
<1>3. /\ inbox[p] # <<>> /\ m.type = "response" /\ InFlight(p, m)
      /\ inbox' = [inbox EXCEPT ![p] = Tail(@)]
      /\ stage' = [stage EXCEPT ![m.call] = "delivered"]
      /\ UNCHANGED <<count, run, queue, active, caller, tag>>
  BY <1>1, HeadInFlight
  DEF RunResponse, Receiving, Take, runVars, poolVars, callVars
<1>4. /\ Tagged(m) /\ Caller(m.call) = p /\ stage[m.call] = "replied"
      /\ stage'[m.call] = "delivered"
      /\ \A d \in Call : d # m.call => stage'[d] = stage[d]
  BY <1>1, <1>3 DEF InFlight, TypeOK, CallTypeOK
<1>5. e.call = m.call /\ e = [tag |-> tag[m.call], call |-> m.call]
  BY <1>1, <1>2, <1>4, Elements DEF Bookkeeping, PendingOpen, TagsUnique, Tagged
<1>6. WireInv' /\ WireOrder'
  BY <1>1, <1>3, TakeLast
<1>7. PendingOpen'
  <2>1. ASSUME NEW q \in Peer, NEW f \in pendingRPCs'[q]
        PROVE  f \in pendingRPCs[q] /\ f.call # m.call
    <3>1. f \in pendingRPCs[q] /\ (q = p => f # e)
      BY <1>2, <2>1 DEF TypeOK, CtrlTypeOK
    <3>2. f = [tag |-> tag[f.call], call |-> f.call] /\ Caller(f.call) = q
      BY <3>1, Elements DEF Bookkeeping, PendingOpen, Tagged
    <3>3. QED
      BY <1>4, <1>5, <3>1, <3>2
  <2>2. QED
    BY <1>2, <1>3, <1>4, <1>5, <2>1 DEF Bookkeeping, PendingOpen, Tagged
<1>8. Registered'
  <2>1. ASSUME NEW d \in Call, run'[Caller(d)] = "loop", caller'[d] # "idle",
               stage'[d] # "delivered"
        PROVE  [tag |-> tag'[d], call |-> d] \in pendingRPCs'[Caller(d)]
    <3>1. d # m.call
      BY <1>4, <2>1
    <3>2. [tag |-> tag[d], call |-> d] \in pendingRPCs[Caller(d)]
      BY <1>3, <1>4, <2>1, <3>1 DEF Bookkeeping, Registered
    <3>3. [tag |-> tag[d], call |-> d] # e
      BY <1>5, <3>1
    <3>4. QED
      BY <1>2, <1>3, <3>2, <3>3, CallerPeer DEF TypeOK, CtrlTypeOK
  <2>2. QED
    BY <2>1 DEF Registered
<1>9. TagsUnique'
  BY <1>3 DEF Bookkeeping, TagsUnique
<1>10. Unsent'
  BY <1>3, <1>4 DEF Bookkeeping, Unsent
<1>11. PoolInv'
  <2>1. \A q \in Peer : \A x \in RPC : \A st \in {"queued", "running"} :
          IsTask(q, x, st) => IsTask(q, x, st)'
    BY <1>3, <1>4 DEF IsTask, Tagged, RPC
  <2>2. QED
    BY <1>3, <2>1, Elements, TaskType DEF Bookkeeping, PoolInv
<1>12. QED
  BY <1>6, <1>7, <1>8, <1>9, <1>10, <1>11 DEF Bookkeeping

\* The teardown closes each pending future once.
LEMMA SweepStep ==
  ASSUME TypeOK, Bookkeeping, NEW p \in Peer, NEW e \in pendingRPCs[p], Sweep(p, e)
  PROVE  Bookkeeping'
<1>1. /\ run[p] = "sweep"
      /\ closed' = closed \cup {e.call}
      /\ pendingRPCs' = [pendingRPCs EXCEPT ![p] = @ \ {e}]
      /\ UNCHANGED <<count, run, inbox, queue, active, caller, tag, stage>>
  BY DEF Sweep, runVars, poolVars, callVars, history
<1>2. PendingOpen'
  <2>1. ASSUME NEW q \in Peer, NEW f \in pendingRPCs'[q]
        PROVE  f \in pendingRPCs[q] /\ f.call # e.call
    <3>1. f \in pendingRPCs[q] /\ (q = p => f # e)
      BY <1>1, <2>1 DEF TypeOK, CtrlTypeOK
    <3>2. /\ f = [tag |-> tag[f.call], call |-> f.call] /\ Caller(f.call) = q
          /\ e = [tag |-> tag[e.call], call |-> e.call] /\ Caller(e.call) = p
      BY <3>1, Elements DEF Bookkeeping, PendingOpen, Tagged
    <3>3. QED
      BY <3>1, <3>2
  <2>2. QED
    BY <1>1, <2>1 DEF Bookkeeping, PendingOpen, Tagged
<1>3. Registered'
  BY <1>1, CallerPeer DEF Bookkeeping, Registered, TypeOK, CtrlTypeOK
<1>4. TagsUnique' /\ Unsent'
  BY <1>1 DEF Bookkeeping, TagsUnique, Unsent
<1>5. WireInv' /\ WireOrder' /\ PoolInv'
  BY <1>1 DEF Bookkeeping, WireInv, WireOrder, InFlight, PoolInv, IsTask, Tagged
<1>6. QED
  BY <1>2, <1>3, <1>4, <1>5 DEF Bookkeeping

\* A worker takes the oldest task.
LEMMA WorkerStartStep ==
  ASSUME TypeOK, Bookkeeping, NEW p \in Peer, WorkerStart(p)
  PROVE  Bookkeeping'
<1>1. /\ queue[p] \in Seq(RPC) /\ queue[p] # <<>> /\ Len(queue[p]) \in Nat
      /\ Head(queue[p]) = queue[p][1] /\ 1 \in 1 .. Len(queue[p])
      /\ Len(Tail(queue[p])) = Len(queue[p]) - 1
      /\ \A i \in 1 .. Len(queue[p]) - 1 : Tail(queue[p])[i] = queue[p][i + 1]
  BY Elements, SeqFacts DEF WorkerStart
<1>2. PICK m \in RPC : m = queue[p][1] /\ m.call \in Call
  BY <1>1, Elements
<1>3. /\ IsTask(p, m, "queued")
      /\ queue' = [queue EXCEPT ![p] = Tail(@)]
      /\ active' = [active EXCEPT ![p] = @ \cup {m}]
      /\ stage' = [stage EXCEPT ![m.call] = "running"]
      /\ UNCHANGED <<count, pendingRPCs, closed, run, inbox, caller, tag>>
  BY <1>1, <1>2
  DEF WorkerStart, Bookkeeping, PoolInv, ctrlVars, futureVars, runVars, callVars
<1>4. /\ Tagged(m) /\ Caller(m.call) = Other(p) /\ stage[m.call] = "queued"
      /\ stage'[m.call] = "running"
      /\ \A d \in Call : d # m.call => stage'[d] = stage[d]
  BY <1>2, <1>3 DEF IsTask, TypeOK, CallTypeOK
<1>5. TagsUnique' /\ PendingOpen'
  BY <1>3 DEF Bookkeeping, TagsUnique, PendingOpen, Tagged
<1>6. Registered' /\ Unsent'
  BY <1>3, <1>4 DEF Bookkeeping, Registered, Unsent
<1>7. WireInv' /\ WireOrder'
  <2>1. \A q \in Peer : \A x \in RPC : InFlight(q, x) => InFlight(q, x)'
    BY <1>3, <1>4 DEF InFlight, Tagged, RPC
  <2>2. QED
    BY <1>3, <2>1, Elements DEF Bookkeeping, WireInv, WireOrder
<1>8. PoolInv'
  <2>1. \A q \in Peer : \A x \in RPC : \A st \in {"queued", "running"} :
          IsTask(q, x, st) /\ x.call # m.call => IsTask(q, x, st)'
    BY <1>3, <1>4 DEF IsTask, Tagged, RPC
  <2>2. \A q \in Peer : \A x \in active[q] : IsTask(q, x, "running")'
    <3>1. \A q \in Peer : \A x \in active[q] : x.call # m.call
      BY <1>4 DEF Bookkeeping, PoolInv, IsTask
    <3>2. QED
      BY <2>1, <3>1, TaskType DEF Bookkeeping, PoolInv
  <2>3. IsTask(p, m, "running")'
    BY <1>3, <1>4 DEF IsTask, Tagged
  <2>4. \A q \in Peer : \A x \in active'[q] : IsTask(q, x, "running")'
    BY <1>3, <2>2, <2>3 DEF TypeOK, PoolTypeOK
  <2>5. ASSUME NEW q \in Peer
        PROVE  \E d \in {0, 1} :
                 /\ Len(queue[q]) \in Nat
                 /\ Len(queue'[q]) \in Nat
                 /\ Len(queue'[q]) + d <= Len(queue[q])
                 /\ q = p => d = 1
                 /\ \A i \in 1 .. Len(queue'[q]) : queue'[q][i] = queue[q][i + d]
    <3>1. queue[q] \in Seq(RPC) /\ Len(queue[q]) \in Nat
      BY Elements, SeqFacts
    <3>2. CASE q = p
      <4>1. queue'[q] = Tail(queue[p])
        BY <1>3, <3>2 DEF TypeOK, PoolTypeOK
      <4>2. /\ Len(queue'[q]) \in Nat /\ Len(queue'[q]) + 1 <= Len(queue[q])
            /\ \A i \in 1 .. Len(queue'[q]) : queue'[q][i] = queue[q][i + 1]
        BY <1>1, <3>1, <3>2, <4>1
      <4>3. QED
        BY <3>1, <4>2
    <3>3. CASE q # p
      <4>1. queue'[q] = queue[q]
        BY <1>3, <3>3 DEF TypeOK, PoolTypeOK
      <4>2. /\ Len(queue'[q]) \in Nat /\ Len(queue'[q]) + 0 <= Len(queue[q])
            /\ \A i \in 1 .. Len(queue'[q]) : queue'[q][i] = queue[q][i + 0]
        BY <3>1, <4>1
      <4>3. QED
        BY <3>1, <3>3, <4>2
    <3>4. QED
      BY <3>2, <3>3
  <2>6. ASSUME NEW q \in Peer
        PROVE  /\ \A i \in 1 .. Len(queue'[q]) : IsTask(q, queue[q][i], "queued")'
               /\ \A i, j \in 1 .. Len(queue'[q]) :
                    queue'[q][i].call = queue'[q][j].call => i = j
    <3>1. PICK d \in {0, 1} :
            /\ Len(queue[q]) \in Nat
            /\ Len(queue'[q]) \in Nat
            /\ Len(queue'[q]) + d <= Len(queue[q])
            /\ q = p => d = 1
            /\ \A i \in 1 .. Len(queue'[q]) : queue'[q][i] = queue[q][i + d]
      BY <2>5
    <3>2. \A i \in 1 .. Len(queue'[q]) :
            i + d \in 1 .. Len(queue[q]) /\ (q = p => i + d # 1)
      BY <3>1
    <3>3. ASSUME NEW i \in 1 .. Len(queue'[q])
          PROVE  IsTask(q, queue[q][i], "queued")'
      <4>1. PICK x \in RPC : /\ x = queue'[q][i] /\ x = queue[q][i + d]
                             /\ IsTask(q, x, "queued")
        BY <3>1, <3>2, Elements DEF Bookkeeping, PoolInv
      <4>2. x.call # m.call
        <5>1. CASE q = p
          BY <1>1, <1>2, <3>2, <4>1, <5>1 DEF Bookkeeping, PoolInv
        <5>2. CASE q # p
          <6>1. Other(q) # Other(p)
            BY <5>2 DEF Other, Peer
          <6>2. QED
            BY <1>4, <4>1, <6>1 DEF IsTask
        <5>3. QED
          BY <5>1, <5>2
      <4>3. IsTask(q, x, "queued")'
        BY <2>1, <4>1, <4>2
      <4>4. QED
        BY <4>1, <4>3 DEF IsTask, Tagged
    <3>4. ASSUME NEW i \in 1 .. Len(queue'[q]), NEW j \in 1 .. Len(queue'[q]),
                 queue'[q][i].call = queue'[q][j].call
          PROVE  i = j
      <4>1. i + d = j + d
        <5>1. /\ i + d \in 1 .. Len(queue[q]) /\ j + d \in 1 .. Len(queue[q])
              /\ queue[q][i + d].call = queue[q][j + d].call
          BY <3>1, <3>2, <3>4
        <5>2. QED
          BY <5>1 DEF Bookkeeping, PoolInv
      <4>2. QED
        BY <3>1, <4>1
    <3>5. QED
      BY <3>3, <3>4
  <2>7. QED
    BY <2>4, <2>6 DEF PoolInv
<1>9. QED
  BY <1>5, <1>6, <1>7, <1>8 DEF Bookkeeping

\* A stream message is sent while its handler runs, before its response.
LEMMA StreamReplyStep ==
  ASSUME TypeOK, Bookkeeping, NEW p \in Peer, NEW t \in active[p], StreamReply(p, t)
  PROVE  Bookkeeping'
<1> DEFINE q == Other(p)
<1>1. IsTask(p, t, "running") /\ t.call \in Call /\ t.tag \in Nat
  BY TaskType DEF Bookkeeping, PoolInv
<1>2. PICK m \in RPC : m = ServerStreamMsg(t.tag, t.call, sent[t.call] + 1)
  <2>1. sent[t.call] + 1 \in Nat /\ "ok" \in Status
    BY <1>1 DEF TypeOK, CallTypeOK, Status
  <2>2. QED
    BY <1>1, <2>1, MsgType
<1>3. /\ q \in Peer /\ Caller(t.call) = q /\ stage[t.call] = "running" /\ Tagged(t)
      /\ m.call = t.call /\ m.tag = t.tag /\ m.type = "streamMsg"
      /\ inbox' = inbox \/ inbox' = [inbox EXCEPT ![q] = Append(@, m)]
      /\ UNCHANGED <<count, pendingRPCs, closed, run, queue, active, caller, tag,
                     stage>>
  BY <1>1, <1>2, CallerPeer
  DEF StreamReply, Send, IsTask, ServerStreamMsg, ctrlVars, futureVars, runVars,
      poolVars, callVars
<1> HIDE DEF q
<1>4. TagsUnique' /\ PendingOpen' /\ Registered' /\ Unsent'
  BY <1>3
  DEF Bookkeeping, TagsUnique, PendingOpen, Registered, Unsent, Tagged
<1>5. PoolInv'
  BY <1>3 DEF Bookkeeping, PoolInv, IsTask, Tagged
<1>6. \A r \in Peer : \A x \in RPC : InFlight(r, x) => InFlight(r, x)'
  BY <1>3 DEF InFlight, Tagged
<1>7. InFlight(q, m)'
  BY <1>3 DEF InFlight, Tagged
<1>8. \A i \in 1 .. Len(inbox[q]) :
        inbox[q][i].call = m.call => inbox[q][i].type # "response"
  BY <1>3 DEF Bookkeeping, WireInv, InFlight
<1>9. WireInv' /\ WireOrder'
  BY <1>3, <1>6, <1>7, <1>8, SendStep DEF Bookkeeping
<1>10. QED
  BY <1>4, <1>5, <1>9 DEF Bookkeeping

\* A handler answers once.
LEMMA AnswerStep ==
  ASSUME TypeOK, Bookkeeping, NEW p \in Peer, NEW t \in active[p],
         NEW s \in Status, Answer(p, t, s)
  PROVE  Bookkeeping'
<1> DEFINE q == Other(p)
<1>1. IsTask(p, t, "running") /\ t.call \in Call /\ t.tag \in Nat
  BY TaskType DEF Bookkeeping, PoolInv
<1>2. PICK m \in RPC : m = ResponseMsg(t.tag, t.call, s)
  BY <1>1, MsgType
<1>3. /\ q \in Peer /\ Caller(t.call) = q /\ stage[t.call] = "running" /\ Tagged(t)
      /\ m.call = t.call /\ m.tag = t.tag /\ m.type = "response"
      /\ inbox' = inbox \/ inbox' = [inbox EXCEPT ![q] = Append(@, m)]
      /\ active' = [active EXCEPT ![p] = @ \ {t}]
      /\ stage' = [stage EXCEPT ![t.call] = "replied"]
      /\ UNCHANGED <<count, pendingRPCs, closed, run, queue, caller, tag>>
  BY <1>1, <1>2, CallerPeer
  DEF Answer, Send, IsTask, ResponseMsg, ctrlVars, futureVars, runVars, callVars
<1> HIDE DEF q
<1>4. /\ stage'[t.call] = "replied"
      /\ \A d \in Call : d # t.call => stage'[d] = stage[d]
  BY <1>1, <1>3 DEF TypeOK, CallTypeOK
<1>5. TagsUnique' /\ PendingOpen'
  BY <1>3 DEF Bookkeeping, TagsUnique, PendingOpen, Tagged
<1>6. Registered' /\ Unsent'
  BY <1>3, <1>4 DEF Bookkeeping, Registered, Unsent
<1>7. \A r \in Peer : \A x \in RPC : InFlight(r, x) => InFlight(r, x)'
  BY <1>3, <1>4 DEF InFlight, Tagged, RPC
<1>8. InFlight(q, m)'
  BY <1>3, <1>4 DEF InFlight, Tagged
<1>9. \A i \in 1 .. Len(inbox[q]) :
        inbox[q][i].call = m.call =>
          inbox[q][i].type # "response" /\ inbox[q][i].type # "request"
  BY <1>3 DEF Bookkeeping, WireInv, InFlight
<1>10. WireInv' /\ WireOrder'
  BY <1>3, <1>7, <1>8, <1>9, SendStep DEF Bookkeeping
<1>11. PoolInv'
  <2>1. \A r \in Peer : \A x \in RPC : \A st \in {"queued", "running"} :
          IsTask(r, x, st) /\ x.call # t.call => IsTask(r, x, st)'
    BY <1>3, <1>4 DEF IsTask, Tagged, RPC
  <2>2. ASSUME NEW r \in Peer, NEW x \in active'[r]
        PROVE  x \in active[r] /\ x.call # t.call
    <3>1. x \in active[r] /\ (r = p => x # t)
      BY <1>3, <2>2 DEF TypeOK, PoolTypeOK
    <3>2. IsTask(r, x, "running")
      BY <3>1 DEF Bookkeeping, PoolInv
    <3>3. CASE r = p
      <4>1. x.call = t.call => x.tag = t.tag
        BY <1>1, <3>2 DEF IsTask, Tagged
      <4>2. QED
        BY <1>1, <3>1, <3>2, <3>3, <4>1 DEF IsTask
    <3>4. CASE r # p
      <4>1. Other(r) # Other(p)
        BY <3>4 DEF Other, Peer
      <4>2. QED
        BY <1>1, <3>1, <3>2, <4>1 DEF IsTask
    <3>5. QED
      BY <3>3, <3>4
  <2>3. \A r \in Peer : \A i \in 1 .. Len(queue[r]) : queue[r][i].call # t.call
    BY <1>3 DEF Bookkeeping, PoolInv, IsTask
  <2>4. \A r \in Peer : \A x \in active'[r] : IsTask(r, x, "running")'
    BY <2>1, <2>2, TaskType DEF Bookkeeping, PoolInv
  <2>5. ASSUME NEW r \in Peer, NEW i \in 1 .. Len(queue[r])
        PROVE  IsTask(r, queue[r][i], "queued")'
    <3>1. PICK x \in RPC : x = queue[r][i] /\ IsTask(r, x, "queued")
      BY Elements DEF Bookkeeping, PoolInv
    <3>2. IsTask(r, x, "queued")'
      BY <2>1, <2>3, <3>1
    <3>3. QED
      BY <1>3, <3>1, <3>2 DEF IsTask, Tagged
  <2>6. QED
    BY <1>3, <2>4, <2>5 DEF Bookkeeping, PoolInv
<1>12. QED
  BY <1>5, <1>6, <1>10, <1>11 DEF Bookkeeping

\* Bookkeeping is inductive.
LEMMA NextBookkeeping ==
  ASSUME TypeOK, Bookkeeping, [Next]_vars
  PROVE  Bookkeeping'
<1> USE DEF ctrlVars, futureVars, runVars, pumpVars, kickVars, poolVars,
            closeVars, linkVars, callVars, history
<1>1. CASE UNCHANGED vars
  BY <1>1, Untouched DEF vars
<1>2. ASSUME NEW c \in Call, Await(c) \/ CtxDone(c) PROVE Bookkeeping'
  BY <1>2, CallerStep DEF Await, CtxDone
<1>3. ASSUME NEW p \in Peer,
             PumpRecv(p) \/ CloseOrRecv(p) \/ CloseOrRecvDone(p)
      PROVE  Bookkeeping'
  BY <1>3, Untouched DEF PumpRecv, CloseOrRecv, CloseOrRecvDone
<1>4. CASE Break \/ HandlerReturn
  BY <1>4, Untouched DEF Break, HandlerReturn
<1>5. ASSUME NEW p \in Peer, PumpEnd(p) PROVE Bookkeeping'
  <2>1. pumped[p] \in 0 .. Len(inbox[p])
    BY Elements, SeqFacts DEF TypeOK, PumpTypeOK
  <2>2. QED
    BY <1>5, <2>1, ShrinkStep DEF PumpEnd
<1>6. ASSUME NEW p \in Peer, RunStreamMsg(p) PROVE Bookkeeping'
  BY <1>6, HeadInFlight, ShrinkStep DEF RunStreamMsg, Receiving, Take
<1>8. ASSUME NEW p \in Peer,
             RunEnd(p) \/ RunKick(p) \/ SweepDone(p) \/ StopAndWait(p)
      PROVE  Bookkeeping'
  BY <1>8, RunStep DEF RunEnd, RunKick, Leave, SweepDone, StopAndWait
<1>9. ASSUME NEW p \in Peer, PoolCancel(p) PROVE Bookkeeping'
  BY <1>9, PoolStep DEF PoolCancel
<1>10. ASSUME NEW p \in Peer, NEW m \in active[p], GiveUp(p, m) PROVE Bookkeeping'
  BY <1>10, PoolStep DEF GiveUp
<1>11. ASSUME NEW p \in Peer, NEW m \in active[p], Reply(p, m) \/ ReplyErr(p, m)
       PROVE  Bookkeeping'
  BY <1>11, AnswerStep DEF Reply, ReplyErr, Status
<1>12. ASSUME NEW p \in Peer, NEW m \in detached[p], DetachedEnds(p, m)
       PROVE  Bookkeeping'
  BY <1>12, Untouched DEF DetachedEnds
<1>13. QED
  BY <1>1, <1>2, <1>3, <1>4, <1>5, <1>6, <1>8, <1>9, <1>10, <1>11, <1>12,
     RequestStoreStep, RequestSendStep, RunRequestStep, RunResponseStep,
     SweepStep, WorkerStartStep, StreamReplyStep
  DEF Next, Pump, Run, Work, Close

\* The bookkeeping holds in every state: no message on the stream is without
\* its pending entry while Run reads the stream.
THEOREM BookkeepingCorrect == Spec => []Bookkeeping
  BY InitTypeOK, NextTypeOK, InitBookkeeping, NextBookkeeping, PTL DEF Spec

\* Run never panics on an unexpected tag or a closed future (stream.go:343
\* and 352), whatever the calls, the capacities, the faults and the order of
\* events.
THEOREM NeverPanics == Spec => []NoPanic
<1>1. ASSUME TypeOK, Bookkeeping PROVE NoPanic
  <2> SUFFICES ASSUME NEW p \in Peer, RunPanics(p) PROVE FALSE
    BY DEF NoPanic
  <2>1. CASE /\ Receiving(p, "response") \/ Receiving(p, "streamMsg")
             /\ Unexpected(p, Head(inbox[p]).tag)
    <3> DEFINE m == Head(inbox[p])
    <3>1. /\ run[p] = "loop" /\ m.call \in Call /\ InFlight(p, m)
          /\ m.type \in {"response", "streamMsg"}
      BY <1>1, <2>1, HeadInFlight DEF Receiving
    <3>2. [tag |-> m.tag, call |-> m.call] \in pendingRPCs[p]
      BY <1>1, <3>1 DEF InFlight, Tagged, Bookkeeping, Registered
    <3>3. QED
      BY <1>1, <2>1, <3>2 DEF Unexpected, Lookup, Bookkeeping, PendingOpen
  <2>2. CASE \E e \in pendingRPCs[p] : e.call \in closed
    BY <1>1, <2>2 DEF Bookkeeping, PendingOpen
  <2>3. QED
    BY <2>1, <2>2 DEF RunPanics
<1>2. QED
  BY <1>1, TypeCorrect, BookkeepingCorrect, PTL
===============================================================================
