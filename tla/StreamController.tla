--------------------------- MODULE StreamController ---------------------------
(***************************************************************************)
(* Two totem stream controllers, one at each end of a gRPC stream, that    *)
(* multiplex RPCs in both directions over it: stream.go (Request, Reply,   *)
(* ReplyErr, StreamReply, Kick, CloseOrRecv, Run and the worker half of    *)
(* handleRequest), recv.go (the pump goroutine), clientconn.go (the caller *)
(* waiting on its future) and the goroutine of Server.Serve that awaits    *)
(* Run, closes the stream and reports on the error channel.                *)
(*                                                                         *)
(* Payloads are abstracted to the identity of the call they belong to.     *)
(***************************************************************************)
EXTENDS Naturals, Sequences, FiniteSets

CONSTANTS
  ClientCalls,  \* RPCs issued by the end that dialled (its stream has CloseSend)
  ServerCalls,  \* RPCs issued by the end whose gRPC handler holds the stream
  Streaming,    \* the calls of server-streaming methods
  Callbacks,    \* pairs of calls: the handler of the first may issue the second
  StreamLen,    \* bound: stream messages one handler may send
  Faults,       \* bound: which faults the environment may inject
  RecvCap,      \* capacity of recvWrapper.c (256 in the code)
  WireCap,      \* messages the transport accepts before Send blocks
  MaxWorkers,   \* workers of the pool (100 in the code)
  MaxCapacity   \* queued tasks of the pool (1000 in the code)

ASSUME CallsAssumption ==
  /\ ClientCalls \cap ServerCalls = {}
  /\ Streaming \subseteq ClientCalls \cup ServerCalls
  /\ Callbacks \subseteq
       (ClientCalls \X ServerCalls) \cup (ServerCalls \X ClientCalls)
  /\ StreamLen \in Nat
  /\ Faults \subseteq {"break", "return", "cancel"}
ASSUME CapAssumption ==
  /\ RecvCap \in Nat \ {0}
  /\ WireCap \in Nat \ {0}
  /\ MaxWorkers \in Nat \ {0}
  /\ MaxCapacity \in Nat \ {0}

VARIABLES
  count,        \* per peer: StreamController.count, the last tag used
  pendingRPCs,  \* per peer: StreamController.pendingRPCs, tag to future
  future,       \* per call: buffered content of the channel Request made
  closed,       \* the calls whose future has been closed
  run,          \* per peer: where Run is
  streamErr,    \* per peer: Run's local streamErr
  mustSweep,    \* per peer: tags present when the final Range began
  inbox,        \* per peer: messages sent to it and not yet taken by Run
  pumped,       \* per peer: how many of inbox are already in recvWrapper.c
  ended,        \* per peer: the error payload the pump put last, done closed
  kick,         \* per peer: recvWrapper.kick holds an error
  kickOnce,     \* per peer: StreamController.kickOnce has run
  queue,        \* per peer: requests submitted to the pool, not started
  active,       \* per peer: requests handleRequest is working on
  detached,     \* per peer: requests whose streaming handler it left running
  sendLock,     \* per peer: CloseOrRecv holds sendLock
  errC,         \* per peer: the channel Serve returned has been written
  sendClosed,   \* per peer: it ended its direction of the stream
  broken,       \* the connection failed or its context was cancelled
  caller,       \* per call: where the goroutine that issued it is
  tag,          \* per call: the local tag of Request
  got,          \* history, per call: what its caller received, in order
  stage,        \* history, per call: how far its request got
  sent,         \* per call: stream messages its handler has sent
  reply         \* history, per call: the status its handler answered with

ctrlVars   == <<count, pendingRPCs>>
futureVars == <<future, closed>>
runVars    == <<run, streamErr, mustSweep>>
pumpVars   == <<pumped, ended>>
kickVars   == <<kick, kickOnce>>
poolVars   == <<queue, active, detached>>
closeVars  == <<sendLock, errC>>
linkVars   == <<sendClosed, broken>>
callVars   == <<caller, tag, got>>
history    == <<stage, sent, reply>>

vars == <<ctrlVars, futureVars, runVars, inbox, pumpVars, kickVars, poolVars,
          closeVars, linkVars, callVars, history>>

-------------------------------------------------------------------------------
(***************************************************************************)
(* Constants of the model.                                                 *)
(***************************************************************************)
Peer == {"client", "server"}

Other(p) == IF p = "client" THEN "server" ELSE "client"

Call == ClientCalls \cup ServerCalls

Caller(c) == IF c \in ClientCalls THEN "client" ELSE "server"

\* make(chan *RPC, 1) in Request.
FutureCap == 1

\* "nilProto" is a Response whose StatusProto is nil.
Status == {"nilProto", "ok", "error"}

(***************************************************************************)
(* totem.proto's RPC. The oneof is the field type; n numbers the messages  *)
(* of a stream, and call stands for the payload.                           *)
(***************************************************************************)
RPC == [type : {"request", "response", "streamMsg"}, tag : Nat, call : Call,
        n : Nat, status : Status]

RequestMsg(t, c) ==
  [type |-> "request", tag |-> t, call |-> c, n |-> 0, status |-> "nilProto"]

ResponseMsg(t, c, s) ==
  [type |-> "response", tag |-> t, call |-> c, n |-> 0, status |-> s]

ServerStreamMsg(t, c, k) ==
  [type |-> "streamMsg", tag |-> t, call |-> c, n |-> k, status |-> "nilProto"]

Pending == [tag : Nat, call : Call]

\* Mutant of GetStatus: a missing status reads as OK, as status.FromProto has it.
GetStatusNilOK(s) == IF s = "nilProto" THEN "ok" ELSE s

\* Response.GetStatus: a missing status reads as codes.Unknown.
GetStatus(s) == IF s = "nilProto" THEN "unknown" ELSE s

\* Mutant of CancelStatus: status.New(codes.OK, "") for a clean end.
CancelStatusOK(e) == IF e = "nil" THEN "ok" ELSE "error"

\* status.Convert(streamErr).Proto() of Run's teardown: nil for a nil error.
CancelStatus(e) == IF e = "nil" THEN "nilProto" ELSE "error"

-------------------------------------------------------------------------------
(***************************************************************************)
(* The initial state: both peers have called Serve, no RPC is issued yet.  *)
(***************************************************************************)
Init ==
  /\ count       = [p \in Peer |-> 0]
  /\ pendingRPCs = [p \in Peer |-> {}]
  /\ future      = [c \in Call |-> <<>>]
  /\ closed      = {}
  /\ run         = [p \in Peer |-> "loop"]
  /\ streamErr   = [p \in Peer |-> "nil"]
  /\ mustSweep   = [p \in Peer |-> {}]
  /\ inbox       = [p \in Peer |-> <<>>]
  /\ pumped      = [p \in Peer |-> 0]
  /\ ended       = [p \in Peer |-> "none"]
  /\ kick        = [p \in Peer |-> FALSE]
  /\ kickOnce    = [p \in Peer |-> FALSE]
  /\ queue       = [p \in Peer |-> <<>>]
  /\ active      = [p \in Peer |-> {}]
  /\ detached    = [p \in Peer |-> {}]
  /\ sendLock    = [p \in Peer |-> FALSE]
  /\ errC        = [p \in Peer |-> FALSE]
  /\ sendClosed  = [p \in Peer |-> FALSE]
  /\ broken      = FALSE
  /\ caller      = [c \in Call |-> "idle"]
  /\ tag         = [c \in Call |-> 0]
  /\ got         = [c \in Call |-> <<>>]
  /\ stage       = [c \in Call |-> "none"]
  /\ sent        = [c \in Call |-> 0]
  /\ reply       = [c \in Call |-> "nilProto"]

-------------------------------------------------------------------------------
(***************************************************************************)
(* Sending. stream.Send runs under sendLock; it blocks while the transport *)
(* is full and fails once the stream is over. A failure other than io.EOF  *)
(* kicks the controller; only a client stream reports io.EOF.              *)
(***************************************************************************)
Kick(p) ==
  /\ kickOnce' = [kickOnce EXCEPT ![p] = TRUE]
  /\ kick' = IF kickOnce[p] THEN kick ELSE [kick EXCEPT ![p] = TRUE]

SendFails(p) ==
  \/ broken
  \/ sendClosed[p]
  \/ p = "client" /\ sendClosed["server"]

\* Nothing more arrives at p: Recv has failed, or the gRPC handler that held
\* the stream has returned.
Deaf(p) == ended[p] # "none" \/ (p = "server" /\ sendClosed["server"])

Send(p, m) ==
  /\ ~sendLock[p]
  /\ \/ /\ ~broken /\ ~sendClosed[p]
        /\ Len(inbox[Other(p)]) < pumped[Other(p)] + WireCap
        /\ inbox' = IF Deaf(Other(p))
                      THEN inbox
                      ELSE [inbox EXCEPT ![Other(p)] = Append(@, m)]
        /\ UNCHANGED kickVars
     \/ /\ SendFails(p)
        /\ UNCHANGED inbox
        /\ \/ Kick(p)
           \/ p = "client" /\ UNCHANGED kickVars

-------------------------------------------------------------------------------
(***************************************************************************)
(* The caller: Request, then the select on the future and the context.     *)
(* count.Inc and the Store are one step: nothing reads the tag in between. *)
(***************************************************************************)
\* When the context of the stream is done at p; handlers are given it.
StreamCtxDone(p) ==
  \/ broken
  \/ p = "server" /\ sendClosed["server"]
  \/ p = "client" /\ ended["client"] # "none"

\* A callback is issued by the handler of its parent, waited for or not.
CanIssue(c) ==
  \A pr \in Callbacks :
    pr[2] = c =>
      \E m \in active[Caller(c)] \cup detached[Caller(c)] : m.call = pr[1]

IsCallback(c) == \E pr \in Callbacks : pr[2] = c

\* Mutant of NextTag: count.Load() in place of count.Inc().
SameTag(p) == count[p]

NextTag(p) == count[p] + 1

RequestStore(c) ==
  LET p == Caller(c)
      t == NextTag(p)
  IN  /\ caller[c] = "idle"
      /\ CanIssue(c)
      /\ count' = [count EXCEPT ![p] = t]
      /\ tag' = [tag EXCEPT ![c] = t]
      /\ pendingRPCs' = [pendingRPCs EXCEPT ![p] =
           {e \in @ : e.tag # t} \cup {[tag |-> t, call |-> c]}]
      /\ caller' = [caller EXCEPT ![c] = "stored"]
      /\ UNCHANGED <<futureVars, runVars, inbox, pumpVars, kickVars, poolVars,
                     closeVars, linkVars, got, history>>

RequestSend(c) ==
  /\ caller[c] = "stored"
  /\ Send(Caller(c), RequestMsg(tag[c], c))
  /\ caller' = [caller EXCEPT ![c] = "waiting"]
  /\ stage' = [stage EXCEPT ![c] = "sent"]
  /\ UNCHANGED <<ctrlVars, futureVars, runVars, pumpVars, poolVars, closeVars,
                 linkVars, tag, got, sent, reply>>

\* Mutant of Await: a streaming caller leaves with the first message.
AwaitFirst(c) ==
  /\ caller[c] = "waiting"
  /\ future[c] # <<>>
  /\ got' = [got EXCEPT ![c] = Append(@, Head(future[c]))]
  /\ future' = [future EXCEPT ![c] = Tail(@)]
  /\ caller' = [caller EXCEPT ![c] = "done"]
  /\ UNCHANGED <<ctrlVars, closed, runVars, inbox, pumpVars, kickVars, poolVars,
                 closeVars, linkVars, tag, history>>

(***************************************************************************)
(* ClientConn.invoke returns with whatever arrives first. A streaming      *)
(* caller keeps calling RecvMsg until the Response.                        *)
(***************************************************************************)
Await(c) ==
  /\ caller[c] = "waiting"
  /\ future[c] # <<>>
  /\ got' = [got EXCEPT ![c] = Append(@, Head(future[c]))]
  /\ future' = [future EXCEPT ![c] = Tail(@)]
  /\ caller' = IF Head(future[c]).type = "streamMsg" /\ c \in Streaming
                 THEN caller
                 ELSE [caller EXCEPT ![c] = "done"]
  /\ UNCHANGED <<ctrlVars, closed, runVars, inbox, pumpVars, kickVars, poolVars,
                 closeVars, linkVars, tag, history>>

\* The caller's context is done; nobody reads the future any more. A handler
\* calls back with its own context, which ends with the stream's.
CtxDone(c) ==
  /\ "cancel" \in Faults \/ (IsCallback(c) /\ StreamCtxDone(Caller(c)))
  /\ caller[c] = "waiting"
  /\ caller' = [caller EXCEPT ![c] = "cancelled"]
  /\ UNCHANGED <<ctrlVars, futureVars, runVars, inbox, pumpVars, kickVars,
                 poolVars, closeVars, linkVars, tag, got, history>>

-------------------------------------------------------------------------------
\* Mutant of PumpRecv: no bound on recvWrapper.c.
PumpUnbounded(p) ==
  /\ ended[p] = "none"
  /\ pumped[p] < Len(inbox[p])
  /\ pumped' = [pumped EXCEPT ![p] = @ + 1]
  /\ UNCHANGED <<ctrlVars, futureVars, runVars, inbox, ended, kickVars,
                 poolVars, closeVars, linkVars, callVars, history>>

(***************************************************************************)
(* The pump goroutine of recvWrapper.Start. inbox[p] up to pumped[p] is    *)
(* the content of recvWrapper.c, the rest is still on the stream. The      *)
(* error payload is always the last one and closes done.                   *)
(***************************************************************************)
PumpRecv(p) ==
  /\ ended[p] = "none"
  /\ pumped[p] < Len(inbox[p])
  /\ pumped[p] < RecvCap
  /\ pumped' = [pumped EXCEPT ![p] = @ + 1]
  /\ UNCHANGED <<ctrlVars, futureVars, runVars, inbox, ended, kickVars,
                 poolVars, closeVars, linkVars, callVars, history>>

(***************************************************************************)
(* What stream.Recv can report at p: io.EOF after everything the peer sent *)
(* before it ended its direction, an error at any time once the stream is  *)
(* broken or, at the server, its handler has returned. The client also     *)
(* sees the error status a handler returned with.                          *)
(***************************************************************************)
RecvErrors(p) ==
  (IF sendClosed[Other(p)] /\ pumped[p] = Len(inbox[p])
     THEN {"EOF"} \cup (IF p = "client" THEN {"err"} ELSE {})
     ELSE {})
  \cup (IF broken \/ (p = "server" /\ sendClosed["server"]) THEN {"err"} ELSE {})

PumpEnd(p) ==
  /\ ended[p] = "none"
  /\ pumped[p] < RecvCap
  /\ \E err \in RecvErrors(p) : ended' = [ended EXCEPT ![p] = err]
  /\ inbox' = [inbox EXCEPT ![p] = SubSeq(@, 1, pumped[p])]
  /\ UNCHANGED <<ctrlVars, futureVars, runVars, pumped, kickVars, poolVars,
                 closeVars, linkVars, callVars, history>>

-------------------------------------------------------------------------------
(***************************************************************************)
(* Run. The loop takes a payload or the kick, whichever select picks.      *)
(* Taking a payload and disposing of it is one step: a Run that blocks on  *)
(* a full pool or future is one that has not taken the payload yet. A kick *)
(* is no way out of a future nobody reads: the final Range meets it again. *)
(***************************************************************************)
Receiving(p, type) ==
  /\ run[p] = "loop"
  /\ pumped[p] > 0
  /\ Head(inbox[p]).type = type

Take(p) ==
  /\ inbox' = [inbox EXCEPT ![p] = Tail(@)]
  /\ pumped' = [pumped EXCEPT ![p] = @ - 1]

Lookup(p, t) == {e \in pendingRPCs[p] : e.tag = t}

\* Mutant of RunRequest: a pool without a queue.
RunRequestNoQueue(p) ==
  /\ Receiving(p, "request")
  /\ Len(queue[p]) + Cardinality(active[p]) < MaxWorkers
  /\ queue' = [queue EXCEPT ![p] = Append(@, Head(inbox[p]))]
  /\ stage' = [stage EXCEPT ![Head(inbox[p]).call] = "queued"]
  /\ Take(p)
  /\ UNCHANGED <<ctrlVars, futureVars, runVars, ended, kickVars, active,
                 detached, closeVars, linkVars, callVars, sent, reply>>

\* workerPool.Submit blocks the loop while the pool's queue is full.
RunRequest(p) ==
  /\ Receiving(p, "request")
  /\ Len(queue[p]) < MaxCapacity
  /\ queue' = [queue EXCEPT ![p] = Append(@, Head(inbox[p]))]
  /\ stage' = [stage EXCEPT ![Head(inbox[p]).call] = "queued"]
  /\ Take(p)
  /\ UNCHANGED <<ctrlVars, futureVars, runVars, ended, kickVars, active,
                 detached, closeVars, linkVars, callVars, sent, reply>>

(***************************************************************************)
(* Delivery to the future of a pending RPC: future <- msg blocks while the *)
(* buffer is full.                                                         *)
(***************************************************************************)
CanDeliver(e) == Len(future[e.call]) < FutureCap /\ e.call \notin closed

RunResponse(p) ==
  LET m == Head(inbox[p])
  IN  /\ Receiving(p, "response")
      /\ \E e \in Lookup(p, m.tag) :
           /\ CanDeliver(e)
           /\ future' = [future EXCEPT ![e.call] = Append(@, m)]
           /\ closed' = closed \cup {e.call}
           /\ pendingRPCs' = [pendingRPCs EXCEPT ![p] = @ \ {e}]
      /\ stage' = [stage EXCEPT ![m.call] = "delivered"]
      /\ Take(p)
      /\ UNCHANGED <<count, runVars, ended, kickVars, poolVars, closeVars,
                     linkVars, callVars, sent, reply>>

\* Mutant of RunStreamMsg: a select with a default that drops the message when
\* the future is full.
StreamMsgDrops(p) ==
  LET m == Head(inbox[p])
  IN  /\ Receiving(p, "streamMsg")
      /\ \E e \in Lookup(p, m.tag) :
           future' = IF CanDeliver(e)
                       THEN [future EXCEPT ![e.call] = Append(@, m)]
                       ELSE future
      /\ Take(p)
      /\ UNCHANGED <<ctrlVars, closed, runVars, ended, kickVars, poolVars,
                     closeVars, linkVars, callVars, history>>

RunStreamMsg(p) ==
  LET m == Head(inbox[p])
  IN  /\ Receiving(p, "streamMsg")
      /\ \E e \in Lookup(p, m.tag) :
           /\ CanDeliver(e)
           /\ future' = [future EXCEPT ![e.call] = Append(@, m)]
      /\ Take(p)
      /\ UNCHANGED <<ctrlVars, closed, runVars, ended, kickVars, poolVars,
                     closeVars, linkVars, callVars, history>>

(***************************************************************************)
(* Where the code panics, and the model has no step: an unexpected tag in  *)
(* the loop, a closed future in the loop or in the final Range.            *)
(***************************************************************************)
Unexpected(p, t) ==
  Lookup(p, t) = {} \/ \E e \in Lookup(p, t) : e.call \in closed

RunPanics(p) ==
  \/ /\ Receiving(p, "response") \/ Receiving(p, "streamMsg")
     /\ Unexpected(p, Head(inbox[p]).tag)
  \/ /\ run[p] = "sweep"
     /\ \E e \in pendingRPCs[p] : e.call \in closed

\* break out of the loop with err, and begin the Range over pendingRPCs.
Leave(p, err) ==
  /\ run' = [run EXCEPT ![p] = "sweep"]
  /\ streamErr' = [streamErr EXCEPT ![p] = err]
  /\ mustSweep' = [mustSweep EXCEPT ![p] = {e.tag : e \in pendingRPCs[p]}]

\* Mutant of RunEnd: the loop waits for the pending RPCs before it ends.
RunEndWaits(p) ==
  /\ run[p] = "loop"
  /\ ended[p] # "none"
  /\ pumped[p] = 0
  /\ pendingRPCs[p] = {}
  /\ Leave(p, IF ended[p] = "EOF" THEN "nil" ELSE "err")
  /\ UNCHANGED <<ctrlVars, futureVars, inbox, pumpVars, kickVars, poolVars,
                 closeVars, linkVars, callVars, history>>

RunEnd(p) ==
  /\ run[p] = "loop"
  /\ ended[p] # "none"
  /\ pumped[p] = 0
  /\ Leave(p, IF ended[p] = "EOF" THEN "nil" ELSE "err")
  /\ UNCHANGED <<ctrlVars, futureVars, inbox, pumpVars, kickVars, poolVars,
                 closeVars, linkVars, callVars, history>>

RunKick(p) ==
  /\ run[p] = "loop"
  /\ kick[p]
  /\ kick' = [kick EXCEPT ![p] = FALSE]
  /\ Leave(p, "err")
  /\ UNCHANGED <<ctrlVars, futureVars, inbox, pumpVars, kickOnce, poolVars,
                 closeVars, linkVars, callVars, history>>

\* Mutant of Sweep: pendingRPCs.Delete(tag) forgotten.
SweepKeeps(p, e) ==
  /\ run[p] = "sweep"
  /\ e \in pendingRPCs[p]
  /\ CanDeliver(e)
  /\ future' = [future EXCEPT ![e.call] =
       Append(@, ResponseMsg(e.tag, e.call, CancelStatus(streamErr[p])))]
  /\ closed' = closed \cup {e.call}
  /\ UNCHANGED <<ctrlVars, runVars, inbox, pumpVars, kickVars, poolVars,
                 closeVars, linkVars, callVars, history>>

(***************************************************************************)
(* The Range over pendingRPCs after the loop: it visits every entry that   *)
(* was there when it began, and may or may not visit one stored meanwhile. *)
(***************************************************************************)
Sweep(p, e) ==
  /\ run[p] = "sweep"
  /\ e \in pendingRPCs[p]
  /\ CanDeliver(e)
  /\ future' = [future EXCEPT ![e.call] =
       Append(@, ResponseMsg(e.tag, e.call, CancelStatus(streamErr[p])))]
  /\ closed' = closed \cup {e.call}
  /\ pendingRPCs' = [pendingRPCs EXCEPT ![p] = @ \ {e}]
  /\ UNCHANGED <<count, runVars, inbox, pumpVars, kickVars, poolVars,
                 closeVars, linkVars, callVars, history>>

\* Mutant of SweepDone: Range's function returns false.
SweepStops(p) ==
  /\ run[p] = "sweep"
  /\ run' = [run EXCEPT ![p] = "stopping"]
  /\ UNCHANGED <<ctrlVars, futureVars, streamErr, mustSweep, inbox, pumpVars,
                 kickVars, poolVars, closeVars, linkVars, callVars, history>>

SweepDone(p) ==
  /\ run[p] = "sweep"
  /\ \A e \in pendingRPCs[p] : e.tag \notin mustSweep[p]
  /\ run' = [run EXCEPT ![p] = "stopping"]
  /\ UNCHANGED <<ctrlVars, futureVars, streamErr, mustSweep, inbox, pumpVars,
                 kickVars, poolVars, closeVars, linkVars, callVars, history>>

\* Mutant of StopAndWait: workerPool.Stop(), which does not wait.
StopOnly(p) ==
  /\ run[p] = "stopping"
  /\ run' = [run EXCEPT ![p] = "returned"]
  /\ UNCHANGED <<ctrlVars, futureVars, streamErr, mustSweep, inbox, pumpVars,
                 kickVars, poolVars, closeVars, linkVars, callVars, history>>

StopAndWait(p) ==
  /\ run[p] = "stopping"
  /\ queue[p] = <<>>
  /\ active[p] = {}
  /\ run' = [run EXCEPT ![p] = "returned"]
  /\ UNCHANGED <<ctrlVars, futureVars, streamErr, mustSweep, inbox, pumpVars,
                 kickVars, poolVars, closeVars, linkVars, callVars, history>>

-------------------------------------------------------------------------------
(***************************************************************************)
(* The workers: handleRequest. A handler answers with success or an error; *)
(* a streaming one first sends some messages, and gives up without an      *)
(* answer when the stream's context is done.                               *)
(***************************************************************************)
WorkerStart(p) ==
  /\ queue[p] # <<>>
  /\ Cardinality(active[p]) < MaxWorkers
  /\ active' = [active EXCEPT ![p] = @ \cup {Head(queue[p])}]
  /\ queue' = [queue EXCEPT ![p] = Tail(@)]
  /\ stage' = [stage EXCEPT ![Head(queue[p]).call] = "running"]
  /\ UNCHANGED <<ctrlVars, futureVars, runVars, inbox, pumpVars, kickVars,
                 detached, closeVars, linkVars, callVars, sent, reply>>

StreamReply(p, m) ==
  /\ m \in active[p]
  /\ m.call \in Streaming
  /\ sent[m.call] < StreamLen
  /\ Send(p, ServerStreamMsg(m.tag, m.call, sent[m.call] + 1))
  /\ sent' = [sent EXCEPT ![m.call] = @ + 1]
  /\ UNCHANGED <<ctrlVars, futureVars, runVars, pumpVars, poolVars, closeVars,
                 linkVars, callVars, stage, reply>>

\* A handler returns after the calls it issued have.
Returned(c) ==
  \A pr \in Callbacks :
    pr[1] = c => caller[pr[2]] \notin {"stored", "waiting"}

Answer(p, m, s) ==
  /\ m \in active[p]
  /\ Returned(m.call)
  /\ Send(p, ResponseMsg(m.tag, m.call, s))
  /\ active' = [active EXCEPT ![p] = @ \ {m}]
  /\ stage' = [stage EXCEPT ![m.call] = "replied"]
  /\ reply' = [reply EXCEPT ![m.call] = s]
  /\ UNCHANGED <<ctrlVars, futureVars, runVars, pumpVars, queue, detached,
                 closeVars, linkVars, callVars, sent>>

Reply(p, m) == Answer(p, m, "ok")

\* Mutant of ReplyErr: the worker goes on after it, for want of a return.
ReplyErrGoesOn(p, m) ==
  /\ m \in active[p]
  /\ Send(p, ResponseMsg(m.tag, m.call, "error"))
  /\ UNCHANGED <<ctrlVars, futureVars, runVars, pumpVars, poolVars, closeVars,
                 linkVars, callVars, history>>

ReplyErr(p, m) == Answer(p, m, "error")

\* handleRequest returns; the goroutine in which the handler of a streaming
\* method runs goes on.
GiveUp(p, m) ==
  /\ m \in active[p]
  /\ m.call \in Streaming
  /\ StreamCtxDone(p)
  /\ active' = [active EXCEPT ![p] = @ \ {m}]
  /\ detached' = [detached EXCEPT ![p] = @ \cup {m}]
  /\ UNCHANGED <<ctrlVars, futureVars, runVars, inbox, pumpVars, kickVars,
                 queue, closeVars, linkVars, callVars, history>>

\* That goroutine ends, if the handler returns and its last write, to a channel
\* of one slot that nobody reads any more, does not block.
DetachedEnds(p, m) ==
  /\ m \in detached[p]
  /\ Returned(m.call)
  /\ detached' = [detached EXCEPT ![p] = @ \ {m}]
  /\ UNCHANGED <<ctrlVars, futureVars, runVars, inbox, pumpVars, kickVars,
                 queue, active, closeVars, linkVars, callVars, history>>

\* The pool was given the stream's context: it drops its queue with it.
PoolCancel(p) ==
  /\ StreamCtxDone(p)
  /\ queue[p] # <<>>
  /\ queue' = [queue EXCEPT ![p] = <<>>]
  /\ UNCHANGED <<ctrlVars, futureVars, runVars, inbox, pumpVars, kickVars,
                 active, detached, closeVars, linkVars, callVars, history>>

-------------------------------------------------------------------------------
(***************************************************************************)
(* After Run: Serve's goroutine calls CloseOrRecv, which holds sendLock    *)
(* until the pump is done, and then writes the error channel.              *)
(***************************************************************************)
CloseOrRecv(p) ==
  /\ run[p] = "returned"
  /\ ~errC[p]
  /\ ~sendLock[p]
  /\ sendLock' = [sendLock EXCEPT ![p] = TRUE]
  /\ sendClosed' = IF p = "client"
                     THEN [sendClosed EXCEPT !["client"] = TRUE]
                     ELSE sendClosed
  /\ UNCHANGED <<ctrlVars, futureVars, runVars, inbox, pumpVars, kickVars,
                 poolVars, errC, broken, callVars, history>>

CloseOrRecvDone(p) ==
  /\ sendLock[p]
  /\ ended[p] # "none"
  /\ sendLock' = [sendLock EXCEPT ![p] = FALSE]
  /\ errC' = [errC EXCEPT ![p] = TRUE]
  /\ UNCHANGED <<ctrlVars, futureVars, runVars, inbox, pumpVars, kickVars,
                 poolVars, linkVars, callVars, history>>

(***************************************************************************)
(* The environment: the connection breaks (or the client's context is      *)
(* cancelled); the gRPC handler that holds the server's end returns.       *)
(***************************************************************************)
Break ==
  /\ "break" \in Faults
  /\ ~broken
  /\ broken' = TRUE
  /\ UNCHANGED <<ctrlVars, futureVars, runVars, inbox, pumpVars, kickVars,
                 poolVars, closeVars, sendClosed, callVars, history>>

HandlerReturn ==
  /\ "return" \in Faults
  /\ ~sendClosed["server"]
  /\ sendClosed' = [sendClosed EXCEPT !["server"] = TRUE]
  /\ UNCHANGED <<ctrlVars, futureVars, runVars, inbox, pumpVars, kickVars,
                 poolVars, closeVars, broken, callVars, history>>

-------------------------------------------------------------------------------
Pump(p) == PumpRecv(p) \/ PumpEnd(p)

Run(p) ==
  \/ RunRequest(p) \/ RunResponse(p) \/ RunStreamMsg(p)
  \/ RunEnd(p) \/ RunKick(p)
  \/ \E e \in pendingRPCs[p] : Sweep(p, e)
  \/ SweepDone(p) \/ StopAndWait(p)

Work(p, m) ==
  StreamReply(p, m) \/ Reply(p, m) \/ ReplyErr(p, m) \/ GiveUp(p, m)

Close(p) == CloseOrRecv(p) \/ CloseOrRecvDone(p)

Next ==
  \/ \E c \in Call :
       RequestStore(c) \/ RequestSend(c) \/ Await(c) \/ CtxDone(c)
  \/ \E p \in Peer :
       \/ Pump(p) \/ Run(p) \/ WorkerStart(p) \/ PoolCancel(p) \/ Close(p)
       \/ \E m \in active[p] : Work(p, m)
       \/ \E m \in detached[p] : DetachedEnds(p, m)
  \/ Break
  \/ HandlerReturn

Spec == Init /\ [][Next]_vars

(***************************************************************************)
(* Every goroutine keeps running and every handler returns. Issuing a call, *)
(* cancelling it, breaking the connection and returning from the gRPC      *)
(* handler are up to the environment.                                      *)
(***************************************************************************)
Fairness ==
  /\ \A c \in Call :
       /\ WF_vars(RequestSend(c)) /\ WF_vars(Await(c))
       /\ WF_vars(StreamCtxDone(Caller(c)) /\ IsCallback(c) /\ CtxDone(c))
  /\ \A p \in Peer :
       /\ WF_vars(Pump(p)) /\ WF_vars(Run(p)) /\ WF_vars(WorkerStart(p))
       /\ WF_vars(Close(p))
       /\ \A c \in Call :
            WF_vars(\E m \in active[p] : m.call = c /\ Work(p, m))

FairSpec == Spec /\ Fairness

-------------------------------------------------------------------------------
(***************************************************************************)
(* Properties.                                                             *)
(***************************************************************************)

CtrlTypeOK ==
  /\ count \in [Peer -> Nat]
  /\ pendingRPCs \in [Peer -> SUBSET Pending]
  /\ future \in [Call -> Seq(RPC)]
  /\ closed \in SUBSET Call

RunTypeOK ==
  /\ run \in [Peer -> {"loop", "sweep", "stopping", "returned"}]
  /\ streamErr \in [Peer -> {"nil", "err"}]
  /\ mustSweep \in [Peer -> SUBSET Nat]

PumpTypeOK ==
  /\ inbox \in [Peer -> Seq(RPC)]
  /\ pumped \in [Peer -> Nat]
  /\ ended \in [Peer -> {"none", "EOF", "err"}]
  /\ \A p \in Peer :
       /\ pumped[p] <= RecvCap
       /\ pumped[p] <= Len(inbox[p])
       /\ Len(inbox[p]) <= pumped[p] + WireCap

FlagTypeOK ==
  /\ kick \in [Peer -> BOOLEAN]
  /\ kickOnce \in [Peer -> BOOLEAN]
  /\ sendLock \in [Peer -> BOOLEAN]
  /\ errC \in [Peer -> BOOLEAN]
  /\ sendClosed \in [Peer -> BOOLEAN]
  /\ broken \in BOOLEAN

PoolTypeOK ==
  /\ queue \in [Peer -> Seq(RPC)]
  /\ active \in [Peer -> SUBSET RPC]
  /\ detached \in [Peer -> SUBSET RPC]

CallTypeOK ==
  /\ caller \in [Call -> {"idle", "stored", "waiting", "done", "cancelled"}]
  /\ tag \in [Call -> Nat]
  /\ got \in [Call -> Seq(RPC)]
  /\ stage \in [Call -> {"none", "sent", "queued", "running", "replied",
                         "delivered"}]
  /\ sent \in [Call -> Nat]
  /\ reply \in [Call -> Status]

\* Types, and the capacity of the receive buffer and of the transport.
TypeOK ==
  /\ CtrlTypeOK /\ RunTypeOK /\ PumpTypeOK
  /\ FlagTypeOK /\ PoolTypeOK /\ CallTypeOK

\* Run never meets a tag without a pending RPC, and never sends on a closed
\* future: the panics of stream.go:343 and 352, and of the runtime.
NoPanic == \A p \in Peer : ~RunPanics(p)

(***************************************************************************)
(* Why Run cannot panic. Each call's request and answer is, at any time, in *)
(* one place only, the one stage names, and its pending entry is there for *)
(* as long as an answer to it may still arrive.                            *)
(***************************************************************************)

\* A message of c carries the tag its caller's controller gave to c.
Tagged(m) == caller[m.call] # "idle" /\ m.tag = tag[m.call]

\* No two calls of a controller share a tag.
TagsUnique ==
  /\ \A c \in Call :
       caller[c] # "idle" => tag[c] \in Nat /\ tag[c] <= count[Caller(c)]
  /\ \A c, d \in Call :
       /\ caller[c] # "idle" /\ caller[d] # "idle"
       /\ Caller(c) = Caller(d) /\ tag[c] = tag[d]
       => c = d

PendingOpen ==
  /\ \A p \in Peer : \A e \in pendingRPCs[p] :
       Caller(e.call) = p /\ Tagged(e) /\ e.call \notin closed
  /\ \A c \in closed : caller[c] # "idle"

\* While Run is in its loop, a call that is not answered is registered.
Registered ==
  \A c \in Call :
    run[Caller(c)] = "loop" /\ caller[c] # "idle" /\ stage[c] # "delivered"
      => [tag |-> tag[c], call |-> c] \in pendingRPCs[Caller(c)]

Unsent ==
  \A c \in Call : caller[c] \in {"idle", "stored"} => stage[c] = "none"

\* What is in flight to p, by the type of the message.
InFlight(p, m) ==
  /\ Tagged(m)
  /\ m.type = "request" =>
       /\ m = RequestMsg(m.tag, m.call)
       /\ Caller(m.call) = Other(p) /\ stage[m.call] = "sent"
  /\ m.type = "response" => Caller(m.call) = p /\ stage[m.call] = "replied"
  /\ m.type = "streamMsg" =>
       Caller(m.call) = p /\ stage[m.call] \in {"running", "replied"}

WireInv == \A p \in Peer : \A i \in 1 .. Len(inbox[p]) : InFlight(p, inbox[p][i])

\* A request is sent once, and nothing of a call follows its response.
WireOrder ==
  \A p \in Peer : \A i, j \in 1 .. Len(inbox[p]) :
    inbox[p][i].call = inbox[p][j].call /\ i < j =>
      /\ inbox[p][i].type # "response"
      /\ inbox[p][i].type # "request" \/ inbox[p][j].type # "request"

IsTask(p, m, st) ==
  /\ m = RequestMsg(m.tag, m.call)
  /\ Tagged(m)
  /\ Caller(m.call) = Other(p)
  /\ stage[m.call] = st

PoolInv ==
  \A p \in Peer :
    /\ \A i \in 1 .. Len(queue[p]) : IsTask(p, queue[p][i], "queued")
    /\ \A i, j \in 1 .. Len(queue[p]) :
         queue[p][i].call = queue[p][j].call => i = j
    /\ \A m \in active[p] : IsTask(p, m, "running")

\* The inductive invariant behind NoPanic: tags are unique, every message on
\* the stream and every task of a pool is the only one of its call at its
\* stage, and its pending entry is open until the response is delivered.
Bookkeeping ==
  /\ TagsUnique /\ PendingOpen /\ Registered /\ Unsent
  /\ WireInv /\ WireOrder /\ PoolInv

\* The last message a caller got, and the status invoke makes of it.
Outcome(c) == GetStatus(got[c][Len(got[c])].status)

\* A caller only ever receives messages of its own call.
RepliesMatch ==
  \A c \in Call : \A i \in DOMAIN got[c] : got[c][i].call = c

\* A caller told "success" was answered with success by its handler, after
\* every message of the stream had reached it, in order.
SuccessIsComplete ==
  \A c \in Call : \A i \in DOMAIN got[c] :
    /\ got[c][i].type = "streamMsg" => got[c][i].n = i
    /\ caller[c] = "done" /\ Outcome(c) = "ok" =>
         /\ reply[c] = "ok"
         /\ Len(got[c]) = sent[c] + 1

\* When the error channel is written the pool is at rest: nothing is queued and
\* no worker is in handleRequest, so no handler of a unary method runs. All that
\* may still run is the handler of a streaming method whose worker gave up on
\* it: the context it was given is done, and no answer of it was ever sent.
QuiescentAtExit ==
  \A p \in Peer :
    /\ errC[p] => active[p] = {} /\ queue[p] = <<>>
    /\ \A m \in detached[p] :
         /\ m.call \in Streaming
         /\ StreamCtxDone(p)
         /\ stage[m.call] = "running" /\ reply[m.call] = "nilProto"

\* The refinement mapping to RpcContract.
PhaseOf(c) ==
  CASE caller[c] = "idle"                        -> "idle"
    [] stage[c] = "running"                      -> "executing"
    [] stage[c] \in {"replied", "delivered"}     -> "answered"
    [] OTHER                                     -> "issued"

OutcomeOf(c) ==
  CASE caller[c] = "cancelled" -> "cancelled"
    [] caller[c] = "done"      -> IF Outcome(c) = "ok" THEN "ok" ELSE "error"
    [] OTHER                   -> "none"

Contract == INSTANCE RpcContract WITH
  phase    <- [c \in Call |-> PhaseOf(c)],
  answer   <- [c \in Call |-> IF reply[c] = "nilProto" THEN "none" ELSE reply[c]],
  emitted  <- sent,
  received <- [c \in Call |->
                 Cardinality({i \in DOMAIN got[c] : got[c][i].type = "streamMsg"})],
  outcome  <- [c \in Call |-> OutcomeOf(c)]

\* Both controllers together keep the contract of an RPC: no request is
\* executed twice, whatever is kicked, swept or dropped; a stream is received
\* as a prefix, and success is never reported for anything less.
ImplementsContract == Contract!Spec

\* Once the stream is over, both ends eventually report it.
ErrorReported ==
  (broken \/ sendClosed["server"]) ~> (errC["client"] /\ errC["server"])

\* The same when callers may be cancelled: only the reader of a stream that
\* stops reading can keep Run from ending.
ReportedUnlessAbandoned ==
  (broken \/ sendClosed["server"])
    ~> \/ errC["client"] /\ errC["server"]
       \/ \E c \in Streaming : caller[c] = "cancelled"

\* A call registered while Run was in its loop ends, unless it is cancelled.
CallResolved ==
  \A c \in Call :
    (caller[c] \in {"stored", "waiting"} /\ run[Caller(c)] = "loop")
      ~> caller[c] \in {"done", "cancelled"}
===============================================================================
