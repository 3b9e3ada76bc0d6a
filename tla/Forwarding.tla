------------------------------ MODULE Forwarding ------------------------------
(***************************************************************************)
(* A hub forwards RPCs between its main stream and a spliced one, in both  *)
(* directions: streamControllerInvoker (invokers.go), the relaying half of *)
(* handleRequest and the Run of the two controllers it couples (stream.go).*)
(* Worker pool, pump and flow control are StreamController's. What is at   *)
(* the other end of each stream is another totem peer.                     *)
(***************************************************************************)
EXTENDS Naturals, Sequences, FiniteSets

CONSTANTS
  MainCalls,      \* RPCs from the peer of the main stream to the spliced one's
  SplicedCalls,   \* RPCs in the other direction
  Streaming,      \* those of server-streaming methods
  StreamLen,      \* bound: stream messages one handler may send
  Earlier,        \* calls each peer made before, to the hub itself
  ClientStreams,  \* the hub's streams that have CloseSend
  Ends            \* bound: the ends <<stream, how>> that may happen

ASSUME ForwardingAssumption ==
  /\ MainCalls \cap SplicedCalls = {}
  /\ Streaming \subseteq MainCalls \cup SplicedCalls
  /\ StreamLen \in Nat /\ Earlier \in Nat
  /\ ClientStreams \subseteq {"main", "spliced"}
  /\ Ends \subseteq {"main", "spliced"} \X {"eof", "err"}

VARIABLES
  stream,     \* per stream: "open", or what Recv returns in the end
  toHub,      \* per stream: messages received and not yet taken by Run
  count,      \* per controller: the last tag used
  pending,    \* per controller: pendingRPCs, pairs of a tag and a call
  run,        \* per controller: where Run is
  streamErr,  \* per controller: Run's local streamErr
  kick,       \* per controller: recvWrapper.kick holds an error
  worker,     \* per call: where its handleRequest at the hub is
  requestTag, \* per call: handleRequest's local of that name
  msgTag,     \* per call: msg.Tag, which Request overwrites
  invoke,     \* per call: where Invoke, or InvokeStream's goroutine, is
  held,       \* per call: the message taken from the future
  future,     \* per call: content of the channel Request made
  writer,     \* per call: content of responseC
  exit,       \* per call: exitResponse, its status
  issuer,     \* per call: its caller, at the other end of the stream
  issuerTag,  \* per call: the tag its caller's controller gave it
  handler,    \* per call: its handler, at the end of the other stream
  handlerTag, \* per call: the tag its handler was called with
  answer,     \* per call: the status its handler answered with
  sent,       \* per call: stream messages its handler sent
  received,   \* per call: stream messages its caller received
  stray       \* history: replies that reached a peer which has no such call

linkVars   == <<stream, toHub>>
ctrlVars   == <<count, pending, run, streamErr, kick>>
hubVars    == <<worker, requestTag, msgTag, invoke, held, future, writer, exit>>
peerVars   == <<issuer, handler, handlerTag, received, stray>>
remoteVars == <<peerVars, issuerTag, answer, sent>>
vars       == <<linkVars, ctrlVars, hubVars, remoteVars>>

-------------------------------------------------------------------------------
Link == {"main", "spliced"}

Other(k) == IF k = "main" THEN "spliced" ELSE "main"

Call == MainCalls \cup SplicedCalls

\* The stream a call comes from, and the one it is forwarded to.
Origin(c) == IF c \in MainCalls THEN "main" ELSE "spliced"
Target(c) == Other(Origin(c))

\* make(chan *RPC, 1) in Request, and responseC of handleRequest.
ChanCap == 1

Msg(type, t, c, s) == [type |-> type, tag |-> t, call |-> c, status |-> s]

NoMsg == <<>>

\* Mutant of GetStatus: status.FromProto's reading of a missing status.
GetStatusNilOK(m) == IF m.status = "nil" THEN "ok" ELSE m.status

\* Response.GetStatus: no status reads as codes.Unknown, an error.
GetStatus(m) == IF m.status = "nil" THEN "error" ELSE m.status

\* When the context of the hub's stream k, which handlers are given, is done.
CtxDone(k) == stream[k] = "err" \/ (stream[k] = "eof" /\ k \in ClientStreams)

Init ==
  /\ stream = [k \in Link |-> "open"]
  /\ toHub = [k \in Link |-> <<>>]
  /\ count = [k \in Link |-> 0] /\ pending = [k \in Link |-> {}]
  /\ run = [k \in Link |-> "loop"] /\ streamErr = [k \in Link |-> "nil"]
  /\ kick = [k \in Link |-> FALSE]
  /\ worker = [c \in Call |-> "none"] /\ invoke = [c \in Call |-> "none"]
  /\ requestTag = [c \in Call |-> 0] /\ msgTag = [c \in Call |-> 0]
  /\ held = [c \in Call |-> NoMsg]
  /\ future = [c \in Call |-> <<>>] /\ writer = [c \in Call |-> <<>>]
  /\ exit = [c \in Call |-> "none"]
  /\ issuer = [c \in Call |-> "idle"] /\ issuerTag = [c \in Call |-> 0]
  /\ handler = [c \in Call |-> "none"] /\ handlerTag = [c \in Call |-> 0]
  /\ answer = [c \in Call |-> "none"]
  /\ sent = [c \in Call |-> 0] /\ received = [c \in Call |-> 0]
  /\ stray = {}

-------------------------------------------------------------------------------
(***************************************************************************)
(* stream.Send of the hub. The peer takes a request to its handler, and    *)
(* gives a reply to the call that has its tag. Once the stream is over     *)
(* Send fails, and kicks the controller unless the failure is io.EOF; a    *)
(* kick that Run is no longer there to take is left out.                   *)
(***************************************************************************)
IssuerOf(k, t) ==
  {c \in Call : Origin(c) = k /\ issuer[c] = "waiting" /\ issuerTag[c] = t}

PeerRecv(k, m) ==
  \/ /\ m.type = "request"
     /\ handler' = [handler EXCEPT ![m.call] = "executing"]
     /\ handlerTag' = [handlerTag EXCEPT ![m.call] = m.tag]
     /\ UNCHANGED <<issuer, received, stray>>
  \/ /\ m.type # "request"
     /\ LET to == IssuerOf(k, m.tag) IN
          /\ stray' = IF to = {m.call} THEN stray ELSE stray \cup {m}
          /\ received' = [c \in Call |-> received[c] +
               (IF m.type = "streamMsg" /\ c \in to THEN 1 ELSE 0)]
          /\ issuer' = [c \in Call |->
               IF m.type = "response" /\ c \in to THEN m.status ELSE issuer[c]]
     /\ UNCHANGED <<handler, handlerTag>>

Kick(k) == run[k] = "loop" /\ kick' = [kick EXCEPT ![k] = TRUE]

Send(k, m) ==
  \/ /\ stream[k] = "open"
     /\ PeerRecv(k, m)
     /\ UNCHANGED kick
  \/ /\ stream[k] # "open"
     /\ UNCHANGED peerVars
     /\ \/ UNCHANGED kick
        \/ stream[k] = "err" /\ Kick(k)

(***************************************************************************)
(* Run of the hub's two controllers.                                       *)
(***************************************************************************)
Receiving(k, type) ==
  run[k] = "loop" /\ toHub[k] # <<>> /\ Head(toHub[k]).type = type

Take(k) == toHub' = [toHub EXCEPT ![k] = Tail(@)]

\* A worker starts handleRequest, which saves the tag.
RunRequest(k) ==
  LET m == Head(toHub[k]) IN
  /\ Receiving(k, "request")
  /\ Take(k)
  /\ worker' = [worker EXCEPT ![m.call] = "dispatch"]
  /\ requestTag' = [requestTag EXCEPT ![m.call] = m.tag]
  /\ msgTag' = [msgTag EXCEPT ![m.call] = m.tag]
  /\ UNCHANGED <<stream, ctrlVars, invoke, held, future, writer, exit,
                 remoteVars>>

Lookup(k, t) == {e \in pending[k] : e.tag = t}

Deliver(e, m) ==
  /\ Len(future[e.call]) < ChanCap
  /\ future' = [future EXCEPT ![e.call] = Append(@, m)]

RunResponse(k) ==
  /\ Receiving(k, "response")
  /\ \E e \in Lookup(k, Head(toHub[k]).tag) :
       /\ Deliver(e, Head(toHub[k]))
       /\ pending' = [pending EXCEPT ![k] = @ \ {e}]
  /\ Take(k)
  /\ UNCHANGED <<stream, count, run, streamErr, kick, worker,
                 requestTag, msgTag, invoke, held, writer, exit, remoteVars>>

RunStreamMsg(k) ==
  /\ Receiving(k, "streamMsg")
  /\ \E e \in Lookup(k, Head(toHub[k]).tag) : Deliver(e, Head(toHub[k]))
  /\ Take(k)
  /\ UNCHANGED <<stream, ctrlVars, worker, requestTag, msgTag, invoke,
                 held, writer, exit, remoteVars>>

\* The loop ends with the error payload, which is the last, or with a kick.
\* Nobody takes what is or will be received.
RunEnd(k) ==
  /\ run[k] = "loop"
  /\ \/ /\ stream[k] # "open" /\ toHub[k] = <<>>
        /\ streamErr' = [streamErr EXCEPT ![k] =
             IF stream[k] = "eof" THEN "nil" ELSE "error"]
     \/ kick[k] /\ streamErr' = [streamErr EXCEPT ![k] = "error"]
  /\ kick' = [kick EXCEPT ![k] = FALSE]
  /\ toHub' = [toHub EXCEPT ![k] = <<>>]
  /\ run' = [run EXCEPT ![k] = "sweep"]
  /\ UNCHANGED <<stream, count, pending, hubVars, remoteVars>>

\* Range cancels what is pending.
Sweep(k) ==
  /\ run[k] = "sweep"
  /\ \E e \in pending[k] :
       /\ Deliver(e, Msg("response", e.tag, e.call, streamErr[k]))
       /\ pending' = [pending EXCEPT ![k] = @ \ {e}]
  /\ UNCHANGED <<linkVars, count, run, streamErr, kick, worker, requestTag,
                 msgTag, invoke, held, writer, exit, remoteVars>>

SweepDone(k) ==
  /\ run[k] = "sweep"
  /\ pending[k] = {}
  /\ run' = [run EXCEPT ![k] = "stopping"]
  /\ UNCHANGED <<linkVars, count, pending, streamErr, kick, hubVars,
                 remoteVars>>

StopAndWait(k) ==
  /\ run[k] = "stopping"
  /\ \A c \in Call : Origin(c) = k => worker[c] \in {"none", "done"}
  /\ run' = [run EXCEPT ![k] = "returned"]
  /\ UNCHANGED <<linkVars, count, pending, streamErr, kick, hubVars,
                 remoteVars>>

\* Serve's goroutine kicks the spliced controller when the main stream has
\* failed. (It closes it too; the peer then hangs up: EndOf.)
KickSpliced ==
  /\ run["main"] = "returned" /\ streamErr["main"] = "error"
  /\ ~kick["spliced"] /\ Kick("spliced")
  /\ UNCHANGED <<linkVars, count, pending, run, streamErr, hubVars, remoteVars>>

-------------------------------------------------------------------------------
(***************************************************************************)
(* handleRequest at the hub. The handler found is the invoker of the other *)
(* controller, or none once AfterFunc has removed it. What can happen      *)
(* between the Store and the Send of Request is StreamController's.        *)
(***************************************************************************)
\* Mutant of ReplyTo: msg.Tag, as it is now, in place of the tag saved before.
ReplyToMsgTag(c, s) == Send(Origin(c), Msg("response", msgTag[c], c, s))

\* Reply or ReplyErr, and the return from handleRequest.
ReplyTo(c, s) == Send(Origin(c), Msg("response", requestTag[c], c, s))

NoHandler(c) ==
  /\ worker[c] = "dispatch"
  /\ CtxDone(Target(c))
  /\ ReplyTo(c, "error")
  /\ worker' = [worker EXCEPT ![c] = "done"]
  /\ UNCHANGED <<linkVars, count, pending, run, streamErr, requestTag, msgTag,
                 invoke, held, future, writer, exit, issuerTag, answer, sent>>

\* Invoke or InvokeStream calls Request on the other controller.
Request(c) ==
  LET k == Target(c)
      t == count[k] + 1
  IN  /\ worker[c] = "dispatch"
      /\ worker' = [worker EXCEPT ![c] = "relay"]
      /\ invoke' = [invoke EXCEPT ![c] = "await"]
      /\ count' = [count EXCEPT ![k] = t]
      /\ msgTag' = [msgTag EXCEPT ![c] = t]
      /\ pending' = [pending EXCEPT ![k] = @ \cup {[tag |-> t, call |-> c]}]
      /\ Send(k, Msg("request", t, c, "none"))
      /\ UNCHANGED <<linkVars, run, streamErr, requestTag, held, future, writer,
                     exit, issuerTag, answer, sent>>

\* Mutant of InvokeReturn: no case for ctx.Done().
InvokeNoCtx(c) ==
  /\ invoke[c] = "await" /\ c \notin Streaming
  /\ future[c] # <<>>
  /\ ReplyTo(c, GetStatus(Head(future[c])))
  /\ invoke' = [invoke EXCEPT ![c] = "done"]
  /\ worker' = [worker EXCEPT ![c] = "done"]
  /\ UNCHANGED <<linkVars, count, pending, run, streamErr, requestTag, msgTag,
                 held, future, writer, exit, issuerTag, answer, sent>>

\* Invoke: the response, or the end of the context of the call's stream.
InvokeReturn(c) ==
  /\ invoke[c] = "await" /\ c \notin Streaming
  /\ \/ /\ future[c] # <<>>
        /\ ReplyTo(c, GetStatus(Head(future[c])))
     \/ /\ CtxDone(Origin(c))
        /\ ReplyTo(c, "error")
  /\ invoke' = [invoke EXCEPT ![c] = "done"]
  /\ worker' = [worker EXCEPT ![c] = "done"]
  /\ UNCHANGED <<linkVars, count, pending, run, streamErr, requestTag, msgTag,
                 held, future, writer, exit, issuerTag, answer, sent>>

\* InvokeStream's goroutine: it takes from the future, and writes.
StreamTake(c) ==
  /\ invoke[c] = "await" /\ c \in Streaming
  /\ future[c] # <<>>
  /\ held' = [held EXCEPT ![c] = Head(future[c])]
  /\ future' = [future EXCEPT ![c] = Tail(@)]
  /\ invoke' = [invoke EXCEPT ![c] = "write"]
  /\ UNCHANGED <<linkVars, ctrlVars, worker, requestTag, msgTag, writer, exit,
                 remoteVars>>

\* Mutant of StreamWrite: it returns with the response, and does not write it.
StreamWriteNoExit(c) ==
  /\ invoke[c] = "write"
  /\ Len(writer[c]) < ChanCap
  /\ writer' = IF held[c].type = "response" THEN writer
                 ELSE [writer EXCEPT ![c] = Append(@, held[c])]
  /\ held' = [held EXCEPT ![c] = NoMsg]
  /\ invoke' = [invoke EXCEPT ![c] =
       IF held[c].type = "response" THEN "done" ELSE "await"]
  /\ UNCHANGED <<linkVars, ctrlVars, worker, requestTag, msgTag, future, exit,
                 remoteVars>>

StreamWrite(c) ==
  /\ invoke[c] = "write"
  /\ Len(writer[c]) < ChanCap
  /\ writer' = [writer EXCEPT ![c] = Append(@, held[c])]
  /\ held' = [held EXCEPT ![c] = NoMsg]
  /\ invoke' = [invoke EXCEPT ![c] =
       IF held[c].type = "response" THEN "done" ELSE "await"]
  /\ UNCHANGED <<linkVars, ctrlVars, worker, requestTag, msgTag, future, exit,
                 remoteVars>>

StreamCtxDone(c) ==
  /\ invoke[c] = "await" /\ c \in Streaming
  /\ CtxDone(Origin(c))
  /\ invoke' = [invoke EXCEPT ![c] = "done"]
  /\ UNCHANGED <<linkVars, ctrlVars, worker, requestTag, msgTag, held, future,
                 writer, exit, remoteVars>>

\* handleRequest's loop over responseC: StreamReply, or exitResponse = response.
Relay(c) ==
  /\ worker[c] = "relay" /\ writer[c] # <<>>
  /\ writer' = [writer EXCEPT ![c] = Tail(@)]
  /\ LET m == Head(writer[c]) IN
       IF m.type = "streamMsg"
         THEN /\ Send(Origin(c), Msg("streamMsg", requestTag[c], m.call, "none"))
              /\ UNCHANGED exit
         ELSE /\ exit' = [exit EXCEPT ![c] = GetStatus(m)]
              /\ UNCHANGED <<kick, peerVars>>
  /\ UNCHANGED <<stream, toHub, count, pending, run, streamErr, worker,
                 requestTag, msgTag, invoke, held, future, issuerTag, answer, sent>>

\* responseC is closed and empty: reply with exitResponse, if there was one.
RelayEnd(c) ==
  /\ worker[c] = "relay" /\ c \in Streaming
  /\ invoke[c] = "done" /\ writer[c] = <<>>
  /\ worker' = [worker EXCEPT ![c] = "done"]
  /\ \/ exit[c] # "none" /\ ReplyTo(c, exit[c])
     \/ exit[c] = "none" /\ UNCHANGED <<kick, peerVars>>
  /\ UNCHANGED <<linkVars, count, pending, run, streamErr, requestTag, msgTag,
                 invoke, held, future, writer, exit, issuerTag, answer, sent>>

RelayCtxDone(c) ==
  /\ worker[c] = "relay" /\ c \in Streaming
  /\ CtxDone(Origin(c))
  /\ worker' = [worker EXCEPT ![c] = "done"]
  /\ UNCHANGED <<linkVars, ctrlVars, requestTag, msgTag, invoke, held, future,
                 writer, exit, remoteVars>>

-------------------------------------------------------------------------------
(***************************************************************************)
(* The peers at the other ends, as StreamController has them: a call gets  *)
(* the messages with its tag, and fails when the stream is over.           *)
(***************************************************************************)
Deposit(k, m) ==
  /\ stream[k] = "open"
  /\ toHub' = IF run[k] = "loop" THEN [toHub EXCEPT ![k] = Append(@, m)]
                                 ELSE toHub

Issue(c) ==
  LET t == Earlier + 1 + Cardinality({d \in Call : Origin(d) = Origin(c)
                                                   /\ issuer[d] # "idle"})
  IN  /\ issuer[c] = "idle"
      /\ issuer' = [issuer EXCEPT ![c] = "waiting"]
      /\ issuerTag' = [issuerTag EXCEPT ![c] = t]
      /\ Deposit(Origin(c), Msg("request", t, c, "none"))
      /\ UNCHANGED <<stream, ctrlVars, hubVars, handler, handlerTag,
                     answer, sent, received, stray>>

HandlerSend(c) ==
  /\ handler[c] = "executing" /\ c \in Streaming /\ sent[c] < StreamLen
  /\ sent' = [sent EXCEPT ![c] = @ + 1]
  /\ Deposit(Target(c), Msg("streamMsg", handlerTag[c], c, "none"))
  /\ UNCHANGED <<stream, ctrlVars, hubVars, issuer, issuerTag, handler,
                 handlerTag, answer, received, stray>>

HandlerReturn(c) ==
  /\ handler[c] = "executing"
  /\ handler' = [handler EXCEPT ![c] = "answered"]
  /\ \E s \in {"ok", "error"} :
       /\ answer' = [answer EXCEPT ![c] = s]
       /\ Deposit(Target(c), Msg("response", handlerTag[c], c, s))
  /\ UNCHANGED <<stream, ctrlVars, hubVars, issuer, issuerTag,
                 handlerTag, sent, received, stray>>

\* A stream ends, and with it the peer and its calls. With an error, what the
\* hub's pump has not read is lost.
EndOf(k) ==
  /\ stream[k] = "open"
  /\ \E how \in {"eof", "err"} :
       /\ <<k, how>> \in Ends
       /\ stream' = [stream EXCEPT ![k] = how]
       /\ \E i \in 0 .. Len(toHub[k]) :
            /\ how = "eof" => i = Len(toHub[k])
            /\ toHub' = [toHub EXCEPT ![k] = SubSeq(@, 1, i)]
  /\ issuer' = [c \in Call |->
       IF Origin(c) = k /\ issuer[c] = "waiting" THEN "error" ELSE issuer[c]]
  /\ UNCHANGED <<ctrlVars, hubVars, issuerTag, handler, handlerTag, answer,
                 sent, received, stray>>

-------------------------------------------------------------------------------
Run(k) ==
  \/ RunRequest(k) \/ RunResponse(k) \/ RunStreamMsg(k)
  \/ RunEnd(k) \/ Sweep(k) \/ SweepDone(k) \/ StopAndWait(k)

Invoke(c) ==
  InvokeReturn(c) \/ StreamTake(c) \/ StreamWrite(c) \/ StreamCtxDone(c)

Worker(c) ==
  NoHandler(c) \/ Request(c) \/ Relay(c) \/ RelayEnd(c) \/ RelayCtxDone(c)

Next ==
  \/ \E k \in Link : Run(k) \/ EndOf(k)
  \/ KickSpliced
  \/ \E c \in Call :
       \/ Invoke(c) \/ Worker(c)
       \/ Issue(c) \/ HandlerSend(c) \/ HandlerReturn(c)

Spec == Init /\ [][Next]_vars

\* Goroutines that can run do, and handlers return.
FairSpec ==
  /\ Spec
  /\ \A k \in Link : WF_vars(Run(k))
  /\ \A c \in Call :
       WF_vars(Invoke(c)) /\ WF_vars(Worker(c)) /\ WF_vars(HandlerReturn(c))

-------------------------------------------------------------------------------
\* The messages of totem on the wire, and those a future or responseC holds.
RequestMsg ==
  [type : {"request"}, tag : Nat, call : Call, status : {"none"}]
ReplyMsg ==
  [type : {"streamMsg"}, tag : Nat, call : Call, status : {"none"}]
  \cup [type : {"response"}, tag : Nat, call : Call,
        status : {"nil", "ok", "error"}]

\* Types of the variables, the capacities of the channels included.
TypeOK ==
  /\ stream \in [Link -> {"open", "eof", "err"}]
  /\ toHub \in [Link -> Seq(RequestMsg \cup ReplyMsg)]
  /\ count \in [Link -> Nat]
  /\ pending \in [Link -> SUBSET [tag : Nat, call : Call]]
  /\ run \in [Link -> {"loop", "sweep", "stopping", "returned"}]
  /\ streamErr \in [Link -> {"nil", "error"}] /\ kick \in [Link -> BOOLEAN]
  /\ worker \in [Call -> {"none", "dispatch", "relay", "done"}]
  /\ requestTag \in [Call -> Nat] /\ msgTag \in [Call -> Nat]
  /\ invoke \in [Call -> {"none", "await", "write", "done"}]
  /\ held \in [Call -> ReplyMsg \cup {NoMsg}]
  /\ future \in [Call -> Seq(ReplyMsg)] /\ writer \in [Call -> Seq(ReplyMsg)]
  /\ \A c \in Call : Len(future[c]) <= ChanCap /\ Len(writer[c]) <= ChanCap
  /\ exit \in [Call -> {"none", "ok", "error"}]
  /\ issuer \in [Call -> {"idle", "waiting", "ok", "error"}]
  /\ issuerTag \in [Call -> Nat]
  /\ handler \in [Call -> {"none", "executing", "answered"}]
  /\ handlerTag \in [Call -> Nat]
  /\ answer \in [Call -> {"none", "ok", "error"}]
  /\ sent \in [Call -> Nat] /\ received \in [Call -> Nat]
  /\ stray \subseteq ReplyMsg

\* Every reply the hub sends on reaches the call it answers; and the hub is
\* only sent replies to what it has forwarded and not yet resolved. Otherwise
\* an end panics, or answers the wrong caller (stream.go:343, 352, 557).
TagsRouted ==
  /\ stray = {}
  /\ \A k \in Link : \A i \in DOMAIN toHub[k] :
       LET m == toHub[k][i] IN
       m.type # "request" /\ run[k] = "loop" =>
         [tag |-> m.tag, call |-> m.call] \in pending[k]

\* The refinement mapping to RpcContract: the issuer at one end, the handler
\* at the other.
Contract == INSTANCE RpcContract WITH
  phase    <- [c \in Call |->
                 IF issuer[c] = "idle" THEN "idle"
                 ELSE IF handler[c] = "none" THEN "issued" ELSE handler[c]],
  answer   <- answer,
  emitted  <- sent,
  received <- received,
  outcome  <- [c \in Call |->
                 IF issuer[c] \in {"ok", "error"} THEN issuer[c] ELSE "none"]

\* The contract holds across two streams and the hub between them: at most
\* one execution, a prefix of the stream, and success only for all of it.
EndToEnd == Contract!Spec

\* A stream nobody relays any more while its handler may still send.
Abandoned(c) ==
  /\ c \in Streaming
  /\ worker[c] = "done"
  /\ \E e \in pending[Target(c)] : e.call = c

\* A forwarded call whose request was registered while Run was in its loop
\* ends, whichever stream fails, unless an abandoned stream blocks that Run.
CallResolved ==
  \A c \in Call :
    ((\E e \in pending[Target(c)] : e.call = c) /\ run[Target(c)] = "loop")
      ~> (issuer[c] \in {"ok", "error"} \/ \E s \in Call : Abandoned(s))

\* Run of either controller returns once the context of its stream is done,
\* even when its workers wait for an answer that the other stream never gives
\* (stream.go:376), unless an abandoned stream blocks it.
RunReturns ==
  \A k \in Link :
    CtxDone(k) ~> (run[k] = "returned" \/ \E s \in Call : Abandoned(s))
===============================================================================
