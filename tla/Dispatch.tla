------------------------------- MODULE Dispatch -------------------------------
(***************************************************************************)
(* The dispatch of requests for one service: the ServiceHandlerList of the *)
(* service (types.go), which grows as streams are spliced and shrinks when *)
(* their contexts are done, and the workers that read it several times     *)
(* while they handle a request (handleRequest, stream.go). A worker takes  *)
(* the list's lock for each read, never across two of them.                *)
(***************************************************************************)
EXTENDS Naturals, Sequences, FiniteSets, SequencesExt

CONSTANTS
  Handlers,   \* the ServiceHandlers that may be registered
  Initial,    \* those registered before the first request, in this order
  Requests,   \* the requests, one worker each
  Broadcasts, \* the requests for methods with the Broadcast strategy
  Missing     \* the requests for methods the service does not have

ASSUME DispatchAssumption ==
  /\ Initial \in Seq(Handlers) /\ IsInjective(Initial)
  /\ Broadcasts \subseteq Requests /\ Missing \subseteq Requests
  /\ Broadcasts \cap Missing = {}

VARIABLES
  data,      \* ServiceHandlerList.data
  appended,  \* the handlers Append was called with so far
  ended,     \* the handlers whose controllerContext is done
  pc,        \* per request: where its worker is
  first,     \* per request: what handlers.First() returned
  todo,      \* per request: the handlers still to invoke
  invoked,   \* per request: the handlers invoked, in order
  reply,     \* per request: what the worker answered
  steady     \* history, per request: handlers listed ever since it started

vars == <<data, appended, ended, pc, first, todo, invoked, reply, steady>>

Init ==
  /\ data     = Initial
  /\ appended = ToSet(Initial)
  /\ ended    = {}
  /\ pc       = [r \in Requests |-> "idle"]
  /\ first    = [r \in Requests |-> <<>>]
  /\ todo     = [r \in Requests |-> <<>>]
  /\ invoked  = [r \in Requests |-> <<>>]
  /\ reply    = [r \in Requests |-> "none"]
  /\ steady   = [r \in Requests |-> <<>>]

-------------------------------------------------------------------------------
(***************************************************************************)
(* The list.                                                               *)
(***************************************************************************)
\* Mutant of AppendHandler: the handler is appended twice.
AppendTwice(h) ==
  /\ h \notin appended
  /\ data' = data \o <<h, h>>
  /\ appended' = appended \cup {h}
  /\ UNCHANGED <<ended, pc, first, todo, invoked, reply, steady>>

AppendHandler(h) ==
  /\ h \notin appended
  /\ data' = Append(data, h)
  /\ appended' = appended \cup {h}
  /\ UNCHANGED <<ended, pc, first, todo, invoked, reply, steady>>

ContextDone(h) ==
  /\ h \notin ended
  /\ ended' = ended \cup {h}
  /\ UNCHANGED <<data, appended, pc, first, todo, invoked, reply, steady>>

\* Mutant of AfterFunc: an index > 0 in place of # -1.
AfterFuncSkips0(h) ==
  /\ h \in ended
  /\ h \in ToSet(data)
  /\ data[1] # h
  /\ data' = RemoveFirst(data, h)
  /\ steady' = [r \in Requests |-> RemoveFirst(steady[r], h)]
  /\ UNCHANGED <<appended, ended, pc, first, todo, invoked, reply>>

\* The function context.AfterFunc runs in a goroutine of its own: slices.Index
\* and slices.Delete.
AfterFunc(h) ==
  /\ h \in ended
  /\ h \in ToSet(data)
  /\ data' = RemoveFirst(data, h)
  /\ steady' = [r \in Requests |-> RemoveFirst(steady[r], h)]
  /\ UNCHANGED <<appended, ended, pc, first, todo, invoked, reply>>

-------------------------------------------------------------------------------
(***************************************************************************)
(* A worker. Each action reads the list once.                              *)
(***************************************************************************)
Answer(r, s) ==
  /\ reply' = [reply EXCEPT ![r] = s]
  /\ pc' = [pc EXCEPT ![r] = "done"]

\* Mutant of CheckLen: an off-by-one.
CheckLen1(r) ==
  /\ pc[r] = "idle"
  /\ steady' = [steady EXCEPT ![r] = data]
  /\ IF Len(data) > 1
       THEN pc' = [pc EXCEPT ![r] = "first"] /\ UNCHANGED reply
       ELSE Answer(r, "unimplemented")
  /\ UNCHANGED <<data, appended, ended, first, todo, invoked>>

\* services.Load(svcName) and handlers.Len() > 0.
CheckLen(r) ==
  /\ pc[r] = "idle"
  /\ steady' = [steady EXCEPT ![r] = data]
  /\ IF Len(data) > 0
       THEN pc' = [pc EXCEPT ![r] = "first"] /\ UNCHANGED reply
       ELSE Answer(r, "unimplemented")
  /\ UNCHANGED <<data, appended, ended, first, todo, invoked>>

\* handlers.First(), nil if the list has become empty.
TakeFirst(r) ==
  /\ pc[r] = "first"
  /\ first' = [first EXCEPT ![r] = IF data = <<>> THEN <<>> ELSE <<Head(data)>>]
  /\ IF data = <<>>
       THEN Answer(r, "unimplemented")
       ELSE pc' = [pc EXCEPT ![r] = "strategy"] /\ UNCHANGED reply
  /\ UNCHANGED <<data, appended, ended, todo, invoked, steady>>

\* Mutants of ChooseStrategy: an off-by-one in Len; the method's strategy is
\* not looked at.
ChooseStrategy2(r) ==
  /\ pc[r] = "strategy"
  /\ pc' = [pc EXCEPT ![r] =
       IF r \in Broadcasts /\ Len(data) > 2 THEN "clone" ELSE "invoke"]
  /\ todo' = [todo EXCEPT ![r] = first[r]]
  /\ UNCHANGED <<data, appended, ended, first, invoked, reply, steady>>

StrategyIgnored(r) ==
  /\ pc[r] = "strategy"
  /\ pc' = [pc EXCEPT ![r] = IF Len(data) > 1 THEN "clone" ELSE "invoke"]
  /\ todo' = [todo EXCEPT ![r] = first[r]]
  /\ UNCHANGED <<data, appended, ended, first, invoked, reply, steady>>

\* handlers.Len() > 1 and first.MethodQOS[method].
ChooseStrategy(r) ==
  /\ pc[r] = "strategy"
  /\ pc' = [pc EXCEPT ![r] =
       IF r \in Broadcasts /\ Len(data) > 1 THEN "clone" ELSE "invoke"]
  /\ todo' = [todo EXCEPT ![r] = first[r]]
  /\ UNCHANGED <<data, appended, ended, first, invoked, reply, steady>>

\* handlers.Range clones the list before it calls anything.
CloneData(r) ==
  /\ pc[r] = "clone"
  /\ todo' = [todo EXCEPT ![r] = data]
  /\ pc' = [pc EXCEPT ![r] = "broadcast"]
  /\ UNCHANGED <<data, appended, ended, first, invoked, reply, steady>>

InvokeNext(r) ==
  /\ todo' = [todo EXCEPT ![r] = Tail(@)]
  /\ invoked' = [invoked EXCEPT ![r] = Append(@, Head(todo[r]))]

\* The results of a broadcast are dropped.
InvokeBroadcast(r) ==
  /\ pc[r] = "broadcast"
  /\ todo[r] # <<>>
  /\ InvokeNext(r)
  /\ UNCHANGED <<data, appended, ended, pc, first, reply, steady>>

ReplyBroadcast(r) ==
  /\ pc[r] = "broadcast"
  /\ todo[r] = <<>>
  /\ Answer(r, "ok")
  /\ UNCHANGED <<data, appended, ended, first, todo, invoked, steady>>

\* The one handler's result is the answer.
InvokeFirst(r) ==
  /\ pc[r] = "invoke"
  /\ r \notin Missing
  /\ InvokeNext(r)
  /\ \E s \in {"ok", "error"} : Answer(r, s)
  /\ UNCHANGED <<data, appended, ended, first, steady>>

MethodNotFound(r) ==
  /\ pc[r] = "invoke"
  /\ r \in Missing
  /\ Answer(r, "notFound")
  /\ UNCHANGED <<data, appended, ended, first, todo, invoked, steady>>

Worker(r) ==
  \/ CheckLen(r) \/ TakeFirst(r) \/ ChooseStrategy(r) \/ CloneData(r)
  \/ InvokeBroadcast(r) \/ ReplyBroadcast(r) \/ InvokeFirst(r)
  \/ MethodNotFound(r)

Next ==
  \/ \E h \in Handlers : AppendHandler(h) \/ ContextDone(h) \/ AfterFunc(h)
  \/ \E r \in Requests : Worker(r)

Spec == Init /\ [][Next]_vars

\* Handlers return, AfterFunc's goroutines run.
FairSpec ==
  /\ Spec
  /\ \A r \in Requests : WF_vars(pc[r] # "idle" /\ Worker(r))
  /\ \A h \in Handlers : WF_vars(AfterFunc(h))

-------------------------------------------------------------------------------
\* Types, and no handler is in the list twice.
TypeOK ==
  /\ data \in Seq(Handlers) /\ IsInjective(data)
  /\ appended \subseteq Handlers /\ ended \subseteq Handlers
  /\ pc \in [Requests -> {"idle", "first", "strategy", "clone", "broadcast",
                          "invoke", "done"}]
  /\ {first, todo, invoked, steady} \subseteq [Requests -> Seq(Handlers)]
  /\ reply \in [Requests -> {"none", "ok", "error", "notFound",
                             "unimplemented"}]

\* A service that has a handler all the while is never reported as unknown,
\* whatever handlers come and go between the reads of the list.
NeverUnknown ==
  \A r \in Requests : reply[r] = "unimplemented" => steady[r] = <<>>

\* A request that is not broadcast goes to one handler, and to the first of
\* the list if that one stays; a broadcast calls no handler twice.
FirstServes ==
  \A r \in Requests :
    /\ r \notin Broadcasts /\ reply[r] \in {"ok", "error"} =>
         Len(invoked[r]) = 1
    /\ IsInjective(invoked[r])
    /\ invoked[r] # <<>> /\ r \notin Broadcasts /\ steady[r] # <<>> =>
         invoked[r][1] = steady[r][1] \/ invoked[r][1] \notin ToSet(steady[r])

\* A broadcast reaches every handler that stays, as long as two of them do.
BroadcastReaches ==
  \A r \in Broadcasts :
    pc[r] = "done" /\ Len(steady[r]) > 1 =>
      ToSet(steady[r]) \subseteq ToSet(invoked[r])

\* A handler whose context is done leaves the list for good, also when it was
\* appended afterwards.
EndedLeaves ==
  \A h \in Handlers :
    [](h \in ended /\ h \in appended => <>[](h \notin ToSet(data)))
===============================================================================
