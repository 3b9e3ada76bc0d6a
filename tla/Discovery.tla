------------------------------- MODULE Discovery ------------------------------
(***************************************************************************)
(* Service discovery across totem servers: Splice and Serve of every node  *)
(* (server.go), discoverServices (discovery.go) and the recursive          *)
(* ListServices (stream.go) that answers it, over streams that may break.  *)
(* A node has a main controller and one per spliced stream; each is paired *)
(* with a controller of another node at the other end of its stream.       *)
(***************************************************************************)
EXTENDS Integers, Sequences, FiniteSets, SequencesExt

CONSTANTS
  Node,
  Main,       \* per node: its main controller
  Splices,    \* per node: the controllers of its spliced streams, in order
  Peer,       \* per controller: the one at the other end of its stream
  Local,      \* per node: the services registered with it
  Visible,    \* the services with the visibility option splicedClients
  Reflection, \* totem.ServerReflection, which every controller serves
  HopLimit,   \* per node: discoveryHopLimit; negative for none
  Breakable,  \* bound: controllers whose stream may break
  Cleaned     \* bound: controllers whose AfterFunc goroutines get to run

Controller == DOMAIN Peer

Name == (UNION {Local[n] : n \in Node}) \cup {Reflection}

Spliced == UNION {ToSet(Splices[n]) : n \in Node}

\* A controller is made for one stream, by one node, and is its main one or that
\* of a Splice.
ASSUME DiscoveryAssumption ==
  /\ HopLimit \in [Node -> Int]
  /\ Breakable \subseteq Controller /\ Cleaned \subseteq Controller
  /\ Main \in [Node -> Controller] /\ Splices \in [Node -> Seq(Controller)]
  /\ \A n \in Node : IsInjective(Splices[n])
  /\ \A n, m \in Node : n # m =>
       Main[n] # Main[m] /\ ToSet(Splices[n]) \cap ToSet(Splices[m]) = {}
  /\ \A n \in Node : Main[n] \notin Spliced
  /\ Peer \in [Controller -> Controller]
  /\ \A c \in Controller : Peer[c] # c /\ Peer[Peer[c]] = c
  /\ "local" \notin Controller /\ Reflection \in Visible

VARIABLES
  running,  \* the controllers whose Run has been started
  down,     \* the controllers whose stream is over
  handlers, \* per controller: its services
  step,     \* per node: how many of its Splices, and its Serve, have returned
  answer,   \* per controller: what discoverServices has got
  stack     \* per controller: the calls of ListServices its discovery made

vars == <<running, down, handlers, step, answer, stack>>

-------------------------------------------------------------------------------
(***************************************************************************)
(* A ServiceHandler: a service, the controller its invoker sends to (or    *)
(* "local") and the controller whose context it lives with.                *)
(***************************************************************************)
Handler(name, via, ctx) == [name |-> name, via |-> via, ctx |-> ctx]

\* What NewStreamController registers, and RegisterService.
InitialHandlers(c) ==
  {Handler(Reflection, "local", c), Handler(Reflection, c, c)}
    \cup {Handler(s, "local", c) :
            s \in UNION {Local[n] : n \in {n \in Node : Main[n] = c}}}

Program(n) == Append(Splices[n], Main[n])

\* The controller node n is bringing up.
Current(n) == Program(n)[step[n] + 1]

Starting(n) == step[n] < Len(Program(n))

Init ==
  /\ running  = {}
  /\ down     = {}
  /\ handlers = [c \in Controller |-> InitialHandlers(c)]
  /\ step     = [n \in Node |-> 0]
  /\ answer   = [c \in Controller |-> [status |-> "none", names |-> {}]]
  /\ stack    = [c \in Controller |-> <<>>]

-------------------------------------------------------------------------------
(***************************************************************************)
(* One call of ListServices, made over the stream of controller via and    *)
(* executed at its peer. It is lost if via's Run is already past its final *)
(* Range: then only the end of the caller's own stream ends it.            *)
(***************************************************************************)
Frame(via, hops, visited, state) ==
  [via |-> via, hops |-> hops, visited |-> visited, state |-> state,
   names |-> {}, todo |-> {}]

SentStates(via) == IF via \in down THEN {"sent", "lost"} ELSE {"sent"}

Top(c) == stack[c][Len(stack[c])]

SetTop(c, f) == [stack EXCEPT ![c][Len(stack[c])] = f]

\* The frames from i on are gone; the one below goes on with these names.
PopTo(c, i, names) ==
  IF i = 1
    THEN stack' = [stack EXCEPT ![c] = <<>>]
    ELSE LET f == stack[c][i - 1]
             g == [f EXCEPT !.names = f.names \cup names]
         IN  stack' = [stack EXCEPT ![c] =
               Append(SubSeq(stack[c], 1, i - 2), g)]

\* Mutant of Stops: the hop limit ends discovery one hop early.
StopsEarly(c, f) ==
  f.hops - 1 = 0 \/ Peer[f.via] = c \/ Peer[f.via] \in f.visited

\* The early returns of ListServices.
Stops(c, f) == f.hops = 0 \/ Peer[f.via] = c \/ Peer[f.via] \in f.visited

\* The streams ListServices at x passes the request on to.
Forwardable(x) ==
  {h.via : h \in {h \in handlers[x] :
     /\ h.name = Reflection /\ h.via # "local"
     /\ h.via \in Spliced /\ h.ctx # x}}

\* ListServices begins at the peer: it stops, or collects its own names.
Visit(c) ==
  LET f == Top(c)
      x == Peer[f.via]
  IN  /\ stack[c] # <<>> /\ f.state = "sent"
      /\ x \in running /\ x \notin down
      /\ stack' = SetTop(c, IF Stops(c, f)
           THEN [f EXCEPT !.state = "running"]
           ELSE [f EXCEPT !.state = "running", !.hops = @ - 1,
                          !.visited = @ \cup {x},
                          !.names = {h.name : h \in handlers[x]},
                          !.todo = Forwardable(x)])
      /\ UNCHANGED <<running, down, handlers, step, answer>>

\* invoker.Invoke, for the next of the cloned list of handlers.
Forward(c) ==
  /\ stack[c] # <<>> /\ Top(c).state = "running"
  /\ \E y \in Top(c).todo : \E state \in SentStates(y) :
       LET f == [Top(c) EXCEPT !.todo = @ \ {y}] IN
       stack' = [SetTop(c, f) EXCEPT ![c] =
                   Append(@, Frame(y, f.hops, f.visited, state))]
  /\ UNCHANGED <<running, down, handlers, step, answer>>

\* ListServices returns its own names and those of the streams it asked.
Return(c) ==
  /\ stack[c] # <<>> /\ Top(c).state = "running" /\ Top(c).todo = {}
  /\ PopTo(c, Len(stack[c]), Top(c).names)
  /\ answer' = IF Len(stack[c]) = 1
                 THEN [answer EXCEPT ![c] =
                         [status |-> "ok", names |-> Top(c).names]]
                 ELSE answer
  /\ UNCHANGED <<running, down, handlers, step>>

\* Mutant of CallFails: the answer is given while ListServices still runs.
CallFailsEarly(c) ==
  /\ \E i \in DOMAIN stack[c] :
       /\ stack[c][i].via \in down /\ stack[c][i].state # "lost"
       /\ IF i = 1 THEN UNCHANGED stack ELSE PopTo(c, i, {})
       /\ answer' = IF i = 1
                      THEN [answer EXCEPT ![c].status = "failed"]
                      ELSE answer
  /\ UNCHANGED <<running, down, handlers, step>>

\* Run cancels the call when its stream ends; ListServices logs the error and
\* goes on with the next handler, discoverServices returns it.
CallFails(c) ==
  /\ \E i \in DOMAIN stack[c] :
       /\ stack[c][i].via \in down /\ stack[c][i].state # "lost"
       /\ PopTo(c, i, {})
       /\ answer' = IF i = 1
                      THEN [answer EXCEPT ![c].status = "failed"]
                      ELSE answer
  /\ UNCHANGED <<running, down, handlers, step>>

-------------------------------------------------------------------------------
(***************************************************************************)
(* The nodes: each runs its Splices one after the other, and then Serve.   *)
(***************************************************************************)
\* Mutant of Start: go ctrl.Run after the discovery it has to answer.
StartNoRun(n) ==
  LET c == Current(n) IN
  /\ Starting(n) /\ answer[c].status = "none"
  /\ running' = running
  /\ answer' = [answer EXCEPT ![c].status = "asked"]
  /\ \E state \in SentStates(c) :
       stack' = [stack EXCEPT ![c] = <<Frame(c, HopLimit[n], {c}, state)>>]
  /\ UNCHANGED <<down, handlers, step>>

\* Splice or Serve: Run is started, a spliced controller is given the local
\* services meant for it, and discovery is sent.
Start(n) ==
  LET c == Current(n) IN
  /\ Starting(n) /\ answer[c].status = "none"
  /\ running' = running \cup {c}
  /\ handlers' = IF c = Main[n] THEN handlers
                 ELSE [handlers EXCEPT ![c] = @ \cup
                   {h \in handlers[Main[n]] : h.via = "local"
                                              /\ h.name \in Visible}]
  /\ answer' = [answer EXCEPT ![c].status = "asked"]
  /\ \E state \in SentStates(c) :
       stack' = [stack EXCEPT ![c] = <<Frame(c, HopLimit[n], {c}, state)>>]
  /\ UNCHANGED <<down, step>>

\* Splice has discovered c's services: requests are forwarded to c for them.
SpliceReturn(n) ==
  LET c == Current(n) IN
  /\ Starting(n) /\ c # Main[n] /\ answer[c].status \in {"ok", "failed"}
  /\ handlers' = [handlers EXCEPT ![Main[n]] =
       @ \cup {Handler(s, c, c) : s \in answer[c].names}]
  /\ step' = [step EXCEPT ![n] = @ + 1]
  /\ UNCHANGED <<running, down, answer, stack>>

\* The spliced controllers of Server.splicedControllers.
Tracked(n) == {c \in ToSet(Splices[n]) : answer[c].status = "ok"}

\* Mutants of ServeReturn: each spliced controller is given its own invoker;
\* the main controller is synced like a spliced one.
ServeReturnOwn(n) ==
  LET c == Main[n] IN
  /\ Starting(n) /\ Current(n) = c /\ answer[c].status \in {"ok", "failed"}
  /\ handlers' = [s \in Controller |->
       IF s \in Tracked(n)
         THEN handlers[s] \cup {Handler(m, s, c) : m \in answer[c].names}
         ELSE handlers[s]]
  /\ step' = [step EXCEPT ![n] = @ + 1]
  /\ UNCHANGED <<running, down, answer, stack>>

ServeReturnMain(n) ==
  LET c == Main[n] IN
  /\ Starting(n) /\ Current(n) = c /\ answer[c].status \in {"ok", "failed"}
  /\ handlers' = [s \in Controller |->
       IF s \in Tracked(n) \cup {c}
         THEN handlers[s] \cup {Handler(m, c, c) : m \in answer[c].names}
         ELSE handlers[s]]
  /\ step' = [step EXCEPT ![n] = @ + 1]
  /\ UNCHANGED <<running, down, answer, stack>>

\* Serve has: the spliced streams are offered the services of the main one.
ServeReturn(n) ==
  LET c == Main[n] IN
  /\ Starting(n) /\ Current(n) = c /\ answer[c].status \in {"ok", "failed"}
  /\ handlers' = [s \in Controller |->
       IF s \in Tracked(n)
         THEN handlers[s] \cup {Handler(m, c, c) : m \in answer[c].names}
         ELSE handlers[s]]
  /\ step' = [step EXCEPT ![n] = @ + 1]
  /\ UNCHANGED <<running, down, answer, stack>>

\* A stream breaks: the contexts of its two ends are done.
Break(c) ==
  /\ c \in Breakable /\ c \notin down
  /\ down' = down \cup {c, Peer[c]}
  /\ UNCHANGED <<running, handlers, step, answer, stack>>

\* The goroutine that context.AfterFunc starts for one handler of x, at some
\* time after its context is done. Until then the handler stays in its list;
\* one that is registered later than its context has ended has one too.
AfterFunc(x) ==
  /\ x \in Cleaned
  /\ \E h \in handlers[x] :
       /\ h.ctx \in down
       /\ handlers' = [handlers EXCEPT ![x] = @ \ {h}]
  /\ UNCHANGED <<running, down, step, answer, stack>>

ListServices(c) == Visit(c) \/ Forward(c) \/ Return(c) \/ CallFails(c)

Next ==
  \/ \E n \in Node : Start(n) \/ SpliceReturn(n) \/ ServeReturn(n)
  \/ \E c \in Controller : ListServices(c) \/ Break(c) \/ AfterFunc(c)

Spec == Init /\ [][Next]_vars

\* Every node goes on with its program, every controller answers. No property
\* below relies on when AfterFunc's goroutines run.
FairSpec ==
  /\ Spec
  /\ \A n \in Node : WF_vars(Start(n) \/ SpliceReturn(n) \/ ServeReturn(n))
  /\ \A c \in Controller : WF_vars(ListServices(c))

-------------------------------------------------------------------------------
HandlerType == [name : Name, via : Controller \cup {"local"}, ctx : Controller]

FrameType ==
  [via : Controller, hops : Int, visited : SUBSET Controller,
   state : {"sent", "lost", "running"}, names : SUBSET Name,
   todo : SUBSET Controller]

AnswerType ==
  [status : {"none", "asked", "ok", "failed"}, names : SUBSET Name]

\* Types; and frames of ListServices are there only between the request of a
\* discovery and its answer. (Handlers may outlive their stream for a while.)
TypeOK ==
  /\ running \subseteq Controller /\ down \subseteq Controller
  /\ handlers \in [Controller -> SUBSET HandlerType]
  /\ step \in [Node -> Nat] /\ \A n \in Node : step[n] <= Len(Program(n))
  /\ answer \in [Controller -> AnswerType]
  /\ stack \in [Controller -> Seq(FrameType)]
  /\ \A c \in Controller : stack[c] # <<>> => answer[c].status = "asked"

\* No stream is spliced at both of its ends: the other end of a spliced stream
\* is the main stream of its node. Nothing in the code enforces it, so what
\* depends on it says so.
OneSided == \A c \in Spliced : Peer[c] \notin Spliced

\* server.go:217, 309: a service is offered only where a request for it can be
\* forwarded: the next controller has a handler for it too. This is so as long
\* as no stream has broken, and only if no stream is spliced at both ends: such
\* a controller is given more services after its peer has discovered it.
RouteExists ==
  OneSided /\ down = {} =>
    \A x \in Controller : \A h \in handlers[x] :
      h.via # "local" => \E g \in handlers[Peer[h.via]] : g.name = h.name

Offers(x) == {h.name : h \in handlers[x]}

NextHops(x, name) ==
  {Peer[h.via] : h \in {g \in handlers[x] : g.name = name /\ g.via # "local"}}

\* No request is forwarded in a circle: in any set of controllers there is one
\* that forwards it out of the set, whichever of its handlers are used and
\* whichever streams have broken, if none is spliced at both ends. (Reflection
\* is always served locally.)
NoCircle ==
  OneSided =>
    \A name \in Name \ {Reflection} :
      LET next == [x \in Controller |-> NextHops(x, name)] IN
      \A C \in SUBSET {x \in Controller : next[x] # {}} :
        C # {} => \E x \in C : next[x] \cap C = {}

\* The nodes that are spliced to n, directly or through others.
Child(n) == {m \in Node : Peer[Main[m]] \in ToSet(Splices[n])}

Below == [n \in Node |->
  {m \in Node : \A S \in SUBSET Node :
     n \in S /\ (\A k \in S : Child(k) \subseteq S) => m \in S}]

\* A node that serves offers every service of the nodes below it, as long as
\* no stream has broken.
Complete ==
  down = {} /\ (\A n \in Node : HopLimit[n] # 0) =>
    \A n \in Node : Main[n] \in running =>
      \A m \in Below[n] : Local[m] \subseteq Offers(Main[n])

\* discovery.go:49: every Splice and Serve returns, unless a request was sent
\* on a stream that had ended.
SetupEnds ==
  <>(\/ \A n \in Node : ~Starting(n)
     \/ \E c \in Controller : \E i \in DOMAIN stack[c] :
          stack[c][i].state = "lost")
===============================================================================
