# totem: a TLA+ verification project

totem lets a gRPC client and a gRPC server that share one bidirectional stream
both serve and call RPCs over it. This directory holds TLA+ models of its
control flow, the TLC runs that check them, and TLAPS proofs about most of them.
`PROJECT.json` is the index: components, runs, the source lines behind every
definition, findings, hazards and theorems.

## 1. Inventory

| Component | State | Operations | Talks to |
|---|---|---|---|
| Stream controller (`stream.go`, `status.go`) | `count`, `pendingRPCs`, `sendLock`, `kickOnce`, worker pool, `services` | `Request`, `Reply`, `ReplyErr`, `StreamReply`, `Kick`, `CloseOrRecv`, `Run`, `handleRequest`, `ListServices` | the peer's controller by messages; callers by futures; handlers by the pool |
| Receive pump (`recv.go`) | channel `c` (256), `kick`, `done`, registry `gKnownStreams` | `Start`, `Recv`, `Wait` | `Run`, `CloseOrRecv` |
| Client connection (`clientconn.go`) | none of its own | `Invoke`, `NewStream` | `Request` and its future |
| Server (`server.go`) | `lock`, `splicedControllers`, error channel (2) | `Serve` and its goroutine, `Splice`, `RegisterService` | its main controller and the spliced ones |
| Discovery (`discovery.go`, `ListServices`) | `Visited`, remaining hops | `discoverServices`, `ListServices` | the peer, and spliced peers in turn |
| Handler list (`types.go`) | `data` under an RWMutex | `Append` with its `AfterFunc`, `Range`, `Len`, `First` | `handleRequest`, `Splice` |
| Invokers (`invokers.go`) | none | local and forwarding `Invoke`, `InvokeStream` | handlers; other controllers |
| Server streams (`stream_wrapper.go`) | headers, trailers, `closedWriter`; `replyC`, `headerC` | `SetHeader`, `SendHeader`, `SendMsg`, `SetTrailer`, `Close`; `RecvMsg`, `Header`, `Trailer`, `CloseSend` | the forwarding loop of `handleRequest`; the caller's future |
| Tracing, metrics, metadata and naming helpers, generated code | | | |

What is hard: replies, stream messages, cancellations, the kick and the end of
the stream meet in one `Run` loop; channels of one slot couple callers and `Run`;
the final `Range` over `pendingRPCs` runs while callers still register; the
teardown of a server waits for other streams under the lock that `Splice` needs;
one dispatch reads the handler list several times; a forwarded call couples the
life of two streams; discovery builds the routes of a whole graph of servers while
its streams come and go. The "hazards" of
`PROJECT.json` list these at their lines.

What makes the parts correct:

- controller: `Run` never panics; a reply reaches its own caller; success is
  reported only for a handler that succeeded and a stream received in full; a
  call registered in time ends; the end of the stream is reported when its workers
  are at rest, and no handler they gave up on can answer any more;
- server streams: messages in order and complete, status and trailers as set,
  `onFinish` told of the end of a stream that is not cancelled;
- dispatch: a service with a steady handler is never "unknown"; one handler
  serves a plain request; a broadcast reaches the handlers that stay; a handler
  that ended leaves the list;
- forwarding: the reply carries the tag of the request it answers; the contract of
  an RPC holds across two streams; a forwarded call ends, and so does `Run`;
- discovery: what is offered can be routed, not in circles, and is complete; every
  `Splice` and `Serve` returns;
- receive pump: one reader of a stream at a time, everything read is delivered
  before the end, `Wait` returns, the registry forgets a finished stream;
- server: exclusive use of the controllers while the main stream is served,
  discovered services replicated, the end of the main stream reported last and always.

## 2. Modules

| Module | Models | Notes |
|---|---|---|
| `StreamController` | both ends of one stream: callers, pumps, `Run`, worker pools, teardown | composes controller, pump, client connection and the transport |
| `RpcContract` | the abstract contract of an RPC | `StreamController` and `Forwarding` are shown to implement it |
| `StreamControllerProofs` | theorems about `StreamController`: types, bookkeeping, no panic | |
| `StreamDeliveryProofs` | theorems about `StreamController`: what callers receive, the contract, the end | rests on `StreamControllerProofs` |
| `NestedStream` | one server-streaming RPC end to end | the controllers between the two halves are a FIFO that ends with one response |
| `Dispatch` | one service's handler list and the workers that read it | |
| `Server` | `Serve`, `Splice`, `RegisterService`, discovery, teardown | a controller is reduced to `Run`, its pump and `CloseOrRecv` |
| `Forwarding` | a hub: the controllers of its main and of a spliced stream, the invokers between them | the peers at the two ends are those of `StreamController`; also implements `RpcContract` |
| `Discovery` | `Splice`, `Serve`, `discoverServices` and `ListServices` of a graph of nodes | controllers are reduced to running or not, streams to up or down |
| `RecvWrapper` | the wrappers made for one stream, the registry, pump and reader of each | |
| `NestedStreamProofs`, `DispatchProofs`, `ServerProofs`, `ForwardingProofs`, `DiscoveryProofs`, `RecvWrapperProofs` | theorems about the module of that name | |
| `MCStreamController`, `MCDispatch`, `MCForwarding`, `MCDiscovery` | instances for TLC | callbacks, model values, topology |

### StreamController

State is named after the fields it models. An entry of `pendingRPCs` is a tag
with the call whose future it leads to; `future[c]` and `closed` are the content
and the closing of that channel. `inbox[p]` holds what was sent to `p`: the
first `pumped[p]` messages are in `recvWrapper.c`, the others still on the
stream. `ended[p]` is the error payload the pump put last (which also closes
`done`). Payloads are the identity of the call, plus a number in a stream.

Steps that are atomic in the model and not in the code:

- `count.Inc` and `Store` in `Request` (nothing reads the tag in between);
- taking a payload in `Run` and disposing of it. The code deletes the entry,
  then sends to the future, then closes it; only `Run` touches the entry by then,
  and a `Run` that blocks is, in the model, one that has not taken the payload.
  A kick is no way out of a future nobody reads, since the final `Range` meets
  the same future;
- `Send` with the kick that follows its failure.

External behaviour, from how the code uses it: `Send` blocks while the transport
is full, fails after the stream has ended and may lose what it accepted, always the
end of it and never something in between (what is sent to a server whose gRPC
handler has returned is dropped from then on: `Deaf`);
`Recv` returns what arrived in order, then `io.EOF` or an error; a client stream
reports `io.EOF` from a failed `Send`; the context of a server's stream ends with
its gRPC handler; `pond` runs at most `MaxWorkers` tasks, queues at most
`MaxCapacity` and drops its queue with its context; `gsync.Map.Range` visits
every entry present when it begins and may or may not visit later ones.

A worker that sees the context of its stream done while it forwards a server stream
returns from `handleRequest` (`GiveUp`), and `StopAndWait` does not wait for the
goroutine in which `InvokeStream` runs the handler: the request moves from `active` to
`detached`, where it stays until the handler returns and its last write does not block
(`DetachedEnds`), perhaps forever. `QuiescentAtExit` says what is left of such a
handler when the end of the stream is reported.

`Callbacks` pairs a call with one its handler may issue on the same stream before
it answers: with the handler's context, which ends with the stream's.

`RpcContract` says what one RPC promises: executed at most once, answered once,
its stream received as a prefix, success only for an answer of success and a
complete stream. `Fail` may fail a set of calls at once, as the end of a stream does.

`Faults` bounds what the environment does: "break" (connection lost or context
cancelled), "return" (the gRPC handler returns), "cancel" (a caller's context is
done). `StreamLen` bounds the messages of a stream.

### NestedStream

The handler writes to `writer` (`responseC`), the loop of `handleRequest`
forwards it, the caller receives from `replyC`. Metadata is a set of keys, kept in
the field of the message the code keeps it in. The totem stream may end at any
time, keeping any beginning of what was in flight. `emitted` is the history of the
payloads the handler's stream wrote, in order; a message without content has payload 0.

The caller receives two kinds of messages that no `SendMsg` sent. `SendHeader` writes a
`ServerStreamMsg` that carries only metadata (`stream_wrapper.go:79-82`);
`handleRequest` forwards it without the metadata (`stream.go:639`), so `RecvMsg` returns
an empty message in its place. And `RecvMsg` unmarshals the final OK response into one
more empty message (`stream_wrapper.go:266-276`) before it returns `io.EOF`.
`StreamIntact` compares position by position with `emitted`, in which the first kind
counts, and names the second kind as the one insertion. When the caller's context is
done `RecvMsg` returns `ctx.Err()` and never calls `finish` (292-293): `onFinish` is
then not told of the end, and `StreamEnds` says nothing of cancelled streams.

### Dispatch

Each action of a worker takes the list's lock once. `steady[r]` remembers the
handlers that were listed ever since request `r` began: promises are about those.
`AppendHandler` registers a handler once, which bounds the list, and `AfterFunc`
removes the first entry equal to the handler, as `slices.Index` and `slices.Delete`
do.

### Server

`readers` and `writer` are the RWMutex; `discovery[k]` follows the one
`ListServices` request of a controller: "stored" before the final `Range`, "lost"
after it. `closing` is what is left of the teardown's loop over `splicedControllers`,
`syncing` what is left of the loop in which `Serve` registers the discovered services
with them: it reads the list once (`ServeOK`), serves one controller per step
(`ServeSync`) and returns (`ServeReturn`). That loop takes no lock. The read lock that
`Serve` took is given up by its goroutine when `Run` returns (`server.go:271`); a loop
that is not finished by then runs beside a `Splice` that appends to the list (223), or
beside the teardown that closes the controllers. The model has these behaviours, one
controller at a time; that the unsynchronised read of the list could itself be torn is
left out. `Exclusive` promises the loop is alone up to the return of `Run` and no longer.
`HangUps` names the streams whose remote end may go away by itself. A second call
of `Serve` panics in `recvWrapper.Start` and is not modelled.

### Forwarding

`Origin(c)` is the stream a call comes from, `Target(c)` the one it is forwarded to.
`requestTag` and `msgTag` are kept apart, since `Request` overwrites the tag of the
message that `handleRequest` still holds; `Earlier` calls make the tags of the two
streams differ. `invoke[c]` is `Invoke` or the goroutine of `InvokeStream`,
`worker[c]` the `handleRequest` that waits for it. Pools, pumps and flow control
are left to `StreamController`, and so is what can happen between the store and
the send of a request. `Ends` bounds which streams end, and how. The future a
streaming call leaves behind when its own stream ends (`Abandoned`) can block the
other controller; the liveness properties name that case.

### Discovery

A controller is named, not described: `Peer` pairs the two ends of each stream, and
a handler is a service name, the controller its invoker sends to and the one whose
context it lives with. `stack[c]` is the chain of `ListServices` calls that the
discovery of `c` has under way, innermost last; the request carries `visited` and
`hops` by value, so what one branch adds another does not see. `CallFails` is the
sweep of any stream on the chain. `Break` ends the contexts of a stream; the handlers
that live with them stay listed until the goroutine of `context.AfterFunc` has run for
each (`AfterFunc`, without fairness), also one registered after its context ended.
`Cleaned` bounds the controllers where that happens, since the removals multiply the
states. Every node calls `Splice` for its streams in
order, and then `Serve`, as the tests do; since `Splice` waits for the other end to
run, the nodes must form a tree for every `Splice` to return. `Complete` is checked
against a reference definition of "below" as the least closed set.

`DiscoveryAssumption` says what a topology is: a controller belongs to one stream of
one node and is its main one or that of a `Splice`, and the ends of a stream are each
other's peer. `OneSided` says that of the two ends of a stream at most one is spliced:
that is how totem is used (the far end of a spliced stream is the stream a node was
made with, and `Serve` runs on it) and not something the code enforces, so it is a
condition of the two properties that need it, `RouteExists` and `NoCircle`, and not an
assumption about all of the module. If two nodes splice the two ends of one stream,
`ServeReturn` may add services to a spliced controller after it has answered, a later
`ListServices` passes them on, and the controller that answers names services it has no
handler for (TLC finds `RouteExists` without its condition violated). `Complete` and the
types need no condition.

### RecvWrapper

`cleaner[w]` is the goroutine that removes the stream from `gKnownStreams`, `pump[w]`
that of `Start`, `run[w]` the loop of `Run`: in `Recv` ("loop"), or with the message it
got ("busy"), from which it comes back by `Handled`. Nothing makes it come back:
`Submit` blocks when the pool's queue is full (`stream.go:336`), the send to a future
when nobody reads it (345, 354; see `abandoned_stream`). A wrapper made while the stream is
known is refused (the panic). `StreamEnds` lets `Recv` fail before the context is
done, as it does at a client.

## 3. Runs

| Run | Instance | Shows |
|---|---|---|
| `unary` | one call each way; the connection may break, callers may be cancelled | `NoPanic`, `Bookkeeping`, `QuiescentAtExit`, refinement of `RpcContract`, `ErrorReported`, `CallResolved` |
| `callbacks` | three calls for two workers and one queue slot; two handlers call back | types and capacities, `RepliesMatch`, `CallResolved` |
| `server_stream` | one call with a stream of two messages, every fault | `SuccessIsComplete`, `QuiescentAtExit`, refinement, `ReportedUnlessAbandoned`, `CallResolved` |
| `nested_stream` | two messages, a header and a trailer key | `StreamIntact`, `TrailersArrive`, `StreamEnds` |
| `dispatch` | two handlers, a third that may join, three requests | `NeverUnknown`, `FirstServes`, `BroadcastReaches`, `EndedLeaves` |
| `forwarding` | a unary call one way, a stream of one message the other way; the main stream may fail, the spliced one end or fail | `TagsRouted`, refinement of `RpcContract` (`EndToEnd`), `CallResolved`, `RunReturns` |
| `discovery` | the five nodes of the bidirectional nested test, a hop limit each; one stream may break, and the handlers of one controller be removed | `RouteExists`, `NoCircle`, `Complete`, `SetupEnds` |
| `server` | two spliced streams, a main server stream, one registrar; the main and one spliced stream may hang up | `Exclusive`, `ServedIsSynced`, `ReportedLast`, `NeverBlocksOnCh`, `EndReported` |
| `recv_wrapper` | three wrappers, a buffer of one, two messages | `Guarded`, `EndIsLast`, `WaitReturns`, `RegistryDrains` |

Three runs expect a violation; each checks a sentence of the repository's own
comments that the code does not keep (see "findings"):

- `abandoned_stream`: a cancelled server-streaming call leaves a future that
  blocks `Run`, so a later failure of the stream is never reported;
- `nested_headers`: headers are put where `StreamReply` does not forward them;
- `serve_hangs`: a discovery request sent after `Run` ended is never answered,
  and `Serve` waits without a context.

Two more limits of the teardown are visible in `Server` and listed as hazards: a
spliced server stream whose remote end stays connected holds up the report of the
main stream's error, and a `Splice` that gets the lock after the teardown succeeds
although nothing will close its stream.

The system may stop (all calls done, streams over), so no run checks deadlock;
the liveness runs say what must happen before it does.

More limits of the code are stated as exceptions of the properties, or listed as
hazards: `RecvMsg` returns empty messages for the final response and for
`SendHeader`; the goroutine of a streaming handler may outlive its controller;
`Serve`'s loop over the spliced controllers loses its lock when the main stream ends
under it; the pump, and with it `Wait`, is stuck when the buffer is full and `Run` was
kicked or is itself blocked; a
forwarded stream whose caller is gone can block the controller it was forwarded
to; a pool with more requests than workers and queue slots, all of them calling
back, waits for itself; routes stay advertised when a stream further down breaks;
nodes that splice each other before they serve wait for each other; after a kick
the old pump still reads the stream, although a second wrapper may be made.

Bounds. Capacities of one make every send and submit block in some behaviour.
Two calls of one controller are the fewest that can be confused (`callbacks`), and
one in the other direction makes each peer caller and callee at once (`unary`). Two stream messages
fill the one-slot future and leave one behind it. Two spliced streams are the
fewest for which the teardown loop has a next one. In `callbacks` the requests fill
pool and queue exactly, the most that cannot block `Run`; it has no faults, which
`unary` and `server_stream` have. In the runs with faults and liveness `RecvCap` is
3, so that the pump can always deliver its last payload to a `Run` that has left:
with a full buffer `CloseOrRecv` may wait forever, which is `RecvWrapper`'s subject.
In `forwarding` one message and the response fill future and writer; a call each way
makes both controllers forward and reply. In `discovery` the topology has two
levels below the root and a client above it, limits of 1, 2 and 3 hops and none; the
stream that may break is that of an inner node, whose handlers are at the controllers
above and below it.
With three wrappers the goroutine of an old one can run when its successor is gone
too and a third is registered; two messages and the error are more than a buffer of one
and a busy `Run` hold.

Fairness. Weak fairness of each goroutine: the pump, `Run`, the pool's workers,
`Serve` and its goroutine, a caller between `Request` and its answer. Go's
scheduler and its mutexes, which are free of starvation, justify it; handlers are
assumed to return, and a caller of a server stream to keep receiving. In `Server`
the remote end answers discovery and hangs up once it has seen `CloseSend`, as a
totem server does. In `Forwarding` both controllers, the invokers and the handlers
at the far ends run; in `Discovery` every node goes on with its program and every
controller answers; in `RecvWrapper` the
cleaning goroutine and the pump of each wrapper run, and so does `Run` as long as it is
in `Recv` (`Handled` is not fair, nor are `DetachedEnds` in `StreamController` and
`AfterFunc` in `Discovery`). Faults, cancellations, hang-ups, and calls of the API are
never fair.

Types are checked where the type invariant also bounds or relates state
(`StreamController`, `Dispatch`, `Discovery`); the `TypeOK` of the other modules is
part of their inductive invariants, and no run checks it on its own.

Every property of a passing run has a mutant: an operator next to the definition
it would replace ("Mutant of ...") that changes it the way a plausible mistake
would, and breaks that property.

## 4. Proofs

Every theorem holds for all values of the constants that satisfy the module's named
assumption. The assumptions say what the code's types and make calls say (capacities
are positive, bounds are natural numbers, the calls of two ends are different) and
nothing about the behaviour; `ServerAssumption` also keeps the values of the variable
`writer` apart, and `DiscoveryAssumption` describes the topologies (section 2). Each inductive invariant was first checked by TLC on the instance of
the module's run. The proofs have one lemma per action, and under it one step per
conjunct that the action can disturb; the parts of an invariant that say something of
one call, or of one queue, are operators of the values they relate, so that the same
lemmas serve the state before and after a step.

### StreamControllerProofs

For all sets of calls, all capacities and all combinations of faults, from
`CallsAssumption` and `CapAssumption`:

- `TypeCorrect`: `Spec => []TypeOK`, the capacities of the receive buffer and the
  transport included;
- `BookkeepingCorrect`: `Spec => []Bookkeeping`;
- `NeverPanics`: `Spec => []NoPanic`.

`NoPanic` is not inductive: that a response finds its entry depends on where the
request is. `Bookkeeping` says it. Each call has a `stage` (none, sent, queued,
running, replied, delivered). A request on the wire, in a queue or with a worker
belongs to a call at exactly that stage, so it is the only one of its call; a
response is on the wire only at stage "replied", stream messages only before it;
nothing of a call follows its response (`WireOrder`). While `Run` is in its loop a
call that is not "delivered" has its entry in `pendingRPCs` (`Registered`), under
its own tag (`TagsUnique`), and entries are never closed (`PendingOpen`). Together
these give: whatever message `Run` takes, its entry is there and its future is
open.

### StreamDeliveryProofs

- `DeliveryCorrect`: `Spec => []Delivery`, the invariant behind the next two;
- `CallersGetTheirOwn`: `Spec => []RepliesMatch`;
- `SuccessIsWhole`: `Spec => []SuccessIsComplete`;
- `ServeEndsQuiescent`: `Spec => []QuiescentAtExit`;
- `KeepsTheContract`: `Spec => ImplementsContract`, the refinement of `RpcContract`.

That success means a complete stream needs to know what is on its way: `Flow` says
that the messages of a call in the inbox continue, in order and without gaps, what
was handed to its caller, that all of them precede its response, and that nothing is
missing as long as the stream is `Lossless`. `GotOK` and `FutureOK` say the same of
what the caller has and of what is in its future. The invariant was not inductive in
the first version of the model, in which a message sent to a server could be dropped
and a later one arrive; the transport of gRPC does not do that (see `Deaf`).
`ExitInv` (a controller that has returned has no tasks, and only such a one closes its
stream) gives the first half of `QuiescentAtExit`, `DetachedInv` the second: a handler
that was given up on is the only task of its call, its stage stays "running" and its
reply unset because nobody but its worker could have answered, and a context that is
done stays done. The refinement is shown step by step: `Request`,
the start of a worker, `StreamReply`, the end of a handler, a receive and the end of a
call are the steps of the contract, a sweep or a cancellation is its `Fail`, and
everything else is a stutter.

### NestedStreamProofs

For any number of messages, any metadata keys and any capacities: `TypeCorrect`,
`StreamArrivesIntact` (`StreamIntact`) and `TrailersReachCaller` (`TrailersArrive`).
`OrderInv` is the heart: there are two numbers f and g such that responseC holds the
messages of `emitted` after f, the stream and `replyC` those from g to f (`Carries`),
all of them unless the stream was cut (`Complete`), and the caller has the first g and
nothing else, but for the final response (`Got`). The empty messages have positions
like all others, so none can be lost or put in unseen. `HandlerInv` and `ReplyInv` say
that a response is the last RPC of its channel and, if it says success, is the
handler's own, with all of its messages before it.

### DispatchProofs

For any handlers and any requests: `TypeCorrect` (no handler is listed twice),
`KnownStaysKnown` (`NeverUnknown`), `ServedByTheFirst` (`FirstServes`) and
`BroadcastReachesAll` (`BroadcastReaches`). A worker reads the list several times. What
connects its reads is `steady[r]`, a subsequence of the list at every moment
(`Within`): the list is never shorter than it, and what was first before its first
handler cannot come after it. `Settled` says what the worker has concluded so far in
those terms.

### ForwardingProofs

For any calls in both directions, any length of their streams and any ends of the two
streams, from `ForwardingAssumption`: `TypeCorrect`, `RoutesTags` (`TagsRouted`) and
`KeepsTheContractEndToEnd` (`EndToEnd`, the refinement of `RpcContract`). Neither is
inductive. A reply reaches its caller because `handleRequest` has the tag of a caller
that still waits (`WorkerInv`), and no two callers of a peer share a tag (`IssuerInv`,
which counts the calls made). The hub meets only replies it has an entry for because
an entry stays until the response is delivered: `PendingInv` (one entry per tag and
per call), `LinkInv` (each request in a queue is the only one of its call; each reply
has its entry, and nothing of a call follows its response) and `HubInv` (while a
handler executes its entry is there; once the response is past `Run`, in the future,
with the invoker, in responseC or in exitResponse, it is not, and nothing else of the
call is behind it). `FlowInv` counts: what the caller received and what is on its way
is never more than the handler sent, and if a success is on its way, exactly that. It
is why a message lost with one of the streams cannot be followed by a success. In the
refinement `Request` on an open stream is `Execute`, a relayed message `Receive`, a
reply `Succeed` or `Fail`, and the end of a stream the `Fail` of all the calls of its
peer that wait; everything else is a stutter.

### DiscoveryProofs

For any number of nodes, any topology that satisfies `DiscoveryAssumption`, circles
of `Splice`s included, any hop limits, any streams that break and any delay of
`AfterFunc`: `TypeCorrect` and `OffersAll` (`Complete`), and, for topologies in which no
stream is spliced at both ends, `RoutesExist` (`RouteExists`) and `NeverCircles`
(`NoCircle`); the condition is `OneSided` in the statement of those two. `Structure` holds whatever breaks. A handler is local, the peer's
reflection, or of a service that a discovery has found (`HandlerOK`): on a main
controller by a `Splice` that has returned, on a spliced one by `Serve`. A `Splice`
is answered only by a node that serves, and a node serves only after its own
`Splice`s (`ProgramOK`, `AnswerOK`), so when the answer comes nobody can have spliced
the node that gets it. `NoRing` follows: in any set of nodes one has spliced none of the
others, and one is spliced by none of them. A circle of main controllers contradicts
the first, one of spliced controllers the second. `Quiet` holds until a stream
breaks. It rests on the main controllers: once one runs, so once it can answer, its
handlers do not change. What a discovery has collected at one is therefore still all it has
(`FrameOK`, `FoundOK`), and what it passes on to a spliced stream adds no name
(`ForwardKnown`): the answer of `ListServices` at a main controller is exactly its own
names. `OffersAll` then follows along the `Splice`s.

### ServerProofs

For any number of spliced streams and of concurrent `RegisterService` calls:
`TypeCorrect`, `MutualExclusion` (`Exclusive`), `SplicedAreSynced` (`ServedIsSynced`),
`EndIsReportedLast` (`ReportedLast`) and `ErrorChannelHasRoom` (`NeverBlocksOnCh`).
`LockInv` ties the place of every goroutine to the lock's state, and with it `Serve`'s
loop to the read lock for as long as `Run` has not returned; what the loop has done and
what it has left are together the list it read. `CloseInv` says that
during the teardown a spliced controller is still to be closed or its pump has ended,
`ChInv` counts the errors in the channel.

### RecvWrapperProofs

For any number of wrappers of a stream and any capacity: `TypeCorrect`,
`RegistryGuards` (`Guarded`) and `NothingLeftBehind` (`EndIsLast`). `Registered` says
that at most one cleaning goroutine is still to run, and that the stream is known as
long as it has not; `Ordered` that an error is the last payload of its channel.

### Only model-checked

Everything under fairness is out of the prover's reach: `ErrorReported`,
`ReportedUnlessAbandoned`, `CallResolved`, `StreamEnds`, `EndedLeaves`, `EndReported`,
`RunReturns`, `SetupEnds`, `WaitReturns`, `RegistryDrains`. Every invariant and every
action property of a passing run is proved.

## 5. Plan

1. Done: `StreamController` with its contract, `NestedStream`, `Dispatch`, `Server`;
   types, bookkeeping and the absence of panics proved.
2. Done: `Forwarding`, `Discovery`, `RecvWrapper`, and handlers that call back in
   `StreamController`.
3. Done: the safety properties of `StreamController`, `NestedStream`, `Dispatch`,
   `Server`, `RecvWrapper`, `Forwarding` and `Discovery` proved, and the refinements
   of `RpcContract` by `StreamController` and `Forwarding`.
4. Next: the safety facts behind the liveness properties (what a call that waits is
   waiting for), which are within the prover's reach although the liveness is not.

## 6. Not modelled

Tracing, metrics and logging (no control flow depends on them); generated code;
marshalling, metadata conversion and naming helpers (data without control of their
own); options; the example and the build
script. `Run`'s return with "invalid content type" needs a message with no
content, which no totem peer sends. Methods with client streaming are refused by
`NewStream` with a panic and are not modelled. Client interceptors and the "Forward"
method of `ClientConn` are plain calls as far as the models can tell.
