-------------------------------- MODULE Server --------------------------------
(***************************************************************************)
(* The life of a totem Server (server.go): Serve, Splice, RegisterService, *)
(* the goroutines they start, the lock they share, service discovery       *)
(* (discovery.go) and the teardown that ends with a write to the channel   *)
(* Serve returns. A stream controller is reduced to what the server sees   *)
(* of it: Run, which ends with its stream or a kick and cancels pending    *)
(* RPCs once; the pump; CloseOrRecv.                                       *)
(***************************************************************************)
EXTENDS Naturals, Sequences, FiniteSets

CONSTANTS
  Main,           \* the controller of the server's own stream
  Spliced,        \* the controllers of the streams passed to Splice
  ServerStreams,  \* the controllers whose stream has no CloseSend
  Registrars,     \* concurrent calls of RegisterService
  HangUps         \* bound: the streams whose remote end may go away by itself

ASSUME ServerAssumption ==
  /\ Main \notin Spliced
  /\ ServerStreams \subseteq Spliced \cup {Main}
  /\ HangUps \subseteq Spliced \cup {Main}
  /\ Registrars \cap Spliced = {}
  /\ {"free", "serve", "teardown"} \cap (Spliced \cup Registrars) = {}

VARIABLES
  stream,      \* per controller: "open", or what Recv returns: "eof", "err"
  run,         \* per controller: Run is "none", "loop", "stopping", "returned"
  runErr,      \* per controller: what Run returned
  pump,        \* per controller: recvWrapper's goroutine
  kick,        \* per controller: a kick is waiting for Run
  closeSent,   \* the controllers whose CloseSend was called
  sendLock,    \* per controller: who is in CloseOrRecv
  discovery,   \* per controller: the ListServices request of discoverServices
  readers,     \* Server.lock: read locks held
  writer,      \* Server.lock: who holds it for writing
  serve,       \* where Serve is
  teardown,    \* where Serve's goroutine is
  closing,     \* the spliced controllers teardown has yet to close
  splice,      \* per spliced controller: where its Splice is
  register,    \* per registrar: where its RegisterService is
  tracked,     \* Server.splicedControllers
  syncing,     \* the spliced controllers Serve's loop has yet to come to
  synced,      \* those it has given the main stream's services
  ch           \* what the error channel holds

ctrlVars   == <<stream, run, runErr, pump, kick, closeSent>>
lockVars   == <<readers, writer>>
syncVars   == <<syncing, synced>>
serverVars == <<serve, teardown, closing, splice, register, tracked, syncVars,
                ch>>
vars == <<ctrlVars, sendLock, discovery, lockVars, serverVars>>

Controller == Spliced \cup {Main}

\* Mutant of ChCap: room for one of the two writers.
ChCap1 == 1

\* make(chan error, 2)
ChCap == 2

Init ==
  /\ stream    = [k \in Controller |-> "open"]
  /\ run       = [k \in Controller |-> "none"]
  /\ runErr    = [k \in Controller |-> "none"]
  /\ pump      = [k \in Controller |-> "none"]
  /\ kick      = [k \in Controller |-> FALSE]
  /\ closeSent = {}
  /\ sendLock  = [k \in Controller |-> "free"]
  /\ discovery = [k \in Controller |-> "none"]
  /\ readers = 0 /\ writer = "free"
  /\ serve = "idle" /\ teardown = "none" /\ closing = <<>>
  /\ splice    = [k \in Spliced |-> "idle"]
  /\ register  = [g \in Registrars |-> "idle"]
  /\ tracked = <<>> /\ syncing = <<>> /\ synced = {} /\ ch = <<>>

-------------------------------------------------------------------------------
(***************************************************************************)
(* The controllers.                                                        *)
(***************************************************************************)
Launched(k) ==
  IF k = Main THEN teardown = "running"
              ELSE splice[k] \notin {"idle", "locked"}

RunStart(k) ==
  /\ run[k] = "none"
  /\ Launched(k)
  /\ run' = [run EXCEPT ![k] = "loop"]
  /\ pump' = [pump EXCEPT ![k] = "running"]
  /\ UNCHANGED <<stream, runErr, kick, closeSent, sendLock, discovery,
                 lockVars, serverVars>>

PumpEnd(k) ==
  /\ pump[k] = "running"
  /\ stream[k] # "open"
  /\ pump' = [pump EXCEPT ![k] = "done"]
  /\ UNCHANGED <<stream, run, runErr, kick, closeSent, sendLock, discovery,
                 lockVars, serverVars>>

\* Run leaves its loop, and cancels what is pending.
RunEnd(k) ==
  /\ run[k] = "loop"
  /\ \/ pump[k] = "done" /\ runErr' = [runErr EXCEPT ![k] =
                              IF stream[k] = "eof" THEN "nil" ELSE "err"]
     \/ kick[k] /\ runErr' = [runErr EXCEPT ![k] = "err"]
  /\ run' = [run EXCEPT ![k] = "stopping"]
  /\ discovery' = [discovery EXCEPT ![k] = IF @ = "stored" THEN "failed" ELSE @]
  /\ UNCHANGED <<stream, pump, kick, closeSent, sendLock, lockVars,
                 serverVars>>

\* The workers of the pool are done.
StopAndWait(k) ==
  /\ run[k] = "stopping"
  /\ run' = [run EXCEPT ![k] = "returned"]
  /\ UNCHANGED <<stream, runErr, pump, kick, closeSent, sendLock, discovery,
                 lockVars, serverVars>>

(***************************************************************************)
(* discoverServices: Request stores its future and sends, and kicks the    *)
(* controller when that fails; the peer answers with its services or an    *)
(* error. A future stored after Run's final Range stays empty.             *)
(***************************************************************************)
Request(k) ==
  /\ discovery' = [discovery EXCEPT ![k] =
       IF run[k] \in {"stopping", "returned"} THEN "lost" ELSE "stored"]
  /\ \/ UNCHANGED kick
     \/ stream[k] # "open" /\ kick' = [kick EXCEPT ![k] = TRUE]

Respond(k) ==
  /\ discovery[k] = "stored"
  /\ run[k] = "loop"
  /\ stream[k] = "open"
  /\ \E a \in {"ok", "failed"} : discovery' = [discovery EXCEPT ![k] = a]
  /\ UNCHANGED <<ctrlVars, sendLock, lockVars, serverVars>>

(***************************************************************************)
(* CloseOrRecv by process a: CloseBegin takes sendLock, CloseEnd waits for *)
(* the pump.                                                               *)
(***************************************************************************)
\* Mutant of CloseEnd: no Wait.
CloseEndNoWait(k, a) ==
  /\ sendLock[k] = a
  /\ sendLock' = [sendLock EXCEPT ![k] = "free"]

CloseBegin(k, a) ==
  /\ sendLock[k] = "free"
  /\ sendLock' = [sendLock EXCEPT ![k] = a]
  /\ closeSent' = IF k \in ServerStreams THEN closeSent ELSE closeSent \cup {k}

CloseEnd(k, a) ==
  /\ sendLock[k] = a
  /\ pump[k] = "done"
  /\ sendLock' = [sendLock EXCEPT ![k] = "free"]

-------------------------------------------------------------------------------
(***************************************************************************)
(* Serve, in its caller's goroutine.                                       *)
(***************************************************************************)
ServeStart ==
  /\ serve = "idle"
  /\ writer = "free"
  /\ readers' = readers + 1
  /\ serve' = "discover"
  /\ teardown' = "running"
  /\ UNCHANGED <<ctrlVars, sendLock, discovery, writer, closing, splice,
                 register, tracked, ch, syncVars>>

ServeDiscover ==
  /\ serve = "discover"
  /\ Request(Main)
  /\ serve' = "wait"
  /\ UNCHANGED <<stream, run, runErr, pump, closeSent, sendLock, lockVars,
                 teardown, closing, splice, register, tracked, syncVars, ch>>

\* Mutant of ServeOK: an off-by-one in the loop.
ServeOKSkips ==
  /\ serve = "wait"
  /\ discovery[Main] = "ok"
  /\ syncing' = IF tracked = <<>> THEN <<>> ELSE Tail(tracked)
  /\ serve' = "sync"
  /\ UNCHANGED <<ctrlVars, sendLock, discovery, lockVars, teardown, closing,
                 splice, register, tracked, ch, synced>>

\* The list is read here, once, as range does; no lock of Serve's own.
ServeOK ==
  /\ serve = "wait"
  /\ discovery[Main] = "ok"
  /\ syncing' = tracked
  /\ serve' = "sync"
  /\ UNCHANGED <<ctrlVars, sendLock, discovery, lockVars, teardown, closing,
                 splice, register, tracked, ch, synced>>

\* The services of the main stream are registered with one spliced controller
\* after the other; whatever else holds the lock may do so meanwhile.
ServeSync ==
  /\ serve = "sync"
  /\ syncing # <<>>
  /\ synced' = synced \cup {Head(syncing)}
  /\ syncing' = Tail(syncing)
  /\ UNCHANGED <<ctrlVars, sendLock, discovery, lockVars, serve, teardown,
                 closing, splice, register, tracked, ch>>

ServeReturn ==
  /\ serve = "sync"
  /\ syncing = <<>>
  /\ serve' = "conn"
  /\ UNCHANGED <<ctrlVars, sendLock, discovery, lockVars, teardown, closing,
                 splice, register, tracked, ch, syncVars>>

\* Discovery failed: Kick, then CloseOrRecv.
ServeFail ==
  /\ serve = "wait"
  /\ discovery[Main] = "failed"
  /\ kick' = [kick EXCEPT ![Main] = TRUE]
  /\ serve' = "close"
  /\ UNCHANGED <<stream, run, runErr, pump, closeSent, sendLock, discovery,
                 lockVars, teardown, closing, splice, register, tracked, ch,
                 syncVars>>

ServeClose ==
  /\ serve = "close"
  /\ CloseBegin(Main, "serve")
  /\ serve' = "closing"
  /\ UNCHANGED <<stream, run, runErr, pump, kick, discovery, lockVars,
                 teardown, closing, splice, register, tracked, ch, syncVars>>

ServeReturnErr ==
  /\ serve = "closing"
  /\ Len(ch) < ChCap
  /\ CloseEnd(Main, "serve")
  /\ ch' = Append(ch, "err")
  /\ serve' = "noConn"
  /\ UNCHANGED <<ctrlVars, discovery, lockVars, teardown, closing, splice,
                 register, tracked, syncVars>>

-------------------------------------------------------------------------------
(***************************************************************************)
(* Serve's goroutine, after Run of the main controller: it gives the read  *)
(* lock up and takes the lock for writing.                                 *)
(***************************************************************************)
\* Mutant of TeardownUnlock: RUnlock forgotten.
TeardownKeepsLock ==
  /\ teardown = "running"
  /\ run[Main] = "returned"
  /\ teardown' = "unlocked"
  /\ UNCHANGED <<ctrlVars, sendLock, discovery, lockVars, serve, closing,
                 splice, register, tracked, syncVars, ch>>

TeardownUnlock ==
  /\ teardown = "running"
  /\ run[Main] = "returned"
  /\ readers' = readers - 1
  /\ teardown' = "unlocked"
  /\ UNCHANGED <<ctrlVars, sendLock, discovery, writer, serve, closing, splice,
                 register, tracked, ch, syncVars>>

\* Mutant of Lock: a plain mutex that the readers do not hold.
LockIgnoresReaders(a) == writer = "free" /\ writer' = a /\ UNCHANGED readers

Lock(a) == writer = "free" /\ readers = 0 /\ writer' = a /\ UNCHANGED readers

TeardownLock ==
  /\ teardown = "unlocked"
  /\ Lock("teardown")
  /\ teardown' = "close"
  /\ closing' = tracked
  /\ UNCHANGED <<ctrlVars, sendLock, discovery, serve, splice, register,
                 tracked, ch, syncVars>>

\* The controller to close next: the spliced ones in order, then the main.
Target == IF closing = <<>> THEN Main ELSE Head(closing)

TeardownClose ==
  /\ teardown = "close"
  /\ kick' = IF Target # Main /\ runErr[Main] = "err"
               THEN [kick EXCEPT ![Target] = TRUE]
               ELSE kick
  /\ CloseBegin(Target, "teardown")
  /\ teardown' = "closing"
  /\ UNCHANGED <<stream, run, runErr, pump, discovery, lockVars, serve,
                 closing, splice, register, tracked, ch, syncVars>>

TeardownClosed ==
  /\ teardown = "closing"
  /\ CloseEnd(Target, "teardown")
  /\ teardown' = IF Target = Main THEN "report" ELSE "close"
  /\ closing' = IF Target = Main THEN closing ELSE Tail(closing)
  /\ UNCHANGED <<ctrlVars, discovery, lockVars, serve, splice, register,
                 tracked, ch, syncVars>>

\* ch <- runErr, and the deferred Unlock.
TeardownReport ==
  /\ teardown = "report"
  /\ Len(ch) < ChCap
  /\ ch' = Append(ch, runErr[Main])
  /\ writer' = "free"
  /\ teardown' = "done"
  /\ UNCHANGED <<ctrlVars, sendLock, discovery, readers, serve, closing,
                 splice, register, tracked, syncVars>>

-------------------------------------------------------------------------------
(***************************************************************************)
(* Splice and RegisterService.                                             *)
(***************************************************************************)
SpliceLock(k) ==
  /\ splice[k] = "idle"
  /\ Lock(k)
  /\ splice' = [splice EXCEPT ![k] = "locked"]
  /\ UNCHANGED <<ctrlVars, sendLock, discovery, serve, teardown, closing,
                 register, tracked, ch, syncVars>>

\* go ctrl.Run, then discoverServices
SpliceRun(k) ==
  /\ splice[k] = "locked"
  /\ splice' = [splice EXCEPT ![k] = "discover"]
  /\ UNCHANGED <<ctrlVars, sendLock, discovery, lockVars, serve, teardown,
                 closing, register, tracked, ch, syncVars>>

SpliceDiscover(k) ==
  /\ splice[k] = "discover"
  /\ Request(k)
  /\ splice' = [splice EXCEPT ![k] = "wait"]
  /\ UNCHANGED <<stream, run, runErr, pump, closeSent, sendLock, lockVars,
                 serve, teardown, closing, register, tracked, ch, syncVars>>

SpliceReturn(k) ==
  /\ splice[k] = "wait"
  /\ \/ /\ discovery[k] = "ok"
        /\ tracked' = Append(tracked, k)
        /\ splice' = [splice EXCEPT ![k] = "ok"]
     \/ /\ discovery[k] = "failed"
        /\ splice' = [splice EXCEPT ![k] = "failed"]
        /\ UNCHANGED tracked
  /\ writer' = "free"
  /\ UNCHANGED <<ctrlVars, sendLock, discovery, readers, serve, teardown,
                 closing, register, ch, syncVars>>

RegisterLock(g) ==
  /\ register[g] = "idle"
  /\ Lock(g)
  /\ register' = [register EXCEPT ![g] = "locked"]
  /\ UNCHANGED <<ctrlVars, sendLock, discovery, serve, teardown, closing,
                 splice, tracked, ch, syncVars>>

RegisterReturn(g) ==
  /\ register[g] = "locked"
  /\ register' = [register EXCEPT ![g] = "done"]
  /\ writer' = "free"
  /\ UNCHANGED <<ctrlVars, sendLock, discovery, readers, serve, teardown,
                 closing, splice, tracked, ch, syncVars>>

-------------------------------------------------------------------------------
(***************************************************************************)
(* The remote ends: one goes away by itself, or hangs up after CloseSend.  *)
(***************************************************************************)
RemoteEnds(k) ==
  /\ k \in HangUps
  /\ stream[k] = "open"
  /\ \E how \in {"eof", "err"} : stream' = [stream EXCEPT ![k] = how]
  /\ UNCHANGED <<run, runErr, pump, kick, closeSent, sendLock, discovery,
                 lockVars, serverVars>>

RemoteAnswersClose(k) ==
  /\ k \in closeSent
  /\ stream[k] = "open"
  /\ stream' = [stream EXCEPT ![k] = "eof"]
  /\ UNCHANGED <<run, runErr, pump, kick, closeSent, sendLock, discovery,
                 lockVars, serverVars>>

Ctrl(k) == RunStart(k) \/ RunEnd(k) \/ StopAndWait(k)

Serve ==
  \/ ServeDiscover \/ ServeOK \/ ServeSync \/ ServeReturn
  \/ ServeFail \/ ServeClose \/ ServeReturnErr

Teardown ==
  \/ TeardownUnlock \/ TeardownLock \/ TeardownClose \/ TeardownClosed
  \/ TeardownReport

Splice(k) == SpliceRun(k) \/ SpliceDiscover(k) \/ SpliceReturn(k)

Next ==
  \/ \E k \in Controller :
       \/ Ctrl(k) \/ PumpEnd(k) \/ Respond(k)
       \/ RemoteEnds(k) \/ RemoteAnswersClose(k)
  \/ ServeStart \/ Serve \/ Teardown
  \/ \E k \in Spliced : SpliceLock(k) \/ Splice(k)
  \/ \E g \in Registrars : RegisterLock(g) \/ RegisterReturn(g)

Spec == Init /\ [][Next]_vars

(***************************************************************************)
(* Goroutines that can run do; the remote end of a stream answers          *)
(* discovery and hangs up after it has seen CloseSend, as a totem server   *)
(* does. Calling Serve, Splice and RegisterService is up to the program.   *)
(***************************************************************************)
FairSpec ==
  /\ Spec
  /\ \A k \in Controller :
       /\ WF_vars(Ctrl(k)) /\ WF_vars(PumpEnd(k))
       /\ WF_vars(Respond(k)) /\ WF_vars(RemoteAnswersClose(k))
  /\ WF_vars(Serve) /\ WF_vars(Teardown)
  /\ \A k \in Spliced : WF_vars(Splice(k))
  /\ \A g \in Registrars : WF_vars(RegisterReturn(g))

-------------------------------------------------------------------------------
\* Types of the variables.
TypeOK ==
  /\ stream \in [Controller -> {"open", "eof", "err"}]
  /\ run \in [Controller -> {"none", "loop", "stopping", "returned"}]
  /\ runErr \in [Controller -> {"none", "nil", "err"}]
  /\ pump \in [Controller -> {"none", "running", "done"}]
  /\ kick \in [Controller -> BOOLEAN]
  /\ closeSent \subseteq Controller \ ServerStreams
  /\ sendLock \in [Controller -> {"free", "serve", "teardown"}]
  /\ discovery \in [Controller -> {"none", "stored", "ok", "failed", "lost"}]
  /\ readers \in {0, 1}
  /\ writer \in {"free", "teardown"} \cup Spliced \cup Registrars
  /\ serve \in {"idle", "discover", "wait", "sync", "conn", "close", "closing",
                "noConn"}
  /\ teardown \in {"none", "running", "unlocked", "close", "closing", "report",
                   "done"}
  /\ splice \in [Spliced -> {"idle", "locked", "discover", "wait", "ok",
                             "failed"}]
  /\ register \in [Registrars -> {"idle", "locked", "done"}]
  /\ tracked \in Seq(Spliced) /\ closing \in Seq(Spliced)
  /\ syncing \in Seq(Spliced)
  /\ synced \subseteq Spliced
  /\ ch \in Seq({"nil", "err"})

\* Those between Lock and Unlock, or RLock and RUnlock, of Server.lock.
Holders ==
  {k \in Spliced : splice[k] \in {"locked", "discover", "wait"}}
    \cup {g \in Registrars : register[g] = "locked"}
    \cup {a \in {"serve"} : teardown = "running"}
    \cup {a \in {"teardown"} : teardown \in {"close", "closing", "report"}}

\* server.go:163, 228, 251, 271-274: Splice, RegisterService, the serving of
\* the main stream and the closing of the spliced ones go one at a time. Serve's
\* loop over the spliced controllers (307-316) takes no lock: until Run of the
\* main controller has returned, the read lock of Serve's goroutine keeps the
\* others away from the list it walks; from then on nothing does.
Exclusive ==
  /\ Cardinality(Holders) <= 1
  /\ serve = "sync" /\ run[Main] # "returned" => Holders = {"serve"}

\* server.go:220-222: while the main stream is served, every spliced
\* controller offers the services discovered on it.
ServedIsSynced ==
  serve = "conn" /\ teardown = "running" =>
    \A i \in DOMAIN tracked : tracked[i] \in synced

\* server.go:277-287: the end of the main stream is reported last: it and
\* every stream spliced by then are over, and nothing more will be received.
ReportedLast ==
  teardown = "report" =>
    /\ pump[Main] = "done" /\ run[Main] = "returned"
    /\ \A i \in DOMAIN tracked : pump[tracked[i]] = "done"

\* server.go:256: neither Serve, which still owes its caller the connection,
\* nor its goroutine, which holds the lock, can block on the error channel.
NeverBlocksOnCh ==
  serve = "closing" \/ teardown = "report" => Len(ch) < ChCap

\* server.go:287: the end of the main stream is reported, unless a Splice
\* that got the lock in between waits for an answer that cannot come.
EndReported ==
  (serve # "idle" /\ stream[Main] # "open")
    ~> (teardown = "done" \/ \E k \in Spliced : discovery[k] = "lost")

\* examples/simple/main.go:35-36: "Serve() starts the totem server in the
\* background, and returns a grpc.ClientConnInterface".
ServeReturns == serve = "discover" ~> serve \in {"conn", "noConn"}
===============================================================================
