------------------------------ MODULE RecvWrapper ------------------------------
(***************************************************************************)
(* recv.go: the recvWrappers a process makes for one stream, one after the *)
(* other, and the registry gKnownStreams that is to keep them from reading *)
(* it at the same time. A wrapper has a goroutine that removes the stream  *)
(* from the registry, a pump that reads the stream into a channel, and a   *)
(* reader, its controller's Run.                                           *)
(***************************************************************************)
EXTENDS Naturals, Sequences

CONSTANTS
  Wrapper,   \* the wrappers the program may try to make
  Cap,       \* capacity of recvWrapper.c (256 in the code)
  Messages   \* bound: messages the stream may bring

ASSUME RecvAssumption == Cap \in Nat \ {0} /\ Messages \in Nat

VARIABLES
  known,    \* gKnownStreams has the stream
  life,     \* per wrapper: "none", "made" or "refused" (the panic)
  cleaner,  \* per wrapper: the goroutine newRecvWrapper starts
  pump,     \* per wrapper: the goroutine of Start
  held,     \* per wrapper: the payload the pump is about to put
  c,        \* per wrapper: content of the channel c
  run,      \* per wrapper: Run is in Recv ("loop"), handles what it got
            \* ("busy"), or has left its loop
  kick,     \* per wrapper: a kick was made, and is it still to be taken
  acked,    \* per wrapper: kickAcked is closed
  read,     \* messages read from the stream so far
  over,     \* stream.Recv fails
  ctxDone   \* stream.Context() is done

regVars    == <<known, life, cleaner>>
pumpVars   == <<pump, held, c>>
runVars    == <<run, kick, acked>>
streamVars == <<read, over, ctxDone>>
vars       == <<regVars, pumpVars, runVars, streamVars>>

\* The payload with an error; the others are the numbers of their messages.
End == 0

Init ==
  /\ known = FALSE
  /\ life = [w \in Wrapper |-> "none"] /\ cleaner = [w \in Wrapper |-> "none"]
  /\ pump = [w \in Wrapper |-> "none"] /\ held = [w \in Wrapper |-> End]
  /\ c = [w \in Wrapper |-> <<>>] /\ run = [w \in Wrapper |-> "none"]
  /\ kick = [w \in Wrapper |-> "none"] /\ acked = [w \in Wrapper |-> FALSE]
  /\ read = 0 /\ over = FALSE /\ ctxDone = FALSE

-------------------------------------------------------------------------------
NewRecvWrapper(w) ==
  /\ life[w] = "none"
  /\ life' = [life EXCEPT ![w] = IF known THEN "refused" ELSE "made"]
  /\ cleaner' = IF known THEN cleaner ELSE [cleaner EXCEPT ![w] = "waiting"]
  /\ known' = TRUE
  /\ UNCHANGED <<pumpVars, runVars, streamVars>>

\* Mutants of Clean: it does not end, and deletes again; no case for the
\* context.
CleanAgain(w) ==
  /\ cleaner[w] = "waiting"
  /\ acked[w] \/ ctxDone
  /\ known' = FALSE
  /\ UNCHANGED <<life, cleaner, pumpVars, runVars, streamVars>>

CleanKickOnly(w) ==
  /\ cleaner[w] = "waiting"
  /\ acked[w]
  /\ cleaner' = [cleaner EXCEPT ![w] = "done"]
  /\ known' = FALSE
  /\ UNCHANGED <<life, pumpVars, runVars, streamVars>>

\* select on kickAcked and stream.Context().Done(), then delete.
Clean(w) ==
  /\ cleaner[w] = "waiting"
  /\ acked[w] \/ ctxDone
  /\ cleaner' = [cleaner EXCEPT ![w] = "done"]
  /\ known' = FALSE
  /\ UNCHANGED <<life, pumpVars, runVars, streamVars>>

\* Run calls Start.
Start(w) ==
  /\ life[w] = "made" /\ run[w] = "none"
  /\ run' = [run EXCEPT ![w] = "loop"]
  /\ pump' = [pump EXCEPT ![w] = "recv"]
  /\ UNCHANGED <<regVars, held, c, kick, acked, streamVars>>

\* Mutant of PumpRecv: the pump ends with the context, not with Recv's error.
PumpRecvCtx(w) ==
  /\ pump[w] = "recv"
  /\ \/ /\ ctxDone
        /\ held' = [held EXCEPT ![w] = End]
        /\ UNCHANGED read
     \/ /\ ~over /\ read < Messages
        /\ read' = read + 1
        /\ held' = [held EXCEPT ![w] = read + 1]
  /\ pump' = [pump EXCEPT ![w] = "put"]
  /\ UNCHANGED <<regVars, c, runVars, over, ctxDone>>

PumpRecv(w) ==
  /\ pump[w] = "recv"
  /\ \/ /\ over
        /\ held' = [held EXCEPT ![w] = End]
        /\ UNCHANGED read
     \/ /\ ~over /\ read < Messages
        /\ read' = read + 1
        /\ held' = [held EXCEPT ![w] = read + 1]
  /\ pump' = [pump EXCEPT ![w] = "put"]
  /\ UNCHANGED <<regVars, c, runVars, over, ctxDone>>

\* Mutant of PumpPut: no return after an error.
PumpPutOn(w) ==
  /\ pump[w] = "put"
  /\ Len(c[w]) < Cap
  /\ c' = [c EXCEPT ![w] = Append(@, held[w])]
  /\ pump' = [pump EXCEPT ![w] = "recv"]
  /\ UNCHANGED <<regVars, held, runVars, streamVars>>

PumpPut(w) ==
  /\ pump[w] = "put"
  /\ Len(c[w]) < Cap
  /\ c' = [c EXCEPT ![w] = Append(@, held[w])]
  /\ pump' = [pump EXCEPT ![w] = IF held[w] = End THEN "done" ELSE "recv"]
  /\ UNCHANGED <<regVars, held, runVars, streamVars>>

Recv(w) ==
  /\ run[w] = "loop" /\ c[w] # <<>>
  /\ c' = [c EXCEPT ![w] = Tail(@)]
  /\ run' = [run EXCEPT ![w] = IF Head(c[w]) = End THEN "left" ELSE "busy"]
  /\ UNCHANGED <<regVars, pump, held, kick, acked, streamVars>>

\* Run has submitted the request, or sent the message to its future, and calls
\* Recv again. It may never get there: Submit blocks while the pool's queue is
\* full, the send while the future is.
Handled(w) ==
  /\ run[w] = "busy"
  /\ run' = [run EXCEPT ![w] = "loop"]
  /\ UNCHANGED <<regVars, pumpVars, kick, acked, streamVars>>

RecvKick(w) ==
  /\ run[w] = "loop" /\ kick[w] = "pending"
  /\ kick' = [kick EXCEPT ![w] = "taken"]
  /\ acked' = [acked EXCEPT ![w] = TRUE]
  /\ run' = [run EXCEPT ![w] = "left"]
  /\ UNCHANGED <<regVars, pumpVars, streamVars>>

\* StreamController.Kick: a failed Send, a failed discovery or, for a spliced
\* stream, the end of the main one. At most once.
Kick(w) ==
  /\ life[w] = "made" /\ kick[w] = "none"
  /\ kick' = [kick EXCEPT ![w] = "pending"]
  /\ UNCHANGED <<regVars, pumpVars, run, acked, streamVars>>

StreamEnds ==
  /\ ~ctxDone
  /\ over' = TRUE
  /\ \E d \in BOOLEAN : (d \/ ~over) /\ ctxDone' = d
  /\ UNCHANGED <<regVars, pumpVars, runVars, read>>

Wrapped(w) ==
  \/ Clean(w) \/ PumpRecv(w) \/ PumpPut(w)
  \/ Recv(w) \/ RecvKick(w) \/ Handled(w)

Next ==
  \/ \E w \in Wrapper :
       NewRecvWrapper(w) \/ Start(w) \/ Kick(w) \/ Wrapped(w)
  \/ StreamEnds

Spec == Init /\ [][Next]_vars

\* The goroutines of a wrapper run, and Run takes what there is when it is in
\* Recv. Nothing makes it come back from what it handles (no fairness of
\* Handled); the program and the stream are free.
FairSpec ==
  /\ Spec
  /\ \A w \in Wrapper :
       /\ WF_vars(Clean(w)) /\ WF_vars(PumpRecv(w) \/ PumpPut(w))
       /\ WF_vars(Recv(w) \/ RecvKick(w))

-------------------------------------------------------------------------------
\* Types; the buffer's capacity.
TypeOK ==
  /\ known \in BOOLEAN /\ over \in BOOLEAN /\ ctxDone \in BOOLEAN
  /\ life \in [Wrapper -> {"none", "made", "refused"}]
  /\ cleaner \in [Wrapper -> {"none", "waiting", "done"}]
  /\ pump \in [Wrapper -> {"none", "recv", "put", "done"}]
  /\ run \in [Wrapper -> {"none", "loop", "busy", "left"}]
  /\ kick \in [Wrapper -> {"none", "pending", "taken"}]
  /\ acked \in [Wrapper -> BOOLEAN] /\ read \in Nat
  /\ held \in [Wrapper -> Nat] /\ c \in [Wrapper -> Seq(Nat)]
  /\ \A w \in Wrapper : Len(c[w]) <= Cap

\* recv.go:96 and stream.go:82: as long as a wrapper is neither kicked nor its
\* stream's context done, the stream stays registered, so that no other can be
\* made; the goroutine of an older one does not remove it.
Guarded ==
  \A w \in Wrapper :
    life[w] = "made" /\ ~acked[w] /\ ~ctxDone =>
      known /\ \A v \in Wrapper \ {w} : life[v] = "made" => acked[v]

\* A Run that was not kicked leaves only after everything its pump has read.
EndIsLast ==
  \A w \in Wrapper :
    run[w] = "left" /\ ~acked[w] => c[w] = <<>> /\ pump[w] = "done"

\* recv.go:66: once the stream is over Wait returns, or the buffer stays full for
\* good: with a Run that was kicked away from it, or with one that never comes
\* back from the message it is handling (stream.go:336, 345, 354). Nothing else
\* keeps the pump, whatever the other wrappers of the stream do.
WaitReturns ==
  \A w \in Wrapper :
    (over /\ pump[w] # "none")
      ~> (pump[w] = "done"
            \/ [](Len(c[w]) = Cap /\ (acked[w] \/ run[w] = "busy")))

\* recv.go:112: the registry does not keep a stream whose context is done.
RegistryDrains == ctxDone ~> []~known
===============================================================================
