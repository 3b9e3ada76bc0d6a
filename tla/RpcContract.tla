----------------------------- MODULE RpcContract -----------------------------
(***************************************************************************)
(* What a totem connection promises to the issuer of an RPC, whatever the  *)
(* stream below it does: the request is executed at most once, what the    *)
(* issuer receives of a server stream is a prefix of what the handler sent, *)
(* and it is told "ok" only after the handler answered ok and the whole of *)
(* the stream has been received. Any other outcome (an error, a            *)
(* cancellation) promises nothing about the execution: the handler may     *)
(* still run, or may have run to the end.                                  *)
(***************************************************************************)
EXTENDS Naturals

CONSTANT Call

VARIABLES
  phase,     \* per call: "idle", "issued", "executing" or "answered"
  answer,    \* per call: what the handler answered, or "none"
  emitted,   \* per call: stream messages the handler has sent
  received,  \* per call: stream messages the issuer has received
  outcome    \* per call: what the issuer was told, or "none"

vars == <<phase, answer, emitted, received, outcome>>

Init ==
  /\ phase    = [c \in Call |-> "idle"]
  /\ answer   = [c \in Call |-> "none"]
  /\ emitted  = [c \in Call |-> 0]
  /\ received = [c \in Call |-> 0]
  /\ outcome  = [c \in Call |-> "none"]

Issue(c) ==
  /\ phase[c] = "idle"
  /\ phase' = [phase EXCEPT ![c] = "issued"]
  /\ UNCHANGED <<answer, emitted, received, outcome>>

Execute(c) ==
  /\ phase[c] = "issued"
  /\ phase' = [phase EXCEPT ![c] = "executing"]
  /\ UNCHANGED <<answer, emitted, received, outcome>>

Emit(c) ==
  /\ phase[c] = "executing"
  /\ emitted' = [emitted EXCEPT ![c] = @ + 1]
  /\ UNCHANGED <<phase, answer, received, outcome>>

Finish(c) ==
  /\ phase[c] = "executing"
  /\ phase' = [phase EXCEPT ![c] = "answered"]
  /\ \E s \in {"ok", "error"} : answer' = [answer EXCEPT ![c] = s]
  /\ UNCHANGED <<emitted, received, outcome>>

Receive(c) ==
  /\ outcome[c] = "none"
  /\ received[c] < emitted[c]
  /\ received' = [received EXCEPT ![c] = @ + 1]
  /\ UNCHANGED <<phase, answer, emitted, outcome>>

Succeed(c) ==
  /\ outcome[c] = "none"
  /\ answer[c] = "ok"
  /\ received[c] = emitted[c]
  /\ outcome' = [outcome EXCEPT ![c] = "ok"]
  /\ UNCHANGED <<phase, answer, emitted, received>>

\* The calls in S fail at once, as those of a connection that ends may.
Fail(S) ==
  /\ \A c \in S : outcome[c] = "none" /\ phase[c] # "idle"
  /\ \E o \in [S -> {"error", "cancelled"}] :
       outcome' = [c \in Call |-> IF c \in S THEN o[c] ELSE outcome[c]]
  /\ UNCHANGED <<phase, answer, emitted, received>>

Next ==
  \/ \E c \in Call :
       \/ Issue(c) \/ Execute(c) \/ Emit(c) \/ Finish(c)
       \/ Receive(c) \/ Succeed(c)
  \/ \E S \in SUBSET Call : Fail(S)

Spec == Init /\ [][Next]_vars
==============================================================================
