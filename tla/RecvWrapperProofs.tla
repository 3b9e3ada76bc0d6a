--------------------------- MODULE RecvWrapperProofs ---------------------------
(***************************************************************************)
(* Proofs about the recvWrappers of recv.go, for any number of wrappers,   *)
(* any capacity of their channels and any number of messages.              *)
(***************************************************************************)
EXTENDS RecvWrapper, TLAPS

\* The registry: a wrapper that was made has a goroutine that cleans up, which
\* ends only after a kick or with the context; at most one such goroutine is
\* still to run, and the stream is registered as long as it has not.
Registered ==
  /\ \A w \in Wrapper : life[w] = "made" <=> cleaner[w] # "none"
  /\ \A w \in Wrapper : cleaner[w] = "done" => acked[w] \/ ctxDone
  /\ \A w \in Wrapper : cleaner[w] = "waiting" => known
  /\ \A w, v \in Wrapper :
       cleaner[w] = "waiting" /\ cleaner[v] = "waiting" => w = v

\* The channel: a payload with an error is the last one, and the pump has ended
\* once it is in the channel; a pump exists only once Run has started.
Ordered ==
  /\ \A w \in Wrapper : run[w] = "none" => pump[w] = "none"
  /\ \A w \in Wrapper : \A i \in 1 .. Len(c[w]) :
       c[w][i] = End => i = Len(c[w]) /\ pump[w] = "done"

Inv == TypeOK /\ Registered /\ Ordered /\ EndIsLast

-------------------------------------------------------------------------------
\* What Append and Tail, a send to and a receive from a channel, do to it.
LEMMA ChannelFacts ==
  ASSUME NEW s \in Seq(Nat)
  PROVE  /\ \A x \in Nat : /\ Append(s, x) \in Seq(Nat)
                           /\ Len(Append(s, x)) = Len(s) + 1
                           /\ \A i \in 1 .. Len(s) : Append(s, x)[i] = s[i]
                           /\ Append(s, x)[Len(s) + 1] = x
         /\ s # <<>> => /\ Head(s) = s[1] /\ Head(s) \in Nat
                        /\ Tail(s) \in Seq(Nat)
                        /\ Len(Tail(s)) = Len(s) - 1
                        /\ \A i \in 1 .. Len(s) - 1 : Tail(s)[i] = s[i + 1]
         /\ Len(s) \in Nat
         /\ Len(s) = 0 <=> s = <<>>
  OBVIOUS

\* A channel is made with a capacity.
LEMMA CapNat == Cap \in Nat
BY RecvAssumption DEF RecvAssumption

\* The types are kept by every step of every goroutine.
LEMMA TypeStep == TypeOK /\ [Next]_vars => TypeOK'
<1> SUFFICES ASSUME TypeOK, [Next]_vars PROVE TypeOK'
  OBVIOUS
<1> USE DEF TypeOK, regVars, pumpVars, runVars, streamVars, End
<1>1. ASSUME NEW w \in Wrapper, NewRecvWrapper(w) PROVE TypeOK'
  BY <1>1 DEF NewRecvWrapper
<1>2. ASSUME NEW w \in Wrapper, Clean(w) PROVE TypeOK'
  BY <1>2 DEF Clean
<1>3. ASSUME NEW w \in Wrapper, Start(w) PROVE TypeOK'
  BY <1>3 DEF Start
<1>4. ASSUME NEW w \in Wrapper, PumpRecv(w) PROVE TypeOK'
  <2>1. CASE over
    <3>1. held' = [held EXCEPT ![w] = End] /\ read' = read
      BY <1>4, <2>1 DEF PumpRecv
    <3>2. held' \in [Wrapper -> Nat] /\ read' \in Nat
      BY <3>1
    <3> QED BY <1>4, <3>2 DEF PumpRecv
  <2>2. CASE ~over
    <3>1. held' = [held EXCEPT ![w] = read + 1] /\ read' = read + 1
      BY <1>4, <2>2 DEF PumpRecv
    <3>2. held' \in [Wrapper -> Nat] /\ read' \in Nat
      BY <3>1
    <3> QED BY <1>4, <3>2 DEF PumpRecv
  <2> QED BY <2>1, <2>2
<1>5. ASSUME NEW w \in Wrapper, PumpPut(w) PROVE TypeOK'
  <2>1. /\ c' \in [Wrapper -> Seq(Nat)]
        /\ \A v \in Wrapper : Len(c'[v]) <= Cap
    BY <1>5, ChannelFacts, CapNat DEF PumpPut
  <2> QED BY <1>5, <2>1 DEF PumpPut
<1>6. ASSUME NEW w \in Wrapper, Recv(w) PROVE TypeOK'
  <2>1. /\ c' \in [Wrapper -> Seq(Nat)]
        /\ \A v \in Wrapper : Len(c'[v]) <= Cap
    BY <1>6, ChannelFacts, CapNat DEF Recv
  <2> QED BY <1>6, <2>1 DEF Recv
<1>7. ASSUME NEW w \in Wrapper, RecvKick(w) PROVE TypeOK'
  BY <1>7 DEF RecvKick
<1>8. ASSUME NEW w \in Wrapper, Kick(w) PROVE TypeOK'
  BY <1>8 DEF Kick
<1>9. ASSUME StreamEnds PROVE TypeOK'
  BY <1>9 DEF StreamEnds
<1>10. ASSUME NEW w \in Wrapper, Handled(w) PROVE TypeOK'
  BY <1>10 DEF Handled
<1>11. CASE UNCHANGED vars
  BY <1>11 DEF vars
<1> QED BY <1>1, <1>2, <1>3, <1>4, <1>5, <1>6, <1>7, <1>8, <1>9, <1>10,
          <1>11
        DEF Next, Wrapped

\* No step of a wrapper, its program or its stream leaves two goroutines that
\* would remove the stream from the registry, or one for a stream that is not
\* in it.
LEMMA RegisteredStep == TypeOK /\ Registered /\ [Next]_vars => Registered'
<1> SUFFICES ASSUME TypeOK, Registered, [Next]_vars PROVE Registered'
  OBVIOUS
<1> USE DEF TypeOK, Registered, regVars, pumpVars, runVars, streamVars
<1>1. ASSUME NEW w \in Wrapper, NewRecvWrapper(w) PROVE Registered'
  BY <1>1 DEF NewRecvWrapper
<1>2. ASSUME NEW w \in Wrapper, Clean(w) PROVE Registered'
  BY <1>2 DEF Clean
<1>3. ASSUME NEW w \in Wrapper, Start(w) PROVE Registered'
  BY <1>3 DEF Start
<1>4. ASSUME NEW w \in Wrapper, PumpRecv(w) PROVE Registered'
  BY <1>4 DEF PumpRecv
<1>5. ASSUME NEW w \in Wrapper, PumpPut(w) PROVE Registered'
  BY <1>5 DEF PumpPut
<1>6. ASSUME NEW w \in Wrapper, Recv(w) PROVE Registered'
  BY <1>6 DEF Recv
<1>7. ASSUME NEW w \in Wrapper, RecvKick(w) PROVE Registered'
  BY <1>7 DEF RecvKick
<1>8. ASSUME NEW w \in Wrapper, Kick(w) PROVE Registered'
  BY <1>8 DEF Kick
<1>9. ASSUME StreamEnds PROVE Registered'
  BY <1>9 DEF StreamEnds
<1>10. ASSUME NEW w \in Wrapper, Handled(w) PROVE Registered'
  BY <1>10 DEF Handled
<1>11. CASE UNCHANGED vars
  BY <1>11 DEF vars
<1> QED BY <1>1, <1>2, <1>3, <1>4, <1>5, <1>6, <1>7, <1>8, <1>9, <1>10,
          <1>11
        DEF Next, Wrapped

\* No step puts anything behind an error, or lets Run leave before the error
\* unless it was kicked.
LEMMA OrderedStep ==
  TypeOK /\ Ordered /\ EndIsLast /\ [Next]_vars => Ordered' /\ EndIsLast'
<1> SUFFICES ASSUME TypeOK, Ordered, EndIsLast, [Next]_vars
             PROVE  Ordered' /\ EndIsLast'
  OBVIOUS
<1> USE DEF TypeOK, Ordered, EndIsLast, regVars, pumpVars, runVars, streamVars
<1>1. ASSUME NEW w \in Wrapper, NewRecvWrapper(w) PROVE Ordered' /\ EndIsLast'
  BY <1>1 DEF NewRecvWrapper
<1>2. ASSUME NEW w \in Wrapper, Clean(w) PROVE Ordered' /\ EndIsLast'
  BY <1>2 DEF Clean
<1>3. ASSUME NEW w \in Wrapper, Start(w) PROVE Ordered' /\ EndIsLast'
  BY <1>3 DEF Start
<1>4. ASSUME NEW w \in Wrapper, PumpRecv(w) PROVE Ordered' /\ EndIsLast'
  BY <1>4 DEF PumpRecv
<1>5. ASSUME NEW w \in Wrapper, PumpPut(w) PROVE Ordered' /\ EndIsLast'
  <2>1. /\ c' = [c EXCEPT ![w] = Append(c[w], held[w])]
        /\ c[w] \in Seq(Nat) /\ held[w] \in Nat
        /\ pump[w] = "put"
        /\ pump' = [pump EXCEPT ![w] =
                      IF held[w] = End THEN "done" ELSE "recv"]
        /\ run' = run /\ acked' = acked
    BY <1>5 DEF PumpPut
  <2>2. ASSUME NEW i \in 1 .. Len(c'[w]), c'[w][i] = End
        PROVE  i = Len(c'[w]) /\ pump'[w] = "done"
    BY <2>1, <2>2, ChannelFacts
  <2> QED BY <2>1, <2>2
<1>6. ASSUME NEW w \in Wrapper, Recv(w) PROVE Ordered' /\ EndIsLast'
  <2>1. /\ c' = [c EXCEPT ![w] = Tail(c[w])]
        /\ c[w] \in Seq(Nat) /\ c[w] # <<>>
        /\ run[w] = "loop"
        /\ run' = [run EXCEPT ![w] = IF Head(c[w]) = End THEN "left" ELSE "busy"]
        /\ pump' = pump /\ acked' = acked
    BY <1>6 DEF Recv
  <2>2. ASSUME NEW i \in 1 .. Len(c'[w]), c'[w][i] = End
        PROVE  i = Len(c'[w]) /\ pump'[w] = "done"
    BY <2>1, <2>2, ChannelFacts
  <2>3. run'[w] = "left" => c'[w] = <<>> /\ pump'[w] = "done"
    BY <2>1, ChannelFacts
  <2> QED BY <2>1, <2>2, <2>3
<1>7. ASSUME NEW w \in Wrapper, RecvKick(w) PROVE Ordered' /\ EndIsLast'
  BY <1>7 DEF RecvKick
<1>8. ASSUME NEW w \in Wrapper, Kick(w) PROVE Ordered' /\ EndIsLast'
  BY <1>8 DEF Kick
<1>9. ASSUME StreamEnds PROVE Ordered' /\ EndIsLast'
  BY <1>9 DEF StreamEnds
<1>10. ASSUME NEW w \in Wrapper, Handled(w) PROVE Ordered' /\ EndIsLast'
  BY <1>10 DEF Handled
<1>11. CASE UNCHANGED vars
  BY <1>11 DEF vars
<1> QED BY <1>1, <1>2, <1>3, <1>4, <1>5, <1>6, <1>7, <1>8, <1>9, <1>10,
          <1>11
        DEF Next, Wrapped

\* The three together hold in every reachable state.
LEMMA Invariance == Spec => []Inv
<1>1. Init => Inv
  <2> SUFFICES ASSUME Init PROVE Inv
    OBVIOUS
  <2>1. TypeOK
    <3>1. c \in [Wrapper -> Seq(Nat)] /\ \A w \in Wrapper : Len(c[w]) <= Cap
      BY CapNat DEF Init
    <3>2. held \in [Wrapper -> Nat] /\ read \in Nat
      BY DEF Init, End
    <3> QED BY <3>1, <3>2 DEF Init, TypeOK
  <2>2. Registered /\ Ordered /\ EndIsLast
    BY DEF Init, Registered, Ordered, EndIsLast
  <2> QED BY <2>1, <2>2 DEF Inv
<1>2. Inv /\ [Next]_vars => Inv'
  BY TypeStep, RegisteredStep, OrderedStep DEF Inv
<1> QED BY <1>1, <1>2, PTL DEF Spec

-------------------------------------------------------------------------------
\* recv.go:96: the registry keeps a stream as long as the wrapper that reads it
\* is neither kicked nor its context done, whatever the goroutines of earlier
\* wrappers do, and every earlier wrapper of the stream was kicked.
THEOREM RegistryGuards == Spec => []Guarded
<1>1. Inv => Guarded
  BY DEF Inv, TypeOK, Registered, Guarded
<1> QED BY <1>1, Invariance, PTL

\* recv.go:40: a Run that was not kicked leaves its loop only after the error
\* that ended its pump, with nothing of what the pump read left behind.
THEOREM NothingLeftBehind == Spec => []EndIsLast
<1>1. Inv => EndIsLast
  BY DEF Inv
<1> QED BY <1>1, Invariance, PTL

\* The channel never holds more than its capacity, and the fields of a wrapper
\* keep their types.
THEOREM TypeCorrect == Spec => []TypeOK
<1>1. Inv => TypeOK
  BY DEF Inv
<1> QED BY <1>1, Invariance, PTL
===============================================================================
