------------------------- MODULE StreamDeliveryProofs -------------------------
(***************************************************************************)
(* What a caller of an RPC receives, for any sets of calls and any faults: *)
(* only messages of its own call, a server stream in order, and success    *)
(* only for all of it. Then, that two stream controllers together keep     *)
(* RpcContract, and that a controller reports its end with its pool at     *)
(* rest.                                                                   *)
(***************************************************************************)
EXTENDS StreamControllerProofs, FiniteSetTheorems

\* A message of the given type about c.
Of(m, type, c) == m.type = type /\ m.call = c

\* Messages from .. to of the stream of c are among the first k of q.
Contains(q, k, c, from, to) ==
  \A n \in from .. to :
    \E j \in 1 .. k : Of(q[j], "streamMsg", c) /\ q[j].n = n

(***************************************************************************)
(* What is on its way to the caller of c in q, when h messages of the      *)
(* stream were handed to it, the handler has sent s and answered r: the    *)
(* next messages, in order and without gaps. Before a response, all of     *)
(* them are, and so they are as long as nothing was lost.                  *)
(***************************************************************************)
Flow(q, c, h, s, r, lossless) ==
  /\ h <= s
  /\ \A i \in 1 .. Len(q) : Of(q[i], "streamMsg", c) =>
       /\ q[i].n \in h + 1 .. s
       /\ Contains(q, i - 1, c, h + 1, q[i].n - 1)
       /\ \A j \in 1 .. i - 1 : Of(q[j], "streamMsg", c) => q[j].n < q[i].n
       /\ c \in Streaming
  /\ \A i \in 1 .. Len(q) : Of(q[i], "response", c) =>
       q[i].status = r /\ Contains(q, i - 1, c, h + 1, s)
  /\ lossless => Contains(q, Len(q), c, h + 1, s)

\* What was handed to the caller of c, while only stream messages were.
Handed(c) == Len(got[c]) + Len(future[c])

\* What p is sent still arrives.
Lossless(p) == ~broken /\ ~sendClosed[Other(p)] /\ ~Deaf(p)

StreamOK(c) ==
  c \notin closed =>
    Flow(inbox[Caller(c)], c, Handed(c), sent[c], reply[c], Lossless(Caller(c)))

\* A caller has received the messages of its stream, in order, and then the
\* response it is done with.
GotOK(c) ==
  /\ \A i \in 1 .. Len(got[c]) :
       /\ got[c][i].call = c
       /\ got[c][i].type = "streamMsg" => got[c][i].n = i
       /\ got[c][i].type # "streamMsg" <=> caller[c] = "done" /\ i = Len(got[c])
  /\ caller[c] = "done" =>
       /\ Len(got[c]) > 0 /\ future[c] = <<>> /\ c \in closed
       /\ got[c][Len(got[c])].status = "ok" =>
            reply[c] = "ok" /\ Len(got[c]) = sent[c] + 1 /\ stage[c] = "delivered"

\* A future holds the next message of its stream, or the response.
FutureOK(c) ==
  /\ Len(future[c]) \in {0, 1}
  /\ future[c] # <<>> =>
       LET m == future[c][1]
       IN  /\ m.call = c
           /\ \/ /\ m.type = "streamMsg" /\ m.n = Len(got[c]) + 1
                 /\ m.n <= sent[c] /\ c \in Streaming
              \/ /\ m.type = "response" /\ c \in closed
                 /\ m.status = "ok" =>
                      /\ reply[c] = "ok" /\ Len(got[c]) = sent[c]
                      /\ stage[c] = "delivered"

\* The inductive invariant, together with TypeOK and Bookkeeping.
Delivery == \A c \in Call : GotOK(c) /\ FutureOK(c) /\ StreamOK(c)

\* A controller that has returned has no tasks, and only one that has returned
\* closes its stream and reports.
ExitInv ==
  \A p \in Peer :
    /\ errC[p] \/ sendLock[p] => run[p] = "returned"
    /\ run[p] = "returned" => active[p] = {} /\ queue[p] = <<>>

\* A handler that was left running belongs to no worker any more, so that it is
\* never answered for.
DetachedInv ==
  /\ \A c \in Call :
       stage[c] \notin {"replied", "delivered"} => reply[c] = "nilProto"
  /\ \A p \in Peer : \A m \in detached[p] :
       /\ IsTask(p, m, "running")
       /\ m \notin active[p]
       /\ m.call \in Streaming
       /\ StreamCtxDone(p)

-------------------------------------------------------------------------------
(***************************************************************************)
(* What a step of the stream does to the flow of one call.                 *)
(***************************************************************************)

\* Messages are numbered.
LEMMA Numbered ==
  ASSUME NEW q \in Seq(RPC)
  PROVE  \A i \in 1 .. Len(q) : q[i] \in RPC /\ q[i].n \in Nat
<1>1. \A i \in 1 .. Len(q) : q[i] \in RPC
  BY SeqFacts
<1>2. \A m \in RPC : m.n \in Nat
  BY DEF RPC
<1>3. QED
  BY <1>1, <1>2

\* Nothing is known any more of what is lost; the rest is as it was.
LEMMA FlowWeaken ==
  ASSUME NEW q, NEW c, NEW h, NEW s, NEW r, NEW a, NEW b, b => a,
         Flow(q, c, h, s, r, a)
  PROVE  Flow(q, c, h, s, r, b)
  BY DEF Flow

\* Another call's message joins the queue.
LEMMA FlowAppend ==
  ASSUME NEW q \in Seq(RPC), NEW c, NEW h \in Nat, NEW s \in Nat, NEW r, NEW a,
         NEW m \in RPC,
         Of(m, "streamMsg", c) => /\ m.n \in h + 1 .. s /\ c \in Streaming
                                  /\ Contains(q, Len(q), c, h + 1, m.n - 1)
                                  /\ \A j \in 1 .. Len(q) :
                                       Of(q[j], "streamMsg", c) => q[j].n < m.n,
         Of(m, "response", c) => /\ m.status = r
                                 /\ Contains(q, Len(q), c, h + 1, s),
         Flow(q, c, h, s, r, a)
  PROVE  Flow(Append(q, m), c, h, s, r, a)
<1> DEFINE z == Append(q, m)
<1>1. /\ Len(q) \in Nat /\ Len(z) = Len(q) + 1
      /\ \A i \in 1 .. Len(q) : z[i] = q[i]
      /\ z[Len(q) + 1] = m
  BY SeqFacts
<1> HIDE DEF z
<1>2. \A k \in 0 .. Len(q) : \A f, t \in Int :
        Contains(q, k, c, f, t) => Contains(z, k, c, f, t)
  <2>1. \A k \in 0 .. Len(q) : \A j \in 1 .. k : z[j] = q[j]
    BY <1>1
  <2>2. QED
    BY <2>1 DEF Contains
<1>3. \A f, t \in Int : Contains(q, Len(q), c, f, t) => Contains(z, Len(z), c, f, t)
  <2>1. \A j \in 1 .. Len(q) : j \in 1 .. Len(z) /\ z[j] = q[j]
    BY <1>1
  <2>2. QED
    BY <2>1 DEF Contains
<1>4. ASSUME NEW i \in 1 .. Len(q)
      PROVE  /\ Of(z[i], "streamMsg", c) =>
                  /\ z[i].n \in h + 1 .. s
                  /\ Contains(z, i - 1, c, h + 1, z[i].n - 1)
                  /\ \A j \in 1 .. i - 1 : Of(z[j], "streamMsg", c) => z[j].n < z[i].n
                  /\ c \in Streaming
             /\ Of(z[i], "response", c) =>
                  z[i].status = r /\ Contains(z, i - 1, c, h + 1, s)
  <2>1. z[i] = q[i] /\ i - 1 \in 0 .. Len(q) /\ \A j \in 1 .. i - 1 : z[j] = q[j]
    BY <1>1
  <2>2. h + 1 \in Int /\ s \in Int /\ \A x \in Nat : x - 1 \in Int
    OBVIOUS
  <2>3. q[i].n \in Nat
    BY Numbered
  <2>4. QED
    BY <1>2, <2>1, <2>2, <2>3 DEF Flow
<1>5. /\ Of(m, "streamMsg", c) =>
           /\ m.n \in h + 1 .. s
           /\ Contains(z, Len(q), c, h + 1, m.n - 1)
           /\ \A j \in 1 .. Len(q) : Of(z[j], "streamMsg", c) => z[j].n < m.n
           /\ c \in Streaming
      /\ Of(m, "response", c) => m.status = r /\ Contains(z, Len(q), c, h + 1, s)
  <2>1. h + 1 \in Int /\ s \in Int /\ m.n - 1 \in Int /\ Len(q) \in 0 .. Len(q)
    BY <1>1 DEF RPC
  <2>2. QED
    BY <1>1, <1>2, <2>1
<1>6. \A i \in 1 .. Len(z) : i \in 1 .. Len(q) \/ (z[i] = m /\ i - 1 = Len(q))
  BY <1>1
<1>7. /\ h <= s
      /\ a => Contains(z, Len(z), c, h + 1, s)
  BY <1>3 DEF Flow
<1>8. QED
  <2>1. \A i \in 1 .. Len(z) : Of(z[i], "streamMsg", c) =>
          /\ z[i].n \in h + 1 .. s
          /\ Contains(z, i - 1, c, h + 1, z[i].n - 1)
          /\ \A j \in 1 .. i - 1 : Of(z[j], "streamMsg", c) => z[j].n < z[i].n
          /\ c \in Streaming
    BY <1>4, <1>5, <1>6
  <2>2. \A i \in 1 .. Len(z) : Of(z[i], "response", c) =>
          z[i].status = r /\ Contains(z, i - 1, c, h + 1, s)
    BY <1>4, <1>5, <1>6
  <2>3. Flow(z, c, h, s, r, a)
    BY <1>7, <2>1, <2>2 DEF Flow
  <2>4. QED
    BY <2>3 DEF z

\* Run takes a message that is not of the stream of c, or the next one of it.
LEMMA FlowTail ==
  ASSUME NEW q \in Seq(RPC), q # <<>>, NEW c, NEW h \in Nat, NEW s \in Nat,
         NEW r, NEW a, Flow(q, c, h, s, r, a)
  PROVE  /\ ~Of(Head(q), "streamMsg", c) => Flow(Tail(q), c, h, s, r, a)
         /\ Of(Head(q), "streamMsg", c) =>
              /\ Head(q).n = h + 1 /\ h + 1 <= s /\ c \in Streaming
              /\ Flow(Tail(q), c, h + 1, s, r, a)
         /\ Of(Head(q), "response", c) => Head(q).status = r /\ h = s
<1> DEFINE z == Tail(q)
<1>1. /\ Len(q) \in Nat /\ Len(q) > 0 /\ Head(q) = q[1] /\ 1 \in 1 .. Len(q)
      /\ Len(z) = Len(q) - 1 /\ Len(z) \in Nat
      /\ \A i \in 1 .. Len(z) : z[i] = q[i + 1]
  BY SeqFacts
<1> HIDE DEF z
<1>2. \A f, t \in Int : Contains(q, 0, c, f, t) => t < f
  BY DEF Contains
<1>3. \A i \in 1 .. Len(q) : q[i].n \in Nat
  BY Numbered
<1>4. ASSUME Of(q[1], "streamMsg", c)
      PROVE  q[1].n = h + 1 /\ h + 1 <= s /\ c \in Streaming
  <2>1. /\ q[1].n \in h + 1 .. s /\ c \in Streaming
        /\ Contains(q, 1 - 1, c, h + 1, q[1].n - 1)
    BY <1>1, <1>4 DEF Flow
  <2>2. q[1].n \in Nat /\ 1 - 1 = 0
    BY <1>1, <1>3
  <2>3. q[1].n - 1 < h + 1
    BY <1>2, <2>1, <2>2
  <2>4. QED
    BY <2>1, <2>2, <2>3
<1>5. ASSUME Of(q[1], "response", c) PROVE q[1].status = r /\ h = s
  <2>1. q[1].status = r /\ Contains(q, 1 - 1, c, h + 1, s) /\ h <= s
    BY <1>1, <1>5 DEF Flow
  <2>2. 1 - 1 = 0 /\ h + 1 \in Int /\ s \in Int
    OBVIOUS
  <2>3. s < h + 1
    BY <1>2, <2>1, <2>2
  <2>4. QED
    BY <2>1, <2>3
<1>6. ASSUME NEW g \in Nat, g <= s,
             \/ ~Of(q[1], "streamMsg", c) /\ g = h
             \/ Of(q[1], "streamMsg", c) /\ g = h + 1
      PROVE  Flow(z, c, g, s, r, a)
  <2>1. ASSUME NEW k \in 1 .. Len(q), NEW t \in Int, Contains(q, k, c, h + 1, t)
        PROVE  Contains(z, k - 1, c, g + 1, t)
    <3> SUFFICES ASSUME NEW n \in g + 1 .. t
                 PROVE  \E j \in 1 .. k - 1 : Of(z[j], "streamMsg", c) /\ z[j].n = n
      BY DEF Contains
    <3>1. n \in h + 1 .. t
      BY <1>6
    <3>2. PICK j \in 1 .. k : Of(q[j], "streamMsg", c) /\ q[j].n = n
      BY <2>1, <3>1 DEF Contains
    <3>3. j # 1
      <4>1. CASE ~Of(q[1], "streamMsg", c)
        BY <3>2, <4>1
      <4>2. CASE Of(q[1], "streamMsg", c) /\ g = h + 1
        BY <1>4, <3>2, <4>2
      <4>3. QED
        BY <1>6, <4>1, <4>2
    <3>4. /\ j - 1 \in 1 .. k - 1 /\ j - 1 \in 1 .. Len(z) /\ (j - 1) + 1 = j
      BY <1>1, <3>3
    <3>5. z[j - 1] = q[j]
      BY <1>1, <3>4
    <3>6. QED
      BY <3>2, <3>4, <3>5
  <2>2. ASSUME NEW i \in 1 .. Len(z)
        PROVE  /\ i + 1 \in 1 .. Len(q) /\ z[i] = q[i + 1] /\ i \in 1 .. Len(q)
               /\ (i + 1) - 1 = i
    BY <1>1
  <2>3. ASSUME NEW i \in 1 .. Len(z), Of(z[i], "streamMsg", c)
        PROVE  /\ z[i].n \in g + 1 .. s
               /\ Contains(z, i - 1, c, g + 1, z[i].n - 1)
               /\ \A j \in 1 .. i - 1 : Of(z[j], "streamMsg", c) => z[j].n < z[i].n
               /\ c \in Streaming
    <3>1. /\ q[i + 1].n \in h + 1 .. s
          /\ Contains(q, i, c, h + 1, q[i + 1].n - 1)
          /\ \A j \in 1 .. i : Of(q[j], "streamMsg", c) => q[j].n < q[i + 1].n
          /\ c \in Streaming
      BY <2>2, <2>3 DEF Flow
    <3>2. q[i + 1].n \in Nat /\ q[1].n \in Nat /\ 1 \in 1 .. i
      BY <1>1, <1>3, <2>2, SMTT(30)
    <3>3. q[i + 1].n \in g + 1 .. s
      <4>1. CASE g = h
        BY <3>1, <4>1
      <4>2. CASE Of(q[1], "streamMsg", c) /\ g = h + 1
        <5>1. q[1].n = h + 1 /\ q[1].n < q[i + 1].n
          BY <1>4, <3>1, <3>2, <4>2
        <5>2. QED
          BY <3>1, <3>2, <4>2, <5>1
      <4>3. QED
        BY <1>6, <4>1, <4>2
    <3>4. Contains(z, i - 1, c, g + 1, q[i + 1].n - 1)
      BY <2>1, <2>2, <3>1, <3>2
    <3>5. \A j \in 1 .. i - 1 : Of(z[j], "streamMsg", c) => z[j].n < q[i + 1].n
      <4>1. \A j \in 1 .. i - 1 : j + 1 \in 1 .. i /\ j \in 1 .. Len(z)
        BY <1>1
      <4>2. QED
        BY <1>1, <3>1, <4>1
    <3>6. QED
      BY <2>2, <3>1, <3>3, <3>4, <3>5
  <2>4. ASSUME NEW i \in 1 .. Len(z), Of(z[i], "response", c)
        PROVE  z[i].status = r /\ Contains(z, i - 1, c, g + 1, s)
    <3>1. q[i + 1].status = r /\ Contains(q, i, c, h + 1, s)
      BY <2>2, <2>4 DEF Flow
    <3>2. QED
      BY <2>1, <2>2, <3>1
  <2>5. a => Contains(z, Len(z), c, g + 1, s)
    <3>1. a => Contains(q, Len(q), c, h + 1, s)
      BY DEF Flow
    <3>2. Len(q) \in 1 .. Len(q) /\ Len(q) - 1 = Len(z)
      BY <1>1
    <3>3. QED
      BY <2>1, <3>1, <3>2
  <2>6. QED
    BY <1>6, <2>3, <2>4, <2>5 DEF Flow
<1>7. h <= s
  BY DEF Flow
<1>8. QED
  BY <1>1, <1>4, <1>5, <1>6, <1>7 DEF z

\* The error payload cuts the queue off.
LEMMA FlowCut ==
  ASSUME NEW q \in Seq(RPC), NEW c, NEW h \in Nat, NEW s \in Nat, NEW r, NEW a,
         NEW k \in 0 .. Len(q), Flow(q, c, h, s, r, a)
  PROVE  Flow(SubSeq(q, 1, k), c, h, s, r, FALSE)
<1> DEFINE z == SubSeq(q, 1, k)
<1>1. Len(q) \in Nat /\ Len(z) = k /\ \A i \in 1 .. k : z[i] = q[i]
  BY SeqFacts
<1> HIDE DEF z
<1>2. ASSUME NEW i \in 1 .. k
      PROVE  /\ z[i] = q[i] /\ i \in 1 .. Len(q)
             /\ \A j \in 1 .. i - 1 : z[j] = q[j]
  BY <1>1
<1>3. ASSUME NEW i \in 1 .. k, NEW t, Contains(q, i - 1, c, h + 1, t)
      PROVE  Contains(z, i - 1, c, h + 1, t)
  BY <1>2, <1>3 DEF Contains
<1>4. Flow(z, c, h, s, r, FALSE)
  BY <1>1, <1>2, <1>3 DEF Flow
<1>5. QED
  BY <1>4 DEF z

\* The handler sends one more message, which is lost.
LEMMA FlowLost ==
  ASSUME NEW q \in Seq(RPC), NEW c, NEW h \in Nat, NEW s \in Nat, NEW r, NEW a,
         NEW t, Flow(q, c, h, s, r, a),
         \A i \in 1 .. Len(q) : ~Of(q[i], "response", c)
  PROVE  Flow(q, c, h, s + 1, t, FALSE) /\ Flow(q, c, h, s, t, a)
<1>1. \A i \in 1 .. Len(q) : q[i].n \in Nat
  BY Numbered
<1>2. QED
  BY <1>1 DEF Flow

\* The handler sends one more message, which arrives.
LEMMA FlowEmit ==
  ASSUME NEW q \in Seq(RPC), NEW c, NEW h \in Nat, NEW s \in Nat, NEW r,
         NEW m \in RPC, Of(m, "streamMsg", c), m.n = s + 1, c \in Streaming,
         Flow(q, c, h, s, r, TRUE),
         \A i \in 1 .. Len(q) : ~Of(q[i], "response", c)
  PROVE  Flow(Append(q, m), c, h, s + 1, r, TRUE)
<1>1. Flow(q, c, h, s + 1, r, FALSE)
  BY FlowLost
<1>2. /\ m.n \in h + 1 .. s + 1
      /\ \A j \in 1 .. Len(q) : Of(q[j], "streamMsg", c) => q[j].n < m.n
  <2>1. \A i \in 1 .. Len(q) : q[i].n \in Nat
    BY Numbered
  <2>2. QED
    BY <2>1 DEF Flow
<1>3. Contains(q, Len(q), c, h + 1, s) /\ m.n - 1 = s /\ s + 1 \in Nat
  BY DEF Flow
<1>4. Flow(Append(q, m), c, h, s + 1, r, FALSE)
  <2>1. ~Of(m, "response", c)
    BY DEF Of
  <2>2. QED
    BY <1>1, <1>2, <1>3, <2>1, FlowAppend
<1>5. Contains(Append(q, m), Len(Append(q, m)), c, h + 1, s + 1)
  <2>1. /\ Len(q) \in Nat /\ Len(Append(q, m)) = Len(q) + 1
        /\ \A i \in 1 .. Len(q) : Append(q, m)[i] = q[i]
        /\ Append(q, m)[Len(q) + 1] = m
    BY SeqFacts
  <2>2. \A j \in 1 .. Len(q) : j \in 1 .. Len(q) + 1
    BY <2>1
  <2>3. \A n \in h + 1 .. s + 1 : n \in h + 1 .. s \/ n = s + 1
    OBVIOUS
  <2>4. Len(q) + 1 \in 1 .. Len(q) + 1
    BY <2>1
  <2>5. QED
    BY <1>3, <2>1, <2>2, <2>3, <2>4 DEF Contains
<1>6. QED
  BY <1>4, <1>5 DEF Flow

-------------------------------------------------------------------------------
(***************************************************************************)
(* What every step does to the calls it is not about.                      *)
(***************************************************************************)

\* Types of what belongs to a call.
LEMMA OfCallType ==
  ASSUME TypeOK, NEW c \in Call
  PROVE  /\ got[c] \in Seq(RPC) /\ future[c] \in Seq(RPC)
         /\ Len(got[c]) \in Nat /\ Len(future[c]) \in Nat /\ Handed(c) \in Nat
         /\ sent[c] \in Nat /\ inbox[Caller(c)] \in Seq(RPC)
<1>1. /\ got[c] \in Seq(RPC) /\ future[c] \in Seq(RPC) /\ sent[c] \in Nat
      /\ inbox[Caller(c)] \in Seq(RPC)
  BY CallerPeer DEF TypeOK, CallTypeOK, CtrlTypeOK, PumpTypeOK
<1>2. Len(got[c]) \in Nat /\ Len(future[c]) \in Nat
  BY <1>1, SeqFacts
<1>3. Handed(c) \in Nat
  <2>1. \A a, b \in Nat : a + b \in Nat
    OBVIOUS
  <2>2. QED
    BY <1>2, <2>1, Zenon DEF Handed
<1>4. QED
  BY <1>1, <1>2, <1>3

\* A caller keeps what it has and what waits for it: its future is not
\* touched, and a handler that has answered does nothing more.
LEMMA KeepReceived ==
  ASSUME TypeOK, TypeOK', NEW c \in Call, GotOK(c), FutureOK(c),
         got'[c] = got[c], future'[c] = future[c],
         c \in closed => c \in closed',
         caller'[c] = caller[c] \/ (caller[c] # "done" /\ caller'[c] # "done"),
         sent[c] <= sent'[c],
         stage[c] = "delivered" =>
           sent'[c] = sent[c] /\ reply'[c] = reply[c] /\ stage'[c] = stage[c]
  PROVE  GotOK(c)' /\ FutureOK(c)'
<1>1. /\ Len(got[c]) \in Nat /\ sent[c] \in Nat /\ sent'[c] \in Nat
      /\ caller'[c] = "done" <=> caller[c] = "done"
  BY OfCallType DEF TypeOK, CallTypeOK
<1>2. GotOK(c)'
  BY <1>1 DEF GotOK
<1>3. FutureOK(c)'
  <2>1. CASE future[c] = <<>>
    BY <2>1 DEF FutureOK
  <2>2. CASE future[c] # <<>>
    <3>1. future[c][1] \in RPC
      <4>1. Len(future[c]) > 0 /\ Len(future[c]) \in Nat /\ future[c] \in Seq(RPC)
        BY <2>2, OfCallType, SeqFacts
      <4>2. QED
        BY <4>1, SeqFacts
    <3>2. future[c][1].n \in Nat
      BY <3>1 DEF RPC
    <3>3. QED
      BY <1>1, <2>2, <3>2 DEF FutureOK
  <2>3. QED
    BY <2>1, <2>2
<1>4. QED
  BY <1>2, <1>3

\* What is on its way to the caller of c stays in order if the step adds a
\* message that is not of its stream, takes one or cuts the queue off.
LEMMA KeepStream ==
  ASSUME TypeOK, NEW c \in Call, StreamOK(c),
         got'[c] = got[c], future'[c] = future[c], sent'[c] = sent[c],
         reply'[c] = reply[c], c \in closed => c \in closed',
         Lossless(Caller(c))' => Lossless(Caller(c)),
         LET q == inbox[Caller(c)]
             z == inbox'[Caller(c)]
         IN  \/ z = q
             \/ \E m \in RPC : /\ z = Append(q, m)
                               /\ m.call # c \/ m.type = "request"
             \/ q # <<>> /\ z = Tail(q) /\ ~Of(Head(q), "streamMsg", c)
             \/ /\ \E k \in 0 .. Len(q) : z = SubSeq(q, 1, k)
                /\ ~Lossless(Caller(c))'
  PROVE  StreamOK(c)'
<1> DEFINE q == inbox[Caller(c)]
           z == inbox'[Caller(c)]
           h == Handed(c)
           s == sent[c]
           r == reply[c]
           a == Lossless(Caller(c))
           b == Lossless(Caller(c))'
<1>1. q \in Seq(RPC) /\ h \in Nat /\ s \in Nat
  BY OfCallType
<1>2. SUFFICES ASSUME c \notin closed, Flow(q, c, h, s, r, a)
               PROVE  Flow(z, c, h, s, r, b)
  BY DEF StreamOK, Handed
<1>3. b => a
  OBVIOUS
<1> HIDE DEF q, z, h, s, r, a, b
<1>4. CASE z = q
  BY <1>2, <1>3, <1>4, FlowWeaken
<1>5. ASSUME NEW m \in RPC, z = Append(q, m), m.call # c \/ m.type = "request"
      PROVE  Flow(z, c, h, s, r, b)
  <2>1. ~Of(m, "streamMsg", c) /\ ~Of(m, "response", c)
    BY <1>5 DEF Of
  <2>2. Flow(z, c, h, s, r, a)
    BY <1>1, <1>2, <1>5, <2>1, FlowAppend
  <2>3. QED
    BY <1>3, <2>2, FlowWeaken
<1>6. CASE q # <<>> /\ z = Tail(q) /\ ~Of(Head(q), "streamMsg", c)
  <2>1. Flow(z, c, h, s, r, a)
    BY <1>1, <1>2, <1>6, FlowTail
  <2>2. QED
    BY <1>3, <2>1, FlowWeaken
<1>7. ASSUME NEW k \in 0 .. Len(q), z = SubSeq(q, 1, k), ~b
      PROVE  Flow(z, c, h, s, r, b)
  <2>1. Flow(z, c, h, s, r, FALSE)
    BY <1>1, <1>2, <1>7, FlowCut
  <2>2. QED
    BY <1>7, <2>1, FlowWeaken
<1>8. QED
  BY <1>4, <1>5, <1>6, <1>7 DEF q, z, b

\* Where a Send leaves a message: at the end of the other inbox, or nowhere,
\* and then nothing sent to that end arrives any more.
LEMMA SendArrives ==
  ASSUME TypeOK, NEW p \in Peer, NEW m \in RPC, Send(p, m),
         UNCHANGED <<linkVars, pumpVars>>
  PROVE  /\ \A r \in Peer : Lossless(r)' <=> Lossless(r)
         /\ \/ /\ inbox' = [inbox EXCEPT ![Other(p)] = Append(@, m)]
               /\ Lossless(Other(p))
            \/ inbox' = inbox /\ ~Lossless(Other(p))
<1>1. \A r \in Peer : Lossless(r)' <=> Lossless(r)
  BY DEF Lossless, Deaf, linkVars, pumpVars
<1>2. Other(Other(p)) = p
  BY DEF Other, Peer
<1>3. CASE /\ ~broken /\ ~sendClosed[p]
           /\ inbox' = IF Deaf(Other(p)) THEN inbox
                         ELSE [inbox EXCEPT ![Other(p)] = Append(@, m)]
  BY <1>1, <1>2, <1>3 DEF Lossless
<1>4. CASE SendFails(p) /\ UNCHANGED inbox
  BY <1>1, <1>2, <1>4 DEF Lossless, SendFails, Deaf, Other
<1>5. QED
  BY <1>3, <1>4 DEF Send

\* How a Send of a message that is not of the stream of c looks to its caller.
LEMMA SendKeeps ==
  ASSUME TypeOK, NEW p \in Peer, NEW m \in RPC, Send(p, m),
         UNCHANGED <<linkVars, pumpVars>>, NEW c \in Call, StreamOK(c),
         m.call # c \/ m.type = "request",
         got'[c] = got[c], future'[c] = future[c], sent'[c] = sent[c],
         reply'[c] = reply[c], UNCHANGED closed
  PROVE  StreamOK(c)'
<1>1. Caller(c) \in Peer /\ Other(p) \in Peer
  BY CallerPeer
<1>2. Lossless(Caller(c))' => Lossless(Caller(c))
  BY <1>1, SendArrives
<1>3. \/ inbox'[Caller(c)] = inbox[Caller(c)]
      \/ inbox'[Caller(c)] = Append(inbox[Caller(c)], m)
  <2>1. \/ inbox' = [inbox EXCEPT ![Other(p)] = Append(@, m)]
        \/ inbox' = inbox
    BY SendArrives
  <2>2. inbox \in [Peer -> Seq(RPC)]
    BY DEF TypeOK, PumpTypeOK
  <2>3. QED
    BY <1>1, <2>1, <2>2
<1>4. QED
  BY <1>2, <1>3, KeepStream

-------------------------------------------------------------------------------
(***************************************************************************)
(* The steps that hand something to a caller.                              *)
(***************************************************************************)

\* A future has room only when it is empty.
LEMMA FutureEmpty ==
  ASSUME TypeOK, NEW c \in Call, Len(future[c]) < FutureCap
  PROVE  future[c] = <<>> /\ Len(future[c]) = 0
<1>1. future[c] \in Seq(RPC) /\ Len(future[c]) \in Nat
  BY OfCallType
<1>2. Len(future[c]) = 0
  BY <1>1 DEF FutureCap
<1>3. QED
  BY <1>1, <1>2, SeqFacts

\* The caller takes what its future holds.
LEMMA AwaitDelivers ==
  ASSUME TypeOK, Bookkeeping, Delivery, TypeOK', NEW c \in Call, Await(c)
  PROVE  Delivery'
<1>1. /\ caller[c] = "waiting" /\ future[c] # <<>>
      /\ UNCHANGED <<closed, inbox, broken, sendClosed, ended, sent, reply, stage>>
      /\ got' = [got EXCEPT ![c] = Append(@, Head(future[c]))]
      /\ future' = [future EXCEPT ![c] = Tail(@)]
  BY DEF Await, pumpVars, linkVars, history
<1>2. \A d \in Call : Lossless(Caller(d))' <=> Lossless(Caller(d))
  BY <1>1 DEF Lossless, Deaf
<1>3. ASSUME NEW d \in Call, d # c PROVE GotOK(d)' /\ FutureOK(d)' /\ StreamOK(d)'
  <2>1. /\ got'[d] = got[d] /\ future'[d] = future[d]
        /\ caller'[d] = caller[d] /\ sent[d] <= sent'[d]
    BY <1>1, <1>3, OfCallType DEF Await, TypeOK, CallTypeOK, CtrlTypeOK
  <2>2. GotOK(d)' /\ FutureOK(d)'
    BY <1>1, <2>1, KeepReceived DEF Delivery
  <2>3. StreamOK(d)'
    BY <1>1, <1>2, <2>1, KeepStream DEF Delivery
  <2>4. QED
    BY <2>2, <2>3
<1>4. GotOK(c)' /\ FutureOK(c)' /\ StreamOK(c)'
  <2>1. PICK m \in RPC : m = Head(future[c])
    BY <1>1, OfCallType, SeqFacts
  <2>2. /\ m = future[c][1] /\ Len(future[c]) = 1 /\ Tail(future[c]) = <<>>
    <3>1. future[c] \in Seq(RPC) /\ Len(future[c]) \in Nat /\ Len(future[c]) > 0
      BY <1>1, OfCallType, SeqFacts
    <3>2. Len(future[c]) \in {0, 1}
      BY DEF Delivery, FutureOK
    <3>3. Len(future[c]) = 1
      BY <3>1, <3>2
    <3>4. m = future[c][1]
      BY <1>1, <2>1, <3>1, SeqFacts
    <3>5. Tail(future[c]) \in Seq(RPC) /\ Len(Tail(future[c])) = 0
      BY <1>1, <3>1, <3>3, SeqFacts
    <3>6. QED
      BY <3>3, <3>4, <3>5, SeqFacts
  <2>3. /\ got'[c] = Append(got[c], m) /\ future'[c] = <<>>
    BY <1>1, <2>1, <2>2 DEF TypeOK, CallTypeOK, CtrlTypeOK
  <2>4. /\ Len(got[c]) \in Nat /\ Len(got'[c]) = Len(got[c]) + 1
        /\ \A i \in 1 .. Len(got[c]) : got'[c][i] = got[c][i]
        /\ got'[c][Len(got[c]) + 1] = m
    BY <2>3, OfCallType, SeqFacts
  <2>5. /\ m.call = c
        /\ \/ /\ m.type = "streamMsg" /\ m.n = Len(got[c]) + 1
              /\ m.n <= sent[c] /\ c \in Streaming
           \/ /\ m.type = "response" /\ c \in closed
              /\ m.status = "ok" =>
                   /\ reply[c] = "ok" /\ Len(got[c]) = sent[c]
                   /\ stage[c] = "delivered"
    BY <1>1, <2>2 DEF Delivery, FutureOK
  <2>6. caller'[c] = IF m.type = "streamMsg" THEN "waiting" ELSE "done"
    BY <1>1, <2>1, <2>5 DEF Await, TypeOK, CallTypeOK
  <2>7. GotOK(c)'
    <3>1. \A i \in 1 .. Len(got'[c]) :
            \/ i \in 1 .. Len(got[c]) /\ got'[c][i] = got[c][i] /\ i # Len(got'[c])
            \/ i = Len(got'[c]) /\ got'[c][i] = m
      BY <2>4
    <3>2. \A i \in 1 .. Len(got[c]) : /\ got[c][i].call = c
                                      /\ got[c][i].type = "streamMsg"
                                      /\ got[c][i].n = i
      BY <1>1 DEF Delivery, GotOK
    <3>3. \A i \in 1 .. Len(got'[c]) :
            /\ got'[c][i].call = c
            /\ got'[c][i].type = "streamMsg" => got'[c][i].n = i
            /\ got'[c][i].type # "streamMsg"
                 <=> caller'[c] = "done" /\ i = Len(got'[c])
      BY <2>4, <2>5, <2>6, <3>1, <3>2
    <3>4. caller'[c] = "done" =>
            /\ Len(got'[c]) > 0 /\ future'[c] = <<>> /\ c \in closed'
            /\ got'[c][Len(got'[c])].status = "ok" =>
                 /\ reply'[c] = "ok" /\ Len(got'[c]) = sent'[c] + 1
                 /\ stage'[c] = "delivered"
      BY <1>1, <2>3, <2>4, <2>5, <2>6
    <3>5. QED
      BY <3>3, <3>4 DEF GotOK
  <2>8. FutureOK(c)'
    BY <2>3 DEF FutureOK
  <2>9. StreamOK(c)'
    <3>1. Handed(c)' = Handed(c)
      BY <2>2, <2>3, <2>4 DEF Handed
    <3> DEFINE q == inbox[Caller(c)]
               h == Handed(c)
               s == sent[c]
               r == reply[c]
               a == Lossless(Caller(c))
               b == Lossless(Caller(c))'
    <3>2. SUFFICES ASSUME Flow(q, c, h, s, r, a) PROVE Flow(q, c, h, s, r, b)
      BY <1>1, <3>1 DEF Delivery, StreamOK
    <3>3. b => a
      BY <1>2
    <3> HIDE DEF q, h, s, r, a, b
    <3>4. QED
      BY <3>2, <3>3, FlowWeaken
  <2>10. QED
    BY <2>7, <2>8, <2>9
<1>5. QED
  BY <1>3, <1>4 DEF Delivery

\* The pending entry of a message is that of its call.
LEMMA EntryOf ==
  ASSUME TypeOK, Bookkeeping, NEW p \in Peer, NEW m \in RPC, m.call \in Call,
         InFlight(p, m), Caller(m.call) = p, NEW e \in Lookup(p, m.tag)
  PROVE  e.call = m.call /\ e.call \notin closed
  BY Elements DEF Lookup, InFlight, Bookkeeping, PendingOpen, TagsUnique, Tagged

\* A step of Run or of the sweep hands x to the caller of c.
LEMMA HandOver ==
  ASSUME TypeOK, Delivery, NEW c \in Call, NEW x \in RPC, c \notin closed,
         Len(future[c]) < FutureCap,
         future' = [future EXCEPT ![c] = Append(@, x)],
         UNCHANGED <<got, caller, sent, reply>>,
         x.call = c,
         \/ /\ x.type = "streamMsg" /\ x.n = Len(got[c]) + 1
            /\ x.n <= sent[c] /\ c \in Streaming
         \/ /\ x.type = "response" /\ c \in closed'
            /\ x.status = "ok" =>
                 /\ reply[c] = "ok" /\ Len(got[c]) = sent[c]
                 /\ stage'[c] = "delivered"
  PROVE  GotOK(c)' /\ FutureOK(c)'
<1>1. future[c] = <<>> /\ Len(future[c]) = 0
  BY FutureEmpty
<1>2. /\ future'[c] = Append(future[c], x) /\ future[c] \in Seq(RPC)
  BY OfCallType DEF TypeOK, CtrlTypeOK
<1>3. /\ future'[c] \in Seq(RPC) /\ Len(future'[c]) = 1 /\ future'[c][1] = x
  BY <1>1, <1>2, SeqFacts
<1>4. GotOK(c)'
  BY DEF Delivery, GotOK
<1>5. FutureOK(c)'
  <2>1. got'[c] = got[c] /\ sent'[c] = sent[c] /\ reply'[c] = reply[c]
    OBVIOUS
  <2>2. Len(future'[c]) \in {0, 1}
    BY <1>3
  <2>3. CASE x.type = "streamMsg"
    BY <1>3, <2>1, <2>2, <2>3 DEF FutureOK
  <2>4. CASE x.type = "response"
    BY <1>3, <2>1, <2>2, <2>4 DEF FutureOK
  <2>5. QED
    BY <2>3, <2>4
<1>6. QED
  BY <1>4, <1>5

\* Run hands the next message of a stream to its caller.
LEMMA RunStreamMsgDelivers ==
  ASSUME TypeOK, Bookkeeping, Delivery, TypeOK', NEW p \in Peer, RunStreamMsg(p)
  PROVE  Delivery'
<1>1. PICK m \in RPC : m = Head(inbox[p]) /\ m.call \in Call /\ InFlight(p, m)
  BY HeadInFlight DEF RunStreamMsg, Receiving
<1>2. PICK e \in Lookup(p, m.tag) :
        CanDeliver(e) /\ future' = [future EXCEPT ![e.call] = Append(@, m)]
  BY <1>1 DEF RunStreamMsg
<1>3. /\ inbox[p] # <<>> /\ m.type = "streamMsg" /\ Caller(m.call) = p
      /\ inbox' = [inbox EXCEPT ![p] = Tail(@)]
      /\ UNCHANGED <<closed, broken, sendClosed, ended, sent, reply, stage, got, caller>>
  BY <1>1, HeadInFlight
  DEF RunStreamMsg, Receiving, Take, InFlight, linkVars, history, callVars
<1> DEFINE c == m.call
<1>4. e.call = c /\ c \notin closed /\ Len(future[c]) < FutureCap /\ c \in Call
  BY <1>1, <1>2, <1>3, EntryOf DEF CanDeliver
<1> HIDE DEF c
<1>5. \A d \in Call : Lossless(Caller(d))' <=> Lossless(Caller(d))
  BY <1>3 DEF Lossless, Deaf
<1>6. \A d \in Call : inbox'[Caller(d)] = IF Caller(d) = p THEN Tail(inbox[p])
                                                           ELSE inbox[Caller(d)]
  BY <1>3, CallerPeer DEF TypeOK, PumpTypeOK
<1>7. ASSUME NEW d \in Call, d # c PROVE GotOK(d)' /\ FutureOK(d)' /\ StreamOK(d)'
  <2>1. got'[d] = got[d] /\ future'[d] = future[d] /\ sent[d] <= sent'[d]
    BY <1>2, <1>3, <1>4, <1>7, OfCallType DEF TypeOK, CtrlTypeOK
  <2>2. GotOK(d)' /\ FutureOK(d)'
    BY <1>3, <2>1, KeepReceived DEF Delivery
  <2>3. ~Of(m, "streamMsg", d)
    BY <1>7 DEF Of, c
  <2>4. StreamOK(d)'
    BY <1>1, <1>3, <1>5, <1>6, <2>1, <2>3, KeepStream DEF Delivery
  <2>5. QED
    BY <2>2, <2>4
<1>8. GotOK(c)' /\ FutureOK(c)' /\ StreamOK(c)'
  <2> DEFINE q == inbox[p]
             h == Handed(c)
             s == sent[c]
             r == reply[c]
             a == Lossless(Caller(c))
             b == Lossless(Caller(c))'
  <2>1. q \in Seq(RPC) /\ q # <<>> /\ h \in Nat /\ s \in Nat
    BY <1>3, <1>4, OfCallType, Elements
  <2>2. Flow(q, c, h, s, r, a)
    BY <1>3, <1>4 DEF Delivery, StreamOK, c
  <2>3. b => a
    BY <1>4, <1>5
  <2>4. /\ future[c] = <<>> /\ Len(future[c]) = 0
    BY <1>4, FutureEmpty
  <2>5. Handed(c) = Len(got[c])
    BY <1>4, <2>4, OfCallType DEF Handed
  <2>6. Handed(c)' = h + 1
    <3>1. future'[c] = Append(future[c], m)
      BY <1>2, <1>4 DEF TypeOK, CtrlTypeOK
    <3>2. Len(future'[c]) = 1
      BY <1>4, <2>4, <3>1, OfCallType, SeqFacts
    <3>3. QED
      BY <1>3, <2>5, <3>2 DEF Handed
  <2>7. inbox'[Caller(c)] = Tail(q) /\ Head(q) = m /\ Of(m, "streamMsg", c)
    BY <1>1, <1>3, <1>4, <1>6 DEF c, Of
  <2> HIDE DEF q, h, s, r, a, b
  <2>8. m.n = h + 1 /\ h + 1 <= s /\ c \in Streaming /\ Flow(Tail(q), c, h + 1, s, r, a)
    BY <2>1, <2>2, <2>7, FlowTail
  <2>9. Flow(Tail(q), c, h + 1, s, r, b)
    BY <2>3, <2>8, FlowWeaken
  <2>10. StreamOK(c)'
    BY <1>3, <2>6, <2>7, <2>9 DEF StreamOK, s, r, b
  <2>11. m.n = Len(got[c]) + 1 /\ m.n <= sent[c]
    BY <2>5, <2>8 DEF h, s
  <2>12. GotOK(c)' /\ FutureOK(c)'
    BY <1>1, <1>2, <1>3, <1>4, <2>8, <2>11, HandOver DEF c
  <2>13. QED
    BY <2>10, <2>12
<1>9. QED
  BY <1>7, <1>8 DEF Delivery

\* Run hands the response to its caller, after all of the stream.
LEMMA RunResponseDelivers ==
  ASSUME TypeOK, Bookkeeping, Delivery, TypeOK', NEW p \in Peer, RunResponse(p)
  PROVE  Delivery'
<1>1. PICK m \in RPC : m = Head(inbox[p]) /\ m.call \in Call /\ InFlight(p, m)
  BY HeadInFlight DEF RunResponse, Receiving
<1>2. PICK e \in Lookup(p, m.tag) :
        /\ CanDeliver(e)
        /\ future' = [future EXCEPT ![e.call] = Append(@, m)]
        /\ closed' = closed \cup {e.call}
  BY <1>1 DEF RunResponse
<1>3. /\ inbox[p] # <<>> /\ m.type = "response" /\ Caller(m.call) = p
      /\ stage[m.call] = "replied"
      /\ inbox' = [inbox EXCEPT ![p] = Tail(@)]
      /\ stage' = [stage EXCEPT ![m.call] = "delivered"]
      /\ UNCHANGED <<broken, sendClosed, ended, sent, reply, got, caller>>
  BY <1>1, HeadInFlight
  DEF RunResponse, Receiving, Take, InFlight, linkVars, history, callVars
<1> DEFINE c == m.call
<1>4. e.call = c /\ c \notin closed /\ Len(future[c]) < FutureCap /\ c \in Call
  BY <1>1, <1>2, <1>3, EntryOf DEF CanDeliver
<1> HIDE DEF c
<1>5. \A d \in Call : Lossless(Caller(d))' <=> Lossless(Caller(d))
  BY <1>3 DEF Lossless, Deaf
<1>6. \A d \in Call : inbox'[Caller(d)] = IF Caller(d) = p THEN Tail(inbox[p])
                                                           ELSE inbox[Caller(d)]
  BY <1>3, CallerPeer DEF TypeOK, PumpTypeOK
<1>7. ASSUME NEW d \in Call, d # c PROVE GotOK(d)' /\ FutureOK(d)' /\ StreamOK(d)'
  <2>1. /\ got'[d] = got[d] /\ future'[d] = future[d] /\ sent[d] <= sent'[d]
        /\ stage'[d] = stage[d] /\ (d \in closed => d \in closed')
    BY <1>2, <1>3, <1>4, <1>7, OfCallType DEF TypeOK, CtrlTypeOK, CallTypeOK, c
  <2>2. GotOK(d)' /\ FutureOK(d)'
    BY <1>3, <2>1, KeepReceived DEF Delivery
  <2>3. ~Of(m, "streamMsg", d)
    BY <1>7 DEF Of, c
  <2>4. StreamOK(d)'
    BY <1>1, <1>3, <1>5, <1>6, <2>1, <2>3, KeepStream DEF Delivery
  <2>5. QED
    BY <2>2, <2>4
<1>8. GotOK(c)' /\ FutureOK(c)' /\ StreamOK(c)'
  <2> DEFINE q == inbox[p]
             h == Handed(c)
             s == sent[c]
             r == reply[c]
             a == Lossless(Caller(c))
  <2>1. q \in Seq(RPC) /\ q # <<>> /\ h \in Nat /\ s \in Nat
    BY <1>3, <1>4, OfCallType, Elements
  <2>2. Flow(q, c, h, s, r, a)
    BY <1>3, <1>4 DEF Delivery, StreamOK, c
  <2>3. /\ future[c] = <<>> /\ Len(future[c]) = 0
    BY <1>4, FutureEmpty
  <2>4. Handed(c) = Len(got[c])
    BY <1>4, <2>3, OfCallType DEF Handed
  <2>5. Head(q) = m /\ Of(m, "response", c)
    BY <1>1, <1>3 DEF c, Of
  <2> HIDE DEF q, h, s, r, a
  <2>6. m.status = r /\ h = s
    BY <2>1, <2>2, <2>5, FlowTail
  <2>7. m.status = reply[c] /\ Len(got[c]) = sent[c]
    BY <2>4, <2>6 DEF h, s, r
  <2>8. c \in closed' /\ stage'[c] = "delivered"
    BY <1>2, <1>3, <1>4 DEF TypeOK, CallTypeOK, c
  <2>9. StreamOK(c)'
    BY <2>8 DEF StreamOK
  <2>10. GotOK(c)' /\ FutureOK(c)'
    BY <1>1, <1>2, <1>3, <1>4, <2>7, <2>8, HandOver DEF c
  <2>11. QED
    BY <2>9, <2>10
<1>9. QED
  BY <1>7, <1>8 DEF Delivery

\* The sweep tells a caller that its call was cancelled, never success.
LEMMA SweepDelivers ==
  ASSUME TypeOK, Bookkeeping, Delivery, TypeOK', NEW p \in Peer,
         NEW e \in pendingRPCs[p], Sweep(p, e)
  PROVE  Delivery'
<1> DEFINE c == e.call
           x == ResponseMsg(e.tag, e.call, CancelStatus(streamErr[p]))
<1>1. c \in Call /\ x \in RPC
  BY MsgType DEF TypeOK, CtrlTypeOK, Pending, CancelStatus, Status
<1>2. x.type = "response" /\ x.call = c /\ x.status # "ok"
  BY DEF ResponseMsg, CancelStatus
<1>3. /\ Len(future[c]) < FutureCap /\ c \notin closed
      /\ future' = [future EXCEPT ![c] = Append(@, x)]
      /\ closed' = closed \cup {c}
      /\ UNCHANGED <<inbox, broken, sendClosed, ended, sent, reply, got, caller, stage>>
  BY DEF Sweep, CanDeliver, pumpVars, linkVars, history, callVars
<1> HIDE DEF c, x
<1>4. \A d \in Call : Lossless(Caller(d))' <=> Lossless(Caller(d))
  BY <1>3 DEF Lossless, Deaf
<1>5. ASSUME NEW d \in Call, d # c PROVE GotOK(d)' /\ FutureOK(d)' /\ StreamOK(d)'
  <2>1. /\ got'[d] = got[d] /\ future'[d] = future[d] /\ sent[d] <= sent'[d]
        /\ (d \in closed => d \in closed')
    BY <1>3, <1>5, OfCallType DEF TypeOK, CtrlTypeOK
  <2>2. GotOK(d)' /\ FutureOK(d)'
    BY <1>3, <2>1, KeepReceived DEF Delivery
  <2>3. StreamOK(d)'
    BY <1>3, <1>4, <2>1, KeepStream DEF Delivery
  <2>4. QED
    BY <2>2, <2>3
<1>6. GotOK(c)' /\ FutureOK(c)' /\ StreamOK(c)'
  <2>1. c \in closed'
    BY <1>3
  <2>2. StreamOK(c)'
    BY <2>1 DEF StreamOK
  <2>3. GotOK(c)' /\ FutureOK(c)'
    BY <1>1, <1>2, <1>3, <2>1, HandOver
  <2>4. QED
    BY <2>2, <2>3
<1>7. QED
  BY <1>5, <1>6 DEF Delivery

-------------------------------------------------------------------------------
(***************************************************************************)
(* The steps that hand nothing to a caller.                                *)
(***************************************************************************)

\* Nobody receives anything: what counts is what is on its way.
LEMMA Quiet ==
  ASSUME TypeOK, TypeOK', Delivery, UNCHANGED <<got, future, closed>>,
         \A d \in Call : \/ caller'[d] = caller[d]
                         \/ caller[d] # "done" /\ caller'[d] # "done",
         \A d \in Call : sent[d] <= sent'[d],
         \A d \in Call : stage[d] = "delivered" =>
           sent'[d] = sent[d] /\ reply'[d] = reply[d] /\ stage'[d] = stage[d],
         \A d \in Call : StreamOK(d)'
  PROVE  Delivery'
<1>1. ASSUME NEW d \in Call PROVE GotOK(d)' /\ FutureOK(d)'
  <2>1. /\ got'[d] = got[d] /\ future'[d] = future[d]
        /\ (d \in closed => d \in closed')
    OBVIOUS
  <2>2. GotOK(d) /\ FutureOK(d)
    BY DEF Delivery
  <2>3. QED
    BY <2>1, <2>2, KeepReceived
<1>2. QED
  BY <1>1 DEF Delivery

\* Nothing moves on the stream, though it may break or end.
LEMMA Still ==
  ASSUME TypeOK, Delivery, UNCHANGED <<got, future, closed, sent, reply, inbox>>,
         \A p \in Peer : Lossless(p)' => Lossless(p)
  PROVE  /\ \A d \in Call : StreamOK(d)'
         /\ \A d \in Call : sent[d] <= sent'[d]
<1>1. ASSUME NEW d \in Call PROVE StreamOK(d)'
  <2>1. StreamOK(d) /\ (Lossless(Caller(d))' => Lossless(Caller(d)))
    BY CallerPeer DEF Delivery
  <2>2. QED
    BY <2>1, KeepStream
<1>2. \A d \in Call : sent[d] <= sent'[d]
  BY OfCallType
<1>3. QED
  BY <1>1, <1>2

\* The steps of callers, pools and Serve that send and receive nothing.
LEMMA StillDelivers ==
  ASSUME TypeOK, TypeOK', Delivery, UNCHANGED <<got, future, closed, sent, reply, inbox>>,
         \A p \in Peer : Lossless(p)' => Lossless(p),
         \A d \in Call : \/ caller'[d] = caller[d]
                         \/ caller[d] # "done" /\ caller'[d] # "done",
         \A d \in Call : stage[d] = "delivered" => stage'[d] = stage[d]
  PROVE  Delivery'
  BY Still, Quiet

\* A request leaves the inbox for the pool.
LEMMA RunRequestDelivers ==
  ASSUME TypeOK, Bookkeeping, Delivery, TypeOK', NEW p \in Peer, RunRequest(p)
  PROVE  Delivery'
<1>1. PICK m \in RPC : m = Head(inbox[p]) /\ m.call \in Call /\ InFlight(p, m)
  BY HeadInFlight DEF RunRequest, Receiving
<1>2. /\ inbox[p] # <<>> /\ m.type = "request" /\ stage[m.call] = "sent"
      /\ inbox' = [inbox EXCEPT ![p] = Tail(@)]
      /\ stage' = [stage EXCEPT ![m.call] = "queued"]
      /\ UNCHANGED <<got, future, closed, caller, sent, reply, broken, sendClosed, ended>>
  BY <1>1, HeadInFlight
  DEF RunRequest, Receiving, Take, InFlight, futureVars, linkVars, callVars
<1>3. \A d \in Call : stage[d] = "delivered" => stage'[d] = stage[d]
  BY <1>1, <1>2 DEF TypeOK, CallTypeOK
<1>4. ASSUME NEW d \in Call PROVE StreamOK(d)' /\ sent[d] <= sent'[d]
  <2>1. StreamOK(d) /\ (Lossless(Caller(d))' => Lossless(Caller(d)))
    BY <1>2 DEF Delivery, Lossless, Deaf
  <2>2. inbox'[Caller(d)] = IF Caller(d) = p THEN Tail(inbox[p])
                                             ELSE inbox[Caller(d)]
    BY <1>2, CallerPeer DEF TypeOK, PumpTypeOK
  <2>3. ~Of(Head(inbox[p]), "streamMsg", d)
    BY <1>1, <1>2 DEF Of
  <2>4. StreamOK(d)'
    BY <1>2, <2>1, <2>2, <2>3, KeepStream
  <2>5. QED
    BY <1>2, <2>4, OfCallType
<1>5. QED
  BY <1>2, <1>3, <1>4, Quiet

\* The error payload of the pump: from here on nothing more arrives.
LEMMA PumpEndDelivers ==
  ASSUME TypeOK, Bookkeeping, Delivery, TypeOK', NEW p \in Peer, PumpEnd(p)
  PROVE  Delivery'
<1>1. /\ inbox' = [inbox EXCEPT ![p] = SubSeq(@, 1, pumped[p])]
      /\ UNCHANGED <<got, future, closed, caller, sent, reply, stage, broken, sendClosed>>
      /\ \E err \in RecvErrors(p) : ended' = [ended EXCEPT ![p] = err]
  BY DEF PumpEnd, futureVars, linkVars, callVars, history
<1>2. /\ ended'[p] # "none"
      /\ \A r \in Peer : r # p => ended'[r] = ended[r]
  BY <1>1 DEF RecvErrors, TypeOK, PumpTypeOK
<1>3. ASSUME NEW d \in Call PROVE StreamOK(d)' /\ sent[d] <= sent'[d]
  <2>1. /\ StreamOK(d) /\ Caller(d) \in Peer
        /\ Caller(d) = p => ~Lossless(Caller(d))'
        /\ Caller(d) # p => (Lossless(Caller(d))' => Lossless(Caller(d)))
    BY <1>1, <1>2, CallerPeer DEF Delivery, Lossless, Deaf
  <2>2. inbox'[Caller(d)] = IF Caller(d) = p THEN SubSeq(inbox[p], 1, pumped[p])
                                             ELSE inbox[Caller(d)]
    BY <1>1, CallerPeer DEF TypeOK, PumpTypeOK
  <2>3. pumped[p] \in 0 .. Len(inbox[p])
    BY Elements, SeqFacts DEF TypeOK, PumpTypeOK
  <2>4. StreamOK(d)'
    BY <1>1, <2>1, <2>2, <2>3, KeepStream
  <2>5. QED
    BY <1>1, <2>4, OfCallType
<1>4. QED
  BY <1>1, <1>3, Quiet

\* A caller sends its request.
LEMMA RequestSendDelivers ==
  ASSUME TypeOK, Bookkeeping, Delivery, TypeOK', NEW c \in Call, RequestSend(c)
  PROVE  Delivery'
<1>1. PICK m \in RPC : m = RequestMsg(tag[c], c)
  BY MsgType DEF Status, TypeOK, CallTypeOK
<1>2. /\ m.type = "request" /\ Send(Caller(c), m) /\ caller[c] = "stored"
      /\ caller' = [caller EXCEPT ![c] = "waiting"]
      /\ stage' = [stage EXCEPT ![c] = "sent"] /\ stage[c] = "none"
      /\ UNCHANGED <<got, future, closed, sent, reply, linkVars, pumpVars>>
  BY <1>1 DEF RequestSend, RequestMsg, futureVars, Bookkeeping, Unsent
<1>3. \A d \in Call : /\ \/ caller'[d] = caller[d]
                         \/ caller[d] # "done" /\ caller'[d] # "done"
                      /\ stage[d] = "delivered" => stage'[d] = stage[d]
  BY <1>2 DEF TypeOK, CallTypeOK
<1>4. ASSUME NEW d \in Call PROVE StreamOK(d)' /\ sent[d] <= sent'[d]
  <2>1. StreamOK(d) /\ Caller(c) \in Peer
    BY CallerPeer DEF Delivery
  <2>2. StreamOK(d)'
    BY <1>2, <2>1, SendKeeps
  <2>3. QED
    BY <1>2, <2>2, OfCallType
<1>5. QED
  BY <1>2, <1>3, <1>4, Quiet

\* No response of a call is in flight while its handler runs.
LEMMA NoResponseYet ==
  ASSUME TypeOK, Bookkeeping, NEW p \in Peer, NEW m \in active[p]
  PROVE  /\ stage[m.call] = "running" /\ Caller(m.call) = Other(p)
         /\ \A i \in 1 .. Len(inbox[Other(p)]) :
              ~Of(inbox[Other(p)][i], "response", m.call)
<1>1. IsTask(p, m, "running")
  BY DEF Bookkeeping, PoolInv
<1>2. stage[m.call] = "running" /\ Caller(m.call) = Other(p)
  BY <1>1 DEF IsTask
<1>3. QED
  BY <1>2, CallerPeer DEF Bookkeeping, WireInv, InFlight, Of

\* A handler sends the next message of its stream: it joins the others, or it
\* is lost and so is everything after it.
LEMMA StreamReplyDelivers ==
  ASSUME TypeOK, Bookkeeping, Delivery, TypeOK', NEW p \in Peer,
         NEW m \in active[p], StreamReply(p, m)
  PROVE  Delivery'
<1> DEFINE c == m.call
           y == Other(p)
<1>1. /\ c \in Call /\ stage[c] = "running" /\ Caller(c) = y /\ y \in Peer
      /\ \A i \in 1 .. Len(inbox[y]) : ~Of(inbox[y][i], "response", c)
  BY NoResponseYet, TaskType, CallerPeer
<1>2. sent[c] \in Nat /\ sent[c] + 1 \in Nat
  BY <1>1, OfCallType
<1>3. PICK x \in RPC : x = ServerStreamMsg(m.tag, c, sent[c] + 1)
  BY <1>2, TaskType, MsgType DEF Status
<1>4. /\ Send(p, x) /\ Of(x, "streamMsg", c) /\ x.n = sent[c] + 1 /\ x.call = c
      /\ c \in Streaming
      /\ sent' = [sent EXCEPT ![c] = @ + 1]
      /\ UNCHANGED <<got, future, closed, caller, stage, reply, linkVars, pumpVars>>
  BY <1>3 DEF StreamReply, ServerStreamMsg, Of, futureVars, callVars
<1> HIDE DEF c, y
<1>5. sent'[c] = sent[c] + 1 /\ \A d \in Call : d # c => sent'[d] = sent[d]
  BY <1>1, <1>4 DEF TypeOK, CallTypeOK
<1>6. \A d \in Call : sent[d] <= sent'[d]
  BY <1>1, <1>2, <1>5, OfCallType
<1>7. ASSUME NEW d \in Call, d # c PROVE StreamOK(d)'
  <2>1. StreamOK(d) /\ x.call # d /\ sent'[d] = sent[d]
    BY <1>4, <1>5, <1>7 DEF Delivery
  <2>2. QED
    BY <1>4, <2>1, SendKeeps
<1>8. StreamOK(c)'
  <2> DEFINE q == inbox[y]
             h == Handed(c)
             s == sent[c]
             r == reply[c]
             a == Lossless(y)
             b == Lossless(y)'
  <2>1. q \in Seq(RPC) /\ h \in Nat /\ s \in Nat
    BY <1>1, OfCallType, Elements
  <2>2. \/ inbox'[y] = Append(q, x) /\ a
        \/ inbox'[y] = q /\ ~a
    <3>1. \/ /\ inbox' = [inbox EXCEPT ![y] = Append(@, x)]
             /\ Lossless(y)
          \/ inbox' = inbox /\ ~Lossless(y)
      BY <1>4, SendArrives DEF y
    <3>2. QED
      BY <1>1, <3>1 DEF TypeOK, PumpTypeOK
  <2>3. b <=> a
    BY <1>1, <1>4, SendArrives
  <2>4. SUFFICES ASSUME Flow(q, c, h, s, r, a)
                 PROVE  Flow(inbox'[y], c, h, s + 1, r, b)
    BY <1>1, <1>4, <1>5 DEF Delivery, StreamOK, Handed
  <2>5. \A i \in 1 .. Len(q) : ~Of(q[i], "response", c)
    BY <1>1
  <2>6. x.n = s + 1
    BY <1>4
  <2> HIDE DEF q, h, s, r, a, b
  <2>7. CASE inbox'[y] = Append(q, x) /\ a
    <3>1. Flow(q, c, h, s, r, TRUE)
      BY <2>4, <2>7, FlowWeaken
    <3>2. Flow(Append(q, x), c, h, s + 1, r, TRUE)
      BY <1>4, <2>1, <2>5, <2>6, <3>1, FlowEmit
    <3>3. QED
      BY <2>7, <3>2, FlowWeaken
  <2>8. CASE inbox'[y] = q /\ ~a
    <3>1. Flow(q, c, h, s + 1, r, FALSE)
      BY <2>1, <2>4, <2>5, FlowLost
    <3>2. QED
      BY <2>3, <2>8, <3>1, FlowWeaken
  <2>9. QED
    BY <2>2, <2>7, <2>8
<1>9. \A d \in Call : stage[d] = "delivered" => sent'[d] = sent[d]
  BY <1>1, <1>5
<1>10. QED
  BY <1>4, <1>6, <1>7, <1>8, <1>9, Quiet

\* A handler answers: the response follows all of its stream, or it is lost.
LEMMA AnswerDelivers ==
  ASSUME TypeOK, Bookkeeping, Delivery, TypeOK', NEW p \in Peer,
         NEW m \in active[p], NEW st \in Status, Answer(p, m, st)
  PROVE  Delivery'
<1> DEFINE c == m.call
           y == Other(p)
<1>1. /\ c \in Call /\ stage[c] = "running" /\ Caller(c) = y /\ y \in Peer
      /\ \A i \in 1 .. Len(inbox[y]) : ~Of(inbox[y][i], "response", c)
  BY NoResponseYet, TaskType, CallerPeer
<1>2. PICK x \in RPC : x = ResponseMsg(m.tag, c, st)
  BY TaskType, MsgType
<1>3. /\ Send(p, x) /\ Of(x, "response", c) /\ x.status = st /\ x.call = c
      /\ reply' = [reply EXCEPT ![c] = st]
      /\ stage' = [stage EXCEPT ![c] = "replied"]
      /\ UNCHANGED <<got, future, closed, caller, sent, linkVars, pumpVars>>
  BY <1>2 DEF Answer, ResponseMsg, Of, futureVars, callVars
<1> HIDE DEF c, y
<1>4. /\ reply'[c] = st
      /\ \A d \in Call : d # c => reply'[d] = reply[d] /\ stage'[d] = stage[d]
  BY <1>1, <1>3 DEF TypeOK, CallTypeOK
<1>5. \A d \in Call : sent[d] <= sent'[d]
  BY <1>3, OfCallType
<1>6. ASSUME NEW d \in Call, d # c PROVE StreamOK(d)'
  <2>1. StreamOK(d) /\ x.call # d /\ reply'[d] = reply[d]
    BY <1>3, <1>4, <1>6 DEF Delivery
  <2>2. QED
    BY <1>3, <2>1, SendKeeps
<1>7. StreamOK(c)'
  <2> DEFINE q == inbox[y]
             h == Handed(c)
             s == sent[c]
             r == reply[c]
             a == Lossless(y)
             b == Lossless(y)'
  <2>1. q \in Seq(RPC) /\ h \in Nat /\ s \in Nat
    BY <1>1, OfCallType, Elements
  <2>2. \/ inbox'[y] = Append(q, x) /\ a
        \/ inbox'[y] = q /\ ~a
    <3>1. \/ /\ inbox' = [inbox EXCEPT ![y] = Append(@, x)]
             /\ Lossless(y)
          \/ inbox' = inbox /\ ~Lossless(y)
      BY <1>3, SendArrives DEF y
    <3>2. QED
      BY <1>1, <3>1 DEF TypeOK, PumpTypeOK
  <2>3. b <=> a
    BY <1>1, <1>3, SendArrives
  <2>4. SUFFICES ASSUME Flow(q, c, h, s, r, a)
                 PROVE  Flow(inbox'[y], c, h, s, st, b)
    BY <1>1, <1>3, <1>4 DEF Delivery, StreamOK, Handed
  <2>5. \A i \in 1 .. Len(q) : ~Of(q[i], "response", c)
    BY <1>1
  <2> HIDE DEF q, h, s, r, a, b
  <2>6. Flow(q, c, h, s, st, a)
    BY <2>1, <2>4, <2>5, FlowLost
  <2>7. CASE inbox'[y] = Append(q, x) /\ a
    <3>1. Contains(q, Len(q), c, h + 1, s)
      BY <2>6, <2>7 DEF Flow
    <3>2. ~Of(x, "streamMsg", c)
      BY <1>3 DEF Of
    <3>3. Flow(Append(q, x), c, h, s, st, a)
      BY <1>3, <2>1, <2>6, <3>1, <3>2, FlowAppend
    <3>4. QED
      BY <2>3, <2>7, <3>3, FlowWeaken
  <2>8. CASE inbox'[y] = q /\ ~a
    BY <2>3, <2>6, <2>8, FlowWeaken
  <2>9. QED
    BY <2>2, <2>7, <2>8
<1>8. \A d \in Call : stage[d] = "delivered" =>
        sent'[d] = sent[d] /\ reply'[d] = reply[d] /\ stage'[d] = stage[d]
  BY <1>1, <1>3, <1>4
<1>9. QED
  BY <1>3, <1>5, <1>6, <1>7, <1>8, Quiet

-------------------------------------------------------------------------------
\* Nothing is on its way at first.
LEMMA InitDelivery == Init => Delivery
<1> SUFFICES ASSUME Init, NEW c \in Call
             PROVE  GotOK(c) /\ FutureOK(c) /\ StreamOK(c)
  BY DEF Delivery
<1>1. /\ got[c] = <<>> /\ future[c] = <<>> /\ caller[c] = "idle" /\ sent[c] = 0
      /\ inbox[Caller(c)] = <<>>
  BY CallerPeer DEF Init
<1>2. GotOK(c) /\ FutureOK(c)
  BY <1>1 DEF GotOK, FutureOK
<1>3. StreamOK(c)
  <2>1. Handed(c) = 0
    BY <1>1 DEF Handed
  <2>2. QED
    BY <1>1, <2>1 DEF StreamOK, Flow, Contains
<1>4. QED
  BY <1>2, <1>3

\* Delivery is inductive, relative to TypeOK and Bookkeeping.
LEMMA NextDelivery ==
  ASSUME TypeOK, Bookkeeping, Delivery, TypeOK', [Next]_vars
  PROVE  Delivery'
<1> USE DEF ctrlVars, futureVars, runVars, pumpVars, kickVars, poolVars,
            closeVars, linkVars, callVars, history
<1>1. CASE UNCHANGED vars
  BY <1>1, StillDelivers DEF vars, Lossless, Deaf
<1>2. ASSUME NEW c \in Call, RequestStore(c) \/ CtxDone(c) PROVE Delivery'
  <2>1. /\ UNCHANGED <<got, future, closed, sent, reply, inbox, stage>>
        /\ UNCHANGED <<broken, sendClosed, ended>>
        /\ caller[c] # "done"
        /\ \/ caller' = [caller EXCEPT ![c] = "stored"]
           \/ caller' = [caller EXCEPT ![c] = "cancelled"]
    BY <1>2 DEF RequestStore, CtxDone
  <2>2. \A d \in Call : \/ caller'[d] = caller[d]
                        \/ caller[d] # "done" /\ caller'[d] # "done"
    BY <2>1 DEF TypeOK, CallTypeOK
  <2>3. QED
    BY <2>1, <2>2, StillDelivers DEF Lossless, Deaf
<1>3. ASSUME NEW p \in Peer,
             \/ PumpRecv(p) \/ RunEnd(p) \/ RunKick(p) \/ SweepDone(p)
             \/ StopAndWait(p) \/ PoolCancel(p) \/ CloseOrRecvDone(p)
      PROVE  Delivery'
  <2>1. /\ UNCHANGED <<got, future, closed, sent, reply, inbox, stage, caller>>
        /\ UNCHANGED <<broken, sendClosed, ended>>
    BY <1>3 DEF PumpRecv, RunEnd, RunKick, SweepDone, StopAndWait, PoolCancel,
                CloseOrRecvDone
  <2>2. QED
    BY <2>1, StillDelivers DEF Lossless, Deaf
<1>4. ASSUME NEW p \in Peer, NEW m, GiveUp(p, m) \/ DetachedEnds(p, m)
      PROVE  Delivery'
  <2>1. /\ UNCHANGED <<got, future, closed, sent, reply, inbox, stage, caller>>
        /\ UNCHANGED <<broken, sendClosed, ended>>
    BY <1>4 DEF GiveUp, DetachedEnds
  <2>2. QED
    BY <2>1, StillDelivers DEF Lossless, Deaf
<1>5. ASSUME NEW p \in Peer, WorkerStart(p) PROVE Delivery'
  <2>1. /\ queue[p] # <<>> /\ stage' = [stage EXCEPT ![Head(queue[p]).call] = "running"]
        /\ UNCHANGED <<got, future, closed, sent, reply, inbox, caller>>
        /\ UNCHANGED <<broken, sendClosed, ended>>
    BY <1>5 DEF WorkerStart
  <2>2. Head(queue[p]) = queue[p][1] /\ 1 \in 1 .. Len(queue[p])
    BY <2>1, Elements, SeqFacts
  <2>3. stage[Head(queue[p]).call] = "queued"
    BY <2>2 DEF Bookkeeping, PoolInv, IsTask
  <2>4. \A d \in Call : stage[d] = "delivered" => stage'[d] = stage[d]
    BY <2>1, <2>3 DEF TypeOK, CallTypeOK
  <2>5. QED
    BY <2>1, <2>4, StillDelivers DEF Lossless, Deaf
<1>6. ASSUME (\E p \in Peer : CloseOrRecv(p)) \/ Break \/ HandlerReturn
      PROVE  Delivery'
  <2>1. /\ UNCHANGED <<got, future, closed, sent, reply, inbox, stage, caller, ended>>
        /\ broken => broken'
        /\ \A r \in Peer : sendClosed[r] => sendClosed'[r]
    BY <1>6 DEF CloseOrRecv, Break, HandlerReturn, TypeOK, FlagTypeOK
  <2>2. \A r \in Peer : Lossless(r)' => Lossless(r)
    BY <2>1, CallerPeer DEF Lossless, Deaf
  <2>3. QED
    BY <2>1, <2>2, StillDelivers
<1>7. ASSUME NEW p \in Peer, NEW m \in active[p], Reply(p, m) \/ ReplyErr(p, m)
      PROVE  Delivery'
  BY <1>7, AnswerDelivers DEF Reply, ReplyErr, Status
<1>8. QED
  BY <1>1, <1>2, <1>3, <1>4, <1>5, <1>6, <1>7, AwaitDelivers,
     RunStreamMsgDelivers, RunResponseDelivers, SweepDelivers,
     RunRequestDelivers, PumpEndDelivers, RequestSendDelivers,
     StreamReplyDelivers
  DEF Next, Pump, Run, Work, Close

\* What is on its way to a caller, in its future and received is its stream.
THEOREM DeliveryCorrect == Spec => []Delivery
  BY InitTypeOK, NextTypeOK, InitBookkeeping, NextBookkeeping, InitDelivery,
     NextDelivery, PTL DEF Spec

\* A caller only ever receives messages of its own call, whatever the tags,
\* the calls and the faults: the futures of Request are never mixed up.
THEOREM CallersGetTheirOwn == Spec => []RepliesMatch
<1>1. ASSUME TypeOK, Delivery PROVE RepliesMatch
  <2> SUFFICES ASSUME NEW c \in Call, NEW i \in DOMAIN got[c]
               PROVE  got[c][i].call = c
    BY DEF RepliesMatch
  <2>1. i \in 1 .. Len(got[c])
    BY <1>1, OfCallType
  <2>2. QED
    BY <1>1, <2>1 DEF Delivery, GotOK
<1>2. QED
  BY <1>1, TypeCorrect, DeliveryCorrect, PTL

\* A caller that invoke or RecvMsg tells "success" was answered with success,
\* and had received every message of the stream before, in order; a clean end
\* of the stream, a sweep or a lost message is never taken for it.
THEOREM SuccessIsWhole == Spec => []SuccessIsComplete
<1>1. ASSUME TypeOK, Delivery PROVE SuccessIsComplete
  <2> SUFFICES ASSUME NEW c \in Call, NEW i \in DOMAIN got[c]
               PROVE  /\ got[c][i].type = "streamMsg" => got[c][i].n = i
                      /\ caller[c] = "done" /\ Outcome(c) = "ok" =>
                           reply[c] = "ok" /\ Len(got[c]) = sent[c] + 1
    BY DEF SuccessIsComplete
  <2>1. i \in 1 .. Len(got[c])
    BY <1>1, OfCallType
  <2>2. got[c][i].type = "streamMsg" => got[c][i].n = i
    BY <1>1, <2>1 DEF Delivery, GotOK
  <2>3. caller[c] = "done" /\ Outcome(c) = "ok" =>
          reply[c] = "ok" /\ Len(got[c]) = sent[c] + 1
    BY <1>1 DEF Delivery, GotOK, Outcome, GetStatus
  <2>4. QED
    BY <2>2, <2>3
<1>2. QED
  BY <1>1, TypeCorrect, DeliveryCorrect, PTL

-------------------------------------------------------------------------------
\* Run returns only after its pool has drained, and no task starts afterwards.
LEMMA NextExit ==
  ASSUME TypeOK, ExitInv, [Next]_vars
  PROVE  ExitInv'
<1> USE DEF ctrlVars, futureVars, runVars, pumpVars, kickVars, poolVars,
            closeVars, linkVars, callVars, history
<1>frame. ASSUME UNCHANGED <<run, queue, active, sendLock, errC>> PROVE ExitInv'
  BY <1>frame DEF ExitInv
<1>1. CASE UNCHANGED vars
  BY <1>1, <1>frame DEF vars
<1>2. ASSUME NEW c \in Call,
             RequestStore(c) \/ RequestSend(c) \/ Await(c) \/ CtxDone(c)
      PROVE  ExitInv'
  BY <1>2, <1>frame DEF RequestStore, RequestSend, Await, CtxDone
<1>3. ASSUME NEW p \in Peer,
             \/ PumpRecv(p) \/ PumpEnd(p) \/ RunResponse(p) \/ RunStreamMsg(p)
             \/ \E e \in pendingRPCs[p] : Sweep(p, e)
             \/ \E m \in active[p] : StreamReply(p, m)
             \/ \E m \in detached[p] : DetachedEnds(p, m)
      PROVE  ExitInv'
  BY <1>3, <1>frame
  DEF PumpRecv, PumpEnd, RunResponse, RunStreamMsg, Sweep, StreamReply,
      DetachedEnds
<1>4. CASE Break \/ HandlerReturn
  BY <1>4, <1>frame DEF Break, HandlerReturn
<1>5. ASSUME NEW p \in Peer, RunRequest(p) PROVE ExitInv'
  BY <1>5 DEF RunRequest, Receiving, ExitInv, TypeOK, PoolTypeOK, RunTypeOK
<1>6. ASSUME NEW p \in Peer, RunEnd(p) \/ RunKick(p) \/ SweepDone(p)
      PROVE  ExitInv'
  BY <1>6 DEF RunEnd, RunKick, Leave, SweepDone, ExitInv, TypeOK, RunTypeOK
<1>7. ASSUME NEW p \in Peer, StopAndWait(p) PROVE ExitInv'
  BY <1>7 DEF StopAndWait, ExitInv, TypeOK, RunTypeOK
<1>8. ASSUME NEW p \in Peer, WorkerStart(p) PROVE ExitInv'
  BY <1>8 DEF WorkerStart, ExitInv, TypeOK, PoolTypeOK
<1>9. ASSUME NEW p \in Peer, PoolCancel(p) PROVE ExitInv'
  BY <1>9 DEF PoolCancel, ExitInv, TypeOK, PoolTypeOK
<1>10. ASSUME NEW p \in Peer, NEW m \in active[p],
              Reply(p, m) \/ ReplyErr(p, m) \/ GiveUp(p, m)
       PROVE  ExitInv'
  <2>1. /\ active' = [active EXCEPT ![p] = @ \ {m}]
        /\ UNCHANGED <<run, queue, sendLock, errC>>
    BY <1>10 DEF Reply, ReplyErr, Answer, GiveUp
  <2>2. QED
    BY <2>1 DEF ExitInv, TypeOK, PoolTypeOK
<1>11. ASSUME NEW p \in Peer, CloseOrRecv(p) \/ CloseOrRecvDone(p)
       PROVE  ExitInv'
  <2>1. CASE CloseOrRecv(p)
    BY <2>1 DEF CloseOrRecv, ExitInv, TypeOK, FlagTypeOK
  <2>2. CASE CloseOrRecvDone(p)
    BY <2>2 DEF CloseOrRecvDone, ExitInv, TypeOK, FlagTypeOK
  <2>3. QED
    BY <1>11, <2>1, <2>2
<1>12. QED
  BY <1>1, <1>2, <1>3, <1>4, <1>5, <1>6, <1>7, <1>8, <1>9, <1>10, <1>11
  DEF Next, Pump, Run, Work, Close

\* The context of a stream, once done, stays done.
LEMMA CtxStaysDone ==
  ASSUME TypeOK, [Next]_vars, NEW p \in Peer, StreamCtxDone(p)
  PROVE  StreamCtxDone(p)'
<1> USE DEF ctrlVars, futureVars, runVars, pumpVars, kickVars, poolVars,
            closeVars, linkVars, callVars, history
<1>frame. ASSUME /\ broken => broken'
                 /\ sendClosed["server"] => sendClosed'["server"]
                 /\ ended["client"] # "none" => ended'["client"] # "none"
          PROVE  StreamCtxDone(p)'
  BY <1>frame DEF StreamCtxDone
<1>1. CASE UNCHANGED vars
  BY <1>1, <1>frame DEF vars
<1>2. ASSUME NEW c \in Call,
             RequestStore(c) \/ RequestSend(c) \/ Await(c) \/ CtxDone(c)
      PROVE  StreamCtxDone(p)'
  BY <1>2, <1>frame DEF RequestStore, RequestSend, Await, CtxDone
<1>3. ASSUME NEW q \in Peer,
             \/ PumpRecv(q) \/ RunRequest(q) \/ RunResponse(q) \/ RunStreamMsg(q)
             \/ RunEnd(q) \/ RunKick(q) \/ SweepDone(q) \/ StopAndWait(q)
             \/ \E e \in pendingRPCs[q] : Sweep(q, e)
      PROVE  StreamCtxDone(p)'
  BY <1>3, <1>frame
  DEF PumpRecv, RunRequest, RunResponse, RunStreamMsg, RunEnd, RunKick,
      SweepDone, StopAndWait, Sweep
<1>4. ASSUME NEW q \in Peer, PumpEnd(q) PROVE StreamCtxDone(p)'
  <2>1. ended["client"] # "none" => q # "client"
    BY <1>4 DEF PumpEnd
  <2>2. ended["client"] # "none" => ended'["client"] = ended["client"]
    BY <1>4, <2>1 DEF PumpEnd, TypeOK, PumpTypeOK, Peer
  <2>3. QED
    BY <1>4, <1>frame, <2>2 DEF PumpEnd
<1>5. ASSUME NEW q \in Peer,
             \/ WorkerStart(q) \/ PoolCancel(q) \/ CloseOrRecvDone(q)
             \/ \E m \in active[q] : Work(q, m)
             \/ \E m \in detached[q] : DetachedEnds(q, m)
      PROVE  StreamCtxDone(p)'
  BY <1>5, <1>frame
  DEF WorkerStart, PoolCancel, CloseOrRecvDone, Work, StreamReply, Reply,
      ReplyErr, Answer, GiveUp, DetachedEnds
<1>6. ASSUME (\E q \in Peer : CloseOrRecv(q)) \/ Break \/ HandlerReturn
      PROVE  StreamCtxDone(p)'
  BY <1>6, <1>frame DEF CloseOrRecv, Break, HandlerReturn, TypeOK, FlagTypeOK, Peer
<1>7. QED
  BY <1>1, <1>2, <1>3, <1>4, <1>5, <1>6 DEF Next, Pump, Run, Close

\* A step that leaves every handler to whom it belongs, and sends no answer.
LEMMA HandlersStay ==
  ASSUME TypeOK, [Next]_vars, DetachedInv, UNCHANGED reply,
         \A p \in Peer : detached'[p] \subseteq detached[p],
         \A p \in Peer : active'[p] \subseteq active[p],
         \A c \in Call :
           caller[c] # "idle" => caller'[c] # "idle" /\ tag'[c] = tag[c],
         \A c \in Call :
           \/ stage'[c] = stage[c]
           \/ /\ stage[c] # "running"
              /\ stage[c] \in {"replied", "delivered"}
                   => stage'[c] \in {"replied", "delivered"}
  PROVE  DetachedInv'
<1>1. \A c \in Call :
        stage'[c] \notin {"replied", "delivered"} => reply'[c] = "nilProto"
  BY DEF DetachedInv
<1>2. ASSUME NEW p \in Peer, NEW m \in detached'[p]
      PROVE  /\ IsTask(p, m, "running")' /\ m \notin active'[p]
             /\ m.call \in Streaming /\ StreamCtxDone(p)'
  <2>1. m \in detached[p]
    BY <1>2
  <2>2. m.call \in Call
    BY <2>1 DEF TypeOK, PoolTypeOK, RPC
  <2>3. IsTask(p, m, "running") /\ m \notin active[p] /\ m.call \in Streaming
    BY <2>1 DEF DetachedInv
  <2>4. StreamCtxDone(p)'
    BY <2>1, CtxStaysDone DEF DetachedInv
  <2>5. IsTask(p, m, "running")'
    BY <2>2, <2>3 DEF IsTask, Tagged
  <2>6. QED
    BY <2>3, <2>4, <2>5
<1>3. QED
  BY <1>1, <1>2 DEF DetachedInv

\* A handler is left running when the context of its stream is done, and
\* nothing is ever sent in its name.
LEMMA NextDetached ==
  ASSUME TypeOK, Bookkeeping, DetachedInv, TypeOK', [Next]_vars
  PROVE  DetachedInv'
<1> USE DEF ctrlVars, futureVars, runVars, pumpVars, kickVars, poolVars,
            closeVars, linkVars, callVars, history
<1>frame. ASSUME UNCHANGED <<active, detached, reply, caller, tag, stage>>
          PROVE  DetachedInv'
  BY <1>frame, HandlersStay
<1>1. CASE UNCHANGED vars
  BY <1>1, <1>frame DEF vars
<1>2. ASSUME NEW c \in Call, RequestStore(c) PROVE DetachedInv'
  <2>1. /\ caller[c] = "idle" /\ caller' = [caller EXCEPT ![c] = "stored"]
        /\ \E t : tag' = [tag EXCEPT ![c] = t]
        /\ UNCHANGED <<active, detached, reply, stage>>
    BY <1>2 DEF RequestStore
  <2>2. \A d \in Call :
          caller[d] # "idle" => caller'[d] # "idle" /\ tag'[d] = tag[d]
    BY <2>1 DEF TypeOK, CallTypeOK
  <2>3. QED
    BY <2>1, <2>2, HandlersStay
<1>3. ASSUME NEW c \in Call, RequestSend(c) PROVE DetachedInv'
  <2>1. /\ caller[c] = "stored" /\ caller' = [caller EXCEPT ![c] = "waiting"]
        /\ stage' = [stage EXCEPT ![c] = "sent"]
        /\ UNCHANGED <<active, detached, reply, tag>>
    BY <1>3 DEF RequestSend
  <2>2. stage[c] = "none"
    BY <2>1 DEF Bookkeeping, Unsent
  <2>3. \A d \in Call :
          caller[d] # "idle" => caller'[d] # "idle" /\ tag'[d] = tag[d]
    BY <2>1 DEF TypeOK, CallTypeOK
  <2>4. \A d \in Call : stage'[d] = stage[d] \/ stage[d] = "none"
    BY <2>1, <2>2 DEF TypeOK, CallTypeOK
  <2>5. QED
    BY <2>1, <2>3, <2>4, HandlersStay
<1>4. ASSUME NEW c \in Call, Await(c) \/ CtxDone(c) PROVE DetachedInv'
  <2>1. /\ caller[c] = "waiting" /\ UNCHANGED <<active, detached, reply, tag, stage>>
        /\ \/ UNCHANGED caller
           \/ caller' = [caller EXCEPT ![c] = "done"]
           \/ caller' = [caller EXCEPT ![c] = "cancelled"]
    BY <1>4 DEF Await, CtxDone
  <2>2. \A d \in Call :
          caller[d] # "idle" => caller'[d] # "idle" /\ tag'[d] = tag[d]
    BY <2>1 DEF TypeOK, CallTypeOK
  <2>3. QED
    BY <2>1, <2>2, HandlersStay
<1>5. ASSUME NEW p \in Peer,
             \/ PumpRecv(p) \/ PumpEnd(p) \/ RunStreamMsg(p) \/ RunEnd(p)
             \/ RunKick(p) \/ SweepDone(p) \/ StopAndWait(p) \/ PoolCancel(p)
             \/ CloseOrRecv(p) \/ CloseOrRecvDone(p)
             \/ \E e \in pendingRPCs[p] : Sweep(p, e)
             \/ \E m \in active[p] : StreamReply(p, m)
      PROVE  DetachedInv'
  BY <1>5, <1>frame
  DEF PumpRecv, PumpEnd, RunStreamMsg, RunEnd, RunKick, SweepDone, StopAndWait,
      PoolCancel, CloseOrRecv, CloseOrRecvDone, Sweep, StreamReply
<1>6. CASE Break \/ HandlerReturn
  BY <1>6, <1>frame DEF Break, HandlerReturn
<1>7. ASSUME NEW p \in Peer, RunRequest(p) PROVE DetachedInv'
  <2>1. /\ pumped[p] > 0 /\ Head(inbox[p]).type = "request"
        /\ stage' = [stage EXCEPT ![Head(inbox[p]).call] = "queued"]
        /\ UNCHANGED <<active, detached, reply, caller, tag>>
    BY <1>7 DEF RunRequest, Receiving
  <2>2. stage[Head(inbox[p]).call] = "sent"
    BY <2>1, HeadInFlight DEF InFlight
  <2>3. \A d \in Call : stage'[d] = stage[d] \/ stage[d] = "sent"
    BY <2>1, <2>2 DEF TypeOK, CallTypeOK
  <2>4. QED
    BY <2>1, <2>3, HandlersStay
<1>8. ASSUME NEW p \in Peer, RunResponse(p) PROVE DetachedInv'
  <2>1. /\ pumped[p] > 0 /\ Head(inbox[p]).type = "response"
        /\ stage' = [stage EXCEPT ![Head(inbox[p]).call] = "delivered"]
        /\ UNCHANGED <<active, detached, reply, caller, tag>>
    BY <1>8 DEF RunResponse, Receiving
  <2>2. stage[Head(inbox[p]).call] = "replied"
    BY <2>1, HeadInFlight DEF InFlight
  <2>3. \A d \in Call : \/ stage'[d] = stage[d]
                        \/ stage[d] = "replied" /\ stage'[d] = "delivered"
    BY <2>1, <2>2 DEF TypeOK, CallTypeOK
  <2>4. QED
    BY <2>1, <2>3, HandlersStay
<1>9. ASSUME NEW p \in Peer, NEW m \in detached[p], DetachedEnds(p, m)
      PROVE  DetachedInv'
  <2>1. /\ detached' = [detached EXCEPT ![p] = @ \ {m}]
        /\ UNCHANGED <<active, reply, caller, tag, stage>>
    BY <1>9 DEF DetachedEnds
  <2>2. \A q \in Peer : detached'[q] \subseteq detached[q]
    BY <2>1 DEF TypeOK, PoolTypeOK
  <2>3. QED
    BY <2>1, <2>2, HandlersStay
<1>10. ASSUME NEW p \in Peer, WorkerStart(p) PROVE DetachedInv'
  <2> DEFINE t == Head(queue[p])
  <2>1. /\ queue[p] # <<>> /\ active' = [active EXCEPT ![p] = @ \cup {t}]
        /\ stage' = [stage EXCEPT ![t.call] = "running"]
        /\ UNCHANGED <<detached, reply, caller, tag>>
    BY <1>10 DEF WorkerStart
  <2>2. t = queue[p][1] /\ 1 \in 1 .. Len(queue[p])
    BY <2>1, Elements, SeqFacts
  <2>3. stage[t.call] = "queued"
    BY <2>2 DEF Bookkeeping, PoolInv, IsTask
  <2> HIDE DEF t
  <2>4. \A d \in Call : \/ stage'[d] = stage[d]
                        \/ stage[d] = "queued" /\ stage'[d] = "running"
    BY <2>1, <2>3 DEF TypeOK, CallTypeOK
  <2>5. \A c \in Call :
          stage'[c] \notin {"replied", "delivered"} => reply'[c] = "nilProto"
    BY <2>1, <2>4 DEF DetachedInv
  <2>6. ASSUME NEW q \in Peer, NEW m \in detached'[q]
        PROVE  /\ IsTask(q, m, "running")' /\ m \notin active'[q]
               /\ m.call \in Streaming /\ StreamCtxDone(q)'
    <3>1. /\ m \in detached[q] /\ m.call \in Call
          /\ IsTask(q, m, "running") /\ m \notin active[q] /\ m.call \in Streaming
          /\ StreamCtxDone(q)'
      <4>1. m \in detached[q]
        BY <2>1, <2>6
      <4>2. m.call \in Call
        BY <4>1 DEF TypeOK, PoolTypeOK, RPC
      <4>3. /\ IsTask(q, m, "running") /\ m \notin active[q]
            /\ m.call \in Streaming /\ StreamCtxDone(q)
        BY <4>1 DEF DetachedInv
      <4>4. StreamCtxDone(q)'
        BY <4>3, CtxStaysDone
      <4> QED BY <4>1, <4>2, <4>3, <4>4
    <3>2. stage[m.call] = "running" /\ m # t
      BY <3>1, <2>3 DEF IsTask
    <3>3. m \notin active'[q]
      BY <2>1, <3>1, <3>2 DEF TypeOK, PoolTypeOK
    <3>4. IsTask(q, m, "running")'
      BY <2>1, <2>4, <3>1, <3>2 DEF IsTask, Tagged
    <3>5. QED
      BY <3>1, <3>3, <3>4
  <2>7. QED
    BY <2>5, <2>6 DEF DetachedInv
<1>11. ASSUME NEW p \in Peer, NEW t \in active[p], NEW s, Answer(p, t, s)
       PROVE  DetachedInv'
  <2>1. /\ active' = [active EXCEPT ![p] = @ \ {t}]
        /\ stage' = [stage EXCEPT ![t.call] = "replied"]
        /\ reply' = [reply EXCEPT ![t.call] = s]
        /\ UNCHANGED <<detached, caller, tag>>
    BY <1>11 DEF Answer
  <2>2. IsTask(p, t, "running")
    BY DEF Bookkeeping, PoolInv
  <2>3. \A c \in Call : \/ c = t.call /\ stage'[c] = "replied"
                        \/ stage'[c] = stage[c] /\ reply'[c] = reply[c]
    BY <2>1 DEF TypeOK, CallTypeOK
  <2>4. \A c \in Call :
          stage'[c] \notin {"replied", "delivered"} => reply'[c] = "nilProto"
    BY <2>3 DEF DetachedInv
  <2>5. ASSUME NEW q \in Peer, NEW m \in detached'[q]
        PROVE  /\ IsTask(q, m, "running")' /\ m \notin active'[q]
               /\ m.call \in Streaming /\ StreamCtxDone(q)'
    <3>1. /\ m \in detached[q] /\ m.call \in Call
          /\ IsTask(q, m, "running") /\ m \notin active[q] /\ m.call \in Streaming
          /\ StreamCtxDone(q)'
      <4>1. m \in detached[q]
        BY <2>1, <2>5
      <4>2. m.call \in Call
        BY <4>1 DEF TypeOK, PoolTypeOK, RPC
      <4>3. /\ IsTask(q, m, "running") /\ m \notin active[q]
            /\ m.call \in Streaming /\ StreamCtxDone(q)
        BY <4>1 DEF DetachedInv
      <4>4. StreamCtxDone(q)'
        BY <4>3, CtxStaysDone
      <4> QED BY <4>1, <4>2, <4>3, <4>4
    <3>2. m.call # t.call
      <4> SUFFICES ASSUME m.call = t.call PROVE FALSE
        OBVIOUS
      <4>1. p = q
        BY <2>2, <3>1 DEF IsTask, Other, Peer
      <4>2. m = t
        BY <2>2, <3>1 DEF IsTask, Tagged
      <4>3. QED
        BY <3>1, <4>1, <4>2
    <3>3. m \notin active'[q]
      BY <2>1, <3>1 DEF TypeOK, PoolTypeOK
    <3>4. IsTask(q, m, "running")'
      BY <2>1, <2>3, <3>1, <3>2 DEF IsTask, Tagged
    <3>5. QED
      BY <3>1, <3>3, <3>4
  <2>6. QED
    BY <2>4, <2>5 DEF DetachedInv
<1>12. ASSUME NEW p \in Peer, NEW t \in active[p], GiveUp(p, t)
       PROVE  DetachedInv'
  <2>1. /\ active' = [active EXCEPT ![p] = @ \ {t}]
        /\ detached' = [detached EXCEPT ![p] = @ \cup {t}]
        /\ t.call \in Streaming /\ StreamCtxDone(p)
        /\ UNCHANGED <<reply, caller, tag, stage>>
    BY <1>12 DEF GiveUp
  <2>2. ASSUME NEW q \in Peer, NEW m \in detached'[q]
        PROVE  /\ IsTask(q, m, "running")' /\ m \notin active'[q]
               /\ m.call \in Streaming /\ StreamCtxDone(q)'
    <3>1. CASE q = p /\ m = t
      <4>1. IsTask(q, m, "running")
        BY <3>1 DEF Bookkeeping, PoolInv
      <4>2. StreamCtxDone(q)'
        BY <2>1, <3>1, CtxStaysDone
      <4>3. m \notin active'[q]
        BY <2>1, <3>1 DEF TypeOK, PoolTypeOK
      <4>4. QED
        BY <2>1, <3>1, <4>1, <4>2, <4>3 DEF IsTask, Tagged
    <3>2. CASE m \in detached[q]
      <4>1. /\ IsTask(q, m, "running") /\ m \notin active[q]
            /\ m.call \in Streaming /\ StreamCtxDone(q)'
        BY <3>2, CtxStaysDone DEF DetachedInv
      <4>2. m \notin active'[q]
        BY <2>1, <4>1 DEF TypeOK, PoolTypeOK
      <4>3. QED
        BY <2>1, <4>1, <4>2 DEF IsTask, Tagged
    <3>3. QED
      BY <2>1, <2>2, <3>1, <3>2 DEF TypeOK, PoolTypeOK
  <2>3. QED
    BY <2>1, <2>2 DEF DetachedInv
<1>13. QED
  BY <1>1, <1>2, <1>3, <1>4, <1>5, <1>6, <1>7, <1>8, <1>9, <1>10, <1>11, <1>12
  DEF Next, Pump, Run, Work, Close, Reply, ReplyErr

\* When Serve's goroutine writes the error channel, the pool of its controller
\* is at rest: no request is queued, no worker is in handleRequest, and no
\* handler of a unary method runs. A handler that still runs is one of a
\* streaming method that handleRequest gave up on, under a context that is
\* done, and no answer was or will be sent for it.
THEOREM ServeEndsQuiescent == Spec => []QuiescentAtExit
<1>1. Init => ExitInv /\ DetachedInv
  BY DEF Init, ExitInv, DetachedInv
<1>2. ExitInv /\ DetachedInv /\ TypeOK => QuiescentAtExit
  <2> SUFFICES ASSUME ExitInv, DetachedInv, TypeOK, NEW p \in Peer
               PROVE  /\ errC[p] => active[p] = {} /\ queue[p] = <<>>
                      /\ \A m \in detached[p] :
                           /\ m.call \in Streaming
                           /\ StreamCtxDone(p)
                           /\ stage[m.call] = "running" /\ reply[m.call] = "nilProto"
    BY DEF QuiescentAtExit
  <2>1. errC[p] => active[p] = {} /\ queue[p] = <<>>
    BY DEF ExitInv
  <2>2. ASSUME NEW m \in detached[p]
        PROVE  /\ m.call \in Streaming
               /\ StreamCtxDone(p)
               /\ stage[m.call] = "running" /\ reply[m.call] = "nilProto"
    <3>1. m.call \in Call
      BY <2>2 DEF TypeOK, PoolTypeOK, RPC
    <3>2. QED
      BY <2>2, <3>1 DEF DetachedInv, IsTask
  <2>3. QED
    BY <2>1, <2>2
<1>3. QED
  BY <1>1, <1>2, InitTypeOK, NextTypeOK, InitBookkeeping, NextBookkeeping,
     NextExit, NextDetached, PTL DEF Spec

-------------------------------------------------------------------------------
(***************************************************************************)
(* The refinement: every step of two controllers is a step of RpcContract  *)
(* about one call, or invisible to it.                                     *)
(***************************************************************************)

\* The mapped state of one call.
Answered(c) == IF reply[c] = "nilProto" THEN "none" ELSE reply[c]

Received(c) == Cardinality({i \in DOMAIN got[c] : got[c][i].type = "streamMsg"})

\* How many messages of a stream are in q, when they are the first n of it.
LEMMA CountFirst ==
  ASSUME NEW q \in Seq(RPC), NEW n \in 0 .. Len(q),
         \A i \in 1 .. Len(q) : q[i].type = "streamMsg" <=> i <= n
  PROVE  Cardinality({i \in DOMAIN q : q[i].type = "streamMsg"}) = n
<1>1. Len(q) \in Nat /\ DOMAIN q = 1 .. Len(q) /\ n \in Nat
  BY SeqFacts
<1>2. \A i : i \in 1 .. n <=> i \in 1 .. Len(q) /\ i <= n
  BY <1>1
<1>3. {i \in DOMAIN q : q[i].type = "streamMsg"} = 1 .. n
  BY <1>1, <1>2, Zenon
<1>4. Cardinality(1 .. n) = IF 1 > n THEN 0 ELSE n - 1 + 1
  <2>1. 1 \in Int /\ n \in Int
    BY <1>1
  <2>2. QED
    BY <2>1, FS_Interval
<1>5. Cardinality(1 .. n) = n
  BY <1>1, <1>4
<1>6. QED
  BY <1>3, <1>5

\* All that a caller has received are stream messages, but for the last one of
\* a caller that is done.
LEMMA ReceivedLen ==
  ASSUME NEW q \in Seq(RPC), NEW done \in BOOLEAN,
         done => Len(q) > 0,
         \A i \in 1 .. Len(q) : q[i].type # "streamMsg" <=> done /\ i = Len(q)
  PROVE  Cardinality({i \in DOMAIN q : q[i].type = "streamMsg"})
           = IF done THEN Len(q) - 1 ELSE Len(q)
<1>1. Len(q) \in Nat
  BY SeqFacts
<1>2. CASE done
  <2>1. Len(q) - 1 \in 0 .. Len(q)
    BY <1>1, <1>2
  <2>2. \A i \in 1 .. Len(q) : q[i].type = "streamMsg" <=> i <= Len(q) - 1
    BY <1>1, <1>2
  <2>3. QED
    BY <1>2, <2>1, <2>2, CountFirst
<1>3. CASE ~done
  <2>1. Len(q) \in 0 .. Len(q)
    BY <1>1
  <2>2. \A i \in 1 .. Len(q) : q[i].type = "streamMsg" <=> i <= Len(q)
    BY <1>1, <1>3
  <2>3. QED
    BY <1>3, <2>1, <2>2, CountFirst
<1>4. QED
  BY <1>2, <1>3

\* A step that the contract does not see in c, apart from what is sent.
Same(c) ==
  /\ PhaseOf(c)' = PhaseOf(c) /\ OutcomeOf(c)' = OutcomeOf(c)
  /\ Answered(c)' = Answered(c) /\ Received(c)' = Received(c)

\* Calls whose caller, received messages, stage and answer stay look the same.
LEMMA SameView ==
  ASSUME NEW c \in Call, caller'[c] = caller[c], got'[c] = got[c],
         stage'[c] = stage[c], reply'[c] = reply[c]
  PROVE  Same(c)
  BY DEF Same, PhaseOf, OutcomeOf, Outcome, Answered, Received

\* A step that changes the phase of one call only.
LEMMA PhaseMaps ==
  ASSUME NEW c \in Call, \A d \in Call : d # c => Same(d), UNCHANGED sent,
         OutcomeOf(c)' = OutcomeOf(c), Answered(c)' = Answered(c),
         Received(c)' = Received(c)
  PROVE  /\ PhaseOf(c) = "idle" /\ PhaseOf(c)' = "issued" => Contract!Issue(c)
         /\ PhaseOf(c) = "issued" /\ PhaseOf(c)' = "executing" => Contract!Execute(c)
  BY DEF Same, Answered, Received, Contract!Issue, Contract!Execute

\* A step that the contract does not see.
LEMMA StutterMaps ==
  ASSUME \A d \in Call : Same(d), UNCHANGED sent
  PROVE  UNCHANGED Contract!vars
  BY DEF Same, Answered, Received, Contract!vars

\* A handler sends a message, or answers.
LEMMA HandlerMaps ==
  ASSUME NEW c \in Call, \A d \in Call : d # c => Same(d),
         OutcomeOf(c)' = OutcomeOf(c), Received(c)' = Received(c),
         PhaseOf(c) = "executing"
  PROVE  /\ /\ PhaseOf(c)' = PhaseOf(c) /\ Answered(c)' = Answered(c)
            /\ sent' = [sent EXCEPT ![c] = @ + 1]
            => Contract!Emit(c)
         /\ /\ PhaseOf(c)' = "answered" /\ Answered(c)' \in {"ok", "error"}
            /\ UNCHANGED sent
            => Contract!Finish(c)
<1>1. ASSUME PhaseOf(c)' = PhaseOf(c), Answered(c)' = Answered(c),
             sent' = [sent EXCEPT ![c] = @ + 1]
      PROVE  Contract!Emit(c)
  BY <1>1 DEF Same, Answered, Received, Contract!Emit
<1>2. ASSUME PhaseOf(c)' = "answered", Answered(c)' \in {"ok", "error"},
             UNCHANGED sent
      PROVE  Contract!Finish(c)
  BY <1>2 DEF Same, Answered, Received, Contract!Finish
<1>3. QED
  BY <1>1, <1>2

\* A caller receives a message of its stream.
LEMMA ReceiveMaps ==
  ASSUME NEW c \in Call, \A d \in Call : d # c => Same(d), UNCHANGED sent,
         PhaseOf(c)' = PhaseOf(c), Answered(c)' = Answered(c),
         OutcomeOf(c) = "none", OutcomeOf(c)' = "none",
         Received(c) < sent[c], Received(c)' = Received(c) + 1
  PROVE  Contract!Receive(c)
  BY DEF Same, Answered, Received, Contract!Receive

\* A caller is told the outcome of its call.
LEMMA OutcomeMaps ==
  ASSUME NEW c \in Call, \A d \in Call : d # c => Same(d), UNCHANGED sent,
         PhaseOf(c)' = PhaseOf(c), Answered(c)' = Answered(c),
         OutcomeOf(c) = "none", Received(c)' = Received(c)
  PROVE  /\ /\ Answered(c) = "ok" /\ Received(c) = sent[c]
            /\ OutcomeOf(c)' = "ok"
            => Contract!Succeed(c)
         /\ /\ PhaseOf(c) # "idle" /\ OutcomeOf(c)' \in {"error", "cancelled"}
            => Contract!Fail({c})
<1>1. ASSUME Answered(c) = "ok", Received(c) = sent[c], OutcomeOf(c)' = "ok"
      PROVE  Contract!Succeed(c)
  BY <1>1, ZenonT(60) DEF Same, Answered, Received, Contract!Succeed
<1>2. ASSUME PhaseOf(c) # "idle", OutcomeOf(c)' \in {"error", "cancelled"}
      PROVE  Contract!Fail({c})
  <2> DEFINE o == [d \in {c} |-> OutcomeOf(c)']
  <2>1. o \in [{c} -> {"error", "cancelled"}]
    BY <1>2
  <2>2. [d \in Call |-> OutcomeOf(d)']
          = [d \in Call |-> IF d \in {c} THEN o[d] ELSE [e \in Call |-> OutcomeOf(e)][d]]
    BY DEF Same
  <2>3. /\ [d \in Call |-> PhaseOf(d)'] = [d \in Call |-> PhaseOf(d)]
        /\ [d \in Call |-> Answered(d)'] = [d \in Call |-> Answered(d)]
        /\ [d \in Call |-> Received(d)'] = [d \in Call |-> Received(d)]
    BY DEF Same
  <2>4. \A d \in {c} : /\ [e \in Call |-> OutcomeOf(e)][d] = "none"
                       /\ [e \in Call |-> PhaseOf(e)][d] # "idle"
    BY <1>2
  <2> HIDE DEF o
  <2>5. QED
    BY <2>1, <2>2, <2>3, <2>4 DEF Answered, Received, Contract!Fail
<1>3. QED
  BY <1>1, <1>2

\* Every step of the controllers is a step of the contract, or none.
LEMMA NextContract ==
  ASSUME TypeOK, Bookkeeping, Delivery, TypeOK', Delivery', [Next]_vars
  PROVE  [Contract!Next]_(Contract!vars)
<1> USE DEF ctrlVars, futureVars, runVars, pumpVars, kickVars, poolVars,
            closeVars, linkVars, callVars, history
<1>quiet. ASSUME UNCHANGED <<caller, got, stage, reply, sent>>
          PROVE  UNCHANGED Contract!vars
  BY <1>quiet, SameView, StutterMaps
<1>1. CASE UNCHANGED vars
  BY <1>1, <1>quiet DEF vars
<1>2. ASSUME NEW c \in Call, RequestStore(c) PROVE Contract!Issue(c)
  <2>1. /\ caller[c] = "idle" /\ caller'[c] = "stored" /\ stage[c] = "none"
        /\ UNCHANGED <<got, stage, reply, sent>>
        /\ \A d \in Call : d # c => caller'[d] = caller[d]
    BY <1>2 DEF RequestStore, TypeOK, CallTypeOK, Bookkeeping, Unsent
  <2>2. \A d \in Call : d # c => Same(d)
    BY <2>1, SameView
  <2>3. /\ PhaseOf(c) = "idle" /\ PhaseOf(c)' = "issued"
        /\ OutcomeOf(c)' = OutcomeOf(c)
    BY <2>1 DEF PhaseOf, OutcomeOf
  <2>4. Answered(c)' = Answered(c) /\ Received(c)' = Received(c)
    BY <2>1 DEF Answered, Received
  <2>5. QED
    BY <2>1, <2>2, <2>3, <2>4, PhaseMaps
<1>3. ASSUME NEW c \in Call, RequestSend(c) PROVE UNCHANGED Contract!vars
  <2>1. /\ caller[c] = "stored" /\ caller'[c] = "waiting" /\ stage[c] = "none"
        /\ stage'[c] = "sent" /\ UNCHANGED <<got, reply, sent>>
        /\ \A d \in Call : d # c => caller'[d] = caller[d] /\ stage'[d] = stage[d]
    BY <1>3 DEF RequestSend, TypeOK, CallTypeOK, Bookkeeping, Unsent
  <2>2. Same(c)
    BY <2>1 DEF Same, PhaseOf, OutcomeOf, Answered, Received
  <2>3. \A d \in Call : Same(d)
    BY <2>1, <2>2, SameView
  <2>4. QED
    BY <2>1, <2>3, StutterMaps
<1>4. ASSUME NEW c \in Call, Await(c)
      PROVE  Contract!Receive(c) \/ Contract!Succeed(c) \/ Contract!Fail({c})
  <2>1. /\ caller[c] = "waiting" /\ future[c] # <<>>
        /\ UNCHANGED <<stage, reply, sent>>
        /\ got'[c] = Append(got[c], Head(future[c]))
        /\ caller'[c] \in {"waiting", "done"}
        /\ \A d \in Call : d # c => caller'[d] = caller[d] /\ got'[d] = got[d]
    BY <1>4 DEF Await, TypeOK, CallTypeOK
  <2>2. PICK m \in RPC : m = Head(future[c]) /\ m = future[c][1]
    BY <2>1, OfCallType, SeqFacts
  <2>3. /\ Len(got'[c]) = Len(got[c]) + 1 /\ Len(got[c]) \in Nat
        /\ got'[c][Len(got'[c])] = m
    BY <2>1, <2>2, OfCallType, SeqFacts
  <2>4. \A d \in Call : d # c => Same(d)
    BY <2>1, SameView
  <2>5. /\ PhaseOf(c)' = PhaseOf(c) /\ PhaseOf(c) # "idle"
        /\ Answered(c)' = Answered(c) /\ OutcomeOf(c) = "none"
    BY <2>1 DEF PhaseOf, Answered, OutcomeOf
  <2>6. Received(c) = Len(got[c])
    <3>1. /\ got[c] \in Seq(RPC)
          /\ \A i \in 1 .. Len(got[c]) :
               got[c][i].type # "streamMsg" <=> FALSE /\ i = Len(got[c])
      BY <2>1, OfCallType DEF Delivery, GotOK
    <3>2. QED
      BY <3>1, ReceivedLen DEF Received
  <2>7. Received(c)' = IF caller'[c] = "done" THEN Len(got'[c]) - 1
                                              ELSE Len(got'[c])
    <3>1. /\ got'[c] \in Seq(RPC) /\ (caller'[c] = "done") \in BOOLEAN
          /\ caller'[c] = "done" => Len(got'[c]) > 0
          /\ \A i \in 1 .. Len(got'[c]) :
               got'[c][i].type # "streamMsg"
                 <=> caller'[c] = "done" /\ i = Len(got'[c])
      BY DEF TypeOK, CallTypeOK, Delivery, GotOK
    <3>2. QED
      BY <3>1, ReceivedLen DEF Received
  <2>8. /\ \/ /\ m.type = "streamMsg" /\ m.n = Len(got[c]) + 1
              /\ m.n <= sent[c] /\ c \in Streaming
           \/ /\ m.type = "response"
              /\ m.status = "ok" => reply[c] = "ok" /\ Len(got[c]) = sent[c]
    BY <2>1, <2>2 DEF Delivery, FutureOK
  <2>9. CASE m.type = "streamMsg"
    <3>1. caller'[c] = "waiting"
      BY <1>4, <2>1, <2>2, <2>8, <2>9 DEF Await, TypeOK, CallTypeOK
    <3>2. OutcomeOf(c)' = "none" /\ Received(c)' = Received(c) + 1
      BY <2>3, <2>6, <2>7, <3>1 DEF OutcomeOf
    <3>3. Received(c) < sent[c]
      BY <2>3, <2>6, <2>8, <2>9, OfCallType
    <3>4. Contract!Receive(c)
      BY <2>1, <2>4, <2>5, <3>2, <3>3, ReceiveMaps
    <3>5. QED
      BY <3>4
  <2>10. CASE m.type = "response"
    <3>1. caller'[c] = "done"
      BY <1>4, <2>1, <2>2, <2>10 DEF Await, TypeOK, CallTypeOK
    <3>2. Received(c)' = Received(c)
      BY <2>3, <2>6, <2>7, <3>1
    <3>3. OutcomeOf(c)' = IF m.status = "ok" THEN "ok" ELSE "error"
      BY <2>3, <3>1 DEF OutcomeOf, Outcome, GetStatus
    <3>4. CASE m.status = "ok"
      <4>1. Answered(c) = "ok" /\ Received(c) = sent[c]
        BY <2>6, <2>8, <2>10, <3>4 DEF Answered
      <4>2. Contract!Succeed(c)
        BY <2>1, <2>4, <2>5, <3>2, <3>3, <3>4, <4>1, OutcomeMaps
      <4>3. QED
        BY <4>2
    <3>5. CASE m.status # "ok"
      <4>1. Contract!Fail({c})
        BY <2>1, <2>4, <2>5, <3>2, <3>3, <3>5, OutcomeMaps
      <4>2. QED
        BY <4>1
    <3>6. QED
      BY <3>4, <3>5
  <2>11. QED
    BY <2>8, <2>9, <2>10
<1>5. ASSUME NEW c \in Call, CtxDone(c) PROVE Contract!Fail({c})
  <2>1. /\ caller[c] = "waiting" /\ caller'[c] = "cancelled"
        /\ UNCHANGED <<got, stage, reply, sent>>
        /\ \A d \in Call : d # c => caller'[d] = caller[d]
    BY <1>5 DEF CtxDone, TypeOK, CallTypeOK
  <2>2. \A d \in Call : d # c => Same(d)
    BY <2>1, SameView
  <2>3. /\ PhaseOf(c)' = PhaseOf(c) /\ PhaseOf(c) # "idle"
        /\ OutcomeOf(c) = "none" /\ OutcomeOf(c)' = "cancelled"
    BY <2>1 DEF PhaseOf, OutcomeOf
  <2>4. Answered(c)' = Answered(c) /\ Received(c)' = Received(c)
    BY <2>1 DEF Answered, Received
  <2>5. QED
    BY <2>1, <2>2, <2>3, <2>4, OutcomeMaps
<1>6. ASSUME NEW c \in Call,
             UNCHANGED <<caller, got, reply, sent>>, caller[c] # "idle",
             \/ stage[c] = "sent" /\ stage' = [stage EXCEPT ![c] = "queued"]
             \/ stage[c] = "replied" /\ stage' = [stage EXCEPT ![c] = "delivered"]
      PROVE  UNCHANGED Contract!vars
  <2>1. /\ \/ stage[c] = "sent" /\ stage'[c] = "queued"
           \/ stage[c] = "replied" /\ stage'[c] = "delivered"
        /\ \A d \in Call : d # c => stage'[d] = stage[d]
    BY <1>6 DEF TypeOK, CallTypeOK
  <2>2. Same(c)
    BY <1>6, <2>1 DEF Same, PhaseOf, OutcomeOf, Outcome, Answered, Received
  <2>3. \A d \in Call : Same(d)
    BY <1>6, <2>1, <2>2, SameView
  <2>4. QED
    BY <1>6, <2>3, StutterMaps
<1>7. ASSUME NEW p \in Peer, RunRequest(p) \/ RunResponse(p)
      PROVE  UNCHANGED Contract!vars
  <2>1. PICK m \in RPC : m = Head(inbox[p]) /\ m.call \in Call /\ InFlight(p, m)
    BY <1>7, HeadInFlight DEF RunRequest, RunResponse, Receiving
  <2>2. /\ UNCHANGED <<caller, got, reply, sent>> /\ caller[m.call] # "idle"
        /\ \/ /\ stage[m.call] = "sent"
              /\ stage' = [stage EXCEPT ![m.call] = "queued"]
           \/ /\ stage[m.call] = "replied"
              /\ stage' = [stage EXCEPT ![m.call] = "delivered"]
    BY <1>7, <2>1
    DEF RunRequest, RunResponse, Receiving, InFlight, Tagged
  <2>3. QED
    BY <1>6, <2>1, <2>2
<1>8. ASSUME NEW p \in Peer, WorkerStart(p)
      PROVE  \E c \in Call : Contract!Execute(c)
  <2>1. PICK m \in RPC : /\ m = Head(queue[p]) /\ m.call \in Call
                         /\ IsTask(p, m, "queued")
    <3>1. queue[p] # <<>>
      BY <1>8 DEF WorkerStart
    <3>2. /\ Head(queue[p]) = queue[p][1] /\ 1 \in 1 .. Len(queue[p])
          /\ queue[p] \in Seq(RPC)
      BY <3>1, Elements, SeqFacts
    <3>3. queue[p][1] \in RPC /\ queue[p][1].call \in Call
      BY <3>2, Elements
    <3>4. QED
      BY <3>2, <3>3 DEF Bookkeeping, PoolInv
  <2>2. PICK c \in Call : c = m.call
    BY <2>1
  <2>3. /\ stage[c] = "queued" /\ caller[c] # "idle"
        /\ UNCHANGED <<caller, got, reply, sent>>
        /\ stage' = [stage EXCEPT ![c] = "running"]
    BY <1>8, <2>1, <2>2 DEF WorkerStart, IsTask, Tagged
  <2>4. stage'[c] = "running" /\ \A d \in Call : d # c => stage'[d] = stage[d]
    BY <2>3 DEF TypeOK, CallTypeOK
  <2>5. \A d \in Call : d # c => Same(d)
    BY <2>3, <2>4, SameView
  <2>6. /\ PhaseOf(c) = "issued" /\ PhaseOf(c)' = "executing"
        /\ OutcomeOf(c)' = OutcomeOf(c)
    BY <2>3, <2>4 DEF PhaseOf, OutcomeOf, Outcome
  <2>7. Answered(c)' = Answered(c) /\ Received(c)' = Received(c)
    BY <2>3 DEF Answered, Received
  <2>8. QED
    BY <2>3, <2>5, <2>6, <2>7, PhaseMaps
<1>9. ASSUME NEW p \in Peer, NEW m \in active[p], StreamReply(p, m)
      PROVE  \E c \in Call : Contract!Emit(c)
  <2>1. PICK c \in Call : c = m.call
    BY TaskType
  <2>2. /\ stage[c] = "running" /\ caller[c] # "idle"
        /\ UNCHANGED <<caller, got, reply, stage>>
        /\ sent' = [sent EXCEPT ![c] = @ + 1]
    BY <1>9, <2>1 DEF StreamReply, Bookkeeping, PoolInv, IsTask, Tagged
  <2>3. Same(c) /\ \A d \in Call : d # c => Same(d)
    BY <2>2, SameView
  <2>4. PhaseOf(c) = "executing"
    BY <2>2 DEF PhaseOf
  <2>5. Contract!Emit(c)
    BY <2>2, <2>3, <2>4, HandlerMaps DEF Same
  <2>6. QED
    BY <2>5
<1>10. ASSUME NEW p \in Peer, NEW m \in active[p], Reply(p, m) \/ ReplyErr(p, m)
       PROVE  \E c \in Call : Contract!Finish(c)
  <2>1. PICK c \in Call : c = m.call
    BY TaskType
  <2>2. PICK s \in {"ok", "error"} : Answer(p, m, s)
    BY <1>10 DEF Reply, ReplyErr
  <2>3. /\ stage[c] = "running" /\ caller[c] # "idle"
        /\ UNCHANGED <<caller, got, sent>>
        /\ stage'[c] = "replied" /\ reply'[c] = s
        /\ \A d \in Call : d # c => stage'[d] = stage[d] /\ reply'[d] = reply[d]
    BY <2>1, <2>2
    DEF Answer, Bookkeeping, PoolInv, IsTask, Tagged, TypeOK, CallTypeOK
  <2>4. \A d \in Call : d # c => Same(d)
    BY <2>3, SameView
  <2>5. /\ PhaseOf(c) = "executing" /\ PhaseOf(c)' = "answered"
        /\ OutcomeOf(c)' = OutcomeOf(c)
    BY <2>3 DEF PhaseOf, OutcomeOf, Outcome
  <2>6. Answered(c)' \in {"ok", "error"} /\ Received(c)' = Received(c)
    BY <2>2, <2>3 DEF Answered, Received
  <2>7. Contract!Finish(c)
    BY <2>3, <2>4, <2>5, <2>6, HandlerMaps
  <2>8. QED
    BY <2>7
<1>11. ASSUME NEW p \in Peer,
              \/ PumpRecv(p) \/ PumpEnd(p) \/ RunStreamMsg(p) \/ RunEnd(p)
              \/ RunKick(p) \/ SweepDone(p) \/ StopAndWait(p) \/ PoolCancel(p)
              \/ CloseOrRecv(p) \/ CloseOrRecvDone(p)
              \/ \E e \in pendingRPCs[p] : Sweep(p, e)
              \/ \E m \in active[p] : GiveUp(p, m)
              \/ \E m \in detached[p] : DetachedEnds(p, m)
       PROVE  UNCHANGED Contract!vars
  <2>1. UNCHANGED <<caller, got, stage, reply, sent>>
    BY <1>11
    DEF PumpRecv, PumpEnd, RunStreamMsg, RunEnd, RunKick, SweepDone, StopAndWait,
        PoolCancel, CloseOrRecv, CloseOrRecvDone, Sweep, GiveUp, DetachedEnds
  <2>2. QED
    BY <2>1, <1>quiet
<1>12. CASE Break \/ HandlerReturn
  <2>1. UNCHANGED <<caller, got, stage, reply, sent>>
    BY <1>12 DEF Break, HandlerReturn
  <2>2. UNCHANGED Contract!vars
    BY <2>1, <1>quiet
  <2>3. QED
    BY <2>2
<1>13. \A c \in Call : {c} \in SUBSET Call
  OBVIOUS
<1>14. (\E c \in Call : \/ Contract!Issue(c) \/ Contract!Execute(c)
                        \/ Contract!Emit(c) \/ Contract!Finish(c)
                        \/ Contract!Receive(c) \/ Contract!Succeed(c)
                        \/ Contract!Fail({c}))
         => Contract!Next
  BY <1>13 DEF Contract!Next
<1>15. QED
  BY <1>1, <1>2, <1>3, <1>4, <1>5, <1>7, <1>8, <1>9, <1>10, <1>11, <1>12, <1>14
  DEF Next, Pump, Run, Work, Close

\* Two stream controllers keep the contract of an RPC, for any calls, any
\* capacities and any faults: a request is executed at most once, a stream is
\* received as a prefix of what its handler sent, and success is reported only
\* for a success that was received as a whole.
THEOREM KeepsTheContract == Spec => ImplementsContract
<1>1. Init => Contract!Init
  <2> SUFFICES ASSUME Init PROVE Contract!Init
    OBVIOUS
  <2>1. \A c \in Call : /\ PhaseOf(c) = "idle" /\ OutcomeOf(c) = "none"
                        /\ Answered(c) = "none"
    BY DEF Init, PhaseOf, OutcomeOf, Answered
  <2>2. \A c \in Call : Received(c) = 0
    <3> SUFFICES ASSUME NEW c \in Call PROVE Received(c) = 0
      OBVIOUS
    <3>1. got[c] = <<>>
      BY DEF Init
    <3>2. {i \in DOMAIN got[c] : got[c][i].type = "streamMsg"} = {}
      BY <3>1
    <3>3. QED
      BY <3>2, FS_EmptySet DEF Received
  <2>3. QED
    BY <2>1, <2>2 DEF Init, Answered, Received, Contract!Init
<1>2. QED
  BY <1>1, InitTypeOK, NextTypeOK, InitBookkeeping, NextBookkeeping,
     InitDelivery, NextDelivery, NextContract, PTL
  DEF Spec, ImplementsContract, Contract!Spec
===============================================================================
