--------------------------- MODULE ForwardingProofs ---------------------------
(***************************************************************************)
(* Proofs about a hub that forwards RPCs, for any calls in both directions,*)
(* any length of their streams and any ends of the two streams: tags are   *)
(* routed, and the contract of an RPC holds from end to end.               *)
(*                                                                         *)
(* The parts of the invariant are operators of the values they relate, so  *)
(* that a step which leaves those values alone keeps them at once.         *)
(***************************************************************************)
EXTENDS Forwarding, FiniteSetTheorems, SequenceTheorems, TLAPS

\* The calls made at the peer of k.
Issued(k) == {d \in Call : Origin(d) = k /\ issuer[d] # "idle"}

\* The tags a peer gives its calls are theirs alone, and below the next one.
IssuerInv ==
  /\ \A k \in Link : IsFiniteSet(Issued(k))
  /\ \A c \in Call : issuer[c] # "idle" =>
       issuerTag[c] <= Earlier + Cardinality(Issued(Origin(c)))
  /\ \A c, d \in Call :
       /\ issuer[c] # "idle" /\ issuer[d] # "idle"
       /\ Origin(c) = Origin(d) /\ issuerTag[c] = issuerTag[d]
       => c = d

\* pendingRPCs of the hub's two controllers: one entry per tag and per call.
PendingInv ==
  \A k \in Link :
    /\ \A e \in pending[k] : e.tag <= count[k] /\ Target(e.call) = k
    /\ \A e, f \in pending[k] : e.tag = f.tag \/ e.call = f.call => e = f

Entries(P, c) == {e \in P : e.call = c}

\* The requests in the queue q of stream k, which is at st: each is the only one
\* of its call, carries its caller's tag, and its caller waits for the answer
\* as long as the stream is open.
RequestsOK(q, k, st, wk, is, it) ==
  \A i \in 1 .. Len(q) :
    q[i].type = "request" =>
      /\ Origin(q[i].call) = k /\ q[i].tag = it[q[i].call]
      /\ wk[q[i].call] = "none" /\ is[q[i].call] # "idle"
      /\ st = "open" => is[q[i].call] = "waiting"
      /\ \A j \in 1 .. Len(q) :
           q[j].type = "request" /\ q[j].call = q[i].call => i = j

\* The replies in the queue q of a stream whose controller has the entries P:
\* each has its entry; a response is its handler's answer, and the last reply
\* of its call.
RepliesOK(q, P, hd, an) ==
  \A i \in 1 .. Len(q) :
    q[i].type # "request" =>
      /\ [tag |-> q[i].tag, call |-> q[i].call] \in P
      /\ q[i].type = "streamMsg" => q[i].call \in Streaming
      /\ q[i].type = "response" =>
           /\ hd[q[i].call] = "answered" /\ q[i].status = an[q[i].call]
           /\ \A j \in 1 .. Len(q) :
                q[j].type # "request" /\ q[j].call = q[i].call => j <= i

LinkInv(k) ==
  /\ run[k] # "loop" => toHub[k] = <<>>
  /\ RequestsOK(toHub[k], k, stream[k], worker, issuer, issuerTag)
  /\ RepliesOK(toHub[k], pending[k], handler, answer)

\* handleRequest of c: it has the tag of the caller, who waits for it.
WorkerOK(c, wk, iv, rt, is, it, st) ==
  /\ wk # "none" => rt = it /\ is # "idle"
  /\ wk \in {"dispatch", "relay"} /\ st = "open" => is = "waiting"
  /\ wk \in {"none", "dispatch"} => iv = "none"
  /\ wk = "relay" => iv # "none"
  /\ iv \in {"await", "write"} /\ c \notin Streaming =>
       wk = "relay" /\ iv = "await"

WorkerInv(c) ==
  WorkerOK(c, worker[c], invoke[c], requestTag[c], issuer[c], issuerTag[c],
           stream[Origin(c)])

HasResponse(q) == \E i \in 1 .. Len(q) : q[i].type = "response"

\* The response to a call has come past Run of its target: it is in the future,
\* with the invoker, in responseC or in exitResponse.
Resolved(fu, iv, he, wr, ex) ==
  \/ HasResponse(fu) \/ HasResponse(wr)
  \/ iv = "write" /\ he.type = "response"
  \/ ex # "none"

\* The way of a reply to c through the hub: while its handler executes it has
\* an entry, en; before it is forwarded there is nothing of it; replies are its
\* own, and nothing of it follows its response.
HubOK(c, iv, en, rn, hd, ht, an, fu, he, wr, ex, sn, rc) ==
  /\ hd = "executing" /\ rn = "loop" => [tag |-> ht, call |-> c] \in en
  /\ iv = "none" => /\ fu = <<>> /\ wr = <<>> /\ ex = "none" /\ en = {}
                    /\ hd = "none" /\ an = "none" /\ sn = 0 /\ rc = 0
  /\ hd = "answered" <=> an # "none"
  /\ \A i \in 1 .. Len(fu) :
       fu[i].call = c /\ (c \in Streaming \/ fu[i].type = "response")
  /\ \A i \in 1 .. Len(wr) : wr[i].call = c
  /\ iv = "write" => he \in ReplyMsg /\ he.call = c
  /\ en # {} => ~Resolved(fu, iv, he, wr, ex)
  /\ iv = "write" /\ he.type = "response" => fu = <<>>
  /\ HasResponse(wr) => fu = <<>> /\ iv # "write"
  /\ ex # "none" => fu = <<>> /\ iv # "write" /\ wr = <<>>

HubInv(c) ==
  HubOK(c, invoke[c], Entries(pending[Target(c)], c), run[Target(c)],
        handler[c], handlerTag[c], answer[c], future[c], held[c], writer[c],
        exit[c], sent[c], received[c])

\* The number of messages of c's stream in q, and whether its success is in q.
Sum(q, c) ==
  Cardinality({i \in 1 .. Len(q) : q[i].type = "streamMsg" /\ q[i].call = c})

News(q, c) ==
  IF \E i \in 1 .. Len(q) :
       q[i].type # "request" /\ q[i].call = c /\ q[i].status = "ok"
    THEN 1 ELSE 0

Carried(iv, he) == IF iv = "write" /\ he.type = "streamMsg" THEN 1 ELSE 0

\* The messages of c's stream that Run of its target has passed on, and with
\* the n in the queue all that were received or are on their way.
Passed(c, fu, iv, he, wr, rc) ==
  Sum(fu, c) + Carried(iv, he) + Sum(wr, c) + rc

Total(c, n, fu, iv, he, wr, rc) == n + Passed(c, fu, iv, he, wr, rc)

\* The success of c is on its way, if g says whether it is in the queue.
Good(c, g, fu, iv, he, wr, ex) ==
  \/ g = 1 \/ News(fu, c) = 1 \/ News(wr, c) = 1
  \/ iv = "write" /\ he.status = "ok"
  \/ ex = "ok"

\* The stream of c: nothing of it is repeated; nothing is lost as long as both
\* streams are open and Run of its target is in its loop; and nothing was lost
\* if its success is on the way.
FlowOK(c, n, g, fu, iv, he, wr, ex, rc, sn, an, hd, so, st, rn) ==
  /\ c \notin Streaming => sn = 0
  /\ Total(c, n, fu, iv, he, wr, rc) <= sn
  /\ so = "open" /\ st = "open" /\ rn = "loop" /\ hd = "executing" =>
       Total(c, n, fu, iv, he, wr, rc) = sn
  /\ so = "open" /\ Good(c, g, fu, iv, he, wr, ex) =>
       an = "ok" /\ Total(c, n, fu, iv, he, wr, rc) = sn

FlowInv(c) ==
  FlowOK(c, Sum(toHub[Target(c)], c), News(toHub[Target(c)], c), future[c],
         invoke[c], held[c], writer[c], exit[c], received[c], sent[c],
         answer[c], handler[c], stream[Origin(c)], stream[Target(c)],
         run[Target(c)])

\* The inductive invariant.
Inv ==
  /\ TypeOK /\ stray = {}
  /\ IssuerInv /\ PendingInv
  /\ \A k \in Link : LinkInv(k)
  /\ \A c \in Call : WorkerInv(c) /\ HubInv(c) /\ FlowInv(c)

-------------------------------------------------------------------------------
(***************************************************************************)
(* Lemmas about links, sequences and counting.                             *)
(***************************************************************************)
LEMMA LinkFacts ==
  /\ \A k \in Link : Other(k) \in Link /\ Other(k) # k
  /\ \A c : Origin(c) \in Link /\ Target(c) \in Link /\ Target(c) # Origin(c)
BY DEF Link, Other, Origin, Target

\* The results of Append, Tail and SubSeq.
LEMMA SeqFacts ==
  ASSUME NEW S, NEW s \in Seq(S)
  PROVE  /\ Len(s) \in Nat /\ (s = <<>> <=> Len(s) = 0)
         /\ \A i \in 1 .. Len(s) : s[i] \in S
         /\ \A x \in S : /\ Append(s, x) \in Seq(S)
                         /\ Len(Append(s, x)) = Len(s) + 1
                         /\ \A i \in 1 .. Len(s) : Append(s, x)[i] = s[i]
                         /\ Append(s, x)[Len(s) + 1] = x
         /\ s # <<>> => /\ Head(s) \in S /\ Head(s) = s[1] /\ Len(s) >= 1
                        /\ Tail(s) \in Seq(S) /\ Len(Tail(s)) = Len(s) - 1
                        /\ \A i \in 1 .. Len(s) - 1 : Tail(s)[i] = s[i + 1]
         /\ \A k \in 0 .. Len(s) : /\ SubSeq(s, 1, k) \in Seq(S)
                                   /\ Len(SubSeq(s, 1, k)) = k
                                   /\ \A i \in 1 .. k :
                                        SubSeq(s, 1, k)[i] = s[i]
OBVIOUS

\* p is what q holds after its first s elements, or a beginning of that.
Window(p, q, s) ==
  \A i \in 1 .. Len(p) : i + s \in 1 .. Len(q) /\ p[i] = q[i + s]

\* The queues Tail and SubSeq leave behind.
LEMMA WindowFacts ==
  ASSUME NEW S, NEW q \in Seq(S)
  PROVE  /\ Window(<<>>, q, 0)
         /\ q # <<>> => Window(Tail(q), q, 1)
         /\ \A k \in 0 .. Len(q) : Window(SubSeq(q, 1, k), q, 0)
<1>1. Window(<<>>, q, 0)
  BY DEF Window
<1>2. ASSUME q # <<>>
      PROVE  Window(Tail(q), q, 1)
  <2>1. /\ Len(q) \in Nat /\ Len(Tail(q)) = Len(q) - 1
        /\ \A i \in 1 .. Len(q) - 1 : Tail(q)[i] = q[i + 1]
    BY <1>2, SeqFacts
  <2>2. QED
    BY <2>1 DEF Window
<1>3. ASSUME NEW k \in 0 .. Len(q)
      PROVE  Window(SubSeq(q, 1, k), q, 0)
  <2>1. /\ Len(q) \in Nat /\ Len(SubSeq(q, 1, k)) = k
        /\ \A i \in 1 .. k : SubSeq(q, 1, k)[i] = q[i]
    BY SeqFacts
  <2>2. QED
    BY <2>1 DEF Window
<1>4. QED
  BY <1>1, <1>2, <1>3

\* The positions Sum counts.
StreamAt(q, c) ==
  {i \in 1 .. Len(q) : q[i].type = "streamMsg" /\ q[i].call = c}

LEMMA SumType ==
  ASSUME NEW S, NEW q \in Seq(S), NEW c
  PROVE  /\ IsFiniteSet(StreamAt(q, c)) /\ Sum(q, c) \in Nat
         /\ Sum(q, c) = Cardinality(StreamAt(q, c))
         /\ (\A i \in 1 .. Len(q) : ~(q[i].type = "streamMsg" /\ q[i].call = c))
              <=> Sum(q, c) = 0
<1>1. Len(q) \in Nat
  BY SeqFacts
<1>2. IsFiniteSet(1 .. Len(q))
  BY <1>1, FS_Interval
<1>3. StreamAt(q, c) \in SUBSET (1 .. Len(q))
  BY DEF StreamAt
<1>4. IsFiniteSet(StreamAt(q, c))
  BY <1>2, <1>3, FS_Subset
<1>5. Sum(q, c) = Cardinality(StreamAt(q, c))
  BY DEF Sum, StreamAt
<1>6. Sum(q, c) \in Nat
  BY <1>4, <1>5, FS_CardinalityType
<1>7. Sum(q, c) = 0 <=> StreamAt(q, c) = {}
  BY <1>4, <1>5, FS_EmptySet
<1>8. QED
  BY <1>4, <1>5, <1>6, <1>7 DEF StreamAt

\* One more message counts if it is of the stream.
LEMMA SumAppend ==
  ASSUME NEW S, NEW q \in Seq(S), NEW m \in S, NEW c
  PROVE  Sum(Append(q, m), c) =
           Sum(q, c) + (IF m.type = "streamMsg" /\ m.call = c THEN 1 ELSE 0)
<1> DEFINE p == Append(q, m)
<1>1. /\ p \in Seq(S) /\ Len(q) \in Nat /\ Len(p) = Len(q) + 1
      /\ \A i \in 1 .. Len(q) : p[i] = q[i]
      /\ p[Len(q) + 1] = m
  BY SeqFacts
<1> HIDE DEF p
<1>2. CASE m.type = "streamMsg" /\ m.call = c
  <2>1. StreamAt(p, c) = StreamAt(q, c) \cup {Len(q) + 1}
    BY <1>1, <1>2 DEF StreamAt
  <2>2. Len(q) + 1 \notin StreamAt(q, c)
    BY <1>1 DEF StreamAt
  <2>3. Sum(p, c) = Sum(q, c) + 1
    BY <1>1, <2>1, <2>2, SumType, FS_AddElement
  <2>4. QED
    BY <1>2, <2>3 DEF p
<1>3. CASE ~(m.type = "streamMsg" /\ m.call = c)
  <2>1. StreamAt(p, c) = StreamAt(q, c)
    BY <1>1, <1>3 DEF StreamAt
  <2>2. Sum(p, c) = Sum(q, c) /\ Sum(q, c) \in Nat
    BY <1>1, <2>1, SumType
  <2>3. QED
    BY <1>3, <2>2 DEF p
<1>4. QED
  BY <1>2, <1>3

\* The head of a queue counts if it is of the stream.
LEMMA SumTail ==
  ASSUME NEW S, NEW q \in Seq(S), q # <<>>, NEW c
  PROVE  Sum(q, c) = Sum(Tail(q), c)
           + (IF Head(q).type = "streamMsg" /\ Head(q).call = c THEN 1 ELSE 0)
<1> DEFINE p == Tail(q)
           A == StreamAt(p, c)
           B == StreamAt(q, c) \ {1}
<1>1. /\ p \in Seq(S) /\ Len(q) \in Nat /\ Len(q) >= 1
      /\ Len(p) = Len(q) - 1 /\ Head(q) = q[1]
      /\ \A i \in 1 .. Len(q) - 1 : p[i] = q[i + 1]
  BY SeqFacts
<1> HIDE DEF p
<1>2. \A i \in A : i + 1 \in B /\ i \in Nat
  BY <1>1 DEF StreamAt
<1>3. \A i \in B : i - 1 \in A /\ i \in Nat
  <2> SUFFICES ASSUME NEW i \in B
               PROVE  i - 1 \in A /\ i \in Nat
    OBVIOUS
  <2>1. /\ i \in 1 .. Len(q) /\ i # 1
        /\ q[i].type = "streamMsg" /\ q[i].call = c
    BY DEF StreamAt
  <2>2. i - 1 \in 1 .. Len(p) /\ (i - 1) + 1 = i /\ i \in Nat
    BY <1>1, <2>1
  <2>3. p[i - 1] = q[i]
    BY <1>1, <2>2
  <2>4. QED
    BY <2>1, <2>2, <2>3 DEF StreamAt
<1>4. ExistsBijection(A, B)
  <2> DEFINE f == [i \in A |-> i + 1]
  <2>1. f \in [A -> B]
    BY <1>2
  <2>2. \A i, j \in A : f[i] = f[j] => i = j
    BY <1>2
  <2>3. \A j \in B : \E i \in A : f[i] = j
    <3> SUFFICES ASSUME NEW j \in B
                 PROVE  \E i \in A : f[i] = j
      OBVIOUS
    <3>1. j - 1 \in A /\ (j - 1) + 1 = j
      BY <1>3
    <3>2. f[j - 1] = j
      BY <3>1
    <3>3. QED
      BY <3>1, <3>2
  <2> HIDE DEF f, A, B
  <2>4. f \in Bijection(A, B)
    BY <2>1, <2>2, <2>3 DEF Bijection, Injection, Surjection, IsInjective
  <2>5. QED
    BY <2>4 DEF ExistsBijection
<1>5. IsFiniteSet(A) /\ Cardinality(B) = Cardinality(A)
  <2>1. IsFiniteSet(A)
    BY <1>1, SumType
  <2> HIDE DEF A, B
  <2>2. QED
    BY <1>4, <2>1, FS_Bijection
<1>6. /\ IsFiniteSet(StreamAt(q, c))
      /\ Sum(q, c) = Cardinality(StreamAt(q, c)) /\ Sum(q, c) \in Nat
      /\ Sum(p, c) = Cardinality(A) /\ Sum(p, c) \in Nat
  BY <1>1, SumType
<1>7. Cardinality(B) = IF 1 \in StreamAt(q, c) THEN Sum(q, c) - 1
                                               ELSE Sum(q, c)
  BY <1>6, FS_RemoveElement
<1>8. 1 \in StreamAt(q, c) <=> Head(q).type = "streamMsg" /\ Head(q).call = c
  BY <1>1 DEF StreamAt
<1>9. Sum(q, c) = Sum(p, c)
        + (IF Head(q).type = "streamMsg" /\ Head(q).call = c THEN 1 ELSE 0)
  <2> HIDE DEF A, B
  <2>1. QED
    BY <1>5, <1>6, <1>7, <1>8
<1>10. QED
  BY <1>9 DEF p

\* A beginning of a queue has no more of a stream, and as much if it has all of
\* its positions.
LEMMA SumPrefix ==
  ASSUME NEW S, NEW q \in Seq(S), NEW c, NEW k \in 0 .. Len(q)
  PROVE  /\ Sum(SubSeq(q, 1, k), c) <= Sum(q, c)
         /\ (\A i \in 1 .. Len(q) :
               q[i].type = "streamMsg" /\ q[i].call = c => i <= k)
              => Sum(SubSeq(q, 1, k), c) = Sum(q, c)
<1> DEFINE p == SubSeq(q, 1, k)
<1>1. /\ p \in Seq(S) /\ Len(q) \in Nat /\ Len(p) = k
      /\ \A i \in 1 .. k : p[i] = q[i]
  BY SeqFacts
<1> HIDE DEF p
<1>2. StreamAt(p, c) \in SUBSET StreamAt(q, c)
  BY <1>1 DEF StreamAt
<1>3. /\ Sum(p, c) = Cardinality(StreamAt(p, c))
      /\ Sum(q, c) = Cardinality(StreamAt(q, c))
      /\ IsFiniteSet(StreamAt(q, c))
  BY <1>1, SumType
<1>4. Sum(p, c) <= Sum(q, c)
  BY <1>2, <1>3, FS_Subset
<1>5. ASSUME \A i \in 1 .. Len(q) :
               q[i].type = "streamMsg" /\ q[i].call = c => i <= k
      PROVE  Sum(p, c) = Sum(q, c)
  <2>1. StreamAt(p, c) = StreamAt(q, c)
    BY <1>1, <1>5 DEF StreamAt
  <2>2. QED
    BY <1>3, <2>1
<1>6. QED
  BY <1>4, <1>5 DEF p

-------------------------------------------------------------------------------
(***************************************************************************)
(* Lemmas about the parts of the invariant.                                *)
(***************************************************************************)
\* The messages a queue of the hub may hold.
WireMsg == RequestMsg \cup ReplyMsg

LEMMA RequestsShrink ==
  ASSUME NEW p \in Seq(WireMsg), NEW q \in Seq(WireMsg), NEW s \in Nat,
         Window(p, q, s),
         NEW k, NEW st, NEW wk, NEW is, NEW it,
         RequestsOK(q, k, st, wk, is, it)
  PROVE  RequestsOK(p, k, st, wk, is, it)
<1> SUFFICES ASSUME NEW i \in 1 .. Len(p), p[i].type = "request"
             PROVE  /\ Origin(p[i].call) = k /\ p[i].tag = it[p[i].call]
                    /\ wk[p[i].call] = "none" /\ is[p[i].call] # "idle"
                    /\ st = "open" => is[p[i].call] = "waiting"
                    /\ \A j \in 1 .. Len(p) :
                         p[j].type = "request" /\ p[j].call = p[i].call
                         => i = j
  BY DEF RequestsOK
<1>1. i + s \in 1 .. Len(q) /\ p[i] = q[i + s]
  BY DEF Window
<1>2. ASSUME NEW j \in 1 .. Len(p),
             p[j].type = "request", p[j].call = p[i].call
      PROVE  i = j
  <2>1. j + s \in 1 .. Len(q) /\ p[j] = q[j + s]
    BY DEF Window
  <2>2. i + s = j + s
    BY <1>1, <1>2, <2>1 DEF RequestsOK
  <2>3. Len(p) \in Nat
    BY SeqFacts
  <2>4. QED
    BY <2>2, <2>3
<1>3. QED
  BY <1>1, <1>2 DEF RequestsOK

\* What happens to other calls does not matter.
LEMMA RequestsKeep ==
  ASSUME NEW q, NEW k, NEW st, NEW wk, NEW is, NEW it,
         RequestsOK(q, k, st, wk, is, it),
         NEW wk2, NEW is2, NEW it2, NEW st2,
         \A i \in 1 .. Len(q) : q[i].type = "request" =>
           /\ wk2[q[i].call] = "none" /\ is2[q[i].call] # "idle"
           /\ it2[q[i].call] = it[q[i].call]
           /\ st2 = "open" => is2[q[i].call] = "waiting"
  PROVE  RequestsOK(q, k, st2, wk2, is2, it2)
BY DEF RequestsOK

LEMMA RepliesShrink ==
  ASSUME NEW p \in Seq(WireMsg), NEW q \in Seq(WireMsg), NEW s \in Nat,
         Window(p, q, s),
         NEW P, NEW hd, NEW an, RepliesOK(q, P, hd, an)
  PROVE  RepliesOK(p, P, hd, an)
<1> SUFFICES ASSUME NEW i \in 1 .. Len(p), p[i].type # "request"
             PROVE  /\ [tag |-> p[i].tag, call |-> p[i].call] \in P
                    /\ p[i].type = "streamMsg" => p[i].call \in Streaming
                    /\ p[i].type = "response" =>
                         /\ hd[p[i].call] = "answered"
                         /\ p[i].status = an[p[i].call]
                         /\ \A j \in 1 .. Len(p) :
                              p[j].type # "request" /\ p[j].call = p[i].call
                              => j <= i
  BY DEF RepliesOK
<1>1. i + s \in 1 .. Len(q) /\ p[i] = q[i + s]
  BY DEF Window
<1>2. ASSUME NEW j \in 1 .. Len(p), p[i].type = "response",
             p[j].type # "request", p[j].call = p[i].call
      PROVE  j <= i
  <2>1. j + s \in 1 .. Len(q) /\ p[j] = q[j + s]
    BY DEF Window
  <2>2. j + s <= i + s
    BY <1>1, <1>2, <2>1 DEF RepliesOK
  <2>3. Len(p) \in Nat
    BY SeqFacts
  <2>4. QED
    BY <2>2, <2>3
<1>3. QED
  BY <1>1, <1>2 DEF RepliesOK

\* A call without an entry has no reply in the queue.
LEMMA NoEntryNoReply ==
  ASSUME NEW q \in Seq(WireMsg), NEW P, NEW hd, NEW an, RepliesOK(q, P, hd, an),
         NEW c, Entries(P, c) = {}
  PROVE  /\ \A i \in 1 .. Len(q) : q[i].type # "request" => q[i].call # c
         /\ Sum(q, c) = 0 /\ News(q, c) = 0
<1>1. ASSUME NEW i \in 1 .. Len(q), q[i].type # "request", q[i].call = c
      PROVE  FALSE
  <2>1. [tag |-> q[i].tag, call |-> q[i].call] \in P
    BY <1>1 DEF RepliesOK
  <2>2. [tag |-> q[i].tag, call |-> q[i].call].call = c
    BY <1>1
  <2>3. QED
    BY <2>1, <2>2 DEF Entries
<1>2. \A i \in 1 .. Len(q) : ~(q[i].type = "streamMsg" /\ q[i].call = c)
  BY <1>1
<1>3. Sum(q, c) = 0
  BY <1>2, SumType
<1>4. News(q, c) = 0
  BY <1>1 DEF News
<1>5. QED
  BY <1>1, <1>3, <1>4

\* Success is in a queue that has grown or shrunk only if it was or came.
LEMMA NewsFacts ==
  ASSUME NEW S, NEW q \in Seq(S), NEW c
  PROVE  /\ News(<<>>, c) = 0 /\ News(q, c) \in {0, 1}
         /\ \A p, s : Window(p, q, s) /\ News(p, c) = 1 => News(q, c) = 1
         /\ \A m \in S :
              News(Append(q, m), c) =
                IF m.type # "request" /\ m.call = c /\ m.status = "ok"
                  THEN 1 ELSE News(q, c)
<1>1. News(<<>>, c) = 0 /\ News(q, c) \in {0, 1}
  BY DEF News
<1>2. ASSUME NEW p, NEW s, Window(p, q, s), News(p, c) = 1
      PROVE  News(q, c) = 1
  <2>1. PICK i \in 1 .. Len(p) :
          p[i].type # "request" /\ p[i].call = c /\ p[i].status = "ok"
    BY <1>2 DEF News
  <2>2. i + s \in 1 .. Len(q) /\ p[i] = q[i + s]
    BY <1>2 DEF Window
  <2>3. QED
    BY <2>1, <2>2 DEF News
<1>3. ASSUME NEW m \in S
      PROVE  News(Append(q, m), c) =
               IF m.type # "request" /\ m.call = c /\ m.status = "ok"
                 THEN 1 ELSE News(q, c)
  <2> DEFINE p == Append(q, m)
  <2>1. /\ p \in Seq(S) /\ Len(q) \in Nat /\ Len(p) = Len(q) + 1
        /\ \A i \in 1 .. Len(q) : p[i] = q[i]
        /\ p[Len(q) + 1] = m
    BY SeqFacts
  <2> HIDE DEF p
  <2>2. CASE m.type # "request" /\ m.call = c /\ m.status = "ok"
    <3>1. Len(q) + 1 \in 1 .. Len(p)
      BY <2>1
    <3>2. News(p, c) = 1
      BY <2>1, <2>2, <3>1 DEF News
    <3>3. QED
      BY <2>2, <3>2 DEF p
  <2>3. CASE ~(m.type # "request" /\ m.call = c /\ m.status = "ok")
    <3>1. \A i \in 1 .. Len(p) : i \in 1 .. Len(q) \/ i = Len(q) + 1
      BY <2>1
    <3>2. \A i \in 1 .. Len(q) : i \in 1 .. Len(p)
      BY <2>1
    <3>3. News(p, c) = News(q, c)
      BY <2>1, <2>3, <3>1, <3>2 DEF News
    <3>4. QED
      BY <2>3, <3>3 DEF p
  <2>4. QED
    BY <2>2, <2>3
<1>4. QED
  BY <1>1, <1>2, <1>3

\* The empty queue.
LEMMA EmptyQueue ==
  /\ <<>> \in Seq(WireMsg) /\ <<>> \in Seq(ReplyMsg)
  /\ Len(<<>>) = 0 /\ 1 .. 0 = {}
  /\ \A c : Sum(<<>>, c) = 0 /\ News(<<>>, c) = 0
  /\ ~HasResponse(<<>>)
  /\ \A k, st, wk, is, it : RequestsOK(<<>>, k, st, wk, is, it)
  /\ \A P, hd, an : RepliesOK(<<>>, P, hd, an)
<1>1. /\ <<>> \in Seq(WireMsg) /\ <<>> \in Seq(ReplyMsg)
      /\ Len(<<>>) = 0 /\ 1 .. 0 = {}
  OBVIOUS
<1>2. ASSUME NEW c
      PROVE  Sum(<<>>, c) = 0 /\ News(<<>>, c) = 0
  <2>1. Sum(<<>>, c) = 0
    BY <1>1, SumType
  <2>2. QED
    BY <2>1, <1>1, NewsFacts
<1>3. ~HasResponse(<<>>)
  BY <1>1 DEF HasResponse
<1>4. \A k, st, wk, is, it : RequestsOK(<<>>, k, st, wk, is, it)
  BY <1>1 DEF RequestsOK
<1>5. \A P, hd, an : RepliesOK(<<>>, P, hd, an)
  BY <1>1 DEF RepliesOK
<1>6. QED
  BY <1>1, <1>2, <1>3, <1>4, <1>5

\* A step that makes no call keeps the callers' tags.
LEMMA IssuerKeep ==
  ASSUME IssuerInv, issuerTag' = issuerTag,
         \A d \in Call : issuer'[d] = "idle" <=> issuer[d] = "idle"
  PROVE  IssuerInv'
<1>1. \A k \in Link : Issued(k)' = Issued(k)
  BY DEF Issued
<1>2. \A c \in Call : Issued(Origin(c))' = Issued(Origin(c))
  BY <1>1, LinkFacts
<1>3. QED
  BY <1>1, <1>2 DEF IssuerInv

\* A step about c alone that touches no queue and no entry.
OthersSame(c) ==
  \A d \in Call : d # c =>
    /\ worker'[d] = worker[d] /\ invoke'[d] = invoke[d] /\ held'[d] = held[d]
    /\ future'[d] = future[d] /\ writer'[d] = writer[d] /\ exit'[d] = exit[d]
    /\ issuer'[d] = issuer[d] /\ received'[d] = received[d]

LEMMA HubFrame ==
  ASSUME Inv, NEW c \in Call, TypeOK',
         UNCHANGED <<stream, toHub, count, pending, run, requestTag, issuerTag,
                     answer, sent, handler, handlerTag, stray>>,
         OthersSame(c), worker[c] # "none",
         issuer'[c] # "idle", issuer[c] # "idle",
         WorkerInv(c)', HubInv(c)', FlowInv(c)'
  PROVE  Inv'
<1>1. IssuerInv'
  BY IssuerKeep DEF Inv, OthersSame
<1>2. PendingInv'
  BY DEF Inv, PendingInv
<1>3. ASSUME NEW k \in Link
      PROVE  LinkInv(k)'
  <2>1. /\ RequestsOK(toHub[k], k, stream[k], worker, issuer, issuerTag)
        /\ toHub[k] \in Seq(WireMsg)
    <3>1. RequestsOK(toHub[k], k, stream[k], worker, issuer, issuerTag)
      BY DEF Inv, LinkInv
    <3>2. toHub \in [Link -> Seq(WireMsg)]
      BY DEF Inv, TypeOK, WireMsg
    <3>3. QED
      BY <3>1, <3>2
  <2>2. ASSUME NEW i \in 1 .. Len(toHub[k]), toHub[k][i].type = "request"
        PROVE  /\ worker'[toHub[k][i].call] = "none"
               /\ issuer'[toHub[k][i].call] # "idle"
               /\ stream[k] = "open" => issuer'[toHub[k][i].call] = "waiting"
    <3>1. toHub[k][i].call \in Call
      BY <2>1, SeqFacts DEF WireMsg, RequestMsg, ReplyMsg
    <3>2. /\ worker[toHub[k][i].call] = "none"
          /\ issuer[toHub[k][i].call] # "idle"
          /\ stream[k] = "open" => issuer[toHub[k][i].call] = "waiting"
      BY <2>1, <2>2 DEF RequestsOK
    <3>3. QED
      BY <3>1, <3>2 DEF OthersSame
  <2>3. RequestsOK(toHub[k], k, stream[k], worker', issuer', issuerTag)
    BY <2>1, <2>2, RequestsKeep
  <2>4. QED
    BY <2>3 DEF Inv, LinkInv
<1>4. ASSUME NEW d \in Call, d # c
      PROVE  (WorkerInv(d) /\ HubInv(d) /\ FlowInv(d))'
  BY <1>4 DEF Inv, OthersSame, WorkerInv, HubInv, FlowInv
<1>5. QED
  BY <1>1, <1>2, <1>3, <1>4 DEF Inv

\* A reply sent to the caller of c reaches it and nobody else, as long as the
\* stream is open.
LEMMA SendReply ==
  ASSUME Inv, NEW c \in Call, worker[c] \in {"dispatch", "relay"},
         NEW ty \in {"streamMsg", "response"},
         NEW s \in {"none", "ok", "error"}, ty = "response" => s # "none",
         Send(Origin(c), Msg(ty, requestTag[c], c, s))
  PROVE  /\ kick' \in [Link -> BOOLEAN]
         /\ UNCHANGED <<stray, handler, handlerTag>>
         /\ received' \in [Call -> Nat]
         /\ issuer' \in [Call -> {"idle", "waiting", "ok", "error"}]
         /\ \A d \in Call : d # c =>
              received'[d] = received[d] /\ issuer'[d] = issuer[d]
         /\ \/ /\ stream[Origin(c)] = "open" /\ issuer[c] = "waiting"
               /\ received'[c] = IF ty = "streamMsg" THEN received[c] + 1
                                                    ELSE received[c]
               /\ issuer'[c] = IF ty = "response" THEN s ELSE issuer[c]
            \/ /\ stream[Origin(c)] # "open"
               /\ UNCHANGED <<received, issuer>>
<1> DEFINE k == Origin(c)
           m == Msg(ty, requestTag[c], c, s)
<1>1. /\ m.type = ty /\ m.tag = requestTag[c] /\ m.call = c /\ m.status = s
      /\ m.type # "request"
  BY DEF Msg
<1>2. /\ kick \in [Link -> BOOLEAN] /\ k \in Link
      /\ received \in [Call -> Nat]
      /\ issuer \in [Call -> {"idle", "waiting", "ok", "error"}]
  BY LinkFacts DEF Inv, TypeOK
<1>3. /\ requestTag[c] = issuerTag[c] /\ issuer[c] # "idle"
      /\ stream[k] = "open" => issuer[c] = "waiting"
  BY DEF Inv, WorkerInv, WorkerOK
<1> HIDE DEF m
<1>4. CASE stream[k] = "open"
  <2>1. PeerRecv(k, m) /\ UNCHANGED kick
    BY <1>4 DEF Send, m
  <2>2. IssuerOf(k, m.tag) = {c}
    <3>1. c \in IssuerOf(k, m.tag)
      BY <1>1, <1>3, <1>4 DEF IssuerOf
    <3>2. ASSUME NEW d \in IssuerOf(k, m.tag)
          PROVE  d = c
      <4>1. /\ d \in Call /\ Origin(d) = k /\ issuer[d] = "waiting"
            /\ issuerTag[d] = issuerTag[c]
        BY <1>1, <1>3 DEF IssuerOf
      <4>2. QED
        BY <1>3, <4>1 DEF Inv, IssuerInv
    <3>3. QED
      BY <3>1, <3>2
  <2>3. /\ stray' = stray
        /\ received' = [d \in Call |-> received[d] +
             (IF ty = "streamMsg" /\ d \in {c} THEN 1 ELSE 0)]
        /\ issuer' = [d \in Call |->
             IF ty = "response" /\ d \in {c} THEN s ELSE issuer[d]]
        /\ UNCHANGED <<handler, handlerTag>>
    BY <1>1, <2>1, <2>2 DEF PeerRecv
  <2>4. ASSUME NEW d \in Call
        PROVE  /\ received'[d] = received[d] +
                    (IF ty = "streamMsg" /\ d \in {c} THEN 1 ELSE 0)
               /\ received[d] \in Nat
    BY <1>2, <2>3
  <2>5. /\ received' \in [Call -> Nat]
        /\ \A d \in Call : d # c => received'[d] = received[d]
        /\ received'[c] = IF ty = "streamMsg" THEN received[c] + 1
                                             ELSE received[c]
    <3>1. \A d \in Call : received'[d] \in Nat
      BY <2>4
    <3>2. \A d \in Call : d # c => received'[d] = received[d]
      BY <2>4
    <3>3. received'[c] = IF ty = "streamMsg" THEN received[c] + 1
                                            ELSE received[c]
      BY <2>4
    <3>4. QED
      BY <2>3, <3>1, <3>2, <3>3
  <2>6. /\ issuer' \in [Call -> {"idle", "waiting", "ok", "error"}]
        /\ \A d \in Call : d # c => issuer'[d] = issuer[d]
        /\ issuer'[c] = IF ty = "response" THEN s ELSE issuer[c]
    BY <1>2, <2>3
  <2>7. QED
    BY <1>2, <1>3, <1>4, <2>1, <2>3, <2>5, <2>6
<1>5. CASE stream[k] # "open"
  BY <1>2, <1>5 DEF Send, Kick, peerVars
<1>6. QED
  BY <1>4, <1>5

-------------------------------------------------------------------------------
(***************************************************************************)
(* handleRequest and the invokers.                                         *)
(***************************************************************************)
\* What Inv says of one call.
LEMMA CallFacts ==
  ASSUME Inv, NEW c \in Call
  PROVE  /\ future[c] \in Seq(ReplyMsg) /\ writer[c] \in Seq(ReplyMsg)
         /\ Len(future[c]) \in {0, 1} /\ Len(writer[c]) \in {0, 1}
         /\ held[c] \in ReplyMsg \cup {NoMsg}
         /\ exit[c] \in {"none", "ok", "error"}
         /\ worker[c] \in {"none", "dispatch", "relay", "done"}
         /\ invoke[c] \in {"none", "await", "write", "done"}
         /\ received[c] \in Nat /\ sent[c] \in Nat
         /\ Origin(c) \in Link /\ Target(c) \in Link
         /\ toHub[Target(c)] \in Seq(WireMsg)
         /\ WorkerInv(c) /\ HubInv(c) /\ FlowInv(c)
<1>1. /\ future[c] \in Seq(ReplyMsg) /\ writer[c] \in Seq(ReplyMsg)
      /\ Len(future[c]) <= 1 /\ Len(writer[c]) <= 1
  BY DEF Inv, TypeOK, ChanCap
<1>2. Len(future[c]) \in {0, 1} /\ Len(writer[c]) \in {0, 1}
  <2>1. \A n \in Nat : n <= 1 => n \in {0, 1}
    OBVIOUS
  <2>2. Len(future[c]) \in Nat /\ Len(writer[c]) \in Nat
    BY <1>1, SeqFacts
  <2>3. QED
    BY <1>1, <2>1, <2>2
<1>3. Origin(c) \in Link /\ Target(c) \in Link
  BY LinkFacts
<1>4. /\ held[c] \in ReplyMsg \cup {NoMsg}
      /\ exit[c] \in {"none", "ok", "error"}
      /\ worker[c] \in {"none", "dispatch", "relay", "done"}
      /\ invoke[c] \in {"none", "await", "write", "done"}
      /\ received[c] \in Nat /\ sent[c] \in Nat
  BY DEF Inv, TypeOK
<1>5. toHub[Target(c)] \in Seq(WireMsg)
  BY <1>3 DEF Inv, TypeOK, WireMsg
<1>6. WorkerInv(c) /\ HubInv(c) /\ FlowInv(c)
  BY DEF Inv
<1>7. QED
  BY <1>1, <1>2, <1>3, <1>4, <1>5, <1>6

\* A reply is a message of a stream, or a response whose status GetStatus reads
\* as success or failure.
LEMMA ReplyFacts ==
  ASSUME NEW m \in ReplyMsg
  PROVE  /\ m.type \in {"streamMsg", "response"} /\ m.call \in Call
         /\ m.tag \in Nat
         /\ m.type = "streamMsg" => m.status = "none"
         /\ m.type = "response" => /\ m.status \in {"nil", "ok", "error"}
                                   /\ GetStatus(m) \in {"ok", "error"}
                                   /\ GetStatus(m) = "ok" <=> m.status = "ok"
BY DEF ReplyMsg, GetStatus

\* The sum of the parts.
LEMMA TotalType ==
  ASSUME NEW c, NEW n \in Nat, NEW rc \in Nat, NEW fu \in Seq(ReplyMsg),
         NEW wr \in Seq(ReplyMsg), NEW iv, NEW he
  PROVE  /\ Sum(fu, c) \in Nat /\ Sum(wr, c) \in Nat /\ Carried(iv, he) \in Nat
         /\ Passed(c, fu, iv, he, wr, rc) \in Nat
         /\ Total(c, n, fu, iv, he, wr, rc) \in Nat
         /\ rc <= Total(c, n, fu, iv, he, wr, rc)
<1>1. Sum(fu, c) \in Nat /\ Sum(wr, c) \in Nat
  BY SumType
<1>2. Carried(iv, he) \in Nat
  BY DEF Carried
<1>3. /\ Passed(c, fu, iv, he, wr, rc) \in Nat
      /\ rc <= Passed(c, fu, iv, he, wr, rc)
  BY <1>1, <1>2 DEF Passed
<1>4. QED
  BY <1>1, <1>2, <1>3 DEF Total

\* One slot: what is taken leaves it empty, what is put in is alone.
LEMMA SlotFacts ==
  ASSUME NEW q \in Seq(ReplyMsg), Len(q) \in {0, 1}
  PROVE  /\ q # <<>> =>
              /\ Head(q) \in ReplyMsg /\ Head(q) = q[1] /\ 1 \in 1 .. Len(q)
              /\ Tail(q) = <<>>
              /\ HasResponse(q) <=> Head(q).type = "response"
              /\ \A c : News(q, c) =
                   IF Head(q).call = c /\ Head(q).status = "ok" THEN 1 ELSE 0
              /\ \A c : Sum(q, c) =
                   IF Head(q).type = "streamMsg" /\ Head(q).call = c
                     THEN 1 ELSE 0
         /\ Len(q) < 1 => q = <<>>
         /\ \A m \in ReplyMsg : q = <<>> =>
              /\ Append(q, m) \in Seq(ReplyMsg) /\ Append(q, m) # <<>>
              /\ Len(Append(q, m)) = 1 /\ Head(Append(q, m)) = m
<1>1. ASSUME q # <<>>
      PROVE  /\ Head(q) \in ReplyMsg /\ Head(q) = q[1] /\ 1 \in 1 .. Len(q)
             /\ Tail(q) = <<>> /\ Len(q) = 1
  <2>1. Len(q) = 1
    BY <1>1, SeqFacts
  <2>2. /\ Head(q) \in ReplyMsg /\ Head(q) = q[1]
        /\ Tail(q) \in Seq(ReplyMsg) /\ Len(Tail(q)) = 0
    BY <1>1, <2>1, SeqFacts
  <2>3. Tail(q) = <<>>
    BY <2>2, SeqFacts
  <2>4. QED
    BY <2>1, <2>2, <2>3
<1>2. ASSUME q # <<>>
      PROVE  HasResponse(q) <=> Head(q).type = "response"
  <2>1. Len(q) = 1 /\ Head(q) = q[1] /\ 1 .. 1 = {1}
    BY <1>1, <1>2
  <2>2. HasResponse(q) <=> \E i \in {1} : q[i].type = "response"
    BY <2>1, Zenon DEF HasResponse
  <2>3. QED
    BY <2>1, <2>2
<1>3. ASSUME q # <<>>, NEW c
      PROVE  News(q, c) =
               IF Head(q).call = c /\ Head(q).status = "ok" THEN 1 ELSE 0
  <2>1. q[1].type # "request"
    BY <1>1, <1>3, ReplyFacts
  <2>2. Len(q) = 1 /\ Head(q) = q[1] /\ 1 .. 1 = {1}
    BY <1>1, <1>3
  <2>3. (\E i \in 1 .. Len(q) :
           q[i].type # "request" /\ q[i].call = c /\ q[i].status = "ok")
        <=> Head(q).call = c /\ Head(q).status = "ok"
    BY <2>1, <2>2
  <2>4. QED
    BY <2>3 DEF News
<1>4. ASSUME q # <<>>, NEW c
      PROVE  Sum(q, c) = IF Head(q).type = "streamMsg" /\ Head(q).call = c
                           THEN 1 ELSE 0
  <2>1. Sum(q, c) = Sum(Tail(q), c)
          + (IF Head(q).type = "streamMsg" /\ Head(q).call = c THEN 1 ELSE 0)
    BY <1>4, SumTail
  <2>2. Sum(Tail(q), c) = 0
    BY <1>1, <1>4, EmptyQueue
  <2>3. QED
    BY <2>1, <2>2
<1>5. Len(q) < 1 => q = <<>>
  BY SeqFacts
<1>6. ASSUME NEW m \in ReplyMsg, q = <<>>
      PROVE  /\ Append(q, m) \in Seq(ReplyMsg) /\ Append(q, m) # <<>>
             /\ Len(Append(q, m)) = 1 /\ Head(Append(q, m)) = m
  BY <1>6
<1>7. QED
  BY <1>1, <1>2, <1>3, <1>4, <1>5, <1>6

\* The stream of c is kept by a step that keeps its total and brings no success.
LEMMA FlowMoved ==
  ASSUME NEW c, NEW n, NEW g, NEW fu, NEW iv, NEW he, NEW wr, NEW ex, NEW rc,
         NEW sn, NEW an, NEW hd, NEW so, NEW st, NEW rn,
         FlowOK(c, n, g, fu, iv, he, wr, ex, rc, sn, an, hd, so, st, rn),
         NEW n2, NEW g2, NEW fu2, NEW iv2, NEW he2, NEW wr2, NEW ex2, NEW rc2,
         Total(c, n2, fu2, iv2, he2, wr2, rc2) = Total(c, n, fu, iv, he, wr, rc),
         Good(c, g2, fu2, iv2, he2, wr2, ex2) => Good(c, g, fu, iv, he, wr, ex)
  PROVE  FlowOK(c, n2, g2, fu2, iv2, he2, wr2, ex2, rc2, sn, an, hd, so, st, rn)
BY DEF FlowOK

LEMMA RelayCtxDoneKeeps ==
  ASSUME Inv, NEW c \in Call, RelayCtxDone(c)
  PROVE  Inv'
<1> USE DEF RelayCtxDone, linkVars, ctrlVars, remoteVars, peerVars
<1>1. TypeOK'
  BY DEF Inv, TypeOK
<1>2. OthersSame(c) /\ worker[c] # "none"
  BY DEF Inv, TypeOK, OthersSame
<1>3. WorkerInv(c) /\ HubInv(c) /\ FlowInv(c)
  BY CallFacts
<1>4. worker'[c] = "done" /\ c \in Streaming
  BY DEF Inv, TypeOK
<1>5. WorkerInv(c)' /\ issuer[c] # "idle"
  BY <1>3, <1>4 DEF WorkerInv, WorkerOK
<1>6. HubInv(c)' /\ FlowInv(c)'
  BY <1>3 DEF HubInv, FlowInv
<1>7. QED
  BY <1>1, <1>2, <1>5, <1>6, HubFrame

LEMMA StreamCtxDoneKeeps ==
  ASSUME Inv, NEW c \in Call, StreamCtxDone(c)
  PROVE  Inv'
<1> USE DEF StreamCtxDone, linkVars, ctrlVars, remoteVars, peerVars
<1>1. TypeOK'
  BY DEF Inv, TypeOK
<1>2. OthersSame(c)
  BY DEF Inv, TypeOK, OthersSame
<1>3. WorkerInv(c) /\ HubInv(c) /\ FlowInv(c)
  BY CallFacts
<1>4. invoke[c] = "await" /\ invoke'[c] = "done" /\ c \in Streaming
  BY DEF Inv, TypeOK
<1>5. worker[c] # "none" /\ issuer[c] # "idle" /\ WorkerInv(c)'
  BY <1>3, <1>4 DEF WorkerInv, WorkerOK
<1>6. HubInv(c)'
  BY <1>3, <1>4 DEF HubInv, HubOK, Resolved
<1>7. FlowInv(c)'
  BY <1>3, <1>4 DEF FlowInv, FlowOK, Total, Passed, Carried, Good
<1>8. QED
  BY <1>1, <1>2, <1>5, <1>6, <1>7, HubFrame

LEMMA StreamTakeKeeps ==
  ASSUME Inv, NEW c \in Call, StreamTake(c)
  PROVE  Inv'
<1> USE DEF StreamTake, linkVars, ctrlVars, remoteVars, peerVars
<1>0. /\ future[c] \in Seq(ReplyMsg) /\ Len(future[c]) \in {0, 1}
      /\ writer[c] \in Seq(ReplyMsg)
      /\ WorkerInv(c) /\ HubInv(c) /\ FlowInv(c)
  BY CallFacts
<1> DEFINE m == Head(future[c])
<1>1. /\ future[c] # <<>> /\ Tail(future[c]) = <<>>
      /\ m \in ReplyMsg /\ m = future[c][1] /\ 1 \in 1 .. Len(future[c])
      /\ HasResponse(future[c]) <=> m.type = "response"
      /\ News(future[c], c) = IF m.call = c /\ m.status = "ok" THEN 1 ELSE 0
      /\ Sum(future[c], c) =
           IF m.type = "streamMsg" /\ m.call = c THEN 1 ELSE 0
  BY <1>0, SlotFacts
<1>2. /\ invoke[c] = "await" /\ c \in Streaming
      /\ invoke'[c] = "write" /\ held'[c] = m /\ future'[c] = <<>>
  BY <1>1 DEF Inv, TypeOK
<1> HIDE DEF m
<1>3. TypeOK'
  <2>1. held' = [held EXCEPT ![c] = m] /\ future' = [future EXCEPT ![c] = <<>>]
    BY <1>1 DEF m
  <2>2. /\ held' \in [Call -> ReplyMsg \cup {NoMsg}]
        /\ invoke' \in [Call -> {"none", "await", "write", "done"}]
    BY <1>1, <2>1 DEF Inv, TypeOK
  <2>3. /\ future' \in [Call -> Seq(ReplyMsg)]
        /\ \A d \in Call : Len(future'[d]) <= 1
    BY <2>1, EmptyQueue DEF Inv, TypeOK, ChanCap
  <2>4. QED
    BY <2>2, <2>3 DEF Inv, TypeOK, ChanCap
<1>4. OthersSame(c)
  BY DEF Inv, TypeOK, OthersSame
<1>5. worker[c] # "none" /\ issuer[c] # "idle" /\ WorkerInv(c)'
  BY <1>0, <1>2 DEF WorkerInv, WorkerOK
<1>6. m.call = c /\ HasResponse(future[c]) => ~HasResponse(writer[c])
  BY <1>0, <1>1 DEF HubInv, HubOK
<1>7. exit[c] = "none" /\ ~HasResponse(writer[c])
  BY <1>0, <1>1 DEF HubInv, HubOK
<1>8. HubInv(c)'
  <2>1. m.call = c
    BY <1>0, <1>1 DEF HubInv, HubOK
  <2>2. QED
    BY <1>0, <1>1, <1>2, <1>7, <2>1, EmptyQueue DEF HubInv, HubOK, Resolved
<1>9. FlowInv(c)'
  <2>1. m.call = c
    BY <1>0, <1>1 DEF HubInv, HubOK
  <2>2. Sum(future'[c], c) = 0 /\ News(future'[c], c) = 0
    BY <1>2, EmptyQueue
  <2>3. Sum(future[c], c) + Carried(invoke[c], held[c])
          = Sum(future'[c], c) + Carried(invoke'[c], held'[c])
    BY <1>1, <1>2, <2>1, <2>2 DEF Carried
  <2>4. /\ Sum(toHub[Target(c)], c) \in Nat /\ received[c] \in Nat
        /\ Sum(writer[c], c) \in Nat
    BY <1>0, CallFacts, SumType
  <2>5. Sum(future[c], c) \in {0, 1} /\ Carried(invoke[c], held[c]) = 0
    BY <1>1, <1>2 DEF Carried
  <2>6. Sum(future'[c], c) = 0
        /\ Carried(invoke'[c], held'[c]) = Sum(future[c], c)
    BY <2>2, <2>3, <2>5 DEF Carried
  <2>7. Total(c, Sum(toHub[Target(c)], c), future'[c], invoke'[c], held'[c],
              writer[c], received[c])
        = Total(c, Sum(toHub[Target(c)], c), future[c], invoke[c], held[c],
                writer[c], received[c])
    <3>1. Sum(future'[c], c) + Carried(invoke'[c], held'[c])
            + Sum(writer[c], c) + received[c]
          = Sum(future[c], c) + Carried(invoke[c], held[c])
              + Sum(writer[c], c) + received[c]
      BY <2>4, <2>5, <2>6
    <3>2. QED
      BY <3>1 DEF Total, Passed
  <2>8. Good(c, News(toHub[Target(c)], c), future'[c], invoke'[c], held'[c],
             writer[c], exit[c])
        => Good(c, News(toHub[Target(c)], c), future[c], invoke[c], held[c],
                writer[c], exit[c])
    BY <1>1, <1>2, <2>1, <2>2 DEF Good
  <2>9. QED
    BY <1>0, <2>7, <2>8, FlowMoved DEF FlowInv
<1>10. QED
  BY <1>3, <1>4, <1>5, <1>8, <1>9, HubFrame

LEMMA StreamWriteKeeps ==
  ASSUME Inv, NEW c \in Call, StreamWrite(c)
  PROVE  Inv'
<1> USE DEF StreamWrite, linkVars, ctrlVars, remoteVars, peerVars
<1>0. /\ future[c] \in Seq(ReplyMsg) /\ Len(writer[c]) \in {0, 1}
      /\ writer[c] \in Seq(ReplyMsg) /\ received[c] \in Nat
      /\ Sum(toHub[Target(c)], c) \in Nat
      /\ WorkerInv(c) /\ HubInv(c) /\ FlowInv(c)
  BY CallFacts, SumType
<1> DEFINE m == held[c]
<1>1. /\ invoke[c] = "write" /\ writer[c] = <<>>
      /\ held'[c] = NoMsg /\ writer'[c] = Append(<<>>, m)
      /\ invoke'[c] = IF m.type = "response" THEN "done" ELSE "await"
  <2>1. writer[c] = <<>>
    <3>1. Len(writer[c]) < 1
      BY DEF ChanCap
    <3>2. QED
      BY <1>0, <3>1, SlotFacts
  <2>2. QED
    BY <2>1 DEF Inv, TypeOK
<1>2. /\ m \in ReplyMsg /\ m.call = c /\ exit[c] = "none"
      /\ m.type = "response" => future[c] = <<>>
  BY <1>0, <1>1 DEF HubInv, HubOK
<1>3. /\ m.type \in {"streamMsg", "response"}
      /\ m.type = "streamMsg" => m.status = "none"
  BY <1>2, ReplyFacts
<1> HIDE DEF m
<1>4. /\ writer'[c] \in Seq(ReplyMsg) /\ writer'[c] # <<>>
      /\ Len(writer'[c]) = 1 /\ Head(writer'[c]) = m
  <2>1. /\ Append(<<>>, m) \in Seq(ReplyMsg) /\ Append(<<>>, m) # <<>>
        /\ Len(Append(<<>>, m)) = 1 /\ Head(Append(<<>>, m)) = m
    BY ONLY <1>2
  <2>2. QED
    BY <1>1, <2>1, Zenon
<1>5. /\ HasResponse(writer'[c]) <=> m.type = "response"
      /\ News(writer'[c], c) = IF m.status = "ok" THEN 1 ELSE 0
      /\ Sum(writer'[c], c) = IF m.type = "streamMsg" THEN 1 ELSE 0
      /\ writer'[c][1] = m
  <2>1. Len(writer'[c]) \in {0, 1}
    BY <1>4
  <2>2. /\ HasResponse(writer'[c]) <=> Head(writer'[c]).type = "response"
        /\ News(writer'[c], c) =
             IF Head(writer'[c]).call = c /\ Head(writer'[c]).status = "ok"
               THEN 1 ELSE 0
        /\ Sum(writer'[c], c) =
             IF Head(writer'[c]).type = "streamMsg" /\ Head(writer'[c]).call = c
               THEN 1 ELSE 0
        /\ Head(writer'[c]) = writer'[c][1]
    BY <1>4, <2>1, SlotFacts
  <2>3. QED
    BY <1>2, <1>4, <2>2
<1>6. TypeOK'
  <2>1. writer' = [writer EXCEPT ![c] = writer'[c]]
    BY DEF Inv, TypeOK
  <2>2. /\ writer' \in [Call -> Seq(ReplyMsg)]
        /\ \A d \in Call : Len(writer'[d]) <= 1
    BY <1>4, <2>1 DEF Inv, TypeOK, ChanCap
  <2>3. /\ held' \in [Call -> ReplyMsg \cup {NoMsg}]
        /\ invoke' \in [Call -> {"none", "await", "write", "done"}]
    BY DEF Inv, TypeOK
  <2>4. QED
    BY <2>2, <2>3 DEF Inv, TypeOK, ChanCap
<1>7. OthersSame(c)
  BY DEF Inv, TypeOK, OthersSame
<1>8. worker[c] # "none" /\ issuer[c] # "idle" /\ WorkerInv(c)'
  BY <1>0, <1>1, CallFacts DEF WorkerInv, WorkerOK
<1>9. HubInv(c)'
  <2>1. \A i \in 1 .. Len(writer'[c]) : writer'[c][i].call = c
    BY <1>2, <1>4, <1>5
  <2>2. Entries(pending[Target(c)], c) # {} => m.type # "response"
    BY <1>0, <1>1 DEF HubInv, HubOK, Resolved, m
  <2>3. invoke'[c] \in {"done", "await"}
    BY <1>1
  <2>4. QED
    BY <1>0, <1>1, <1>2, <1>5, <2>1, <2>2, <2>3 DEF HubInv, HubOK, Resolved
<1>10. FlowInv(c)'
  <2>1. /\ Sum(writer[c], c) = 0 /\ Sum(future[c], c) \in Nat
        /\ Carried(invoke'[c], held'[c]) = 0
        /\ Carried(invoke[c], held[c]) = Sum(writer'[c], c)
        /\ Sum(writer'[c], c) \in {0, 1}
    BY <1>0, <1>1, <1>3, <1>5, EmptyQueue, SumType DEF Carried, m
  <2>2. Sum(future[c], c) + Carried(invoke'[c], held'[c])
          + Sum(writer'[c], c) + received[c]
        = Sum(future[c], c) + Carried(invoke[c], held[c])
            + Sum(writer[c], c) + received[c]
    BY <1>0, <2>1
  <2>3. Total(c, Sum(toHub[Target(c)], c), future[c], invoke'[c], held'[c],
              writer'[c], received[c])
        = Total(c, Sum(toHub[Target(c)], c), future[c], invoke[c], held[c],
                writer[c], received[c])
    BY <2>2 DEF Total, Passed
  <2>4. Good(c, News(toHub[Target(c)], c), future[c], invoke'[c], held'[c],
             writer'[c], exit[c])
        => Good(c, News(toHub[Target(c)], c), future[c], invoke[c], held[c],
                writer[c], exit[c])
    BY <1>1, <1>5 DEF Good, m
  <2>5. QED
    BY <1>0, <2>3, <2>4, FlowMoved DEF FlowInv
<1>11. QED
  BY <1>6, <1>7, <1>8, <1>9, <1>10, HubFrame

\* handleRequest returns with a reply to its caller.
LEMMA ReplyKeeps ==
  ASSUME Inv, NEW c \in Call, worker[c] \in {"dispatch", "relay"},
         NEW s \in {"ok", "error"}, ReplyTo(c, s),
         worker' = [worker EXCEPT ![c] = "done"],
         \/ UNCHANGED invoke /\ invoke[c] \in {"none", "done"}
         \/ invoke[c] = "await" /\ invoke' = [invoke EXCEPT ![c] = "done"],
         UNCHANGED <<linkVars, count, pending, run, streamErr, requestTag,
                     msgTag, held, future, writer, exit, issuerTag, answer,
                     sent>>
  PROVE  Inv'
<1> USE DEF linkVars
<1>1. /\ kick' \in [Link -> BOOLEAN]
      /\ UNCHANGED <<stray, handler, handlerTag>>
      /\ received' \in [Call -> Nat]
      /\ issuer' \in [Call -> {"idle", "waiting", "ok", "error"}]
      /\ \A d \in Call : d # c =>
           received'[d] = received[d] /\ issuer'[d] = issuer[d]
      /\ received'[c] = received[c]
      /\ issuer'[c] \in {s, issuer[c]}
  BY SendReply DEF ReplyTo
<1>2. WorkerInv(c) /\ HubInv(c) /\ FlowInv(c)
  BY CallFacts
<1>3. /\ worker'[c] = "done" /\ invoke'[c] \in {"none", "done"}
      /\ invoke[c] \in {"none", "done", "await"}
      /\ invoke'[c] = "none" => invoke[c] = "none"
  BY DEF Inv, TypeOK
<1>4. TypeOK'
  <2>1. worker' \in [Call -> {"none", "dispatch", "relay", "done"}]
    BY DEF Inv, TypeOK
  <2>2. invoke \in [Call -> {"none", "await", "write", "done"}]
    BY DEF Inv, TypeOK
  <2>3. invoke' \in [Call -> {"none", "await", "write", "done"}]
    BY <2>2
  <2>4. QED
    BY <1>1, <2>1, <2>3 DEF Inv, TypeOK
<1>5. OthersSame(c)
  <2>1. /\ worker \in [Call -> {"none", "dispatch", "relay", "done"}]
        /\ invoke \in [Call -> {"none", "await", "write", "done"}]
    BY DEF Inv, TypeOK
  <2>2. \A d \in Call : d # c =>
          worker'[d] = worker[d] /\ invoke'[d] = invoke[d]
    BY <2>1
  <2>3. QED
    BY <1>1, <2>2 DEF OthersSame
<1>6. issuer[c] # "idle" /\ issuer'[c] # "idle" /\ WorkerInv(c)'
  BY <1>1, <1>2, <1>3 DEF WorkerInv, WorkerOK
<1>7. HubInv(c)'
  BY <1>1, <1>2, <1>3 DEF HubInv, HubOK, Resolved
<1>8. FlowInv(c)'
  BY <1>1, <1>2, <1>3 DEF FlowInv, FlowOK, Total, Passed, Carried, Good
<1>9. QED
  BY <1>1, <1>4, <1>5, <1>6, <1>7, <1>8, HubFrame

LEMMA NoHandlerKeeps ==
  ASSUME Inv, NEW c \in Call, NoHandler(c)
  PROVE  Inv'
<1>1. invoke[c] = "none"
  BY CallFacts DEF NoHandler, WorkerInv, WorkerOK
<1>2. QED
  BY <1>1, ReplyKeeps DEF NoHandler

\* What a unary call gets from its future is a response.
LEMMA UnaryAnswer ==
  ASSUME Inv, NEW c \in Call, c \notin Streaming, future[c] # <<>>
  PROVE  GetStatus(Head(future[c])) \in {"ok", "error"}
<1>1. /\ future[c] \in Seq(ReplyMsg) /\ Len(future[c]) \in {0, 1} /\ HubInv(c)
  BY CallFacts
<1>2. /\ Head(future[c]) \in ReplyMsg /\ Head(future[c]) = future[c][1]
      /\ 1 \in 1 .. Len(future[c])
  BY <1>1, SlotFacts
<1>3. Head(future[c]).type = "response"
  BY <1>1, <1>2 DEF HubInv, HubOK
<1>4. QED
  BY <1>2, <1>3, ReplyFacts

LEMMA InvokeReturnKeeps ==
  ASSUME Inv, NEW c \in Call, InvokeReturn(c)
  PROVE  Inv'
<1>1. invoke[c] = "await" /\ c \notin Streaming
  BY DEF InvokeReturn
<1>2. worker[c] = "relay"
  BY <1>1, CallFacts DEF WorkerInv, WorkerOK
<1>3. PICK s \in {"ok", "error"} : ReplyTo(c, s)
  BY <1>1, UnaryAnswer DEF InvokeReturn
<1>4. QED
  BY <1>1, <1>2, <1>3, ReplyKeeps DEF InvokeReturn

LEMMA RelayEndKeeps ==
  ASSUME Inv, NEW c \in Call, RelayEnd(c)
  PROVE  Inv'
<1>1. /\ worker[c] = "relay" /\ invoke[c] = "done" /\ c \in Streaming
      /\ exit[c] \in {"none", "ok", "error"}
  BY CallFacts DEF RelayEnd
<1>2. CASE exit[c] # "none"
  <2>1. exit[c] \in {"ok", "error"} /\ ReplyTo(c, exit[c])
    BY <1>1, <1>2 DEF RelayEnd
  <2>2. QED
    BY <1>1, <2>1, ReplyKeeps DEF RelayEnd
<1>3. CASE exit[c] = "none"
  <2>1. UNCHANGED <<kick, peerVars>>
    BY <1>3 DEF RelayEnd
  <2> USE DEF linkVars, peerVars
  <2>2. TypeOK' /\ worker'[c] = "done" /\ OthersSame(c)
    <3>1. worker \in [Call -> {"none", "dispatch", "relay", "done"}]
      BY DEF Inv, TypeOK
    <3>2. /\ worker' \in [Call -> {"none", "dispatch", "relay", "done"}]
          /\ worker'[c] = "done"
          /\ \A d \in Call : d # c => worker'[d] = worker[d]
      BY <3>1 DEF RelayEnd
    <3>3. TypeOK'
      BY <2>1, <3>2 DEF RelayEnd, Inv, TypeOK
    <3>4. QED
      BY <2>1, <3>2, <3>3 DEF RelayEnd, OthersSame
  <2>3. WorkerInv(c) /\ HubInv(c) /\ FlowInv(c)
    BY CallFacts
  <2>4. issuer[c] # "idle" /\ WorkerInv(c)'
    BY <1>1, <2>1, <2>2, <2>3 DEF RelayEnd, WorkerInv, WorkerOK
  <2>5. HubInv(c)' /\ FlowInv(c)'
    BY <2>1, <2>3 DEF RelayEnd, HubInv, FlowInv
  <2>6. QED
    BY <1>1, <2>1, <2>2, <2>4, <2>5, HubFrame DEF RelayEnd
<1>4. QED
  BY <1>2, <1>3

LEMMA RelayKeeps ==
  ASSUME Inv, NEW c \in Call, Relay(c)
  PROVE  Inv'
<1> USE DEF Relay
<1>0. /\ future[c] \in Seq(ReplyMsg) /\ Len(writer[c]) \in {0, 1}
      /\ writer[c] \in Seq(ReplyMsg) /\ received[c] \in Nat
      /\ exit[c] \in {"none", "ok", "error"} /\ sent[c] \in Nat
      /\ Sum(toHub[Target(c)], c) \in Nat /\ Sum(future[c], c) \in Nat
      /\ WorkerInv(c) /\ HubInv(c) /\ FlowInv(c)
  BY CallFacts, SumType
<1> DEFINE m == Head(writer[c])
<1>1. /\ writer[c] # <<>> /\ Tail(writer[c]) = <<>>
      /\ m \in ReplyMsg /\ m = writer[c][1] /\ 1 \in 1 .. Len(writer[c])
      /\ HasResponse(writer[c]) <=> m.type = "response"
      /\ News(writer[c], c) = IF m.call = c /\ m.status = "ok" THEN 1 ELSE 0
      /\ Sum(writer[c], c) =
           IF m.type = "streamMsg" /\ m.call = c THEN 1 ELSE 0
  BY <1>0, SlotFacts
<1>2. /\ worker[c] = "relay" /\ writer'[c] = <<>>
      /\ writer' = [writer EXCEPT ![c] = <<>>]
      /\ \A d \in Call : d # c => writer'[d] = writer[d]
      /\ UNCHANGED <<invoke, held, future, worker>>
  <2>1. writer \in [Call -> Seq(ReplyMsg)]
    BY DEF Inv, TypeOK
  <2>2. writer' = [writer EXCEPT ![c] = <<>>]
    BY <1>1
  <2>3. QED
    BY <2>1, <2>2
<1>3. m.call = c /\ exit[c] = "none"
  BY <1>0, <1>1 DEF HubInv, HubOK
<1>4. m.type \in {"streamMsg", "response"}
  BY <1>1, ReplyFacts
<1>5. /\ Sum(writer'[c], c) = 0 /\ News(writer'[c], c) = 0
      /\ ~HasResponse(writer'[c]) /\ writer'[c] \in Seq(ReplyMsg)
  BY <1>2, EmptyQueue
<1>6. /\ writer' \in [Call -> Seq(ReplyMsg)]
      /\ \A d \in Call : Len(writer'[d]) <= 1
  BY <1>2, EmptyQueue DEF Inv, TypeOK, ChanCap
<1>7. invoke[c] # "none" /\ issuer[c] # "idle"
  BY <1>0, <1>2 DEF WorkerInv, WorkerOK
<1>8. CASE m.type = "streamMsg"
  <2>1. /\ Send(Origin(c), Msg("streamMsg", requestTag[c], c, "none"))
        /\ UNCHANGED exit
    BY <1>3, <1>8
  <2>2. /\ kick' \in [Link -> BOOLEAN]
        /\ UNCHANGED <<stray, handler, handlerTag>>
        /\ received' \in [Call -> Nat]
        /\ issuer' \in [Call -> {"idle", "waiting", "ok", "error"}]
        /\ \A d \in Call : d # c =>
             received'[d] = received[d] /\ issuer'[d] = issuer[d]
        /\ issuer'[c] = issuer[c]
        /\ \/ stream[Origin(c)] = "open" /\ received'[c] = received[c] + 1
           \/ stream[Origin(c)] # "open" /\ received'[c] = received[c]
    BY <1>2, <2>1, SendReply
  <2>3. TypeOK'
    BY <1>6, <2>1, <2>2 DEF Inv, TypeOK, ChanCap
  <2>4. OthersSame(c)
    BY <1>2, <2>1, <2>2 DEF OthersSame
  <2>5. WorkerInv(c)'
    BY <1>0, <1>2, <2>2 DEF WorkerInv, WorkerOK
  <2>6. HubInv(c)'
    BY <1>0, <1>2, <1>3, <1>5, <1>7, <2>1, <2>2, EmptyQueue
    DEF HubInv, HubOK, Resolved
  <2>7. FlowInv(c)'
    <3> DEFINE n == Sum(toHub[Target(c)], c)
               g == News(toHub[Target(c)], c)
    <3>1. Good(c, g, future[c], invoke[c], held[c], writer'[c], exit[c])
          => Good(c, g, future[c], invoke[c], held[c], writer[c], exit[c])
      BY <1>5 DEF Good
    <3>2. Sum(writer[c], c) = 1 /\ Carried(invoke[c], held[c]) \in Nat
      BY <1>1, <1>3, <1>8 DEF Carried
    <3>3. CASE received'[c] = received[c] + 1
      <4>1. Sum(future[c], c) + Carried(invoke[c], held[c])
              + Sum(writer'[c], c) + received'[c]
            = Sum(future[c], c) + Carried(invoke[c], held[c])
                + Sum(writer[c], c) + received[c]
        BY <1>0, <1>5, <3>2, <3>3
      <4>2. Total(c, n, future[c], invoke[c], held[c], writer'[c], received'[c])
            = Total(c, n, future[c], invoke[c], held[c], writer[c], received[c])
        BY <4>1 DEF Total, Passed
      <4>3. QED
        BY <1>0, <1>2, <2>1, <2>2, <3>1, <4>2, FlowMoved DEF FlowInv
    <3>4. CASE stream[Origin(c)] # "open" /\ received'[c] = received[c]
      <4>1. Total(c, n, future[c], invoke[c], held[c], writer'[c], received[c])
            + 1
            = Total(c, n, future[c], invoke[c], held[c], writer[c], received[c])
        BY <1>0, <1>5, <3>2 DEF Total, Passed
      <4>2. Total(c, n, future[c], invoke[c], held[c], writer'[c], received[c])
              \in Nat
        BY <1>0, <1>5, TotalType
      <4>3. /\ Total(c, n, future[c], invoke[c], held[c], writer[c],
                     received[c]) <= sent[c]
            /\ c \notin Streaming => sent[c] = 0
        BY <1>0 DEF FlowInv, FlowOK
      <4>4. Total(c, n, future[c], invoke[c], held[c], writer'[c], received[c])
              <= sent[c]
        BY <1>0, <4>1, <4>2, <4>3
      <4>5. QED
        BY <1>2, <2>1, <2>2, <3>4, <4>3, <4>4 DEF FlowInv, FlowOK
    <3>5. QED
      BY <2>2, <3>3, <3>4
  <2>8. QED
    BY <1>2, <1>7, <2>2, <2>3, <2>4, <2>5, <2>6, <2>7, HubFrame
<1>9. CASE m.type = "response"
  <2>1. /\ exit' = [exit EXCEPT ![c] = GetStatus(m)]
        /\ UNCHANGED <<kick, issuer, handler, handlerTag, received, stray>>
    BY <1>9 DEF peerVars
  <2>2. /\ GetStatus(m) \in {"ok", "error"}
        /\ GetStatus(m) = "ok" <=> m.status = "ok"
    BY <1>1, <1>9, ReplyFacts
  <2>3. /\ exit'[c] = GetStatus(m)
        /\ exit' \in [Call -> {"none", "ok", "error"}]
        /\ \A d \in Call : d # c => exit'[d] = exit[d]
    BY <2>1, <2>2 DEF Inv, TypeOK
  <2> HIDE DEF m
  <2>4. TypeOK'
    BY <1>6, <2>1, <2>3 DEF Inv, TypeOK, ChanCap
  <2>5. OthersSame(c)
    BY <1>2, <2>1, <2>3 DEF OthersSame
  <2>6. WorkerInv(c)'
    BY <1>0, <1>2, <2>1 DEF WorkerInv, WorkerOK
  <2>7. future[c] = <<>> /\ invoke[c] # "write"
    BY <1>0, <1>1, <1>9 DEF HubInv, HubOK
  <2>8. Entries(pending[Target(c)], c) = {}
    BY <1>0, <1>1, <1>9 DEF HubInv, HubOK, Resolved
  <2>9. HubInv(c)'
    BY <1>0, <1>2, <1>5, <1>7, <2>1, <2>7, <2>8, EmptyQueue
    DEF HubInv, HubOK, Resolved
  <2>10. FlowInv(c)'
    <3> DEFINE n == Sum(toHub[Target(c)], c)
               g == News(toHub[Target(c)], c)
    <3>1. Good(c, g, future[c], invoke[c], held[c], writer'[c], exit'[c])
          => Good(c, g, future[c], invoke[c], held[c], writer[c], exit[c])
      BY <1>1, <1>3, <1>5, <2>2, <2>3, <2>7 DEF Good
    <3>2. Sum(writer[c], c) = 0
      BY <1>1, <1>9
    <3>3. Total(c, n, future[c], invoke[c], held[c], writer'[c], received[c])
          = Total(c, n, future[c], invoke[c], held[c], writer[c], received[c])
      BY <1>5, <3>2 DEF Total, Passed
    <3>4. QED
      BY <1>0, <1>2, <2>1, <3>1, <3>3, FlowMoved DEF FlowInv
  <2>11. QED
    BY <1>2, <1>7, <2>1, <2>4, <2>5, <2>6, <2>9, <2>10, HubFrame
<1>10. QED
  BY <1>4, <1>8, <1>9

-------------------------------------------------------------------------------
(***************************************************************************)
(* Steps that touch entries or queues.                                     *)
(***************************************************************************)
\* A step that does nothing to the call d itself.
SameCall(d) ==
  /\ worker'[d] = worker[d] /\ invoke'[d] = invoke[d] /\ held'[d] = held[d]
  /\ future'[d] = future[d] /\ writer'[d] = writer[d] /\ exit'[d] = exit[d]
  /\ issuer'[d] = issuer[d] /\ received'[d] = received[d]
  /\ requestTag'[d] = requestTag[d] /\ issuerTag'[d] = issuerTag[d]
  /\ sent'[d] = sent[d] /\ answer'[d] = answer[d]
  /\ handler'[d] = handler[d] /\ handlerTag'[d] = handlerTag[d]

\* A step that takes no message of d from the queue of its target, or puts one
\* there, and does not touch its entry.
SameWay(d) ==
  /\ Entries(pending'[Target(d)], d) = Entries(pending[Target(d)], d)
  /\ Sum(toHub'[Target(d)], d) = Sum(toHub[Target(d)], d)
  /\ News(toHub'[Target(d)], d) = 1 => News(toHub[Target(d)], d) = 1

LEMMA CallFrame ==
  ASSUME Inv, NEW d \in Call, SameCall(d), SameWay(d),
         stream'[Origin(d)] = stream[Origin(d)],
         stream'[Target(d)] = stream[Target(d)],
         run'[Target(d)] = run[Target(d)]
  PROVE  (WorkerInv(d) /\ HubInv(d) /\ FlowInv(d))'
<1>1. WorkerInv(d) /\ HubInv(d) /\ FlowInv(d)
  BY CallFacts
<1>2. WorkerInv(d)'
  BY <1>1 DEF WorkerInv, SameCall
<1>3. HubInv(d)'
  BY <1>1 DEF HubInv, SameCall, SameWay
<1>4. FlowInv(d)'
  BY <1>1 DEF FlowInv, FlowOK, Good, SameCall, SameWay
<1>5. QED
  BY <1>2, <1>3, <1>4

\* What Inv says of one link.
LEMMA QueueFacts ==
  ASSUME Inv, NEW k \in Link
  PROVE  /\ toHub[k] \in Seq(WireMsg) /\ Len(toHub[k]) \in Nat
         /\ stream[k] \in {"open", "eof", "err"}
         /\ RequestsOK(toHub[k], k, stream[k], worker, issuer, issuerTag)
         /\ RepliesOK(toHub[k], pending[k], handler, answer)
         /\ run[k] # "loop" => toHub[k] = <<>>
         /\ \A i \in 1 .. Len(toHub[k]) :
              toHub[k][i] \in WireMsg /\ toHub[k][i].call \in Call
<1>1. toHub[k] \in Seq(WireMsg)
  BY DEF Inv, TypeOK, WireMsg
<1>2. \A m \in WireMsg : m.call \in Call
  BY DEF WireMsg, RequestMsg, ReplyMsg
<1>3. QED
  BY <1>1, <1>2, SeqFacts DEF Inv, LinkInv, TypeOK

\* The head of the queue that Run takes.
LEMMA HeadFacts ==
  ASSUME Inv, NEW k \in Link, toHub[k] # <<>>
  PROVE  LET q == toHub[k] m == Head(q) IN
         /\ m \in WireMsg /\ m.call \in Call /\ m = q[1] /\ 1 \in 1 .. Len(q)
         /\ Tail(q) \in Seq(WireMsg) /\ Window(Tail(q), q, 1)
         /\ \A i \in 1 .. Len(Tail(q)) :
              i + 1 \in 1 .. Len(q) /\ Tail(q)[i] = q[i + 1] /\ i + 1 # 1
<1>1. toHub[k] \in Seq(WireMsg) /\ Len(toHub[k]) \in Nat
  BY QueueFacts
<1>2. /\ Head(toHub[k]) \in WireMsg /\ Head(toHub[k]) = toHub[k][1]
      /\ Len(toHub[k]) >= 1
      /\ Tail(toHub[k]) \in Seq(WireMsg)
      /\ Len(Tail(toHub[k])) = Len(toHub[k]) - 1
      /\ \A i \in 1 .. Len(toHub[k]) - 1 : Tail(toHub[k])[i] = toHub[k][i + 1]
  BY <1>1, SeqFacts
<1>3. Window(Tail(toHub[k]), toHub[k], 1)
  BY <1>1, WindowFacts
<1>4. Head(toHub[k]).call \in Call
  BY <1>2 DEF WireMsg, RequestMsg, ReplyMsg
<1>5. 1 \in 1 .. Len(toHub[k])
  BY <1>1, <1>2
<1>6. \A i \in 1 .. Len(Tail(toHub[k])) :
        /\ i + 1 \in 1 .. Len(toHub[k]) /\ Tail(toHub[k])[i] = toHub[k][i + 1]
        /\ i + 1 # 1
  BY <1>1, <1>2
<1>7. QED
  BY <1>2, <1>3, <1>4, <1>5, <1>6

\* What is left in the queue of a message that is not of d's stream.
LEMMA TailWay ==
  ASSUME NEW q \in Seq(WireMsg), q # <<>>, NEW d,
         ~(Head(q).type = "streamMsg" /\ Head(q).call = d)
  PROVE  /\ Sum(Tail(q), d) = Sum(q, d)
         /\ News(Tail(q), d) = 1 => News(q, d) = 1
<1>1. Sum(q, d) = Sum(Tail(q), d) + 0
  BY SumTail
<1>2. Tail(q) \in Seq(WireMsg)
  BY SeqFacts
<1>3. Sum(Tail(q), d) \in Nat
  BY <1>2, SumType
<1>4. Window(Tail(q), q, 1)
  BY WindowFacts
<1>5. QED
  BY <1>1, <1>3, <1>4, NewsFacts

LEMMA RequestKeeps ==
  ASSUME Inv, NEW c \in Call, Request(c)
  PROVE  Inv'
<1> DEFINE k == Target(c)
           t == count[k] + 1
           e == [tag |-> t, call |-> c]
<1>0. /\ k \in Link /\ Origin(c) \in Link /\ k # Origin(c)
      /\ count[k] \in Nat /\ t \in Nat
  BY LinkFacts DEF Inv, TypeOK
<1>1. /\ worker[c] = "dispatch"
      /\ worker' = [worker EXCEPT ![c] = "relay"]
      /\ invoke' = [invoke EXCEPT ![c] = "await"]
      /\ count' = [count EXCEPT ![k] = t]
      /\ msgTag' = [msgTag EXCEPT ![c] = t]
      /\ pending' = [pending EXCEPT ![k] = @ \cup {e}]
      /\ Send(k, Msg("request", t, c, "none"))
      /\ UNCHANGED <<stream, toHub, run, streamErr, requestTag, held, future,
                     writer, exit, issuerTag, answer, sent>>
  BY DEF Request, linkVars
<1>2. WorkerInv(c) /\ HubInv(c) /\ FlowInv(c)
  BY CallFacts
<1>3. /\ invoke[c] = "none" /\ future[c] = <<>> /\ writer[c] = <<>>
      /\ exit[c] = "none" /\ Entries(pending[k], c) = {}
      /\ handler[c] = "none" /\ answer[c] = "none"
      /\ sent[c] = 0 /\ received[c] = 0
      /\ issuer[c] # "idle"
  BY <1>1, <1>2 DEF WorkerInv, WorkerOK, HubInv, HubOK
<1>4. /\ kick' \in [Link -> BOOLEAN]
      /\ UNCHANGED <<issuer, received, stray>>
      /\ \/ /\ handler' = [handler EXCEPT ![c] = "executing"]
            /\ handlerTag' = [handlerTag EXCEPT ![c] = t]
         \/ UNCHANGED <<handler, handlerTag>>
  <2>1. kick \in [Link -> BOOLEAN]
    BY DEF Inv, TypeOK
  <2>2. QED
    BY <1>1, <2>1 DEF Send, PeerRecv, Kick, Msg, peerVars
<1> HIDE DEF k, t
<1>5. /\ worker'[c] = "relay" /\ invoke'[c] = "await"
      /\ count'[k] = t /\ pending'[k] = pending[k] \cup {e}
      /\ \A j \in Link : j # k => count'[j] = count[j] /\ pending'[j] = pending[j]
      /\ handler'[c] \in {"none", "executing"}
      /\ handler'[c] = "executing" => handlerTag'[c] = t
  BY <1>0, <1>1, <1>3, <1>4 DEF Inv, TypeOK
<1>6. TypeOK'
  <2>1. e \in [tag : Nat, call : Call]
    BY <1>0
  <2> HIDE DEF e
  <2>2. /\ worker' \in [Call -> {"none", "dispatch", "relay", "done"}]
        /\ invoke' \in [Call -> {"none", "await", "write", "done"}]
    BY <1>1 DEF Inv, TypeOK
  <2>3. count' \in [Link -> Nat] /\ msgTag' \in [Call -> Nat]
    <3>1. count \in [Link -> Nat] /\ msgTag \in [Call -> Nat]
      BY DEF Inv, TypeOK
    <3>2. QED
      BY <1>0, <1>1, <3>1
  <2>4. pending' \in [Link -> SUBSET [tag : Nat, call : Call]]
    <3>1. pending \in [Link -> SUBSET [tag : Nat, call : Call]]
      BY DEF Inv, TypeOK
    <3>2. pending[k] \cup {e} \in SUBSET [tag : Nat, call : Call]
      BY <1>0, <2>1, <3>1
    <3>3. QED
      BY <1>0, <1>1, <3>1, <3>2
  <2>5. /\ handler' \in [Call -> {"none", "executing", "answered"}]
        /\ handlerTag' \in [Call -> Nat]
    <3>1. /\ handler \in [Call -> {"none", "executing", "answered"}]
          /\ handlerTag \in [Call -> Nat]
      BY DEF Inv, TypeOK
    <3>2. QED
      BY <1>0, <1>4, <3>1
  <2>6. QED
    BY <1>1, <1>4, <2>2, <2>3, <2>4, <2>5 DEF Inv, TypeOK
<1>7. IssuerInv'
  BY <1>1, <1>4, IssuerKeep DEF Inv
<1>8. PendingInv'
  <2>1. ASSUME NEW f \in pending[k]
        PROVE  f.tag <= count[k] /\ f.tag \in Nat /\ f.call # c
               /\ Target(f.call) = k
    BY <1>0, <1>3 DEF Inv, PendingInv, Entries, TypeOK
  <2>2. e.tag = t /\ e.call = c
    OBVIOUS
  <2> HIDE DEF e
  <2>3. ASSUME NEW f \in pending'[k]
        PROVE  f.tag <= t /\ Target(f.call) = k
    BY <1>0, <1>5, <2>1, <2>2, <2>3 DEF k, t
  <2>4. ASSUME NEW f \in pending'[k], NEW g \in pending'[k],
               f.tag = g.tag \/ f.call = g.call
        PROVE  f = g
    <3>1. CASE f = e \/ g = e
      BY <1>0, <1>5, <2>1, <2>2, <2>4, <3>1 DEF t
    <3>2. CASE f \in pending[k] /\ g \in pending[k]
      BY <1>0, <2>4, <3>2 DEF Inv, PendingInv
    <3>3. QED
      BY <1>5, <3>1, <3>2
  <2>5. QED
    BY <1>5, <2>3, <2>4 DEF Inv, PendingInv
<1>9. ASSUME NEW j \in Link
      PROVE  LinkInv(j)'
  <2>1. /\ RequestsOK(toHub[j], j, stream[j], worker, issuer, issuerTag)
        /\ RepliesOK(toHub[j], pending[j], handler, answer)
        /\ run[j] # "loop" => toHub[j] = <<>>
        /\ \A i \in 1 .. Len(toHub[j]) : toHub[j][i].call \in Call
    BY QueueFacts
  <2>2. ASSUME NEW i \in 1 .. Len(toHub[j]), toHub[j][i].type = "request"
        PROVE  /\ worker'[toHub[j][i].call] = "none"
               /\ issuer[toHub[j][i].call] # "idle"
               /\ stream[j] = "open" => issuer[toHub[j][i].call] = "waiting"
    <3>1. worker[toHub[j][i].call] = "none" /\ toHub[j][i].call \in Call
      BY <2>1, <2>2 DEF RequestsOK
    <3>2. toHub[j][i].call # c
      BY <1>1, <3>1
    <3>3. \A d \in Call : d # c => worker'[d] = worker[d]
      BY <1>1 DEF Inv, TypeOK
    <3>4. worker'[toHub[j][i].call] = "none"
      BY <3>1, <3>2, <3>3
    <3>5. QED
      BY <2>1, <2>2, <3>4 DEF RequestsOK
  <2>3. RequestsOK(toHub[j], j, stream[j], worker', issuer, issuerTag)
    BY <2>1, <2>2, RequestsKeep
  <2>4. pending[j] \subseteq pending'[j]
    BY <1>5
  <2>5. ASSUME NEW i \in 1 .. Len(toHub[j]), toHub[j][i].type = "response",
               handler[toHub[j][i].call] = "answered"
        PROVE  handler'[toHub[j][i].call] = "answered"
    <3>1. toHub[j][i].call \in Call /\ toHub[j][i].call # c
      BY <1>3, <2>1, <2>5
    <3>2. handler \in [Call -> {"none", "executing", "answered"}]
      BY DEF Inv, TypeOK
    <3>3. handler'[toHub[j][i].call] = handler[toHub[j][i].call]
      BY <1>4, <3>1, <3>2
    <3>4. QED
      BY <2>5, <3>3
  <2>6. \A i \in 1 .. Len(toHub[j]) : toHub[j][i].type # "request" =>
          [tag |-> toHub[j][i].tag, call |-> toHub[j][i].call] \in pending'[j]
    BY <2>1, <2>4 DEF RepliesOK
  <2>7. RepliesOK(toHub[j], pending'[j], handler', answer)
    <3>1. PICK q, P, h : q = toHub[j] /\ P = pending'[j] /\ h = handler'
      OBVIOUS
    <3>2. RepliesOK(q, pending[j], handler, answer)
      BY <2>1, <3>1
    <3>3. \A i \in 1 .. Len(q) : q[i].type # "request" =>
            [tag |-> q[i].tag, call |-> q[i].call] \in P
      BY <2>6, <3>1
    <3>4. \A i \in 1 .. Len(q) :
            q[i].type = "response" /\ handler[q[i].call] = "answered" =>
              h[q[i].call] = "answered"
      BY <2>5, <3>1
    <3>5. RepliesOK(q, P, h, answer)
      BY <3>2, <3>3, <3>4 DEF RepliesOK
    <3>6. QED
      BY <3>1, <3>5
  <2>8. QED
    BY <1>1, <1>4, <2>1, <2>3, <2>7 DEF LinkInv
<1>10. WorkerInv(c)'
  BY <1>1, <1>2, <1>4, <1>5 DEF WorkerInv, WorkerOK
<1>11. HubInv(c)'
  <2>1. e \in Entries(pending'[k], c)
    BY <1>5 DEF Entries
  <2>2. Len(<<>>) = 0 /\ 1 .. 0 = {} /\ ~HasResponse(<<>>)
    BY EmptyQueue
  <2>3. /\ handler'[c] = "executing" =>
             [tag |-> handlerTag'[c], call |-> c] \in Entries(pending'[k], c)
        /\ ~(handler'[c] = "answered")
    BY <1>5, <2>1
  <2>4. QED
    BY <1>1, <1>3, <1>4, <1>5, <2>2, <2>3 DEF HubInv, HubOK, Resolved, k
<1>12. FlowInv(c)'
  <2>1. Sum(toHub[k], c) = 0 /\ News(toHub[k], c) = 0
    BY <1>0, <1>3, QueueFacts, NoEntryNoReply
  <2>2. /\ Sum(future[c], c) = 0 /\ Sum(writer[c], c) = 0
        /\ News(future[c], c) = 0 /\ News(writer[c], c) = 0
    BY <1>3, EmptyQueue
  <2>3. Carried(invoke'[c], held[c]) = 0
    BY <1>5 DEF Carried
  <2>4. Total(c, Sum(toHub[k], c), future[c], invoke'[c], held[c], writer[c],
              received[c]) = 0
    BY <1>3, <2>1, <2>2, <2>3 DEF Total, Passed
  <2>5. ~Good(c, News(toHub[k], c), future[c], invoke'[c], held[c], writer[c],
              exit[c])
    BY <1>3, <1>5, <2>1, <2>2 DEF Good
  <2>6. QED
    BY <1>1, <1>3, <1>4, <2>4, <2>5 DEF FlowInv, FlowOK, k
<1>13. ASSUME NEW d \in Call, d # c
       PROVE  (WorkerInv(d) /\ HubInv(d) /\ FlowInv(d))'
  <2>1. SameCall(d)
    <3>1. /\ DOMAIN worker = Call /\ DOMAIN invoke = Call
          /\ DOMAIN handler = Call /\ DOMAIN handlerTag = Call
      BY DEF Inv, TypeOK
    <3>2. worker'[d] = worker[d] /\ invoke'[d] = invoke[d]
      BY <1>1, <1>13, <3>1
    <3>3. handler'[d] = handler[d] /\ handlerTag'[d] = handlerTag[d]
      BY <1>4, <1>13, <3>1
    <3>4. QED
      BY <1>1, <1>4, <3>2, <3>3 DEF SameCall
  <2>2. Entries(pending'[Target(d)], d) = Entries(pending[Target(d)], d)
    <3>1. Target(d) \in Link /\ e.call = c
      BY LinkFacts
    <3> HIDE DEF e
    <3>2. CASE Target(d) = k
      BY <1>5, <1>13, <3>1, <3>2 DEF Entries
    <3>3. CASE Target(d) # k
      BY <1>5, <3>1, <3>3
    <3>4. QED
      BY <3>2, <3>3
  <2>3. QED
    BY <1>1, <2>1, <2>2, CallFrame DEF SameWay
<1>14. QED
  BY <1>4, <1>6, <1>7, <1>8, <1>9, <1>10, <1>11, <1>12, <1>13 DEF Inv

LEMMA RunRequestKeeps ==
  ASSUME Inv, NEW k \in Link, RunRequest(k)
  PROVE  Inv'
<1>0. PICK q, m, c : q = toHub[k] /\ m = Head(q) /\ c = m.call
  OBVIOUS
<1>1. /\ run[k] = "loop" /\ q # <<>> /\ m.type = "request"
      /\ toHub' = [toHub EXCEPT ![k] = Tail(q)]
      /\ worker' = [worker EXCEPT ![c] = "dispatch"]
      /\ requestTag' = [requestTag EXCEPT ![c] = m.tag]
      /\ msgTag' = [msgTag EXCEPT ![c] = m.tag]
      /\ UNCHANGED <<stream, count, pending, run, streamErr, kick, invoke, held,
                     future, writer, exit, issuer, handler, handlerTag,
                     received, stray, issuerTag, answer, sent>>
  BY <1>0 DEF RunRequest, Receiving, Take, ctrlVars, remoteVars, peerVars
<1>2. /\ m \in WireMsg /\ c \in Call /\ m = q[1] /\ 1 \in 1 .. Len(q)
      /\ Tail(q) \in Seq(WireMsg) /\ Window(Tail(q), q, 1)
      /\ \A i \in 1 .. Len(Tail(q)) :
           i + 1 \in 1 .. Len(q) /\ Tail(q)[i] = q[i + 1] /\ i + 1 # 1
  BY <1>0, <1>1, HeadFacts
<1>3. m.tag \in Nat
  BY <1>2 DEF WireMsg, RequestMsg, ReplyMsg
<1>4. /\ q \in Seq(WireMsg)
      /\ RequestsOK(q, k, stream[k], worker, issuer, issuerTag)
      /\ RepliesOK(q, pending[k], handler, answer)
  BY <1>0, QueueFacts
<1>5. /\ Origin(c) = k /\ m.tag = issuerTag[c] /\ worker[c] = "none"
      /\ issuer[c] # "idle" /\ (stream[k] = "open" => issuer[c] = "waiting")
      /\ \A j \in 1 .. Len(q) : q[j].type = "request" /\ q[j].call = c => j = 1
  BY <1>0, <1>1, <1>2, <1>4 DEF RequestsOK
<1>p. PICK p : p = Tail(q)
  OBVIOUS
<1>6. /\ toHub'[k] = Tail(q) /\ worker'[c] = "dispatch"
      /\ requestTag'[c] = m.tag
      /\ \A j \in Link : j # k => toHub'[j] = toHub[j]
      /\ \A d \in Call : d # c =>
           worker'[d] = worker[d] /\ requestTag'[d] = requestTag[d]
  BY <1>1, <1>2 DEF Inv, TypeOK
<1>7. TypeOK'
  <2>1. /\ toHub' \in [Link -> Seq(WireMsg)]
        /\ worker' \in [Call -> {"none", "dispatch", "relay", "done"}]
        /\ requestTag' \in [Call -> Nat] /\ msgTag' \in [Call -> Nat]
    BY <1>1, <1>2, <1>3 DEF Inv, TypeOK, WireMsg
  <2>2. QED
    BY <1>1, <2>1 DEF Inv, TypeOK, WireMsg
<1>8. IssuerInv' /\ PendingInv'
  BY <1>1, IssuerKeep DEF Inv, PendingInv
<1>9. ASSUME NEW j \in Link
      PROVE  LinkInv(j)'
  <2>1. CASE j = k
    <3>1. RequestsOK(p, k, stream[k], worker, issuer, issuerTag)
      BY <1>2, <1>4, <1>p, RequestsShrink
    <3>2. ASSUME NEW i \in 1 .. Len(p), p[i].type = "request"
          PROVE  /\ worker'[p[i].call] = "none"
                 /\ issuer[p[i].call] # "idle"
                 /\ stream[k] = "open" => issuer[p[i].call] = "waiting"
      <4>1. p[i].call # c
        BY <1>2, <1>5, <1>p, <3>2
      <4>2. p[i].call \in Call
        BY <1>2, <1>p, SeqFacts DEF WireMsg, RequestMsg, ReplyMsg
      <4>3. QED
        BY <1>6, <3>1, <3>2, <4>1, <4>2 DEF RequestsOK
    <3>3. RequestsOK(p, k, stream[k], worker', issuer, issuerTag)
      BY <3>1, <3>2, RequestsKeep
    <3>4. RepliesOK(p, pending[k], handler, answer)
      BY <1>2, <1>4, <1>p, RepliesShrink
    <3>5. QED
      BY <1>1, <1>6, <1>p, <2>1, <3>3, <3>4 DEF LinkInv
  <2>2. CASE j # k
    <3>1. /\ RequestsOK(toHub[j], j, stream[j], worker, issuer, issuerTag)
          /\ RepliesOK(toHub[j], pending[j], handler, answer)
          /\ run[j] # "loop" => toHub[j] = <<>>
          /\ \A i \in 1 .. Len(toHub[j]) : toHub[j][i].call \in Call
      BY QueueFacts
    <3>2. ASSUME NEW i \in 1 .. Len(toHub[j]), toHub[j][i].type = "request"
          PROVE  /\ worker'[toHub[j][i].call] = "none"
                 /\ issuer[toHub[j][i].call] # "idle"
                 /\ stream[j] = "open" => issuer[toHub[j][i].call] = "waiting"
      <4>1. toHub[j][i].call # c
        BY <1>5, <2>2, <3>1, <3>2 DEF RequestsOK
      <4>2. QED
        BY <1>6, <3>1, <3>2, <4>1 DEF RequestsOK
    <3>3. RequestsOK(toHub[j], j, stream[j], worker', issuer, issuerTag)
      BY <3>1, <3>2, RequestsKeep
    <3>4. QED
      BY <1>1, <1>6, <2>2, <3>1, <3>3 DEF LinkInv
  <2>3. QED
    BY <2>1, <2>2
<1>10. ASSUME NEW d \in Call
       PROVE  SameWay(d)
  <2>1. Target(d) \in Link
    BY LinkFacts
  <2>2. CASE Target(d) = k
    <3>1. /\ Sum(Tail(q), d) = Sum(q, d)
          /\ News(Tail(q), d) = 1 => News(q, d) = 1
      BY <1>0, <1>1, <1>4, TailWay
    <3>2. QED
      BY <1>0, <1>1, <1>6, <2>2, <3>1 DEF SameWay
  <2>3. CASE Target(d) # k
    BY <1>1, <1>6, <2>1, <2>3 DEF SameWay
  <2>4. QED
    BY <2>2, <2>3
<1>11. ASSUME NEW d \in Call, d # c
       PROVE  (WorkerInv(d) /\ HubInv(d) /\ FlowInv(d))'
  <2>1. SameCall(d)
    BY <1>1, <1>6, <1>11 DEF SameCall
  <2>2. QED
    BY <1>1, <1>10, <2>1, CallFrame
<1>12. (WorkerInv(c) /\ HubInv(c) /\ FlowInv(c))'
  <2>1. WorkerInv(c) /\ HubInv(c) /\ FlowInv(c) /\ SameWay(c)
    BY <1>2, <1>10, CallFacts
  <2>2. WorkerInv(c)'
    BY <1>1, <1>5, <1>6, <2>1 DEF WorkerInv, WorkerOK
  <2>3. HubInv(c)'
    BY <1>1, <2>1 DEF HubInv, SameWay
  <2>4. FlowInv(c)'
    BY <1>1, <2>1 DEF FlowInv, FlowOK, Good, SameWay
  <2>5. QED
    BY <2>2, <2>3, <2>4
<1>13. stray' = {}
  BY <1>1 DEF Inv
<1>14. QED
  BY <1>7, <1>8, <1>9, <1>11, <1>12, <1>13 DEF Inv

\* Run gives the response m to the call of the entry e, and removes e.
LEMMA ResponseDelivered ==
  ASSUME Inv, NEW k \in Link, NEW e \in pending[k], NEW c \in Call, e.call = c,
         NEW m \in ReplyMsg, m.type = "response", m.call = c,
         Deliver(e, m), pending' = [pending EXCEPT ![k] = @ \ {e}],
         UNCHANGED <<stream, count, run, worker, requestTag, invoke, held,
                     writer, exit, issuer, issuerTag, received, sent, answer,
                     handler, handlerTag>>,
         \A d \in Call :
           /\ Sum(toHub'[Target(d)], d) = Sum(toHub[Target(d)], d)
           /\ News(toHub'[Target(d)], d) = 1 => News(toHub[Target(d)], d) = 1,
         handler[c] = "executing" => run[k] # "loop",
         m.status = "ok" => News(toHub[k], c) = 1
  PROVE  /\ \A d \in Call : (WorkerInv(d) /\ HubInv(d) /\ FlowInv(d))'
         /\ PendingInv'
         /\ pending' \in [Link -> SUBSET [tag : Nat, call : Call]]
         /\ future' \in [Call -> Seq(ReplyMsg)]
         /\ \A d \in Call : Len(future'[d]) <= ChanCap
<1>0. /\ pending \in [Link -> SUBSET [tag : Nat, call : Call]]
      /\ future \in [Call -> Seq(ReplyMsg)]
      /\ \A d \in Call : Len(future[d]) <= 1
  BY DEF Inv, TypeOK, ChanCap
<1>1. /\ pending'[k] = pending[k] \ {e}
      /\ \A j \in Link : j # k => pending'[j] = pending[j]
      /\ pending' \in [Link -> SUBSET [tag : Nat, call : Call]]
  BY <1>0
<1>2. /\ Target(c) = k
      /\ \A f \in pending[k] : f.call = c => f = e
  BY DEF Inv, PendingInv
<1>3. Entries(pending'[k], c) = {} /\ Entries(pending[k], c) # {}
  BY <1>1, <1>2 DEF Entries
<1>4. PendingInv'
  <2>1. \A j \in Link : pending'[j] \subseteq pending[j]
    BY <1>1
  <2>2. QED
    BY <2>1 DEF Inv, PendingInv
<1>5. /\ future[c] \in Seq(ReplyMsg) /\ Len(future[c]) \in {0, 1}
      /\ writer[c] \in Seq(ReplyMsg) /\ received[c] \in Nat
      /\ WorkerInv(c) /\ HubInv(c) /\ FlowInv(c)
  BY CallFacts
<1>6. future[c] = <<>>
  <2>1. Len(future[c]) < 1
    BY DEF Deliver, ChanCap
  <2>2. QED
    BY <1>5, <2>1, SlotFacts
<1>7. future' = [future EXCEPT ![c] = Append(<<>>, m)]
  BY <1>6 DEF Deliver
<1>8. PICK fu : fu = Append(<<>>, m)
  OBVIOUS
<1>9. /\ fu \in Seq(ReplyMsg) /\ fu # <<>> /\ Len(fu) = 1 /\ Head(fu) = m
  BY <1>5, <1>6, <1>8, SlotFacts
<1>10. /\ HasResponse(fu) /\ News(fu, c) = (IF m.status = "ok" THEN 1 ELSE 0)
       /\ Sum(fu, c) = 0 /\ fu[1] = m
  <2>1. Len(fu) \in {0, 1}
    BY <1>9
  <2>2. QED
    BY <1>9, <2>1, SlotFacts
<1>11. /\ future'[c] = fu /\ \A d \in Call : d # c => future'[d] = future[d]
       /\ future' \in [Call -> Seq(ReplyMsg)]
       /\ \A d \in Call : Len(future'[d]) <= ChanCap
  BY <1>0, <1>7, <1>8, <1>9 DEF ChanCap
<1>12. ASSUME NEW d \in Call, d # c
       PROVE  (WorkerInv(d) /\ HubInv(d) /\ FlowInv(d))'
  <2>1. SameCall(d)
    BY <1>11, <1>12 DEF SameCall
  <2>2. Target(d) \in Link
    BY LinkFacts
  <2>3. Entries(pending'[Target(d)], d) = Entries(pending[Target(d)], d)
    BY <1>1, <1>12, <2>2 DEF Entries
  <2>4. QED
    BY <2>1, <2>3, CallFrame DEF SameWay
<1>13. WorkerInv(c)'
  BY <1>5 DEF WorkerInv
<1>14. /\ invoke[c] # "none"
       /\ ~Resolved(future[c], invoke[c], held[c], writer[c], exit[c])
  BY <1>2, <1>3, <1>5 DEF HubInv, HubOK
<1>15. HubInv(c)'
  <2>1. \A i \in 1 .. Len(fu) :
          fu[i].call = c /\ (c \in Streaming \/ fu[i].type = "response")
    BY <1>9, <1>10
  <2>2. ~(handler[c] = "executing" /\ run[k] = "loop")
    OBVIOUS
  <2>3. QED
    BY <1>2, <1>3, <1>5, <1>11, <1>14, <2>1, <2>2 DEF HubInv, HubOK, Resolved
<1>16. FlowInv(c)'
  <2>1. Sum(future[c], c) = 0
    BY <1>6, EmptyQueue
  <2>2. Total(c, Sum(toHub'[k], c), fu, invoke[c], held[c], writer[c],
              received[c])
        = Total(c, Sum(toHub[k], c), future[c], invoke[c], held[c], writer[c],
                received[c])
    BY <1>2, <1>10, <2>1 DEF Total, Passed
  <2>3. Good(c, News(toHub'[k], c), fu, invoke[c], held[c], writer[c], exit[c])
        => Good(c, News(toHub[k], c), future[c], invoke[c], held[c], writer[c],
                exit[c])
    BY <1>2, <1>10 DEF Good
  <2>4. QED
    BY <1>2, <1>5, <1>11, <2>2, <2>3, FlowMoved DEF FlowInv
<1>17. QED
  BY <1>1, <1>4, <1>11, <1>12, <1>13, <1>15, <1>16

\* A reply that Run of k takes is for the entry that Lookup finds.
LEMMA LookupFinds ==
  ASSUME Inv, NEW k \in Link, toHub[k] # <<>>, Head(toHub[k]).type # "request",
         NEW e \in Lookup(k, Head(toHub[k]).tag)
  PROVE  /\ e \in pending[k] /\ e.call = Head(toHub[k]).call
         /\ Head(toHub[k]) \in ReplyMsg
         /\ e = [tag |-> Head(toHub[k]).tag, call |-> Head(toHub[k]).call]
<1>1. PICK m : m = Head(toHub[k])
  OBVIOUS
<1>2. m \in WireMsg /\ m = toHub[k][1] /\ 1 \in 1 .. Len(toHub[k])
  BY <1>1, HeadFacts
<1>3. [tag |-> m.tag, call |-> m.call] \in pending[k]
  BY <1>1, <1>2, QueueFacts DEF RepliesOK
<1>4. e \in pending[k] /\ e.tag = m.tag
  BY <1>1 DEF Lookup
<1>5. e = [tag |-> m.tag, call |-> m.call]
  BY <1>3, <1>4 DEF Inv, PendingInv
<1>6. m \in ReplyMsg
  BY <1>1, <1>2 DEF WireMsg, RequestMsg
<1>7. QED
  BY <1>1, <1>4, <1>5, <1>6

LEMMA RunResponseKeeps ==
  ASSUME Inv, NEW k \in Link, RunResponse(k)
  PROVE  Inv'
<1>0. PICK q, m, c, p : q = toHub[k] /\ m = Head(q) /\ c = m.call /\ p = Tail(q)
  OBVIOUS
<1>1. /\ run[k] = "loop" /\ q # <<>> /\ m.type = "response"
      /\ toHub' = [toHub EXCEPT ![k] = p]
      /\ UNCHANGED <<stream, count, run, streamErr, kick, worker, requestTag,
                     msgTag, invoke, held, writer, exit, issuer, handler,
                     handlerTag, received, stray, issuerTag, answer, sent>>
  BY <1>0 DEF RunResponse, Receiving, Take, remoteVars, peerVars
<1>2. PICK e \in Lookup(k, m.tag) :
        Deliver(e, m) /\ pending' = [pending EXCEPT ![k] = @ \ {e}]
  BY <1>0 DEF RunResponse
<1>3. /\ e \in pending[k] /\ e.call = c /\ m \in ReplyMsg
      /\ e = [tag |-> m.tag, call |-> c]
  BY <1>0, <1>1, <1>2, LookupFinds
<1>4. /\ c \in Call /\ m = q[1] /\ 1 \in 1 .. Len(q)
      /\ p \in Seq(WireMsg) /\ Window(p, q, 1)
      /\ \A i \in 1 .. Len(p) :
           i + 1 \in 1 .. Len(q) /\ p[i] = q[i + 1] /\ i + 1 # 1
  BY <1>0, <1>1, HeadFacts
<1>5. /\ q \in Seq(WireMsg)
      /\ RequestsOK(q, k, stream[k], worker, issuer, issuerTag)
      /\ RepliesOK(q, pending[k], handler, answer)
  BY <1>0, QueueFacts
<1>6. /\ handler[c] = "answered" /\ Target(c) = k
      /\ \A j \in 1 .. Len(q) :
           q[j].type # "request" /\ q[j].call = c => j <= 1
  <2>1. Target(c) = k
    BY <1>3 DEF Inv, PendingInv
  <2>2. q[1].type = "response" /\ q[1].type # "request" /\ q[1].call = c
    BY <1>0, <1>1, <1>4
  <2>3. /\ handler[q[1].call] = "answered"
        /\ \A j \in 1 .. Len(q) :
             q[j].type # "request" /\ q[j].call = q[1].call => j <= 1
    BY <1>4, <1>5, <2>2 DEF RepliesOK
  <2>4. QED
    BY <2>1, <2>2, <2>3
<1>7. toHub'[k] = p /\ \A j \in Link : j # k => toHub'[j] = toHub[j]
  BY <1>1 DEF Inv, TypeOK
<1>8. ASSUME NEW d \in Call
      PROVE  /\ Sum(toHub'[Target(d)], d) = Sum(toHub[Target(d)], d)
             /\ News(toHub'[Target(d)], d) = 1 => News(toHub[Target(d)], d) = 1
  <2>1. Target(d) \in Link
    BY LinkFacts
  <2>2. CASE Target(d) = k
    <3>1. /\ Sum(p, d) = Sum(q, d)
          /\ News(p, d) = 1 => News(q, d) = 1
      BY <1>0, <1>1, <1>5, TailWay
    <3>2. QED
      BY <1>0, <1>7, <2>2, <3>1
  <2>3. CASE Target(d) # k
    BY <1>7, <2>1, <2>3
  <2>4. QED
    BY <2>2, <2>3
<1>9. m.status = "ok" => News(toHub[k], c) = 1
  BY <1>0, <1>1, <1>4 DEF News
<1>10. /\ \A d \in Call : (WorkerInv(d) /\ HubInv(d) /\ FlowInv(d))'
       /\ PendingInv'
       /\ pending' \in [Link -> SUBSET [tag : Nat, call : Call]]
       /\ future' \in [Call -> Seq(ReplyMsg)]
       /\ \A d \in Call : Len(future'[d]) <= ChanCap
  BY <1>0, <1>1, <1>2, <1>3, <1>4, <1>6, <1>8, <1>9, ResponseDelivered
<1>11. TypeOK'
  <2>1. toHub' \in [Link -> Seq(WireMsg)]
    BY <1>1, <1>4 DEF Inv, TypeOK, WireMsg
  <2>2. QED
    BY <1>1, <1>10, <2>1 DEF Inv, TypeOK, WireMsg
<1>12. IssuerInv'
  BY <1>1, IssuerKeep DEF Inv
<1>13. ASSUME NEW j \in Link
       PROVE  LinkInv(j)'
  <2>1. CASE j = k
    <3>1. RequestsOK(p, k, stream[k], worker, issuer, issuerTag)
      BY <1>4, <1>5, RequestsShrink
    <3>2. RepliesOK(p, pending[k], handler, answer)
      BY <1>4, <1>5, RepliesShrink
    <3>3. pending'[k] = pending[k] \ {e}
      BY <1>2 DEF Inv, TypeOK
    <3>4. ASSUME NEW i \in 1 .. Len(p), p[i].type # "request"
          PROVE  [tag |-> p[i].tag, call |-> p[i].call] \in pending'[k]
      <4>1. [tag |-> p[i].tag, call |-> p[i].call] \in pending[k]
        BY <3>2, <3>4 DEF RepliesOK
      <4>2. p[i].call # c
        <5>1. i + 1 \in 1 .. Len(q) /\ p[i] = q[i + 1] /\ ~(i + 1 <= 1)
          <6>1. i + 1 \in 1 .. Len(q) /\ p[i] = q[i + 1]
            BY <1>4
          <6>2. i \in Nat /\ i >= 1
            BY <1>4, SeqFacts
          <6>3. QED
            BY <6>1, <6>2
        <5>2. QED
          BY <1>6, <3>4, <5>1
      <4>3. [tag |-> p[i].tag, call |-> p[i].call].call = p[i].call
        OBVIOUS
      <4>4. QED
        BY <1>3, <3>3, <4>1, <4>2, <4>3
    <3>5. RepliesOK(p, pending'[k], handler, answer)
      <4>1. PICK P : P = pending'[k]
        OBVIOUS
      <4>2. \A i \in 1 .. Len(p) : p[i].type # "request" =>
              [tag |-> p[i].tag, call |-> p[i].call] \in P
        BY <3>4, <4>1
      <4>3. RepliesOK(p, P, handler, answer)
        BY <3>2, <4>2 DEF RepliesOK
      <4>4. QED
        BY <4>1, <4>3
    <3>6. QED
      BY <1>1, <1>7, <2>1, <3>1, <3>5 DEF LinkInv
  <2>2. CASE j # k
    <3>1. pending'[j] = pending[j]
      BY <1>2, <2>2 DEF Inv, TypeOK
    <3>2. QED
      BY <1>1, <1>7, <2>2, <3>1 DEF Inv, LinkInv
  <2>3. QED
    BY <2>1, <2>2
<1>14. stray' = {}
  BY <1>1 DEF Inv
<1>15. QED
  BY <1>10, <1>11, <1>12, <1>13, <1>14 DEF Inv

LEMMA SweepKeeps ==
  ASSUME Inv, NEW k \in Link, Sweep(k)
  PROVE  Inv'
<1>1. /\ run[k] = "sweep"
      /\ UNCHANGED <<stream, toHub, count, run, streamErr, kick, worker,
                     requestTag, msgTag, invoke, held, writer, exit, issuer,
                     handler, handlerTag, received, stray, issuerTag, answer,
                     sent>>
  BY DEF Sweep, linkVars, remoteVars, peerVars
<1>2. PICK e \in pending[k] :
        /\ Deliver(e, Msg("response", e.tag, e.call, streamErr[k]))
        /\ pending' = [pending EXCEPT ![k] = @ \ {e}]
  BY DEF Sweep
<1>3. PICK m, c : /\ m = Msg("response", e.tag, e.call, streamErr[k])
                  /\ c = e.call
  OBVIOUS
<1>4. /\ e.tag \in Nat /\ c \in Call /\ streamErr[k] \in {"nil", "error"}
  BY <1>3 DEF Inv, TypeOK
<1>5. /\ m \in ReplyMsg /\ m.type = "response" /\ m.call = c
      /\ m.status # "ok"
  BY <1>3, <1>4 DEF Msg, ReplyMsg
<1>6. toHub[k] = <<>>
  BY <1>1, QueueFacts
<1>7. /\ \A d \in Call : (WorkerInv(d) /\ HubInv(d) /\ FlowInv(d))'
      /\ PendingInv'
      /\ pending' \in [Link -> SUBSET [tag : Nat, call : Call]]
      /\ future' \in [Call -> Seq(ReplyMsg)]
      /\ \A d \in Call : Len(future'[d]) <= ChanCap
  BY <1>1, <1>2, <1>3, <1>4, <1>5, ResponseDelivered
<1>8. TypeOK'
  BY <1>1, <1>7 DEF Inv, TypeOK
<1>9. IssuerInv'
  BY <1>1, IssuerKeep DEF Inv
<1>10. ASSUME NEW j \in Link
       PROVE  LinkInv(j)'
  <2>1. CASE j = k
    BY <1>1, <1>6, <2>1, EmptyQueue DEF LinkInv
  <2>2. CASE j # k
    <3>1. pending'[j] = pending[j]
      BY <1>2, <2>2 DEF Inv, TypeOK
    <3>2. QED
      BY <1>1, <3>1 DEF Inv, LinkInv
  <2>3. QED
    BY <2>1, <2>2
<1>11. stray' = {}
  BY <1>1 DEF Inv
<1>12. QED
  BY <1>7, <1>8, <1>9, <1>10, <1>11 DEF Inv

LEMMA RunStreamMsgKeeps ==
  ASSUME Inv, NEW k \in Link, RunStreamMsg(k)
  PROVE  Inv'
<1>0. PICK q, m, c, p : q = toHub[k] /\ m = Head(q) /\ c = m.call /\ p = Tail(q)
  OBVIOUS
<1>1. /\ run[k] = "loop" /\ q # <<>> /\ m.type = "streamMsg"
      /\ toHub' = [toHub EXCEPT ![k] = p]
      /\ UNCHANGED <<stream, count, pending, run, streamErr, kick, worker,
                     requestTag, msgTag, invoke, held, writer, exit, issuer,
                     handler, handlerTag, received, stray, issuerTag, answer,
                     sent>>
  BY <1>0 DEF RunStreamMsg, Receiving, Take, ctrlVars, remoteVars, peerVars
<1>2. PICK e \in Lookup(k, m.tag) : Deliver(e, m)
  BY <1>0 DEF RunStreamMsg
<1>3. /\ e \in pending[k] /\ e.call = c /\ m \in ReplyMsg
  BY <1>0, <1>1, <1>2, LookupFinds
<1>4. /\ c \in Call /\ m = q[1] /\ 1 \in 1 .. Len(q)
      /\ p \in Seq(WireMsg) /\ Window(p, q, 1)
  BY <1>0, <1>1, HeadFacts
<1>5. /\ q \in Seq(WireMsg)
      /\ RequestsOK(q, k, stream[k], worker, issuer, issuerTag)
      /\ RepliesOK(q, pending[k], handler, answer)
  BY <1>0, QueueFacts
<1>6. Target(c) = k /\ c \in Streaming /\ Entries(pending[k], c) # {}
  <2>1. Target(c) = k
    BY <1>3 DEF Inv, PendingInv
  <2>2. c \in Streaming
    BY <1>0, <1>1, <1>4, <1>5 DEF RepliesOK
  <2>3. QED
    BY <1>3, <2>1, <2>2 DEF Entries
<1>7. toHub'[k] = p /\ \A j \in Link : j # k => toHub'[j] = toHub[j]
  BY <1>1 DEF Inv, TypeOK
<1>8. /\ future[c] \in Seq(ReplyMsg) /\ Len(future[c]) \in {0, 1}
      /\ writer[c] \in Seq(ReplyMsg) /\ received[c] \in Nat
      /\ WorkerInv(c) /\ HubInv(c) /\ FlowInv(c)
  BY <1>4, CallFacts
<1>9. future[c] = <<>>
  <2>1. Len(future[c]) < 1
    BY <1>2, <1>3 DEF Deliver, ChanCap
  <2>2. QED
    BY <1>8, <2>1, SlotFacts
<1>10. PICK fu : fu = Append(<<>>, m)
  OBVIOUS
<1>11. future' = [future EXCEPT ![c] = fu]
  BY <1>2, <1>3, <1>9, <1>10 DEF Deliver
<1>12. /\ fu \in Seq(ReplyMsg) /\ fu # <<>> /\ Len(fu) = 1 /\ Head(fu) = m
  BY <1>3, <1>8, <1>9, <1>10, SlotFacts
<1>13. m.status = "none"
  BY <1>1, <1>3, ReplyFacts
<1>14. /\ ~HasResponse(fu) /\ News(fu, c) = 0 /\ Sum(fu, c) = 1 /\ fu[1] = m
  <2>1. Len(fu) \in {0, 1}
    BY <1>12
  <2>2. /\ HasResponse(fu) <=> Head(fu).type = "response"
        /\ News(fu, c) =
             IF Head(fu).call = c /\ Head(fu).status = "ok" THEN 1 ELSE 0
        /\ Sum(fu, c) = IF Head(fu).type = "streamMsg" /\ Head(fu).call = c
                          THEN 1 ELSE 0
        /\ Head(fu) = fu[1]
    BY <1>12, <2>1, SlotFacts
  <2>3. QED
    BY <1>0, <1>1, <1>12, <1>13, <2>2
<1>15. /\ future'[c] = fu /\ \A d \in Call : d # c => future'[d] = future[d]
       /\ future' \in [Call -> Seq(ReplyMsg)]
       /\ \A d \in Call : Len(future'[d]) <= 1
  <2>1. future \in [Call -> Seq(ReplyMsg)] /\ \A d \in Call : Len(future[d]) <= 1
    BY DEF Inv, TypeOK, ChanCap
  <2>2. /\ future'[c] = fu /\ future' \in [Call -> Seq(ReplyMsg)]
        /\ \A d \in Call : d # c => future'[d] = future[d]
    BY <1>4, <1>11, <1>12, <2>1
  <2>3. Len(fu) <= 1
    BY <1>12
  <2>4. \A d \in Call : Len(future'[d]) <= 1
    BY <2>1, <2>2, <2>3, Zenon
  <2>5. QED
    BY <2>2, <2>4
<1>16. TypeOK'
  <2>1. toHub' \in [Link -> Seq(WireMsg)]
    BY <1>1, <1>4 DEF Inv, TypeOK, WireMsg
  <2>2. QED
    BY <1>1, <1>15, <2>1 DEF Inv, TypeOK, WireMsg, ChanCap
<1>17. IssuerInv' /\ PendingInv'
  BY <1>1, IssuerKeep DEF Inv, PendingInv
<1>18. ASSUME NEW j \in Link
       PROVE  LinkInv(j)'
  <2>1. RequestsOK(p, k, stream[k], worker, issuer, issuerTag)
    BY <1>4, <1>5, RequestsShrink
  <2>2. RepliesOK(p, pending[k], handler, answer)
    BY <1>4, <1>5, RepliesShrink
  <2>3. QED
    BY <1>1, <1>7, <2>1, <2>2 DEF Inv, LinkInv
<1>19. ASSUME NEW d \in Call, d # c
       PROVE  (WorkerInv(d) /\ HubInv(d) /\ FlowInv(d))'
  <2>1. SameCall(d)
    BY <1>1, <1>15, <1>19 DEF SameCall
  <2>2. Target(d) \in Link
    BY LinkFacts
  <2>3. /\ Sum(toHub'[Target(d)], d) = Sum(toHub[Target(d)], d)
        /\ News(toHub'[Target(d)], d) = 1 => News(toHub[Target(d)], d) = 1
    <3>1. CASE Target(d) = k
      <4>1. /\ Sum(p, d) = Sum(q, d)
            /\ News(p, d) = 1 => News(q, d) = 1
        BY <1>0, <1>1, <1>5, <1>19, TailWay
      <4>2. QED
        BY <1>0, <1>7, <3>1, <4>1
    <3>2. CASE Target(d) # k
      BY <1>7, <2>2, <3>2
    <3>3. QED
      BY <3>1, <3>2
  <2>4. QED
    BY <1>1, <2>1, <2>3, CallFrame DEF SameWay
<1>20. WorkerInv(c)'
  BY <1>1, <1>8 DEF WorkerInv
<1>21. HubInv(c)'
  <2>1. \A i \in 1 .. Len(fu) : fu[i].call = c
    BY <1>0, <1>12, <1>14
  <2>2. /\ invoke[c] # "none"
        /\ ~Resolved(future[c], invoke[c], held[c], writer[c], exit[c])
    BY <1>6, <1>8 DEF HubInv, HubOK
  <2>3. QED
    BY <1>1, <1>6, <1>8, <1>14, <1>15, <2>1, <2>2 DEF HubInv, HubOK, Resolved
<1>22. FlowInv(c)'
  <2>1. Sum(future[c], c) = 0
    BY <1>9, EmptyQueue
  <2>2. Sum(q, c) = Sum(p, c) + 1
    BY <1>0, <1>1, <1>5, SumTail
  <2>3. /\ Sum(p, c) \in Nat /\ Sum(writer[c], c) \in Nat
        /\ Carried(invoke[c], held[c]) \in Nat
    BY <1>4, <1>8, SumType DEF Carried
  <2>4. Total(c, Sum(p, c), fu, invoke[c], held[c], writer[c], received[c])
        = Total(c, Sum(q, c), future[c], invoke[c], held[c], writer[c],
                received[c])
    <3>1. PICK a, b, w, r :
            /\ a = Sum(p, c) /\ b = Carried(invoke[c], held[c])
            /\ w = Sum(writer[c], c) /\ r = received[c]
      OBVIOUS
    <3>2. a \in Nat /\ b \in Nat /\ w \in Nat /\ r \in Nat
      BY <1>8, <2>3, <3>1
    <3>3. a + (1 + b + w + r) = (a + 1) + (0 + b + w + r)
      BY <3>2
    <3>4. QED
      BY <1>14, <2>1, <2>2, <3>1, <3>3 DEF Total, Passed
  <2>5. News(p, c) = 1 => News(q, c) = 1
    BY <1>4, <1>5, NewsFacts
  <2>6. Good(c, News(p, c), fu, invoke[c], held[c], writer[c], exit[c])
        => Good(c, News(q, c), future[c], invoke[c], held[c], writer[c],
                exit[c])
    BY <1>14, <2>5 DEF Good
  <2>7. FlowOK(c, Sum(q, c), News(q, c), future[c], invoke[c], held[c],
               writer[c], exit[c], received[c], sent[c], answer[c], handler[c],
               stream[Origin(c)], stream[k], run[k])
    BY <1>0, <1>6, <1>8 DEF FlowInv
  <2>8. FlowOK(c, Sum(p, c), News(p, c), fu, invoke[c], held[c],
               writer[c], exit[c], received[c], sent[c], answer[c], handler[c],
               stream[Origin(c)], stream[k], run[k])
    BY <2>4, <2>6, <2>7, FlowMoved
  <2>9. QED
    BY <1>1, <1>6, <1>7, <1>15, <2>8 DEF FlowInv
<1>23. stray' = {}
  BY <1>1 DEF Inv
<1>24. QED
  BY <1>16, <1>17, <1>18, <1>19, <1>20, <1>21, <1>22, <1>23 DEF Inv

\* A success that is past Run of its target is a response of a call without an
\* entry, and nothing of its stream is left in the queue.
LEMMA GoodResolved ==
  ASSUME Inv, NEW c \in Call,
         Good(c, 0, future[c], invoke[c], held[c], writer[c], exit[c])
  PROVE  Sum(toHub[Target(c)], c) = 0
<1>1. /\ future[c] \in Seq(ReplyMsg) /\ writer[c] \in Seq(ReplyMsg)
      /\ HubInv(c) /\ Target(c) \in Link
  BY CallFacts
<1>2. ASSUME NEW q \in Seq(ReplyMsg), News(q, c) = 1
      PROVE  HasResponse(q)
  <2>1. PICK i \in 1 .. Len(q) : q[i].status = "ok"
    BY <1>2 DEF News
  <2>2. q[i] \in ReplyMsg
    BY SeqFacts
  <2>3. q[i].type = "response"
    BY <2>1, <2>2, ReplyFacts
  <2>4. QED
    BY <2>3 DEF HasResponse
<1>3. ASSUME invoke[c] = "write", held[c].status = "ok"
      PROVE  held[c].type = "response"
  <2>1. held[c] \in ReplyMsg
    BY <1>1, <1>3 DEF HubInv, HubOK
  <2>2. QED
    BY <1>3, <2>1, ReplyFacts
<1>4. Resolved(future[c], invoke[c], held[c], writer[c], exit[c])
  BY <1>1, <1>2, <1>3 DEF Good, Resolved
<1>5. Entries(pending[Target(c)], c) = {}
  BY <1>1, <1>4 DEF HubInv, HubOK
<1>6. QED
  BY <1>1, <1>5, QueueFacts, NoEntryNoReply

\* The end of a stream, or of the Run that reads it, may lose messages, but
\* none that a success is preceded by.
LEMMA FlowLost ==
  ASSUME Inv, NEW c \in Call, NEW p \in Seq(WireMsg),
         Sum(p, c) <= Sum(toHub[Target(c)], c),
         News(p, c) = 1 => /\ News(toHub[Target(c)], c) = 1
                           /\ Sum(p, c) = Sum(toHub[Target(c)], c),
         toHub'[Target(c)] = p,
         UNCHANGED <<invoke, held, future, writer, exit, received, sent, answer,
                     handler>>,
         stream'[Origin(c)] = stream[Origin(c)],
         stream'[Target(c)] # "open" \/ run'[Target(c)] # "loop"
  PROVE  FlowInv(c)'
<1>1. /\ future[c] \in Seq(ReplyMsg) /\ writer[c] \in Seq(ReplyMsg)
      /\ received[c] \in Nat /\ sent[c] \in Nat
      /\ toHub[Target(c)] \in Seq(WireMsg) /\ FlowInv(c)
  BY CallFacts
<1>2. PICK n, n2, g, g2, a :
        /\ n = Sum(toHub[Target(c)], c) /\ n2 = Sum(p, c)
        /\ g = News(toHub[Target(c)], c) /\ g2 = News(p, c)
        /\ a = Passed(c, future[c], invoke[c], held[c], writer[c], received[c])
  OBVIOUS
<1>3. n \in Nat /\ n2 \in Nat /\ a \in Nat /\ g2 \in {0, 1} /\ n2 <= n
  <2>1. n \in Nat /\ n2 \in Nat
    BY <1>1, <1>2, SumType
  <2>2. a \in Nat
    BY <1>1, <1>2, <2>1, TotalType
  <2>3. g2 \in {0, 1}
    BY <1>2, NewsFacts
  <2>4. QED
    BY <1>2, <2>1, <2>2, <2>3
<1>4. n + a <= sent[c] /\ (c \notin Streaming => sent[c] = 0)
  BY <1>1, <1>2 DEF FlowInv, FlowOK, Total
<1>5. n2 + a <= sent[c]
  BY <1>1, <1>3, <1>4
<1>6. ASSUME stream[Origin(c)] = "open",
             Good(c, g2, future[c], invoke[c], held[c], writer[c], exit[c])
      PROVE  answer[c] = "ok" /\ n2 + a = sent[c]
  <2>1. /\ Good(c, g, future[c], invoke[c], held[c], writer[c], exit[c])
        /\ n2 = n
    <3>1. CASE g2 = 1
      BY <1>2, <3>1 DEF Good
    <3>2. CASE g2 = 0
      <4>1. n = 0
        BY <1>2, <1>6, <3>2, GoodResolved
      <4>2. n2 = n
        BY <1>3, <4>1
      <4>3. QED
        BY <1>6, <3>2, <4>2 DEF Good
    <3>3. QED
      BY <1>3, <3>1, <3>2
  <2>2. QED
    BY <1>1, <1>2, <1>6, <2>1 DEF FlowInv, FlowOK, Total
<1>7. QED
  BY <1>2, <1>4, <1>5, <1>6 DEF FlowInv, FlowOK, Total

LEMMA RunEndKeeps ==
  ASSUME Inv, NEW k \in Link, RunEnd(k)
  PROVE  Inv'
<1>1. /\ toHub' = [toHub EXCEPT ![k] = <<>>] /\ run' = [run EXCEPT ![k] = "sweep"]
      /\ UNCHANGED <<stream, count, pending, worker, requestTag, msgTag, invoke,
                     held, future, writer, exit, issuer, handler, handlerTag,
                     received, stray, issuerTag, answer, sent>>
  BY DEF RunEnd, hubVars, remoteVars, peerVars
<1>2. /\ toHub'[k] = <<>> /\ run'[k] = "sweep"
      /\ \A j \in Link : j # k => toHub'[j] = toHub[j] /\ run'[j] = run[j]
  BY <1>1 DEF Inv, TypeOK
<1>3. TypeOK'
  <2>1. /\ kick' \in [Link -> BOOLEAN] /\ streamErr' \in [Link -> {"nil", "error"}]
        /\ run' \in [Link -> {"loop", "sweep", "stopping", "returned"}]
    <3>1. /\ kick' = [kick EXCEPT ![k] = FALSE]
          /\ \E s \in {"nil", "error"} : streamErr' = [streamErr EXCEPT ![k] = s]
      BY DEF RunEnd
    <3>2. /\ kick \in [Link -> BOOLEAN] /\ streamErr \in [Link -> {"nil", "error"}]
          /\ run \in [Link -> {"loop", "sweep", "stopping", "returned"}]
      BY DEF Inv, TypeOK
    <3>3. QED
      BY <1>1, <3>1, <3>2
  <2>2. toHub' \in [Link -> Seq(WireMsg)]
    BY <1>1, EmptyQueue DEF Inv, TypeOK, WireMsg
  <2>3. QED
    BY <1>1, <2>1, <2>2 DEF Inv, TypeOK, WireMsg
<1>4. IssuerInv' /\ PendingInv'
  BY <1>1, IssuerKeep DEF Inv, PendingInv
<1>5. ASSUME NEW j \in Link
      PROVE  LinkInv(j)'
  <2>1. CASE j = k
    BY <1>2, <2>1, EmptyQueue DEF LinkInv
  <2>2. CASE j # k
    BY <1>1, <1>2, <2>2 DEF Inv, LinkInv
  <2>3. QED
    BY <2>1, <2>2
<1>6. ASSUME NEW d \in Call
      PROVE  (WorkerInv(d) /\ HubInv(d) /\ FlowInv(d))'
  <2>1. Target(d) \in Link /\ WorkerInv(d) /\ HubInv(d)
    BY CallFacts
  <2>2. CASE Target(d) # k
    <3>1. SameCall(d) /\ SameWay(d)
      BY <1>1, <1>2, <2>1, <2>2 DEF SameCall, SameWay
    <3>2. QED
      BY <1>1, <1>2, <2>1, <2>2, <3>1, CallFrame
  <2>3. CASE Target(d) = k
    <3>1. WorkerInv(d)'
      BY <1>1, <2>1 DEF WorkerInv
    <3>2. HubInv(d)'
      BY <1>1, <1>2, <2>1, <2>3 DEF HubInv, HubOK
    <3>3. /\ Sum(<<>>, d) = 0 /\ News(<<>>, d) = 0 /\ <<>> \in Seq(WireMsg)
          /\ Sum(toHub[Target(d)], d) \in Nat
      BY EmptyQueue, CallFacts, SumType
    <3>4. FlowInv(d)'
      <4>1. PICK p : p = <<>>
        OBVIOUS
      <4>2. /\ p \in Seq(WireMsg) /\ Sum(p, d) <= Sum(toHub[Target(d)], d)
            /\ News(p, d) # 1 /\ toHub'[Target(d)] = p
        BY <1>2, <2>3, <3>3, <4>1
      <4>3. run'[Target(d)] # "loop" /\ stream'[Origin(d)] = stream[Origin(d)]
        BY <1>1, <1>2, <2>3
      <4>4. QED
        BY <1>1, <4>2, <4>3, FlowLost
    <3>5. QED
      BY <3>1, <3>2, <3>4
  <2>4. QED
    BY <2>2, <2>3
<1>7. stray' = {}
  BY <1>1 DEF Inv
<1>8. QED
  BY <1>3, <1>4, <1>5, <1>6, <1>7 DEF Inv

LEMMA EndOfKeeps ==
  ASSUME Inv, NEW k \in Link, EndOf(k)
  PROVE  Inv'
<1>0. PICK how \in {"eof", "err"} :
        /\ stream' = [stream EXCEPT ![k] = how]
        /\ \E i \in 0 .. Len(toHub[k]) :
             toHub' = [toHub EXCEPT ![k] = SubSeq(@, 1, i)]
  BY DEF EndOf
<1>1. PICK i \in 0 .. Len(toHub[k]) :
        toHub' = [toHub EXCEPT ![k] = SubSeq(@, 1, i)]
  BY <1>0
<1>2. PICK q, p : q = toHub[k] /\ p = SubSeq(q, 1, i)
  OBVIOUS
<1>3. /\ stream[k] = "open"
      /\ issuer' = [c \in Call |->
           IF Origin(c) = k /\ issuer[c] = "waiting" THEN "error" ELSE issuer[c]]
      /\ UNCHANGED <<count, pending, run, streamErr, kick, worker, requestTag,
                     msgTag, invoke, held, future, writer, exit, issuerTag,
                     handler, handlerTag, answer, sent, received, stray>>
  BY DEF EndOf, ctrlVars, hubVars
<1>4. /\ toHub'[k] = p /\ stream'[k] # "open"
      /\ \A j \in Link : j # k => toHub'[j] = toHub[j] /\ stream'[j] = stream[j]
  BY <1>0, <1>1, <1>2 DEF Inv, TypeOK
<1>5. /\ q \in Seq(WireMsg) /\ i \in 0 .. Len(q)
      /\ RequestsOK(q, k, stream[k], worker, issuer, issuerTag)
      /\ RepliesOK(q, pending[k], handler, answer)
      /\ (run[k] # "loop" => q = <<>>)
      /\ \A j \in 1 .. Len(q) : q[j].call \in Call
  BY <1>2, QueueFacts
<1>6. /\ p \in Seq(WireMsg) /\ Len(p) = i /\ Window(p, q, 0)
      /\ \A j \in 1 .. i : p[j] = q[j]
  BY <1>2, <1>5, SeqFacts, WindowFacts
<1>7. /\ issuer' \in [Call -> {"idle", "waiting", "ok", "error"}]
      /\ \A d \in Call : Origin(d) # k => issuer'[d] = issuer[d]
      /\ \A d \in Call : issuer'[d] = "idle" <=> issuer[d] = "idle"
  <2>1. issuer \in [Call -> {"idle", "waiting", "ok", "error"}]
    BY DEF Inv, TypeOK
  <2>2. QED
    BY <1>3, <2>1
<1>8. TypeOK'
  <2>1. toHub' \in [Link -> Seq(WireMsg)]
    BY <1>1, <1>2, <1>6 DEF Inv, TypeOK, WireMsg
  <2>2. stream' \in [Link -> {"open", "eof", "err"}]
    BY <1>0 DEF Inv, TypeOK
  <2>3. QED
    BY <1>3, <1>7, <2>1, <2>2 DEF Inv, TypeOK, WireMsg
<1>9. IssuerInv' /\ PendingInv'
  BY <1>3, <1>7, IssuerKeep DEF Inv, PendingInv
<1>10. ASSUME NEW j \in Link
       PROVE  LinkInv(j)'
  <2>1. CASE j = k
    <3>1. RequestsOK(p, k, stream[k], worker, issuer, issuerTag)
      BY <1>5, <1>6, RequestsShrink
    <3>2. ASSUME NEW x \in 1 .. Len(p), p[x].type = "request"
          PROVE  /\ worker[p[x].call] = "none"
                 /\ issuer'[p[x].call] # "idle"
      <4>1. p[x].call \in Call
        BY <1>6, SeqFacts DEF WireMsg, RequestMsg, ReplyMsg
      <4>2. QED
        BY <1>7, <3>1, <3>2, <4>1 DEF RequestsOK
    <3>3. RequestsOK(p, k, stream'[k], worker, issuer', issuerTag)
      BY <1>4, <3>1, <3>2, RequestsKeep
    <3>4. RepliesOK(p, pending[k], handler, answer)
      BY <1>5, <1>6, RepliesShrink
    <3>5. run[k] # "loop" => p = <<>>
      <4>1. SUFFICES ASSUME run[k] # "loop" PROVE p = <<>>
        OBVIOUS
      <4>2. Len(q) = 0
        BY <1>5, <4>1, EmptyQueue
      <4>3. Len(p) = 0
        BY <1>5, <1>6, <4>2
      <4>4. QED
        BY <1>6, <4>3, SeqFacts
    <3>6. QED
      BY <1>3, <1>4, <2>1, <3>3, <3>4, <3>5 DEF LinkInv
  <2>2. CASE j # k
    <3>1. /\ RequestsOK(toHub[j], j, stream[j], worker, issuer, issuerTag)
          /\ RepliesOK(toHub[j], pending[j], handler, answer)
          /\ run[j] # "loop" => toHub[j] = <<>>
          /\ \A x \in 1 .. Len(toHub[j]) : toHub[j][x].call \in Call
      BY QueueFacts
    <3>2. ASSUME NEW x \in 1 .. Len(toHub[j]), toHub[j][x].type = "request"
          PROVE  /\ worker[toHub[j][x].call] = "none"
                 /\ issuer'[toHub[j][x].call] # "idle"
                 /\ stream[j] = "open" => issuer'[toHub[j][x].call] = "waiting"
      <4>1. toHub[j][x].call \in Call /\ Origin(toHub[j][x].call) # k
        BY <2>2, <3>1, <3>2 DEF RequestsOK
      <4>2. QED
        BY <1>7, <3>1, <3>2, <4>1 DEF RequestsOK
    <3>3. RequestsOK(toHub[j], j, stream[j], worker, issuer', issuerTag)
      BY <3>1, <3>2, RequestsKeep
    <3>4. QED
      BY <1>3, <1>4, <2>2, <3>1, <3>3 DEF LinkInv
  <2>3. QED
    BY <2>1, <2>2
<1>11. ASSUME NEW d \in Call
       PROVE  (WorkerInv(d) /\ HubInv(d) /\ FlowInv(d))'
  <2>1. /\ Target(d) \in Link /\ Origin(d) \in Link /\ Target(d) # Origin(d)
        /\ WorkerInv(d) /\ HubInv(d) /\ FlowInv(d)
    BY CallFacts, LinkFacts
  <2>2. HubInv(d)'
    BY <1>3, <2>1 DEF HubInv
  <2>3. WorkerInv(d)'
    <3>1. CASE Origin(d) = k
      BY <1>3, <1>4, <1>7, <2>1, <3>1 DEF WorkerInv, WorkerOK
    <3>2. CASE Origin(d) # k
      BY <1>3, <1>4, <1>7, <2>1, <3>2 DEF WorkerInv
    <3>3. QED
      BY <3>1, <3>2
  <2>4. FlowInv(d)'
    <3>1. CASE Target(d) # k
      <4>1. Origin(d) = k
        BY <2>1, <3>1 DEF Link, Target, Other
      <4>2. QED
        BY <1>3, <1>4, <2>1, <3>1, <4>1 DEF FlowInv, FlowOK
    <3>2. CASE Target(d) = k
      <4>1. /\ Sum(p, d) <= Sum(q, d)
            /\ (\A x \in 1 .. Len(q) :
                  q[x].type = "streamMsg" /\ q[x].call = d => x <= i)
                 => Sum(p, d) = Sum(q, d)
        BY <1>2, <1>5, SumPrefix
      <4>2. ASSUME News(p, d) = 1
            PROVE  News(q, d) = 1 /\ Sum(p, d) = Sum(q, d)
        <5>1. PICK y \in 1 .. Len(p) :
                p[y].type # "request" /\ p[y].call = d /\ p[y].status = "ok"
          BY <4>2 DEF News
        <5>2. /\ y \in 1 .. Len(q) /\ q[y].type # "request" /\ q[y].call = d
              /\ q[y].status = "ok" /\ y <= i /\ y \in Nat /\ i \in Nat
              /\ Len(q) \in Nat
          <6>1. Len(q) \in Nat
            BY <1>5, SeqFacts
          <6>2. QED
            BY <1>5, <1>6, <5>1, <6>1
        <5>3. q[y] \in WireMsg
          BY <1>5, <5>2, SeqFacts
        <5>4. q[y].type = "response"
          BY <5>2, <5>3 DEF WireMsg, RequestMsg, ReplyMsg
        <5>5. \A x \in 1 .. Len(q) :
                q[x].type # "request" /\ q[x].call = d => x <= y
          BY <1>5, <5>2, <5>4 DEF RepliesOK
        <5>6. \A x \in 1 .. Len(q) :
                q[x].type = "streamMsg" /\ q[x].call = d => x <= i
          BY <5>2, <5>5
        <5>7. News(q, d) = 1
          BY <4>2, <1>5, <1>6, NewsFacts
        <5>8. QED
          BY <4>1, <5>6, <5>7
      <4>3. QED
        BY <1>2, <1>3, <1>4, <1>6, <2>1, <3>2, <4>1, <4>2, FlowLost
    <3>3. QED
      BY <3>1, <3>2
  <2>5. QED
    BY <2>2, <2>3, <2>4
<1>12. stray' = {}
  BY <1>3 DEF Inv
<1>13. QED
  BY <1>8, <1>9, <1>10, <1>11, <1>12 DEF Inv

\* A step that only moves a Run which has left its loop, or kicks one.
LEMMA QuietKeeps ==
  ASSUME Inv,
         UNCHANGED <<linkVars, count, pending, streamErr, hubVars, remoteVars>>,
         kick' \in [Link -> BOOLEAN],
         run' \in [Link -> {"loop", "sweep", "stopping", "returned"}],
         \A k \in Link : run'[k] = "loop" <=> run[k] = "loop"
  PROVE  Inv'
<1> USE DEF linkVars, hubVars, remoteVars, peerVars
<1>1. TypeOK' /\ stray' = {}
  BY DEF Inv, TypeOK
<1>2. IssuerInv' /\ PendingInv'
  BY IssuerKeep DEF Inv, PendingInv
<1>3. ASSUME NEW j \in Link
      PROVE  LinkInv(j)'
  BY DEF Inv, LinkInv
<1>4. ASSUME NEW d \in Call
      PROVE  (WorkerInv(d) /\ HubInv(d) /\ FlowInv(d))'
  <2>1. /\ Target(d) \in Link /\ WorkerInv(d) /\ HubInv(d) /\ FlowInv(d)
    BY CallFacts
  <2>2. run'[Target(d)] = "loop" <=> run[Target(d)] = "loop"
    BY <2>1
  <2>3. WorkerInv(d)'
    BY <2>1 DEF WorkerInv
  <2>4. HubInv(d)'
    BY <2>1, <2>2 DEF HubInv, HubOK
  <2>5. FlowInv(d)'
    BY <2>1, <2>2 DEF FlowInv, FlowOK
  <2>6. QED
    BY <2>3, <2>4, <2>5
<1>5. QED
  BY <1>1, <1>2, <1>3, <1>4 DEF Inv

LEMMA QuietSteps ==
  ASSUME Inv,
         (\E k \in Link : SweepDone(k) \/ StopAndWait(k)) \/ KickSpliced
  PROVE  Inv'
<1>1. CASE \E k \in Link : SweepDone(k) \/ StopAndWait(k)
  <2>1. PICK k \in Link : SweepDone(k) \/ StopAndWait(k)
    BY <1>1
  <2>2. /\ UNCHANGED <<linkVars, count, pending, streamErr, kick, hubVars,
                       remoteVars>>
        /\ run[k] # "loop"
        /\ \E r \in {"stopping", "returned"} : run' = [run EXCEPT ![k] = r]
    BY <2>1 DEF SweepDone, StopAndWait
  <2>3. /\ run' \in [Link -> {"loop", "sweep", "stopping", "returned"}]
        /\ \A j \in Link : run'[j] = "loop" <=> run[j] = "loop"
        /\ kick' \in [Link -> BOOLEAN]
    BY <2>2 DEF Inv, TypeOK
  <2>4. QED
    BY <2>2, <2>3, QuietKeeps
<1>2. CASE KickSpliced
  <2>1. kick' \in [Link -> BOOLEAN] /\ UNCHANGED run
        /\ run \in [Link -> {"loop", "sweep", "stopping", "returned"}]
    BY <1>2 DEF KickSpliced, Kick, Inv, TypeOK
  <2>2. QED
    BY <1>2, <2>1, QuietKeeps DEF KickSpliced
<1>3. QED
  BY <1>1, <1>2

-------------------------------------------------------------------------------
(***************************************************************************)
(* The peers.                                                              *)
(***************************************************************************)
LEMMA RequestsAppend ==
  ASSUME NEW q \in Seq(WireMsg), NEW m \in WireMsg,
         NEW k, NEW st, NEW wk, NEW is, NEW it,
         RequestsOK(q, k, st, wk, is, it),
         m.type = "request" =>
           /\ Origin(m.call) = k /\ m.tag = it[m.call]
           /\ wk[m.call] = "none" /\ is[m.call] = "waiting"
           /\ \A i \in 1 .. Len(q) : q[i].type = "request" => q[i].call # m.call
  PROVE  RequestsOK(Append(q, m), k, st, wk, is, it)
<1>1. PICK p : p = Append(q, m)
  OBVIOUS
<1>2. /\ Len(q) \in Nat /\ Len(p) = Len(q) + 1
      /\ \A i \in 1 .. Len(q) : p[i] = q[i]
      /\ p[Len(q) + 1] = m
  BY <1>1, SeqFacts
<1>3. \A i \in 1 .. Len(p) : i \in 1 .. Len(q) \/ i = Len(q) + 1
  BY <1>2
<1>4. ASSUME NEW i \in 1 .. Len(p), p[i].type = "request"
      PROVE  /\ Origin(p[i].call) = k /\ p[i].tag = it[p[i].call]
             /\ wk[p[i].call] = "none" /\ is[p[i].call] # "idle"
             /\ st = "open" => is[p[i].call] = "waiting"
             /\ \A j \in 1 .. Len(p) :
                  p[j].type = "request" /\ p[j].call = p[i].call => i = j
  <2>1. CASE i \in 1 .. Len(q)
    BY <1>2, <1>3, <1>4, <2>1 DEF RequestsOK
  <2>2. CASE i = Len(q) + 1
    BY <1>2, <1>3, <1>4, <2>2 DEF RequestsOK
  <2>3. QED
    BY <1>3, <2>1, <2>2
<1>5. RequestsOK(p, k, st, wk, is, it)
  BY <1>4 DEF RequestsOK
<1>6. QED
  BY <1>1, <1>5

LEMMA RepliesAppend ==
  ASSUME NEW q \in Seq(WireMsg), NEW m \in WireMsg, NEW P, NEW hd, NEW an,
         RepliesOK(q, P, hd, an),
         m.type # "request" =>
           /\ [tag |-> m.tag, call |-> m.call] \in P
           /\ m.type = "streamMsg" => m.call \in Streaming
           /\ m.type = "response" =>
                hd[m.call] = "answered" /\ m.status = an[m.call]
           /\ \A i \in 1 .. Len(q) :
                q[i].type = "response" => q[i].call # m.call
  PROVE  RepliesOK(Append(q, m), P, hd, an)
<1>1. PICK p : p = Append(q, m)
  OBVIOUS
<1>2. /\ Len(q) \in Nat /\ Len(p) = Len(q) + 1
      /\ \A i \in 1 .. Len(q) : p[i] = q[i]
      /\ p[Len(q) + 1] = m
  BY <1>1, SeqFacts
<1>3. \A i \in 1 .. Len(p) : i \in 1 .. Len(q) \/ i = Len(q) + 1
  BY <1>2
<1>4. ASSUME NEW i \in 1 .. Len(p), p[i].type # "request"
      PROVE  /\ [tag |-> p[i].tag, call |-> p[i].call] \in P
             /\ p[i].type = "streamMsg" => p[i].call \in Streaming
             /\ p[i].type = "response" =>
                  /\ hd[p[i].call] = "answered" /\ p[i].status = an[p[i].call]
                  /\ \A j \in 1 .. Len(p) :
                       p[j].type # "request" /\ p[j].call = p[i].call => j <= i
  <2>1. CASE i \in 1 .. Len(q)
    <3>1. p[i] = q[i]
      BY <1>2, <2>1
    <3>2. ASSUME p[i].type = "response", NEW j \in 1 .. Len(p),
                 p[j].type # "request", p[j].call = p[i].call
          PROVE  j <= i
      <4>1. CASE j \in 1 .. Len(q)
        BY <1>2, <1>4, <2>1, <3>1, <3>2, <4>1 DEF RepliesOK
      <4>2. CASE j = Len(q) + 1
        BY <1>2, <2>1, <3>1, <3>2, <4>2
      <4>3. QED
        BY <1>3, <4>1, <4>2
    <3>3. QED
      BY <1>4, <2>1, <3>1, <3>2 DEF RepliesOK
  <2>2. CASE i = Len(q) + 1
    <3>1. p[i] = m /\ \A j \in 1 .. Len(p) : j <= i
      BY <1>2, <2>2
    <3>2. QED
      BY <1>4, <3>1
  <2>3. QED
    BY <1>3, <2>1, <2>2
<1>5. RepliesOK(p, P, hd, an)
  BY <1>4 DEF RepliesOK
<1>6. QED
  BY <1>1, <1>5

\* A message for the hub is queued, unless nobody reads the stream any more.
LEMMA DepositFacts ==
  ASSUME Inv, NEW k \in Link, NEW m \in WireMsg, Deposit(k, m)
  PROVE  /\ stream[k] = "open"
         /\ toHub' \in [Link -> Seq(WireMsg)]
         /\ \A j \in Link : j # k => toHub'[j] = toHub[j]
         /\ run[k] = "loop" => toHub'[k] = Append(toHub[k], m)
         /\ run[k] # "loop" => toHub'[k] = toHub[k]
<1>1. toHub \in [Link -> Seq(WireMsg)]
  BY DEF Inv, TypeOK, WireMsg
<1>2. Append(toHub[k], m) \in Seq(WireMsg)
  BY <1>1, SeqFacts
<1>3. QED
  BY <1>1, <1>2 DEF Deposit

\* A call whose stream the message in question does not belong to.
LEMMA DepositWay ==
  ASSUME Inv, NEW k \in Link, NEW m \in WireMsg, Deposit(k, m), NEW d \in Call,
         m.type = "request" \/ m.call # d
  PROVE  /\ Sum(toHub'[Target(d)], d) = Sum(toHub[Target(d)], d)
         /\ News(toHub'[Target(d)], d) = 1 => News(toHub[Target(d)], d) = 1
<1>1. /\ \A j \in Link : j # k => toHub'[j] = toHub[j]
      /\ run[k] = "loop" => toHub'[k] = Append(toHub[k], m)
      /\ run[k] # "loop" => toHub'[k] = toHub[k]
  BY DepositFacts
<1>2. Target(d) \in Link /\ toHub[k] \in Seq(WireMsg)
  BY LinkFacts, QueueFacts
<1>3. CASE Target(d) = k /\ run[k] = "loop"
  <2>1. Sum(Append(toHub[k], m), d) = Sum(toHub[k], d) + 0
    BY <1>2, SumAppend
  <2>2. Sum(toHub[k], d) \in Nat
    BY <1>2, SumType
  <2>3. News(Append(toHub[k], m), d) = News(toHub[k], d)
    BY <1>2, NewsFacts
  <2>4. Sum(Append(toHub[k], m), d) = Sum(toHub[k], d)
    BY <2>1, <2>2
  <2>5. PICK p : p = Append(toHub[k], m)
    OBVIOUS
  <2>6. toHub'[k] = p
    BY <1>1, <1>3, <2>5
  <2>7. Sum(p, d) = Sum(toHub[k], d) /\ News(p, d) = News(toHub[k], d)
    BY <2>3, <2>4, <2>5
  <2>8. QED
    BY <1>3, <2>6, <2>7
<1>4. CASE ~(Target(d) = k /\ run[k] = "loop")
  BY <1>1, <1>2, <1>4
<1>5. QED
  BY <1>3, <1>4

LEMMA IssueKeeps ==
  ASSUME Inv, NEW c \in Call, Issue(c)
  PROVE  Inv'
<1>0. PICK k, t : /\ k = Origin(c)
                  /\ t = Earlier + 1 + Cardinality(Issued(k))
  OBVIOUS
<1>1. /\ issuer[c] = "idle"
      /\ issuer' = [issuer EXCEPT ![c] = "waiting"]
      /\ issuerTag' = [issuerTag EXCEPT ![c] = t]
      /\ Deposit(k, Msg("request", t, c, "none"))
      /\ UNCHANGED <<stream, count, pending, run, streamErr, kick, worker,
                     requestTag, msgTag, invoke, held, future, writer, exit,
                     handler, handlerTag, answer, sent, received, stray>>
  BY <1>0 DEF Issue, Issued, ctrlVars, hubVars
<1>2. k \in Link /\ \A d \in Call : Origin(d) \in Link
  BY <1>0, LinkFacts
<1>3. /\ IsFiniteSet(Issued(k)) /\ Cardinality(Issued(k)) \in Nat
      /\ Earlier \in Nat /\ t \in Nat
  <2>1. IsFiniteSet(Issued(k))
    BY <1>2 DEF Inv, IssuerInv
  <2>2. Cardinality(Issued(k)) \in Nat
    BY <2>1, FS_CardinalityType
  <2>3. Earlier \in Nat
    BY ForwardingAssumption DEF ForwardingAssumption
  <2>4. QED
    BY <1>0, <2>1, <2>2, <2>3
<1>4. /\ issuer'[c] = "waiting" /\ issuerTag'[c] = t
      /\ \A d \in Call : d # c =>
           issuer'[d] = issuer[d] /\ issuerTag'[d] = issuerTag[d]
  BY <1>1 DEF Inv, TypeOK
<1>5. PICK m : m = Msg("request", t, c, "none")
  OBVIOUS
<1>6. /\ m \in WireMsg /\ m.type = "request" /\ m.call = c /\ m.tag = t
  BY <1>3, <1>5 DEF Msg, WireMsg, RequestMsg
<1>7. /\ Deposit(k, m) /\ stream[k] = "open"
      /\ toHub' \in [Link -> Seq(WireMsg)]
      /\ \A j \in Link : j # k => toHub'[j] = toHub[j]
      /\ run[k] = "loop" => toHub'[k] = Append(toHub[k], m)
      /\ run[k] # "loop" => toHub'[k] = toHub[k]
  BY <1>1, <1>2, <1>5, <1>6, DepositFacts
<1>8. TypeOK'
  <2>1. /\ issuer' \in [Call -> {"idle", "waiting", "ok", "error"}]
        /\ issuerTag' \in [Call -> Nat]
    BY <1>1, <1>3 DEF Inv, TypeOK
  <2>2. QED
    BY <1>1, <1>7, <2>1 DEF Inv, TypeOK, WireMsg
<1>9. IssuerInv'
  <2>1. c \notin Issued(k)
    BY <1>1 DEF Issued
  <2>2. Issued(k)' = Issued(k) \cup {c}
    BY <1>0, <1>4 DEF Issued
  <2>3. /\ IsFiniteSet(Issued(k)')
        /\ Cardinality(Issued(k)') = Cardinality(Issued(k)) + 1
    BY <1>3, <2>1, <2>2, FS_AddElement
  <2>4. ASSUME NEW j \in Link, j # k
        PROVE  Issued(j)' = Issued(j)
    BY <1>0, <1>4, <2>4 DEF Issued
  <2>5. \A j \in Link : IsFiniteSet(Issued(j)')
    BY <2>3, <2>4 DEF Inv, IssuerInv
  <2>6. ASSUME NEW d \in Call, issuer[d] # "idle"
        PROVE  /\ issuerTag[d] \in Nat /\ issuerTag'[d] = issuerTag[d]
               /\ issuerTag'[d] <= Earlier + Cardinality(Issued(Origin(d)))
               /\ Origin(d) = k => issuerTag'[d] < t
    <3>1. /\ issuerTag[d] <= Earlier + Cardinality(Issued(Origin(d)))
          /\ issuerTag[d] \in Nat
      BY <2>6 DEF Inv, IssuerInv, TypeOK
    <3>2. issuerTag'[d] = issuerTag[d]
      BY <1>1, <1>4, <2>6
    <3>3. ASSUME Origin(d) = k PROVE issuerTag[d] < t
      BY <1>0, <1>3, <3>1, <3>3
    <3>4. QED
      BY <3>1, <3>2, <3>3
  <2>7. ASSUME NEW d \in Call, issuer'[d] # "idle"
        PROVE  issuerTag'[d] <= Earlier + Cardinality(Issued(Origin(d))')
    <3>1. CASE d = c
      BY <1>0, <1>3, <1>4, <2>3, <3>1
    <3>2. CASE d # c /\ Origin(d) = k
      <4>1. issuerTag'[d] < t /\ issuerTag'[d] \in Nat
        BY <1>4, <2>6, <2>7, <3>2
      <4>2. QED
        BY <1>0, <1>3, <2>3, <3>2, <4>1
    <3>3. CASE d # c /\ Origin(d) # k
      BY <1>2, <1>4, <2>4, <2>6, <2>7, <3>3
    <3>4. QED
      BY <3>1, <3>2, <3>3
  <2>8. ASSUME NEW d \in Call, NEW f \in Call,
               issuer'[d] # "idle", issuer'[f] # "idle",
               Origin(d) = Origin(f), issuerTag'[d] = issuerTag'[f]
        PROVE  d = f
    <3>1. CASE d # c /\ f # c
      BY <1>4, <2>8, <3>1 DEF Inv, IssuerInv
    <3>2. CASE d = c /\ f # c
      BY <1>0, <1>3, <1>4, <2>6, <2>8, <3>2
    <3>3. CASE d # c /\ f = c
      BY <1>0, <1>3, <1>4, <2>6, <2>8, <3>3
    <3>4. QED
      BY <3>1, <3>2, <3>3
  <2>9. QED
    BY <2>5, <2>7, <2>8 DEF IssuerInv
<1>10. PendingInv'
  BY <1>1 DEF Inv, PendingInv
<1>11. worker[c] = "none" /\ WorkerInv(c) /\ HubInv(c) /\ FlowInv(c)
  BY <1>1, CallFacts DEF WorkerInv, WorkerOK
<1>12. ASSUME NEW j \in Link
       PROVE  LinkInv(j)'
  <2>1. /\ RequestsOK(toHub[j], j, stream[j], worker, issuer, issuerTag)
        /\ RepliesOK(toHub[j], pending[j], handler, answer)
        /\ run[j] # "loop" => toHub[j] = <<>>
        /\ toHub[j] \in Seq(WireMsg)
        /\ \A i \in 1 .. Len(toHub[j]) : toHub[j][i].call \in Call
    BY QueueFacts
  <2>2. ASSUME NEW i \in 1 .. Len(toHub[j]), toHub[j][i].type = "request"
        PROVE  /\ toHub[j][i].call # c
               /\ worker[toHub[j][i].call] = "none"
               /\ issuer'[toHub[j][i].call] # "idle"
               /\ issuerTag'[toHub[j][i].call] = issuerTag[toHub[j][i].call]
               /\ stream[j] = "open" => issuer'[toHub[j][i].call] = "waiting"
    <3>1. toHub[j][i].call # c /\ toHub[j][i].call \in Call
      BY <1>1, <2>1, <2>2 DEF RequestsOK
    <3>2. QED
      BY <1>4, <2>1, <2>2, <3>1 DEF RequestsOK
  <2>3. RequestsOK(toHub[j], j, stream[j], worker, issuer', issuerTag')
    BY <2>1, <2>2, RequestsKeep
  <2>4. CASE j = k /\ run[k] = "loop"
    <3>1. RequestsOK(Append(toHub[k], m), k, stream[k], worker, issuer',
                     issuerTag')
      BY <1>0, <1>4, <1>6, <1>11, <2>1, <2>2, <2>3, <2>4, RequestsAppend
    <3>2. RepliesOK(Append(toHub[k], m), pending[k], handler, answer)
      BY <1>6, <2>1, <2>4, RepliesAppend
    <3>3. QED
      BY <1>1, <1>7, <2>4, <3>1, <3>2 DEF LinkInv
  <2>5. CASE ~(j = k /\ run[k] = "loop")
    <3>1. toHub'[j] = toHub[j]
      BY <1>7, <2>5
    <3>2. QED
      BY <1>1, <2>1, <2>3, <3>1 DEF LinkInv
  <2>6. QED
    BY <2>4, <2>5
<1>13. \A d \in Call : SameWay(d)
  BY <1>1, <1>2, <1>6, <1>7, DepositWay DEF SameWay
<1>14. ASSUME NEW d \in Call, d # c
       PROVE  (WorkerInv(d) /\ HubInv(d) /\ FlowInv(d))'
  <2>1. SameCall(d)
    BY <1>1, <1>4, <1>14 DEF SameCall
  <2>2. QED
    BY <1>1, <1>13, <2>1, CallFrame
<1>15. (WorkerInv(c) /\ HubInv(c) /\ FlowInv(c))'
  <2>1. WorkerInv(c)'
    BY <1>1, <1>4, <1>11 DEF WorkerInv, WorkerOK
  <2>2. SameWay(c)
    BY <1>13
  <2>3. HubInv(c)'
    BY <1>1, <1>11, <2>2 DEF HubInv, SameWay
  <2>4. FlowInv(c)'
    BY <1>1, <1>11, <2>2 DEF FlowInv, FlowOK, Good, SameWay
  <2>5. QED
    BY <2>1, <2>3, <2>4
<1>16. stray' = {}
  BY <1>1 DEF Inv
<1>17. QED
  BY <1>8, <1>9, <1>10, <1>12, <1>14, <1>15, <1>16 DEF Inv

\* A handler sends a message of its stream or its answer, m, to the hub.
LEMMA HandlerKeeps ==
  ASSUME Inv, NEW c \in Call, handler[c] = "executing",
         NEW ty \in {"streamMsg", "response"},
         NEW s, NEW an, NEW hd, NEW sn,
         \/ /\ ty = "streamMsg" /\ c \in Streaming /\ s = "none"
            /\ an = "none" /\ hd = "executing" /\ sn = sent[c] + 1
         \/ /\ ty = "response" /\ s \in {"ok", "error"}
            /\ an = s /\ hd = "answered" /\ sn = sent[c],
         Deposit(Target(c), Msg(ty, handlerTag[c], c, s)),
         answer' = [answer EXCEPT ![c] = an],
         handler' = [handler EXCEPT ![c] = hd],
         sent' = [sent EXCEPT ![c] = sn],
         UNCHANGED <<stream, ctrlVars, hubVars, issuer, issuerTag, handlerTag,
                     received, stray>>
  PROVE  Inv'
<1> USE DEF ctrlVars, hubVars
<1>0. PICK k, m : k = Target(c) /\ m = Msg(ty, handlerTag[c], c, s)
  OBVIOUS
<1>1. /\ k \in Link /\ handlerTag[c] \in Nat /\ sent[c] \in Nat /\ sn \in Nat
  BY <1>0, LinkFacts DEF Inv, TypeOK
<1>2. /\ m \in ReplyMsg /\ m \in WireMsg /\ m.type = ty /\ m.call = c
      /\ m.tag = handlerTag[c] /\ m.status = s
  BY <1>0, <1>1 DEF Msg, WireMsg, ReplyMsg
<1>3. /\ Deposit(k, m) /\ stream[k] = "open"
      /\ toHub' \in [Link -> Seq(WireMsg)]
      /\ \A j \in Link : j # k => toHub'[j] = toHub[j]
      /\ run[k] = "loop" => toHub'[k] = Append(toHub[k], m)
      /\ run[k] # "loop" => toHub'[k] = toHub[k]
  BY <1>0, <1>1, <1>2, DepositFacts
<1>4. /\ answer'[c] = an /\ handler'[c] = hd /\ sent'[c] = sn
      /\ \A d \in Call : d # c => /\ answer'[d] = answer[d]
                                  /\ handler'[d] = handler[d]
                                  /\ sent'[d] = sent[d]
  BY DEF Inv, TypeOK
<1>5. /\ WorkerInv(c) /\ HubInv(c) /\ FlowInv(c)
      /\ future[c] \in Seq(ReplyMsg) /\ writer[c] \in Seq(ReplyMsg)
      /\ received[c] \in Nat
  BY CallFacts
<1>6. /\ invoke[c] # "none" /\ answer[c] = "none"
      /\ run[k] = "loop" =>
           [tag |-> handlerTag[c], call |-> c] \in pending[k]
  BY <1>0, <1>5 DEF HubInv, HubOK, Entries
<1>7. TypeOK'
  <2>1. /\ answer' \in [Call -> {"none", "ok", "error"}]
        /\ handler' \in [Call -> {"none", "executing", "answered"}]
    BY DEF Inv, TypeOK
  <2>2. sent' \in [Call -> Nat]
    BY <1>1 DEF Inv, TypeOK
  <2>3. QED
    BY <1>3, <2>1, <2>2 DEF Inv, TypeOK, WireMsg
<1>8. IssuerInv' /\ PendingInv'
  BY IssuerKeep DEF Inv, PendingInv
<1>9. ASSUME NEW j \in Link
      PROVE  LinkInv(j)'
  <2>1. /\ RequestsOK(toHub[j], j, stream[j], worker, issuer, issuerTag)
        /\ RepliesOK(toHub[j], pending[j], handler, answer)
        /\ run[j] # "loop" => toHub[j] = <<>>
        /\ toHub[j] \in Seq(WireMsg)
        /\ \A i \in 1 .. Len(toHub[j]) : toHub[j][i].call \in Call
    BY QueueFacts
  <2>2. ASSUME NEW i \in 1 .. Len(toHub[j]), toHub[j][i].type = "response"
        PROVE  /\ toHub[j][i].call # c
               /\ handler'[toHub[j][i].call] = handler[toHub[j][i].call]
               /\ answer'[toHub[j][i].call] = answer[toHub[j][i].call]
    <3>1. handler[toHub[j][i].call] = "answered"
      BY <2>1, <2>2 DEF RepliesOK
    <3>2. QED
      BY <1>4, <2>1, <3>1
  <2>3. \A i \in 1 .. Len(toHub[j]) : toHub[j][i].type # "request" =>
          [tag |-> toHub[j][i].tag, call |-> toHub[j][i].call] \in pending[j]
    BY <2>1 DEF RepliesOK
  <2>4. RepliesOK(toHub[j], pending[j], handler', answer')
    <3>1. PICK h, a : h = handler' /\ a = answer'
      OBVIOUS
    <3>2. ASSUME NEW i \in 1 .. Len(toHub[j]),
                 toHub[j][i].type = "response"
          PROVE  h[toHub[j][i].call] = handler[toHub[j][i].call]
                 /\ a[toHub[j][i].call] = answer[toHub[j][i].call]
      BY <2>2, <3>1, <3>2
    <3>3. RepliesOK(toHub[j], pending[j], h, a)
      BY <2>1, <3>2 DEF RepliesOK
    <3>4. QED
      BY <3>1, <3>3
  <2>5. CASE j = k /\ run[k] = "loop"
    <3>1. RequestsOK(Append(toHub[k], m), k, stream[k], worker, issuer,
                     issuerTag)
      <4>1. m.type # "request"
        BY <1>2
      <4>2. QED
        BY <1>2, <2>1, <2>5, <4>1, RequestsAppend
    <3>2. RepliesOK(Append(toHub[k], m), pending[k], handler', answer')
      <4>1. /\ [tag |-> m.tag, call |-> m.call] \in pending[k]
            /\ m.type = "streamMsg" => m.call \in Streaming
            /\ m.type = "response" =>
                 handler'[m.call] = "answered" /\ m.status = answer'[m.call]
            /\ \A i \in 1 .. Len(toHub[k]) :
                 toHub[k][i].type = "response" => toHub[k][i].call # m.call
        BY <1>2, <1>4, <1>6, <2>2, <2>5
      <4>2. QED
        BY <1>2, <2>1, <2>4, <2>5, <4>1, RepliesAppend
    <3>3. QED
      BY <1>3, <2>5, <3>1, <3>2 DEF LinkInv
  <2>6. CASE ~(j = k /\ run[k] = "loop")
    <3>1. toHub'[j] = toHub[j]
      BY <1>3, <2>6
    <3>2. QED
      BY <2>1, <2>4, <3>1 DEF LinkInv
  <2>7. QED
    BY <2>5, <2>6
<1>10. ASSUME NEW d \in Call, d # c
       PROVE  (WorkerInv(d) /\ HubInv(d) /\ FlowInv(d))'
  <2>1. SameCall(d)
    BY <1>4, <1>10 DEF SameCall
  <2>2. SameWay(d)
    BY <1>1, <1>2, <1>3, <1>10, DepositWay DEF SameWay
  <2>3. QED
    BY <2>1, <2>2, CallFrame
<1>11. WorkerInv(c)'
  BY <1>5 DEF WorkerInv
<1>12. HubInv(c)'
  <2>1. hd = "answered" <=> an # "none"
    OBVIOUS
  <2>2. hd = "executing" => handler[c] = hd
    OBVIOUS
  <2>3. QED
    BY <1>4, <1>5, <1>6, <2>1, <2>2 DEF HubInv, HubOK
<1>13. FlowInv(c)'
  <2>1. PICK n, n2, g, g2, a :
          /\ n = Sum(toHub[k], c) /\ n2 = Sum(toHub'[k], c)
          /\ g = News(toHub[k], c) /\ g2 = News(toHub'[k], c)
          /\ a = Passed(c, future[c], invoke[c], held[c], writer[c], received[c])
    OBVIOUS
  <2>2. /\ toHub[k] \in Seq(WireMsg) /\ n \in Nat /\ a \in Nat
    <3>1. toHub[k] \in Seq(WireMsg)
      BY <1>1, QueueFacts
    <3>2. n \in Nat
      BY <2>1, <3>1, SumType
    <3>3. QED
      BY <1>5, <2>1, <3>1, <3>2, TotalType
  <2>3. /\ n2 = (IF ty = "streamMsg" /\ run[k] = "loop" THEN n + 1 ELSE n)
        /\ g2 = (IF s = "ok" /\ run[k] = "loop" THEN 1 ELSE g)
    <3>1. CASE run[k] = "loop"
      <4>1. Sum(Append(toHub[k], m), c)
              = Sum(toHub[k], c)
                  + (IF m.type = "streamMsg" /\ m.call = c THEN 1 ELSE 0)
        BY <1>2, <2>2, SumAppend
      <4>2. News(Append(toHub[k], m), c)
              = IF m.type # "request" /\ m.call = c /\ m.status = "ok"
                  THEN 1 ELSE News(toHub[k], c)
        BY <1>2, <2>2, NewsFacts
      <4>3. g2 = IF s = "ok" THEN 1 ELSE g
        BY <1>2, <1>3, <2>1, <3>1, <4>2
      <4>4. n2 = IF ty = "streamMsg" THEN n + 1 ELSE n
        <5>1. PICK p : p = Append(toHub[k], m)
          OBVIOUS
        <5>2. toHub'[k] = p
          BY <1>3, <3>1, <5>1
        <5>3. n2 = n + (IF ty = "streamMsg" THEN 1 ELSE 0)
          BY <1>2, <2>1, <4>1, <5>1, <5>2
        <5>4. QED
          BY <2>2, <5>3
      <4>5. QED
        BY <3>1, <4>3, <4>4
    <3>2. CASE run[k] # "loop"
      BY <1>3, <2>1, <3>2
    <3>3. QED
      BY <3>1, <3>2
  <2>4. /\ c \notin Streaming => sent[c] = 0
        /\ n + a <= sent[c]
        /\ stream[Origin(c)] = "open" /\ run[k] = "loop" => n + a = sent[c]
        /\ stream[Origin(c)] = "open" =>
             ~Good(c, g, future[c], invoke[c], held[c], writer[c], exit[c])
    BY <1>0, <1>3, <1>5, <1>6, <2>1 DEF FlowInv, FlowOK, Total
  <2>5. c \notin Streaming => sn = 0
    BY <2>4
  <2>6. n2 + a <= sn
    BY <1>1, <2>2, <2>3, <2>4
  <2>7. stream[Origin(c)] = "open" /\ run[k] = "loop" => n2 + a = sn
    BY <1>1, <2>2, <2>3, <2>4
  <2>8. ASSUME stream[Origin(c)] = "open",
               Good(c, g2, future[c], invoke[c], held[c], writer[c], exit[c])
        PROVE  an = "ok" /\ n2 + a = sn
    <3>1. s = "ok" /\ run[k] = "loop"
      BY <2>3, <2>4, <2>8
    <3>2. QED
      BY <2>7, <2>8, <3>1
  <2>9. QED
    BY <1>0, <1>4, <2>1, <2>5, <2>6, <2>7, <2>8 DEF FlowInv, FlowOK, Total
<1>14. stray' = {}
  BY DEF Inv
<1>15. QED
  BY <1>7, <1>8, <1>9, <1>10, <1>11, <1>12, <1>13, <1>14 DEF Inv

LEMMA HandlerSteps ==
  ASSUME Inv, NEW c \in Call, HandlerSend(c) \/ HandlerReturn(c)
  PROVE  Inv'
<1>1. /\ answer \in [Call -> {"none", "ok", "error"}] /\ sent \in [Call -> Nat]
      /\ handler \in [Call -> {"none", "executing", "answered"}] /\ HubInv(c)
  BY CallFacts DEF Inv, TypeOK
<1>2. CASE HandlerSend(c)
  <2>1. handler[c] = "executing" /\ c \in Streaming
    BY <1>2 DEF HandlerSend
  <2>2. answer[c] = "none"
    BY <1>1, <2>1 DEF HubInv, HubOK
  <2>3. /\ answer' = [answer EXCEPT ![c] = "none"]
        /\ handler' = [handler EXCEPT ![c] = "executing"]
        /\ sent' = [sent EXCEPT ![c] = sent[c] + 1]
    BY <1>1, <1>2, <2>1, <2>2 DEF HandlerSend
  <2>4. Deposit(Target(c), Msg("streamMsg", handlerTag[c], c, "none"))
    BY <1>2 DEF HandlerSend
  <2>5. UNCHANGED <<stream, ctrlVars, hubVars, issuer, issuerTag, handlerTag,
                    received, stray>>
    BY <1>2 DEF HandlerSend
  <2>6. QED
    BY <2>1, <2>3, <2>4, <2>5, HandlerKeeps
<1>3. CASE HandlerReturn(c)
  <2>1. handler[c] = "executing" /\ handler' = [handler EXCEPT ![c] = "answered"]
    BY <1>3 DEF HandlerReturn
  <2>2. PICK s \in {"ok", "error"} :
          /\ answer' = [answer EXCEPT ![c] = s]
          /\ Deposit(Target(c), Msg("response", handlerTag[c], c, s))
    BY <1>3 DEF HandlerReturn
  <2>3. sent' = [sent EXCEPT ![c] = sent[c]]
    BY <1>1, <1>3 DEF HandlerReturn
  <2>4. UNCHANGED <<stream, ctrlVars, hubVars, issuer, issuerTag, handlerTag,
                    received, stray>>
    BY <1>3 DEF HandlerReturn
  <2>5. QED
    BY <2>1, <2>2, <2>3, <2>4, HandlerKeeps
<1>4. QED
  BY <1>2, <1>3

-------------------------------------------------------------------------------
(***************************************************************************)
(* The invariant, and what it says of types and tags.                      *)
(***************************************************************************)
LEMMA InitInv == Init => Inv
<1> SUFFICES ASSUME Init
             PROVE  Inv
  OBVIOUS
<1> USE DEF Init
<1>1. TypeOK /\ stray = {}
  <2>1. /\ \A k \in Link : toHub[k] = <<>>
        /\ \A c \in Call : future[c] = <<>> /\ writer[c] = <<>>
    OBVIOUS
  <2>2. /\ toHub \in [Link -> Seq(RequestMsg \cup ReplyMsg)]
        /\ future \in [Call -> Seq(ReplyMsg)]
        /\ writer \in [Call -> Seq(ReplyMsg)]
    BY EmptyQueue DEF WireMsg
  <2>3. \A c \in Call : Len(future[c]) <= ChanCap /\ Len(writer[c]) <= ChanCap
    BY <2>1, EmptyQueue DEF ChanCap
  <2>4. QED
    BY <2>2, <2>3 DEF TypeOK
<1>2. IssuerInv
  <2>1. \A c \in Call : issuer[c] = "idle"
    OBVIOUS
  <2>2. \A k \in Link : Issued(k) = {}
    BY <2>1 DEF Issued
  <2>3. QED
    BY <2>1, <2>2, FS_EmptySet DEF IssuerInv
<1>3. PendingInv
  BY DEF PendingInv
<1>4. ASSUME NEW k \in Link
      PROVE  LinkInv(k)
  <2>1. toHub[k] = <<>>
    OBVIOUS
  <2>2. QED
    BY <2>1, EmptyQueue DEF LinkInv
<1>5. ASSUME NEW c \in Call
      PROVE  WorkerInv(c) /\ HubInv(c) /\ FlowInv(c)
  <2>1. /\ Target(c) \in Link /\ Origin(c) \in Link
        /\ toHub[Target(c)] = <<>> /\ pending[Target(c)] = {}
        /\ worker[c] = "none" /\ invoke[c] = "none" /\ exit[c] = "none"
        /\ future[c] = <<>> /\ writer[c] = <<>>
        /\ handler[c] = "none" /\ answer[c] = "none"
        /\ sent[c] = 0 /\ received[c] = 0
    BY LinkFacts
  <2>2. WorkerInv(c)
    BY <2>1 DEF WorkerInv, WorkerOK
  <2>3. Entries(pending[Target(c)], c) = {}
    BY <2>1 DEF Entries
  <2>4. HubInv(c)
    BY <2>1, <2>3, EmptyQueue DEF HubInv, HubOK
  <2>5. /\ Sum(toHub[Target(c)], c) = 0 /\ News(toHub[Target(c)], c) = 0
        /\ Sum(future[c], c) = 0 /\ Sum(writer[c], c) = 0
        /\ News(future[c], c) = 0 /\ News(writer[c], c) = 0
        /\ Carried(invoke[c], held[c]) = 0
    BY <2>1, EmptyQueue DEF Carried
  <2>6. Passed(c, future[c], invoke[c], held[c], writer[c], received[c]) = 0
    BY <2>1, <2>5 DEF Passed
  <2>7. ~Good(c, 0, future[c], invoke[c], held[c], writer[c], exit[c])
    BY <2>1, <2>5 DEF Good
  <2>8. FlowInv(c)
    BY <2>1, <2>5, <2>6, <2>7 DEF FlowInv, FlowOK, Total
  <2>9. QED
    BY <2>2, <2>4, <2>8
<1>6. QED
  BY <1>1, <1>2, <1>3, <1>4, <1>5 DEF Inv

LEMMA NextInv == Inv /\ [Next]_vars => Inv'
<1> SUFFICES ASSUME Inv, [Next]_vars
             PROVE  Inv'
  OBVIOUS
<1>1. CASE UNCHANGED vars
  <2>1. /\ UNCHANGED <<linkVars, count, pending, streamErr, hubVars, remoteVars>>
        /\ UNCHANGED <<kick, run>>
    BY <1>1 DEF vars, ctrlVars
  <2>2. /\ kick' \in [Link -> BOOLEAN]
        /\ run' \in [Link -> {"loop", "sweep", "stopping", "returned"}]
        /\ \A k \in Link : run'[k] = "loop" <=> run[k] = "loop"
    BY <2>1 DEF Inv, TypeOK
  <2>3. QED
    BY <2>1, <2>2, QuietKeeps
<1>2. ASSUME NEW k \in Link, Run(k)
      PROVE  Inv'
  BY <1>2, RunRequestKeeps, RunResponseKeeps, RunStreamMsgKeeps, RunEndKeeps,
     SweepKeeps, QuietSteps DEF Run
<1>3. ASSUME NEW k \in Link, EndOf(k)
      PROVE  Inv'
  BY <1>3, EndOfKeeps
<1>4. CASE KickSpliced
  BY <1>4, QuietSteps
<1>5. ASSUME NEW c \in Call, Invoke(c)
      PROVE  Inv'
  BY <1>5, InvokeReturnKeeps, StreamTakeKeeps, StreamWriteKeeps,
     StreamCtxDoneKeeps DEF Invoke
<1>6. ASSUME NEW c \in Call, Worker(c)
      PROVE  Inv'
  BY <1>6, NoHandlerKeeps, RequestKeeps, RelayKeeps, RelayEndKeeps,
     RelayCtxDoneKeeps DEF Worker
<1>7. ASSUME NEW c \in Call, Issue(c) \/ HandlerSend(c) \/ HandlerReturn(c)
      PROVE  Inv'
  BY <1>7, IssueKeeps, HandlerSteps
<1>8. QED
  BY <1>1, <1>2, <1>3, <1>4, <1>5, <1>6, <1>7 DEF Next

\* The variables have their types, and the channels of Request and of
\* handleRequest never hold more than their one slot.
THEOREM TypeCorrect == Spec => []TypeOK
<1>1. Inv => TypeOK
  BY DEF Inv
<1>2. QED
  BY <1>1, InitInv, NextInv, PTL DEF Spec

\* A hub routes by tags: a reply it sends on reaches the call it answers, under
\* the tag handleRequest saved before Request overwrote that of the message, and
\* it is only sent replies to what it has forwarded and not yet resolved.
THEOREM RoutesTags == Spec => []TagsRouted
<1>1. Inv => TagsRouted
  <2> SUFFICES ASSUME Inv
               PROVE  TagsRouted
    OBVIOUS
  <2>1. ASSUME NEW k \in Link, NEW i \in DOMAIN toHub[k],
               toHub[k][i].type # "request"
        PROVE  [tag |-> toHub[k][i].tag, call |-> toHub[k][i].call]
                 \in pending[k]
    <3>1. /\ RepliesOK(toHub[k], pending[k], handler, answer)
          /\ toHub[k] \in Seq(WireMsg)
      BY QueueFacts
    <3>2. i \in 1 .. Len(toHub[k])
      BY <3>1
    <3>3. QED
      BY <2>1, <3>1, <3>2 DEF RepliesOK
  <2>2. QED
    BY <2>1 DEF TagsRouted, Inv
<1>2. QED
  BY <1>1, InitInv, NextInv, PTL DEF Spec

-------------------------------------------------------------------------------
(***************************************************************************)
(* The refinement: the contract of an RPC, from its issuer to its handler. *)
(***************************************************************************)
\* What the mapping makes of one call.
PhaseOf(c) ==
  IF issuer[c] = "idle" THEN "idle"
  ELSE IF handler[c] = "none" THEN "issued" ELSE handler[c]

OutcomeOf(c) == IF issuer[c] \in {"ok", "error"} THEN issuer[c] ELSE "none"

LEMMA StutterMaps ==
  ASSUME UNCHANGED <<issuer, handler, answer, sent, received>>
  PROVE  UNCHANGED Contract!vars
BY DEF Contract!vars

\* The calls in S, which wait, are told that they failed.
LEMMA FailMaps ==
  ASSUME NEW S \in SUBSET Call, \A c \in S : issuer[c] = "waiting",
         issuer' = [c \in Call |-> IF c \in S THEN "error" ELSE issuer[c]],
         handler \in [Call -> {"none", "executing", "answered"}],
         UNCHANGED <<handler, answer, sent, received>>
  PROVE  Contract!Fail(S)
<1> DEFINE o == [c \in S |-> "error"]
<1>1. o \in [S -> {"error", "cancelled"}]
  OBVIOUS
<1>2. \A c \in Call : PhaseOf(c)' = PhaseOf(c)
  BY DEF PhaseOf
<1>3. \A c \in Call : OutcomeOf(c)' = IF c \in S THEN o[c] ELSE OutcomeOf(c)
  BY DEF OutcomeOf
<1>4. \A c \in S : OutcomeOf(c) = "none" /\ PhaseOf(c) # "idle"
  <2> SUFFICES ASSUME NEW c \in S
               PROVE  OutcomeOf(c) = "none" /\ PhaseOf(c) # "idle"
    OBVIOUS
  <2>1. issuer[c] = "waiting"
    OBVIOUS
  <2>2. handler[c] # "idle"
    OBVIOUS
  <2>3. QED
    BY <2>1, <2>2 DEF OutcomeOf, PhaseOf
<1> HIDE DEF o
<1>5. QED
  BY <1>1, <1>2, <1>3, <1>4 DEF OutcomeOf, PhaseOf, Contract!Fail

\* A call that waits is told that it succeeded.
LEMMA SucceedMaps ==
  ASSUME NEW c \in Call, issuer[c] = "waiting",
         issuer' = [issuer EXCEPT ![c] = "ok"],
         issuer \in [Call -> {"idle", "waiting", "ok", "error"}],
         UNCHANGED <<handler, answer, sent, received>>,
         answer[c] = "ok", received[c] = sent[c]
  PROVE  Contract!Succeed(c)
<1>1. \A d \in Call : PhaseOf(d)' = PhaseOf(d)
  BY DEF PhaseOf
<1>2. /\ OutcomeOf(c) = "none" /\ OutcomeOf(c)' = "ok"
      /\ \A d \in Call : d # c => OutcomeOf(d)' = OutcomeOf(d)
  BY DEF OutcomeOf
<1>3. QED
  BY <1>1, <1>2 DEF OutcomeOf, PhaseOf, Contract!Succeed

\* handleRequest replies, with success only when the caller has received the
\* whole stream of a handler that succeeded.
LEMMA ReplyMaps ==
  ASSUME Inv, NEW c \in Call, worker[c] \in {"dispatch", "relay"},
         NEW s \in {"ok", "error"}, ReplyTo(c, s), UNCHANGED <<answer, sent>>,
         s = "ok" /\ stream[Origin(c)] = "open" =>
           answer[c] = "ok" /\ received[c] = sent[c]
  PROVE  \/ Contract!Succeed(c) \/ Contract!Fail({c})
         \/ UNCHANGED Contract!vars
<1>1. /\ UNCHANGED handler
      /\ received' \in [Call -> Nat]
      /\ issuer' \in [Call -> {"idle", "waiting", "ok", "error"}]
      /\ \A d \in Call : d # c =>
           received'[d] = received[d] /\ issuer'[d] = issuer[d]
      /\ \/ /\ stream[Origin(c)] = "open" /\ issuer[c] = "waiting"
            /\ received'[c] = received[c] /\ issuer'[c] = s
         \/ UNCHANGED <<received, issuer>>
  BY SendReply DEF ReplyTo
<1>2. /\ received \in [Call -> Nat]
      /\ issuer \in [Call -> {"idle", "waiting", "ok", "error"}]
      /\ handler \in [Call -> {"none", "executing", "answered"}]
  BY DEF Inv, TypeOK
<1>3. CASE UNCHANGED <<received, issuer>>
  BY <1>1, <1>3, StutterMaps
<1>4. CASE /\ stream[Origin(c)] = "open" /\ issuer[c] = "waiting"
           /\ received'[c] = received[c] /\ issuer'[c] = s
  <2>1. received' = received
    BY <1>1, <1>2, <1>4
  <2>2. issuer' = [issuer EXCEPT ![c] = s]
    BY <1>1, <1>2, <1>4
  <2>3. CASE s = "ok"
    BY <1>1, <1>2, <1>4, <2>1, <2>2, <2>3, SucceedMaps
  <2>4. CASE s = "error"
    <3>1. issuer' = [d \in Call |-> IF d \in {c} THEN "error" ELSE issuer[d]]
      BY <1>2, <2>2, <2>4
    <3>2. /\ {c} \in SUBSET Call
          /\ \A d \in {c} : issuer[d] = "waiting"
      BY <1>4
    <3>3. QED
      BY <1>1, <1>2, <2>1, <3>1, <3>2, FailMaps
  <2>5. QED
    BY <2>3, <2>4
<1>5. QED
  BY <1>1, <1>3, <1>4

\* The success of a call that has nothing else on its way is that of its
\* handler, and the caller has received all of its stream.
LEMMA SuccessIsWhole ==
  ASSUME Inv, NEW c \in Call, stream[Origin(c)] = "open",
         Good(c, 0, future[c], invoke[c], held[c], writer[c], exit[c]),
         Sum(future[c], c) = 0, Sum(writer[c], c) = 0,
         Carried(invoke[c], held[c]) = 0
  PROVE  answer[c] = "ok" /\ received[c] = sent[c]
<1>1. FlowInv(c) /\ received[c] \in Nat /\ sent[c] \in Nat
  BY CallFacts
<1>2. Sum(toHub[Target(c)], c) = 0
  BY GoodResolved
<1>3. Good(c, News(toHub[Target(c)], c), future[c], invoke[c], held[c],
           writer[c], exit[c])
  BY DEF Good
<1>4. /\ answer[c] = "ok"
      /\ Total(c, Sum(toHub[Target(c)], c), future[c], invoke[c], held[c],
               writer[c], received[c]) = sent[c]
  BY <1>1, <1>3 DEF FlowInv, FlowOK
<1>5. Total(c, Sum(toHub[Target(c)], c), future[c], invoke[c], held[c],
            writer[c], received[c]) = received[c]
  BY <1>1, <1>2 DEF Total, Passed
<1>6. QED
  BY <1>4, <1>5

LEMMA InvokeReturnMaps ==
  ASSUME Inv, NEW c \in Call, InvokeReturn(c)
  PROVE  \/ Contract!Succeed(c) \/ Contract!Fail({c})
         \/ UNCHANGED Contract!vars
<1>1. /\ invoke[c] = "await" /\ c \notin Streaming /\ UNCHANGED <<answer, sent>>
      /\ worker[c] = "relay"
  BY CallFacts DEF InvokeReturn, WorkerInv, WorkerOK
<1>2. CASE CtxDone(Origin(c)) /\ ReplyTo(c, "error")
  BY <1>1, <1>2, ReplyMaps
<1>3. CASE future[c] # <<>> /\ ReplyTo(c, GetStatus(Head(future[c])))
  <2>1. PICK s \in {"ok", "error"} : s = GetStatus(Head(future[c]))
    BY <1>1, <1>3, UnaryAnswer
  <2>2. ASSUME s = "ok", stream[Origin(c)] = "open"
        PROVE  answer[c] = "ok" /\ received[c] = sent[c]
    <3>1. /\ future[c] \in Seq(ReplyMsg) /\ Len(future[c]) \in {0, 1}
          /\ writer[c] \in Seq(ReplyMsg)
          /\ FlowInv(c) /\ HubInv(c) /\ received[c] \in Nat /\ sent[c] \in Nat
          /\ toHub[Target(c)] \in Seq(WireMsg)
      BY CallFacts
    <3>2. PICK m \in ReplyMsg : /\ m = Head(future[c]) /\ m = future[c][1]
                                /\ 1 \in 1 .. Len(future[c])
      BY <1>3, <3>1, SlotFacts
    <3>3. m.call = c /\ m.type = "response"
      BY <1>1, <3>1, <3>2 DEF HubInv, HubOK
    <3>4. m.status = "ok"
      BY <2>1, <2>2, <3>2, <3>3, ReplyFacts
    <3>5. News(future[c], c) = 1
      BY <1>3, <3>1, <3>2, <3>3, <3>4, SlotFacts
    <3>6. Good(c, News(toHub[Target(c)], c), future[c], invoke[c], held[c],
               writer[c], exit[c])
      BY <3>5 DEF Good
    <3>7. /\ answer[c] = "ok" /\ sent[c] = 0
          /\ Total(c, Sum(toHub[Target(c)], c), future[c], invoke[c], held[c],
                   writer[c], received[c]) = sent[c]
      BY <1>1, <2>2, <3>1, <3>6 DEF FlowInv, FlowOK
    <3>8. Sum(toHub[Target(c)], c) \in Nat
      BY <3>1, SumType
    <3>9. received[c] <= sent[c]
      BY <3>1, <3>7, <3>8, TotalType
    <3>10. QED
      BY <3>1, <3>7, <3>9
  <2>3. QED
    BY <1>1, <1>3, <2>1, <2>2, ReplyMaps
<1>4. QED
  BY <1>2, <1>3 DEF InvokeReturn

LEMMA RelayEndMaps ==
  ASSUME Inv, NEW c \in Call, RelayEnd(c)
  PROVE  \/ Contract!Succeed(c) \/ Contract!Fail({c})
         \/ UNCHANGED Contract!vars
<1>1. /\ worker[c] = "relay" /\ invoke[c] = "done" /\ writer[c] = <<>>
      /\ exit[c] \in {"none", "ok", "error"} /\ UNCHANGED <<answer, sent>>
      /\ HubInv(c)
  BY CallFacts DEF RelayEnd
<1>2. CASE exit[c] = "none"
  BY <1>1, <1>2, StutterMaps DEF RelayEnd, peerVars
<1>3. CASE exit[c] # "none"
  <2>1. PICK s \in {"ok", "error"} : s = exit[c] /\ ReplyTo(c, s)
    BY <1>1, <1>3 DEF RelayEnd
  <2>2. ASSUME s = "ok", stream[Origin(c)] = "open"
        PROVE  answer[c] = "ok" /\ received[c] = sent[c]
    <3>1. future[c] = <<>>
      BY <1>1, <1>3 DEF HubInv, HubOK
    <3>2. /\ Sum(future[c], c) = 0 /\ Sum(writer[c], c) = 0
          /\ Carried(invoke[c], held[c]) = 0
      BY <1>1, <3>1, EmptyQueue DEF Carried
    <3>3. Good(c, 0, future[c], invoke[c], held[c], writer[c], exit[c])
      BY <2>1, <2>2 DEF Good
    <3>4. QED
      BY <2>2, <3>2, <3>3, SuccessIsWhole
  <2>3. QED
    BY <1>1, <2>1, <2>2, ReplyMaps
<1>4. QED
  BY <1>2, <1>3

\* A message of the stream is sent on.
LEMMA RelayMaps ==
  ASSUME Inv, NEW c \in Call, Relay(c)
  PROVE  Contract!Receive(c) \/ UNCHANGED Contract!vars
<1>0. /\ future[c] \in Seq(ReplyMsg) /\ Len(writer[c]) \in {0, 1}
      /\ writer[c] \in Seq(ReplyMsg) /\ received[c] \in Nat
      /\ sent[c] \in Nat /\ toHub[Target(c)] \in Seq(WireMsg)
      /\ HubInv(c) /\ FlowInv(c)
  BY CallFacts
<1>1. /\ worker[c] = "relay" /\ writer[c] # <<>> /\ UNCHANGED <<answer, sent>>
  BY DEF Relay
<1>2. PICK m \in ReplyMsg : /\ m = Head(writer[c]) /\ m = writer[c][1]
                            /\ 1 \in 1 .. Len(writer[c])
  BY <1>0, <1>1, SlotFacts
<1>3. m.call = c
  BY <1>0, <1>2 DEF HubInv, HubOK
<1>4. CASE m.type # "streamMsg"
  <2>1. UNCHANGED <<issuer, handler, received>>
    BY <1>2, <1>4 DEF Relay, peerVars
  <2>2. QED
    BY <1>1, <2>1, StutterMaps
<1>5. CASE m.type = "streamMsg"
  <2>1. Send(Origin(c), Msg("streamMsg", requestTag[c], c, "none"))
    BY <1>2, <1>3, <1>5 DEF Relay
  <2>2. /\ UNCHANGED handler
        /\ received' \in [Call -> Nat]
        /\ issuer' \in [Call -> {"idle", "waiting", "ok", "error"}]
        /\ \A d \in Call : d # c =>
             received'[d] = received[d] /\ issuer'[d] = issuer[d]
        /\ \/ /\ issuer[c] = "waiting" /\ issuer'[c] = issuer[c]
              /\ received'[c] = received[c] + 1
           \/ UNCHANGED <<received, issuer>>
    BY <1>1, <2>1, SendReply
  <2>3. CASE UNCHANGED <<received, issuer>>
    BY <1>1, <2>2, <2>3, StutterMaps
  <2>4. CASE /\ issuer[c] = "waiting" /\ issuer'[c] = issuer[c]
             /\ received'[c] = received[c] + 1
    <3>1. /\ received \in [Call -> Nat]
          /\ issuer \in [Call -> {"idle", "waiting", "ok", "error"}]
      BY DEF Inv, TypeOK
    <3>2. issuer' = issuer
      BY <2>2, <2>4, <3>1
    <3>3. received' = [received EXCEPT ![c] = received[c] + 1]
      BY <2>2, <2>4, <3>1
    <3>4. Sum(writer[c], c) = 1
      BY <1>0, <1>1, <1>2, <1>3, <1>5, SlotFacts
    <3>5. PICK n, a, b : /\ n = Sum(toHub[Target(c)], c)
                         /\ a = Sum(future[c], c)
                         /\ b = Carried(invoke[c], held[c])
      OBVIOUS
    <3>6. n \in Nat /\ a \in Nat /\ b \in Nat
      BY <1>0, <3>5, SumType DEF Carried
    <3>7. n + (a + b + 1 + received[c]) <= sent[c]
      BY <1>0, <3>4, <3>5 DEF FlowInv, FlowOK, Total, Passed
    <3>8. received[c] < sent[c]
      BY <1>0, <3>6, <3>7
    <3>9. OutcomeOf(c) = "none"
      BY <2>4 DEF OutcomeOf
    <3>10. Contract!Receive(c)
      BY <1>1, <2>2, <3>2, <3>3, <3>8, <3>9
      DEF OutcomeOf, Contract!Receive
    <3>11. QED
      BY <3>10
  <2>5. QED
    BY <2>2, <2>3, <2>4
<1>6. QED
  BY <1>4, <1>5

\* A request reaches the handler of a peer that is still there.
LEMMA RequestMaps ==
  ASSUME Inv, NEW c \in Call, Request(c)
  PROVE  Contract!Execute(c) \/ UNCHANGED Contract!vars
<1>1. PICK k, t : /\ k = Target(c)
                  /\ Send(k, Msg("request", t, c, "none"))
  BY DEF Request
<1>2. /\ worker[c] = "dispatch" /\ UNCHANGED <<answer, sent>>
      /\ WorkerInv(c) /\ HubInv(c)
  BY CallFacts DEF Request
<1>3. handler[c] = "none" /\ issuer[c] # "idle"
  BY <1>2 DEF WorkerInv, WorkerOK, HubInv, HubOK
<1>4. handler \in [Call -> {"none", "executing", "answered"}]
  BY DEF Inv, TypeOK
<1>5. CASE stream[k] # "open"
  BY <1>1, <1>2, <1>5, StutterMaps DEF Send, peerVars
<1>6. CASE stream[k] = "open"
  <2>1. PeerRecv(k, Msg("request", t, c, "none"))
    BY <1>1, <1>6 DEF Send
  <2>2. /\ handler' = [handler EXCEPT ![c] = "executing"]
        /\ UNCHANGED <<issuer, received>>
    BY <2>1 DEF PeerRecv, Msg
  <2>3. /\ PhaseOf(c) = "issued" /\ PhaseOf(c)' = "executing"
        /\ \A d \in Call : d # c => PhaseOf(d)' = PhaseOf(d)
    BY <1>3, <1>4, <2>2 DEF PhaseOf
  <2>4. Contract!Execute(c)
    BY <1>2, <2>2, <2>3 DEF PhaseOf, Contract!Execute
  <2>5. QED
    BY <2>4
<1>7. QED
  BY <1>5, <1>6

\* The steps of the peers.
LEMMA PeerMaps ==
  ASSUME Inv, NEW c \in Call
  PROVE  /\ Issue(c) => Contract!Issue(c)
         /\ HandlerSend(c) => Contract!Emit(c)
         /\ HandlerReturn(c) => Contract!Finish(c)
<1>1. /\ handler \in [Call -> {"none", "executing", "answered"}]
      /\ issuer \in [Call -> {"idle", "waiting", "ok", "error"}]
      /\ WorkerInv(c) /\ HubInv(c)
  BY CallFacts DEF Inv, TypeOK
<1>2. ASSUME handler[c] # "none"
      PROVE  issuer[c] # "idle"
  BY <1>1, <1>2, CallFacts DEF WorkerInv, WorkerOK, HubInv, HubOK
<1>3. ASSUME Issue(c)
      PROVE  Contract!Issue(c)
  <2>1. /\ issuer[c] = "idle" /\ issuer' = [issuer EXCEPT ![c] = "waiting"]
        /\ UNCHANGED <<handler, answer, sent, received>>
    BY <1>3 DEF Issue
  <2>2. handler[c] = "none"
    BY <1>2, <2>1
  <2>3. /\ PhaseOf(c) = "idle" /\ PhaseOf(c)' = "issued"
        /\ \A d \in Call : d # c => PhaseOf(d)' = PhaseOf(d)
        /\ \A d \in Call : OutcomeOf(d)' = OutcomeOf(d)
    BY <1>1, <2>1, <2>2 DEF PhaseOf, OutcomeOf
  <2>4. QED
    BY <2>1, <2>3 DEF PhaseOf, OutcomeOf, Contract!Issue
<1>4. ASSUME HandlerSend(c)
      PROVE  Contract!Emit(c)
  <2>1. /\ handler[c] = "executing" /\ sent' = [sent EXCEPT ![c] = @ + 1]
        /\ UNCHANGED <<issuer, handler, answer, received>>
    BY <1>4 DEF HandlerSend
  <2>2. PhaseOf(c) = "executing"
    BY <1>2, <2>1 DEF PhaseOf
  <2>3. QED
    BY <2>1, <2>2 DEF PhaseOf, Contract!Emit
<1>5. ASSUME HandlerReturn(c)
      PROVE  Contract!Finish(c)
  <2>1. /\ handler[c] = "executing"
        /\ handler' = [handler EXCEPT ![c] = "answered"]
        /\ \E s \in {"ok", "error"} : answer' = [answer EXCEPT ![c] = s]
        /\ UNCHANGED <<issuer, sent, received>>
    BY <1>5 DEF HandlerReturn
  <2>2. issuer[c] # "idle"
    BY <1>2, <2>1
  <2>3. /\ PhaseOf(c) = "executing" /\ PhaseOf(c)' = "answered"
        /\ \A d \in Call : d # c => PhaseOf(d)' = PhaseOf(d)
    BY <1>1, <2>1, <2>2 DEF PhaseOf
  <2>4. PICK s \in {"ok", "error"} : answer' = [answer EXCEPT ![c] = s]
    BY <2>1
  <2>5. [d \in Call |-> PhaseOf(d)']
          = [[d \in Call |-> PhaseOf(d)] EXCEPT ![c] = "answered"]
    BY <2>3
  <2>6. [d \in Call |-> PhaseOf(d)][c] = "executing"
    BY <2>3
  <2>7. [d \in Call |-> OutcomeOf(d)'] = [d \in Call |-> OutcomeOf(d)]
    BY <2>1 DEF OutcomeOf
  <2>8. QED
    BY <2>1, <2>4, <2>5, <2>6, <2>7, Zenon DEF PhaseOf, OutcomeOf, Contract!Finish
<1>6. QED
  BY <1>3, <1>4, <1>5

\* The end of a stream fails the calls of its peer.
LEMMA EndOfMaps ==
  ASSUME Inv, NEW k \in Link, EndOf(k)
  PROVE  \E S \in SUBSET Call : Contract!Fail(S)
<1>1. PICK S \in SUBSET Call :
        S = {c \in Call : Origin(c) = k /\ issuer[c] = "waiting"}
  OBVIOUS
<1>2. /\ \A c \in S : issuer[c] = "waiting"
      /\ issuer' = [c \in Call |-> IF c \in S THEN "error" ELSE issuer[c]]
      /\ UNCHANGED <<handler, answer, sent, received>>
  BY <1>1 DEF EndOf
<1>3. handler \in [Call -> {"none", "executing", "answered"}]
  BY DEF Inv, TypeOK
<1>4. Contract!Fail(S)
  BY <1>2, <1>3, FailMaps
<1>5. QED
  BY <1>4

\* Every step of the hub and of its peers is a step of the contract, or none.
LEMMA NextContract ==
  ASSUME Inv, [Next]_vars
  PROVE  [Contract!Next]_(Contract!vars)
<1> USE DEF linkVars, ctrlVars, hubVars, remoteVars, peerVars
<1>1. CASE UNCHANGED vars
  BY <1>1, StutterMaps DEF vars
<1>2. ASSUME NEW k \in Link, Run(k)
      PROVE  UNCHANGED Contract!vars
  <2>1. UNCHANGED <<issuer, handler, answer, sent, received>>
    BY <1>2
    DEF Run, RunRequest, RunResponse, RunStreamMsg, RunEnd, Sweep, SweepDone,
        StopAndWait
  <2>2. QED
    BY <2>1, StutterMaps
<1>3. CASE KickSpliced
  BY <1>3, StutterMaps DEF KickSpliced
<1>4. ASSUME NEW c \in Call,
             StreamTake(c) \/ StreamWrite(c) \/ StreamCtxDone(c) \/ RelayCtxDone(c)
      PROVE  UNCHANGED Contract!vars
  BY <1>4, StutterMaps DEF StreamTake, StreamWrite, StreamCtxDone, RelayCtxDone
<1>5. ASSUME NEW c \in Call, NoHandler(c)
      PROVE  \/ Contract!Succeed(c) \/ Contract!Fail({c})
             \/ UNCHANGED Contract!vars
  <2>1. /\ worker[c] = "dispatch" /\ ReplyTo(c, "error")
        /\ UNCHANGED <<answer, sent>>
    BY <1>5 DEF NoHandler
  <2>2. QED
    BY <2>1, ReplyMaps
<1>6. \A c \in Call : {c} \in SUBSET Call
  OBVIOUS
<1>7. (\E c \in Call : \/ Contract!Issue(c) \/ Contract!Execute(c)
                       \/ Contract!Emit(c) \/ Contract!Finish(c)
                       \/ Contract!Receive(c) \/ Contract!Succeed(c)
                       \/ Contract!Fail({c}))
        => Contract!Next
  BY <1>6 DEF Contract!Next
<1>8. (\E S \in SUBSET Call : Contract!Fail(S)) => Contract!Next
  BY DEF Contract!Next
<1>9. ASSUME NEW c \in Call, Invoke(c) \/ Worker(c)
      PROVE  Contract!Next \/ UNCHANGED Contract!vars
  BY <1>4, <1>5, <1>7, <1>9, InvokeReturnMaps, RequestMaps, RelayMaps,
     RelayEndMaps DEF Invoke, Worker
<1>10. ASSUME NEW c \in Call, Issue(c) \/ HandlerSend(c) \/ HandlerReturn(c)
       PROVE  Contract!Next
  BY <1>7, <1>10, PeerMaps
<1>11. ASSUME NEW k \in Link, EndOf(k)
       PROVE  Contract!Next
  BY <1>8, <1>11, EndOfMaps
<1>12. QED
  BY <1>1, <1>2, <1>3, <1>9, <1>10, <1>11 DEF Next

\* The contract of an RPC holds from end to end through a hub, for any calls in
\* both directions, any length of their streams and any ends of the two
\* streams: a request is executed at most once, its caller receives a prefix of
\* what the handler sends, and is told of success only when the handler
\* succeeded and all of its stream has arrived.
THEOREM KeepsTheContractEndToEnd == Spec => EndToEnd
<1>1. Init => Contract!Init
  <2> SUFFICES ASSUME Init
               PROVE  Contract!Init
    OBVIOUS
  <2>1. \A c \in Call : PhaseOf(c) = "idle" /\ OutcomeOf(c) = "none"
    BY DEF Init, PhaseOf, OutcomeOf
  <2>2. QED
    BY <2>1 DEF Init, PhaseOf, OutcomeOf, Contract!Init
<1>2. QED
  BY <1>1, InitInv, NextInv, NextContract, PTL DEF Spec, EndToEnd, Contract!Spec
===============================================================================
