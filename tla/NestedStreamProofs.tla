-------------------------- MODULE NestedStreamProofs --------------------------
(***************************************************************************)
(* Proofs about one server-streaming RPC, for any number of messages, any  *)
(* metadata and any capacity of the channels.                              *)
(***************************************************************************)
EXTENDS NestedStream, TLAPS

\* The handler's side: the status is that of the handler's return; the response
\* is the last RPC the handler's goroutine writes, and carries the status and
\* the trailers, which no longer change.
HandlerInv ==
  /\ handler = "running" <=> status = "none"
  /\ writerClosed <=> handler = "exited"
  /\ \A i \in DOMAIN writer : writer[i].type = "response" =>
       /\ i = Len(writer) /\ handler = "exited"
       /\ writer[i] = Response(trailers, status)
  /\ exitResponse # <<>> =>
       handler = "exited" /\ exitResponse = <<Response(trailers, status)>>

\* A response with success that is on its way to the caller, or has reached it.
Succeeded ==
  \/ \E i \in DOMAIN replyC : replyC[i].type = "response" /\ replyC[i].status = "ok"
  \/ replyC = <<>> /\ replyClosed /\ ~Ended("error")

\* The caller's side: the response is the last message of the RPC; it is in the
\* channel or was received, and one with success is the handler's own.
ReplyInv ==
  /\ over => replyClosed
  /\ replyClosed /\ ~over => loop = "done"
  /\ \A i \in DOMAIN replyC : replyC[i].type = "response" =>
       /\ i = Len(replyC) /\ replyClosed /\ replyC[i].n = 0
       /\ replyC[i].status = "ok" => replyC[i] = Response(trailers, "ok")
  /\ replyClosed /\ replyC # <<>> => replyC[Len(replyC)].type = "response"
  /\ Succeeded => status = "ok" /\ loop = "done"
  /\ Succeeded /\ replyC = <<>> => trailer = trailers
  /\ Ended("EOF") \/ Ended("error") => replyC = <<>> /\ replyClosed
  /\ ~(Ended("EOF") /\ Ended("error"))

\* The stream messages in q are what e has after a, in this order, and nothing
\* beyond b.
Carries(q, e, a, b) ==
  \A i \in DOMAIN q : q[i].type = "streamMsg" => a + i <= b /\ q[i].n = e[a + i]

\* They are all of it, up to b; a response is not counted.
Complete(q, a, b) ==
  a + Len(q) = IF q # <<>> /\ q[Len(q)].type = "response" THEN b + 1 ELSE b

\* RecvMsg has returned g of the messages the handler's stream wrote; then, at
\* most, the empty one of the final response, and the end.
Got(g) ==
  /\ g <= Len(received)
  /\ \A i \in 1 .. g : received[i].kind = "msg" /\ received[i].n = emitted[i]
  /\ \A i \in g + 1 .. Len(received) : received[i].kind = "msg" =>
       /\ i = g + 1 /\ received[i].n = 0
       /\ replyC = <<>> /\ replyClosed /\ ~Ended("error")
  /\ \A i \in DOMAIN received : received[i].kind # "msg" => i = Len(received)
  /\ \A i \in DOMAIN received : received[i].kind = "EOF" => i = g + 2
  /\ ~cancelled => IF replyC = <<>> /\ replyClosed
                     THEN Len(received) > g
                     ELSE Len(received) = g

\* Every message is at one place of its way: the loop has taken the first f
\* from the handler, the caller has received the first g. What lies between may
\* be lost when the stream is over, but not if the response says success.
At(f, g) ==
  /\ f \in 0 .. Len(emitted) /\ g \in 0 .. f
  /\ Carries(writer, emitted, f, Len(emitted)) /\ Complete(writer, f, Len(emitted))
  /\ Carries(replyC, emitted, g, f)
  /\ ~over \/ Succeeded => Complete(replyC, g, f)
  /\ Succeeded => f = Len(emitted)
  /\ Got(g)

OrderInv == \E f, g \in Nat : At(f, g)

Inv == TypeOK /\ HandlerInv /\ ReplyInv /\ OrderInv

-------------------------------------------------------------------------------
(***************************************************************************)
(* Sequences.                                                              *)
(***************************************************************************)
\* What sending to and receiving from a channel do to its content.
LEMMA SeqFacts ==
  ASSUME NEW S, NEW s \in Seq(S)
  PROVE  /\ \A x \in S : /\ Append(s, x) \in Seq(S)
                         /\ Len(Append(s, x)) = Len(s) + 1
                         /\ \A i \in 1 .. Len(s) : Append(s, x)[i] = s[i]
                         /\ Append(s, x)[Len(s) + 1] = x
         /\ s # <<>> => /\ Head(s) \in S /\ Head(s) = s[1]
                        /\ Tail(s) \in Seq(S)
                        /\ Len(Tail(s)) = Len(s) - 1
                        /\ \A i \in 1 .. Len(s) - 1 : Tail(s)[i] = s[i + 1]
         /\ \A k \in 0 .. Len(s) : /\ SubSeq(s, 1, k) \in Seq(S)
                                   /\ Len(SubSeq(s, 1, k)) = k
                                   /\ \A i \in 1 .. k : SubSeq(s, 1, k)[i] = s[i]
         /\ Len(s) \in Nat /\ (Len(s) = 0 <=> s = <<>>)
         /\ DOMAIN s = 1 .. Len(s)
         /\ \A i \in 1 .. Len(s) : s[i] \in S
  OBVIOUS

\* The messages have not changed, nor what they carry.
LEMMA CarriesMore ==
  ASSUME NEW q \in Seq(Msg), NEW e, NEW d, NEW a \in Nat, NEW b \in Nat,
         NEW c \in Nat, b <= c, \A i \in 1 .. b : d[i] = e[i],
         Carries(q, e, a, b)
  PROVE  Carries(q, d, a, c)
<1> SUFFICES ASSUME NEW i \in DOMAIN q, q[i].type = "streamMsg"
             PROVE  a + i <= c /\ q[i].n = d[a + i]
  BY DEF Carries
<1>1. i \in Nat /\ i >= 1
  BY SeqFacts
<1>2. a + i <= b /\ q[i].n = e[a + i]
  BY DEF Carries
<1>3. a + i \in 1 .. b
  BY <1>1, <1>2
<1> QED BY <1>1, <1>2, <1>3

\* The next message joins the others, of which none is a response.
LEMMA AppendStream ==
  ASSUME NEW q \in Seq(Msg), NEW m \in Msg, m.type = "streamMsg", NEW e,
         NEW a \in Nat, NEW b \in Nat, \A i \in DOMAIN q : q[i].type # "response",
         Carries(q, e, a, b), Complete(q, a, b), m.n = e[b + 1]
  PROVE  Carries(Append(q, m), e, a, b + 1) /\ Complete(Append(q, m), a, b + 1)
<1> DEFINE r == Append(q, m)
<1>1. /\ DOMAIN r = 1 .. Len(q) + 1 /\ DOMAIN q = 1 .. Len(q) /\ Len(q) \in Nat
      /\ \A i \in 1 .. Len(q) : r[i] = q[i]
      /\ r[Len(q) + 1] = m /\ Len(r) = Len(q) + 1
  <2>1. Append(q, m) \in Seq(Msg)
    BY SeqFacts
  <2> QED BY <2>1, SeqFacts
<1> HIDE DEF r
<1>2. a + Len(q) = b
  <2>1. q # <<>> => Len(q) \in DOMAIN q
    BY <1>1, SeqFacts
  <2> QED BY <2>1 DEF Complete
<1>3. Carries(r, e, a, b + 1)
  <2> SUFFICES ASSUME NEW i \in 1 .. Len(q) + 1, r[i].type = "streamMsg"
               PROVE  a + i <= b + 1 /\ r[i].n = e[a + i]
    BY <1>1 DEF Carries
  <2>1. CASE i = Len(q) + 1
    <3>1. a + i = b + 1
      BY <1>1, <1>2, <2>1
    <3> QED BY <1>1, <2>1, <3>1
  <2>2. CASE i \in 1 .. Len(q)
    <3>1. a + i <= b /\ q[i].n = e[a + i]
      BY <1>1, <2>2 DEF Carries
    <3> QED BY <1>1, <2>2, <3>1
  <2> QED BY <1>1, <2>1, <2>2
<1>4. Complete(r, a, b + 1)
  BY <1>1, <1>2 DEF Complete
<1> QED BY <1>3, <1>4 DEF r

\* A response joins them.
LEMMA AppendResponse ==
  ASSUME NEW q \in Seq(Msg), NEW m \in Msg, m.type = "response", NEW e,
         NEW a \in Nat, NEW b \in Nat, \A i \in DOMAIN q : q[i].type # "response",
         Carries(q, e, a, b)
  PROVE  /\ Carries(Append(q, m), e, a, b)
         /\ Complete(q, a, b) => Complete(Append(q, m), a, b)
<1> DEFINE r == Append(q, m)
<1>1. /\ DOMAIN r = 1 .. Len(q) + 1 /\ DOMAIN q = 1 .. Len(q) /\ Len(q) \in Nat
      /\ \A i \in 1 .. Len(q) : r[i] = q[i]
      /\ r[Len(q) + 1] = m /\ Len(r) = Len(q) + 1 /\ r # <<>>
  <2>1. Append(q, m) \in Seq(Msg)
    BY SeqFacts
  <2>2. Len(q) \in Nat /\ Len(Append(q, m)) = Len(q) + 1
    BY SeqFacts
  <2>3. Append(q, m) # <<>>
    BY <2>1, <2>2, SeqFacts
  <2> QED BY <2>1, <2>3, SeqFacts
<1> HIDE DEF r
<1>2. Carries(r, e, a, b)
  BY <1>1 DEF Carries
<1>3. ASSUME Complete(q, a, b) PROVE Complete(r, a, b)
  <2>1. q # <<>> => Len(q) \in DOMAIN q
    BY <1>1, SeqFacts
  <2>2. a + Len(q) = b
    BY <1>3, <2>1 DEF Complete
  <2> QED BY <1>1, <2>2 DEF Complete
<1> QED BY <1>2, <1>3 DEF r

\* The first message is taken: the one after a, or the response, which is the
\* last one.
LEMMA TailFacts ==
  ASSUME NEW q \in Seq(Msg), q # <<>>, NEW e, NEW a \in Nat, NEW b \in Nat,
         Carries(q, e, a, b),
         \A i \in DOMAIN q : q[i].type = "response" => i = Len(q)
  PROVE  /\ Head(q).type = "streamMsg" =>
              /\ a + 1 <= b /\ Head(q).n = e[a + 1]
              /\ Carries(Tail(q), e, a + 1, b)
              /\ Complete(q, a, b) => Complete(Tail(q), a + 1, b)
         /\ Head(q).type = "response" =>
              /\ Tail(q) = <<>> /\ Carries(Tail(q), e, a, b)
              /\ Complete(q, a, b) => Complete(Tail(q), a, b)
<1> DEFINE r == Tail(q)
<1>1. /\ DOMAIN r = 1 .. Len(q) - 1 /\ DOMAIN q = 1 .. Len(q)
      /\ Len(q) \in Nat \ {0} /\ Len(r) = Len(q) - 1
      /\ \A i \in 1 .. Len(q) - 1 : r[i] = q[i + 1]
      /\ Head(q) = q[1] /\ (Len(r) = 0 <=> r = <<>>)
  <2>1. Tail(q) \in Seq(Msg) /\ Len(Tail(q)) = Len(q) - 1 /\ Head(q) = q[1]
    BY SeqFacts
  <2>2. \A i \in 1 .. Len(q) - 1 : Tail(q)[i] = q[i + 1]
    BY SeqFacts
  <2>3. Len(q) \in Nat \ {0} /\ DOMAIN q = 1 .. Len(q)
    BY SeqFacts
  <2>4. DOMAIN Tail(q) = 1 .. Len(Tail(q)) /\ (Len(Tail(q)) = 0 <=> Tail(q) = <<>>)
    BY <2>1, SeqFacts
  <2> QED BY <2>1, <2>2, <2>3, <2>4
<1> HIDE DEF r
<1>2. ASSUME Head(q).type = "streamMsg"
      PROVE  /\ a + 1 <= b /\ Head(q).n = e[a + 1]
             /\ Carries(r, e, a + 1, b)
             /\ Complete(q, a, b) => Complete(r, a + 1, b)
  <2>1. a + 1 <= b /\ Head(q).n = e[a + 1]
    BY <1>1, <1>2 DEF Carries
  <2>2. Carries(r, e, a + 1, b)
    <3> SUFFICES ASSUME NEW i \in 1 .. Len(q) - 1, r[i].type = "streamMsg"
                 PROVE  a + 1 + i <= b /\ r[i].n = e[a + 1 + i]
      BY <1>1 DEF Carries
    <3>1. i + 1 \in DOMAIN q /\ r[i] = q[i + 1]
      BY <1>1
    <3>2. a + (i + 1) <= b /\ q[i + 1].n = e[a + (i + 1)]
      BY <3>1 DEF Carries
    <3>3. a + (i + 1) = a + 1 + i
      BY <1>1
    <3> QED BY <3>1, <3>2, <3>3
  <2>3. Len(q) # 1 => r # <<>> /\ r[Len(r)] = q[Len(q)]
    BY <1>1
  <2>4. Len(q) = 1 => r = <<>> /\ q[Len(q)].type # "response"
    BY <1>1, <1>2
  <2>5. Complete(q, a, b) => Complete(r, a + 1, b)
    BY <1>1, <2>3, <2>4 DEF Complete
  <2> QED BY <2>1, <2>2, <2>5
<1>3. ASSUME Head(q).type = "response"
      PROVE  /\ r = <<>> /\ Carries(r, e, a, b)
             /\ Complete(q, a, b) => Complete(r, a, b)
  <2>1. Len(q) = 1 /\ r = <<>> /\ Len(r) = 0
    BY <1>1, <1>3
  <2>2. Carries(r, e, a, b)
    BY <1>1, <2>1 DEF Carries
  <2>3. Complete(q, a, b) => Complete(r, a, b)
    BY <1>1, <1>3, <2>1 DEF Complete
  <2> QED BY <2>1, <2>2, <2>3
<1> QED BY <1>2, <1>3 DEF r

\* A beginning of the messages.
LEMMA PrefixFacts ==
  ASSUME NEW q \in Seq(Msg), NEW e, NEW k \in 0 .. Len(q), NEW a \in Nat,
         NEW b \in Nat, Carries(q, e, a, b)
  PROVE  Carries(SubSeq(q, 1, k), e, a, b)
<1> DEFINE r == SubSeq(q, 1, k)
<1>1. /\ DOMAIN r = 1 .. k /\ DOMAIN q = 1 .. Len(q) /\ Len(q) \in Nat
      /\ \A i \in 1 .. k : r[i] = q[i]
  <2>1. SubSeq(q, 1, k) \in Seq(Msg)
    BY SeqFacts
  <2> QED BY <2>1, SeqFacts
<1> HIDE DEF r
<1>2. Carries(r, e, a, b)
  BY <1>1 DEF Carries
<1> QED BY <1>2 DEF r

-------------------------------------------------------------------------------
(***************************************************************************)
(* The types.                                                              *)
(***************************************************************************)
\* The RPCs the two sides make are messages, with their payload.
LEMMA MsgFacts ==
  /\ \A n \in 0 .. MaxMsgs, md \in Metadata : StreamMsg(n, md) \in Msg
  /\ \A md \in Metadata, st \in {"none", "ok", "error"} : Response(md, st) \in Msg
  /\ \A m \in Msg : Forwarded(m) \in Msg /\ Forwarded(m).n = m.n
  /\ \A m \in Msg : m.n \in Nat /\ m.n \in 0 .. MaxMsgs /\ m.metadata \in Metadata
  /\ \A m \in Msg : m.headers \in Metadata
  /\ \A n, md : StreamMsg(n, md).n = n /\ StreamMsg(n, md).type = "streamMsg"
  /\ \A md, st : Response(md, st).n = 0 /\ Response(md, st).type = "response"
  /\ \A k \in SUBSET HeaderKeys : k \in Metadata
  /\ \A k \in SUBSET TrailerKeys : k \in Metadata
  /\ MaxMsgs \in Nat /\ {} \in Metadata
<1>1. MaxMsgs \in Nat
  BY NestedAssumption DEF NestedAssumption
<1>2. {} \in Metadata /\ (\A k \in SUBSET HeaderKeys : k \in Metadata)
        /\ (\A k \in SUBSET TrailerKeys : k \in Metadata)
  BY DEF Metadata
<1>3. ASSUME NEW m \in Msg
      PROVE  /\ Forwarded(m) \in Msg /\ Forwarded(m).n = m.n /\ m.n \in Nat
             /\ m.n \in 0 .. MaxMsgs /\ m.metadata \in Metadata
             /\ m.headers \in Metadata
  BY <1>1, <1>2 DEF Msg, Forwarded
<1>4. ASSUME NEW n \in 0 .. MaxMsgs, NEW md \in Metadata
      PROVE  StreamMsg(n, md) \in Msg
  BY <1>2 DEF Msg, StreamMsg
<1>5. ASSUME NEW md \in Metadata, NEW st \in {"none", "ok", "error"}
      PROVE  Response(md, st) \in Msg
  BY <1>1, <1>2 DEF Msg, Response
<1>6. /\ \A n, md : StreamMsg(n, md).n = n /\ StreamMsg(n, md).type = "streamMsg"
      /\ \A md, st : Response(md, st).n = 0 /\ Response(md, st).type = "response"
  BY DEF StreamMsg, Response
<1> QED BY <1>1, <1>2, <1>3, <1>4, <1>5, <1>6

\* The results of RecvMsg.
Results == [kind : {"msg", "error", "EOF", "ctx"}, n : 0 .. MaxMsgs]

\* A result keeps the payload, and only a message has one.
LEMMA ResultFacts ==
  /\ \A k \in {"msg", "error", "EOF", "ctx"}, n \in 0 .. MaxMsgs :
       /\ Result(k, n) \in Results /\ Result(k, n).n = n
       /\ Result(k, n).kind = k
  /\ \A r \in Results : r.n \in Nat
  /\ 0 \in 0 .. MaxMsgs
<1>1. MaxMsgs \in Nat
  BY NestedAssumption DEF NestedAssumption
<1> QED BY <1>1 DEF Results, Result

\* The types of the variables that hold no sequence.
PlainTypes ==
  /\ handler \in {"running", "returned", "exited"}
  /\ status \in {"none", "ok", "error"}
  /\ sent \in 0 .. MaxMsgs
  /\ headers \in SUBSET HeaderKeys /\ setHeaders \in SUBSET HeaderKeys
  /\ trailers \in SUBSET TrailerKeys /\ trailer \in Metadata
  /\ loop \in {"forwarding", "done"}
  /\ finished \in {<<>>, <<"nil">>, <<"error">>}
  /\ {wroteHeaders, writerClosed, replyClosed} \subseteq BOOLEAN
  /\ {over, cancelled, wroteOnce} \subseteq BOOLEAN

\* The types of the variables that hold a sequence.
WriterType ==
  /\ writer \in Seq(Msg) /\ Len(writer) <= WriterCap
  /\ emitted \in Seq(0 .. MaxMsgs)
ReplyType  == replyC \in Seq(Msg) /\ Len(replyC) <= ReplyCap + IF over THEN 1 ELSE 0
OtherTypes ==
  /\ exitResponse \in Seq(Msg) /\ Len(exitResponse) <= 1
  /\ received \in Seq(Results)
  /\ headerC \in Seq(Metadata) /\ Len(headerC) <= 1
  /\ gotHeader \in Seq(Metadata) /\ Len(gotHeader) <= 1

\* TypeOK is the conjunction of the four.
LEMMA TypeParts ==
  TypeOK <=> PlainTypes /\ WriterType /\ ReplyType /\ OtherTypes
BY DEF TypeOK, PlainTypes, WriterType, ReplyType, OtherTypes, Results

\* Every step keeps the types of the variables that hold no sequence.
LEMMA PlainStep == TypeOK /\ [Next]_vars => PlainTypes'
<1> SUFFICES ASSUME PlainTypes, WriterType, ReplyType, OtherTypes, [Next]_vars
             PROVE  PlainTypes'
  BY TypeParts
<1> USE DEF PlainTypes, handlerVars, loopVars, clientVars
<1>1. ASSUME NEW k \in HeaderKeys, SetHeader(k) PROVE PlainTypes'
  BY <1>1 DEF SetHeader
<1>2. ASSUME NEW k \in HeaderKeys, SendHeader(k) PROVE PlainTypes'
  BY <1>2 DEF SendHeader
<1>3. ASSUME NEW k \in TrailerKeys, SetTrailer(k) PROVE PlainTypes'
  BY <1>3 DEF SetTrailer
<1>4. ASSUME SendMsg PROVE PlainTypes'
  BY <1>4, MsgFacts DEF SendMsg, Write
<1>5. ASSUME NEW s \in {"ok", "error"}, HandlerReturn(s) PROVE PlainTypes'
  BY <1>5 DEF HandlerReturn
<1>6. ASSUME WriteResponse PROVE PlainTypes'
  BY <1>6 DEF WriteResponse
<1>7. ASSUME ForwardStreamMsg PROVE PlainTypes'
  BY <1>7 DEF ForwardStreamMsg
<1>8. ASSUME KeepResponse PROVE PlainTypes'
  BY <1>8 DEF KeepResponse
<1>9. ASSUME LoopEnd PROVE PlainTypes'
  BY <1>9 DEF LoopEnd
<1>10. ASSUME LoopCtxDone PROVE PlainTypes'
  BY <1>10 DEF LoopCtxDone
<1>11. ASSUME RecvStreamMsg PROVE PlainTypes'
  BY <1>11 DEF RecvStreamMsg
<1>12. ASSUME RecvResponse PROVE PlainTypes'
  <2>1. Head(replyC) \in Msg
    BY <1>12, SeqFacts DEF ReplyType, RecvResponse, Receiving
  <2>2. trailer' \in Metadata /\ finished' \in {<<>>, <<"nil">>, <<"error">>}
    BY <1>12, <2>1, MsgFacts DEF RecvResponse, Finish
  <2> QED BY <1>12, <2>2 DEF RecvResponse
<1>13. ASSUME RecvEOF PROVE PlainTypes'
  <2>1. finished' \in {<<>>, <<"nil">>, <<"error">>}
    BY <1>13 DEF RecvEOF, Finish
  <2> QED BY <1>13, <2>1 DEF RecvEOF
<1>14. ASSUME Header PROVE PlainTypes'
  BY <1>14 DEF Header
<1>15. ASSUME RecvCtxDone PROVE PlainTypes'
  BY <1>15 DEF RecvCtxDone
<1>16. ASSUME StreamOver PROVE PlainTypes'
  BY <1>16 DEF StreamOver
<1>17. CASE UNCHANGED vars
  BY <1>17 DEF vars
<1> QED BY <1>1, <1>2, <1>3, <1>4, <1>5, <1>6, <1>7, <1>8, <1>9, <1>10,
          <1>11, <1>12, <1>13, <1>14, <1>15, <1>16, <1>17
        DEF Next, HandlerStep, Loop, Recv

\* What the handler's goroutine puts into its channel is a message, and it
\* finds a free slot first; the loop takes the first one.
LEMMA WriterStep == TypeOK /\ [Next]_vars => WriterType'
<1> SUFFICES ASSUME PlainTypes, WriterType, [Next]_vars PROVE WriterType'
  BY TypeParts
<1> USE DEF WriterType, handlerVars, loopVars, clientVars
<1>put. ASSUME NEW m \in Msg, Write(m), UNCHANGED emitted PROVE WriterType'
  BY <1>put, SeqFacts, NestedAssumption DEF Write, NestedAssumption
<1>emit. ASSUME NEW m \in Msg, Write(m), emitted' = Append(emitted, m.n)
         PROVE  WriterType'
  <2>1. m.n \in 0 .. MaxMsgs
    BY MsgFacts
  <2>2. emitted' \in Seq(0 .. MaxMsgs)
    BY <1>emit, <2>1
  <2>3. writer' \in Seq(Msg) /\ Len(writer') <= WriterCap
    BY <1>emit, SeqFacts, NestedAssumption DEF Write, NestedAssumption
  <2> QED BY <2>2, <2>3
<1>take. ASSUME writer # <<>>, writer' = Tail(writer), UNCHANGED emitted
         PROVE  WriterType'
  BY <1>take, SeqFacts, NestedAssumption DEF NestedAssumption
<1>1. ASSUME NEW k \in HeaderKeys, SetHeader(k) PROVE WriterType'
  BY <1>1 DEF SetHeader
<1>2. ASSUME NEW k \in HeaderKeys, SendHeader(k) PROVE WriterType'
  <2>1. /\ StreamMsg(0, headers \cup {k}) \in Msg
        /\ StreamMsg(0, headers \cup {k}).n = 0
    BY MsgFacts DEF PlainTypes
  <2> QED BY <1>2, <1>emit, <2>1 DEF SendHeader
<1>3. ASSUME NEW k \in TrailerKeys, SetTrailer(k) PROVE WriterType'
  BY <1>3 DEF SetTrailer
<1>4. ASSUME SendMsg PROVE WriterType'
  <2> DEFINE m == StreamMsg(sent + 1, IF wroteHeaders THEN {} ELSE headers)
  <2>1. m \in Msg /\ m.n = sent + 1
    BY <1>4, MsgFacts DEF PlainTypes, SendMsg
  <2>2. Write(m) /\ emitted' = Append(emitted, sent + 1)
    BY <1>4 DEF SendMsg
  <2> HIDE DEF m
  <2> QED BY <1>emit, <2>1, <2>2
<1>5. ASSUME NEW s \in {"ok", "error"}, HandlerReturn(s) PROVE WriterType'
  BY <1>5 DEF HandlerReturn
<1>6. ASSUME WriteResponse PROVE WriterType'
  <2>1. Response(trailers, status) \in Msg
    BY MsgFacts DEF PlainTypes
  <2> QED BY <1>6, <1>put, <2>1 DEF WriteResponse
<1>7. ASSUME ForwardStreamMsg PROVE WriterType'
  BY <1>7, <1>take DEF ForwardStreamMsg
<1>8. ASSUME KeepResponse PROVE WriterType'
  BY <1>8, <1>take DEF KeepResponse
<1>9. ASSUME LoopEnd PROVE WriterType'
  BY <1>9 DEF LoopEnd
<1>10. ASSUME LoopCtxDone PROVE WriterType'
  BY <1>10 DEF LoopCtxDone
<1>11. ASSUME RecvStreamMsg PROVE WriterType'
  BY <1>11 DEF RecvStreamMsg
<1>12. ASSUME RecvResponse PROVE WriterType'
  BY <1>12 DEF RecvResponse
<1>13. ASSUME RecvEOF PROVE WriterType'
  BY <1>13 DEF RecvEOF
<1>14. ASSUME Header PROVE WriterType'
  BY <1>14 DEF Header
<1>15. ASSUME RecvCtxDone PROVE WriterType'
  BY <1>15 DEF RecvCtxDone
<1>16. ASSUME StreamOver PROVE WriterType'
  BY <1>16 DEF StreamOver
<1>17. CASE UNCHANGED vars
  BY <1>17 DEF vars
<1> QED BY <1>1, <1>2, <1>3, <1>4, <1>5, <1>6, <1>7, <1>8, <1>9, <1>10,
          <1>11, <1>12, <1>13, <1>14, <1>15, <1>16, <1>17
        DEF Next, HandlerStep, Loop, Recv

\* What is sent to the caller is a message that finds room, and the error of a
\* stream that is over needs one place more.
LEMMA ReplyStep == TypeOK /\ [Next]_vars => ReplyType'
<1> SUFFICES ASSUME PlainTypes, WriterType, ReplyType, OtherTypes, [Next]_vars
             PROVE  ReplyType'
  BY TypeParts
<1> USE DEF ReplyType, handlerVars, loopVars, clientVars
<1>put. ASSUME NEW m \in Msg, SendReply(m), over' = over PROVE ReplyType'
  BY <1>put, SeqFacts, NestedAssumption DEF SendReply, NestedAssumption
<1>take. ASSUME Receiving, replyC' = Tail(replyC), over' = over PROVE ReplyType'
  BY <1>take, SeqFacts, NestedAssumption DEF NestedAssumption, Receiving
<1>1. ASSUME NEW k \in HeaderKeys, SetHeader(k) PROVE ReplyType'
  BY <1>1 DEF SetHeader
<1>2. ASSUME NEW k \in HeaderKeys, SendHeader(k) PROVE ReplyType'
  BY <1>2 DEF SendHeader
<1>3. ASSUME NEW k \in TrailerKeys, SetTrailer(k) PROVE ReplyType'
  BY <1>3 DEF SetTrailer
<1>4. ASSUME SendMsg PROVE ReplyType'
  BY <1>4 DEF SendMsg
<1>5. ASSUME NEW s \in {"ok", "error"}, HandlerReturn(s) PROVE ReplyType'
  BY <1>5 DEF HandlerReturn
<1>6. ASSUME WriteResponse PROVE ReplyType'
  BY <1>6 DEF WriteResponse
<1>7. ASSUME ForwardStreamMsg PROVE ReplyType'
  <2>1. Forwarded(Head(writer)) \in Msg
    BY <1>7, SeqFacts, MsgFacts DEF WriterType, ForwardStreamMsg
  <2> QED BY <1>7, <1>put, <2>1 DEF ForwardStreamMsg
<1>8. ASSUME KeepResponse PROVE ReplyType'
  BY <1>8 DEF KeepResponse
<1>9. ASSUME LoopEnd PROVE ReplyType'
  <2>1. CASE exitResponse = <<>>
    BY <1>9, <2>1 DEF LoopEnd
  <2>2. CASE exitResponse # <<>>
    <3>1. exitResponse[1] \in Msg
      BY <2>2, SeqFacts DEF OtherTypes
    <3> QED BY <1>9, <1>put, <2>2, <3>1 DEF LoopEnd
  <2> QED BY <2>1, <2>2
<1>10. ASSUME LoopCtxDone PROVE ReplyType'
  BY <1>10 DEF LoopCtxDone
<1>11. ASSUME RecvStreamMsg PROVE ReplyType'
  BY <1>11, <1>take DEF RecvStreamMsg
<1>12. ASSUME RecvResponse PROVE ReplyType'
  BY <1>12, <1>take DEF RecvResponse
<1>13. ASSUME RecvEOF PROVE ReplyType'
  BY <1>13 DEF RecvEOF
<1>14. ASSUME Header PROVE ReplyType'
  BY <1>14 DEF Header
<1>15. ASSUME RecvCtxDone PROVE ReplyType'
  BY <1>15 DEF RecvCtxDone
<1>16. ASSUME StreamOver PROVE ReplyType'
  <2>1. PICK k \in 0 .. Len(replyC) :
          \/ replyC' = SubSeq(replyC, 1, k)
          \/ replyC' = Append(SubSeq(replyC, 1, k), Response({}, "error"))
    BY <1>16 DEF StreamOver
  <2>2. SubSeq(replyC, 1, k) \in Seq(Msg) /\ Len(SubSeq(replyC, 1, k)) = k
    BY SeqFacts
  <2>3. Response({}, "error") \in Msg
    BY MsgFacts
  <2>4. /\ replyC' \in Seq(Msg) /\ Len(replyC') <= Len(replyC) + 1
    BY <2>1, <2>2, <2>3, SeqFacts, SMTT(30)
  <2>5. ~over /\ over'
    BY <1>16 DEF StreamOver
  <2> QED BY <2>4, <2>5, NestedAssumption, SeqFacts DEF NestedAssumption
<1>17. CASE UNCHANGED vars
  BY <1>17 DEF vars
<1> QED BY <1>1, <1>2, <1>3, <1>4, <1>5, <1>6, <1>7, <1>8, <1>9, <1>10,
          <1>11, <1>12, <1>13, <1>14, <1>15, <1>16, <1>17
        DEF Next, HandlerStep, Loop, Recv

\* The slots of the wrappers hold one value at most, and RecvMsg returns
\* results.
LEMMA OtherStep == TypeOK /\ [Next]_vars => OtherTypes'
<1> SUFFICES ASSUME PlainTypes, WriterType, ReplyType, OtherTypes, [Next]_vars
             PROVE  OtherTypes'
  BY TypeParts
<1> USE DEF OtherTypes, handlerVars, loopVars, clientVars
<1>put. ASSUME NEW k \in {"msg", "error", "EOF", "ctx"}, NEW n \in 0 .. MaxMsgs,
             received' = Append(received, Result(k, n))
      PROVE  received' \in Seq(Results)
  <2>1. Result(k, n) \in Results
    BY ResultFacts
  <2> QED BY <1>put, <2>1, SeqFacts
<1>1. ASSUME NEW k \in HeaderKeys, SetHeader(k) PROVE OtherTypes'
  BY <1>1 DEF SetHeader
<1>2. ASSUME NEW k \in HeaderKeys, SendHeader(k) PROVE OtherTypes'
  BY <1>2 DEF SendHeader
<1>3. ASSUME NEW k \in TrailerKeys, SetTrailer(k) PROVE OtherTypes'
  BY <1>3 DEF SetTrailer
<1>4. ASSUME SendMsg PROVE OtherTypes'
  BY <1>4 DEF SendMsg
<1>5. ASSUME NEW s \in {"ok", "error"}, HandlerReturn(s) PROVE OtherTypes'
  BY <1>5 DEF HandlerReturn
<1>6. ASSUME WriteResponse PROVE OtherTypes'
  BY <1>6 DEF WriteResponse
<1>7. ASSUME ForwardStreamMsg PROVE OtherTypes'
  BY <1>7 DEF ForwardStreamMsg
<1>8. ASSUME KeepResponse PROVE OtherTypes'
  <2>1. Head(writer) \in Msg
    BY <1>8, SeqFacts DEF WriterType, KeepResponse
  <2>2. exitResponse' \in Seq(Msg) /\ Len(exitResponse') <= 1
    BY <1>8, <2>1 DEF KeepResponse
  <2> QED BY <1>8, <2>2 DEF KeepResponse
<1>9. ASSUME LoopEnd PROVE OtherTypes'
  BY <1>9 DEF LoopEnd
<1>10. ASSUME LoopCtxDone PROVE OtherTypes'
  BY <1>10 DEF LoopCtxDone
<1>11. ASSUME RecvStreamMsg PROVE OtherTypes'
  <2>1. Head(replyC) \in Msg
    BY <1>11, SeqFacts DEF ReplyType, RecvStreamMsg, Receiving
  <2>2. received' \in Seq(Results)
    BY <1>11, <1>put, <2>1, MsgFacts DEF RecvStreamMsg
  <2>3. headerC' \in Seq(Metadata) /\ Len(headerC') <= 1
    BY <1>11, <2>1, MsgFacts DEF RecvStreamMsg
  <2> QED BY <1>11, <2>2, <2>3 DEF RecvStreamMsg
<1>12. ASSUME RecvResponse PROVE OtherTypes'
  <2>1. Head(replyC) \in Msg
    BY <1>12, SeqFacts DEF ReplyType, RecvResponse, Receiving
  <2>2. received' \in Seq(Results)
    BY <1>12, <1>put, <2>1, MsgFacts, ResultFacts DEF RecvResponse
  <2> QED BY <1>12, <2>2 DEF RecvResponse
<1>13. ASSUME RecvEOF PROVE OtherTypes'
  BY <1>13, <1>put, ResultFacts DEF RecvEOF
<1>14. ASSUME Header PROVE OtherTypes'
  BY <1>14 DEF Header
<1>15. ASSUME RecvCtxDone PROVE OtherTypes'
  BY <1>15, <1>put, ResultFacts DEF RecvCtxDone
<1>16. ASSUME StreamOver PROVE OtherTypes'
  BY <1>16 DEF StreamOver
<1>17. CASE UNCHANGED vars
  BY <1>17 DEF vars
<1> QED BY <1>1, <1>2, <1>3, <1>4, <1>5, <1>6, <1>7, <1>8, <1>9, <1>10,
          <1>11, <1>12, <1>13, <1>14, <1>15, <1>16, <1>17
        DEF Next, HandlerStep, Loop, Recv

\* Together: every step keeps the types.
LEMMA TypeStep == TypeOK /\ [Next]_vars => TypeOK'
<1> SUFFICES ASSUME TypeOK, [Next]_vars PROVE TypeOK'
  OBVIOUS
<1>1. PlainTypes' /\ WriterType' /\ ReplyType' /\ OtherTypes'
  BY PlainStep, WriterStep, ReplyStep, OtherStep
<1> QED BY <1>1 DEF TypeOK, PlainTypes, WriterType, ReplyType, OtherTypes, Results

-------------------------------------------------------------------------------
(***************************************************************************)
(* The two sides.                                                          *)
(***************************************************************************)
\* The loop takes the first RPC: the response, if any, stays the last.
LEMMA HandlerTail ==
  ASSUME TypeOK, HandlerInv, writer # <<>>, writer' = Tail(writer),
         UNCHANGED handlerVars
  PROVE  \A i \in DOMAIN writer' : writer'[i].type = "response" =>
           /\ i = Len(writer') /\ handler' = "exited"
           /\ writer'[i] = Response(trailers, status)'
<1> SUFFICES ASSUME NEW i \in DOMAIN writer', writer'[i].type = "response"
             PROVE  /\ i = Len(writer') /\ handler' = "exited"
                    /\ writer'[i] = Response(trailers, status)'
  OBVIOUS
<1>1. writer \in Seq(Msg)
  BY DEF TypeOK
<1>2. /\ i \in 1 .. Len(writer) - 1 /\ writer'[i] = writer[i + 1]
      /\ Len(writer') = Len(writer) - 1 /\ DOMAIN writer = 1 .. Len(writer)
      /\ Len(writer) \in Nat
  BY <1>1, SeqFacts
<1>3. i + 1 \in DOMAIN writer
  BY <1>2
<1>4. /\ i + 1 = Len(writer) /\ handler = "exited"
      /\ writer[i + 1] = Response(trailers, status)
  BY <1>2, <1>3 DEF HandlerInv
<1>5. i = Len(writer')
  BY <1>2, <1>4
<1> QED BY <1>2, <1>4, <1>5 DEF handlerVars, Response

\* What the handler writes while it runs is no response.
LEMMA HandlerWrite ==
  ASSUME TypeOK, HandlerInv, handler # "exited", NEW m \in Msg, Write(m)
  PROVE  /\ DOMAIN writer' = 1 .. Len(writer) + 1 /\ Len(writer') = Len(writer) + 1
         /\ \A i \in DOMAIN writer' : writer'[i].type = "response" =>
              i = Len(writer') /\ m.type = "response"
         /\ writer'[Len(writer')] = m
<1>1. writer \in Seq(Msg)
  BY DEF TypeOK
<1>2. /\ Len(writer') = Len(writer) + 1 /\ DOMAIN writer' = 1 .. Len(writer) + 1
      /\ \A i \in 1 .. Len(writer) : writer'[i] = writer[i]
      /\ writer'[Len(writer) + 1] = m
      /\ DOMAIN writer = 1 .. Len(writer) /\ Len(writer) \in Nat
  BY <1>1, SeqFacts DEF Write
<1>3. \A i \in 1 .. Len(writer) : writer[i].type # "response"
  BY <1>2 DEF HandlerInv
<1> QED BY <1>2, <1>3

\* Every step keeps the handler's side.
LEMMA HandlerStepInv == TypeOK /\ HandlerInv /\ [Next]_vars => HandlerInv'
<1> SUFFICES ASSUME TypeOK, HandlerInv, [Next]_vars PROVE HandlerInv'
  OBVIOUS
<1> USE DEF HandlerInv, handlerVars, loopVars, clientVars, Response
<1>types. PlainTypes /\ writer \in Seq(Msg)
  BY TypeParts DEF WriterType
<1>1. ASSUME NEW k \in HeaderKeys, SetHeader(k) PROVE HandlerInv'
  BY <1>1 DEF SetHeader
<1>2. ASSUME NEW k \in HeaderKeys, SendHeader(k) PROVE HandlerInv'
  <2>1. StreamMsg(0, headers \cup {k}) \in Msg
    BY <1>types, MsgFacts DEF PlainTypes
  <2>2. CASE wroteHeaders
    BY <1>2, <2>2 DEF SendHeader
  <2>3. CASE ~wroteHeaders
    <3>1. \A i \in DOMAIN writer' : writer'[i].type # "response"
      BY <1>2, <2>1, <2>3, HandlerWrite DEF SendHeader, StreamMsg
    <3> QED BY <1>2, <3>1 DEF SendHeader
  <2> QED BY <2>2, <2>3
<1>3. ASSUME NEW k \in TrailerKeys, SetTrailer(k) PROVE HandlerInv'
  <2>1. handler # "exited"
    BY <1>3 DEF SetTrailer
  <2> QED BY <1>3, <2>1 DEF SetTrailer
<1>4. ASSUME SendMsg PROVE HandlerInv'
  <2>1. StreamMsg(sent + 1, IF wroteHeaders THEN {} ELSE headers) \in Msg
    BY <1>4, <1>types, MsgFacts DEF PlainTypes, SendMsg
  <2>2. \A i \in DOMAIN writer' : writer'[i].type # "response"
    BY <1>4, <2>1, HandlerWrite DEF SendMsg, StreamMsg
  <2> QED BY <1>4, <2>2 DEF SendMsg
<1>5. ASSUME NEW s \in {"ok", "error"}, HandlerReturn(s) PROVE HandlerInv'
  BY <1>5 DEF HandlerReturn
<1>6. ASSUME WriteResponse PROVE HandlerInv'
  <2>1. Response(trailers, status) \in Msg
    BY <1>types, MsgFacts DEF PlainTypes
  <2>2. /\ \A i \in DOMAIN writer' : writer'[i].type = "response" =>
             i = Len(writer')
        /\ writer'[Len(writer')] = Response(trailers, status)
    BY <1>6, <2>1, HandlerWrite DEF WriteResponse
  <2> QED BY <1>6, <2>2 DEF WriteResponse
<1>7. ASSUME ForwardStreamMsg PROVE HandlerInv'
  BY <1>7, HandlerTail DEF ForwardStreamMsg
<1>8. ASSUME KeepResponse PROVE HandlerInv'
  <2>1. 1 \in DOMAIN writer /\ Head(writer) = writer[1]
    BY <1>8, <1>types, SeqFacts DEF KeepResponse
  <2>2. exitResponse' = <<Response(trailers, status)>> /\ handler = "exited"
    BY <1>8, <2>1 DEF KeepResponse
  <2> QED BY <1>8, <2>2, HandlerTail DEF KeepResponse
<1>9. ASSUME LoopEnd PROVE HandlerInv'
  BY <1>9 DEF LoopEnd
<1>10. ASSUME LoopCtxDone PROVE HandlerInv'
  BY <1>10 DEF LoopCtxDone
<1>11. ASSUME RecvStreamMsg PROVE HandlerInv'
  BY <1>11 DEF RecvStreamMsg
<1>12. ASSUME RecvResponse PROVE HandlerInv'
  BY <1>12 DEF RecvResponse
<1>13. ASSUME RecvEOF PROVE HandlerInv'
  BY <1>13 DEF RecvEOF
<1>14. ASSUME Header PROVE HandlerInv'
  BY <1>14 DEF Header
<1>15. ASSUME RecvCtxDone PROVE HandlerInv'
  BY <1>15 DEF RecvCtxDone
<1>16. ASSUME StreamOver PROVE HandlerInv'
  BY <1>16 DEF StreamOver
<1>17. CASE UNCHANGED vars
  BY <1>17 DEF vars
<1> QED BY <1>1, <1>2, <1>3, <1>4, <1>5, <1>6, <1>7, <1>8, <1>9, <1>10,
          <1>11, <1>12, <1>13, <1>14, <1>15, <1>16, <1>17
        DEF Next, HandlerStep, Loop, Recv

\* RecvMsg adds one result.
LEMMA EndedFacts ==
  ASSUME TypeOK, NEW k \in {"msg", "error", "EOF", "ctx"}, NEW n \in 0 .. MaxMsgs,
         received' = Append(received, Result(k, n))
  PROVE  \A x : Ended(x)' <=> Ended(x) \/ x = k
<1>1. received \in Seq(Results) /\ Result(k, n) \in Results /\ Result(k, n).kind = k
  BY ResultFacts DEF TypeOK, Results
<1>2. /\ DOMAIN received' = 1 .. Len(received) + 1
      /\ DOMAIN received = 1 .. Len(received) /\ Len(received) \in Nat
      /\ \A i \in 1 .. Len(received) : received'[i] = received[i]
      /\ received'[Len(received) + 1].kind = k
  BY <1>1, SeqFacts
<1> QED BY <1>2 DEF Ended

\* The caller takes the first message: the response, if any, stays the last, and
\* a message that is not the response leaves it in the channel.
LEMMA ReplyTail ==
  ASSUME TypeOK, ReplyInv, Receiving, replyC' = Tail(replyC)
  PROVE  /\ Head(replyC) \in Msg /\ Head(replyC) = replyC[1]
         /\ 1 \in DOMAIN replyC /\ 1 <= Len(replyC)
         /\ Len(replyC') = Len(replyC) - 1 /\ DOMAIN replyC' = 1 .. Len(replyC')
         /\ \A i \in DOMAIN replyC' :
              i + 1 \in DOMAIN replyC /\ replyC'[i] = replyC[i + 1]
         /\ Head(replyC).type = "response" => replyC' = <<>>
         /\ replyClosed /\ Head(replyC).type # "response" =>
              replyC' # <<>> /\ replyC'[Len(replyC')] = replyC[Len(replyC)]
<1>1. replyC \in Seq(Msg) /\ replyC # <<>>
  BY DEF TypeOK, Receiving
<1>2. /\ Head(replyC) \in Msg /\ Head(replyC) = replyC[1] /\ Tail(replyC) \in Seq(Msg)
      /\ Len(replyC) \in Nat /\ Len(replyC) # 0 /\ DOMAIN replyC = 1 .. Len(replyC)
      /\ Len(replyC') = Len(replyC) - 1
      /\ \A i \in 1 .. Len(replyC) - 1 : replyC'[i] = replyC[i + 1]
  BY <1>1, SeqFacts
<1>3. DOMAIN replyC' = 1 .. Len(replyC') /\ (Len(replyC') = 0 <=> replyC' = <<>>)
  BY <1>2, SeqFacts
<1>4. Head(replyC).type = "response" => Len(replyC) = 1
  BY <1>2 DEF ReplyInv
<1>5. replyClosed /\ Head(replyC).type # "response" => Len(replyC) # 1
  BY <1>1, <1>2 DEF ReplyInv
<1> QED BY <1>2, <1>3, <1>4, <1>5

\* A message is sent to the caller behind the others, before the response.
LEMMA ReplySend ==
  ASSUME TypeOK, ReplyInv, ~replyClosed, NEW m \in Msg, SendReply(m), ~over
  PROVE  /\ replyC' = Append(replyC, m)
         /\ Len(replyC') = Len(replyC) + 1 /\ DOMAIN replyC' = 1 .. Len(replyC) + 1
         /\ replyC' # <<>> /\ replyC'[Len(replyC')] = m
         /\ \A i \in DOMAIN replyC' :
              replyC'[i].type = "response" => i = Len(replyC') /\ replyC'[i] = m
<1>1. replyC \in Seq(Msg) /\ replyC' = Append(replyC, m)
  BY DEF TypeOK, SendReply
<1>2. /\ Len(replyC') = Len(replyC) + 1 /\ replyC' \in Seq(Msg)
      /\ \A i \in 1 .. Len(replyC) : replyC'[i] = replyC[i]
      /\ replyC'[Len(replyC) + 1] = m
      /\ DOMAIN replyC = 1 .. Len(replyC) /\ Len(replyC) \in Nat
  BY <1>1, SeqFacts
<1>3. DOMAIN replyC' = 1 .. Len(replyC) + 1 /\ replyC' # <<>>
  BY <1>2, SeqFacts
<1>4. \A i \in 1 .. Len(replyC) : replyC[i].type # "response"
  BY <1>2 DEF ReplyInv
<1> QED BY <1>1, <1>2, <1>3, <1>4

\* The stream is over before the response was received: the caller's channel
\* ends with an error, and holds no other response.
LEMMA OverFacts ==
  ASSUME TypeOK, ReplyInv, NEW k \in 0 .. Len(replyC),
         ~(replyClosed /\ k = Len(replyC)),
         replyC' = Append(SubSeq(replyC, 1, k), Response({}, "error"))
  PROVE  /\ replyC' # <<>>
         /\ replyC'[Len(replyC')] = Response({}, "error")
         /\ \A i \in DOMAIN replyC' : replyC'[i].type = "response" =>
              i = Len(replyC') /\ replyC'[i] = Response({}, "error")
         /\ ~Succeeded'
         /\ ~Ended("EOF") /\ ~Ended("error")
<1> DEFINE kept == SubSeq(replyC, 1, k)
<1>1. replyC \in Seq(Msg) /\ Response({}, "error") \in Msg
  BY MsgFacts DEF TypeOK
<1>2. /\ kept \in Seq(Msg) /\ Len(kept) = k
      /\ \A i \in 1 .. k : kept[i] = replyC[i]
  BY <1>1, SeqFacts
<1>3. Len(replyC) \in Nat /\ k \in Nat /\ k <= Len(replyC)
  BY <1>1, SeqFacts
<1>4. ASSUME NEW i \in 1 .. k PROVE kept[i].type # "response"
  <2>1. i \in DOMAIN replyC /\ kept[i] = replyC[i]
    BY <1>1, <1>2, <1>3, SeqFacts
  <2>2. replyC[i].type = "response" => i = Len(replyC) /\ replyClosed
    BY <2>1 DEF ReplyInv
  <2> HIDE DEF kept
  <2>3. replyClosed => i # Len(replyC)
    BY <1>3
  <2> QED BY <2>1, <2>2, <2>3
<1>5. Append(kept, Response({}, "error")) = replyC'
  OBVIOUS
<1> HIDE DEF kept
<1>6. /\ replyC' \in Seq(Msg) /\ Len(replyC') = k + 1
      /\ \A i \in 1 .. k : replyC'[i] = kept[i]
      /\ replyC'[k + 1] = Response({}, "error")
  <2>1. /\ Append(kept, Response({}, "error")) \in Seq(Msg)
        /\ Len(Append(kept, Response({}, "error"))) = k + 1
        /\ \A i \in 1 .. k : Append(kept, Response({}, "error"))[i] = kept[i]
        /\ Append(kept, Response({}, "error"))[k + 1] = Response({}, "error")
    BY <1>1, <1>2, SeqFacts
  <2> QED BY <1>5, <2>1
<1>7. DOMAIN replyC' = 1 .. k + 1 /\ replyC' # <<>>
  <2>1. DOMAIN replyC' = 1 .. Len(replyC') /\ (replyC' = <<>> => Len(replyC') = 0)
    BY <1>6, SeqFacts
  <2>2. k + 1 # 0
    BY <1>3
  <2> QED BY <1>6, <2>1, <2>2
<1>8. ASSUME NEW i \in DOMAIN replyC', replyC'[i].type = "response"
      PROVE  i = Len(replyC') /\ replyC'[i] = Response({}, "error")
  <2>1. i \in 1 .. k \/ i = k + 1
    BY <1>3, <1>7
  <2> QED BY <1>4, <1>6, <1>8, <2>1
<1>9. ~Succeeded'
  BY <1>7, <1>8 DEF Succeeded, Response
<1>10. ~Ended("EOF") /\ ~Ended("error")
  <2>1. CASE replyClosed
    <3>1. Len(replyC) # 0
      BY <1>3, <2>1
    <3> QED BY <1>1, <3>1 DEF ReplyInv
  <2>2. CASE ~replyClosed
    BY <2>2 DEF ReplyInv
  <2> QED BY <2>1, <2>2
<1> QED BY <1>6, <1>7, <1>8, <1>9, <1>10

\* Every step keeps the caller's side.
LEMMA ReplyStepInv ==
  TypeOK /\ HandlerInv /\ ReplyInv /\ [Next]_vars => ReplyInv'
<1> SUFFICES ASSUME TypeOK, HandlerInv, ReplyInv, [Next]_vars
             PROVE  ReplyInv'
  OBVIOUS
<1> USE DEF handlerVars, loopVars, clientVars
<1>types. PlainTypes /\ writer \in Seq(Msg) /\ replyC \in Seq(Msg)
  BY TypeParts DEF WriterType, ReplyType
<1>frame. ASSUME UNCHANGED <<received, replyC, replyClosed, over, trailer>>,
                 loop' = loop \/ loop' = "done",
                 status = "ok" => UNCHANGED <<trailers, status>>
          PROVE  ReplyInv'
  <2>1. \A x : Ended(x)' <=> Ended(x)
    BY <1>frame DEF Ended
  <2>2. Succeeded' <=> Succeeded
    BY <1>frame, <2>1 DEF Succeeded
  <2>3. ASSUME NEW i \in DOMAIN replyC, replyC[i].type = "response",
               replyC[i].status = "ok"
        PROVE  Succeeded
    BY <2>3 DEF Succeeded
  <2> QED BY <1>frame, <2>1, <2>2, <2>3 DEF ReplyInv, Response
<1>1. ASSUME NEW k \in HeaderKeys, SetHeader(k) PROVE ReplyInv'
  BY <1>1, <1>frame, <1>types DEF SetHeader, HandlerInv, PlainTypes
<1>2. ASSUME NEW k \in HeaderKeys, SendHeader(k) PROVE ReplyInv'
  BY <1>2, <1>frame DEF SendHeader
<1>3. ASSUME NEW k \in TrailerKeys, SetTrailer(k) PROVE ReplyInv'
  BY <1>3, <1>frame, <1>types DEF SetTrailer, HandlerInv, PlainTypes
<1>4. ASSUME SendMsg PROVE ReplyInv'
  BY <1>4, <1>frame, <1>types DEF SendMsg, HandlerInv, PlainTypes
<1>5. ASSUME NEW s \in {"ok", "error"}, HandlerReturn(s) PROVE ReplyInv'
  BY <1>5, <1>frame, <1>types DEF HandlerReturn, HandlerInv, PlainTypes
<1>6. ASSUME WriteResponse PROVE ReplyInv'
  BY <1>6, <1>frame, <1>types DEF WriteResponse, HandlerInv, PlainTypes
<1>7. ASSUME ForwardStreamMsg PROVE ReplyInv'
  <2>1. Head(writer) \in Msg /\ Forwarded(Head(writer)) \in Msg
    BY <1>7, <1>types, SeqFacts, MsgFacts DEF ForwardStreamMsg
  <2>2. CASE over \/ replyClosed
    BY <1>7, <2>2, <1>frame DEF ForwardStreamMsg, SendReply
  <2>3. CASE ~over /\ ~replyClosed
    <3>1. /\ replyC' # <<>>
          /\ \A i \in DOMAIN replyC' : replyC'[i].type # "response"
      BY <1>7, <2>1, <2>3, ReplySend DEF ForwardStreamMsg, Forwarded
    <3>2. UNCHANGED <<over, replyClosed, loop, received>>
      BY <1>7 DEF ForwardStreamMsg
    <3>3. \A x : Ended(x)' <=> Ended(x)
      BY <3>2 DEF Ended
    <3>4. ~Succeeded' /\ ~Ended("EOF") /\ ~Ended("error")
      BY <2>3, <3>1, <3>2 DEF Succeeded, ReplyInv
    <3> QED BY <2>3, <3>1, <3>2, <3>3, <3>4 DEF ReplyInv
  <2> QED BY <2>2, <2>3
<1>8. ASSUME KeepResponse PROVE ReplyInv'
  BY <1>8, <1>frame, <1>types DEF KeepResponse, HandlerInv, PlainTypes
<1>9. ASSUME LoopEnd PROVE ReplyInv'
  <2>1. CASE exitResponse = <<>> \/ over \/ replyClosed
    BY <1>9, <2>1, <1>frame, <1>types DEF LoopEnd, SendReply, ReplyInv, PlainTypes
  <2>2. CASE exitResponse # <<>> /\ ~over /\ ~replyClosed
    <3>1. /\ exitResponse[1] = Response(trailers, status)
          /\ Response(trailers, status) \in Msg
      BY <2>2, <1>types, MsgFacts DEF HandlerInv, PlainTypes
    <3>2. /\ replyC' # <<>> /\ replyC'[Len(replyC')] = Response(trailers, status)
          /\ \A i \in DOMAIN replyC' : replyC'[i].type = "response" =>
               i = Len(replyC') /\ replyC'[i] = Response(trailers, status)
      BY <1>9, <2>2, <3>1, ReplySend DEF LoopEnd
    <3>3. /\ UNCHANGED <<over, received, trailers, status>>
          /\ loop' = "done" /\ replyClosed'
      BY <1>9, <2>2 DEF LoopEnd
    <3>4. \A x : Ended(x)' <=> Ended(x)
      BY <3>3 DEF Ended
    <3>5. ~Ended("EOF") /\ ~Ended("error")
      BY <2>2 DEF ReplyInv
    <3>6. Succeeded' => status = "ok"
      BY <3>2 DEF Succeeded, Response
    <3> QED BY <2>2, <3>2, <3>3, <3>4, <3>5, <3>6 DEF ReplyInv, Response
  <2> QED BY <2>1, <2>2
<1>10. ASSUME LoopCtxDone PROVE ReplyInv'
  BY <1>10, <1>frame, <1>types DEF LoopCtxDone, HandlerInv, PlainTypes
<1>11. ASSUME RecvStreamMsg PROVE ReplyInv'
  <2>1. /\ Receiving /\ replyC' = Tail(replyC)
        /\ Head(replyC).type # "response" /\ Head(replyC).n \in 0 .. MaxMsgs
        /\ received' = Append(received, Result("msg", Head(replyC).n))
    BY <1>11, ReplyTail, MsgFacts DEF RecvStreamMsg
  <2>2. \A x : Ended(x)' <=> Ended(x) \/ x = "msg"
    BY <2>1, EndedFacts
  <2>3. ~Ended("EOF") /\ ~Ended("error")
    BY <2>1 DEF ReplyInv, Receiving
  <2>5. UNCHANGED <<over, replyClosed, loop, status, trailers>>
    BY <1>11 DEF RecvStreamMsg
  <2>6. ASSUME NEW i \in DOMAIN replyC', replyC'[i].type = "response"
        PROVE  /\ i = Len(replyC') /\ replyClosed /\ replyC'[i].n = 0
               /\ replyC'[i].status = "ok" =>
                    replyC'[i] = Response(trailers, "ok") /\ Succeeded
    <3>1. i + 1 \in DOMAIN replyC /\ replyC'[i] = replyC[i + 1]
      BY <2>1, ReplyTail
    <3>2. i + 1 = Len(replyC) /\ Len(replyC') = Len(replyC) - 1
      BY <2>1, <2>6, <3>1, ReplyTail DEF ReplyInv
    <3> QED BY <2>6, <3>1, <3>2, <1>types, SeqFacts DEF ReplyInv, Succeeded
  <2>7. replyClosed => replyC' # <<>> /\ replyC'[Len(replyC')].type = "response"
    BY <2>1, ReplyTail DEF ReplyInv, Receiving
  <2>8. Succeeded' => Succeeded
    BY <2>5, <2>6, <2>7 DEF Succeeded
  <2>9. ~(Succeeded' /\ replyC' = <<>>)
    BY <2>5, <2>7 DEF Succeeded
  <2> QED BY <2>2, <2>3, <2>5, <2>6, <2>7, <2>8, <2>9
          DEF ReplyInv, Response
<1>12. ASSUME RecvResponse PROVE ReplyInv'
  <2>1. /\ Receiving /\ replyC' = Tail(replyC)
        /\ Head(replyC).type = "response" /\ Head(replyC).n \in 0 .. MaxMsgs
        /\ UNCHANGED <<over, replyClosed, loop, status, trailers>>
    BY <1>12, ReplyTail, MsgFacts DEF RecvResponse
  <2>2. replyC' = <<>> /\ replyClosed /\ 1 \in DOMAIN replyC /\ Head(replyC) = replyC[1]
    BY <2>1, ReplyTail DEF ReplyInv
  <2>3. ~Ended("EOF") /\ ~Ended("error")
    BY <2>1 DEF ReplyInv, Receiving
  <2>5. CASE Head(replyC).status = "ok"
    <3>1. /\ received' = Append(received, Result("msg", Head(replyC).n))
          /\ trailer' = Head(replyC).metadata
      BY <1>12, <2>5 DEF RecvResponse
    <3>2. \A x : Ended(x)' <=> Ended(x) \/ x = "msg"
      BY <2>1, <3>1, EndedFacts
    <3>3. Succeeded /\ trailer' = trailers
      BY <2>1, <2>2, <2>5, <3>1 DEF Succeeded, ReplyInv, Response
    <3> QED BY <2>1, <2>2, <2>3, <3>2, <3>3 DEF ReplyInv
  <2>6. CASE Head(replyC).status # "ok"
    <3>1. received' = Append(received, Result("error", 0))
      BY <1>12, <2>6 DEF RecvResponse
    <3>2. \A x : Ended(x)' <=> Ended(x) \/ x = "error"
      BY <3>1, EndedFacts, ResultFacts
    <3>3. ~Succeeded'
      BY <2>2, <3>2 DEF Succeeded
    <3> QED BY <2>1, <2>2, <2>3, <3>2, <3>3 DEF ReplyInv
  <2> QED BY <2>5, <2>6
<1>13. ASSUME RecvEOF PROVE ReplyInv'
  <2>1. \A x : Ended(x)' <=> Ended(x) \/ x = "EOF"
    BY <1>13, EndedFacts, ResultFacts DEF RecvEOF
  <2>2. ~Ended("EOF") /\ ~Ended("error")
    BY <1>13 DEF RecvEOF, Ended
  <2>3. Succeeded /\ Succeeded' /\ replyC = <<>> /\ replyClosed
    BY <1>13, <2>1, <2>2 DEF RecvEOF, Succeeded
  <2> QED BY <1>13, <2>1, <2>2, <2>3 DEF RecvEOF, ReplyInv, Response
<1>14. ASSUME Header PROVE ReplyInv'
  BY <1>14, <1>frame, <1>types DEF Header, HandlerInv, PlainTypes
<1>15. ASSUME RecvCtxDone PROVE ReplyInv'
  <2>1. \A x : Ended(x)' <=> Ended(x) \/ x = "ctx"
    BY <1>15, EndedFacts, ResultFacts DEF RecvCtxDone
  <2>2. Succeeded' <=> Succeeded
    BY <1>15, <2>1 DEF RecvCtxDone, Succeeded
  <2> QED BY <1>15, <2>1, <2>2 DEF RecvCtxDone, ReplyInv, Response
<1>16. ASSUME StreamOver PROVE ReplyInv'
  <2>1. /\ ~over /\ over' /\ replyClosed'
        /\ UNCHANGED <<received, trailers, status, loop, trailer>>
    BY <1>16 DEF StreamOver
  <2>2. \A x : Ended(x)' <=> Ended(x)
    BY <2>1 DEF Ended
  <2>4. PICK k \in 0 .. Len(replyC) :
          replyC' = IF replyClosed /\ k = Len(replyC)
                      THEN SubSeq(replyC, 1, k)
                      ELSE Append(SubSeq(replyC, 1, k), Response({}, "error"))
    BY <1>16 DEF StreamOver
  <2>5. CASE replyClosed /\ k = Len(replyC)
    <3>1. replyC' = replyC
      BY <2>4, <2>5, <1>types, SeqFacts
    <3>2. Succeeded' <=> Succeeded
      BY <2>1, <2>2, <2>5, <3>1 DEF Succeeded
    <3> QED BY <2>1, <2>2, <2>5, <3>1, <3>2 DEF ReplyInv, Response
  <2>6. CASE ~(replyClosed /\ k = Len(replyC))
    <3>1. replyC' = Append(SubSeq(replyC, 1, k), Response({}, "error"))
      BY <2>4, <2>6
    <3>2. /\ replyC' # <<>> /\ replyC'[Len(replyC')] = Response({}, "error")
          /\ \A i \in DOMAIN replyC' : replyC'[i].type = "response" =>
               i = Len(replyC') /\ replyC'[i] = Response({}, "error")
          /\ ~Succeeded' /\ ~Ended("EOF") /\ ~Ended("error")
      BY <2>6, <3>1, OverFacts
    <3> QED BY <2>1, <2>2, <3>2 DEF ReplyInv, Response
  <2> QED BY <2>5, <2>6
<1>17. CASE UNCHANGED vars
  BY <1>17, <1>frame DEF vars
<1> QED BY <1>1, <1>2, <1>3, <1>4, <1>5, <1>6, <1>7, <1>8, <1>9, <1>10,
          <1>11, <1>12, <1>13, <1>14, <1>15, <1>16, <1>17
        DEF Next, HandlerStep, Loop, Recv

-------------------------------------------------------------------------------
(***************************************************************************)
(* The payloads.                                                           *)
(***************************************************************************)
\* What RecvMsg has returned stays what it is while the caller does nothing.
LEMMA GotKept ==
  ASSUME TypeOK, NEW g \in Nat, Got(g), UNCHANGED <<received, cancelled>>,
         \A i \in 1 .. g : emitted'[i] = emitted[i],
         (replyC' = <<>> /\ replyClosed') <=> (replyC = <<>> /\ replyClosed)
  PROVE  Got(g)'
<1>1. Ended("error")' <=> Ended("error")
  BY DEF Ended
<1> QED BY <1>1 DEF Got

\* RecvMsg returns once more: what is new is the last result.
LEMMA GotOne ==
  ASSUME TypeOK, NEW k \in {"msg", "error", "EOF", "ctx"}, NEW n \in 0 .. MaxMsgs,
         received' = Append(received, Result(k, n))
  PROVE  /\ Len(received) \in Nat /\ Len(received') = Len(received) + 1
         /\ DOMAIN received = 1 .. Len(received)
         /\ DOMAIN received' = 1 .. Len(received) + 1
         /\ \A i \in 1 .. Len(received) : received'[i] = received[i]
         /\ received'[Len(received) + 1].kind = k
         /\ received'[Len(received) + 1].n = n
<1>1. received \in Seq(Results) /\ Result(k, n) \in Results
      /\ Result(k, n).kind = k /\ Result(k, n).n = n
  BY ResultFacts DEF TypeOK, Results
<1>2. received' \in Seq(Results)
  BY <1>1, SeqFacts
<1> QED BY <1>1, <1>2, SeqFacts

\* The handler writes the next message: it is the last of what was written.
LEMMA EmitOrder ==
  ASSUME TypeOK, HandlerInv, ReplyInv, OrderInv, handler = "running",
         NEW m \in Msg, m.type = "streamMsg", Write(m),
         emitted' = Append(emitted, m.n),
         UNCHANGED <<replyC, replyClosed, over, received, cancelled>>
  PROVE  OrderInv'
<1>1. PICK f, g \in Nat : At(f, g)
  BY DEF OrderInv
<1> DEFINE L == Len(emitted)
<1>2. /\ writer \in Seq(Msg) /\ replyC \in Seq(Msg) /\ m.n \in 0 .. MaxMsgs
      /\ emitted \in Seq(0 .. MaxMsgs) /\ writer' = Append(writer, m)
  BY MsgFacts DEF TypeOK, Write
<1>3. /\ L \in Nat /\ Len(emitted') = L + 1 /\ emitted'[L + 1] = m.n
      /\ \A i \in 1 .. L : emitted'[i] = emitted[i]
  BY <1>2, SeqFacts
<1>4. /\ f <= L /\ g <= f
      /\ Carries(writer, emitted, f, L) /\ Complete(writer, f, L)
      /\ Carries(replyC, emitted, g, f) /\ (~over \/ Succeeded => Complete(replyC, g, f))
      /\ Got(g)
  BY <1>1, <1>3 DEF At
<1> HIDE DEF L
<1>5. \A i \in DOMAIN writer : writer[i].type # "response"
  BY DEF HandlerInv
<1>6. Carries(writer, emitted', f, L)
  <2>1. L \in Nat /\ L <= L /\ f \in Nat
    BY <1>3
  <2> QED BY <1>2, <1>3, <1>4, <2>1, CarriesMore, Zenon
<1>7. Carries(writer', emitted', f, L + 1) /\ Complete(writer', f, L + 1)
  BY <1>2, <1>3, <1>4, <1>5, <1>6, AppendStream
<1>8. \A i \in 1 .. f : emitted'[i] = emitted[i]
  BY <1>3, <1>4
<1>9. Carries(replyC, emitted', g, f)
  <2>1. f <= f
    BY <1>1
  <2> QED BY <1>1, <1>2, <1>4, <1>8, <2>1, CarriesMore, Zenon
<1>10. Got(g)'
  <2>1. \A i \in 1 .. g : i \in 1 .. f
    BY <1>1, <1>4
  <2>2. \A i \in 1 .. g : emitted'[i] = emitted[i]
    BY <1>8, <2>1
  <2> QED BY <1>4, <2>2, GotKept
<1>11. ~Succeeded /\ ~Succeeded'
  <2>1. ~Succeeded
    BY DEF HandlerInv, ReplyInv
  <2> QED BY <2>1 DEF Succeeded, Ended
<1>12. f \in 0 .. Len(emitted') /\ g \in 0 .. f
  BY <1>3, <1>4
<1>13. At(f, g)'
  BY <1>3, <1>4, <1>7, <1>9, <1>10, <1>11, <1>12 DEF At
<1> QED BY <1>13 DEF OrderInv

\* Every step moves at most one message along: the handler sends the next, the
\* loop takes the next, or the caller receives the next.
LEMMA OrderStep == TypeOK /\ HandlerInv /\ ReplyInv /\ OrderInv /\ [Next]_vars => OrderInv'
<1> SUFFICES ASSUME TypeOK, HandlerInv, ReplyInv, OrderInv, [Next]_vars
             PROVE  OrderInv'
  OBVIOUS
<1> USE DEF handlerVars, loopVars, clientVars
<1>types. /\ PlainTypes /\ writer \in Seq(Msg) /\ replyC \in Seq(Msg)
          /\ received \in Seq(Results) /\ emitted \in Seq(0 .. MaxMsgs)
          /\ Len(emitted) \in Nat /\ Len(received) \in Nat
          /\ \A m \in Msg : m.type \in {"streamMsg", "response"}
  <2>1. /\ PlainTypes /\ writer \in Seq(Msg) /\ replyC \in Seq(Msg)
        /\ received \in Seq(Results) /\ emitted \in Seq(0 .. MaxMsgs)
    BY TypeParts DEF WriterType, ReplyType, OtherTypes
  <2>2. \A m \in Msg : m.type \in {"streamMsg", "response"}
    BY DEF Msg
  <2> QED BY <2>1, <2>2, SeqFacts
<1>at. PICK f, g \in Nat : At(f, g)
  BY DEF OrderInv
<1>nat. /\ f \in Nat /\ g \in Nat /\ f <= Len(emitted) /\ g <= f
        /\ Carries(writer, emitted, f, Len(emitted))
        /\ Complete(writer, f, Len(emitted))
        /\ Carries(replyC, emitted, g, f)
        /\ ~over \/ Succeeded => Complete(replyC, g, f)
        /\ Succeeded => f = Len(emitted)
        /\ Got(g)
  BY <1>at, <1>types DEF At
<1>there. ASSUME NEW h \in Nat, NEW l \in Nat, At(h, l)' PROVE OrderInv'
  BY <1>there DEF OrderInv
<1>frame. ASSUME UNCHANGED <<writer, emitted, replyC, replyClosed, over, received,
                             cancelled>>
          PROVE  OrderInv'
  <2>1. Succeeded' <=> Succeeded
    BY <1>frame DEF Succeeded, Ended
  <2>2. Got(g)'
    BY <1>nat, <1>frame, GotKept
  <2>3. At(f, g)'
    BY <1>at, <1>frame, <2>1, <2>2 DEF At
  <2> QED BY <1>there, <2>3
<1>1. ASSUME NEW k \in HeaderKeys, SetHeader(k) PROVE OrderInv'
  BY <1>1, <1>frame DEF SetHeader
<1>2. ASSUME NEW k \in HeaderKeys, SendHeader(k) PROVE OrderInv'
  <2>1. CASE wroteHeaders
    BY <1>2, <2>1, <1>frame DEF SendHeader
  <2>2. CASE ~wroteHeaders
    <3> DEFINE m == StreamMsg(0, headers \cup {k})
    <3>1. m \in Msg /\ m.n = 0 /\ m.type = "streamMsg"
      BY <1>types, MsgFacts DEF PlainTypes
    <3>2. /\ handler = "running" /\ Write(m) /\ emitted' = Append(emitted, 0)
          /\ UNCHANGED <<replyC, replyClosed, over, received, cancelled>>
      BY <1>2, <2>2 DEF SendHeader
    <3> HIDE DEF m
    <3> QED BY <3>1, <3>2, EmitOrder
  <2> QED BY <2>1, <2>2
<1>3. ASSUME NEW k \in TrailerKeys, SetTrailer(k) PROVE OrderInv'
  BY <1>3, <1>frame DEF SetTrailer
<1>4. ASSUME SendMsg PROVE OrderInv'
  <2> DEFINE m == StreamMsg(sent + 1, IF wroteHeaders THEN {} ELSE headers)
  <2>1. m \in Msg /\ m.n = sent + 1 /\ m.type = "streamMsg"
    <3>1. sent + 1 \in 0 .. MaxMsgs
      BY <1>4, <1>types, NestedAssumption DEF PlainTypes, SendMsg, NestedAssumption
    <3>2. (IF wroteHeaders THEN {} ELSE headers) \in SUBSET HeaderKeys
      BY <1>types DEF PlainTypes
    <3> QED BY <3>1, <3>2, MsgFacts
  <2>2. /\ handler = "running" /\ Write(m) /\ emitted' = Append(emitted, sent + 1)
        /\ UNCHANGED <<replyC, replyClosed, over, received, cancelled>>
    BY <1>4 DEF SendMsg
  <2> HIDE DEF m
  <2> QED BY <2>1, <2>2, EmitOrder
<1>5. ASSUME NEW s \in {"ok", "error"}, HandlerReturn(s) PROVE OrderInv'
  BY <1>5, <1>frame DEF HandlerReturn
<1>6. ASSUME WriteResponse PROVE OrderInv'
  <2> DEFINE m == Response(trailers, status)
  <2>1. m \in Msg /\ m.type = "response"
    BY <1>types, MsgFacts DEF PlainTypes
  <2>2. /\ writer' = Append(writer, m) /\ handler # "exited"
        /\ UNCHANGED <<emitted, replyC, replyClosed, over, received, cancelled>>
    BY <1>6 DEF WriteResponse, Write
  <2> HIDE DEF m
  <2>3. \A i \in DOMAIN writer : writer[i].type # "response"
    BY <2>2 DEF HandlerInv
  <2>4. Carries(writer', emitted, f, Len(emitted)) /\ Complete(writer', f, Len(emitted))
    BY <1>types, <1>nat, <2>1, <2>2, <2>3, AppendResponse
  <2>5. Succeeded' <=> Succeeded
    BY <2>2 DEF Succeeded, Ended
  <2>6. Got(g)'
    BY <1>nat, <2>2, GotKept
  <2>7. At(f, g)'
    BY <1>at, <2>2, <2>4, <2>5, <2>6 DEF At
  <2> QED BY <1>there, <2>7
<1>7. ASSUME ForwardStreamMsg PROVE OrderInv'
  <2> DEFINE m == Head(writer)
  <2>1. /\ m \in Msg /\ Forwarded(m) \in Msg /\ Forwarded(m).n = m.n
        /\ Forwarded(m).type = "streamMsg" /\ m.type = "streamMsg"
        /\ writer # <<>> /\ writer' = Tail(writer) /\ SendReply(Forwarded(m))
        /\ UNCHANGED <<emitted, replyClosed, over, received, cancelled>>
    BY <1>7, <1>types, SeqFacts, MsgFacts DEF ForwardStreamMsg, Forwarded
  <2>2. /\ f + 1 <= Len(emitted) /\ m.n = emitted[f + 1]
        /\ Carries(writer', emitted, f + 1, Len(emitted))
        /\ Complete(writer', f + 1, Len(emitted))
    <3>1. \A i \in DOMAIN writer : writer[i].type = "response" => i = Len(writer)
      BY DEF HandlerInv
    <3> QED BY <1>types, <1>nat, <2>1, <3>1, TailFacts
  <2> HIDE DEF m
  <2>3. ~Succeeded
    BY <1>7 DEF ForwardStreamMsg, ReplyInv
  <2>4. f + 1 \in 0 .. Len(emitted) /\ g \in 0 .. f + 1 /\ f + 1 \in Nat
    BY <1>nat, <1>types, <2>2
  <2>5. CASE over \/ replyClosed
    <3>1. replyC' = replyC /\ over
      BY <1>7, <2>1, <2>5 DEF SendReply, ForwardStreamMsg, ReplyInv
    <3>2. Carries(replyC, emitted, g, f + 1)
      BY <1>types, <1>nat, <2>4, CarriesMore
    <3>3. ~Succeeded'
      BY <2>1, <2>3, <3>1 DEF Succeeded, Ended
    <3>4. Got(g)'
      BY <1>nat, <2>1, <3>1, GotKept
    <3>5. At(f + 1, g)'
      BY <1>nat, <2>1, <2>2, <2>4, <3>1, <3>2, <3>3, <3>4 DEF At
    <3> QED BY <1>there, <1>nat, <2>4, <3>5
  <2>6. CASE ~over /\ ~replyClosed
    <3>1. replyC' = Append(replyC, Forwarded(m))
      BY <2>1, <2>6 DEF SendReply
    <3>2. \A i \in DOMAIN replyC : replyC[i].type # "response"
      BY <2>6 DEF ReplyInv
    <3>3. Carries(replyC', emitted, g, f + 1) /\ Complete(replyC', g, f + 1)
      BY <1>nat, <1>types, <2>1, <2>2, <2>6, <3>1, <3>2, AppendStream
    <3>4. replyC' # <<>> /\ \A i \in DOMAIN replyC' : replyC'[i].type # "response"
      BY <2>1, <2>6, ReplySend
    <3>5. ~Succeeded'
      BY <3>4 DEF Succeeded
    <3>6. Got(g)'
      BY <1>nat, <2>1, <2>6, <3>4, GotKept
    <3>7. At(f + 1, g)'
      BY <1>nat, <2>1, <2>2, <2>4, <3>3, <3>5, <3>6 DEF At
    <3> QED BY <1>there, <1>nat, <2>4, <3>7
  <2> QED BY <2>5, <2>6
<1>8. ASSUME KeepResponse PROVE OrderInv'
  <2>1. /\ Head(writer).type = "response"
        /\ writer # <<>> /\ writer' = Tail(writer)
        /\ UNCHANGED <<emitted, replyC, replyClosed, over, received, cancelled>>
    BY <1>8 DEF KeepResponse
  <2>2. \A i \in DOMAIN writer : writer[i].type = "response" => i = Len(writer)
    BY DEF HandlerInv
  <2>3. Carries(writer', emitted, f, Len(emitted)) /\ Complete(writer', f, Len(emitted))
    BY <1>types, <1>nat, <2>1, <2>2, TailFacts
  <2>4. Succeeded' <=> Succeeded
    BY <2>1 DEF Succeeded, Ended
  <2>5. Got(g)'
    BY <1>nat, <2>1, GotKept
  <2>6. At(f, g)'
    BY <1>at, <2>1, <2>3, <2>4, <2>5 DEF At
  <2> QED BY <1>there, <2>6
<1>9. ASSUME LoopEnd PROVE OrderInv'
  <2>1. CASE exitResponse = <<>> \/ over \/ replyClosed
    BY <1>9, <2>1, <1>frame, <1>types DEF LoopEnd, SendReply, ReplyInv, PlainTypes
  <2>2. CASE exitResponse # <<>> /\ ~over /\ ~replyClosed
    <3> DEFINE m == Response(trailers, status)
    <3>1. exitResponse[1] = m /\ m \in Msg /\ m.type = "response"
      BY <2>2, <1>types, MsgFacts DEF HandlerInv, PlainTypes
    <3>2. /\ replyC' = Append(replyC, m) /\ writer = <<>> /\ replyC' # <<>>
          /\ UNCHANGED <<writer, emitted, over, received, cancelled>>
      BY <1>9, <2>2, <3>1, ReplySend DEF LoopEnd, SendReply
    <3> HIDE DEF m
    <3>3. f = Len(emitted)
      BY <1>nat, <1>types, <3>2 DEF Complete
    <3>4. \A i \in DOMAIN replyC : replyC[i].type # "response"
      BY <2>2 DEF ReplyInv
    <3>5. Carries(replyC', emitted, g, f) /\ Complete(replyC', g, f)
      BY <1>nat, <1>types, <2>2, <3>1, <3>2, <3>4, AppendResponse
    <3>6. Got(g)'
      BY <1>nat, <2>2, <3>2, GotKept
    <3>7. At(f, g)'
      BY <1>at, <3>2, <3>3, <3>5, <3>6 DEF At
    <3> QED BY <1>there, <3>7
  <2> QED BY <2>1, <2>2
<1>10. ASSUME LoopCtxDone PROVE OrderInv'
  BY <1>10, <1>frame DEF LoopCtxDone
<1>11. ASSUME ~cancelled, RecvStreamMsg PROVE OrderInv'
  <2> DEFINE m == Head(replyC)
  <2>1. /\ m \in Msg /\ m.type = "streamMsg" /\ m.n \in 0 .. MaxMsgs
        /\ replyC # <<>> /\ Receiving /\ replyC' = Tail(replyC)
        /\ received' = Append(received, Result("msg", m.n))
        /\ UNCHANGED <<writer, emitted, replyClosed, over, loop, cancelled>>
    BY <1>11, ReplyTail, MsgFacts DEF RecvStreamMsg, Receiving
  <2>2. /\ g + 1 <= f /\ m.n = emitted[g + 1]
        /\ Carries(replyC', emitted, g + 1, f)
        /\ ~over \/ Succeeded => Complete(replyC', g + 1, f)
    <3>1. \A i \in DOMAIN replyC : replyC[i].type = "response" => i = Len(replyC)
      BY DEF ReplyInv
    <3> QED BY <1>types, <1>nat, <2>1, <3>1, TailFacts
  <2> HIDE DEF m
  <2>3. replyClosed => replyC' # <<>>
    BY <2>1, ReplyTail DEF m
  <2>4. Succeeded' => Succeeded
    <3>1. \A i \in DOMAIN replyC' :
            i + 1 \in DOMAIN replyC /\ replyC'[i] = replyC[i + 1]
      BY <2>1, ReplyTail
    <3> QED BY <2>1, <2>3, <3>1 DEF Succeeded
  <2>5. Len(received) = g
    BY <1>nat, <1>11, <2>1 DEF Got
  <2>6. /\ Len(received') = g + 1 /\ DOMAIN received' = 1 .. g + 1
        /\ \A i \in 1 .. g : received'[i] = received[i]
        /\ received'[g + 1].kind = "msg" /\ received'[g + 1].n = m.n
    BY <2>1, <2>5, GotOne
  <2>7. \A i \in 1 .. g + 1 : received'[i].kind = "msg" /\ received'[i].n = emitted[i]
    <3>1. \A i \in 1 .. g : received[i].kind = "msg" /\ received[i].n = emitted[i]
      BY <1>nat DEF Got
    <3>2. \A i \in 1 .. g + 1 : i \in 1 .. g \/ i = g + 1
      BY <1>nat
    <3> QED BY <2>2, <2>6, <3>1, <3>2
  <2>8. Got(g + 1)'
    <3>1. \A i \in g + 1 + 1 .. Len(received') : FALSE
      BY <1>nat, <2>6
    <3>2. \A i \in DOMAIN received' : received'[i].kind = "msg"
      BY <2>6, <2>7
    <3> QED BY <1>nat, <2>1, <2>3, <2>6, <2>7, <3>1, <3>2 DEF Got
  <2>9. f \in 0 .. Len(emitted) /\ g + 1 \in 0 .. f /\ g + 1 \in Nat
    BY <1>nat, <1>types, <2>2
  <2>10. At(f, g + 1)'
    BY <1>nat, <2>1, <2>2, <2>4, <2>8, <2>9 DEF At
  <2> QED BY <1>there, <1>nat, <2>9, <2>10
<1>12. ASSUME ~cancelled, RecvResponse PROVE OrderInv'
  <2> DEFINE m == Head(replyC)
  <2>1. /\ m \in Msg /\ m.type = "response" /\ m = replyC[1] /\ 1 \in DOMAIN replyC
        /\ replyC # <<>> /\ Receiving /\ replyC' = Tail(replyC) /\ replyC' = <<>>
        /\ UNCHANGED <<writer, emitted, replyClosed, over, loop, cancelled>>
    BY <1>12, ReplyTail DEF RecvResponse, Receiving
  <2>2. m.n = 0 /\ replyClosed /\ ~Ended("EOF") /\ ~Ended("error")
    BY <2>1 DEF ReplyInv
  <2>3. PICK k \in {"msg", "error"} :
          /\ received' = Append(received, Result(k, 0))
          /\ k = "msg" => m.status = "ok"
    BY <1>12, <2>2 DEF RecvResponse
  <2>4. /\ Carries(replyC', emitted, g, f)
        /\ ~over \/ Succeeded => Complete(replyC', g, f)
    <3>1. \A i \in DOMAIN replyC : replyC[i].type = "response" => i = Len(replyC)
      BY DEF ReplyInv
    <3> QED BY <1>types, <1>nat, <2>1, <3>1, TailFacts
  <2> HIDE DEF m
  <2>5. \A x : Ended(x)' <=> Ended(x) \/ x = k
    BY <2>3, EndedFacts, ResultFacts
  <2>6. Succeeded' => Succeeded
    <3>1. k = "msg" => Succeeded
      BY <2>1, <2>3 DEF Succeeded
    <3>2. k = "error" => ~Succeeded'
      BY <2>1, <2>5 DEF Succeeded
    <3> QED BY <3>1, <3>2
  <2>7. Len(received) = g
    BY <1>nat, <1>12, <2>1 DEF Got
  <2>8. /\ Len(received') = g + 1 /\ DOMAIN received' = 1 .. g + 1
        /\ \A i \in 1 .. g : received'[i] = received[i]
        /\ received'[g + 1].kind = k /\ received'[g + 1].n = 0
    BY <2>3, <2>7, GotOne, ResultFacts
  <2>9. Got(g)'
    <3>1. \A i \in 1 .. g : received'[i].kind = "msg" /\ received'[i].n = emitted'[i]
      BY <1>nat, <2>1, <2>8 DEF Got
    <3>2. \A i \in g + 1 .. Len(received') : i = g + 1
      BY <1>nat, <2>8
    <3>3. k = "msg" => ~Ended("error")'
      BY <2>2, <2>5
    <3>4. \A i \in DOMAIN received' : received'[i].kind # "msg" => i = g + 1
      <4>1. \A i \in 1 .. g + 1 : i \in 1 .. g \/ i = g + 1
        BY <1>nat
      <4> QED BY <2>8, <3>1, <4>1
    <3>5. \A i \in DOMAIN received' : received'[i].kind # "EOF"
      BY <2>3, <2>8, <3>1, <3>4
    <3> QED BY <1>nat, <2>1, <2>2, <2>8, <3>1, <3>2, <3>3, <3>4, <3>5 DEF Got
  <2>10. At(f, g)'
    BY <1>at, <2>1, <2>4, <2>6, <2>9 DEF At
  <2> QED BY <1>there, <2>10
<1>13. ASSUME ~cancelled, RecvEOF PROVE OrderInv'
  <2>1. /\ replyC = <<>> /\ replyClosed
        /\ \A i \in DOMAIN received : received[i].kind = "msg"
        /\ received' = Append(received, Result("EOF", 0))
        /\ UNCHANGED <<writer, emitted, replyC, replyClosed, over, cancelled>>
    BY <1>13 DEF RecvEOF
  <2>2. \A x : Ended(x)' <=> Ended(x) \/ x = "EOF"
    BY <2>1, EndedFacts, ResultFacts
  <2>3. Succeeded' <=> Succeeded
    BY <2>1, <2>2 DEF Succeeded
  <2>4. Len(received) = g + 1
    <3>1. Len(received) > g /\ DOMAIN received = 1 .. Len(received)
      BY <1>nat, <1>types, <1>13, <2>1, SeqFacts DEF Got
    <3>2. Len(received) \in g + 1 .. Len(received) /\ Len(received) \in DOMAIN received
      BY <1>nat, <1>types, <3>1
    <3> QED BY <1>nat, <2>1, <3>2 DEF Got
  <2>5. /\ Len(received') = g + 2 /\ DOMAIN received' = 1 .. g + 2
        /\ DOMAIN received = 1 .. g + 1
        /\ \A i \in 1 .. g + 1 : received'[i] = received[i]
        /\ received'[g + 2].kind = "EOF"
    <3>1. /\ Len(received') = g + 1 + 1 /\ DOMAIN received' = 1 .. g + 1 + 1
          /\ DOMAIN received = 1 .. g + 1
          /\ \A i \in 1 .. g + 1 : received'[i] = received[i]
          /\ received'[g + 1 + 1].kind = "EOF"
      BY <2>1, <2>4, GotOne, ResultFacts
    <3>2. g + 1 + 1 = g + 2
      BY <1>nat
    <3> QED BY <3>1, <3>2
  <2>6. \A i \in 1 .. g + 2 : i \in 1 .. g + 1 \/ i = g + 2
    BY <1>nat
  <2>7. Got(g)'
    <3>1. \A i \in 1 .. g : received'[i].kind = "msg" /\ received'[i].n = emitted'[i]
      <4>1. \A i \in 1 .. g : received[i].kind = "msg" /\ received[i].n = emitted[i]
        BY <1>nat DEF Got
      <4>2. \A i \in 1 .. g : received'[i] = received[i]
        BY <1>nat, <2>5
      <4>3. emitted' = emitted
        BY <2>1
      <4> QED BY <4>1, <4>2, <4>3
    <3>2. \A i \in g + 1 .. Len(received') : received'[i].kind = "msg" =>
            i = g + 1 /\ received'[i].n = 0 /\ ~Ended("error")'
      <4>1. \A i \in g + 1 .. g + 2 : i = g + 1 \/ i = g + 2
        BY <1>nat
      <4>2. received'[g + 1] = received[g + 1] /\ g + 1 \in g + 1 .. Len(received)
        BY <1>nat, <2>4, <2>5
      <4>3. received[g + 1].kind = "msg" => received[g + 1].n = 0 /\ ~Ended("error")
        BY <1>nat, <4>2 DEF Got
      <4> QED BY <2>2, <2>5, <4>1, <4>2, <4>3
    <3>3. \A i \in DOMAIN received' : received'[i].kind # "msg" => i = g + 2
      BY <2>1, <2>5, <2>6
    <3>4. \A i \in DOMAIN received' : received'[i].kind = "EOF" => i = g + 2
      BY <3>3
    <3>5. Len(received') > g /\ g <= Len(received')
      BY <1>nat, <2>5
    <3> QED BY <2>1, <2>5, <3>1, <3>2, <3>3, <3>4, <3>5 DEF Got
  <2>8. At(f, g)'
    BY <1>at, <2>1, <2>3, <2>7 DEF At
  <2> QED BY <1>there, <2>8
<1>14. ASSUME Header PROVE OrderInv'
  BY <1>14, <1>frame DEF Header
<1>15. ASSUME RecvCtxDone PROVE OrderInv'
  <2>1. /\ \A i \in DOMAIN received : received[i].kind = "msg"
        /\ received' = Append(received, Result("ctx", 0)) /\ cancelled'
        /\ UNCHANGED <<writer, emitted, replyC, replyClosed, over>>
    BY <1>15 DEF RecvCtxDone
  <2>2. \A x : Ended(x)' <=> Ended(x) \/ x = "ctx"
    BY <2>1, EndedFacts, ResultFacts
  <2>3. Succeeded' <=> Succeeded
    BY <2>1, <2>2 DEF Succeeded
  <2> DEFINE r == Len(received)
  <2>4. /\ Len(received') = r + 1 /\ DOMAIN received' = 1 .. r + 1
        /\ DOMAIN received = 1 .. r /\ r \in Nat /\ g <= r
        /\ \A i \in 1 .. r : received'[i] = received[i]
        /\ received'[r + 1].kind = "ctx"
    BY <1>nat, <2>1, GotOne, ResultFacts DEF Got
  <2>5. Got(g)'
    <3>0. \A i \in 1 .. g : i \in 1 .. r /\ received'[i] = received[i]
      BY <1>nat, <2>4
    <3>1. \A i \in 1 .. g : received'[i].kind = "msg" /\ received'[i].n = emitted'[i]
      <4>1. \A i \in 1 .. g : received[i].kind = "msg" /\ received[i].n = emitted[i]
        BY <1>nat DEF Got
      <4>2. emitted' = emitted
        BY <2>1
      <4> QED BY <3>0, <4>1, <4>2
    <3>2. \A i \in g + 1 .. Len(received') : received'[i].kind = "msg" =>
            /\ i = g + 1 /\ received'[i].n = 0
            /\ replyC' = <<>> /\ replyClosed' /\ ~Ended("error")'
      <4> SUFFICES ASSUME NEW i \in g + 1 .. Len(received'), received'[i].kind = "msg"
                   PROVE  /\ i = g + 1 /\ received'[i].n = 0
                          /\ replyC' = <<>> /\ replyClosed' /\ ~Ended("error")'
        OBVIOUS
      <4>1. i # r + 1
        BY <2>4
      <4>2. i \in g + 1 .. r /\ received'[i] = received[i]
        BY <1>nat, <2>4, <4>1
      <4>3. /\ i = g + 1 /\ received[i].n = 0
            /\ replyC = <<>> /\ replyClosed /\ ~Ended("error")
        BY <1>nat, <4>2 DEF Got
      <4> QED BY <2>1, <2>2, <4>2, <4>3
    <3>3. \A i \in DOMAIN received' : received'[i].kind # "msg" => i = r + 1
      <4>1. \A i \in 1 .. r + 1 : i \in 1 .. r \/ i = r + 1
        BY <2>4
      <4> QED BY <2>1, <2>4, <4>1
    <3>4. \A i \in DOMAIN received' : received'[i].kind # "EOF"
      BY <2>4, <3>3
    <3>5. g <= Len(received')
      BY <1>nat, <2>4
    <3> QED BY <2>1, <2>4, <3>1, <3>2, <3>3, <3>4, <3>5 DEF Got
  <2>6. At(f, g)'
    BY <1>at, <2>1, <2>3, <2>5 DEF At
  <2> QED BY <1>there, <2>6
<1>16. ASSUME StreamOver PROVE OrderInv'
  <2>1. /\ ~over /\ over' /\ replyClosed'
        /\ UNCHANGED <<writer, emitted, received, cancelled>>
    BY <1>16 DEF StreamOver
  <2>2. PICK k \in 0 .. Len(replyC) :
          replyC' = IF replyClosed /\ k = Len(replyC)
                      THEN SubSeq(replyC, 1, k)
                      ELSE Append(SubSeq(replyC, 1, k), Response({}, "error"))
    BY <1>16 DEF StreamOver
  <2>3. CASE replyClosed /\ k = Len(replyC)
    <3>1. replyC' = replyC
      BY <2>2, <2>3, <1>types, SeqFacts
    <3>2. Succeeded' <=> Succeeded
      BY <2>1, <2>3, <3>1 DEF Succeeded, Ended
    <3>3. Got(g)'
      BY <1>nat, <2>1, <2>3, <3>1, GotKept
    <3>4. At(f, g)'
      BY <1>at, <2>1, <3>1, <3>2, <3>3 DEF At
    <3> QED BY <1>there, <3>4
  <2>4. CASE ~(replyClosed /\ k = Len(replyC))
    <3> DEFINE m == Response({}, "error")
    <3> DEFINE q == SubSeq(replyC, 1, k)
    <3>1. m \in Msg /\ m.type = "response"
      BY MsgFacts
    <3>2. q \in Seq(Msg) /\ Carries(q, emitted, g, f)
      BY <1>types, <1>nat, SeqFacts, PrefixFacts
    <3>3. replyC' = Append(q, m)
      BY <2>2, <2>4
    <3>4. \A i \in DOMAIN q : q[i].type # "response"
      <4> SUFFICES ASSUME NEW i \in DOMAIN q PROVE q[i].type # "response"
        OBVIOUS
      <4>1. /\ i \in 1 .. k /\ q[i] = replyC[i] /\ i \in DOMAIN replyC
            /\ Len(replyC) \in Nat
        BY <1>types, <3>2, SeqFacts
      <4>2. replyC[i].type = "response" => i = Len(replyC) /\ replyClosed
        BY <4>1 DEF ReplyInv
      <4> HIDE DEF q
      <4> QED BY <2>4, <4>1, <4>2
    <3>5. ~Succeeded' /\ replyC' # <<>>
      BY <2>4, <3>3, OverFacts
    <3> HIDE DEF m, q
    <3>6. Carries(replyC', emitted, g, f)
      BY <1>nat, <3>1, <3>2, <3>3, <3>4, AppendResponse
    <3>7. ~(replyC = <<>> /\ replyClosed)
      <4>1. replyC = <<>> => Len(replyC) = 0
        OBVIOUS
      <4> QED BY <2>4, <4>1
    <3>8. Got(g)'
      BY <1>nat, <2>1, <3>5, <3>7, GotKept
    <3>9. At(f, g)'
      BY <1>at, <2>1, <3>5, <3>6, <3>8 DEF At
    <3> QED BY <1>there, <3>9
  <2> QED BY <2>3, <2>4
<1>17. CASE UNCHANGED vars
  BY <1>17, <1>frame DEF vars
<1> QED BY <1>1, <1>2, <1>3, <1>4, <1>5, <1>6, <1>7, <1>8, <1>9, <1>10,
          <1>11, <1>12, <1>13, <1>14, <1>15, <1>16, <1>17
        DEF Next, HandlerStep, Loop, Recv

\* Before the first step nothing was sent or received.
LEMMA InitInv == Init => Inv
<1> SUFFICES ASSUME Init PROVE Inv
  OBVIOUS
<1>1. /\ MaxMsgs \in Nat /\ WriterCap \in Nat /\ ReplyCap \in Nat
      /\ {} \in Metadata
  BY NestedAssumption, MsgFacts DEF NestedAssumption
<1>2. TypeOK
  <2>1. PlainTypes
    <3>1. /\ {wroteHeaders, writerClosed, replyClosed} \subseteq BOOLEAN
          /\ {over, cancelled, wroteOnce} \subseteq BOOLEAN
          /\ finished \in {<<>>, <<"nil">>, <<"error">>}
      BY DEF Init
    <3>2. 0 \in 0 .. MaxMsgs
      BY <1>1
    <3> QED BY <1>1, <3>1, <3>2 DEF Init, PlainTypes
  <2>2. WriterType /\ ReplyType /\ OtherTypes
    BY <1>1 DEF Init, WriterType, ReplyType, OtherTypes
  <2> QED BY <2>1, <2>2, TypeParts
<1>3. HandlerInv
  BY DEF Init, HandlerInv
<1>4. ~Ended("EOF") /\ ~Ended("error") /\ ~Succeeded
  BY DEF Init, Ended, Succeeded
<1>5. ReplyInv
  BY <1>4 DEF Init, ReplyInv
<1>6. emitted = <<>> /\ writer = <<>> /\ replyC = <<>> /\ received = <<>>
  BY DEF Init
<1>7. At(0, 0)
  <2>1. Got(0)
    BY <1>6 DEF Init, Got
  <2>2. \A a, b : Carries(<<>>, emitted, a, b)
    BY DEF Carries
  <2>3. Complete(<<>>, 0, 0)
    BY DEF Complete
  <2> QED BY <1>4, <1>6, <2>1, <2>2, <2>3 DEF At
<1>8. OrderInv
  BY <1>7 DEF OrderInv
<1> QED BY <1>2, <1>3, <1>5, <1>8 DEF Inv

\* The invariant holds in every reachable state.
LEMMA Invariance == Spec => []Inv
<1>1. Inv /\ [Next]_vars => Inv'
  BY TypeStep, HandlerStepInv, ReplyStepInv, OrderStep DEF Inv
<1> QED BY InitInv, <1>1, PTL DEF Spec

-------------------------------------------------------------------------------
\* stream.go:424 and stream_wrapper.go: the channels of the RPC never hold more
\* than their capacity, and an RPC in them keeps its type.
THEOREM TypeCorrect == Spec => []TypeOK
<1>1. Inv => TypeOK
  BY DEF Inv
<1> QED BY <1>1, Invariance, PTL

\* Whenever the stream is torn down and whatever the handler does, RecvMsg
\* returns the messages the handler's stream wrote, in order, without loss or
\* repetition, and with no message put in but the empty one of the final
\* response, directly before io.EOF; io.EOF only after the last message of a
\* handler that returned with success.
THEOREM StreamArrivesIntact == Spec => []StreamIntact
<1>1. ASSUME Inv PROVE StreamIntact
  <2>1. /\ received \in Seq(Results) /\ emitted \in Seq(0 .. MaxMsgs)
        /\ ReplyInv /\ OrderInv
    BY <1>1, TypeParts DEF Inv, OtherTypes, WriterType
  <2>2. PICK f, g \in Nat : At(f, g)
    BY <2>1 DEF OrderInv
  <2>3. /\ Len(emitted) \in Nat /\ DOMAIN received = 1 .. Len(received)
        /\ Len(received) \in Nat
    BY <2>1, SeqFacts
  <2>4. g <= f /\ f <= Len(emitted) /\ Got(g)
    BY <2>2, <2>3 DEF At
  <2>5. ASSUME replyC = <<>>, replyClosed, ~Ended("error")
        PROVE  g = Len(emitted) /\ status = "ok"
    <3>1. Succeeded
      BY <2>5 DEF Succeeded
    <3>2. Complete(<<>>, g, f) /\ f = Len(emitted)
      BY <2>2, <2>5, <3>1 DEF At
    <3>3. g = f
      BY <2>4, <3>2 DEF Complete
    <3> QED BY <2>1, <3>1, <3>2, <3>3 DEF ReplyInv
  <2> SUFFICES ASSUME NEW i \in DOMAIN received
               PROVE  /\ received[i].kind = "msg" =>
                           \/ i <= Len(emitted) /\ received[i].n = emitted[i]
                           \/ /\ i = Len(emitted) + 1 /\ received[i].n = 0
                              /\ status = "ok"
                      /\ received[i].kind = "EOF" =>
                           i = Len(emitted) + 2 /\ status = "ok"
                      /\ received[i].kind # "msg" => i = Len(received)
    BY DEF StreamIntact
  <2>6. CASE i \in 1 .. g
    <3>1. received[i].kind = "msg" /\ received[i].n = emitted[i]
      BY <2>4, <2>6 DEF Got
    <3>2. i <= Len(emitted)
      BY <2>2, <2>3, <2>4, <2>6
    <3> QED BY <3>1, <3>2
  <2>7. CASE i \in g + 1 .. Len(received)
    <3>1. ASSUME received[i].kind = "msg"
          PROVE  i = Len(emitted) + 1 /\ received[i].n = 0 /\ status = "ok"
      <4>1. /\ i = g + 1 /\ received[i].n = 0
            /\ replyC = <<>> /\ replyClosed /\ ~Ended("error")
        BY <2>4, <2>7, <3>1 DEF Got
      <4> QED BY <2>5, <4>1
    <3>2. ASSUME received[i].kind = "EOF"
          PROVE  i = Len(emitted) + 2 /\ status = "ok"
      <4>1. Ended("EOF") /\ i = g + 2
        BY <2>4, <3>2 DEF Ended, Got
      <4>2. replyC = <<>> /\ replyClosed /\ ~Ended("error")
        BY <2>1, <4>1 DEF ReplyInv
      <4> QED BY <2>5, <4>1, <4>2
    <3>3. received[i].kind # "msg" => i = Len(received)
      BY <2>4 DEF Got
    <3> QED BY <3>1, <3>2, <3>3
  <2>8. i \in 1 .. g \/ i \in g + 1 .. Len(received)
    BY <2>3, <2>4
  <2> QED BY <2>6, <2>7, <2>8
<1> QED BY <1>1, Invariance, PTL

\* stream_wrapper.go: after io.EOF, Trailer returns what the handler set.
THEOREM TrailersReachCaller == Spec => []TrailersArrive
<1>1. ASSUME Inv PROVE TrailersArrive
  <2> SUFFICES ASSUME Ended("EOF") PROVE trailer = trailers
    BY DEF TrailersArrive
  <2>1. ReplyInv
    BY <1>1 DEF Inv
  <2>2. replyC = <<>> /\ Succeeded
    BY <2>1 DEF ReplyInv, Succeeded
  <2> QED BY <2>1, <2>2 DEF ReplyInv
<1> QED BY <1>1, Invariance, PTL
===============================================================================
