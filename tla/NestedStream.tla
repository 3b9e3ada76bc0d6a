----------------------------- MODULE NestedStream -----------------------------
(***************************************************************************)
(* One server-streaming RPC over a totem stream, end to end:               *)
(*   - the handler and its localServerStreamWrapper (stream_wrapper.go),   *)
(*     run by the goroutine of localServiceInvoker.InvokeStream            *)
(*     (invokers.go), which writes to the channel writer;                  *)
(*   - the loop of handleRequest (stream.go) that forwards what it reads   *)
(*     from that channel with StreamReply, Reply and ReplyErr;             *)
(*   - the caller's serverStreamClientWrapper (stream_wrapper.go).         *)
(* Between the last two, StreamController is a FIFO that ends with one     *)
(* response: the handler's, or an error if the stream is torn down first.  *)
(*                                                                         *)
(* A payload is its number, 0 for an empty one; metadata is a set of keys. *)
(***************************************************************************)
EXTENDS Naturals, Sequences

CONSTANTS
  MaxMsgs,      \* bound: messages the handler sends
  HeaderKeys,   \* keys the handler may set as headers
  TrailerKeys,  \* keys the handler may set as trailers
  WriterCap,    \* capacity of responseC (1 in the code)
  ReplyCap      \* messages between StreamReply and RecvMsg

ASSUME NestedAssumption ==
  /\ MaxMsgs \in Nat
  /\ WriterCap \in Nat \ {0}
  /\ ReplyCap \in Nat \ {0}

VARIABLES
  handler,       \* "running", "returned" (response not written) or "exited"
  status,        \* the status the handler returned with
  sent,          \* messages the handler has sent
  headers,       \* localServerStreamWrapper.headers
  wroteHeaders,  \* localServerStreamWrapper.wroteHeaders
  trailers,      \* localServerStreamWrapper.trailers
  writer,        \* content of responseC
  writerClosed,  \* responseC has been closed
  loop,          \* handleRequest: "forwarding" or "done"
  exitResponse,  \* handleRequest's exitResponse: a sequence of at most one
  replyC,        \* what was sent to the caller and not yet received by it
  replyClosed,   \* the response is in replyC or has been received
  over,          \* the totem stream and its context are finished
  cancelled,     \* the caller's context is done
  received,      \* what RecvMsg returned to the caller, in order
  headerC,       \* serverStreamClientWrapper.headerC
  wroteOnce,     \* writeHeadersOnce has run
  gotHeader,     \* what Header returned: a sequence of at most one
  trailer,       \* serverStreamClientWrapper.trailer
  finished,      \* what onFinish was called with, in order
  setHeaders,    \* history: every header key the handler set successfully
  emitted        \* history: the payloads the handler's stream wrote, in order

handlerVars == <<handler, status, sent, headers, wroteHeaders, trailers,
                 setHeaders, emitted>>
loopVars    == <<loop, exitResponse>>
clientVars  == <<cancelled, received, headerC, wroteOnce, gotHeader, trailer,
                 finished>>
vars == <<handlerVars, writer, writerClosed, loopVars, replyC, replyClosed,
          over, clientVars>>

Metadata == SUBSET (HeaderKeys \cup TrailerKeys)

(***************************************************************************)
(* An RPC in responseC or replyC: headers is ServerStreamMessage.headers,  *)
(* metadata is RPC.metadata.                                               *)
(***************************************************************************)
Msg == [type : {"streamMsg", "response"}, n : 0 .. MaxMsgs, headers : Metadata,
        metadata : Metadata, status : {"none", "ok", "error"}]

StreamMsg(n, md) ==
  [type |-> "streamMsg", n |-> n, headers |-> {}, metadata |-> md,
   status |-> "none"]

Response(md, s) ==
  [type |-> "response", n |-> 0, headers |-> {}, metadata |-> md, status |-> s]

Init ==
  /\ handler = "running" /\ status = "none" /\ sent = 0
  /\ headers = {} /\ wroteHeaders = FALSE /\ trailers = {}
  /\ setHeaders = {} /\ emitted = <<>>
  /\ writer = <<>> /\ writerClosed = FALSE
  /\ loop = "forwarding" /\ exitResponse = <<>>
  /\ replyC = <<>> /\ replyClosed = FALSE
  /\ over = FALSE /\ cancelled = FALSE
  /\ received = <<>> /\ headerC = <<>> /\ wroteOnce = FALSE
  /\ gotHeader = <<>> /\ trailer = {} /\ finished = <<>>

-------------------------------------------------------------------------------
(***************************************************************************)
(* The handler. closedWriter is only closed by Close, after the handler    *)
(* returned, so a send to writer has no way out but a free slot.           *)
(***************************************************************************)
Write(rpc) ==
  /\ Len(writer) < WriterCap
  /\ writer' = Append(writer, rpc)

\* md passed validateMetadata; an empty or invalid one changes nothing.
SetHeader(k) ==
  /\ handler = "running"
  /\ headers' = headers \cup {k}
  /\ setHeaders' = IF wroteHeaders THEN setHeaders ELSE setHeaders \cup {k}
  /\ UNCHANGED <<handler, status, sent, wroteHeaders, trailers, emitted, writer,
                 writerClosed, loopVars, replyC, replyClosed, over, clientVars>>

\* The headers travel in a ServerStreamMsg without content, which reaches the
\* caller as a message with an empty payload. A second call returns
\* ErrIllegalHeaderWrite, after SetHeader.
SendHeader(k) ==
  /\ handler = "running"
  /\ IF wroteHeaders
       THEN /\ headers' = headers \cup {k}
            /\ UNCHANGED <<wroteHeaders, setHeaders, emitted, writer>>
       ELSE /\ Write(StreamMsg(0, headers \cup {k}))
            /\ wroteHeaders' = TRUE
            /\ headers' = {}
            /\ setHeaders' = setHeaders \cup {k}
            /\ emitted' = Append(emitted, 0)
  /\ UNCHANGED <<handler, status, sent, trailers, writerClosed, loopVars,
                 replyC, replyClosed, over, clientVars>>

SendMsg ==
  /\ handler = "running"
  /\ sent < MaxMsgs
  /\ Write(StreamMsg(sent + 1, IF wroteHeaders THEN {} ELSE headers))
  /\ sent' = sent + 1
  /\ emitted' = Append(emitted, sent + 1)
  /\ wroteHeaders' = TRUE
  /\ headers' = IF wroteHeaders THEN headers ELSE {}
  /\ UNCHANGED <<handler, status, trailers, setHeaders, writerClosed, loopVars,
                 replyC, replyClosed, over, clientVars>>

SetTrailer(k) ==
  /\ handler = "running"
  /\ trailers' = trailers \cup {k}
  /\ UNCHANGED <<handler, status, sent, headers, wroteHeaders, setHeaders,
                 emitted, writer, writerClosed, loopVars, replyC, replyClosed,
                 over, clientVars>>

HandlerReturn(s) ==
  /\ handler = "running"
  /\ handler' = "returned"
  /\ status' = s
  /\ UNCHANGED <<sent, headers, wroteHeaders, trailers, setHeaders, emitted,
                 writer, writerClosed, loopVars, replyC, replyClosed, over,
                 clientVars>>

\* Mutants of WriteResponse: the trailers are left out; close(writer) is.
WriteNoTrailers ==
  /\ handler = "returned"
  /\ Write(Response({}, status))
  /\ handler' = "exited"
  /\ writerClosed' = TRUE
  /\ UNCHANGED <<status, sent, headers, wroteHeaders, trailers, setHeaders,
                 emitted, loopVars, replyC, replyClosed, over, clientVars>>

WriteNoClose ==
  /\ handler = "returned"
  /\ Write(Response(trailers, status))
  /\ handler' = "exited"
  /\ UNCHANGED <<status, sent, headers, wroteHeaders, trailers, setHeaders,
                 emitted, writerClosed, loopVars, replyC, replyClosed, over,
                 clientVars>>

\* InvokeStream: Close, writer <- response, and the deferred close(writer).
WriteResponse ==
  /\ handler = "returned"
  /\ Write(Response(trailers, status))
  /\ handler' = "exited"
  /\ writerClosed' = TRUE
  /\ UNCHANGED <<status, sent, headers, wroteHeaders, trailers, setHeaders,
                 emitted, loopVars, replyC, replyClosed, over, clientVars>>

-------------------------------------------------------------------------------
(***************************************************************************)
(* The loop of handleRequest. What is sent when the stream is over is lost. *)
(***************************************************************************)
\* Mutant of SendReply: a full stream drops the message.
SendReplyDrops(rpc) ==
  replyC' = IF over \/ replyClosed \/ Len(replyC) >= ReplyCap
              THEN replyC
              ELSE Append(replyC, rpc)

SendReply(rpc) ==
  IF over \/ replyClosed
    THEN UNCHANGED replyC
    ELSE /\ Len(replyC) < ReplyCap
         /\ replyC' = Append(replyC, rpc)

\* StreamReply(requestTag, response.GetServerStreamMsg()): an RPC of its own.
Forwarded(rpc) ==
  [type |-> "streamMsg", n |-> rpc.n, headers |-> rpc.headers, metadata |-> {},
   status |-> "none"]

ForwardStreamMsg ==
  /\ loop = "forwarding"
  /\ writer # <<>>
  /\ Head(writer).type = "streamMsg"
  /\ SendReply(Forwarded(Head(writer)))
  /\ writer' = Tail(writer)
  /\ UNCHANGED <<handlerVars, writerClosed, loopVars, replyClosed, over,
                 clientVars>>

KeepResponse ==
  /\ loop = "forwarding"
  /\ writer # <<>>
  /\ Head(writer).type = "response"
  /\ exitResponse' = <<Head(writer)>>
  /\ writer' = Tail(writer)
  /\ UNCHANGED <<handlerVars, writerClosed, loop, replyC, replyClosed, over,
                 clientVars>>

\* responseC is closed and drained: Reply or ReplyErr with the trailers.
LoopEnd ==
  /\ loop = "forwarding"
  /\ writer = <<>> /\ writerClosed
  /\ loop' = "done"
  /\ IF exitResponse = <<>>
       THEN UNCHANGED <<replyC, replyClosed>>
       ELSE /\ SendReply(exitResponse[1])
            /\ replyClosed' = (replyClosed \/ ~over)
  /\ UNCHANGED <<handlerVars, writer, writerClosed, exitResponse, over,
                 clientVars>>

\* case <-ctx.Done(): the context of the totem stream.
LoopCtxDone ==
  /\ loop = "forwarding"
  /\ over
  /\ loop' = "done"
  /\ UNCHANGED <<handlerVars, writer, writerClosed, exitResponse, replyC,
                 replyClosed, over, clientVars>>

-------------------------------------------------------------------------------
(***************************************************************************)
(* The caller: RecvMsg into a protobuf message, Header and Trailer.        *)
(***************************************************************************)
Result(kind, n) == [kind |-> kind, n |-> n]

Receiving == replyC # <<>>

\* finish runs its functions once.
Finish(e) == finished' = IF finished = <<>> THEN <<e>> ELSE finished

RecvStreamMsg ==
  LET msg == Head(replyC)
  IN  /\ Receiving
      /\ msg.type = "streamMsg"
      /\ headerC' = IF wroteOnce THEN headerC ELSE <<msg.headers>>
      /\ wroteOnce' = TRUE
      /\ received' = Append(received, Result("msg", msg.n))
      /\ replyC' = Tail(replyC)
      /\ UNCHANGED <<handlerVars, writer, writerClosed, loopVars, replyClosed,
                     over, cancelled, gotHeader, trailer, finished>>

\* The status decides; an OK response is unmarshalled into the message too.
RecvResponse ==
  LET msg == Head(replyC)
  IN  /\ Receiving
      /\ msg.type = "response"
      /\ IF msg.status = "ok"
           THEN /\ trailer' = msg.metadata
                /\ received' = Append(received, Result("msg", msg.n))
                /\ UNCHANGED finished
           ELSE /\ received' = Append(received, Result("error", 0))
                /\ Finish("error")
                /\ UNCHANGED trailer
      /\ replyC' = Tail(replyC)
      /\ UNCHANGED <<handlerVars, writer, writerClosed, loopVars, replyClosed,
                     over, cancelled, headerC, wroteOnce, gotHeader>>

\* The future is closed: io.EOF, until the caller has seen it.
RecvEOF ==
  /\ replyC = <<>> /\ replyClosed
  /\ \A i \in DOMAIN received : received[i].kind = "msg"
  /\ received' = Append(received, Result("EOF", 0))
  /\ Finish("nil")
  /\ UNCHANGED <<handlerVars, writer, writerClosed, loopVars, replyC,
                 replyClosed, over, cancelled, headerC, wroteOnce, gotHeader,
                 trailer>>

Header ==
  /\ headerC # <<>>
  /\ gotHeader' = headerC
  /\ headerC' = <<>>
  /\ UNCHANGED <<handlerVars, writer, writerClosed, loopVars, replyC,
                 replyClosed, over, cancelled, received, wroteOnce, trailer,
                 finished>>

\* RecvMsg returns ctx.Err(), without calling finish, and the caller stops
\* receiving.
RecvCtxDone ==
  /\ ~cancelled
  /\ \A i \in DOMAIN received : received[i].kind = "msg"
  /\ cancelled' = TRUE
  /\ received' = Append(received, Result("ctx", 0))
  /\ UNCHANGED <<handlerVars, writer, writerClosed, loopVars, replyC,
                 replyClosed, over, headerC, wroteOnce, gotHeader, trailer,
                 finished>>

-------------------------------------------------------------------------------
(***************************************************************************)
(* The totem stream ends. The caller's controller delivers what it had     *)
(* received and, if the response is not part of it, cancels the RPC with a *)
(* status that is never OK.                                                *)
(***************************************************************************)
StreamOver ==
  /\ ~over
  /\ over' = TRUE
  /\ \E k \in 0 .. Len(replyC) :
       LET kept == SubSeq(replyC, 1, k)
           done == replyClosed /\ k = Len(replyC)
       IN  replyC' = IF done THEN kept ELSE Append(kept, Response({}, "error"))
  /\ replyClosed' = TRUE
  /\ UNCHANGED <<handlerVars, writer, writerClosed, loopVars, clientVars>>

HandlerStep ==
  \/ \E k \in HeaderKeys : SetHeader(k) \/ SendHeader(k)
  \/ \E k \in TrailerKeys : SetTrailer(k)
  \/ SendMsg
  \/ \E s \in {"ok", "error"} : HandlerReturn(s)

Loop == ForwardStreamMsg \/ KeepResponse \/ LoopEnd \/ LoopCtxDone

Recv == ~cancelled /\ (RecvStreamMsg \/ RecvResponse \/ RecvEOF)

Next ==
  \/ HandlerStep \/ WriteResponse \/ Loop
  \/ Recv \/ Header \/ RecvCtxDone
  \/ StreamOver

Spec == Init /\ [][Next]_vars

(***************************************************************************)
(* The handler keeps going until it returns, and so do the goroutines. The *)
(* caller keeps receiving.                                                 *)
(***************************************************************************)
FairSpec ==
  /\ Spec
  /\ WF_vars(\E s \in {"ok", "error"} : HandlerReturn(s))
  /\ WF_vars(WriteResponse) /\ WF_vars(Loop) /\ WF_vars(Recv)

-------------------------------------------------------------------------------
\* Types, and the capacities of the two channels.
TypeOK ==
  /\ handler \in {"running", "returned", "exited"}
  /\ status \in {"none", "ok", "error"}
  /\ sent \in 0 .. MaxMsgs
  /\ headers \in SUBSET HeaderKeys /\ setHeaders \in SUBSET HeaderKeys
  /\ trailers \in SUBSET TrailerKeys /\ trailer \in Metadata
  /\ emitted \in Seq(0 .. MaxMsgs)
  /\ writer \in Seq(Msg) /\ Len(writer) <= WriterCap
  /\ replyC \in Seq(Msg) /\ Len(replyC) <= ReplyCap + IF over THEN 1 ELSE 0
  /\ loop \in {"forwarding", "done"}
  /\ exitResponse \in Seq(Msg) /\ Len(exitResponse) <= 1
  /\ received \in Seq([kind : {"msg", "error", "EOF", "ctx"}, n : 0 .. MaxMsgs])
  /\ headerC \in Seq(Metadata) /\ Len(headerC) <= 1
  /\ gotHeader \in Seq(Metadata) /\ Len(gotHeader) <= 1
  /\ finished \in {<<>>, <<"nil">>, <<"error">>}
  /\ {wroteHeaders, writerClosed, replyClosed} \subseteq BOOLEAN
  /\ {over, cancelled, wroteOnce} \subseteq BOOLEAN

Ended(kind) == \E i \in DOMAIN received : received[i].kind = kind

\* RecvMsg returns what the handler's stream wrote, each message in its turn, the
\* empty one of SendHeader included. After all of it, and only if the handler
\* returned with success, it returns one message nobody sent, the empty one it
\* unmarshals from the final response; io.EOF comes after that one, and nothing
\* after io.EOF or an error.
StreamIntact ==
  \A i \in DOMAIN received :
    /\ received[i].kind = "msg" =>
         \/ i <= Len(emitted) /\ received[i].n = emitted[i]
         \/ i = Len(emitted) + 1 /\ received[i].n = 0 /\ status = "ok"
    /\ received[i].kind = "EOF" => i = Len(emitted) + 2 /\ status = "ok"
    /\ received[i].kind # "msg" => i = Len(received)

\* After io.EOF the caller's Trailer is what the handler set.
TrailersArrive == Ended("EOF") => trailer = trailers

\* A stream that is not interrupted ends at the caller, whose onFinish is told
\* how, and the handler's goroutine is gone by then.
StreamEnds ==
  []~over /\ []~cancelled =>
    <>/\ handler = "exited"
      /\ \/ Ended("EOF") /\ finished = <<"nil">>
         \/ Ended("error") /\ finished = <<"error">>

\* stream_wrapper.go:126: the headers set before the first message "will be
\* sent when SendHeader is called or the first message is sent": what Header
\* returns to the caller is what the handler had set.
HeadersDelivered == gotHeader # <<>> => gotHeader[1] = setHeaders
===============================================================================
