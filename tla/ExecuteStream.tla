---------------------------- MODULE ExecuteStream ----------------------------
(***************************************************************************)
(* One executor.execute_stream call: the handler the host calls, the host  *)
(* HTTP stream it opens, and, when the host supplied a bridge stream id,   *)
(* the goroutine that keeps pumping events after the handler has returned. *)
(* Handler and goroutine interleave; the host and the upstream answer each *)
(* call with any outcome their contract allows.                            *)
(*                                                                         *)
(* The upstream answer is a sequence of pieces: SSE events when the stream *)
(* starts with a 2xx status, body bytes otherwise.  How bytes become       *)
(* events is the business of SseFraming; here a read completes some events *)
(* and may leave the last one without its closing blank line.              *)
(***************************************************************************)
EXTENDS Naturals, Sequences

CONSTANTS Pieces,     \* what a piece can be
          Source,     \* the pieces of the upstream answer, in order
          MaxRead,    \* how many pieces one host read may carry
          BodyLimit   \* maxUpstreamErrorBodyBytes

ASSUME StreamAssumption == /\ Source \in Seq(Pieces)
                           /\ MaxRead \in Nat \ {0}
                           /\ BodyLimit \in Nat

VARIABLES
  mode,         \* "bridge" when the request carries a bridge stream id
  hpc,          \* where the handler stands
  reply,        \* the envelope the handler returned
  body,         \* pieces gathered by the handler (drain or batch)
  ppc,          \* where the pump goroutine stands
  failure,      \* why the reading loop stopped early
  upstream,     \* the host HTTP stream: none, open, orphan, closed
  upCloses,     \* host.http.stream_close calls
  pos,          \* pieces the host has handed out
  feed,         \* "more", "done" once the host said so, "flushed" after sse.flush()
  parsed,       \* events the SSE parser has completed
  batch,        \* completed events not yet emitted
  delivered,    \* events the bridge accepted
  bridgeCloses, \* host.stream.close calls
  bridgeError,  \* the error text of the first of them, "clean" when it is empty
  usage         \* usage records: how many pieces each was computed from

upstreamVars == <<upstream, upCloses, pos, feed>>
handlerVars  == <<mode, hpc, reply, body>>
pumpVars     == <<ppc, failure, parsed, batch>>
bridgeVars   == <<delivered, bridgeCloses, bridgeError>>
vars == <<mode, hpc, reply, body, ppc, failure, upstream, upCloses, pos, feed,
          parsed, batch, delivered, bridgeCloses, bridgeError, usage>>

HandlerPCs == {"start", "answer", "drain", "drained", "collect", "collected", "done"}
PumpPCs    == {"none", "read", "emit", "record", "close", "closeUpstream",
               "closeBridge", "recover", "end"}
Replies    == {"none", "rejected", "unavailable", "upstream_error",
               "stream_failed", "chunks", "streaming"}
Failures   == {"none", "read", "emit", "panic"}
Errors     == {"clean", "read", "emit", "panic"}

TypeOK ==
  /\ mode \in {"bridge", "batch"} /\ feed \in {"more", "done", "flushed"}
  /\ hpc \in HandlerPCs /\ ppc \in PumpPCs
  /\ reply \in Replies /\ failure \in Failures /\ bridgeError \in Errors
  /\ upstream \in {"none", "open", "orphan", "closed"}
  /\ upCloses \in Nat /\ bridgeCloses \in Nat
  /\ pos \in 0..Len(Source) /\ parsed \in 0..pos
  /\ body \in Seq(Pieces)
  /\ batch \in Seq(Pieces)
  /\ delivered \in Seq(Pieces)
  /\ usage \in Seq(Nat)

Init ==
  /\ mode \in {"bridge", "batch"}
  /\ hpc = "start" /\ reply = "none" /\ body = <<>>
  /\ ppc = "none" /\ failure = "none"
  /\ upstream = "none" /\ upCloses = 0 /\ pos = 0 /\ feed = "more"
  /\ parsed = 0 /\ batch = <<>>
  /\ delivered = <<>> /\ bridgeCloses = 0 /\ bridgeError = "clean"
  /\ usage = <<>>

-----------------------------------------------------------------------------
(* The host's side of a read: the next pieces of the answer, perhaps none, *)
(* and perhaps the done flag once nothing is left.                         *)

\* host.http.stream_read hands out the next k pieces
HostRead(k) ==
  /\ pos + k <= Len(Source)
  /\ pos' = pos + k
  /\ feed' = "more" \/ (feed' = "done" /\ pos' = Len(Source))
  /\ UNCHANGED <<upstream, upCloses>>

\* host.http.stream_close
CloseUpstream ==
  /\ upstream' = "closed"
  /\ upCloses' = upCloses + 1
  /\ UNCHANGED <<pos, feed>>

\* recordUsageFromExecutorResponse over everything read so far
RecordUsage == usage' = Append(usage, pos)

-----------------------------------------------------------------------------
(* The handler, up to the moment the upstream stream is known.             *)

\* The request does not parse, no provider is mirrored, or the provider has
\* no base URL or key: answered before anything is opened.
Reject ==
  /\ hpc = "start"
  /\ hpc' = "done" /\ reply' = "rejected"
  /\ UNCHANGED <<mode, body, usage>>
  /\ UNCHANGED <<pumpVars, upstreamVars, bridgeVars>>

\* host.http.do_stream fails, or its answer carries no usable stream id.  In
\* the second case whatever the host opened stays open: nothing names it.
OpenFails ==
  /\ hpc = "start"
  /\ upstream' \in {"none", "orphan"}
  /\ hpc' = "done" /\ reply' = "unavailable"
  /\ UNCHANGED <<mode, body, upCloses, pos, feed, usage>>
  /\ UNCHANGED <<pumpVars, bridgeVars>>

\* A non-2xx start is not an event stream: its body is drained by the handler.
OpenNonSuccess ==
  /\ hpc = "start"
  /\ upstream' = "open" /\ hpc' = "drain"
  /\ UNCHANGED <<mode, reply, body, upCloses, pos, feed, usage>>
  /\ UNCHANGED <<pumpVars, bridgeVars>>

\* A 2xx start with a bridge stream id launches the pump and answers; without
\* one the handler itself collects the whole answer.
OpenSuccess ==
  /\ hpc = "start"
  /\ upstream' = "open"
  /\ \/ mode = "bridge" /\ hpc' = "answer" /\ ppc' = "read"
     \/ mode = "batch" /\ hpc' = "collect" /\ UNCHANGED ppc
  /\ UNCHANGED <<mode, reply, body, upCloses, pos, feed, usage>>
  /\ UNCHANGED <<failure, parsed, batch, bridgeVars>>

\* The early return: by now the pump may already have emitted events.
Answer ==
  /\ hpc = "answer"
  /\ hpc' = "done" /\ reply' = "streaming"
  /\ UNCHANGED <<mode, body, usage>>
  /\ UNCHANGED <<pumpVars, upstreamVars, bridgeVars>>

-----------------------------------------------------------------------------
(* The handler on a non-2xx stream: drainHostHTTPStreamBodyWithReader.     *)


\* Mutation: the limit is looked at only after the payload was kept.
DrainRead_LimitAfter(k) ==
  /\ hpc = "drain"
  /\ HostRead(k)
  /\ body' = body \o SubSeq(Source, pos + 1, pos + k)
  /\ hpc' = IF feed' = "done" \/ Len(body') >= BodyLimit THEN "drained" ELSE "drain"
  /\ UNCHANGED <<mode, reply, usage, pumpVars, bridgeVars>>

DrainRead(k) ==
  LET payload   == SubSeq(Source, pos + 1, pos + k)
      remaining == BodyLimit - Len(body)
      taken     == IF k > remaining THEN remaining ELSE k
  IN  /\ hpc = "drain"
      /\ HostRead(k)
      /\ body' = body \o SubSeq(payload, 1, taken)
      /\ hpc' = IF feed' = "done" \/ k > remaining THEN "drained" ELSE "drain"
      /\ UNCHANGED <<mode, reply, usage, pumpVars, bridgeVars>>

DrainFails ==
  /\ hpc = "drain"
  /\ hpc' = "drained" /\ failure' = "read"
  /\ UNCHANGED <<mode, reply, body, ppc, parsed, batch>>
  /\ UNCHANGED <<upstreamVars, bridgeVars, usage>>

DrainClose ==
  /\ hpc = "drained"
  /\ CloseUpstream
  /\ hpc' = "done" /\ reply' = "upstream_error"
  /\ UNCHANGED <<mode, body, usage, pumpVars, bridgeVars>>

-----------------------------------------------------------------------------
(* The handler without a bridge stream id: executorStreamBatched.          *)

CollectRead(k) ==
  /\ hpc = "collect"
  /\ HostRead(k)
  /\ body' = body \o SubSeq(Source, pos + 1, pos + k)
  /\ IF feed' = "done" THEN hpc' = "collected" /\ usage' = Append(usage, pos')
               ELSE hpc' = "collect" /\ usage' = usage
  /\ UNCHANGED <<mode, reply, pumpVars, bridgeVars>>


\* Mutation: the error return does not run the deferred close.
CollectFails_NoClose ==
  /\ hpc = "collect"
  /\ hpc' = "done" /\ failure' = "read" /\ reply' = "stream_failed"
  /\ UNCHANGED <<mode, body, ppc, parsed, batch>>
  /\ UNCHANGED <<upstreamVars, bridgeVars, usage>>

\* A read that fails abandons the answer: no usage is recorded for it.
CollectFails ==
  /\ hpc = "collect"
  /\ hpc' = "collected" /\ failure' = "read"
  /\ UNCHANGED <<mode, reply, body, ppc, parsed, batch>>
  /\ UNCHANGED <<upstreamVars, bridgeVars, usage>>

\* The deferred stream_close runs before the host sees the answer.
CollectClose ==
  /\ hpc = "collected"
  /\ CloseUpstream
  /\ hpc' = "done"
  /\ reply' = IF failure = "none" THEN "chunks" ELSE "stream_failed"
  /\ UNCHANGED <<mode, body, usage, pumpVars, bridgeVars>>

-----------------------------------------------------------------------------
(* The pump goroutine: pumpExecutorStreamToBridge.                         *)


\* Mutation: no sync.Once around the host call.
CloseBridge_Unguarded(message) ==
  /\ bridgeCloses' = bridgeCloses + 1
  /\ bridgeError' = message
  /\ UNCHANGED delivered

\* The bridge is closed through closeOnce: only the first call reaches the
\* host, and the message of a later one is lost.
CloseBridge(message) ==
  IF bridgeCloses = 0
  THEN bridgeCloses' = 1 /\ bridgeError' = message /\ UNCHANGED delivered
  ELSE UNCHANGED bridgeVars

\* One read.  p is how many of the events read so far the parser completed:
\* all of them, or all but a last one whose blank line has not arrived.
PumpRead(k, p) ==
  /\ ppc = "read"
  /\ HostRead(k)
  /\ p \in parsed..pos' /\ p + 1 >= pos'
  /\ batch' = SubSeq(Source, parsed + 1, p)
  /\ parsed' = p
  /\ ppc' = "emit"
  /\ UNCHANGED <<handlerVars, failure, bridgeVars, usage>>


\* Mutation: the error branch closes the bridge but does not return.
PumpReadFails_NoReturn ==
  /\ ppc = "read"
  /\ CloseBridge("read")
  /\ UNCHANGED <<handlerVars, pumpVars, upstreamVars, usage>>

\* The host call fails, cannot be decoded, or reports an upstream error.
PumpReadFails ==
  /\ ppc = "read"
  /\ failure' = "read" /\ ppc' = "record"
  /\ UNCHANGED <<handlerVars, parsed, batch>>
  /\ UNCHANGED <<upstreamVars, bridgeVars, usage>>

\* host.stream.emit of the next completed event
PumpEmit ==
  /\ ppc = "emit" /\ batch # <<>>
  /\ delivered' = Append(delivered, Head(batch))
  /\ batch' = Tail(batch)
  /\ UNCHANGED <<handlerVars, ppc, failure, parsed>>
  /\ UNCHANGED <<upstreamVars, bridgeCloses, bridgeError, usage>>


\* Mutation: a refused event is skipped and the pump carries on.
PumpEmitRefused_Skips ==
  /\ ppc = "emit" /\ batch # <<>>
  /\ batch' = Tail(batch)
  /\ UNCHANGED <<handlerVars, ppc, failure, parsed>>
  /\ UNCHANGED <<upstreamVars, bridgeVars, usage>>

\* The bridge refuses an event: the rest of the batch is abandoned.
PumpEmitRefused ==
  /\ ppc = "emit" /\ batch # <<>>
  /\ failure' = "emit" /\ ppc' = "record"
  /\ UNCHANGED <<handlerVars, parsed, batch>>
  /\ UNCHANGED <<upstreamVars, bridgeVars, usage>>

PumpReadOn ==
  /\ ppc = "emit" /\ batch = <<>> /\ feed = "more"
  /\ ppc' = "read"
  /\ UNCHANGED <<handlerVars, failure, parsed, batch>>
  /\ UNCHANGED <<upstreamVars, bridgeVars, usage>>


\* Mutation: the pump forgets to flush the parser.
PumpFlush_Missing ==
  /\ ppc = "emit" /\ batch = <<>> /\ feed = "done"
  /\ feed' = "flushed"
  /\ UNCHANGED <<handlerVars, ppc, failure, parsed, batch, upstream, upCloses, pos>>
  /\ UNCHANGED <<bridgeVars, usage>>

\* Mutation: the end of the stream is counted as one more event.
PumpFlush_OffByOne ==
  /\ ppc = "emit" /\ batch = <<>> /\ feed = "done"
  /\ feed' = "flushed"
  /\ batch' = SubSeq(Source, parsed + 1, pos)
  /\ parsed' = pos + 1
  /\ UNCHANGED <<handlerVars, ppc, failure, upstream, upCloses, pos>>
  /\ UNCHANGED <<bridgeVars, usage>>

\* sse.flush(): the event still waiting for its blank line is completed.
PumpFlush ==
  /\ ppc = "emit" /\ batch = <<>> /\ feed = "done"
  /\ feed' = "flushed"
  /\ batch' = SubSeq(Source, parsed + 1, pos)
  /\ parsed' = pos
  /\ UNCHANGED <<handlerVars, ppc, failure, upstream, upCloses, pos>>
  /\ UNCHANGED <<bridgeVars, usage>>


\* Mutation: a stream that ends well is closed without its usage record.
PumpFinish_NoRecord ==
  /\ ppc = "emit" /\ batch = <<>> /\ feed = "flushed"
  /\ ppc' = "close"
  /\ UNCHANGED <<handlerVars, failure, parsed, batch>>
  /\ UNCHANGED <<upstreamVars, bridgeVars, usage>>

PumpFinish ==
  /\ ppc = "emit" /\ batch = <<>> /\ feed = "flushed"
  /\ ppc' = "record"
  /\ UNCHANGED <<handlerVars, failure, parsed, batch>>
  /\ UNCHANGED <<upstreamVars, bridgeVars, usage>>

PumpRecord ==
  /\ ppc = "record"
  /\ RecordUsage
  /\ ppc' = "close"
  /\ UNCHANGED <<handlerVars, failure, parsed, batch>>
  /\ UNCHANGED <<upstreamVars, bridgeVars>>


\* Mutation: the failure is not passed on to the client.
PumpClose_NoMessage ==
  /\ ppc = "close"
  /\ CloseBridge("clean")
  /\ ppc' = "closeUpstream"
  /\ UNCHANGED <<handlerVars, failure, parsed, batch>>
  /\ UNCHANGED <<upstreamVars, usage>>

PumpClose ==
  /\ ppc = "close"
  /\ CloseBridge(IF failure = "none" THEN "clean" ELSE failure)
  /\ ppc' = "closeUpstream"
  /\ UNCHANGED <<handlerVars, failure, parsed, batch>>
  /\ UNCHANGED <<upstreamVars, usage>>

\* A panic in the plugin's own code between two host calls of the loop: the
\* deferred calls run in last-in first-out order, as on a normal return.
PumpPanic ==
  /\ ppc \in {"read", "emit"}
  /\ failure' = "panic"
  /\ ppc' = "closeUpstream"
  /\ UNCHANGED <<handlerVars, parsed, batch>>
  /\ UNCHANGED <<upstreamVars, bridgeVars, usage>>


\* Mutation: the host stream is never closed.
DeferCloseUpstream_Missing ==
  /\ ppc = "closeUpstream"
  /\ ppc' = "closeBridge"
  /\ UNCHANGED <<handlerVars, failure, parsed, batch>>
  /\ UNCHANGED <<upstreamVars, bridgeVars, usage>>

\* defer hostCall(MethodHostHTTPStreamClose)
DeferCloseUpstream ==
  /\ ppc = "closeUpstream"
  /\ CloseUpstream
  /\ ppc' = "closeBridge"
  /\ UNCHANGED <<handlerVars, failure, parsed, batch>>
  /\ UNCHANGED <<bridgeVars, usage>>

\* defer closeBridge("")
DeferCloseBridge ==
  /\ ppc = "closeBridge"
  /\ CloseBridge("clean")
  /\ ppc' = "recover"
  /\ UNCHANGED <<handlerVars, failure, parsed, batch>>
  /\ UNCHANGED <<upstreamVars, usage>>

\* The recovery handler was deferred first and so runs last.
DeferRecover ==
  /\ ppc = "recover"
  /\ IF failure = "panic" THEN RecordUsage /\ CloseBridge("panic")
                 ELSE UNCHANGED <<usage, bridgeVars>>
  /\ ppc' = "end"
  /\ UNCHANGED <<handlerVars, failure, parsed, batch>>
  /\ UNCHANGED upstreamVars

-----------------------------------------------------------------------------
HandlerStep ==
  \/ Reject \/ OpenFails \/ OpenNonSuccess \/ OpenSuccess \/ Answer
  \/ (\E k \in 0..MaxRead : DrainRead(k)) \/ DrainFails \/ DrainClose
  \/ (\E k \in 0..MaxRead : CollectRead(k)) \/ CollectFails \/ CollectClose

PumpLocal ==
  \/ PumpReadFails \/ PumpEmit \/ PumpEmitRefused \/ PumpReadOn \/ PumpFlush
  \/ PumpFinish \/ PumpRecord \/ PumpClose \/ PumpPanic
  \/ DeferCloseUpstream \/ DeferCloseBridge \/ DeferRecover

PumpStep ==
  \/ \E k \in 0..MaxRead : \E p \in parsed..(pos + k) : PumpRead(k, p)
  \/ PumpLocal

\* The call is over and so is its goroutine.
Finished == hpc = "done" /\ ppc \in {"none", "end"}

Terminating == Finished /\ UNCHANGED vars

Next == HandlerStep \/ PumpStep \/ Terminating

\* Handler and goroutine are scheduled by the Go runtime.  The upstream caps
\* every stream in time, so reads do not come back empty-handed for ever.
SomeProgress == pos' > pos \/ feed' = "done"
Fairness ==
  /\ WF_vars(HandlerStep)
  /\ WF_vars(PumpStep)
  /\ SF_vars(\E k \in 0..MaxRead : DrainRead(k) /\ SomeProgress)
  /\ SF_vars(\E k \in 0..MaxRead : CollectRead(k) /\ SomeProgress)
  /\ SF_vars(\E k \in 0..MaxRead : \E p \in parsed..(pos + k) :
               PumpRead(k, p) /\ SomeProgress)

SafetySpec == Init /\ [][Next]_vars
Spec == SafetySpec /\ Fairness

-----------------------------------------------------------------------------
(* Properties                                                              *)

\* However reads split the answer, and wherever reading, emitting or the
\* plugin itself fails, what the bridge accepted is an initial part of the
\* answer: no event is lost, repeated or overtaken (emitUpstreamEvents,
\* sse.feed, sse.flush).
OrderedDelivery ==
  /\ Len(delivered) <= parsed
  /\ delivered = SubSeq(Source, 1, Len(delivered))

\* closeOnce and the deferred calls together never emit into a bridge that
\* was closed, whichever of the five exits of the pump is taken.
NoEmitAfterClose == [][delivered' # delivered => bridgeCloses = 0]_vars

\* "closes the bridge exactly once" and the host stream exactly once, on the
\* normal, the failing and the panicking way out of handler and pump.
ClosedOnce ==
  /\ bridgeCloses <= 1 /\ upCloses <= 1
  /\ Finished /\ upstream # "none" /\ upstream # "orphan" => upCloses = 1
  /\ ppc = "end" => bridgeCloses = 1

\* The end the client is told of is the end that happened: without a panic, a
\* clean close means every event was delivered, and any other close names the
\* failure that stopped the pump.
HonestEnd ==
  bridgeCloses = 1 /\ failure # "panic" =>
    IF bridgeError = "clean" THEN delivered = Source ELSE bridgeError = failure

\* The accounting is settled before the client can see the end of the stream:
\* one usage record per stream, computed from at least what was delivered.
\* Only an abandoned batch has none.
UsageSettledAtEnd ==
  LET settled == \/ bridgeCloses = 1 /\ failure # "panic"
                 \/ ppc = "end"
                 \/ reply = "chunks"
  IN  /\ Len(usage) <= 1
      /\ settled => /\ Len(usage) = 1
                    /\ usage[1] >= Len(delivered) /\ usage[1] >= Len(body)
      /\ reply = "stream_failed" => usage = <<>>

\* drainHostHTTPStreamBody keeps an initial part of the upstream's error body,
\* never more than the limit, and all of it that fits unless a read failed.
ErrorBodyBounded ==
  reply = "upstream_error" =>
    /\ Len(body) <= BodyLimit
    /\ body = SubSeq(Source, 1, Len(body))
    /\ failure = "none" => Len(body) = BodyLimit \/ body = Source

\* A handler that answers with an upstream's body has released the host stream
\* before it answers and never touched the bridge; a complete batch is the
\* whole answer.
AnswerAfterRelease ==
  reply \in {"upstream_error", "stream_failed", "chunks"} =>
    /\ upCloses = 1 /\ ppc = "none" /\ bridgeCloses = 0 /\ delivered = <<>>
    /\ reply = "chunks" => body = Source

\* No call hangs and no stream is left open: the host gets an answer, the pump
\* ends, and both ends of a relayed stream are closed.
EveryStreamReleased ==
  /\ <>(reply # "none")
  /\ ppc # "none" ~> ppc = "end"
  /\ upstream = "open" ~> upstream = "closed"

\* The client of the bridge sees the stream StreamDelivery promises.
Delivery == INSTANCE StreamDelivery WITH
  received <- delivered,
  phase <- IF bridgeCloses > 0
           THEN IF bridgeError = "clean" /\ failure # "panic" THEN "complete" ELSE "broken"
           ELSE IF ppc = "none" THEN "idle" ELSE "flowing"

\* ExecuteStream implements StreamDelivery, fairness included.
ImplementsDelivery == Delivery!DeliverySpec

\* A pump that panicked tells the client so: the recovery handler closes the
\* bridge with "plugin stream panic" (pumpExecutorStreamToBridge).
PanicReported == failure = "panic" /\ ppc = "end" => bridgeError = "panic"
=============================================================================
