------------------------- MODULE ExecuteStreamProofs -------------------------
(***************************************************************************)
(* Theorems about ExecuteStream, for every upstream answer, every way of   *)
(* splitting it into reads and every failure: type correctness, ordered    *)
(* delivery, closing once, honest ends, no emit after the close, the       *)
(* refinement of StreamDelivery, how much of an error body is kept, that a *)
(* batched answer is whole and given after the release of the host stream, *)
(* and that usage is settled before the client can see the end.            *)
(***************************************************************************)
EXTENDS ExecuteStream, SequenceTheorems, TLAPS

-----------------------------------------------------------------------------
(* The inductive invariant.                                                *)

\* Handler and pump: the goroutine exists only once the handler has opened a
\* stream for it, and before that nothing has been parsed, emitted or closed.
ControlInv ==
  /\ hpc = "start" => /\ ppc = "none" /\ failure = "none"
                      /\ upstream = "none" /\ pos = 0 /\ feed = "more"
  /\ ppc # "none" => hpc \in {"answer", "done"}
  /\ ppc = "none" => /\ parsed = 0 /\ delivered = <<>> /\ batch = <<>>
                     /\ bridgeCloses = 0 /\ feed # "flushed" /\ failure # "panic"

\* What is delivered and what waits to be emitted are adjacent stretches of
\* the answer; nothing waits while the pump reads.
BatchInv ==
  /\ Len(delivered) <= parsed
  /\ delivered = SubSeq(Source, 1, Len(delivered))
  /\ batch = SubSeq(Source, Len(delivered) + 1, parsed)
  /\ ppc = "read" => Len(delivered) = parsed

\* Reading is over only at the end of the answer, and flushing leaves nothing.
ReadInv ==
  /\ feed # "more" => pos = Len(Source)
  /\ feed = "flushed" => parsed = pos
  /\ ppc = "read" => feed = "more"

\* Where the pump stands tells whether it has failed and whether the bridge
\* is closed.
CloseInv ==
  /\ bridgeCloses \in {0, 1}
  /\ ppc \in {"read", "emit"} => failure = "none"
  /\ ppc \in {"read", "emit", "record", "close"} => bridgeCloses = 0 /\ failure # "panic"
  /\ ppc \in {"record", "close"} /\ failure = "none" => delivered = Source
  /\ ppc \in {"closeUpstream", "closeBridge"} /\ failure # "panic" => bridgeCloses = 1
  /\ ppc \in {"recover", "end"} => bridgeCloses = 1
  /\ HonestEnd

\* The host stream is closed by exactly one of the three closers.
UpstreamInv ==
  /\ upstream = "closed" <=> upCloses = 1
  /\ upstream \in {"none", "open", "orphan"} => upCloses = 0
  /\ hpc \in {"drain", "drained", "collect", "collected", "answer"}
       => upstream \in {"open", "closed"}
  /\ hpc \in {"drain", "drained", "collect", "collected"}
       => upstream = "open" /\ ppc = "none"
  /\ ppc \in {"read", "emit", "record", "close", "closeUpstream"} => upstream = "open"
  /\ ppc \in {"closeBridge", "recover", "end"} => upstream = "closed"
  /\ hpc = "answer" => ppc # "none"
  /\ hpc = "done" /\ ppc = "none" => upstream # "open"

IInv == TypeOK /\ ControlInv /\ BatchInv /\ ReadInv /\ CloseInv /\ UpstreamInv

-----------------------------------------------------------------------------
(* Stretches of the answer.                                                *)

\* A stretch of the answer is a sequence of pieces of the expected length.
LEMMA SliceType ==
  ASSUME NEW m \in Nat \ {0}, NEW n \in 0..Len(Source)
  PROVE  /\ SubSeq(Source, m, n) \in Seq(Pieces)
         /\ Len(SubSeq(Source, m, n)) = IF m <= n THEN n - m + 1 ELSE 0
<1>1. Source \in Seq(Pieces)
  BY StreamAssumption
<1>2. \A i \in m..n : Source[i] \in Pieces
  BY <1>1, ElementOfSeq
<1>3. QED
  BY <1>2, SubSeqProperties

\* The stretch from m to m - 1 is empty, and only such a stretch is.
LEMMA SliceEmpty ==
  ASSUME NEW m \in Nat \ {0}, NEW n \in 0..Len(Source)
  PROVE  (SubSeq(Source, m, n) = <<>>) <=> n < m
<1>1. Len(<<>>) = 0
  BY EmptySeq
<1>2. n < m => SubSeq(Source, m, n) = <<>>
  BY SubSeqEmpty
<1>3. m <= n => Len(SubSeq(Source, m, n)) # 0
  BY SliceType
<1>4. QED
  BY <1>1, <1>2, <1>3

\* Moving the first waiting event to what is delivered keeps the two
\* stretches adjacent: the step of PumpEmit.
LEMMA SliceMove ==
  ASSUME NEW d \in Nat, NEW p \in 0..Len(Source), d < p
  PROVE  /\ Append(SubSeq(Source, 1, d), Head(SubSeq(Source, d + 1, p)))
              = SubSeq(Source, 1, d + 1)
         /\ Tail(SubSeq(Source, d + 1, p)) = SubSeq(Source, d + 2, p)
<1>1. Source \in Seq(Pieces) /\ Len(Source) \in Nat
  BY StreamAssumption, LenProperties
<1>2. d + 1 \in 1..Len(Source) /\ p \in (d + 1)..Len(Source)
  BY <1>1
<1>3. /\ Head(SubSeq(Source, d + 1, p)) = Source[d + 1]
      /\ Tail(SubSeq(Source, d + 1, p)) = SubSeq(Source, (d + 1) + 1, p)
  BY <1>1, <1>2, HeadTailOfSubSeq
<1>4. SubSeq(Source, 1, d + 1) = SubSeq(Source, 1, (d + 1) - 1) \o <<Source[d + 1]>>
  BY <1>1, <1>2, SubSeqRecursiveSecond
<1>5. (d + 1) - 1 = d /\ (d + 1) + 1 = d + 2
  OBVIOUS
<1>6. SubSeq(Source, 1, d) \in Seq(Pieces) /\ Source[d + 1] \in Pieces
  BY <1>1, <1>2, SliceType, ElementOfSeq
<1>7. Append(SubSeq(Source, 1, d), Source[d + 1]) = SubSeq(Source, 1, d) \o <<Source[d + 1]>>
  BY <1>6, AppendIsConcat
<1>8. QED
  BY <1>3, <1>4, <1>5, <1>7

-----------------------------------------------------------------------------
(* The invariant is inductive.                                             *)

LEMMA InitIInv == Init => IInv
<1> SUFFICES ASSUME Init PROVE IInv
  OBVIOUS
<1>1. <<>> \in Seq(Pieces) /\ <<>> \in Seq(Nat) /\ Len(<<>>) = 0 /\ Len(Source) \in Nat
  BY EmptySeq, StreamAssumption, LenProperties
<1>2. TypeOK
  <2>1. mode \in {"bridge", "batch"} /\ feed \in {"more", "done", "flushed"}
    BY DEF Init
  <2>2. /\ hpc \in HandlerPCs /\ ppc \in PumpPCs
        /\ reply \in Replies /\ failure \in Failures /\ bridgeError \in Errors
        /\ upstream \in {"none", "open", "orphan", "closed"}
    BY DEF Init, HandlerPCs, PumpPCs, Replies, Failures, Errors
  <2>3. /\ upCloses \in Nat /\ bridgeCloses \in Nat
        /\ pos \in 0..Len(Source) /\ parsed \in 0..pos
    BY <1>1 DEF Init
  <2>4. /\ body \in Seq(Pieces) /\ batch \in Seq(Pieces)
        /\ delivered \in Seq(Pieces) /\ usage \in Seq(Nat)
    BY <1>1 DEF Init
  <2>5. QED
    BY <2>1, <2>2, <2>3, <2>4 DEF TypeOK
<1>3. ControlInv /\ ReadInv
  BY DEF Init, ControlInv, ReadInv
<1>4. CloseInv /\ UpstreamInv
  BY DEF Init, CloseInv, HonestEnd, UpstreamInv
<1>5. SubSeq(Source, 1, 0) = <<>>
  BY SubSeqEmpty
<1>6. BatchInv
  BY <1>1, <1>5 DEF Init, BatchInv
<1>7. QED
  BY <1>2, <1>3, <1>4, <1>6 DEF IInv

\* Every action keeps the types.
LEMMA TypeStep == IInv /\ [Next]_vars => TypeOK'
<1> SUFFICES ASSUME IInv, [Next]_vars PROVE TypeOK'
  OBVIOUS
<1> USE DEF handlerVars, pumpVars, upstreamVars, bridgeVars
<1> USE DEF HandlerPCs, PumpPCs, Replies, Failures, Errors
<1>a. TypeOK /\ ControlInv /\ BatchInv
  BY DEF IInv
<1>b. Len(Source) \in Nat /\ Source \in Seq(Pieces)
  BY StreamAssumption, LenProperties
<1>c. MaxRead \in Nat /\ BodyLimit \in Nat
  BY StreamAssumption
<1>d. \A m, n \in Nat : m > 0 /\ n <= Len(Source) => SubSeq(Source, m, n) \in Seq(Pieces)
  BY <1>b, SliceType
<1>1. CASE Reject \/ Answer
  BY <1>1, <1>a DEF TypeOK, Reject, Answer
<1>2. CASE OpenFails \/ OpenNonSuccess
  BY <1>2, <1>a DEF TypeOK, OpenFails, OpenNonSuccess
<1>3. CASE OpenSuccess
  BY <1>3, <1>a DEF TypeOK, OpenSuccess
<1>4. CASE DrainFails
  BY <1>4, <1>a DEF TypeOK, DrainFails
<1>5. CASE DrainClose
  BY <1>5, <1>a DEF TypeOK, DrainClose, CloseUpstream
<1>6. CASE CollectFails
  BY <1>6, <1>a DEF TypeOK, CollectFails
<1>7. CASE CollectClose
  BY <1>7, <1>a DEF TypeOK, CollectClose, CloseUpstream
<1>8. CASE PumpReadFails
  BY <1>8, <1>a, <1>b DEF TypeOK, PumpReadFails
<1>9. CASE PumpEmitRefused
  BY <1>9, <1>a, <1>b DEF TypeOK, PumpEmitRefused
<1>10. CASE PumpReadOn
  BY <1>10, <1>a, <1>b DEF TypeOK, PumpReadOn
<1>11. CASE PumpFinish
  BY <1>11, <1>a, <1>b DEF TypeOK, PumpFinish
<1>12. CASE PumpPanic
  BY <1>12, <1>a, <1>b DEF TypeOK, PumpPanic
<1>13. CASE PumpClose
  BY <1>13, <1>a, <1>b DEF TypeOK, PumpClose, CloseBridge
<1>14. CASE DeferCloseUpstream
  BY <1>14, <1>a, <1>b DEF TypeOK, DeferCloseUpstream, CloseUpstream
<1>15. CASE DeferCloseBridge
  BY <1>15, <1>a, <1>b DEF TypeOK, DeferCloseBridge, CloseBridge
<1>16. CASE PumpRecord
  BY <1>16, <1>a, <1>b DEF TypeOK, PumpRecord, RecordUsage
<1>17. CASE DeferRecover
  <2>1. pos \in Nat /\ usage \in Seq(Nat)
    BY <1>a, <1>b DEF TypeOK
  <2>2. Append(usage, pos) \in Seq(Nat)
    BY <2>1, AppendProperties
  <2>3. usage' \in Seq(Nat)
    BY <1>17, <2>1, <2>2 DEF DeferRecover, RecordUsage
  <2>4. bridgeCloses' \in Nat /\ bridgeError' \in Errors /\ delivered' \in Seq(Pieces)
    BY <1>17, <1>a DEF TypeOK, DeferRecover, CloseBridge, bridgeVars
  <2>5. QED
    BY <1>17, <1>a, <2>3, <2>4 DEF TypeOK, DeferRecover, handlerVars, upstreamVars
<1>18. ASSUME NEW k \in 0..MaxRead, HostRead(k) PROVE
         /\ pos + k \in 0..Len(Source) /\ pos' = pos + k
         /\ pos' \in 0..Len(Source) /\ parsed \in 0..pos'
         /\ feed' \in {"more", "done", "flushed"}
         /\ SubSeq(Source, pos + 1, pos + k) \in Seq(Pieces)
         /\ Len(SubSeq(Source, pos + 1, pos + k)) = k
  <2>1. /\ pos + k \in 0..Len(Source) /\ pos' = pos + k /\ parsed \in 0..pos'
        /\ pos + 1 \in Nat \ {0}
    BY <1>18, <1>a, <1>b, <1>c DEF TypeOK, HostRead
  <2>2. feed' \in {"more", "done", "flushed"}
    BY <1>18 DEF HostRead
  <2>3. /\ SubSeq(Source, pos + 1, pos + k) \in Seq(Pieces)
        /\ Len(SubSeq(Source, pos + 1, pos + k))
             = IF pos + 1 <= pos + k THEN (pos + k) - (pos + 1) + 1 ELSE 0
    BY <2>1, SliceType
  <2>4. QED
    BY <1>c, <1>a, <1>b, <2>1, <2>2, <2>3 DEF TypeOK
<1>19. ASSUME NEW k \in 0..MaxRead, DrainRead(k) PROVE TypeOK'
  <2> DEFINE payload == SubSeq(Source, pos + 1, pos + k)
             remaining == BodyLimit - Len(body)
             taken == IF k > remaining THEN remaining ELSE k
  <2>1. HostRead(k)
    BY <1>19 DEF DrainRead
  <2>2. payload \in Seq(Pieces) /\ Len(payload) = k
    BY <1>18, <2>1
  <2>3. body \in Seq(Pieces) /\ Len(body) \in Nat
    BY <1>a, LenProperties DEF TypeOK
  <2>4. taken \in Int /\ taken <= k
    BY <2>3, <1>c
  <2>5. \A i \in 1..taken : payload[i] \in Pieces
    BY <2>2, <2>4, ElementOfSeq
  <2> HIDE DEF payload, taken
  <2>6. SubSeq(payload, 1, taken) \in Seq(Pieces)
    BY <2>4, <2>5, SubSeqProperties
  <2>7. body' \in Seq(Pieces)
    BY <1>19, <2>3, <2>6, ConcatProperties DEF DrainRead, payload, taken
  <2>8. hpc' \in HandlerPCs
    BY <1>19 DEF DrainRead
  <2>9. QED
    BY <1>19, <1>a, <1>18, <2>1, <2>7, <2>8
    DEF TypeOK, DrainRead, HostRead, pumpVars, bridgeVars
<1>20. ASSUME NEW k \in 0..MaxRead, CollectRead(k) PROVE TypeOK'
  <2>1. HostRead(k)
    BY <1>20 DEF CollectRead
  <2>2. body' \in Seq(Pieces)
    BY <1>20, <1>a, <1>18, <2>1, ConcatProperties DEF CollectRead, TypeOK
  <2>3. pos' \in Nat /\ usage \in Seq(Nat)
    BY <1>18, <2>1, <1>a, <1>b DEF TypeOK
  <2>4. Append(usage, pos') \in Seq(Nat)
    BY <2>3, AppendProperties
  <2>5. hpc' \in HandlerPCs /\ usage' \in Seq(Nat)
    BY <1>20, <2>3, <2>4 DEF CollectRead
  <2>6. QED
    BY <1>20, <1>a, <1>18, <2>1, <2>2, <2>5
    DEF TypeOK, CollectRead, HostRead, pumpVars, bridgeVars
<1>21. ASSUME NEW k \in 0..MaxRead, NEW p \in parsed..(pos + k), PumpRead(k, p)
       PROVE  TypeOK'
  <2>1. HostRead(k)
    BY <1>21 DEF PumpRead
  <2>2. parsed \in Nat /\ p \in 0..pos' /\ p \in 0..Len(Source) /\ parsed + 1 \in Nat \ {0}
    BY <1>21, <1>18, <2>1, <1>a, <1>b DEF TypeOK, PumpRead
  <2>3. SubSeq(Source, parsed + 1, p) \in Seq(Pieces)
    BY <2>2, SliceType
  <2>4. QED
    BY <1>21, <1>a, <1>18, <2>1, <2>2, <2>3
    DEF TypeOK, PumpRead, HostRead, handlerVars, bridgeVars
<1>22. CASE PumpEmit
  <2>1. batch \in Seq(Pieces) /\ batch # <<>> /\ delivered \in Seq(Pieces)
    BY <1>22, <1>a DEF TypeOK, PumpEmit
  <2>2. Head(batch) \in Pieces /\ Tail(batch) \in Seq(Pieces)
    BY <2>1, HeadTailProperties
  <2>3. Append(delivered, Head(batch)) \in Seq(Pieces)
    BY <2>1, <2>2, AppendProperties
  <2>4. QED
    BY <1>22, <1>a, <2>2, <2>3 DEF TypeOK, PumpEmit, handlerVars, upstreamVars
<1>23. CASE PumpFlush
  <2>1. parsed + 1 \in Nat \ {0} /\ pos \in 0..Len(Source) /\ pos \in 0..pos
    BY <1>a, <1>b DEF TypeOK
  <2>2. SubSeq(Source, parsed + 1, pos) \in Seq(Pieces)
    BY <2>1, SliceType
  <2>3. QED
    BY <1>23, <1>a, <2>1, <2>2 DEF TypeOK, PumpFlush, handlerVars, bridgeVars
<1>24. CASE UNCHANGED vars
  BY <1>24, <1>a DEF TypeOK, vars
<1>25. QED
  BY <1>1, <1>2, <1>3, <1>4, <1>5, <1>6, <1>7, <1>8, <1>9, <1>10, <1>11, <1>12,
     <1>13, <1>14, <1>15, <1>16, <1>17, <1>19, <1>20, <1>21, <1>22, <1>23, <1>24
  DEF Next, HandlerStep, PumpStep, PumpLocal, Terminating

\* Handler and pump stay in step.
LEMMA ControlStep == IInv /\ [Next]_vars => ControlInv'
<1> SUFFICES ASSUME IInv, [Next]_vars PROVE ControlInv'
  OBVIOUS
<1> USE DEF handlerVars, pumpVars, upstreamVars, bridgeVars
<1>a. TypeOK /\ ControlInv /\ CloseInv
  BY DEF IInv
<1>b. Len(Source) \in Nat
  BY StreamAssumption, LenProperties
<1>1. CASE Reject
  BY <1>1, <1>a, <1>b DEF TypeOK, ControlInv, CloseInv, Reject
<1>2. CASE OpenFails
  BY <1>2, <1>a, <1>b DEF TypeOK, ControlInv, CloseInv, OpenFails
<1>3. CASE OpenNonSuccess
  BY <1>3, <1>a, <1>b DEF TypeOK, ControlInv, CloseInv, OpenNonSuccess
<1>4. CASE OpenSuccess
  BY <1>4, <1>a, <1>b DEF TypeOK, ControlInv, CloseInv, OpenSuccess
<1>5. CASE Answer
  BY <1>5, <1>a, <1>b DEF TypeOK, ControlInv, CloseInv, Answer
<1>6. CASE DrainFails
  BY <1>6, <1>a, <1>b DEF TypeOK, ControlInv, CloseInv, DrainFails
<1>7. CASE DrainClose
  BY <1>7, <1>a, <1>b DEF TypeOK, ControlInv, CloseInv, DrainClose, CloseUpstream
<1>8. CASE CollectFails
  BY <1>8, <1>a, <1>b DEF TypeOK, ControlInv, CloseInv, CollectFails
<1>9. CASE CollectClose
  BY <1>9, <1>a, <1>b DEF TypeOK, ControlInv, CloseInv, CollectClose, CloseUpstream
<1>10. CASE PumpReadFails
  BY <1>10, <1>a, <1>b DEF TypeOK, ControlInv, CloseInv, PumpReadFails
<1>11. CASE PumpEmit
  BY <1>11, <1>a, <1>b DEF TypeOK, ControlInv, CloseInv, PumpEmit
<1>12. CASE PumpEmitRefused
  BY <1>12, <1>a, <1>b DEF TypeOK, ControlInv, CloseInv, PumpEmitRefused
<1>13. CASE PumpReadOn
  BY <1>13, <1>a, <1>b DEF TypeOK, ControlInv, CloseInv, PumpReadOn
<1>14. CASE PumpFlush
  BY <1>14, <1>a, <1>b DEF TypeOK, ControlInv, CloseInv, PumpFlush
<1>15. CASE PumpFinish
  BY <1>15, <1>a, <1>b DEF TypeOK, ControlInv, CloseInv, PumpFinish
<1>16. CASE PumpRecord
  BY <1>16, <1>a, <1>b DEF TypeOK, ControlInv, CloseInv, PumpRecord, RecordUsage
<1>17. CASE PumpClose
  BY <1>17, <1>a, <1>b DEF TypeOK, ControlInv, CloseInv, PumpClose, CloseBridge
<1>18. CASE PumpPanic
  BY <1>18, <1>a, <1>b DEF TypeOK, ControlInv, CloseInv, PumpPanic
<1>19. CASE DeferCloseUpstream
  BY <1>19, <1>a, <1>b DEF TypeOK, ControlInv, CloseInv, DeferCloseUpstream, CloseUpstream
<1>20. CASE DeferCloseBridge
  BY <1>20, <1>a, <1>b DEF TypeOK, ControlInv, CloseInv, DeferCloseBridge, CloseBridge
<1>21. CASE DeferRecover
  BY <1>21, <1>a, <1>b DEF TypeOK, ControlInv, CloseInv, DeferRecover, RecordUsage, CloseBridge
<1>22. ASSUME NEW k \in 0..MaxRead, DrainRead(k)
       PROVE  ControlInv'
  BY <1>22, <1>a, <1>b DEF TypeOK, ControlInv, CloseInv, DrainRead, HostRead
<1>23. ASSUME NEW k \in 0..MaxRead, CollectRead(k)
       PROVE  ControlInv'
  BY <1>23, <1>a, <1>b DEF TypeOK, ControlInv, CloseInv, CollectRead, HostRead
<1>24. ASSUME NEW k \in 0..MaxRead, NEW p \in parsed..(pos + k), PumpRead(k, p)
       PROVE  ControlInv'
  BY <1>24, <1>a, <1>b DEF TypeOK, ControlInv, CloseInv, PumpRead, HostRead
<1>25. CASE UNCHANGED vars
  BY <1>25, <1>a DEF TypeOK, ControlInv, CloseInv, vars
<1>26. QED
  BY <1>1, <1>2, <1>3, <1>4, <1>5, <1>6, <1>7, <1>8, <1>9, <1>10, <1>11,
     <1>12, <1>13, <1>14, <1>15, <1>16, <1>17, <1>18, <1>19, <1>20, <1>21,
     <1>22, <1>23, <1>24, <1>25
  DEF Next, HandlerStep, PumpStep, PumpLocal, Terminating

\* Reading ends only with the answer.
LEMMA ReadStep == IInv /\ [Next]_vars => ReadInv'
<1> SUFFICES ASSUME IInv, [Next]_vars PROVE ReadInv'
  OBVIOUS
<1> USE DEF handlerVars, pumpVars, upstreamVars, bridgeVars
<1>a. TypeOK /\ ControlInv /\ ReadInv
  BY DEF IInv
<1>b. Len(Source) \in Nat
  BY StreamAssumption, LenProperties
<1>1. CASE Reject
  BY <1>1, <1>a, <1>b DEF TypeOK, ControlInv, ReadInv, Reject
<1>2. CASE OpenFails
  BY <1>2, <1>a, <1>b DEF TypeOK, ControlInv, ReadInv, OpenFails
<1>3. CASE OpenNonSuccess
  BY <1>3, <1>a, <1>b DEF TypeOK, ControlInv, ReadInv, OpenNonSuccess
<1>4. CASE OpenSuccess
  BY <1>4, <1>a, <1>b DEF TypeOK, ControlInv, ReadInv, OpenSuccess
<1>5. CASE Answer
  BY <1>5, <1>a, <1>b DEF TypeOK, ControlInv, ReadInv, Answer
<1>6. CASE DrainFails
  BY <1>6, <1>a, <1>b DEF TypeOK, ControlInv, ReadInv, DrainFails
<1>7. CASE DrainClose
  BY <1>7, <1>a, <1>b DEF TypeOK, ControlInv, ReadInv, DrainClose, CloseUpstream
<1>8. CASE CollectFails
  BY <1>8, <1>a, <1>b DEF TypeOK, ControlInv, ReadInv, CollectFails
<1>9. CASE CollectClose
  BY <1>9, <1>a, <1>b DEF TypeOK, ControlInv, ReadInv, CollectClose, CloseUpstream
<1>10. CASE PumpReadFails
  BY <1>10, <1>a, <1>b DEF TypeOK, ControlInv, ReadInv, PumpReadFails
<1>11. CASE PumpEmit
  BY <1>11, <1>a, <1>b DEF TypeOK, ControlInv, ReadInv, PumpEmit
<1>12. CASE PumpEmitRefused
  BY <1>12, <1>a, <1>b DEF TypeOK, ControlInv, ReadInv, PumpEmitRefused
<1>13. CASE PumpReadOn
  BY <1>13, <1>a, <1>b DEF TypeOK, ControlInv, ReadInv, PumpReadOn
<1>14. CASE PumpFlush
  BY <1>14, <1>a, <1>b DEF TypeOK, ControlInv, ReadInv, PumpFlush
<1>15. CASE PumpFinish
  BY <1>15, <1>a, <1>b DEF TypeOK, ControlInv, ReadInv, PumpFinish
<1>16. CASE PumpRecord
  BY <1>16, <1>a, <1>b DEF TypeOK, ControlInv, ReadInv, PumpRecord, RecordUsage
<1>17. CASE PumpClose
  BY <1>17, <1>a, <1>b DEF TypeOK, ControlInv, ReadInv, PumpClose, CloseBridge
<1>18. CASE PumpPanic
  BY <1>18, <1>a, <1>b DEF TypeOK, ControlInv, ReadInv, PumpPanic
<1>19. CASE DeferCloseUpstream
  BY <1>19, <1>a, <1>b DEF TypeOK, ControlInv, ReadInv, DeferCloseUpstream, CloseUpstream
<1>20. CASE DeferCloseBridge
  BY <1>20, <1>a, <1>b DEF TypeOK, ControlInv, ReadInv, DeferCloseBridge, CloseBridge
<1>21. CASE DeferRecover
  BY <1>21, <1>a, <1>b DEF TypeOK, ControlInv, ReadInv, DeferRecover, RecordUsage, CloseBridge
<1>22. ASSUME NEW k \in 0..MaxRead, DrainRead(k)
       PROVE  ReadInv'
  BY <1>22, <1>a, <1>b DEF TypeOK, ControlInv, ReadInv, DrainRead, HostRead
<1>23. ASSUME NEW k \in 0..MaxRead, CollectRead(k)
       PROVE  ReadInv'
  BY <1>23, <1>a, <1>b DEF TypeOK, ControlInv, ReadInv, CollectRead, HostRead
<1>24. ASSUME NEW k \in 0..MaxRead, NEW p \in parsed..(pos + k), PumpRead(k, p)
       PROVE  ReadInv'
  BY <1>24, <1>a, <1>b DEF TypeOK, ControlInv, ReadInv, PumpRead, HostRead
<1>25. CASE UNCHANGED vars
  BY <1>25, <1>a DEF TypeOK, ControlInv, ReadInv, vars
<1>26. QED
  BY <1>1, <1>2, <1>3, <1>4, <1>5, <1>6, <1>7, <1>8, <1>9, <1>10, <1>11,
     <1>12, <1>13, <1>14, <1>15, <1>16, <1>17, <1>18, <1>19, <1>20, <1>21,
     <1>22, <1>23, <1>24, <1>25
  DEF Next, HandlerStep, PumpStep, PumpLocal, Terminating

\* The host stream is closed once.
LEMMA UpstreamStep == IInv /\ [Next]_vars => UpstreamInv'
<1> SUFFICES ASSUME IInv, [Next]_vars PROVE UpstreamInv'
  OBVIOUS
<1> USE DEF handlerVars, pumpVars, upstreamVars, bridgeVars
<1>a. TypeOK /\ ControlInv /\ UpstreamInv
  BY DEF IInv
<1>b. Len(Source) \in Nat
  BY StreamAssumption, LenProperties
<1>1. CASE Reject
  BY <1>1, <1>a, <1>b DEF TypeOK, ControlInv, UpstreamInv, Reject
<1>2. CASE OpenFails
  BY <1>2, <1>a, <1>b DEF TypeOK, ControlInv, UpstreamInv, OpenFails
<1>3. CASE OpenNonSuccess
  BY <1>3, <1>a, <1>b DEF TypeOK, ControlInv, UpstreamInv, OpenNonSuccess
<1>4. CASE OpenSuccess
  BY <1>4, <1>a, <1>b DEF TypeOK, ControlInv, UpstreamInv, OpenSuccess
<1>5. CASE Answer
  BY <1>5, <1>a, <1>b DEF TypeOK, ControlInv, UpstreamInv, Answer
<1>6. CASE DrainFails
  BY <1>6, <1>a, <1>b DEF TypeOK, ControlInv, UpstreamInv, DrainFails
<1>7. CASE DrainClose
  BY <1>7, <1>a, <1>b DEF TypeOK, ControlInv, UpstreamInv, DrainClose, CloseUpstream
<1>8. CASE CollectFails
  BY <1>8, <1>a, <1>b DEF TypeOK, ControlInv, UpstreamInv, CollectFails
<1>9. CASE CollectClose
  BY <1>9, <1>a, <1>b DEF TypeOK, ControlInv, UpstreamInv, CollectClose, CloseUpstream
<1>10. CASE PumpReadFails
  BY <1>10, <1>a, <1>b DEF TypeOK, ControlInv, UpstreamInv, PumpReadFails
<1>11. CASE PumpEmit
  BY <1>11, <1>a, <1>b DEF TypeOK, ControlInv, UpstreamInv, PumpEmit
<1>12. CASE PumpEmitRefused
  BY <1>12, <1>a, <1>b DEF TypeOK, ControlInv, UpstreamInv, PumpEmitRefused
<1>13. CASE PumpReadOn
  BY <1>13, <1>a, <1>b DEF TypeOK, ControlInv, UpstreamInv, PumpReadOn
<1>14. CASE PumpFlush
  BY <1>14, <1>a, <1>b DEF TypeOK, ControlInv, UpstreamInv, PumpFlush
<1>15. CASE PumpFinish
  BY <1>15, <1>a, <1>b DEF TypeOK, ControlInv, UpstreamInv, PumpFinish
<1>16. CASE PumpRecord
  BY <1>16, <1>a, <1>b DEF TypeOK, ControlInv, UpstreamInv, PumpRecord, RecordUsage
<1>17. CASE PumpClose
  BY <1>17, <1>a, <1>b DEF TypeOK, ControlInv, UpstreamInv, PumpClose, CloseBridge
<1>18. CASE PumpPanic
  BY <1>18, <1>a, <1>b DEF TypeOK, ControlInv, UpstreamInv, PumpPanic
<1>19. CASE DeferCloseUpstream
  BY <1>19, <1>a, <1>b DEF TypeOK, ControlInv, UpstreamInv, DeferCloseUpstream, CloseUpstream
<1>20. CASE DeferCloseBridge
  BY <1>20, <1>a, <1>b DEF TypeOK, ControlInv, UpstreamInv, DeferCloseBridge, CloseBridge
<1>21. CASE DeferRecover
  BY <1>21, <1>a, <1>b DEF TypeOK, ControlInv, UpstreamInv, DeferRecover, RecordUsage, CloseBridge
<1>22. ASSUME NEW k \in 0..MaxRead, DrainRead(k)
       PROVE  UpstreamInv'
  BY <1>22, <1>a, <1>b DEF TypeOK, ControlInv, UpstreamInv, DrainRead, HostRead
<1>23. ASSUME NEW k \in 0..MaxRead, CollectRead(k)
       PROVE  UpstreamInv'
  BY <1>23, <1>a, <1>b DEF TypeOK, ControlInv, UpstreamInv, CollectRead, HostRead
<1>24. ASSUME NEW k \in 0..MaxRead, NEW p \in parsed..(pos + k), PumpRead(k, p)
       PROVE  UpstreamInv'
  BY <1>24, <1>a, <1>b DEF TypeOK, ControlInv, UpstreamInv, PumpRead, HostRead
<1>25. CASE UNCHANGED vars
  BY <1>25, <1>a DEF TypeOK, ControlInv, UpstreamInv, vars
<1>26. QED
  BY <1>1, <1>2, <1>3, <1>4, <1>5, <1>6, <1>7, <1>8, <1>9, <1>10, <1>11,
     <1>12, <1>13, <1>14, <1>15, <1>16, <1>17, <1>18, <1>19, <1>20, <1>21,
     <1>22, <1>23, <1>24, <1>25
  DEF Next, HandlerStep, PumpStep, PumpLocal, Terminating

\* With no event waiting, everything parsed was delivered.
LEMMA Drained ==
  ASSUME TypeOK, BatchInv, batch = <<>>
  PROVE  Len(delivered) = parsed
<1>1. /\ Len(delivered) \in Nat /\ Len(delivered) <= parsed
      /\ Len(Source) \in Nat /\ Source \in Seq(Pieces)
  BY StreamAssumption, LenProperties DEF TypeOK, BatchInv
<1>2. Len(delivered) + 1 \in Nat \ {0} /\ parsed \in 0..Len(Source)
  BY <1>1 DEF TypeOK
<1>3. SubSeq(Source, Len(delivered) + 1, parsed) = <<>>
  BY DEF BatchInv
<1>4. parsed < Len(delivered) + 1
  BY <1>2, <1>3, SliceEmpty
<1>5. QED
  BY <1>1, <1>2, <1>4

\* What is delivered and what waits stay adjacent stretches of the answer.
LEMMA BatchStep == IInv /\ [Next]_vars => BatchInv'
<1> SUFFICES ASSUME IInv, [Next]_vars PROVE BatchInv'
  OBVIOUS
<1> USE DEF handlerVars, pumpVars, upstreamVars, bridgeVars
<1>a. TypeOK /\ ControlInv /\ BatchInv
  BY DEF IInv
<1>b. Len(Source) \in Nat
  BY StreamAssumption, LenProperties
<1>1. CASE Reject
  BY <1>1, <1>a, <1>b DEF BatchInv, Reject
<1>2. CASE OpenFails
  BY <1>2, <1>a, <1>b DEF BatchInv, OpenFails
<1>3. CASE OpenNonSuccess
  BY <1>3, <1>a, <1>b DEF BatchInv, OpenNonSuccess
<1>4. CASE OpenSuccess
  <2>1. Len(delivered) = 0 /\ parsed = 0
    BY <1>4, <1>a, EmptySeq DEF ControlInv, OpenSuccess
  <2>2. QED
    BY <1>4, <1>a, <2>1 DEF BatchInv, OpenSuccess, bridgeVars
<1>5. CASE Answer
  BY <1>5, <1>a, <1>b DEF BatchInv, Answer
<1>6. CASE DrainFails
  BY <1>6, <1>a, <1>b DEF BatchInv, DrainFails
<1>7. CASE DrainClose
  BY <1>7, <1>a, <1>b DEF BatchInv, DrainClose, CloseUpstream
<1>8. CASE CollectFails
  BY <1>8, <1>a, <1>b DEF BatchInv, CollectFails
<1>9. CASE CollectClose
  BY <1>9, <1>a, <1>b DEF BatchInv, CollectClose, CloseUpstream
<1>10. CASE PumpReadFails
  BY <1>10, <1>a, <1>b DEF BatchInv, PumpReadFails
<1>11. CASE PumpEmit
  <2> DEFINE d == Len(delivered)
  <2>0. delivered \in Seq(Pieces) /\ pos \in 0..Len(Source) /\ parsed \in 0..pos
    BY <1>a DEF TypeOK
  <2>1a. d \in Nat
    BY <2>0, LenProperties
  <2>1b. d <= parsed
    BY <1>a DEF BatchInv
  <2>1. d \in Nat /\ parsed \in 0..Len(Source) /\ d <= parsed
    BY <1>b, <2>0, <2>1a, <2>1b
  <2>2. d + 1 \in Nat \ {0}
    BY <2>1
  <2>3. batch # <<>> /\ batch = SubSeq(Source, d + 1, parsed)
    BY <1>11, <1>a DEF PumpEmit, BatchInv
  <2>4. d < parsed
    BY <2>1, <2>2, <2>3, SliceEmpty
  <2>5. /\ Append(SubSeq(Source, 1, d), Head(batch)) = SubSeq(Source, 1, d + 1)
        /\ Tail(batch) = SubSeq(Source, d + 2, parsed)
    BY <2>1, <2>3, <2>4, SliceMove
  <2>6. delivered' = SubSeq(Source, 1, d + 1) /\ batch' = SubSeq(Source, d + 2, parsed)
    BY <1>11, <1>a, <2>5 DEF PumpEmit, BatchInv
  <2>7. d + 1 \in 0..Len(Source)
    BY <2>1, <2>4, <1>b
  <2>8. Len(SubSeq(Source, 1, d + 1)) = d + 1
    BY <2>2, <2>7, SliceType
  <2>9. Len(delivered') = d + 1
    BY <2>6, <2>8
  <2>10. ppc' = "emit" /\ parsed' = parsed
    BY <1>11 DEF PumpEmit
  <2> HIDE DEF d
  <2>11. /\ Len(delivered') <= parsed'
         /\ delivered' = SubSeq(Source, 1, Len(delivered'))
         /\ batch' = SubSeq(Source, Len(delivered') + 1, parsed')
    BY <2>1, <2>4, <2>6, <2>9, <2>10
  <2>12. QED
    BY <2>10, <2>11 DEF BatchInv
<1>12. CASE PumpEmitRefused
  BY <1>12, <1>a, <1>b DEF BatchInv, PumpEmitRefused
<1>13. CASE PumpReadOn
  <2>1. Len(delivered) = parsed
    BY <1>13, <1>a, Drained DEF PumpReadOn
  <2>2. QED
    BY <1>13, <1>a, <2>1 DEF BatchInv, PumpReadOn, bridgeVars
<1>14. CASE PumpFlush
  <2>1. Len(delivered) = parsed
    BY <1>14, <1>a, Drained DEF PumpFlush
  <2>2. QED
    BY <1>14, <1>a, <1>b, <2>1 DEF TypeOK, BatchInv, PumpFlush, bridgeVars
<1>15. CASE PumpFinish
  BY <1>15, <1>a, <1>b DEF BatchInv, PumpFinish
<1>16. CASE PumpRecord
  BY <1>16, <1>a, <1>b DEF BatchInv, PumpRecord, RecordUsage
<1>17. CASE PumpClose
  BY <1>17, <1>a DEF BatchInv, PumpClose, CloseBridge, bridgeVars
<1>18. CASE PumpPanic
  BY <1>18, <1>a, <1>b DEF BatchInv, PumpPanic
<1>19. CASE DeferCloseUpstream
  BY <1>19, <1>a, <1>b DEF BatchInv, DeferCloseUpstream, CloseUpstream
<1>20. CASE DeferCloseBridge
  BY <1>20, <1>a DEF BatchInv, DeferCloseBridge, CloseBridge, bridgeVars
<1>21. CASE DeferRecover
  BY <1>21, <1>a DEF BatchInv, DeferRecover, CloseBridge, bridgeVars
<1>22. ASSUME NEW k \in 0..MaxRead, DrainRead(k)
       PROVE  BatchInv'
  BY <1>22, <1>a, <1>b DEF BatchInv, DrainRead, HostRead
<1>23. ASSUME NEW k \in 0..MaxRead, CollectRead(k)
       PROVE  BatchInv'
  BY <1>23, <1>a, <1>b DEF BatchInv, CollectRead, HostRead
<1>24. ASSUME NEW k \in 0..MaxRead, NEW p \in parsed..(pos + k), PumpRead(k, p)
       PROVE  BatchInv'
  <2>1. Len(delivered) = parsed /\ parsed <= p
    BY <1>24, <1>a, <1>b DEF TypeOK, BatchInv, PumpRead
  <2>2. QED
    BY <1>24, <1>a, <2>1 DEF BatchInv, PumpRead, bridgeVars
<1>25. CASE UNCHANGED vars
  BY <1>25, <1>a DEF BatchInv, vars
<1>26. QED
  BY <1>1, <1>2, <1>3, <1>4, <1>5, <1>6, <1>7, <1>8, <1>9, <1>10, <1>11,
     <1>12, <1>13, <1>14, <1>15, <1>16, <1>17, <1>18, <1>19, <1>20, <1>21,
     <1>22, <1>23, <1>24, <1>25
  DEF Next, HandlerStep, PumpStep, PumpLocal, Terminating

\* The bridge is closed when the pump's position says so, with an honest end.
LEMMA CloseStep == IInv /\ [Next]_vars => CloseInv'
<1> SUFFICES ASSUME IInv, [Next]_vars PROVE CloseInv'
  OBVIOUS
<1> USE DEF handlerVars, pumpVars, upstreamVars, bridgeVars
<1>a. TypeOK /\ ControlInv /\ BatchInv /\ ReadInv /\ CloseInv
  BY DEF IInv
<1>b. Len(Source) \in Nat
  BY StreamAssumption, LenProperties
<1>1. CASE Reject
  BY <1>1, <1>a, <1>b DEF TypeOK, ControlInv, CloseInv, HonestEnd, Reject
<1>2. CASE OpenFails
  BY <1>2, <1>a, <1>b DEF TypeOK, ControlInv, CloseInv, HonestEnd, OpenFails
<1>3. CASE OpenNonSuccess
  BY <1>3, <1>a, <1>b DEF TypeOK, ControlInv, CloseInv, HonestEnd, OpenNonSuccess
<1>4. CASE OpenSuccess
  BY <1>4, <1>a, <1>b DEF TypeOK, ControlInv, CloseInv, HonestEnd, OpenSuccess
<1>5. CASE Answer
  BY <1>5, <1>a, <1>b DEF TypeOK, ControlInv, CloseInv, HonestEnd, Answer
<1>6. CASE DrainFails
  BY <1>6, <1>a, <1>b DEF TypeOK, ControlInv, CloseInv, HonestEnd, DrainFails
<1>7. CASE DrainClose
  BY <1>7, <1>a, <1>b DEF TypeOK, ControlInv, CloseInv, HonestEnd, DrainClose, CloseUpstream
<1>8. CASE CollectFails
  BY <1>8, <1>a, <1>b DEF TypeOK, ControlInv, CloseInv, HonestEnd, CollectFails
<1>9. CASE CollectClose
  BY <1>9, <1>a, <1>b DEF TypeOK, ControlInv, CloseInv, HonestEnd, CollectClose, CloseUpstream
<1>10. CASE PumpReadFails
  BY <1>10, <1>a, <1>b DEF TypeOK, ControlInv, CloseInv, HonestEnd, PumpReadFails
<1>11. CASE PumpEmit
  BY <1>11, <1>a, <1>b DEF TypeOK, ControlInv, CloseInv, HonestEnd, PumpEmit
<1>12. CASE PumpEmitRefused
  BY <1>12, <1>a, <1>b DEF TypeOK, ControlInv, CloseInv, HonestEnd, PumpEmitRefused
<1>13. CASE PumpReadOn
  BY <1>13, <1>a, <1>b DEF TypeOK, ControlInv, CloseInv, HonestEnd, PumpReadOn
<1>14. CASE PumpFlush
  BY <1>14, <1>a, <1>b DEF TypeOK, ControlInv, CloseInv, HonestEnd, PumpFlush
<1>15. CASE PumpFinish
  <2>1. Len(delivered) = parsed /\ parsed = Len(Source)
    BY <1>15, <1>a, Drained DEF PumpFinish, ReadInv
  <2>2. Source \in Seq(Pieces)
    BY StreamAssumption
  <2>3. delivered = Source
    BY <2>1, <2>2, <1>a, SubSeqFull DEF BatchInv
  <2>4. QED
    BY <1>15, <1>a, <2>3 DEF CloseInv, HonestEnd, PumpFinish, bridgeVars
<1>16. CASE PumpRecord
  BY <1>16, <1>a, <1>b DEF TypeOK, ControlInv, CloseInv, HonestEnd, PumpRecord, RecordUsage
<1>17. CASE PumpClose
  <2>1. /\ bridgeCloses = 0 /\ failure # "panic"
        /\ failure = "none" => delivered = Source
        /\ failure \in {"none", "read", "emit"}
    BY <1>17, <1>a DEF TypeOK, CloseInv, PumpClose, Failures
  <2>2. /\ bridgeCloses' = 1 /\ delivered' = delivered
        /\ failure' = failure /\ ppc' = "closeUpstream"
        /\ bridgeError' = IF failure = "none" THEN "clean" ELSE failure
    BY <1>17, <2>1 DEF PumpClose, CloseBridge
  <2>3. HonestEnd'
    BY <2>1, <2>2 DEF HonestEnd
  <2>4. QED
    BY <2>1, <2>2, <2>3 DEF CloseInv
<1>18. CASE PumpPanic
  BY <1>18, <1>a, <1>b DEF TypeOK, ControlInv, CloseInv, HonestEnd, PumpPanic
<1>19. CASE DeferCloseUpstream
  BY <1>19, <1>a, <1>b DEF TypeOK, ControlInv, CloseInv, HonestEnd, DeferCloseUpstream, CloseUpstream
<1>20. CASE DeferCloseBridge
  BY <1>20, <1>a, <1>b DEF TypeOK, ControlInv, CloseInv, HonestEnd, DeferCloseBridge, CloseBridge
<1>21. CASE DeferRecover
  BY <1>21, <1>a, <1>b DEF TypeOK, ControlInv, CloseInv, HonestEnd, DeferRecover, RecordUsage, CloseBridge
<1>22. ASSUME NEW k \in 0..MaxRead, DrainRead(k)
       PROVE  CloseInv'
  BY <1>22, <1>a, <1>b DEF TypeOK, ControlInv, CloseInv, HonestEnd, DrainRead, HostRead
<1>23. ASSUME NEW k \in 0..MaxRead, CollectRead(k)
       PROVE  CloseInv'
  BY <1>23, <1>a, <1>b DEF TypeOK, ControlInv, CloseInv, HonestEnd, CollectRead, HostRead
<1>24. ASSUME NEW k \in 0..MaxRead, NEW p \in parsed..(pos + k), PumpRead(k, p)
       PROVE  CloseInv'
  BY <1>24, <1>a, <1>b DEF TypeOK, ControlInv, CloseInv, HonestEnd, PumpRead, HostRead
<1>25. CASE UNCHANGED vars
  BY <1>25, <1>a DEF TypeOK, ControlInv, CloseInv, HonestEnd, vars
<1>26. QED
  BY <1>1, <1>2, <1>3, <1>4, <1>5, <1>6, <1>7, <1>8, <1>9, <1>10, <1>11,
     <1>12, <1>13, <1>14, <1>15, <1>16, <1>17, <1>18, <1>19, <1>20, <1>21,
     <1>22, <1>23, <1>24, <1>25
  DEF Next, HandlerStep, PumpStep, PumpLocal, Terminating

-----------------------------------------------------------------------------
(* The theorems.                                                           *)

\* The strengthened invariant holds in every reachable state.
THEOREM Invariant == Spec => []IInv
<1>1. IInv /\ [Next]_vars => IInv'
  BY TypeStep, ControlStep, BatchStep, ReadStep, CloseStep, UpstreamStep DEF IInv
<1>2. QED
  BY InitIInv, <1>1, PTL DEF Spec, SafetySpec

\* Every variable of handler, pump, host stream and bridge keeps its type
\* whatever the upstream answers and wherever the call fails.
THEOREM TypeCorrect == Spec => []TypeOK
<1>1. IInv => TypeOK
  BY DEF IInv
<1>2. QED
  BY Invariant, <1>1, PTL

\* emitUpstreamEvents delivers an initial part of the answer, in order and
\* without a gap or a repetition, for every splitting of the answer.
THEOREM OrderedDeliveryHolds == Spec => []OrderedDelivery
<1>1. IInv => OrderedDelivery
  BY DEF IInv, BatchInv, OrderedDelivery
<1>2. QED
  BY Invariant, <1>1, PTL

\* Unless the pump panicked, a clean close of the bridge means that every
\* event was delivered, and any other close names what stopped the pump.
THEOREM HonestEndHolds == Spec => []HonestEnd
<1>1. IInv => HonestEnd
  BY DEF IInv, CloseInv
<1>2. QED
  BY Invariant, <1>1, PTL

\* closeOnce and the deferred calls close bridge and host stream exactly once.
THEOREM ClosedOnceHolds == Spec => []ClosedOnce
<1>1. IInv => ClosedOnce
  <2> SUFFICES ASSUME IInv PROVE ClosedOnce
    OBVIOUS
  <2>1. TypeOK /\ CloseInv /\ UpstreamInv
    BY DEF IInv
  <2>2. bridgeCloses <= 1 /\ upCloses <= 1
    BY <2>1 DEF TypeOK, CloseInv, UpstreamInv
  <2>3. Finished /\ upstream # "none" /\ upstream # "orphan" => upCloses = 1
    BY <2>1 DEF TypeOK, UpstreamInv, Finished
  <2>4. ppc = "end" => bridgeCloses = 1
    BY <2>1 DEF CloseInv
  <2>5. QED
    BY <2>2, <2>3, <2>4 DEF ClosedOnce
<1>2. QED
  BY Invariant, <1>1, PTL

\* Only PumpEmit emits, and it does so while no exit has been taken.
LEMMA EmitStep == IInv /\ [Next]_vars => (delivered' # delivered => PumpEmit /\ bridgeCloses = 0)
<1> SUFFICES ASSUME IInv, [Next]_vars, delivered' # delivered
             PROVE  PumpEmit /\ bridgeCloses = 0
  OBVIOUS
<1> USE DEF handlerVars, pumpVars, upstreamVars, bridgeVars
<1>1. CASE PumpEmit
  BY <1>1 DEF IInv, CloseInv, PumpEmit
<1>2. ~ HandlerStep
  BY DEF HandlerStep, Reject, OpenFails, OpenNonSuccess, OpenSuccess, Answer,
         DrainRead, DrainFails, DrainClose, CollectRead, CollectFails, CollectClose
<1>3. ~ \E k \in 0..MaxRead : \E p \in parsed..(pos + k) : PumpRead(k, p)
  BY DEF PumpRead
<1>4. PumpLocal => PumpEmit
  BY DEF PumpLocal, PumpReadFails, PumpEmitRefused, PumpReadOn, PumpFlush, PumpFinish,
         PumpRecord, PumpClose, PumpPanic, DeferCloseUpstream, DeferCloseBridge,
         DeferRecover, CloseBridge
<1>5. ~ UNCHANGED vars
  BY DEF vars
<1>6. QED
  BY <1>1, <1>2, <1>3, <1>4, <1>5 DEF Next, PumpStep, Terminating

\* No event is emitted into a bridge that was closed, whichever exit of the
\* pump closed it.
THEOREM NoEmitAfterCloseHolds == Spec => NoEmitAfterClose
<1>1. IInv /\ [Next]_vars => [delivered' # delivered => bridgeCloses = 0]_vars
  BY EmitStep
<1>2. QED
  BY Invariant, <1>1, PTL DEF Spec, SafetySpec, NoEmitAfterClose

-----------------------------------------------------------------------------
(* Refinement: the client of the bridge sees a StreamDelivery stream.      *)

\* Where the client's stream stands, as the refinement mapping has it.
Phase == IF bridgeCloses > 0
         THEN IF bridgeError = "clean" /\ failure # "panic" THEN "complete" ELSE "broken"
         ELSE IF ppc = "none" THEN "idle" ELSE "flowing"

\* An emitted event is the next one of the answer: Deliver.
LEMMA EmitDelivers == IInv /\ PumpEmit => Delivery!Deliver
<1> SUFFICES ASSUME IInv, PumpEmit PROVE Delivery!Deliver
  OBVIOUS
<1>1. /\ TypeOK /\ BatchInv /\ bridgeCloses = 0
      /\ ppc = "emit" /\ batch # <<>>
  BY DEF IInv, CloseInv, PumpEmit
<1>2. Len(delivered) \in Nat /\ Source \in Seq(Pieces) /\ Len(Source) \in Nat
  BY <1>1, StreamAssumption, LenProperties DEF TypeOK
<1>3. parsed \in 0..Len(Source) /\ Len(delivered) <= parsed
  BY <1>1, <1>2 DEF TypeOK, BatchInv
<1>4. batch = SubSeq(Source, Len(delivered) + 1, parsed)
  BY <1>1 DEF BatchInv
<1>5. Len(delivered) < parsed
  BY <1>1, <1>2, <1>3, <1>4, SliceEmpty
<1>6. Len(delivered) + 1 \in 1..Len(Source) /\ parsed \in (Len(delivered) + 1)..Len(Source)
  BY <1>2, <1>3, <1>5
<1>7. Head(batch) = Source[Len(delivered) + 1]
  BY <1>2, <1>4, <1>6, HeadTailOfSubSeq
<1>8. /\ delivered' = Append(delivered, Source[Len(delivered) + 1])
      /\ UNCHANGED <<ppc, failure, bridgeCloses, bridgeError>>
  BY <1>7 DEF PumpEmit
<1>9. Len(delivered) < Len(Source)
  BY <1>2, <1>3, <1>5
<1>10. Phase = "flowing" /\ Phase' = "flowing"
  BY <1>1, <1>8 DEF Phase
<1>11. QED
  BY <1>8, <1>9, <1>10 DEF Delivery!Deliver, Phase

\* Closing the bridge completes the stream or breaks it.
LEMMA CloseEnds == IInv /\ PumpClose => Delivery!Complete \/ Delivery!Break
<1> SUFFICES ASSUME IInv, PumpClose PROVE Delivery!Complete \/ Delivery!Break
  OBVIOUS
<1>1. /\ ppc = "close" /\ bridgeCloses = 0 /\ failure # "panic" /\ failure \in Failures
      /\ failure = "none" => delivered = Source
  BY DEF IInv, TypeOK, CloseInv, PumpClose
<1>2. /\ bridgeCloses' = 1 /\ UNCHANGED <<delivered, failure>>
      /\ bridgeError' = IF failure = "none" THEN "clean" ELSE failure
  BY <1>1 DEF PumpClose, CloseBridge
<1>3. Phase = "flowing"
  BY <1>1 DEF Phase
<1>4. Phase' = IF failure = "none" THEN "complete" ELSE "broken"
  BY <1>1, <1>2 DEF Phase, Failures
<1>5. CASE failure = "none"
  BY <1>1, <1>2, <1>3, <1>4, <1>5 DEF Delivery!Complete, Phase
<1>6. CASE failure # "none"
  BY <1>2, <1>3, <1>4, <1>6 DEF Delivery!Break, Phase
<1>7. QED
  BY <1>5, <1>6

\* The deferred close breaks the stream of a pump that panicked and changes
\* nothing otherwise.
LEMMA DeferredCloseBreaks ==
  IInv /\ DeferCloseBridge => Delivery!Break \/ UNCHANGED Delivery!deliveryVars
<1> SUFFICES ASSUME IInv, DeferCloseBridge
             PROVE  Delivery!Break \/ UNCHANGED Delivery!deliveryVars
  OBVIOUS
<1>1. /\ ppc = "closeBridge" /\ ppc' = "recover" /\ UNCHANGED <<delivered, failure>>
      /\ failure # "panic" => bridgeCloses = 1
      /\ bridgeCloses \in {0, 1}
  BY DEF IInv, CloseInv, DeferCloseBridge, CloseBridge, pumpVars, bridgeVars
<1>2. CASE bridgeCloses = 0
  <2>1. failure = "panic" /\ bridgeCloses' = 1
    BY <1>1, <1>2 DEF DeferCloseBridge, CloseBridge
  <2>2. Phase = "flowing" /\ Phase' = "broken"
    BY <1>1, <1>2, <2>1 DEF Phase
  <2>3. QED
    BY <1>1, <2>2 DEF Delivery!Break, Phase
<1>3. CASE bridgeCloses = 1
  <2>1. UNCHANGED <<delivered, bridgeCloses, bridgeError>>
    BY <1>3 DEF DeferCloseBridge, CloseBridge, bridgeVars
  <2>2. Phase' = Phase
    BY <1>1, <1>3, <2>1 DEF Phase
  <2>3. QED
    BY <1>1, <2>2 DEF Delivery!deliveryVars, Phase
<1>4. QED
  BY <1>1, <1>2, <1>3

\* Launching the pump opens the client's stream.
LEMMA OpenOpens ==
  IInv /\ OpenSuccess => Delivery!Open \/ UNCHANGED Delivery!deliveryVars
<1> SUFFICES ASSUME IInv, OpenSuccess
             PROVE  Delivery!Open \/ UNCHANGED Delivery!deliveryVars
  OBVIOUS
<1>1. ppc = "none" /\ bridgeCloses = 0
  BY DEF IInv, ControlInv, OpenSuccess
<1>2. UNCHANGED <<delivered, failure, bridgeCloses, bridgeError>> /\ ppc' \in {"none", "read"}
  BY <1>1 DEF OpenSuccess, bridgeVars
<1>3. CASE ppc' = "read"
  <2>1. Phase = "idle" /\ Phase' = "flowing"
    BY <1>1, <1>2, <1>3 DEF Phase
  <2>2. QED
    BY <1>2, <2>1 DEF Delivery!Open, Phase
<1>4. CASE ppc' = "none"
  BY <1>1, <1>2, <1>4 DEF Delivery!deliveryVars
<1>5. QED
  BY <1>2, <1>3, <1>4

\* Every other step is invisible to the client.
LEMMA OtherStepsStutter ==
  IInv /\ [Next]_vars =>
    \/ OpenSuccess \/ PumpEmit \/ PumpClose \/ DeferCloseBridge
    \/ UNCHANGED Delivery!deliveryVars
<1> SUFFICES ASSUME IInv, [Next]_vars,
                    ~ OpenSuccess, ~ PumpEmit, ~ PumpClose, ~ DeferCloseBridge
             PROVE  UNCHANGED Delivery!deliveryVars
  OBVIOUS
<1> USE DEF handlerVars, pumpVars, upstreamVars, bridgeVars
<1>1. CASE HandlerStep
  <2>1. UNCHANGED <<delivered, ppc, bridgeCloses, bridgeError>>
    BY <1>1 DEF HandlerStep, Reject, OpenFails, OpenNonSuccess, Answer, DrainRead,
                DrainFails, DrainClose, CollectRead, CollectFails, CollectClose
  <2>2. UNCHANGED failure \/ ppc = "none"
    BY <1>1 DEF IInv, UpstreamInv, HandlerStep, Reject, OpenFails, OpenNonSuccess, Answer,
                DrainRead, DrainFails, DrainClose, CollectRead, CollectFails, CollectClose
  <2>3. ppc = "none" => bridgeCloses = 0
    BY DEF IInv, ControlInv
  <2>4. QED
    BY <2>1, <2>2, <2>3 DEF Delivery!deliveryVars
<1>2. ASSUME NEW k \in 0..MaxRead, NEW p \in parsed..(pos + k), PumpRead(k, p)
      PROVE  UNCHANGED Delivery!deliveryVars
  BY <1>2 DEF PumpRead, Delivery!deliveryVars
<1>3. CASE PumpLocal
  <2>1. /\ UNCHANGED <<delivered, bridgeCloses, bridgeError>>
        /\ ppc # "none" /\ ppc' # "none"
    BY <1>3 DEF PumpLocal, PumpReadFails, PumpEmitRefused, PumpReadOn, PumpFlush,
                PumpFinish, PumpRecord, PumpPanic, DeferCloseUpstream, DeferRecover,
                CloseBridge, IInv, CloseInv
  <2>2. UNCHANGED failure \/ bridgeCloses = 0
    BY <1>3 DEF PumpLocal, PumpReadFails, PumpEmitRefused, PumpReadOn, PumpFlush,
                PumpFinish, PumpRecord, PumpPanic, DeferCloseUpstream, DeferRecover,
                IInv, CloseInv
  <2>3. QED
    BY <2>1, <2>2 DEF Delivery!deliveryVars
<1>4. CASE UNCHANGED vars
  BY <1>4 DEF vars, Delivery!deliveryVars
<1>5. QED
  BY <1>1, <1>2, <1>3, <1>4 DEF Next, PumpStep, Terminating

\* ExecuteStream implements the safety part of StreamDelivery: a bridged
\* stream delivers the answer in order, ends once, and claims completeness
\* only when it is complete.
THEOREM RefinesDelivery == Spec => Delivery!DeliverySafety
<1>1. Init => Delivery!DeliveryInit
  BY DEF Init, Delivery!DeliveryInit
<1>2. IInv /\ [Next]_vars => [Delivery!DeliveryNext]_(Delivery!deliveryVars)
  BY OpenOpens, EmitDelivers, CloseEnds, DeferredCloseBreaks, OtherStepsStutter
  DEF Delivery!DeliveryNext
<1>3. QED
  BY Invariant, <1>1, <1>2, PTL DEF Spec, SafetySpec, Delivery!DeliverySafety

-----------------------------------------------------------------------------
(* What a call answers and records: the inductive invariant, beside IInv.  *)

\* What the drain kept of an error body once it is over
KeptBody ==
  /\ Len(body) <= BodyLimit
  /\ body = SubSeq(Source, 1, Len(body))
  /\ failure = "none" => Len(body) = BodyLimit \/ body = Source

\* What the handler has gathered at each of its stages, and what it answers
\* with; a call whose pump was started gathers nothing.
AnswerInv ==
  /\ reply # "none" => hpc = "done"
  /\ hpc = "start" \/ ppc # "none" => body = <<>>
  /\ hpc \in {"drain", "collect"} =>
       failure = "none" /\ feed = "more" /\ body = SubSeq(Source, 1, pos)
  /\ hpc = "drain" => pos <= BodyLimit
  /\ hpc = "drained" => KeptBody
  /\ hpc = "collected" => /\ body = SubSeq(Source, 1, pos)
                          /\ failure = "none" => pos = Len(Source)
  /\ reply \in {"upstream_error", "stream_failed", "chunks"} =>
       ppc = "none" /\ upCloses = 1
  /\ reply = "upstream_error" => KeptBody
  /\ reply = "chunks" => body = Source /\ pos = Len(Source)

\* Where handler and pump stand tells whether the usage has been recorded, and
\* what was recorded is all that was read.
UsageInv ==
  /\ usage \in {<<>>, <<pos>>}
  /\ hpc \in {"start", "drain", "drained", "collect"} => usage = <<>>
  /\ hpc = "collected" => usage = IF failure = "none" THEN <<pos>> ELSE <<>>
  /\ reply = "stream_failed" => usage = <<>>
  /\ reply = "chunks" => usage = <<pos>>
  /\ ppc \in {"read", "emit", "record"} => usage = <<>>
  /\ ppc \in {"closeUpstream", "closeBridge", "recover"} /\ failure = "panic" => usage = <<>>
  /\ ppc \in {"close", "closeUpstream", "closeBridge", "recover"} /\ failure # "panic"
       => usage = <<pos>>
  /\ ppc = "end" => usage = <<pos>>

-----------------------------------------------------------------------------
(* Growing the body by a read.                                             *)

\* A stretch of the answer and the beginning of the next one make a longer
\* stretch: the step of DrainRead and of CollectRead.
LEMMA SliceGrow ==
  ASSUME NEW p \in Nat, NEW n \in Nat, NEW k \in Nat, n <= k, p + k <= Len(Source)
  PROVE  /\ SubSeq(Source, 1, p) \o SubSeq(SubSeq(Source, p + 1, p + k), 1, n)
              = SubSeq(Source, 1, p + n)
         /\ SubSeq(Source, 1, p) \o SubSeq(Source, p + 1, p + k)
              = SubSeq(Source, 1, p + k)
         /\ Len(SubSeq(Source, 1, p + n)) = p + n
<1>1. Source \in Seq(Pieces) /\ Len(Source) \in Nat
  BY StreamAssumption, LenProperties
<1>2. 1 \in 1..(Len(Source) + 1) /\ p \in (1 - 1)..Len(Source) /\ p + 1 \in Nat
  BY <1>1
<1>3. \A l \in 0..k : SubSeq(Source, 1, p) \o SubSeq(Source, p + 1, p + l)
                        = SubSeq(Source, 1, p + l)
  <2> SUFFICES ASSUME NEW l \in 0..k
               PROVE  SubSeq(Source, 1, p) \o SubSeq(Source, p + 1, p + l)
                        = SubSeq(Source, 1, p + l)
    OBVIOUS
  <2>1. p + l \in p..Len(Source)
    BY <1>1
  <2>2. QED
    BY <1>1, <1>2, <2>1, ConcatAdjacentSubSeq
<1>4. SubSeq(SubSeq(Source, p + 1, p + k), 1, n) = SubSeq(Source, p + 1, p + n)
  <2>1. CASE n = 0
    <3>1. p + n < p + 1 /\ n < 1
      BY <2>1
    <3>2. QED
      BY <3>1, SubSeqEmpty
  <2>2. CASE n > 0
    <3>1. /\ p + 1 \in 1..Len(Source) /\ p + k \in 1..Len(Source)
          /\ 1 \in 1..((p + k) - (p + 1) + 1) /\ n \in 1..((p + k) - (p + 1) + 1)
      BY <1>1, <2>2
    <3>2. SubSeq(SubSeq(Source, p + 1, p + k), 1, n)
            = SubSeq(Source, (p + 1) + 1 - 1, (p + 1) + n - 1)
      BY <1>1, <3>1, SubSeqOfSubSeq
    <3>3. (p + 1) + 1 - 1 = p + 1 /\ (p + 1) + n - 1 = p + n
      OBVIOUS
    <3>4. QED
      BY <3>2, <3>3
  <2>3. QED
    BY <2>1, <2>2
<1>5. Len(SubSeq(Source, 1, p + n)) = p + n
  BY <1>1, SliceType
<1>6. QED
  BY <1>3, <1>4, <1>5

\* The whole answer is the stretch up to its end.
LEMMA SliceWhole == SubSeq(Source, 1, Len(Source)) = Source
<1>1. Source \in Seq(Pieces)
  BY StreamAssumption
<1>2. QED
  BY <1>1

-----------------------------------------------------------------------------
(* The invariant is inductive.                                             *)

LEMMA InitAnswer == Init => AnswerInv /\ UsageInv
  BY DEF Init, AnswerInv, UsageInv

\* What the handler gathers is a stretch of the answer from its beginning.
LEMMA AnswerStep == IInv /\ AnswerInv /\ [Next]_vars => AnswerInv'
<1> SUFFICES ASSUME IInv, AnswerInv, [Next]_vars PROVE AnswerInv'
  OBVIOUS
<1> USE DEF handlerVars, pumpVars, upstreamVars, bridgeVars
<1>a. TypeOK /\ ControlInv /\ ReadInv /\ CloseInv /\ UpstreamInv
  BY DEF IInv
<1>b. Len(Source) \in Nat /\ pos \in Nat /\ BodyLimit \in Nat
  BY <1>a, StreamAssumption, LenProperties DEF TypeOK
<1>c. /\ hpc \in HandlerPCs /\ ppc \in PumpPCs /\ failure \in Failures
      /\ upCloses \in {0, 1} /\ reply \in Replies /\ body \in Seq(Pieces)
  BY <1>a DEF TypeOK, UpstreamInv
<1>1. CASE Reject
  BY <1>1, <1>a, <1>b, <1>c
  DEF AnswerInv, KeptBody, ControlInv, ReadInv, CloseInv, UpstreamInv, Reject
<1>2. CASE OpenFails
  BY <1>2, <1>a, <1>b, <1>c
  DEF AnswerInv, KeptBody, ControlInv, ReadInv, CloseInv, UpstreamInv, OpenFails
<1>3. CASE OpenNonSuccess
  <2>1. hpc = "start" /\ pos = 0 /\ feed = "more" /\ failure = "none" /\ body = <<>>
    BY <1>3, <1>a DEF OpenNonSuccess, ControlInv, AnswerInv
  <2>2. SubSeq(Source, 1, 0) = <<>>
    BY SubSeqEmpty
  <2>3. QED
    BY <1>3, <2>1, <2>2, <1>a, <1>b DEF OpenNonSuccess, AnswerInv, ControlInv
<1>4. CASE OpenSuccess
  <2>1. hpc = "start" /\ pos = 0 /\ feed = "more" /\ failure = "none" /\ body = <<>>
    BY <1>4, <1>a DEF OpenSuccess, ControlInv, AnswerInv
  <2>2. SubSeq(Source, 1, 0) = <<>>
    BY SubSeqEmpty
  <2>3. QED
    BY <1>4, <2>1, <2>2, <1>a, <1>b DEF OpenSuccess, AnswerInv, ControlInv
<1>5. CASE Answer
  BY <1>5, <1>a, <1>b, <1>c
  DEF AnswerInv, KeptBody, ControlInv, ReadInv, CloseInv, UpstreamInv, Answer
<1>6. CASE DrainFails
  <2>1. hpc = "drain" /\ body = SubSeq(Source, 1, pos) /\ pos <= BodyLimit /\ reply = "none"
    BY <1>6, <1>c DEF DrainFails, AnswerInv
  <2>2. Len(body) = pos
    BY <2>1, <1>a, <1>b, SliceType DEF TypeOK
  <2>3. KeptBody'
    BY <1>6, <2>1, <2>2 DEF DrainFails, KeptBody
  <2>4. QED
    BY <1>6, <2>1, <2>3, <1>a DEF DrainFails, AnswerInv, UpstreamInv
<1>7. CASE DrainClose
  <2>1. /\ hpc = "drained" /\ KeptBody
        /\ ppc = "none" /\ upCloses = 0
    BY <1>7, <1>a DEF DrainClose, AnswerInv, UpstreamInv
  <2>2. KeptBody'
    BY <1>7, <2>1 DEF DrainClose, KeptBody
  <2>3. QED
    BY <1>7, <2>1, <2>2 DEF DrainClose, CloseUpstream, AnswerInv
<1>8. CASE CollectFails
  BY <1>8, <1>a, <1>b, <1>c
  DEF AnswerInv, KeptBody, ControlInv, ReadInv, CloseInv, UpstreamInv,
      CollectFails
<1>9. CASE CollectClose
  <2>1. /\ hpc = "collected" /\ body = SubSeq(Source, 1, pos)
        /\ failure = "none" => pos = Len(Source)
        /\ ppc = "none" /\ upCloses = 0
    BY <1>9, <1>a DEF CollectClose, AnswerInv, UpstreamInv
  <2>2. failure = "none" => body = Source
    BY <2>1, SliceWhole
  <2>3. QED
    BY <1>9, <2>1, <2>2 DEF CollectClose, CloseUpstream, AnswerInv
<1>10. CASE PumpReadFails
  BY <1>10, <1>a, <1>b, <1>c
  DEF AnswerInv, KeptBody, ControlInv, ReadInv, CloseInv, UpstreamInv,
      PumpReadFails
<1>11. CASE PumpEmit
  BY <1>11, <1>a, <1>b, <1>c
  DEF AnswerInv, KeptBody, ControlInv, ReadInv, CloseInv, UpstreamInv, PumpEmit
<1>12. CASE PumpEmitRefused
  BY <1>12, <1>a, <1>b, <1>c
  DEF AnswerInv, KeptBody, ControlInv, ReadInv, CloseInv, UpstreamInv,
      PumpEmitRefused
<1>13. CASE PumpReadOn
  BY <1>13, <1>a, <1>b, <1>c
  DEF AnswerInv, KeptBody, ControlInv, ReadInv, CloseInv, UpstreamInv,
      PumpReadOn
<1>14. CASE PumpFlush
  BY <1>14, <1>a, <1>b, <1>c
  DEF AnswerInv, KeptBody, ControlInv, ReadInv, CloseInv, UpstreamInv, PumpFlush
<1>15. CASE PumpFinish
  BY <1>15, <1>a, <1>b, <1>c
  DEF AnswerInv, KeptBody, ControlInv, ReadInv, CloseInv, UpstreamInv,
      PumpFinish
<1>16. CASE PumpRecord
  BY <1>16, <1>a, <1>b, <1>c
  DEF AnswerInv, KeptBody, ControlInv, ReadInv, CloseInv, UpstreamInv,
      PumpRecord, RecordUsage
<1>17. CASE PumpClose
  BY <1>17, <1>a, <1>b, <1>c
  DEF AnswerInv, KeptBody, ControlInv, ReadInv, CloseInv, UpstreamInv,
      PumpClose, CloseBridge
<1>18. CASE PumpPanic
  BY <1>18, <1>a, <1>b, <1>c
  DEF AnswerInv, KeptBody, ControlInv, ReadInv, CloseInv, UpstreamInv, PumpPanic
<1>19. CASE DeferCloseUpstream
  BY <1>19, <1>a, <1>b, <1>c
  DEF AnswerInv, KeptBody, ControlInv, ReadInv, CloseInv, UpstreamInv,
      DeferCloseUpstream, CloseUpstream
<1>20. CASE DeferCloseBridge
  BY <1>20, <1>a, <1>b, <1>c
  DEF AnswerInv, KeptBody, ControlInv, ReadInv, CloseInv, UpstreamInv,
      DeferCloseBridge, CloseBridge
<1>21. CASE DeferRecover
  BY <1>21, <1>a, <1>b, <1>c
  DEF AnswerInv, KeptBody, ControlInv, ReadInv, CloseInv, UpstreamInv,
      DeferRecover, RecordUsage, CloseBridge
<1>22. ASSUME NEW k \in 0..MaxRead, DrainRead(k)
       PROVE  AnswerInv'
  <2> DEFINE remaining == BodyLimit - Len(body)
             taken == IF k > remaining THEN remaining ELSE k
  <2>1. /\ hpc = "drain" /\ pos + k <= Len(Source) /\ pos' = pos + k
        /\ body = SubSeq(Source, 1, pos) /\ pos <= BodyLimit /\ failure = "none"
        /\ ppc = "none" /\ reply = "none" /\ k \in Nat
    BY <1>22, <1>a, <1>c, StreamAssumption
    DEF DrainRead, HostRead, AnswerInv, UpstreamInv, HandlerPCs
  <2>2. Len(body) = pos
    BY <2>1, <1>b, SliceGrow
  <2>3. taken \in Nat /\ taken <= k /\ pos + taken <= BodyLimit
    BY <2>1, <2>2, <1>b
  <2>4. body' = SubSeq(Source, 1, pos + taken) /\ Len(body') = pos + taken
    BY <1>22, <2>1, <2>3, <1>b, SliceGrow DEF DrainRead
  <2>5. /\ hpc' = IF feed' = "done" \/ k > remaining THEN "drained" ELSE "drain"
        /\ feed' = "more" \/ (feed' = "done" /\ pos' = Len(Source))
        /\ failure' = failure /\ ppc' = ppc /\ reply' = reply
    BY <1>22 DEF DrainRead, HostRead
  <2>6. hpc' = "drain" => feed' = "more" /\ body' = SubSeq(Source, 1, pos') /\ pos' <= BodyLimit
    BY <2>1, <2>2, <2>3, <2>4, <2>5, <1>b
  <2>7. hpc' = "drained" => KeptBody'
    <3>1. body' = SubSeq(Source, 1, Len(body')) /\ Len(body') <= BodyLimit
      BY <2>3, <2>4
    <3>2. hpc' = "drained" => Len(body') = BodyLimit \/ body' = Source
      <4>1. CASE k > remaining
        BY <4>1, <2>2, <2>4, <1>b
      <4>2. CASE ~(k > remaining) /\ feed' = "done"
        <5>1. taken = k /\ pos + k = Len(Source)
          BY <4>2, <2>1, <2>5
        <5>2. QED
          BY <5>1, <2>4, SliceWhole
      <4>3. QED
        BY <4>1, <4>2, <2>5
    <3>3. QED
      BY <3>1, <3>2 DEF KeptBody
  <2>8. QED
    BY <2>1, <2>5, <2>6, <2>7 DEF AnswerInv
<1>23. ASSUME NEW k \in 0..MaxRead, CollectRead(k)
       PROVE  AnswerInv'
  <2>1. /\ hpc = "collect" /\ pos + k <= Len(Source) /\ pos' = pos + k
        /\ body = SubSeq(Source, 1, pos) /\ failure = "none"
        /\ ppc = "none" /\ reply = "none" /\ k \in Nat
    BY <1>23, <1>a, <1>c, StreamAssumption
    DEF CollectRead, HostRead, AnswerInv, UpstreamInv, HandlerPCs
  <2>2. body' = SubSeq(Source, 1, pos) \o SubSeq(Source, pos + 1, pos + k)
    BY <1>23, <2>1 DEF CollectRead
  <2>3. body' = SubSeq(Source, 1, pos')
    BY <2>1, <2>2, <1>b, SliceGrow
  <2>4. /\ hpc' = IF feed' = "done" THEN "collected" ELSE "collect"
        /\ feed' = "more" \/ (feed' = "done" /\ pos' = Len(Source))
        /\ failure' = failure /\ ppc' = ppc /\ reply' = reply
    BY <1>23 DEF CollectRead, HostRead
  <2>5. QED
    BY <2>1, <2>3, <2>4 DEF AnswerInv
<1>24. ASSUME NEW k \in 0..MaxRead, NEW p \in parsed..(pos + k), PumpRead(k, p)
       PROVE  AnswerInv'
  BY <1>24, <1>a, <1>b, <1>c
  DEF AnswerInv, KeptBody, ControlInv, ReadInv, CloseInv, UpstreamInv,
      PumpRead, HostRead
<1>25. CASE UNCHANGED vars
  BY <1>25 DEF AnswerInv, KeptBody, ControlInv, ReadInv, CloseInv, UpstreamInv, vars
<1>26. QED
  BY <1>1, <1>2, <1>3, <1>4, <1>5, <1>6, <1>7, <1>8, <1>9, <1>10, <1>11,
     <1>12, <1>13, <1>14, <1>15, <1>16, <1>17, <1>18, <1>19, <1>20, <1>21,
     <1>22, <1>23, <1>24, <1>25
  DEF Next, HandlerStep, PumpStep, PumpLocal, Terminating

\* The usage is recorded once, at the end of reading.
LEMMA UsageStep == IInv /\ AnswerInv /\ UsageInv /\ [Next]_vars => UsageInv'
<1> SUFFICES ASSUME IInv, AnswerInv, UsageInv, [Next]_vars PROVE UsageInv'
  OBVIOUS
<1> USE DEF handlerVars, pumpVars, upstreamVars, bridgeVars
<1>a. TypeOK /\ ControlInv /\ ReadInv /\ CloseInv /\ UpstreamInv
  BY DEF IInv
<1>b. Len(Source) \in Nat /\ pos \in Nat /\ BodyLimit \in Nat
  BY <1>a, StreamAssumption, LenProperties DEF TypeOK
<1>c. /\ hpc \in HandlerPCs /\ ppc \in PumpPCs /\ failure \in Failures
      /\ upCloses \in {0, 1} /\ reply \in Replies /\ body \in Seq(Pieces)
  BY <1>a DEF TypeOK, UpstreamInv
<1>1. CASE Reject
  BY <1>1, <1>a, <1>b, <1>c
  DEF AnswerInv, UsageInv, ControlInv, ReadInv, CloseInv, UpstreamInv, Reject
<1>2. CASE OpenFails
  BY <1>2, <1>a, <1>b, <1>c
  DEF AnswerInv, UsageInv, ControlInv, ReadInv, CloseInv, UpstreamInv, OpenFails
<1>3. CASE OpenNonSuccess
  BY <1>3, <1>a, <1>b, <1>c
  DEF AnswerInv, UsageInv, ControlInv, ReadInv, CloseInv, UpstreamInv,
      OpenNonSuccess
<1>4. CASE OpenSuccess
  BY <1>4, <1>a, <1>b, <1>c
  DEF AnswerInv, UsageInv, ControlInv, ReadInv, CloseInv, UpstreamInv,
      OpenSuccess
<1>5. CASE Answer
  BY <1>5, <1>a, <1>b, <1>c
  DEF AnswerInv, UsageInv, ControlInv, ReadInv, CloseInv, UpstreamInv, Answer
<1>6. CASE DrainFails
  BY <1>6, <1>a, <1>b, <1>c
  DEF AnswerInv, UsageInv, ControlInv, ReadInv, CloseInv, UpstreamInv,
      DrainFails
<1>7. CASE DrainClose
  BY <1>7, <1>a, <1>b, <1>c
  DEF AnswerInv, UsageInv, ControlInv, ReadInv, CloseInv, UpstreamInv,
      DrainClose, CloseUpstream
<1>8. CASE CollectFails
  BY <1>8, <1>a, <1>b, <1>c
  DEF AnswerInv, UsageInv, ControlInv, ReadInv, CloseInv, UpstreamInv,
      CollectFails
<1>9. CASE CollectClose
  BY <1>9, <1>a, <1>b, <1>c
  DEF AnswerInv, UsageInv, ControlInv, ReadInv, CloseInv, UpstreamInv,
      CollectClose, CloseUpstream
<1>10. CASE PumpReadFails
  BY <1>10, <1>a, <1>b, <1>c
  DEF AnswerInv, UsageInv, ControlInv, ReadInv, CloseInv, UpstreamInv,
      PumpReadFails
<1>11. CASE PumpEmit
  BY <1>11, <1>a, <1>b, <1>c
  DEF AnswerInv, UsageInv, ControlInv, ReadInv, CloseInv, UpstreamInv, PumpEmit
<1>12. CASE PumpEmitRefused
  BY <1>12, <1>a, <1>b, <1>c
  DEF AnswerInv, UsageInv, ControlInv, ReadInv, CloseInv, UpstreamInv,
      PumpEmitRefused
<1>13. CASE PumpReadOn
  BY <1>13, <1>a, <1>b, <1>c
  DEF AnswerInv, UsageInv, ControlInv, ReadInv, CloseInv, UpstreamInv,
      PumpReadOn
<1>14. CASE PumpFlush
  BY <1>14, <1>a, <1>b, <1>c
  DEF AnswerInv, UsageInv, ControlInv, ReadInv, CloseInv, UpstreamInv, PumpFlush
<1>15. CASE PumpFinish
  BY <1>15, <1>a, <1>b, <1>c
  DEF AnswerInv, UsageInv, ControlInv, ReadInv, CloseInv, UpstreamInv,
      PumpFinish
<1>16. CASE PumpRecord
  BY <1>16, <1>a, <1>b, <1>c
  DEF AnswerInv, UsageInv, ControlInv, ReadInv, CloseInv, UpstreamInv,
      PumpRecord, RecordUsage
<1>17. CASE PumpClose
  BY <1>17, <1>a, <1>b, <1>c
  DEF AnswerInv, UsageInv, ControlInv, ReadInv, CloseInv, UpstreamInv,
      PumpClose, CloseBridge
<1>18. CASE PumpPanic
  BY <1>18, <1>a, <1>b, <1>c
  DEF AnswerInv, UsageInv, ControlInv, ReadInv, CloseInv, UpstreamInv, PumpPanic
<1>19. CASE DeferCloseUpstream
  BY <1>19, <1>a, <1>b, <1>c
  DEF AnswerInv, UsageInv, ControlInv, ReadInv, CloseInv, UpstreamInv,
      DeferCloseUpstream, CloseUpstream
<1>20. CASE DeferCloseBridge
  BY <1>20, <1>a, <1>b, <1>c
  DEF AnswerInv, UsageInv, ControlInv, ReadInv, CloseInv, UpstreamInv,
      DeferCloseBridge, CloseBridge
<1>21. CASE DeferRecover
  <2>1. ppc = "recover" /\ ppc' = "end" /\ pos' = pos /\ failure' = failure
        /\ hpc' = hpc /\ reply' = reply
    BY <1>21 DEF DeferRecover
  <2>2. usage' = <<pos>>
    <3>1. CASE failure = "panic"
      <4>1. usage = <<>> /\ usage' = Append(usage, pos)
        BY <1>21, <2>1, <3>1 DEF DeferRecover, RecordUsage, UsageInv
      <4>2. QED
        BY <4>1
    <3>2. CASE failure # "panic"
      BY <1>21, <2>1, <3>2 DEF DeferRecover, UsageInv
    <3>3. QED
      BY <3>1, <3>2
  <2>3. hpc \in {"answer", "done"} /\ reply \notin {"stream_failed", "chunks"}
    BY <1>a, <2>1 DEF ControlInv, AnswerInv
  <2>4. QED
    BY <2>1, <2>2, <2>3 DEF UsageInv
<1>22. ASSUME NEW k \in 0..MaxRead, DrainRead(k)
       PROVE  UsageInv'
  BY <1>22, <1>a, <1>b, <1>c
  DEF AnswerInv, UsageInv, ControlInv, ReadInv, CloseInv, UpstreamInv,
      DrainRead, HostRead
<1>23. ASSUME NEW k \in 0..MaxRead, CollectRead(k)
       PROVE  UsageInv'
  BY <1>23, <1>a, <1>b, <1>c
  DEF AnswerInv, UsageInv, ControlInv, ReadInv, CloseInv, UpstreamInv,
      CollectRead, HostRead
<1>24. ASSUME NEW k \in 0..MaxRead, NEW p \in parsed..(pos + k), PumpRead(k, p)
       PROVE  UsageInv'
  BY <1>24, <1>a, <1>b, <1>c
  DEF AnswerInv, UsageInv, ControlInv, ReadInv, CloseInv, UpstreamInv,
      PumpRead, HostRead
<1>25. CASE UNCHANGED vars
  BY <1>25 DEF AnswerInv, UsageInv, ControlInv, ReadInv, CloseInv, UpstreamInv, vars
<1>26. QED
  BY <1>1, <1>2, <1>3, <1>4, <1>5, <1>6, <1>7, <1>8, <1>9, <1>10, <1>11,
     <1>12, <1>13, <1>14, <1>15, <1>16, <1>17, <1>18, <1>19, <1>20, <1>21,
     <1>22, <1>23, <1>24, <1>25
  DEF Next, HandlerStep, PumpStep, PumpLocal, Terminating

-----------------------------------------------------------------------------
(* The theorems.                                                           *)

LEMMA AnswerInvariant == Spec => [](IInv /\ AnswerInv /\ UsageInv)
<1>1. Init => IInv /\ AnswerInv /\ UsageInv
  BY InitIInv, InitAnswer
<1>2. IInv /\ [Next]_vars => IInv'
  BY TypeStep, ControlStep, BatchStep, ReadStep, CloseStep, UpstreamStep DEF IInv
<1>3. IInv /\ AnswerInv /\ UsageInv /\ [Next]_vars => (IInv /\ AnswerInv /\ UsageInv)'
  BY <1>2, AnswerStep, UsageStep
<1>4. QED
  BY <1>1, <1>3, PTL DEF Spec, SafetySpec

\* drainHostHTTPStreamBody keeps an initial part of the error body, never more
\* than the limit, and all that fits unless a read failed.
THEOREM ErrorBodyBoundedHolds == Spec => []ErrorBodyBounded
<1>1. AnswerInv => ErrorBodyBounded
  BY DEF AnswerInv, KeptBody, ErrorBodyBounded
<1>2. QED
  BY AnswerInvariant, <1>1, PTL

\* A handler that answers with what it read itself has released the host stream
\* and left the bridge alone, and a complete batch is the whole answer
\* (drainHostHTTPStreamBody, executorStreamBatched).
THEOREM AnswerAfterReleaseHolds == Spec => []AnswerAfterRelease
<1>1. IInv /\ AnswerInv => AnswerAfterRelease
  BY DEF IInv, ControlInv, AnswerInv, AnswerAfterRelease
<1>2. QED
  BY AnswerInvariant, <1>1, PTL

\* Before the client can see the end of a stream its usage has been recorded,
\* once, from at least what was delivered (pumpExecutorStreamToBridge,
\* executorStreamBatched).
THEOREM UsageSettledAtEndHolds == Spec => []UsageSettledAtEnd
<1>1. IInv /\ AnswerInv /\ UsageInv => UsageSettledAtEnd
  <2> SUFFICES ASSUME IInv, AnswerInv, UsageInv PROVE UsageSettledAtEnd
    OBVIOUS
  <2>1. TypeOK /\ ControlInv /\ BatchInv /\ CloseInv
    BY DEF IInv
  <2>2. pos \in Nat /\ parsed \in 0..pos /\ Len(delivered) <= parsed /\ ppc \in PumpPCs
    <3>1. Len(Source) \in Nat /\ pos \in 0..Len(Source) /\ parsed \in 0..pos
      BY <2>1, StreamAssumption, LenProperties DEF TypeOK
    <3>2. Len(delivered) <= parsed /\ ppc \in PumpPCs
      BY <2>1 DEF TypeOK, BatchInv
    <3>3. QED
      BY <3>1, <3>2
  <2>3. Len(delivered) \in Nat /\ Len(<<>>) = 0 /\ Len(<<pos>>) = 1 /\ <<pos>>[1] = pos
    BY <2>1, LenProperties DEF TypeOK
  <2>4. ASSUME ppc # "none", usage = <<pos>>
        PROVE  Len(usage) = 1 /\ usage[1] >= Len(delivered) /\ usage[1] >= Len(body)
    <3>1. body = <<>>
      BY <2>4 DEF AnswerInv
    <3>2. QED
      BY <2>2, <2>3, <2>4, <3>1
  <2>5. CASE bridgeCloses = 1 /\ failure # "panic"
    <3>1. ppc \in {"closeUpstream", "closeBridge", "recover", "end"}
      BY <2>1, <2>2, <2>5 DEF ControlInv, CloseInv, PumpPCs
    <3>2. usage = <<pos>> /\ ppc # "none"
      BY <2>5, <3>1 DEF UsageInv
    <3>3. reply # "stream_failed"
      BY <3>2 DEF AnswerInv
    <3>4. QED
      BY <2>3, <2>4, <3>2, <3>3 DEF UsageSettledAtEnd
  <2>6. CASE ppc = "end"
    <3>1. usage = <<pos>> /\ reply # "stream_failed"
      BY <2>6 DEF UsageInv, AnswerInv
    <3>2. QED
      BY <2>3, <2>4, <2>6, <3>1 DEF UsageSettledAtEnd
  <2>7. CASE reply = "chunks"
    <3>1. usage = <<pos>> /\ pos = Len(body)
      BY <2>7 DEF UsageInv, AnswerInv
    <3>2. QED
      BY <2>2, <2>3, <2>7, <3>1 DEF UsageSettledAtEnd
  <2>8. CASE /\ ~(bridgeCloses = 1 /\ failure # "panic")
             /\ ppc # "end" /\ reply # "chunks"
    <3>1. Len(usage) <= 1 /\ (reply = "stream_failed" => usage = <<>>)
      <4>1. usage = <<>> \/ usage = <<pos>>
        BY DEF UsageInv
      <4>2. Len(usage) <= 1
        <5>1. CASE usage = <<>>
          BY <5>1, <2>3
        <5>2. CASE usage = <<pos>>
          BY <5>2, <2>3
        <5>3. QED
          BY <4>1, <5>1, <5>2
      <4>3. QED
        BY <4>2 DEF UsageInv
    <3>2. QED
      BY <2>8, <3>1 DEF UsageSettledAtEnd
  <2>9. QED
    BY <2>5, <2>6, <2>7, <2>8
<1>2. QED
  BY AnswerInvariant, <1>1, PTL
=============================================================================
