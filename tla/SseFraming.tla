------------------------------ MODULE SseFraming ------------------------------
(***************************************************************************)
(* How the bytes of an upstream stream become events and a usage record.   *)
(* The pump feeds every read to sseStreamParser and also gathers it in     *)
(* streamUsageBuffer, which the batched path returns as the whole reply.   *)
(* Reads may end anywhere; the parser must not notice.                     *)
(*                                                                         *)
(* A byte string is a sequence of tokens: "data" and "event" are field     *)
(* names with their colon, "colon" opens a comment, "done" is [DONE], "x"  *)
(* and "y" are text, "u" and "v" the two halves of a JSON object that      *)
(* carries usage; "sp", "cr" and "lf" are themselves.                      *)
(***************************************************************************)
EXTENDS Naturals, Sequences, SequencesExt, FiniteSetsExt

CONSTANTS Streams,        \* the byte strings the upstream may answer with
          MaxReads,       \* how many non-empty reads one stream is cut into
          SplitLineEnds   \* whether a read may end between "cr" and "lf"

Bytes == {"data", "event", "colon", "done", "x", "y", "u", "v", "sp", "cr", "lf"}
Spaces == {"sp", "cr", "lf"}

ASSUME FramingAssumption ==
  Streams \subseteq Seq(Bytes) /\ MaxReads \in Nat \ {0} /\ SplitLineEnds \in BOOLEAN

VARIABLES
  stream,   \* the upstream's answer
  pos,      \* bytes the host has handed out
  reads,    \* non-empty reads so far
  pending,  \* sseStreamParser.pending
  out,      \* events handed to emitUpstreamEvents, in order
  buffer,   \* streamUsageBuffer
  cut,      \* the worst place a read has ended at
  usage,    \* usage objects the record was summed over
  ended     \* the pump has flushed and recorded

vars == <<stream, pos, reads, pending, out, buffer, cut, usage, ended>>

-----------------------------------------------------------------------------
(* The parser, as the code has it.                                         *)

\* strings.TrimSpace
TrimSpace(s) ==
  LET solid == {i \in DOMAIN s : s[i] \notin Spaces}
  IN  IF solid = {} THEN <<>> ELSE SubSeq(s, Min(solid), Max(solid))

\* strings.ReplaceAll(chunk, "\r\n", "\n"): each "cr" before a "lf" is left out.
Normalise(chunk) ==
  LET kept[i \in 0..Len(chunk)] ==
        IF i = 0 THEN <<>>
        ELSE IF chunk[i] = "cr" /\ i < Len(chunk) /\ chunk[i + 1] = "lf" THEN kept[i - 1]
        ELSE kept[i - 1] \o <<chunk[i]>>
  IN  kept[Len(chunk)]

\* strings.Split(s, "\n")
ByteSplit(lines, b) ==
  IF b = "lf" THEN Append(lines, <<>>) ELSE Append(Front(lines), Append(Last(lines), b))
SplitLines(s) ==
  LET split[i \in 0..Len(s)] == IF i = 0 THEN <<<<>>>> ELSE ByteSplit(split[i - 1], s[i])
  IN  split[Len(s)]

HasPrefix(s, b) == s # <<>> /\ Head(s) = b
TrimPrefix(s, b) == IF HasPrefix(s, b) THEN Tail(s) ELSE s

\* strings.Join(values, "\n")
LineJoined(joined, value) == joined \o <<"lf">> \o value
JoinLines(values) ==
  LET joined[i \in 0..Len(values)] ==
        IF i = 0 THEN <<>>
        ELSE IF i = 1 THEN values[1] ELSE LineJoined(joined[i - 1], values[i])
  IN  joined[Len(values)]

\* The data fields of a block that have a value
Field(line) == TrimPrefix(TrimPrefix(TrimSpace(line), "data"), "sp")
LineField(data, line) ==
  IF HasPrefix(TrimSpace(line), "data") /\ TrimSpace(Field(line)) # <<>>
  THEN Append(data, Field(line)) ELSE data
FieldsOf(lines) ==
  LET fields[i \in 0..Len(lines)] ==
        IF i = 0 THEN <<>> ELSE LineField(fields[i - 1], lines[i])
  IN  fields[Len(lines)]
DataFields(block) == FieldsOf(SplitLines(block))

\* sseEventPayload: the payloads of one block, none or one
sseEventPayload(block) ==
  LET data == DataFields(block)
  IN  IF data = <<>> \/ TrimSpace(JoinLines(data)) = <<"done">> THEN <<>>
      ELSE <<JoinLines(data)>>

\* The loop of drain: payloads of the blocks that end with a blank line, and
\* what is left.
Drain[s \in Seq(Bytes)] ==
  LET blank == {i \in 1..(Len(s) - 1) : s[i] = "lf" /\ s[i + 1] = "lf"}
      end   == Min(blank)
      after == Drain[SubSeq(s, end + 2, Len(s))]
  IN  IF blank = {} THEN [events |-> <<>>, rest |-> s]
      ELSE [events |-> sseEventPayload(SubSeq(s, 1, end - 1)) \o after.events,
            rest   |-> after.rest]

\* Mutation: the field name is not stripped.
IsUsage_KeepsPrefix(line) == TrimSpace(line) = <<"u", "v">>

\* parseUsageTotalsFromStreamText: whether a line is a whole usage object
IsUsage(line) == TrimSpace(TrimPrefix(TrimSpace(line), "data")) = <<"u", "v">>

\* parseUsageTotalsFromStreamText: how many lines are
LineCounted(n, line) == IF IsUsage(line) THEN n + 1 ELSE n
CountOf(lines) ==
  LET count[i \in 0..Len(lines)] ==
        IF i = 0 THEN 0 ELSE LineCounted(count[i - 1], lines[i])
  IN  count[Len(lines)]
UsageLines(s) == CountOf(SplitLines(s))

-----------------------------------------------------------------------------
(* What the stream means, to a reader that takes it byte by byte and keeps *)
(* no text: lines end with "lf" or "cr" "lf", a blank line ends a frame,   *)
(* and the event of a frame is its non-empty data values, one per line.    *)

Reader == [events : Seq(Seq(Bytes)),   \* of the frames that are complete
           data   : Seq(Seq(Bytes)),   \* the values of the frame being read
           line   : Seq(Bytes),        \* the line being read
           usage  : Nat]               \* data lines that are a usage object

Fresh == [events |-> <<>>, data |-> <<>>, line |-> <<>>, usage |-> 0]

Value(line) == TrimPrefix(Tail(line), "sp")
IsData(line) == HasPrefix(line, "data") /\ Value(line) # <<>>

\* The event of a frame with this data, if it has one
Dispatch(data) ==
  IF data = <<>> \/ JoinLines(data) = <<"done">> THEN <<>> ELSE <<JoinLines(data)>>

\* The end of a line
LineRead(r) ==
  [events |-> IF r.line = <<>> THEN r.events \o Dispatch(r.data) ELSE r.events,
   data   |-> IF r.line = <<>> THEN <<>>
              ELSE IF IsData(r.line) THEN Append(r.data, Value(r.line)) ELSE r.data,
   line   |-> <<>>,
   usage  |-> IF IsData(r.line) /\ Value(r.line) = <<"u", "v">> THEN r.usage + 1
              ELSE r.usage]

ByteRead(r, b) ==
  IF b = "lf" THEN LineRead(r)
  ELSE IF b = "cr" THEN r ELSE [r EXCEPT !.line = Append(r.line, b)]

ReadUpTo(s) ==
  LET read[i \in 0..Len(s)] == IF i = 0 THEN Fresh ELSE ByteRead(read[i - 1], s[i])
  IN  read[Len(s)]

\* The end of the stream ends the last line and the last frame.
AtTheEnd(s) == LineRead(LineRead(ReadUpTo(s)))
Events(s) == AtTheEnd(s).events
UsageCarried(s) == AtTheEnd(s).usage

\* Streams with no stray white space: once "cr" "lf" is "lf" and the last line
\* has its end, spaces are single, between other bytes of a line, but for the
\* one that may follow the name of a field without a value.
PlainAt(s, i) ==
  /\ s[i] # "cr"
  /\ s[i] = "sp" => i > 1 /\ s[i - 1] \notin {"sp", "lf"}
  /\ s[i] = "lf" /\ i > 1 /\ s[i - 1] = "sp" =>
       i > 2 /\ s[i - 2] = "data" /\ (i = 3 \/ s[i - 3] = "lf")
Plain(s) == \A i \in 1..Len(s) : PlainAt(s, i)

\* Streams whose usage objects are each the value of a data line, and where a
\* "cr" stands in front of "lf" only
UsageData == {<<"data", "u", "v">>, <<"data", "sp", "u", "v">>}
WholeAt(s, i) ==
  /\ s[i] = "v" => ReadUpTo(SubSeq(s, 1, i)).line \in UsageData
  /\ i > 1 /\ s[i - 1] = "v" => s[i] \in {"cr", "lf"}
  /\ i > 1 /\ s[i - 1] = "cr" => s[i] = "lf"
Whole(s) == \A i \in 1..Len(s) : WholeAt(s, i)

\* Where a read ends when it leaves off after the first n bytes of s
Cut(s, n) ==
  IF n = Len(s) THEN "frame"
  ELSE IF s[n] # "lf" THEN "inside"
  ELSE IF ReadUpTo(SubSeq(s, 1, n - 1)).line = <<>> THEN "frame" ELSE "line"

-----------------------------------------------------------------------------
Init ==
  /\ stream \in Streams
  /\ pos = 0 /\ reads = 0 /\ cut = "frame"
  /\ pending = <<>> /\ out = <<>> /\ buffer = <<>>
  /\ usage = 0 /\ ended = FALSE

\* Mutation: a read is parsed by itself, without what was left over.
Feed_ForgetsPending(chunk) ==
  LET drained == Drain[Normalise(chunk)]
  IN  out' = out \o drained.events /\ pending' = drained.rest

\* Mutation: only the first complete block of a read is taken.
Feed_FirstBlockOnly(chunk) ==
  LET fed     == pending \o Normalise(chunk)
      drained == Drain[fed]
  IN  IF drained.events = <<>> THEN out' = out /\ pending' = fed
      ELSE out' = Append(out, drained.events[1]) /\ pending' = fed

\* sse.feed(payload)
Feed(chunk) ==
  LET drained == Drain[pending \o Normalise(chunk)]
  IN  out' = out \o drained.events /\ pending' = drained.rest

\* Mutation: the buffer keeps the last read only.
Read_KeepsLast(k) ==
  LET chunk == SubSeq(stream, pos + 1, pos + k)
  IN  /\ ~ ended /\ pos + k <= Len(stream)
      /\ reads + 1 < MaxReads \/ pos + k = Len(stream)
      /\ SplitLineEnds \/ Last(chunk) # "cr"
      /\ pos' = pos + k /\ reads' = reads + 1
      /\ Feed(chunk)
      /\ buffer' = chunk \o <<"lf">>
      /\ cut' = IF Cut(stream, pos + k) = "frame" THEN cut
                ELSE IF cut = "inside" THEN cut ELSE Cut(stream, pos + k)
      /\ UNCHANGED <<stream, usage, ended>>

\* One non-empty read: fed to the parser and kept, with a line feed after it.
Read(k) ==
  LET chunk == SubSeq(stream, pos + 1, pos + k)
  IN  /\ ~ ended /\ pos + k <= Len(stream)
      /\ reads + 1 < MaxReads \/ pos + k = Len(stream)
      /\ SplitLineEnds \/ Last(chunk) # "cr"
      /\ pos' = pos + k /\ reads' = reads + 1
      /\ Feed(chunk)
      /\ buffer' = buffer \o chunk \o <<"lf">>
      /\ cut' = IF Cut(stream, pos + k) = "frame" THEN cut
                ELSE IF cut = "inside" THEN cut ELSE Cut(stream, pos + k)
      /\ UNCHANGED <<stream, usage, ended>>

\* The upstream is done: sse.flush(), then the usage record.
End ==
  /\ ~ ended /\ pos = Len(stream)
  /\ out' = out \o Drain[pending].events \o sseEventPayload(Drain[pending].rest)
  /\ pending' = <<>>
  /\ usage' = UsageLines(buffer)
  /\ ended' = TRUE
  /\ UNCHANGED <<stream, pos, reads, buffer, cut>>

Next == \/ \E k \in 1..Len(stream) : Read(k)
        \/ End
        \/ ended /\ UNCHANGED vars

Spec == Init /\ [][Next]_vars

-----------------------------------------------------------------------------
(* Properties                                                              *)

\* The parser's events are those of the stream, in order: as soon as the blank
\* line after a frame was read its event has been emitted, whatever is still to
\* come, and the unterminated last one at the end (feed, drain, flush).
EventsFaithful ==
  out = IF ended THEN Events(stream) ELSE ReadUpTo(SubSeq(stream, 1, pos)).events

\* "the bridge never loses an upstream frame": the comment on sseStreamParser.
NoFrameLost == ended => out = Events(stream)

\* The parser does not notice where reads end: what it has emitted and holds
\* back are what the bytes read so far give when they come at once, and after
\* the flush what the whole answer gives (feed, drain, flush).
CutsUnseen ==
  LET parsed == Drain[Normalise(SubSeq(stream, 1, pos))]
  IN  IF ended THEN out = parsed.events \o sseEventPayload(parsed.rest)
      ELSE out = parsed.events /\ pending = parsed.rest

\* The usage record never counts an object twice or one the stream does not
\* carry, and counts all of them when reads end at line ends
\* (streamUsageBuffer, parseUsageTotalsFromStreamText).
UsageAccounted ==
  ended => /\ usage <= UsageCarried(stream)
           /\ cut # "inside" => usage = UsageCarried(stream)

\* The batched reply carries the events of the stream when reads end at frame
\* ends (executorStreamBatched).
BatchedReplyFaithful == ended /\ cut = "frame" => Events(buffer) = Events(stream)
=============================================================================
