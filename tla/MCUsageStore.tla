---------------------------- MODULE MCUsageStore ----------------------------
(* Three records are kept, and up to four observations are made; the answers *)
(* carry their usage each in another way, by a clock that is set back once.  *)
EXTENDS UsageReport

Symmetry == Permutations(Threads)

Other == [kind |-> "other", numbers |-> <<>>, hit |-> FALSE, nested |-> <<>>, items |-> <<>>]
Object(numbers) == [Other EXCEPT !.kind = "object", !.numbers = numbers]
Holds(key, i)   == [Other EXCEPT !.kind = "object", !.nested = (key :> i)]
List(items)     == [Other EXCEPT !.kind = "list", !.items = items]
Says(i, o, c)   == [input |-> i, output |-> o, cached |-> c]

Answer == [id |-> 0, at |-> 0, model |-> "pro", app |-> "hermes", principal |-> "a",
           values |-> <<Other>>, body |-> 1, lines |-> <<>>,
           headers |-> [numbers |-> <<>>, hit |-> FALSE], says |-> Says(0, 0, 0)]

\* {"response": {"usage": ...}, "data": [...]}, of which the second is none
Nested == [Answer EXCEPT !.id = 1, !.at = 30 * Day, !.says = Says(3, 2, 1), !.body = 5,
  !.values = <<Other, [Object([prompt |-> 3, completion |-> 2, promptCached |-> 1]) EXCEPT !.hit = TRUE],
               Holds("usage", 2), List(<<1>>),
               [Holds("response", 3) EXCEPT !.nested = @ @@ ("data" :> 4)]>>]
\* A failure, with nothing to record
Silent == [Answer EXCEPT !.id = 2, !.at = 30 * Day, !.values = <<Other, Holds("error", 1)>>, !.body = 2]
\* The lines of a stream, of which two carry usage
Stream == [Answer EXCEPT !.id = 3, !.at = 30 * Day - 4, !.app = "codex", !.says = Says(5, 1, 0),
  !.values = <<Other, Object([other |-> 1]), Holds("usage", 2), Holds("response", 3),
               Object([input |-> 4, output |-> 1, total |-> 5]), Holds("usage", 5),
               Object([input |-> 1, prompt |-> 1]), Holds("usage", 7)>>,
  !.lines = <<1, 4, 6, 8>>]
\* Headers only, by an identity that is not known
Headed == [Answer EXCEPT !.id = 4, !.at = 37 * Day - 4, !.principal = "", !.model = "", !.says = Says(2, 4, 0),
  !.headers.numbers = [prompt |-> 2, completion |-> 4]]
\* A list of results, a year after the first
Batch == [Answer EXCEPT !.id = 5, !.at = 30 * Day + Year, !.app = "codex", !.says = Says(4, 0, 4), !.body = 4,
  !.values = <<Object([input |-> 3, cached |-> 3]), Object([input |-> 1, cached |-> 1]),
               List(<<1, 2>>), Holds("data", 3)>>]
MCAnswers == <<Nested, Silent, Stream, Headed, Batch>>

\* What the answers are said to carry is what their objects say.
ASSUME AnswersAreOrderly == \A a \in ToSet(Answers) : Orderly(a)

MCQueries == {[period |-> p, bucket |-> b, source |-> s] :
  p \in {"", "5h", "7d", "month", "all"}, b \in {"", "hour", "week", "month"},
  s \in {"", "hermes", "codex"}}
MCNows == {30 * Day + 1, 38 * Day, 31 * Day + Year}
=============================================================================
