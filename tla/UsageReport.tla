----------------------------- MODULE UsageReport -----------------------------
(***************************************************************************)
(* What becomes of an answer of the upstream in the usage page: the tokens *)
(* are read out of its body or headers into a record, UsageStore keeps the *)
(* record, and the page sums the records that match its filter.            *)
(*                                                                         *)
(* Time is counted in hours, a month has 30 days and a year twelve months; *)
(* a JSON value is an object with numbers, a flag and nested values, or a  *)
(* list, or something else.  The values of an answer are numbered, each    *)
(* after those it holds.  How numbers are spelt is left out.               *)
(***************************************************************************)
EXTENDS UsageStore, FiniteSetsExt, TLC

CONSTANTS
  Answers,     \* the answers of the upstream, in the order they are recorded
  Queries,     \* the query strings of the usage page
  Nows,        \* when it is asked for
  RecentRows   \* the records it lists, 24 in the code

Tokens == {"prompt", "completion", "total", "input", "output", "cached"}

\* Counts are natural numbers.
Counted(o) == (\A f \in DOMAIN o.numbers : o.numbers[f] \in Nat) /\ o.hit \in BOOLEAN

NoUsage == [n |-> [f \in Tokens |-> 0], hit |-> FALSE]

-----------------------------------------------------------------------------
(* Reading the tokens                                                      *)

\* values[1] + ... + values[n]
Sum(n, values) ==
  LET sum[i \in Nat] == IF i = 0 THEN 0 ELSE sum[i - 1] + values[i]
  IN  sum[n]

mergeUsageTotals(all) ==
  [n   |-> [f \in Tokens |-> Sum(Len(all), [i \in DOMAIN all |-> all[i].n[f]])],
   hit |-> \E i \in DOMAIN all : all[i].hit]

\* Mutation: a total is computed although there is one.
Completed_TotalAnyway(n, hit) ==
  LET input  == IF n["input"] = 0 THEN n["prompt"] ELSE n["input"]
      output == IF n["output"] = 0 THEN n["completion"] ELSE n["output"]
  IN  [n   |-> [n EXCEPT !["input"] = input, !["output"] = output, !["total"] = @ + input + output],
       hit |-> hit]

\* Input and output stand in for prompt and completion, which are what they
\* are filled from; without a total it is their sum.  All zeros is no usage.
Completed(n, hit) ==
  LET input  == IF n["input"] = 0 THEN n["prompt"] ELSE n["input"]
      output == IF n["output"] = 0 THEN n["completion"] ELSE n["output"]
      parts  == n["prompt"] + n["completion"]
      total  == IF n["total"] # 0 THEN n["total"] ELSE IF parts > 0 THEN parts ELSE input + output
  IN  [n   |-> [n EXCEPT !["input"] = input, !["output"] = output, !["total"] = total],
       hit |-> hit]

Number(o, f) == IF f \in DOMAIN o.numbers THEN o.numbers[f] ELSE 0

\* The details of prompt and completion may name more cached tokens.
usageTotalsFromUsageObject(o) ==
  Completed([f \in Tokens |->
               IF f # "cached" THEN Number(o, f)
               ELSE Max({Number(o, f), Number(o, "promptCached"), Number(o, "completionCached")})],
            o.hit)

Further == <<"usage", "result", "data", "response", "body", "payload">>

\* An object that has no tokens itself may have them further in, under the
\* first of those keys that leads to some; those of a list are summed.
usageTotalsFromValue(values) ==
  LET totals[i \in DOMAIN values] ==
        LET v     == values[i]
            own   == usageTotalsFromUsageObject(v)
            leads == {k \in DOMAIN Further : /\ Further[k] \in DOMAIN v.nested
                                            /\ totals[v.nested[Further[k]]] # NoUsage}
        IN  CASE v.kind = "list" -> mergeUsageTotals([k \in DOMAIN v.items |-> totals[v.items[k]]])
              [] v.kind = "object" ->
                   IF own # NoUsage THEN own
                   ELSE IF leads = {} THEN NoUsage ELSE totals[v.nested[Further[Min(leads)]]]
              [] OTHER -> NoUsage
  IN  totals

\* A body is one value, or lines with a value each ("data:" taken off); the
\* headers count only if it says nothing.
parseUsageObservation(a) ==
  LET totals == usageTotalsFromValue(a.values)
      whole  == totals[a.body]
      lines  == mergeUsageTotals([i \in DOMAIN a.lines |-> totals[a.lines[i]]])
  IN  IF whole # NoUsage THEN whole
      ELSE IF lines # NoUsage THEN lines
      ELSE Completed([f \in Tokens |-> Number(a.headers, f)], a.headers.hit)

\* recordUsageFromExecutorResponse: an answer without usage leaves no record.
\* (What the answer says and its id are for the properties.)
Observations ==
  LET Record(a) == [at |-> a.at, model |-> a.model, app |-> a.app, principal |-> a.principal, id |-> a.id,
                    totals |-> parseUsageObservation(a), says |-> a.says]
      made[i \in 0..Len(Answers)] ==
        IF i = 0 THEN <<>>
        ELSE IF Record(Answers[i]).totals = NoUsage THEN made[i - 1]
        ELSE Append(made[i - 1], Record(Answers[i]))
  IN  made[Len(Answers)]

\* Times and counts are natural numbers, and no value holds itself.
ASSUME AnswersAssumption ==
  Answers \in Seq(ToSet(Answers)) /\ \A a \in ToSet(Answers) :
    /\ a.at \in Nat /\ Counted(a.headers)
    /\ a.values \in Seq(ToSet(a.values)) /\ a.body \in DOMAIN a.values /\ a.lines \in Seq(DOMAIN a.values)
    /\ \A i \in DOMAIN a.values :
         /\ Counted(a.values[i]) /\ a.values[i].items \in Seq(1..(i - 1))
         /\ \A k \in DOMAIN a.values[i].nested : a.values[i].nested[k] \in 1..(i - 1)

ASSUME ReportAssumption == Len(Observations) >= MaxObservations /\ RecentRows \in Nat \ {0}

-----------------------------------------------------------------------------
(* The page                                                                *)

recentUsageRecords(list) == Reverse([i \in DOMAIN list |-> Observations[list[i]]])

\* Other names for the periods and buckets, and what stands for all the rest
normalizeUsageFilter(q) ==
  LET Period == ("current_month" :> "current_month" @@ "month" :> "current_month"
                 @@ "last_5_hours" :> "last_5_hours" @@ "5h" :> "last_5_hours"
                 @@ "last_7_days" :> "last_7_days" @@ "7d" :> "last_7_days"
                 @@ "all" :> "all_time" @@ "all_time" :> "all_time")
  IN  [period |-> IF q.period \in DOMAIN Period THEN Period[q.period] ELSE "last_30_days",
       bucket |-> IF q.bucket \in {"hour", "minute", "week", "month"} THEN q.bucket ELSE "day",
       source |-> IF q.source = "" THEN "all" ELSE q.source]

Day   == 24
Month == 30 * Day
Year  == 12 * Month

\* A record of the future is in every period but another month.
recordMatchesUsageFilter(r, filter, now) ==
  LET hours == [last_5_hours |-> 5, last_7_days |-> 7 * Day, last_30_days |-> 30 * Day]
  IN  /\ filter.period \in DOMAIN hours => now <= r.at + hours[filter.period]
      /\ filter.period = "current_month" => r.at \div Month = now \div Month
      /\ filter.source # "all" => r.app = filter.source

\* What one record adds to a count
Worth(r, f) ==
  CASE f = "requests" -> 1
    [] f = "hits"     -> IF r.totals.hit THEN 1 ELSE 0
    [] OTHER          -> r.totals.n[f]

\* A count over some of the records
SumOf(rs, some, f) == Sum(Len(rs), [i \in DOMAIN rs |-> IF i \in some THEN Worth(rs[i], f) ELSE 0])

Counts == {"requests", "prompt", "completion", "total", "cached", "hits"}

Tally(rs, some) == [f \in Counts |-> SumOf(rs, some, f)]

summarizeUsageRecords(rs, shown) ==
  LET Named(field) == Cardinality({rs[i][field] : i \in shown} \ {""})
  IN  [tally |-> Tally(rs, shown),
       input |-> SumOf(rs, shown, "input"), output |-> SumOf(rs, shown, "output"),
       principals |-> Named("principal"), models |-> Named("model"), sources |-> Named("app")]

\* sort.Slice: all items, none in front of one it is to stand behind
Sorted(items, behind) ==
  CHOOSE s \in [1..Cardinality(items) -> items] :
    /\ \A x \in items : \E i \in 1..Cardinality(items) : s[i] = x
    /\ \A i, j \in 1..Cardinality(items) : i < j => <<s[i], s[j]>> \notin behind

ByTime(items) == Sorted(items, {p \in items \X items : p[2].order < p[1].order})

\* Mutation: weeks are told apart by the day of the week.
usageBucketLabel_Weekday(at, bucket) ==
  CASE bucket = "day"   -> <<at \div Day, (at \div Day) * Day>>
    [] bucket = "week"  -> <<(at \div Day) % 7, (at \div (7 * Day)) * 7 * Day>>
    [] bucket = "month" -> <<at \div Month, (at \div Month) * Month>>
    [] OTHER            -> <<at % Year, at>>

\* The label and where it belongs in time.  The labels of hours and minutes
\* have no year.
usageBucketLabel(at, bucket) ==
  CASE bucket = "day"   -> <<at \div Day, (at \div Day) * Day>>
    [] bucket = "week"  -> <<at \div (7 * Day), (at \div (7 * Day)) * 7 * Day>>
    [] bucket = "month" -> <<at \div Month, (at \div Month) * Month>>
    [] OTHER            -> <<at % Year, at>>

\* Mutation: a bucket is made anew for every record that falls into it.
groupUsageBuckets_Anew(rs, shown, bucket) ==
  LET Label(i) == usageBucketLabel(rs[i].at, bucket)
      Of(l)    == {i \in shown : Label(i)[1] = l}
      Item(l)  == [label |-> l, order |-> Label(Min(Of(l)))[2], tally |-> Tally(rs, {Max(Of(l))})]
  IN  ByTime({Item(Label(i)[1]) : i \in shown})

\* A bucket stands where the first record that falls into it belongs.
groupUsageBuckets(rs, shown, bucket) ==
  LET Label(i) == usageBucketLabel(rs[i].at, bucket)
      Of(l)    == {i \in shown : Label(i)[1] = l}
      Item(l)  == [label |-> l, order |-> Label(Min(Of(l)))[2], tally |-> Tally(rs, Of(l))]
  IN  ByTime({Item(Label(i)[1]) : i \in shown})

\* The most tokens first, then the most requests (then by the alphabet)
Above(x, y) ==
  \/ x.tally["total"] > y.tally["total"]
  \/ x.tally["total"] = y.tally["total"] /\ x.tally["requests"] > y.tally["requests"]

ByTokens(items) == Sorted(items, {p \in items \X items : Above(p[2], p[1])})

NameOf(text) == IF text = "" THEN "unknown" ELSE text

groupUsageGroups(rs, shown, field) ==
  LET Of(l)   == {i \in shown : NameOf(rs[i][field]) = l}
      Item(l) == [label |-> l, tally |-> Tally(rs, Of(l))]
  IN  ByTokens({Item(NameOf(rs[i][field])) : i \in shown})

\* Numerator and denominator of a group's share: requests if there are no tokens
usageShareMetric(tally, all) ==
  IF all["total"] > 0 THEN <<tally["total"], all["total"]>> ELSE <<tally["requests"], all["requests"]>>

\* The page over the records of list that match the filter
usageDashboardData(list, q, now) ==
  LET filter == normalizeUsageFilter(q)
      rs     == recentUsageRecords(list)
      shown  == {i \in DOMAIN rs : recordMatchesUsageFilter(rs[i], filter, now)}
  IN  [filter  |-> filter,
       summary |-> summarizeUsageRecords(rs, shown),
       buckets |-> groupUsageBuckets(rs, shown, filter.bucket),
       models  |-> groupUsageGroups(rs, shown, "model"),
       sources |-> groupUsageGroups(rs, shown, "app"),
       offered |-> {NameOf(rs[i].app) : i \in shown},   \* observedUsageSources
       recent  |-> {i \in shown : Cardinality({j \in shown : j < i}) < RecentRows}]

-----------------------------------------------------------------------------
(* Properties, of the records in memory at any time.  They speak of all    *)
(* pages that show these records; the set of all pages, and of the lists   *)
(* with a wrong one, are constants, which TLC works out once.              *)

Lists == {s \in BoundedSeq(1..MaxObservations, MaxRecords) : Increasing(s)}

Pages == {[list |-> s, data |-> usageDashboardData(s, q, now)] : s \in Lists, q \in Queries, now \in Nows}

\* What an object says of its tokens, if it says it by one set of names
Carries(o) ==
  [input  |-> Max({Number(o, "input"), Number(o, "prompt")}),
   output |-> Max({Number(o, "output"), Number(o, "completion")}),
   cached |-> Max({Number(o, "cached"), Number(o, "promptCached"), Number(o, "completionCached")})]

ByOneName(o) ==
  /\ \/ Number(o, "prompt") = 0 /\ Number(o, "completion") = 0
     \/ Number(o, "input") = 0 /\ Number(o, "output") = 0
     \/ Number(o, "prompt") = Number(o, "input") /\ Number(o, "completion") = Number(o, "output")
  /\ Number(o, "total") \in {0, Carries(o).input + Carries(o).output}

\* What all objects and the headers of an answer say together
Carried(a, f) ==
  Sum(Len(a.values), [i \in DOMAIN a.values |->
                        IF a.values[i].kind = "object" THEN Carries(a.values[i])[f] ELSE 0])
    + Carries(a.headers)[f]

Bears(o) == o.hit \/ \E f \in Tokens \union {"promptCached", "completionCached"} : Number(o, f) # 0

HeldBy(v) ==
  IF v.kind = "list" THEN ToSet(v.items) ELSE IF v.kind = "object" THEN Range(v.nested) ELSE {}

\* No value is in two places.
InOnePlace(a) ==
  /\ IsInjective(a.lines)
  /\ \A i \in DOMAIN a.values :
       /\ a.values[i].kind = "list" => IsInjective(a.values[i].items)
       /\ HeldBy(a.values[i]) \intersect (ToSet(a.lines) \union {a.body}) = {}
       /\ \A j \in DOMAIN a.values : i # j => HeldBy(a.values[i]) \intersect HeldBy(a.values[j]) = {}

\* Usage is within the values of found, and said once: in the body or in lines
\* or in the headers, and of an object in itself or under one key.
SaidOnce(a, found) ==
  /\ \A i \in DOMAIN a.values :
       LET v == a.values[i]
       IN  /\ v.kind = "object" /\ Bears(v) => i \in found
           /\ HeldBy(v) \intersect found # {} => i \in found
           /\ v.kind = "object" => \A k \in DOMAIN v.nested : v.nested[k] \in found =>
                /\ k \in ToSet(Further) /\ ~ Bears(v)
                /\ \A l \in DOMAIN v.nested : v.nested[l] \in found => k = l
  /\ found \subseteq ToSet(a.lines) \union {a.body} \union UNION {HeldBy(a.values[i]) : i \in DOMAIN a.values}
  /\ a.body \in found => ToSet(a.lines) \intersect found = {}
  /\ Bears(a.headers) => found = {}

\* An answer that tells its tokens without contradiction or repetition
Orderly(a) ==
  /\ InOnePlace(a) /\ \E found \in SUBSET DOMAIN a.values : SaidOnce(a, found)
  /\ \A i \in DOMAIN a.values : a.values[i].kind = "object" => ByOneName(a.values[i])
  /\ ByOneName(a.headers) /\ Number(a.headers, "promptCached") = 0 /\ Number(a.headers, "completionCached") = 0
  /\ \A f \in {"input", "output", "cached"} : a.says[f] = Carried(a, f)

\* The tokens of a record are those its answer carried, whether as one object,
\* nested, as lines of a stream or in headers, and under either set of names,
\* if the answer is orderly (parseUsageObservation).
TokensAsCarried ==
  \A i \in ToSet(records) :
    LET o == Observations[i]  t == o.totals.n
    IN  /\ t["input"] = o.says.input /\ t["output"] = o.says.output
        /\ t["total"] = o.says.input + o.says.output /\ t["cached"] = o.says.cached

AddsUp(data) ==
  \A items \in {data.buckets, data.models, data.sources} :
    /\ \A f \in Counts :
         Sum(Len(items), [i \in DOMAIN items |-> items[i].tally[f]]) = data.summary.tally[f]
    /\ \A i, j \in DOMAIN items : items[i].label = items[j].label => i = j
    /\ \A i \in DOMAIN items :
         LET share == usageShareMetric(items[i].tally, data.summary.tally)
         IN  share[1] <= share[2] /\ share[2] > 0

Miscounted == {p.list : p \in {p \in Pages : ~ AddsUp(p.data)}}

\* Buckets, models and sources each account for every request and token of the
\* summary, once, and no share exceeds the whole (usageDashboardData).
TotalsAddUp == records \in Lists \ Miscounted

InTime(list, data) ==
  LET times == {Observations[list[i]].at : i \in DOMAIN list}
      In(b) == {t \in times : usageBucketLabel(t, data.filter.bucket)[1] = b.label}
  IN  (\A t, u \in times : t < u + Year) =>
        \A i, j \in DOMAIN data.buckets : i < j =>
          \A t \in In(data.buckets[i]), u \in In(data.buckets[j]) : t < u

Mistimed == {p.list : p \in {p \in Pages : ~ InTime(p.list, p.data)}}

\* No record of a bucket is later than one of the next bucket, if the records
\* are of one year (usageBucketLabel, groupUsageBuckets).
BucketsInTime == records \in Lists \ Mistimed
=============================================================================
