--------------------------- MODULE ProviderMatching ---------------------------
(***************************************************************************)
(* Which providers the plugin owns: the selectors of its settings, the     *)
(* blocks of openai-compatibility in the CPA configuration, the records    *)
(* that tie a requested model to a block, and the block that is mirrored.  *)
(*                                                                         *)
(* A text is the sequence of the pieces the properties tell apart, a slash *)
(* being a piece of its own; case and surrounding spaces are left out.     *)
(* Credentials and header values have no pieces and are strings.           *)
(***************************************************************************)
EXTENDS Naturals, Sequences, SequencesExt

CONSTANT None   \* no record, no provider, no call

StartsWith(t, p) == IsPrefix(p, t)
HasText(t, p)    == \E i \in 0..(Len(t) - Len(p)) : SubSeq(t, i + 1, i + Len(p)) = p

\* The first of two values that is not empty; of three, firstNonEmpty(a,
\* firstNonEmpty(b, c)), and the same for texts
firstNonEmpty(a, b) == IF a # "" THEN a ELSE b
FirstText(a, b)     == IF a # <<>> THEN a ELSE b

-----------------------------------------------------------------------------
(* Selectors                                                               *)

\* Mutation: a star stands for at least one piece.
matchText_StarNeedsOne(pattern, value) ==
  LET dp[c \in (0..Len(pattern)) \X (0..Len(value))] ==
        LET i == c[1]  j == c[2]
        IN  IF i = 0 THEN j = 0
            ELSE IF pattern[i] = "*" THEN j > 0 /\ (dp[<<i - 1, j - 1>>] \/ dp[<<i, j - 1>>])
            ELSE j > 0 /\ dp[<<i - 1, j - 1>>] /\ pattern[i] \in {"?", value[j]}
  IN  /\ pattern # <<>> /\ value # <<>>
      /\ IF ToSet(pattern) \cap {"*", "?"} = {} THEN HasText(value, pattern)
         ELSE dp[<<Len(pattern), Len(value)>>]

\* A pattern without wildcard is looked for anywhere; one with a wildcard has
\* to match from end to end.
matchText(pattern, value) ==
  LET dp[c \in (0..Len(pattern)) \X (0..Len(value))] ==
        LET i == c[1]  j == c[2]
        IN  IF i = 0 THEN j = 0
            ELSE IF pattern[i] = "*" THEN dp[<<i - 1, j>>] \/ (j > 0 /\ dp[<<i, j - 1>>])
            ELSE j > 0 /\ dp[<<i - 1, j - 1>>] /\ pattern[i] \in {"?", value[j]}
  IN  /\ pattern # <<>> /\ value # <<>>
      /\ IF ToSet(pattern) \cap {"*", "?"} = {} THEN HasText(value, pattern)
         ELSE dp[<<Len(pattern), Len(value)>>]

anyTextMatch(pattern, values) == \E v \in values : matchText(pattern, v)

isNativeAntigravity(t) == t = <<"antigravity">>

\* No selector is configured: the native format, a prefix that belongs to a
\* matched record, or a telling name or URL.
AutoDiscovered(s, c) ==
  /\ s.auto
  /\ IF c.native THEN s.includeNative
     ELSE \/ c.prefix # <<>>
          \/ \E t \in {c.name, c.key, c.format, c.url} :
               matchText(<<"*", "antigravity", "*">>, t) \/ matchText(<<"*", "agy2api", "*">>, t)

\* Whether each configured selector holds of the candidate
Criteria(s, c) ==
  LET names  == {c.name, c.key, c.format}
      If(on, holds) == IF on THEN {holds} ELSE {}
  IN  If(s.matchName # <<>>, anyTextMatch(s.matchName, names))
      \cup {anyTextMatch(p, names) : p \in s.matchProviders}
      \cup If(s.matchUrl # <<>>, matchText(s.matchUrl, c.url))
      \cup If(s.matchKey # "", s.matchKey = c.apiKey)
      \cup {anyTextMatch(p, {c.requested, c.model}) : p \in s.matchModels}

shouldInterceptCandidate(s, c) ==
  LET criteria == Criteria(s, c)
  IN  IF criteria = {} THEN AutoDiscovered(s, c)
      ELSE IF s.mode = "all" THEN criteria = {TRUE} ELSE TRUE \in criteria

-----------------------------------------------------------------------------
(* Provider blocks                                                         *)

\* The keys a block is matched and recorded with, "" when it has none
KeysOf(b) == IF b.keys = <<>> THEN {""} ELSE ToSet(b.keys)

\* A block is matched if it is with one of its keys; the prefix stands in the
\* place of the format, and no model is known.
matchDiscoveredProvider(s, b) ==
  \E k \in KeysOf(b) :
    shouldInterceptCandidate(s,
      [name |-> b.name, key |-> b.name, url |-> b.url.host \o b.url.path, apiKey |-> k,
       format |-> b.prefix, model |-> <<>>, requested |-> <<>>, prefix |-> <<>>,
       native |-> FALSE])

\* The records of the matched blocks, one for every prefix and key; of two
\* blocks with the same the later one stays.
MatchedRecords(s, blocks) ==
  LET Matched == {i \in DOMAIN blocks : matchDiscoveredProvider(s, blocks[i])}
      Kept(i) == {k \in KeysOf(blocks[i]) :
                    \A j \in Matched : j > i /\ blocks[j].prefix = blocks[i].prefix
                                         => k \notin KeysOf(blocks[j])}
  IN  UNION {{[name |-> blocks[i].name, prefix |-> blocks[i].prefix,
               url |-> blocks[i].url.host \o blocks[i].url.path, apiKey |-> k] : k \in Kept(i)}
             : i \in Matched}

\* Mutation: the prefix a record was filed under is not the one it is found by.
FirstRecords_Anyone(R) == [{r.prefix : r \in R} -> R]

\* The list is built from a map and sorted by prefix alone: of the records of
\* one prefix any may come first, and the first is the only one ever used.
FirstRecords(R) ==
  {f \in [{r.prefix : r \in R} -> R] : \A p \in DOMAIN f : f[p].prefix = p}

\* Mutation: the first prefix that fits, not the longest.
OwnerOf_AnyPrefix(records, m) ==
  LET fits == {p \in DOMAIN records : p # <<>> /\ StartsWith(m, Append(p, "/"))}
  IN  IF fits = {} THEN None
      ELSE records[CHOOSE p \in fits : \A q \in fits : Len(p) <= Len(q)]

\* The record with the longest prefix of the model
OwnerOf(records, m) ==
  LET fits == {p \in DOMAIN records : p # <<>> /\ StartsWith(m, Append(p, "/"))}
  IN  IF fits = {} THEN None
      ELSE records[CHOOSE p \in fits : \A q \in fits : Len(q) <= Len(p)]

\* The model the client asked for is tried before the one CPA routes.
resolveRecordByModel(records, requested, model) ==
  IF OwnerOf(records, requested) # None THEN OwnerOf(records, requested)
  ELSE OwnerOf(records, model)

\* The mirrored provider as the executor sees it
SpecOf(b, catalog) ==
  [name |-> b.name, prefix |-> b.prefix, url |-> b.url, keys |-> b.keys,
   models |-> IF b.disabled /\ b.models = {} THEN catalog ELSE b.models,
   enabled |-> ~ b.disabled]

\* The first live block that matches, else the first one that is switched off,
\* whose models may come from the catalogue.  Without either the catalogue
\* alone gives no base URL, and that is nothing found.
extractProviderSpec(s, blocks, catalog) ==
  LET matched == {i \in DOMAIN blocks : matchDiscoveredProvider(s, blocks[i])}
      live    == {i \in matched : ~ blocks[i].disabled}
      First(I) == CHOOSE i \in I : \A j \in I : i <= j
  IN  IF matched = {} THEN None
      ELSE SpecOf(blocks[First(IF live # {} THEN live ELSE matched)], catalog)
=============================================================================
