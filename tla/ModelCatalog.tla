----------------------------- MODULE ModelCatalog -----------------------------
(***************************************************************************)
(* What is known of a model: what a provider block declares, what the      *)
(* upstream's /models answers, what the cache file keeps of it, and what   *)
(* the plugin publishes.  A model is                                       *)
(*   [name, alias, image, thinking, modal]                                 *)
(* where thinking is None or [levels, zero, budget]: budget stands for the *)
(* min, max and dynamic-allowed of a declaration, levels and modal are     *)
(* sets, and a list of models is the set of them.                          *)
(***************************************************************************)
EXTENDS ProviderMatching

CONSTANTS
  Families,   \* the family aliases, and the levels each has by default
  ImageIds    \* the ids with "image" in them

Thinking(levels) ==
  IF levels = {} THEN None ELSE [levels |-> levels, zero |-> FALSE, budget |-> FALSE]

defaultThinkingLevelsForModel(id) == IF id \in DOMAIN Families THEN Families[id] ELSE {}

effectiveThinking(t) ==
  IF t = None THEN None
  ELSE [t EXCEPT !.levels = @ \cup (IF t.zero THEN {"none"} ELSE {})]

\* What the plugin publishes: the alias goes before the name.
modelInfos(models) ==
  {[id |-> firstNonEmpty(m.alias, m.name), image |-> m.image, modal |-> m.modal,
    thinking |-> effectiveThinking(m.thinking)] : m \in models}

-----------------------------------------------------------------------------
(* The answer of /models: items [id, efforts, effort, image, modal]        *)

\* The levels an item names, else the one, else those of its family
ItemLevels(item) ==
  CASE item.efforts # {} -> item.efforts
    [] item.effort # ""  -> {item.effort}
    [] OTHER             -> defaultThinkingLevelsForModel(item.id)

\* An item without an id is dropped, and so is the second of one id.
parseOpenAIModelSpecs(items) ==
  LET Kept == {i \in DOMAIN items : /\ items[i].id # ""
                                    /\ \A j \in 1..(i - 1) : items[j].id # items[i].id}
  IN  {[name |-> items[i].id, alias |-> "", image |-> items[i].image \/ items[i].id \in ImageIds,
        thinking |-> Thinking(ItemLevels(items[i])), modal |-> items[i].modal] : i \in Kept}

-----------------------------------------------------------------------------
(* The cache file                                                          *)

\* Mutation: the levels are those of the family, whatever the upstream said.
saveModelCatalog_Defaults(models) ==
  {[id |-> firstNonEmpty(m.name, m.alias), image |-> m.image, modal |-> m.modal,
    levels |-> defaultThinkingLevelsForModel(m.name)] : m \in models}

\* What is written: every model with an id, its levels or those of its family
saveModelCatalog(models) ==
  {[id |-> firstNonEmpty(m.name, m.alias), image |-> m.image, modal |-> m.modal,
    levels |-> IF m.thinking # None THEN m.thinking.levels
               ELSE defaultThinkingLevelsForModel(firstNonEmpty(m.name, m.alias))]
   : m \in models}

\* What is read: nothing unless the file decodes; a file of an older version
\* has ids only, and the rest is guessed from them.
loadModelCatalog(file) ==
  CASE file.kind = "catalog" ->
         {[name |-> e.id, alias |-> "", image |-> e.image, modal |-> e.modal,
           thinking |-> Thinking(e.levels)] : e \in file.entries}
    [] file.kind = "ids" ->
         {[name |-> id, alias |-> "", image |-> id \in ImageIds, modal |-> {},
           thinking |-> Thinking(defaultThinkingLevelsForModel(id))] : id \in file.entries}
    [] OTHER -> {}
=============================================================================
