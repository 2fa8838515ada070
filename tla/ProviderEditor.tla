---------------------------- MODULE ProviderEditor ----------------------------
(***************************************************************************)
(* The provider editor: a page that shows the mirrored provider, is edited *)
(* and sent back to be patched into the CPA configuration, while that      *)
(* changes by other hands; and the requests by which pages fetch the       *)
(* models of the upstream into the cache file.  The page never learns a    *)
(* key: a row says whether it stands for a configured one, and holds what  *)
(* was typed into it.  The mirrored provider is cached, and one that was   *)
(* read a while ago may be stored over a newer one.  (That a save is many  *)
(* steps and races with others of its kind, and that settings and YAML are *)
(* read one after the other, is ConfigLifecycle.)                          *)
(***************************************************************************)
EXTENDS PluginConfig, ModelCatalog

CONSTANTS
  Configs,    \* configurations the operator or CPA writes
  Files,      \* what the model cache file may hold at first
  Replies,    \* answers of the upstream's /models
  NewKey,     \* a key that may be typed in
  NewName,    \* a name the provider may be given
  Resolvers,  \* the calls that have read the provider and not stored it yet
  Fetchers,   \* the pages that fetch models, of which this may be one
  MaxRows,    \* rows for keys a page may have, a bound
  MaxWork     \* changes made by hand to the page and fetches, a bound

ASSUME BoundAssumption == MaxRows \in Nat /\ MaxWork \in Nat

\* Blocks and keys are lists, a section may be in each of its places, and no
\* declaration of thinking is taken for none.
ASSUME EditorAssumption ==
  /\ \A c \in Configs :
       /\ {"sections", "blocks", "path"} \subseteq DOMAIN c /\ c.blocks \in Seq(ToSet(c.blocks))
       /\ DOMAIN c.sections = ToSet(Places)
       /\ \A b \in ToSet(c.blocks) :
            /\ {"name", "prefix", "url", "disabled", "keys", "models"} \subseteq DOMAIN b
            /\ b.keys \in Seq(ToSet(b.keys))
  /\ \A r \in Replies : \A i \in DOMAIN r.items :
       ItemLevels(r.items[i]) # {} => Thinking(ItemLevels(r.items[i])) # None

VARIABLES
  config,     \* the configuration, in memory and on disk: [sections, blocks, path]
  cache,      \* providerSpecCache, None when found is false
  reading,    \* what each resolver has read and is to store
  catalog,    \* the model cache file
  page,       \* the page, None until it is loaded
  origin,     \* the id of the block it was loaded from, for the properties
  writing,    \* what each fetcher is to write into the cache file, and its step
  work        \* the changes by hand and the fetches so far

vars == <<config, cache, reading, catalog, page, origin, writing, work>>

\* The file between truncation and writing, or after two writes got mixed up
Broken == [kind |-> "broken", entries |-> {}]

Settings == loadSettings(config.sections)

Extract(c) == extractProviderSpec(loadSettings(c.sections), c.blocks, loadModelCatalog(catalog))

\* What resolveProviderSpec returns now
Resolution == IF cache # None THEN cache ELSE Extract(config)

\* resolveProviderSpec with this in the cache and this configuration: what is
\* cached is taken, else the provider is read from the configuration and
\* stored, at once or, as a resolver, whenever the call goes on.
Resolves(cached, c) ==
  \/ cached # None /\ cache' = cached /\ UNCHANGED reading
  \/ cached = None /\ cache' = Extract(c) /\ UNCHANGED reading
  \/ /\ cached = None /\ cache' = None /\ Extract(c) # None
     /\ \E r \in Resolvers : reading[r] = None /\ reading' = [reading EXCEPT ![r] = Extract(c)]

-----------------------------------------------------------------------------
(* The page                                                                *)

\* The levels that are ticked: a model that declares thinking without levels
\* is shown as one that is not to think.
TickedLevels(t) ==
  IF t = None THEN {}
  ELSE effectiveThinking(t).levels \cup (IF t.levels = {} THEN {"none"} ELSE {})

editorModelsFromSpec(models) ==
  {[name |-> m.name, alias |-> m.alias, image |-> m.image,
    levels |-> TickedLevels(m.thinking)] : m \in models}

\* The settings the page shows.  The source of the secret is the one that
\* signs, not the one that is configured.
pluginEditorView(s) ==
  [enabled |-> s.enabled, explicit |-> s.explicit, fallback |-> s.fallback,
   executor |-> s.executor, namespace |-> s.namespace, secretSource |-> hmacSecretSource(s)]

\* currentProviderEditorDataFromSpec, and what render() makes of it.  The key a
\* row stands for ("of") is for the properties, the page does not have it.
PageOf(spec, s) ==
  [orig |-> [name |-> spec.name, prefix |-> spec.prefix, url |-> upstreamBaseURL(spec)],
   name |-> spec.name, prefix |-> spec.prefix, url |-> upstreamBaseURL(spec),
   disabled |-> ~ spec.enabled,
   rows |-> IF spec.keys = <<>> THEN <<[existing |-> FALSE, value |-> "", of |-> ""]>>
            ELSE [i \in DOMAIN spec.keys |-> [existing |-> TRUE, value |-> "", of |-> spec.keys[i]]],
   models |-> editorModelsFromSpec(spec.models),
   plugin |-> pluginEditorView(s), secret |-> "", picker |-> {}]

-----------------------------------------------------------------------------
(* What a page that was sent back says                                     *)

\* The values in their order, without blanks and without the second of two
uniqueStrings(values) ==
  LET out[i \in 0..Len(values)] ==
        IF i = 0 THEN <<>>
        ELSE IF values[i] \in {""} \cup ToSet(out[i - 1]) THEN out[i - 1]
        ELSE Append(out[i - 1], values[i])
  IN  out[Len(values)]

\* What each row says: a blank one that stands for a configured key is given
\* the one at its own place in the list.
RowValues(rows, current) ==
  [i \in DOMAIN rows |->
     IF rows[i].value # "" THEN rows[i].value
     ELSE IF rows[i].existing /\ i <= Len(current) THEN current[i] ELSE ""]

KeysOfRows(rows, current) == uniqueStrings(RowValues(rows, current))

\* The keys a test or a fetch uses
editorProviderAPIKeys(p, current) ==
  IF p.rows = <<>> THEN current ELSE KeysOfRows(p.rows, current)

\* Mutation: blank rows are completed from the provider that resolves.
PatchedKeys_Resolved(p, current) ==
  LET there == IF Resolution = None THEN current ELSE Resolution.keys
      keys  == KeysOfRows(p.rows, there)
  IN  IF keys = <<>> THEN current ELSE keys

\* The keys a save writes: rows that name none leave those there are.
PatchedKeys(p, current) ==
  LET keys == KeysOfRows(p.rows, current) IN IF keys = <<>> THEN current ELSE keys

\* What a model or a row goes by
Id(m) == firstNonEmpty(m.name, m.alias)

\* Mutation: an existing model is only looked for under its name.
modelsForEditorPayload_NameOnly(rows, existing) ==
  LET Known(id) == {m \in existing : m.name = id}
      Model(r) ==
        LET id == Id(r)
            old == IF Known(id) = {} THEN None ELSE CHOOSE m \in Known(id) : TRUE
        IN  [name  |-> firstNonEmpty(r.name, IF old = None THEN id ELSE old.name),
             alias |-> firstNonEmpty(r.alias, IF old = None THEN "" ELSE old.alias),
             image |-> r.image \/ (old # None /\ old.image),
             modal |-> IF old = None THEN {} ELSE old.modal,
             thinking |-> IF r.levels # {}
                          THEN [levels |-> r.levels, zero |-> "none" \in r.levels, budget |-> FALSE]
                          ELSE IF old = None THEN None ELSE old.thinking]
  IN  {Model(r) : r \in rows}

\* The models a save writes: each row completed by the model that is there
\* under its name or alias.  What a row leaves open, and an image box that is
\* not ticked, takes nothing away from that model.
modelsForEditorPayload(rows, existing) ==
  LET Known(id) == {m \in existing : id \in {m.name, m.alias}}
      Model(r) ==
        LET id == Id(r)
            old == IF Known(id) = {} THEN None ELSE CHOOSE m \in Known(id) : TRUE
        IN  [name  |-> firstNonEmpty(r.name, IF old = None THEN id ELSE old.name),
             alias |-> firstNonEmpty(r.alias, IF old = None THEN "" ELSE old.alias),
             image |-> r.image \/ (old # None /\ old.image),
             modal |-> IF old = None THEN {} ELSE old.modal,
             thinking |-> IF r.levels # {}
                          THEN [levels |-> r.levels, zero |-> "none" \in r.levels, budget |-> FALSE]
                          ELSE IF old = None THEN None ELSE old.thinking]
  IN  {Model(r) : r \in rows}

FirstOf(found) == IF found = {} THEN 0 ELSE CHOOSE i \in found : \A j \in found : i <= j

\* By its new name or URL
RenamedIndex(blocks, p) ==
  FirstOf({i \in DOMAIN blocks : blocks[i].name = p.name \/ upstreamBaseURL(blocks[i]) = p.url})

\* Mutation: one thing in common with the page that was loaded is enough.
findEditableProviderIndex_Either(blocks, p) ==
  LET asLoaded == FirstOf({i \in DOMAIN blocks :
        \/ blocks[i].name = p.orig.name \/ blocks[i].prefix = p.orig.prefix
        \/ upstreamBaseURL(blocks[i]) = p.orig.url})
  IN  IF asLoaded # 0 THEN asLoaded ELSE RenamedIndex(blocks, p)

\* The block the page was loaded from, else one of the page's name or URL; 0
\* when there is none.
findEditableProviderIndex(blocks, p) ==
  LET asLoaded == FirstOf({i \in DOMAIN blocks :
        /\ blocks[i].name = p.orig.name /\ upstreamBaseURL(blocks[i]) = p.orig.url
        /\ p.orig.prefix \in {<<>>, blocks[i].prefix}})
  IN  IF asLoaded # 0 THEN asLoaded ELSE RenamedIndex(blocks, p)

PatchedBlock(b, p) ==
  [b EXCEPT !.name = p.name, !.prefix = p.prefix, !.url = p.url, !.disabled = p.disabled,
            !.keys = PatchedKeys(p, @),
            !.models = IF p.models = {} THEN @ ELSE modelsForEditorPayload(p.models, @)]

\* Mutation: what is there goes before what the page says.
patchProviderConfig_OldWins(c, p) ==
  LET i == findEditableProviderIndex(c.blocks, p)
      typed == IF p.secret = "" THEN <<>> ELSE [hmacSecret |-> p.secret]
      there == c.sections["plugins.configs"]
  IN  [c EXCEPT !.sections["plugins.configs"] =
                  Over(Over(IF there = None THEN <<>> ELSE there, typed), p.plugin),
                !.blocks[i] = PatchedBlock(@, p)]

\* The settings go into the section the plugin looks for first, which is
\* created if it is not there; a secret only if one was typed in.
patchProviderConfig(c, p) ==
  LET i == findEditableProviderIndex(c.blocks, p)
      typed == IF p.secret = "" THEN <<>> ELSE [hmacSecret |-> p.secret]
      there == c.sections["plugins.configs"]
  IN  [c EXCEPT !.sections["plugins.configs"] =
                  Over(Over(typed, p.plugin), IF there = None THEN <<>> ELSE there),
                !.blocks[i] = PatchedBlock(@, p)]

-----------------------------------------------------------------------------
Init ==
  /\ config \in Configs /\ cache = None /\ reading = [r \in Resolvers |-> None]
  /\ catalog \in Files
  /\ page = None /\ origin = None /\ writing = [f \in Fetchers |-> None] /\ work = 0

\* A lifecycle call applies another configuration, drops the cached provider
\* and resolves it anew.
Reconfigure(c) ==
  /\ config' = c /\ Resolves(None, c)
  /\ UNCHANGED <<catalog, page, origin, writing, work>>

\* Any other call that needs the provider: a request, a scan, a registration
OtherResolves ==
  /\ Resolves(cache, config)
  /\ UNCHANGED <<config, catalog, page, origin, writing, work>>

\* storeProviderSpec of one who read the provider before, whatever was applied
\* or stored in between
Stores(r) ==
  /\ reading[r] # None
  /\ cache' = reading[r] /\ reading' = [reading EXCEPT ![r] = None]
  /\ UNCHANGED <<config, catalog, page, origin, writing, work>>

\* The block a provider was read from, if it still has its name or URL
BlockOf(spec) ==
  LET i == FirstOf({i \in DOMAIN config.blocks :
             \/ config.blocks[i].name = spec.name
             \/ upstreamBaseURL(config.blocks[i]) = upstreamBaseURL(spec)})
  IN  IF i = 0 THEN None ELSE config.blocks[i].id

\* GET provider/config: the page shows what resolves now, cached or not.
Load ==
  /\ Resolution # None /\ Resolves(cache, config)
  /\ page' = [PageOf(Resolution, Settings) EXCEPT !.picker = IF page = None THEN {} ELSE page.picker]
  /\ origin' = BlockOf(Resolution)
  /\ UNCHANGED <<config, catalog, writing, work>>

Edit(p) ==
  /\ work < MaxWork /\ work' = work + 1
  /\ page' = p
  /\ UNCHANGED <<config, cache, reading, catalog, origin, writing>>

AddKeyRow ==
  /\ page # None /\ Len(page.rows) < MaxRows
  /\ Edit([page EXCEPT !.rows = Append(@, [existing |-> FALSE, value |-> "", of |-> ""])])

TypeKey   == page # None /\ \E i \in DOMAIN page.rows :
               Edit([page EXCEPT !.rows[i].value = NewKey])
RemoveKey == page # None /\ \E i \in DOMAIN page.rows :
               Edit([page EXCEPT !.rows = RemoveAt(@, i)])

TypeSecret    == page # None /\ Edit([page EXCEPT !.secret = NewKey])
RenameIt      == page # None /\ Edit([page EXCEPT !.name = NewName])
SwitchIt      == page # None /\ Edit([page EXCEPT !.disabled = ~ @])

RemoveModel == page # None /\ \E r \in page.models :
                 Edit([page EXCEPT !.models = @ \ {r}])
TickImage   == page # None /\ \E r \in page.models :
                 Edit([page EXCEPT !.models = (@ \ {r}) \cup {[r EXCEPT !.image = ~ @]}])
TickNone    == page # None /\ \E r \in page.models :
                 Edit([page EXCEPT !.models = (@ \ {r}) \cup
                   {[r EXCEPT !.levels = IF "none" \in @ THEN @ \ {"none"} ELSE @ \cup {"none"}]}])

\* Ids picked from those fetched, as rows with what an id suggests
PickModels ==
  /\ page # None /\ page.picker # {}
  /\ LET shown == {Id(r) : r \in page.models}
     IN  page' = [page EXCEPT !.picker = {}, !.models = @ \cup
           {[name |-> id, alias |-> "", image |-> id \in ImageIds,
             levels |-> defaultThinkingLevelsForModel(id)] : id \in page.picker \ shown}]
  /\ UNCHANGED <<config, cache, reading, catalog, origin, writing, work>>

\* POST provider/save: patch, write, apply, drop the cached provider and resolve
\* it anew.  It is refused without a file to write to and for a page whose
\* block is not found.  What was typed into a key row is then configured; the
\* rows are not loaded anew.
Save ==
  /\ page # None /\ config.path /\ findEditableProviderIndex(config.blocks, page) # 0
  /\ config' = patchProviderConfig(config, page)
  /\ Resolves(None, config')
  /\ page' = [page EXCEPT !.rows = [i \in DOMAIN @ |->
       IF @[i].value = "" THEN @[i] ELSE [existing |-> TRUE, value |-> "", of |-> @[i].value]]]
  /\ UNCHANGED <<catalog, origin, writing, work>>

\* editorProviderSpec: the keys of the page completed by those that are
\* configured, else those typed into new rows
EditorKeys ==
  LET keys  == IF Resolution = None THEN <<>> ELSE editorProviderAPIKeys(page, Resolution.keys)
      typed == [i \in DOMAIN page.rows |-> IF page.rows[i].existing THEN "" ELSE page.rows[i].value]
  IN  IF keys # <<>> THEN keys ELSE uniqueStrings(typed)

\* Mutation: the keys there are fill the rows from the first blank one on.
TestedKeys_FirstBlank(p) ==
  uniqueStrings([i \in DOMAIN p.rows |-> p.rows[i].value] \o EditorKeys)

\* POST provider/test: the rows are completed once more, by the keys just found.
\* (A test changes nothing.)
TestedKeys(p) == editorProviderAPIKeys(p, EditorKeys)

Picked(ids) == [page EXCEPT !.picker = ids]

\* POST provider/fetch-models, of this page or another: the upstream's answer
\* goes to the cache file, if it is a success that lists models, and then back
\* to the page.
Fetch(f, r) ==
  /\ page # None /\ EditorKeys # <<>> /\ writing[f] = None
  /\ work < MaxWork /\ work' = work + 1
  /\ LET models == parseOpenAIModelSpecs(r.items)
         ids    == {m.name : m \in models}
     IN  IF r.success /\ models # {}
         THEN /\ UNCHANGED page
              /\ writing' = [writing EXCEPT ![f] =
                   [step |-> "open", entries |-> saveModelCatalog(models)]]
         ELSE page' \in {page, Picked(ids)} /\ UNCHANGED writing
  /\ Resolves(cache, config) /\ UNCHANGED <<config, catalog, origin>>

\* os.WriteFile truncates the file first ...
CatalogOpen(f) ==
  /\ writing[f] # None /\ writing[f].step = "open"
  /\ catalog' = Broken /\ writing' = [writing EXCEPT ![f].step = "write"]
  /\ UNCHANGED <<config, cache, reading, page, origin, work>>

\* ... and then writes over what is there by now, of which a longer one
\* leaves its end behind.
CatalogWrite(f) ==
  /\ writing[f] # None /\ writing[f].step = "write"
  /\ LET whole == [kind |-> "catalog", entries |-> writing[f].entries]
     IN  catalog' \in {whole} \cup (IF catalog \in {Broken, whole} THEN {} ELSE {Broken})
  /\ page' \in {page, Picked({e.id : e \in writing[f].entries})}
  /\ writing' = [writing EXCEPT ![f] = None]
  /\ UNCHANGED <<config, cache, reading, origin, work>>

EditPage ==
  \/ AddKeyRow \/ TypeKey \/ RemoveKey \/ TypeSecret \/ RenameIt \/ SwitchIt
  \/ RemoveModel \/ TickImage \/ TickNone \/ PickModels

Next ==
  \/ \E c \in Configs : Reconfigure(c)
  \/ OtherResolves \/ (\E r \in Resolvers : Stores(r))
  \/ Load \/ EditPage \/ Save
  \/ \E f \in Fetchers : (\E r \in Replies : Fetch(f, r)) \/ CatalogOpen(f) \/ CatalogWrite(f)

Spec == Init /\ [][Next]_vars

-----------------------------------------------------------------------------
(* Properties                                                              *)

\* The block a page is saved to, before and after
Hit == findEditableProviderIndex(config.blocks, page)

\* The page shows the provider of the configuration, and was not changed.
Unedited == page = PageOf(Extract(config), Settings)

\* A page that is saved unedited and loaded from the configuration that was
\* written shows the same again.  Of what it does not show, the other settings,
\* the secret that signs for each key, and the names and modalities of models
\* that were declared stay what they were (currentProviderEditorDataFromSpec,
\* patchProviderConfig); thinking does not: it is written back as the levels that
\* are ticked, without its budget.  This is so if the settings are in the section
\* the editor writes to.
RoundTrip ==
  [][Save /\ Unedited /\ config.sections["plugins.configs"] # None =>
       LET before == config.blocks[Hit]  after == config'.blocks[Hit]
           Modal(b) == {<<m.name, m.alias, m.modal>> : m \in b.models}
       IN  /\ PageOf(Extract(config'), Settings') = page
           /\ \A f \in DOMAIN Settings \ {"secretSource"} : Settings'[f] = Settings[f]
           /\ \A k \in ToSet(before.keys) :
                hmacSecretForCandidate(Settings', k) = hmacSecretForCandidate(Settings, k)
           /\ before.models # {} => Modal(after) = Modal(before)]_vars

\* The lists of models that come from outside
ModelLists ==
  {b.models : b \in UNION {ToSet(c.blocks) : c \in Configs}}
    \cup {loadModelCatalog(f) : f \in Files} \cup {parseOpenAIModelSpecs(r.items) : r \in Replies}

\* Every model is called something, no list has two that go by the same, and
\* two models that have a name or an alias in common go by the same.
NamesApart ==
  /\ \A L \in ModelLists : \A m \in L : Id(m) # "" /\ \A n \in L : Id(n) = Id(m) => n = m
  /\ \A m, n \in UNION ModelLists :
       ({m.name, m.alias} \cap {n.name, n.alias}) \ {""} # {} => Id(m) = Id(n)

\* A save lays the page over the block that is there.  Name, switch, settings
\* and a secret that was typed become the page's, and so do the models, if it
\* has any.  A model is for images if the page or the block says so, and has
\* the levels of the page or, if none is ticked there, the thinking it had: so
\* nothing the page adds is lost, and nothing is added to what either of them
\* says (modelsForEditorPayload, patchProviderConfig).
SavedOverBlock ==
  [][Save =>
       LET old == config.blocks[Hit]  b == config'.blocks[Hit]
       IN  /\ b.name = page.name /\ b.disabled = page.disabled
           /\ \A f \in DOMAIN page.plugin \ {"secretSource"} : Settings'[f] = page.plugin[f]
           /\ page.secret # "" => Settings'.hmacSecret = page.secret
           /\ page.models = {} => b.models = old.models
           /\ page.models # {} =>
                /\ {Id(m) : m \in b.models} = {Id(r) : r \in page.models}
                /\ \A r \in page.models, m \in b.models : Id(r) = Id(m) =>
                     LET there == {o \in old.models : Id(o) = Id(r)}
                     IN  /\ m.image <=> (r.image \/ \E o \in there : o.image)
                         /\ r.levels # {} => TickedLevels(m.thinking) = r.levels
                         /\ r.levels = {} =>
                              m.thinking \in {o.thinking : o \in there}
                                               \cup (IF there = {} THEN {None} ELSE {})]_vars

\* A save changes the block its page was loaded from and no other, however the
\* blocks were moved or changed since and however often the page was saved
\* before under another name (findEditableProviderIndex).  Blocks keep their
\* id, which is nothing the code has; names and URLs are told apart.
SaveHitsItsBlock ==
  [][Save /\ (\E b \in ToSet(config.blocks) : b.id = origin) =>
       \A i \in DOMAIN config.blocks :
         (config'.blocks[i] # config.blocks[i]) => config.blocks[i].id = origin]_vars

\* No save leaves a provider that had a key without one, and the keys it
\* leaves were its own before or were typed in (patchProviderConfig).
KeysSurvive ==
  [][Save =>
       LET before == ToSet(config.blocks[Hit].keys)  after == ToSet(config'.blocks[Hit].keys)
       IN  /\ before # {} => after # {}
           /\ after \subseteq before \cup {NewKey}]_vars

\* As long as the provider that resolves has the keys of the block a save
\* would hit, a test tries none that the save would not write, although the two
\* work them out on their own and from different sources (handleProviderTest
\* from the provider that resolves, patchProviderConfig from the YAML).  It
\* tries all of them if the rows name different keys, those that name one
\* first: the test goes through the rows twice, and the second time the keys
\* below a blank row or a second one of the same key have moved up.  (An older
\* provider may resolve, with other keys: see Stores.)
TestsWhatIsSaved ==
  page # None /\ Hit # 0 /\ Resolution # None =>
    LET current == config.blocks[Hit].keys
        saved   == PatchedKeys(page, current)
        values  == RowValues(page.rows, current)
    IN  Resolution.keys = current =>
          /\ ToSet(TestedKeys(page)) \subseteq ToSet(saved)
          /\ /\ EditorKeys # <<>>
             /\ \A i \in DOMAIN values :
                  values[i] # "" => \A j \in 1..(i - 1) : values[j] \notin {"", values[i]}
             => TestedKeys(page) = saved

\* What is read from the cache file is what one answer of the upstream said,
\* entire and with the levels it gave, or nothing, however fetches overlap
\* (saveModelCatalog, loadModelCatalog).
CatalogWhole ==
  loadModelCatalog(catalog) \in
    {{}} \cup {loadModelCatalog(f) : f \in Files} \cup {parseOpenAIModelSpecs(r.items) : r \in Replies}

\* A key row of the page that is left empty keeps the key it stands for, if
\* that is still there.
RowsKeepTheirKeys ==
  [][Save =>
       \A i \in DOMAIN page.rows :
         /\ page.rows[i].existing /\ page.rows[i].value = ""
         /\ page.rows[i].of \in ToSet(config.blocks[Hit].keys)
         => page.rows[i].of \in ToSet(config'.blocks[Hit].keys)]_vars
=============================================================================
