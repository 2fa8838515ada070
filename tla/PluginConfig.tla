----------------------------- MODULE PluginConfig -----------------------------
(***************************************************************************)
(* The plugin's settings in the CPA configuration: sections, one of which  *)
(* is taken, with the fields that are written in it over the defaults.  A  *)
(* section is a function of the fields it has, None when it is not there.  *)
(***************************************************************************)
EXTENDS Identity

\* Where a section may be, in the order in which it is looked for
Places == <<"plugins.configs", "plugins", "configs", "root">>

defaultPluginSettings ==
  [enabled |-> TRUE, auto |-> TRUE, includeNative |-> TRUE, explicit |-> TRUE,
   fallback |-> "client_key_hash", mode |-> "any", secretSource |-> "env",
   matchName |-> <<>>, matchProviders |-> {}, matchUrl |-> <<>>, matchKey |-> "",
   matchModels |-> {}, hmacSecret |-> "", bridgeSecret |-> "", executor |-> FALSE,
   namespace |-> <<>>]

\* Values that are none of the known ones become the default.
normalizeSettings(s) ==
  LET Known(v, values, default) == IF v \in values THEN v ELSE default
  IN  [s EXCEPT !.mode = Known(@, {"any", "all"}, "any"),
                !.fallback = Known(@, {"user_agent_plus_session", "disabled"}, "client_key_hash"),
                !.secretSource = Known(@, {"config", "provider_api_key", "none"}, "env")]

\* What f says, and what g says of the fields that are not in f
Over(f, g) == [x \in DOMAIN f \cup DOMAIN g |-> IF x \in DOMAIN f THEN f[x] ELSE g[x]]

settingsFromMap(base, raw) == normalizeSettings(Over(raw, base))

findPluginConfig(sections) ==
  LET found == {i \in DOMAIN Places : sections[Places[i]] # None}
  IN  IF found = {} THEN None ELSE sections[Places[CHOOSE i \in found : \A j \in found : i <= j]]

loadSettings(sections) ==
  LET raw == findPluginConfig(sections)
  IN  IF raw = None THEN defaultPluginSettings ELSE settingsFromMap(defaultPluginSettings, raw)

\* The source that signs, as the editor names it
hmacSecretSource(s) ==
  CASE s.bridgeSecret # "" \/ s.hmacSecret # "" -> "config"
    [] EnvSecret # "" -> "env"
    [] OTHER -> IF s.secretSource = "provider_api_key" THEN s.secretSource ELSE "none"
=============================================================================
