--------------------------- MODULE ConfigLifecycle ---------------------------
(***************************************************************************)
(* How a CPA configuration reaches the plugin and what the plugin derives  *)
(* from it: the settings, the configuration YAML, the cached provider spec *)
(* and the auth record that routes requests to the executor.  Each has its *)
(* own lock, none is held across the others, and the host calls the plugin *)
(* from several threads at once: reconfigurations, editor saves, executor  *)
(* calls and model registrations interleave at every lock.                 *)
(***************************************************************************)
EXTENDS Naturals

CONSTANTS
  Urls,         \* base URLs a provider block may have
  NoUrl,        \* the one of a block without base URL or key
  NoProvider,   \* no block of the configuration matches
  NoAuth,       \* no auth record
  NoConfig,     \* no configuration at hand
  Others,       \* the parts of the configuration that are not the plugin's
  Configs,      \* the configurations the operator writes
  Threads,      \* the host's threads, of which some ...
  Configurers,  \* ... bring plugin.register and plugin.reconfigure calls
  Editors,      \* ... bring provider editor saves
  Callers,      \* ... bring executor and model registration calls
  NoThread

Providers == [url : Urls, state : {"live", "off"}]
Settings  == [executor : {"on", "off"}, namespace : {"set", "empty"}]
Config    == [plugin : Settings, provider : Providers \cup {NoProvider}, other : Others]
Yaml      == [provider : Providers \cup {NoProvider}, other : Others]

ASSUME ConfigAssumption ==
  /\ Configs \subseteq Config
  /\ NoUrl \in Urls /\ NoProvider \notin Providers
  /\ NoThread \notin Threads /\ NoConfig \notin Config
  /\ NoAuth \notin {"set", "empty"} \X Urls
  /\ Configurers \cup Editors \cup Callers \subseteq Threads

VARIABLES
  file,         \* the mounted CPA config file
  settings,     \* pluginSettings
  yaml,         \* pluginConfigYAML
  cache,        \* providerSpecCache, NoProvider when found is false
  fingerprint,  \* executorAuthRecordState, NoAuth until ensured
  authFile,     \* the auth record the host keeps
  holder,       \* who holds the mutex of executorAuthRecordState
  declared,     \* the executor capability of the last registration answered
  pc,           \* where each thread stands
  stage,        \* the call it serves, "register" for the end of "configure"
  cfg,          \* the configuration a lifecycle call or save works on
  set,          \* the settings a call has read
  spec          \* the provider a call has resolved

shared == <<file, settings, yaml, cache, fingerprint, authFile, holder, declared>>
local  == <<pc, stage, cfg, set, spec>>
vars   == <<file, settings, yaml, cache, fingerprint, authFile, holder, declared,
            pc, stage, cfg, set, spec>>

PCs == {"idle", "load", "write", "applySettings", "applyYaml", "invalidate", "reset",
        "check", "readYaml", "store", "authorize", "ensure", "saving", "saved",
        "capabilities", "declare"}
Stages == {"none", "configure", "register", "save", "execute", "models"}

Default == [executor |-> "off", namespace |-> "empty"]
Auths   == {"set", "empty"} \X Urls

\* Mutation: the record is built from the wrong setting.
AuthOf_WrongSetting(s, p) == <<s.executor, p.url>>

\* fingerprint and contents of the auth record
AuthOf(s, p) == <<s.namespace, p.url>>

\* Mutation: a live provider is not looked at.
CanServe_NoGuard(s, p) == s.executor = "on"

\* canServeModels: the collision guard
CanServe(s, p) == s.executor = "on" /\ (s.namespace = "set" \/ p.state = "off")

TypeOK ==
  /\ file \in Config /\ settings \in Settings /\ yaml \in Yaml
  /\ cache \in Providers \cup {NoProvider}
  /\ fingerprint \in Auths \cup {NoAuth} /\ authFile \in Auths \cup {NoAuth}
  /\ holder \in Threads \cup {NoThread}
  /\ declared \in {"executor", "bare"}
  /\ pc \in [Threads -> PCs] /\ stage \in [Threads -> Stages]
  /\ cfg \in [Threads -> Config \cup {NoConfig}] /\ set \in [Threads -> Settings]
  /\ spec \in [Threads -> Providers \cup {NoProvider}]

Init ==
  /\ file \in Configs
  /\ settings = Default /\ yaml = [provider |-> NoProvider, other |-> file.other]
  /\ cache = NoProvider /\ fingerprint = NoAuth /\ authFile = NoAuth
  /\ holder = NoThread /\ declared = "bare"
  /\ pc = [t \in Threads |-> "idle"] /\ stage = [t \in Threads |-> "none"]
  /\ cfg = [t \in Threads |-> NoConfig] /\ set = [t \in Threads |-> Default]
  /\ spec = [t \in Threads |-> NoProvider]

Goto(t, l) == pc' = [pc EXCEPT ![t] = l]

\* The call is over and its locals are gone.
Return(t) ==
  /\ Goto(t, "idle")
  /\ stage' = [stage EXCEPT ![t] = "none"] /\ cfg' = [cfg EXCEPT ![t] = NoConfig]
  /\ set' = [set EXCEPT ![t] = Default] /\ spec' = [spec EXCEPT ![t] = NoProvider]

\* The next step of a call that stays in its stage
Continue(t, l) == Goto(t, l) /\ UNCHANGED <<stage, cfg, set, spec>>

-----------------------------------------------------------------------------
(* The operator, and calls arriving from the host.                         *)

\* The operator, or CPA itself, writes the config file.
EditFile ==
  /\ file' \in Configs
  /\ UNCHANGED <<settings, yaml, cache, fingerprint, authFile, holder, declared, local>>

\* plugin.register or plugin.reconfigure carries the configuration of now.
Configure(t) ==
  /\ t \in Configurers /\ pc[t] = "idle"
  /\ stage' = [stage EXCEPT ![t] = "configure"] /\ Goto(t, "load")
  /\ cfg' = [cfg EXCEPT ![t] = file]
  /\ UNCHANGED <<shared, set, spec>>

\* loadPluginConfiguration: a payload without a provider section is completed
\* from the file as it is by then, and one without plugin settings as well.
LoadConfiguration(t) ==
  /\ pc[t] = "load"
  /\ \/ UNCHANGED cfg
     \/ cfg' = [cfg EXCEPT ![t] = [file EXCEPT !.plugin = cfg[t].plugin]]
     \/ cfg' = [cfg EXCEPT ![t] = file]
  /\ Goto(t, "applySettings")
  /\ UNCHANGED <<shared, stage, set, spec>>

\* handleProviderEditorSave patches the YAML in memory with the payload; a
\* save whose provider is not in it is refused.
EditorSave(t, c) ==
  /\ t \in Editors /\ pc[t] = "idle"
  /\ yaml.provider # NoProvider /\ c.provider # NoProvider
  /\ stage' = [stage EXCEPT ![t] = "save"] /\ Goto(t, "write")
  /\ cfg' = [cfg EXCEPT ![t] = [c EXCEPT !.other = yaml.other]]
  /\ UNCHANGED <<shared, set, spec>>

\* os.WriteFile of the patched YAML over the config file
WriteConfig(t) ==
  /\ pc[t] = "write"
  /\ file' = cfg[t] /\ Continue(t, "applySettings")
  /\ UNCHANGED <<settings, yaml, cache, fingerprint, authFile, holder, declared>>

WriteConfigFails(t) == pc[t] = "write" /\ Return(t) /\ UNCHANGED shared

\* executor.execute, execute_stream, count_tokens, or a page: only resolves
Execute(t) ==
  /\ t \in Callers /\ pc[t] = "idle"
  /\ stage' = [stage EXCEPT ![t] = "execute"] /\ Goto(t, "check")
  /\ UNCHANGED <<shared, cfg, set, spec>>

\* model.register, model.static or model.for_auth: the settings are read first
RegisterModels(t) ==
  /\ t \in Callers /\ pc[t] = "idle"
  /\ stage' = [stage EXCEPT ![t] = "models"] /\ Goto(t, "check")
  /\ set' = [set EXCEPT ![t] = settings]
  /\ UNCHANGED <<shared, cfg, spec>>

-----------------------------------------------------------------------------
(* applyPluginConfiguration and the invalidation of what was derived.      *)

ApplySettings(t) ==
  /\ pc[t] = "applySettings"
  /\ settings' = cfg[t].plugin /\ Continue(t, "applyYaml")
  /\ UNCHANGED <<file, yaml, cache, fingerprint, authFile, holder, declared>>

ApplyYaml(t) ==
  /\ pc[t] = "applyYaml"
  /\ yaml' = [provider |-> cfg[t].provider, other |-> cfg[t].other]
  /\ Continue(t, "invalidate")
  /\ UNCHANGED <<file, settings, cache, fingerprint, authFile, holder, declared>>

\* Mutation: what was cached stays cached.
Invalidate_Skipped(t) ==
  /\ pc[t] = "invalidate"
  /\ Continue(t, IF stage[t] = "save" THEN "reset" ELSE "check") /\ UNCHANGED shared

\* storeProviderSpec(providerSpec{}, false)
Invalidate(t) ==
  /\ pc[t] = "invalidate"
  /\ cache' = NoProvider /\ Continue(t, IF stage[t] = "save" THEN "reset" ELSE "check")
  /\ UNCHANGED <<file, settings, yaml, fingerprint, authFile, holder, declared>>

\* resetExecutorAuthRecordState, under its mutex
ResetAuthState(t) ==
  /\ pc[t] = "reset" /\ holder = NoThread
  /\ fingerprint' = NoAuth /\ Continue(t, "check")
  /\ UNCHANGED <<file, settings, yaml, cache, authFile, holder, declared>>

-----------------------------------------------------------------------------
(* resolveProviderSpec: look into the cache, else extract and store.       *)

\* The call goes on with the provider it resolved, as far as it needs it.
Resolved(t, p) ==
  CASE stage[t] = "execute"  -> Return(t)
    [] stage[t] = "register" -> /\ spec' = [spec EXCEPT ![t] = NoProvider]
                                /\ Goto(t, "capabilities") /\ UNCHANGED <<stage, cfg, set>>
    [] OTHER                 -> /\ spec' = [spec EXCEPT ![t] = p]
                                /\ Goto(t, "authorize") /\ UNCHANGED <<stage, cfg, set>>

CacheHit(t) ==
  /\ pc[t] = "check" /\ cache # NoProvider
  /\ Resolved(t, cache) /\ UNCHANGED shared

CacheMiss(t) ==
  /\ pc[t] = "check" /\ cache = NoProvider
  /\ Continue(t, "readYaml") /\ UNCHANGED shared

\* currentConfigSnapshot, then extractProviderSpec on the copy
ReadYaml(t) ==
  /\ pc[t] = "readYaml"
  /\ IF yaml.provider = NoProvider THEN Resolved(t, NoProvider)
     ELSE /\ spec' = [spec EXCEPT ![t] = yaml.provider] /\ Goto(t, "store")
          /\ UNCHANGED <<stage, cfg, set>>
  /\ UNCHANGED shared

\* storeProviderSpec(spec, true)
StoreSpec(t) ==
  /\ pc[t] = "store"
  /\ cache' = spec[t] /\ Resolved(t, spec[t])
  /\ UNCHANGED <<file, settings, yaml, fingerprint, authFile, holder, declared>>

-----------------------------------------------------------------------------
(* ensureAuthRecord: its mutex is held while the host saves the record.    *)

\* Past the auth record a model registration answers.  The others scan the
\* providers, which resolves once more; a save then has nothing left to do.
Authorized(t) ==
  IF stage[t] = "models" THEN Return(t)
  ELSE /\ stage' = [stage EXCEPT ![t] = IF @ = "save" THEN "execute" ELSE "register"]
       /\ Goto(t, "check")
       /\ cfg' = [cfg EXCEPT ![t] = NoConfig] /\ set' = [set EXCEPT ![t] = Default]
       /\ spec' = [spec EXCEPT ![t] = NoProvider]

\* A lifecycle call or save reads the settings now; a model registration has
\* read them and answers without models when the collision guard says so.
Authorize(t) ==
  LET s == IF stage[t] = "models" THEN set[t] ELSE settings
      p == spec[t]
  IN  /\ pc[t] = "authorize"
      /\ IF \/ p = NoProvider \/ s.executor = "off"
            \/ stage[t] = "models" /\ ~ CanServe(s, p)
         THEN Authorized(t)
         ELSE /\ set' = [set EXCEPT ![t] = s] /\ Goto(t, "ensure")
              /\ UNCHANGED <<stage, cfg, spec>>
      /\ UNCHANGED shared

\* A block without base URL or key is refused; a record that is known to be
\* right is left alone.
EnsureSkips(t) ==
  /\ pc[t] = "ensure"
  /\ \/ spec[t].url = NoUrl
     \/ holder = NoThread /\ fingerprint = AuthOf(set[t], spec[t])
  /\ Authorized(t) /\ UNCHANGED shared

\* Mutation: the mutex does not cover the host call.
EnsureLocks_Unlocked(t) ==
  /\ pc[t] = "ensure" /\ holder = NoThread
  /\ spec[t].url # NoUrl /\ fingerprint # AuthOf(set[t], spec[t])
  /\ Continue(t, "saving") /\ UNCHANGED shared

EnsureLocks(t) ==
  /\ pc[t] = "ensure" /\ holder = NoThread
  /\ spec[t].url # NoUrl /\ fingerprint # AuthOf(set[t], spec[t])
  /\ holder' = t /\ Continue(t, "saving")
  /\ UNCHANGED <<file, settings, yaml, cache, fingerprint, authFile, declared>>

\* The host writes the record (host.auth.save) ...
AuthSave(t) ==
  /\ pc[t] = "saving"
  /\ authFile' = AuthOf(set[t], spec[t]) /\ Continue(t, "saved")
  /\ UNCHANGED <<file, settings, yaml, cache, fingerprint, holder, declared>>

\* ... or refuses to, which the plugin only logs ...
AuthSaveFails(t) ==
  /\ pc[t] = "saving"
  /\ holder' = NoThread /\ Authorized(t)
  /\ UNCHANGED <<file, settings, yaml, cache, fingerprint, authFile, declared>>

\* ... and the plugin remembers what it had the host write.
AuthSaved(t) ==
  /\ pc[t] = "saved"
  /\ fingerprint' = AuthOf(set[t], spec[t]) /\ holder' = NoThread /\ Authorized(t)
  /\ UNCHANGED <<file, settings, yaml, cache, authFile, declared>>

-----------------------------------------------------------------------------
(* registrationCapabilities: settings and cache are read one by one.       *)

ReadCapabilitySettings(t) ==
  /\ pc[t] = "capabilities"
  /\ set' = [set EXCEPT ![t] = settings] /\ Goto(t, "declare")
  /\ UNCHANGED <<shared, stage, cfg, spec>>

Declare(t) ==
  /\ pc[t] = "declare"
  /\ declared' = IF cache # NoProvider /\ CanServe(set[t], cache) THEN "executor" ELSE "bare"
  /\ Return(t)
  /\ UNCHANGED <<file, settings, yaml, cache, fingerprint, authFile, holder>>

-----------------------------------------------------------------------------
\* What a call does once it has begun
Step(t) ==
  \/ LoadConfiguration(t) \/ WriteConfig(t) \/ WriteConfigFails(t)
  \/ ApplySettings(t) \/ ApplyYaml(t) \/ Invalidate(t) \/ ResetAuthState(t)
  \/ CacheHit(t) \/ CacheMiss(t) \/ ReadYaml(t) \/ StoreSpec(t)
  \/ Authorize(t) \/ EnsureSkips(t) \/ EnsureLocks(t)
  \/ AuthSave(t) \/ AuthSaveFails(t) \/ AuthSaved(t)
  \/ ReadCapabilitySettings(t) \/ Declare(t)

Edit == EditFile \/ \E t \in Editors, c \in Configs : EditorSave(t, c)

Next ==
  \/ Edit
  \/ \E t \in Threads : Configure(t) \/ Execute(t) \/ RegisterModels(t) \/ Step(t)

\* Go schedules every call and hands a mutex to every waiter; CPA reconfigures
\* the plugin again and again; a record it is asked to save again and again it
\* saves in the end.
Fairness ==
  /\ \A t \in Threads : WF_vars(Step(t))
  /\ \A t \in Threads : SF_vars(EnsureLocks(t) \/ EnsureSkips(t) \/ ResetAuthState(t))
  /\ \A t \in Threads : SF_vars(AuthSave(t))
  /\ SF_vars(\E t \in Configurers : Configure(t))

SafetySpec == Init /\ [][Next]_vars
Spec == SafetySpec /\ Fairness

-----------------------------------------------------------------------------
(* Properties                                                              *)

\* The record the plugin believes the host keeps is the one it keeps: holding
\* the mutex across host.auth.save leaves no window in which two calls with
\* different settings write the record in one order and remember it in the
\* other (ensureAuthRecord).
AuthRecordHonest ==
  fingerprint # NoAuth /\ (\A t \in Threads : pc[t] \notin {"saving", "saved"})
    => authFile = fingerprint

\* Everything derived from a configuration follows from this one.
Settled(c) ==
  /\ settings = c.plugin /\ yaml.provider = c.provider
  /\ cache \in {NoProvider, c.provider}
  /\ c.provider # NoProvider /\ c.provider.url # NoUrl /\ c.plugin.executor = "on"
       => authFile = AuthOf(c.plugin, c.provider)

\* Whatever overlapped before, once the configuration is no longer edited the
\* repeated reconfigurations bring settings, cache and auth record in line
\* with the file, and they stay so (configurePlugin).
EventuallySettled == <>[][~ Edit]_vars => <>[]Settled(file)

\* No two lifecycle calls are under way at once.
OneAtATime ==
  \A t, u \in Threads :
    stage[t] \in {"configure", "register"} /\ stage[u] \in {"configure", "register"} => t = u

\* The executor ends up declared to the host exactly when the configuration
\* asks for it and the collision guard lets it (registrationCapabilities), once
\* lifecycle calls no longer overlap: while they do, one may read the cache in
\* the window in which another has dropped it, and declare nothing.
EventuallyDeclared ==
  <>[][~ Edit]_vars /\ <>[]OneAtATime =>
    <>[](declared = "executor" <=>
           /\ file.provider # NoProvider /\ file.plugin.executor = "on"
           /\ file.plugin.namespace = "set" \/ file.provider.state = "off")
=============================================================================
