------------------------ MODULE ConfigLifecycleProofs ------------------------
(***************************************************************************)
(* Theorems about ConfigLifecycle, for any number of threads and any       *)
(* configurations: type correctness, and that the auth record the plugin   *)
(* remembers is the one the host keeps.                                    *)
(***************************************************************************)
EXTENDS ConfigLifecycle, TLAPS

\* A call that works on a configuration has one, and a call past its
\* resolution works on a provider.
LocalInv ==
  \A t \in Threads :
    /\ pc[t] \in {"load", "write", "applySettings", "applyYaml"} => cfg[t] \in Config
    /\ pc[t] \in {"store", "ensure", "saving", "saved"} => spec[t] \in Providers

\* The mutex is held by the call that saves, and between the calls that save
\* the record and the memory of it agree.
LockInv ==
  /\ \A t \in Threads : pc[t] \in {"saving", "saved"} <=> holder = t
  /\ (\A t \in Threads : pc[t] # "saved") => fingerprint \in {NoAuth, authFile}
  /\ \A t \in Threads : pc[t] = "saved" => authFile = AuthOf(set[t], spec[t])

IInv == TypeOK /\ LocalInv /\ LockInv

LEMMA InitIInv == Init => IInv
<1> SUFFICES ASSUME Init PROVE IInv
  OBVIOUS
<1>1. Configs \subseteq Config /\ Default \in Settings /\ NoThread \notin Threads
  BY ConfigAssumption DEF Settings, Default
<1>2. TypeOK
  BY <1>1 DEF Init, TypeOK, Config, Yaml, PCs, Stages
<1>3. LocalInv /\ LockInv
  BY <1>1 DEF Init, LocalInv, LockInv
<1>4. QED
  BY <1>2, <1>3 DEF IInv

\* What the actions make of configurations has the types they keep.
LEMMA ConfigTypes ==
  /\ Configs \subseteq Config
  /\ Default \in Settings
  /\ \A c \in Config : /\ c.plugin \in Settings
                       /\ c.provider \in Providers \cup {NoProvider}
                       /\ [provider |-> c.provider, other |-> c.other] \in Yaml
  /\ \A c, d \in Config : [c EXCEPT !.plugin = d.plugin] \in Config
  /\ \A c \in Config, y \in Yaml : [c EXCEPT !.other = y.other] \in Config
  /\ \A y \in Yaml : y.provider \in Providers \cup {NoProvider}
  /\ \A s \in Settings, p \in Providers : AuthOf(s, p) \in Auths
<1>1. Configs \subseteq Config /\ Default \in Settings
  BY ConfigAssumption DEF Settings, Default
<1>2. ASSUME NEW c \in Config
      PROVE  /\ c.plugin \in Settings
             /\ c.provider \in Providers \cup {NoProvider}
             /\ [provider |-> c.provider, other |-> c.other] \in Yaml
  BY DEF Config, Yaml
<1>3. ASSUME NEW c \in Config, NEW d \in Config
      PROVE  [c EXCEPT !.plugin = d.plugin] \in Config
  BY DEF Config
<1>4. ASSUME NEW c \in Config, NEW y \in Yaml
      PROVE  [c EXCEPT !.other = y.other] \in Config
  BY DEF Config, Yaml
<1>5. \A y \in Yaml : y.provider \in Providers \cup {NoProvider}
  BY DEF Yaml
<1>6. \A s \in Settings, p \in Providers : AuthOf(s, p) \in Auths
  BY DEF Settings, Providers, AuthOf, Auths
<1>7. QED
  BY <1>1, <1>2, <1>3, <1>4, <1>5, <1>6

\* Every action keeps the types.
LEMMA TypeStep == IInv /\ [Next]_vars => TypeOK'
<1> SUFFICES ASSUME IInv, [Next]_vars PROVE TypeOK'
  OBVIOUS
<1> USE DEF shared, local, Goto, PCs, Stages
<1>a. TypeOK /\ LocalInv
  BY DEF IInv
<1>1. CASE EditFile
  BY <1>1, <1>a, ConfigTypes DEF TypeOK, LocalInv, EditFile
<1>2. ASSUME NEW t \in Threads, Configure(t) PROVE TypeOK'
  BY <1>2, <1>a, ConfigTypes DEF TypeOK, LocalInv, Configure
<1>3. ASSUME NEW t \in Threads, LoadConfiguration(t) PROVE TypeOK'
  BY <1>3, <1>a, ConfigTypes DEF TypeOK, LocalInv, LoadConfiguration
<1>4. ASSUME NEW t \in Editors, NEW c \in Configs, EditorSave(t, c)
      PROVE  TypeOK'
  BY <1>4, <1>a, ConfigTypes DEF TypeOK, LocalInv, EditorSave
<1>5. ASSUME NEW t \in Threads, WriteConfig(t) PROVE TypeOK'
  BY <1>5, <1>a, ConfigTypes DEF TypeOK, LocalInv, WriteConfig, Continue
<1>6. ASSUME NEW t \in Threads, WriteConfigFails(t) PROVE TypeOK'
  BY <1>6, <1>a, ConfigTypes DEF TypeOK, LocalInv, WriteConfigFails, Return
<1>7. ASSUME NEW t \in Threads, Execute(t) PROVE TypeOK'
  BY <1>7, <1>a, ConfigTypes DEF TypeOK, LocalInv, Execute
<1>8. ASSUME NEW t \in Threads, RegisterModels(t) PROVE TypeOK'
  BY <1>8, <1>a, ConfigTypes DEF TypeOK, LocalInv, RegisterModels
<1>9. ASSUME NEW t \in Threads, ApplySettings(t) PROVE TypeOK'
  BY <1>9, <1>a, ConfigTypes DEF TypeOK, LocalInv, ApplySettings, Continue
<1>10. ASSUME NEW t \in Threads, ApplyYaml(t) PROVE TypeOK'
  BY <1>10, <1>a, ConfigTypes DEF TypeOK, LocalInv, ApplyYaml, Continue
<1>11. ASSUME NEW t \in Threads, Invalidate(t) PROVE TypeOK'
  BY <1>11, <1>a, ConfigTypes DEF TypeOK, LocalInv, Invalidate, Continue
<1>12. ASSUME NEW t \in Threads, ResetAuthState(t) PROVE TypeOK'
  BY <1>12, <1>a, ConfigTypes DEF TypeOK, LocalInv, ResetAuthState, Continue
<1>13. ASSUME NEW t \in Threads, CacheHit(t) PROVE TypeOK'
  BY <1>13, <1>a, ConfigTypes DEF TypeOK, LocalInv, CacheHit, Resolved, Return
<1>14. ASSUME NEW t \in Threads, CacheMiss(t) PROVE TypeOK'
  BY <1>14, <1>a, ConfigTypes DEF TypeOK, LocalInv, CacheMiss, Continue
<1>15. ASSUME NEW t \in Threads, ReadYaml(t) PROVE TypeOK'
  BY <1>15, <1>a, ConfigTypes DEF TypeOK, LocalInv, ReadYaml, Resolved, Return
<1>16. ASSUME NEW t \in Threads, StoreSpec(t) PROVE TypeOK'
  BY <1>16, <1>a, ConfigTypes DEF TypeOK, LocalInv, StoreSpec, Resolved, Return
<1>17. ASSUME NEW t \in Threads, Authorize(t) PROVE TypeOK'
  BY <1>17, <1>a, ConfigTypes DEF TypeOK, LocalInv, Authorize, Authorized, Return
<1>18. ASSUME NEW t \in Threads, EnsureSkips(t) PROVE TypeOK'
  BY <1>18, <1>a, ConfigTypes DEF TypeOK, LocalInv, EnsureSkips, Authorized, Return
<1>19. ASSUME NEW t \in Threads, EnsureLocks(t) PROVE TypeOK'
  BY <1>19, <1>a, ConfigTypes DEF TypeOK, LocalInv, EnsureLocks, Continue
<1>20. ASSUME NEW t \in Threads, AuthSave(t) PROVE TypeOK'
  BY <1>20, <1>a, ConfigTypes DEF TypeOK, LocalInv, AuthSave, Continue
<1>21. ASSUME NEW t \in Threads, AuthSaveFails(t) PROVE TypeOK'
  BY <1>21, <1>a, ConfigTypes DEF TypeOK, LocalInv, AuthSaveFails, Authorized, Return
<1>22. ASSUME NEW t \in Threads, AuthSaved(t) PROVE TypeOK'
  BY <1>22, <1>a, ConfigTypes DEF TypeOK, LocalInv, AuthSaved, Authorized, Return
<1>23. ASSUME NEW t \in Threads, ReadCapabilitySettings(t) PROVE TypeOK'
  BY <1>23, <1>a, ConfigTypes DEF TypeOK, LocalInv, ReadCapabilitySettings
<1>24. ASSUME NEW t \in Threads, Declare(t) PROVE TypeOK'
  BY <1>24, <1>a, ConfigTypes DEF TypeOK, LocalInv, Declare, Return
<1>25. CASE UNCHANGED vars
  BY <1>25, <1>a, ConfigTypes DEF TypeOK, LocalInv, vars
<1>26. QED
  BY <1>1, <1>2, <1>3, <1>4, <1>5, <1>6, <1>7, <1>8, <1>9, <1>10, <1>11,
     <1>12, <1>13, <1>14, <1>15, <1>16, <1>17, <1>18, <1>19, <1>20, <1>21,
     <1>22, <1>23, <1>24, <1>25
  DEF Next, Edit, Step

\* Every action hands on what the next one of the call works on.
LEMMA LocalStep == IInv /\ [Next]_vars => LocalInv'
<1> SUFFICES ASSUME IInv, [Next]_vars PROVE LocalInv'
  OBVIOUS
<1> USE DEF shared, local, Goto, PCs, Stages
<1>a. TypeOK /\ LocalInv
  BY DEF IInv
<1>1. CASE EditFile
  BY <1>1, <1>a, ConfigTypes DEF TypeOK, LocalInv, EditFile
<1>2. ASSUME NEW t \in Threads, Configure(t) PROVE LocalInv'
  BY <1>2, <1>a, ConfigTypes DEF TypeOK, LocalInv, Configure
<1>3. ASSUME NEW t \in Threads, LoadConfiguration(t) PROVE LocalInv'
  BY <1>3, <1>a, ConfigTypes DEF TypeOK, LocalInv, LoadConfiguration
<1>4. ASSUME NEW t \in Editors, NEW c \in Configs, EditorSave(t, c)
      PROVE  LocalInv'
  BY <1>4, <1>a, ConfigTypes DEF TypeOK, LocalInv, EditorSave
<1>5. ASSUME NEW t \in Threads, WriteConfig(t) PROVE LocalInv'
  BY <1>5, <1>a, ConfigTypes DEF TypeOK, LocalInv, WriteConfig, Continue
<1>6. ASSUME NEW t \in Threads, WriteConfigFails(t) PROVE LocalInv'
  BY <1>6, <1>a, ConfigTypes DEF TypeOK, LocalInv, WriteConfigFails, Return
<1>7. ASSUME NEW t \in Threads, Execute(t) PROVE LocalInv'
  BY <1>7, <1>a, ConfigTypes DEF TypeOK, LocalInv, Execute
<1>8. ASSUME NEW t \in Threads, RegisterModels(t) PROVE LocalInv'
  BY <1>8, <1>a, ConfigTypes DEF TypeOK, LocalInv, RegisterModels
<1>9. ASSUME NEW t \in Threads, ApplySettings(t) PROVE LocalInv'
  BY <1>9, <1>a, ConfigTypes DEF TypeOK, LocalInv, ApplySettings, Continue
<1>10. ASSUME NEW t \in Threads, ApplyYaml(t) PROVE LocalInv'
  BY <1>10, <1>a, ConfigTypes DEF TypeOK, LocalInv, ApplyYaml, Continue
<1>11. ASSUME NEW t \in Threads, Invalidate(t) PROVE LocalInv'
  BY <1>11, <1>a, ConfigTypes DEF TypeOK, LocalInv, Invalidate, Continue
<1>12. ASSUME NEW t \in Threads, ResetAuthState(t) PROVE LocalInv'
  BY <1>12, <1>a, ConfigTypes DEF TypeOK, LocalInv, ResetAuthState, Continue
<1>13. ASSUME NEW t \in Threads, CacheHit(t) PROVE LocalInv'
  BY <1>13, <1>a, ConfigTypes DEF TypeOK, LocalInv, CacheHit, Resolved, Return
<1>14. ASSUME NEW t \in Threads, CacheMiss(t) PROVE LocalInv'
  BY <1>14, <1>a, ConfigTypes DEF TypeOK, LocalInv, CacheMiss, Continue
<1>15. ASSUME NEW t \in Threads, ReadYaml(t) PROVE LocalInv'
  BY <1>15, <1>a, ConfigTypes DEF TypeOK, LocalInv, ReadYaml, Resolved, Return
<1>16. ASSUME NEW t \in Threads, StoreSpec(t) PROVE LocalInv'
  BY <1>16, <1>a, ConfigTypes DEF TypeOK, LocalInv, StoreSpec, Resolved, Return
<1>17. ASSUME NEW t \in Threads, Authorize(t) PROVE LocalInv'
  BY <1>17, <1>a, ConfigTypes DEF TypeOK, LocalInv, Authorize, Authorized, Return
<1>18. ASSUME NEW t \in Threads, EnsureSkips(t) PROVE LocalInv'
  BY <1>18, <1>a, ConfigTypes DEF TypeOK, LocalInv, EnsureSkips, Authorized, Return
<1>19. ASSUME NEW t \in Threads, EnsureLocks(t) PROVE LocalInv'
  BY <1>19, <1>a, ConfigTypes DEF TypeOK, LocalInv, EnsureLocks, Continue
<1>20. ASSUME NEW t \in Threads, AuthSave(t) PROVE LocalInv'
  BY <1>20, <1>a, ConfigTypes DEF TypeOK, LocalInv, AuthSave, Continue
<1>21. ASSUME NEW t \in Threads, AuthSaveFails(t) PROVE LocalInv'
  BY <1>21, <1>a, ConfigTypes DEF TypeOK, LocalInv, AuthSaveFails, Authorized, Return
<1>22. ASSUME NEW t \in Threads, AuthSaved(t) PROVE LocalInv'
  BY <1>22, <1>a, ConfigTypes DEF TypeOK, LocalInv, AuthSaved, Authorized, Return
<1>23. ASSUME NEW t \in Threads, ReadCapabilitySettings(t) PROVE LocalInv'
  BY <1>23, <1>a, ConfigTypes DEF TypeOK, LocalInv, ReadCapabilitySettings
<1>24. ASSUME NEW t \in Threads, Declare(t) PROVE LocalInv'
  BY <1>24, <1>a, ConfigTypes DEF TypeOK, LocalInv, Declare, Return
<1>25. CASE UNCHANGED vars
  BY <1>25, <1>a, ConfigTypes DEF TypeOK, LocalInv, vars
<1>26. QED
  BY <1>1, <1>2, <1>3, <1>4, <1>5, <1>6, <1>7, <1>8, <1>9, <1>10, <1>11,
     <1>12, <1>13, <1>14, <1>15, <1>16, <1>17, <1>18, <1>19, <1>20, <1>21,
     <1>22, <1>23, <1>24, <1>25
  DEF Next, Edit, Step

\* Every action respects the mutex and what it protects.
LEMMA LockStep == IInv /\ [Next]_vars => LockInv'
<1> SUFFICES ASSUME IInv, [Next]_vars PROVE LockInv'
  OBVIOUS
<1> USE DEF shared, local, Goto, PCs, Stages
<1>a. TypeOK /\ LockInv
  BY DEF IInv
<1>b. NoThread \notin Threads /\ NoProvider \notin Providers
  BY ConfigAssumption
<1>1. CASE EditFile
  BY <1>1, <1>a, <1>b DEF TypeOK, LockInv, EditFile
<1>2. ASSUME NEW t \in Threads, Configure(t) PROVE LockInv'
  BY <1>2, <1>a, <1>b DEF TypeOK, LockInv, Configure
<1>3. ASSUME NEW t \in Threads, LoadConfiguration(t) PROVE LockInv'
  BY <1>3, <1>a, <1>b DEF TypeOK, LockInv, LoadConfiguration
<1>4. ASSUME NEW t \in Editors, NEW c \in Configs, EditorSave(t, c)
      PROVE  LockInv'
  BY <1>4, <1>a, <1>b DEF TypeOK, LockInv, EditorSave
<1>5. ASSUME NEW t \in Threads, WriteConfig(t) PROVE LockInv'
  BY <1>5, <1>a, <1>b DEF TypeOK, LockInv, WriteConfig, Continue
<1>6. ASSUME NEW t \in Threads, WriteConfigFails(t) PROVE LockInv'
  BY <1>6, <1>a, <1>b DEF TypeOK, LockInv, WriteConfigFails, Return
<1>7. ASSUME NEW t \in Threads, Execute(t) PROVE LockInv'
  BY <1>7, <1>a, <1>b DEF TypeOK, LockInv, Execute
<1>8. ASSUME NEW t \in Threads, RegisterModels(t) PROVE LockInv'
  BY <1>8, <1>a, <1>b DEF TypeOK, LockInv, RegisterModels
<1>9. ASSUME NEW t \in Threads, ApplySettings(t) PROVE LockInv'
  BY <1>9, <1>a, <1>b DEF TypeOK, LockInv, ApplySettings, Continue
<1>10. ASSUME NEW t \in Threads, ApplyYaml(t) PROVE LockInv'
  BY <1>10, <1>a, <1>b DEF TypeOK, LockInv, ApplyYaml, Continue
<1>11. ASSUME NEW t \in Threads, Invalidate(t) PROVE LockInv'
  BY <1>11, <1>a, <1>b DEF TypeOK, LockInv, Invalidate, Continue
<1>12. ASSUME NEW t \in Threads, ResetAuthState(t) PROVE LockInv'
  BY <1>12, <1>a, <1>b DEF TypeOK, LockInv, ResetAuthState, Continue
<1>13. ASSUME NEW t \in Threads, CacheHit(t) PROVE LockInv'
  BY <1>13, <1>a, <1>b DEF TypeOK, LockInv, CacheHit, Resolved, Return
<1>14. ASSUME NEW t \in Threads, CacheMiss(t) PROVE LockInv'
  BY <1>14, <1>a, <1>b DEF TypeOK, LockInv, CacheMiss, Continue
<1>15. ASSUME NEW t \in Threads, ReadYaml(t) PROVE LockInv'
  BY <1>15, <1>a, <1>b DEF TypeOK, LockInv, ReadYaml, Resolved, Return
<1>16. ASSUME NEW t \in Threads, StoreSpec(t) PROVE LockInv'
  BY <1>16, <1>a, <1>b DEF TypeOK, LockInv, StoreSpec, Resolved, Return
<1>17. ASSUME NEW t \in Threads, Authorize(t) PROVE LockInv'
  BY <1>17, <1>a, <1>b DEF TypeOK, LockInv, Authorize, Authorized, Return
<1>18. ASSUME NEW t \in Threads, EnsureSkips(t) PROVE LockInv'
  BY <1>18, <1>a, <1>b DEF TypeOK, LockInv, EnsureSkips, Authorized, Return
<1>19. ASSUME NEW t \in Threads, EnsureLocks(t) PROVE LockInv'
  BY <1>19, <1>a, <1>b DEF TypeOK, LockInv, EnsureLocks, Continue
<1>20. ASSUME NEW t \in Threads, AuthSave(t) PROVE LockInv'
  BY <1>20, <1>a, <1>b DEF TypeOK, LockInv, AuthSave, Continue
<1>21. ASSUME NEW t \in Threads, AuthSaveFails(t) PROVE LockInv'
  BY <1>21, <1>a, <1>b DEF TypeOK, LockInv, AuthSaveFails, Authorized, Return
<1>22. ASSUME NEW t \in Threads, AuthSaved(t) PROVE LockInv'
  BY <1>22, <1>a, <1>b DEF TypeOK, LockInv, AuthSaved, Authorized, Return
<1>23. ASSUME NEW t \in Threads, ReadCapabilitySettings(t) PROVE LockInv'
  BY <1>23, <1>a, <1>b DEF TypeOK, LockInv, ReadCapabilitySettings
<1>24. ASSUME NEW t \in Threads, Declare(t) PROVE LockInv'
  BY <1>24, <1>a, <1>b DEF TypeOK, LockInv, Declare, Return
<1>25. CASE UNCHANGED vars
  BY <1>25, <1>a, <1>b DEF TypeOK, LockInv, vars
<1>26. QED
  BY <1>1, <1>2, <1>3, <1>4, <1>5, <1>6, <1>7, <1>8, <1>9, <1>10, <1>11,
     <1>12, <1>13, <1>14, <1>15, <1>16, <1>17, <1>18, <1>19, <1>20, <1>21,
     <1>22, <1>23, <1>24, <1>25
  DEF Next, Edit, Step

-----------------------------------------------------------------------------
\* The invariant holds in every state the program reaches, whatever the
\* threads interleave.
THEOREM Invariant == Spec => []IInv
<1>1. IInv /\ [Next]_vars => IInv'
  BY TypeStep, LocalStep, LockStep DEF IInv
<1>2. QED
  BY InitIInv, <1>1, PTL DEF Spec, SafetySpec

\* The variables keep their types.
THEOREM TypeCorrect == Spec => []TypeOK
<1>1. IInv => TypeOK
  BY DEF IInv
<1>2. QED
  BY <1>1, Invariant, PTL

\* The auth record the plugin remembers is the one the host keeps whenever no
\* call is between locking the record's mutex and releasing it, for any number
\* of registrations and saves at once (ensureAuthRecord).
THEOREM AuthRecordHonestHolds == Spec => []AuthRecordHonest
<1>1. IInv => AuthRecordHonest
  BY DEF IInv, LockInv, AuthRecordHonest
<1>2. QED
  BY <1>1, Invariant, PTL
=============================================================================
