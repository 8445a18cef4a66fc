-------------------------- MODULE InjectionProofs --------------------------
(***************************************************************************)
(* Theorems about Injection, for every number of rounds a wait may last    *)
(* and every configuration.                                                *)
(***************************************************************************)
EXTENDS Injection, TLAPS

(* The part of TypeOK about Boolean variables.                             *)
FlagsOK ==
  /\ g_isRunningInWine \in BOOLEAN
  /\ gameLoaded \in BOOLEAN /\ complete \in BOOLEAN /\ online \in BOOLEAN
  /\ iaWindow \in BOOLEAN /\ g_gameApiResolved \in BOOLEAN
  /\ g_hEvent \in BOOLEAN /\ instance \in BOOLEAN /\ listener \in BOOLEAN
  /\ g_tcpClient \in BOOLEAN
  /\ findNext \in BOOLEAN /\ m_isActive \in BOOLEAN
  /\ bypassed \in BOOLEAN
  /\ seedThread \in BOOLEAN /\ worker \in BOOLEAN /\ wineSetActiveDone \in BOOLEAN
  /\ reported \in BOOLEAN

(* What has been reached in each phase.                                    *)
ApiInv ==
  /\ g_gameApiResolved \/ phase = "resolve" => gameLoaded
  /\ phase \in {"online", "configure", "enable", "done"} => g_gameApiResolved

(* The phases in which no hook has been touched.                           *)
Untouched == phase \notin {"enable", "done"}

UntouchedInv ==
  Untouched => /\ next = 1 /\ \A h \in Hook : hook[h] = "off"
               /\ ~m_isActive /\ ~worker /\ depositListeners = 0

(* The hooks before next are finished, those after it are untouched.       *)
OrderInv ==
  /\ \A k \in 1..9 : /\ k > next => hook[Order[k]] = "off"
                     /\ k < next => hook[Order[k]] # "patched"
  /\ worker <=> phase = "done"
  /\ phase = "done" => next = 10

(* No hook has been touched that the configuration does not ask for.       *)
WantedInv == \A h \in Hook : hook[h] # "off" => Wanted(h)

(* Instaloot's objects and the order in which its hooks are enabled.       *)
InstalootInv ==
  /\ hook["GetPrivateStash"] # "patched"
  /\ next > 6 /\ instance => findNext
  /\ m_isActive => g_isRunningInWine \/ worker

(* The threads for the deposits: Configure starts one under Wine, and the  *)
(* worker the others.  The reset in EnableHook comes after Configure.      *)
ListenerInv ==
  /\ depositListeners > 0 => g_isRunningInWine \/ worker
  /\ g_isRunningInWine => depositListeners <= IF wineSetActiveDone THEN 2 ELSE 1
  /\ m_isActive => instance /\ (g_hEvent \/ next <= 6)
  /\ seedThread => worker

ReportInv == reported <=> phase = "cancelled"

InjectionInv ==
  /\ TypeOK /\ ApiInv /\ UntouchedInv /\ OrderInv
  /\ WantedInv /\ InstalootInv /\ ListenerInv /\ ReportInv

(* Order names each hook once.                                             *)
LEMMA OrderIsOneToOne ==
  /\ \A k \in 1..9 : Order[k] \in Hook
  /\ \A j, k \in 1..9 : Order[j] = Order[k] => j = k
  /\ Order[5] = "Update" /\ Order[6] = "GetPrivateStash"
<1>1. \A k \in 1..9 : Order[k] \in Hook
  BY DEF Hook
<1>2. \A j, k \in 1..9 : Order[j] = Order[k] => j = k
  <2> SUFFICES ASSUME NEW j \in 1..9, NEW k \in 1..9, Order[j] = Order[k]
               PROVE  j = k
    OBVIOUS
  <2>1. j \in {1, 2, 3, 4, 5, 6, 7, 8, 9} /\ k \in {1, 2, 3, 4, 5, 6, 7, 8, 9}
    OBVIOUS
  <2> QED BY <2>1 DEF Order
<1>3. Order[5] = "Update" /\ Order[6] = "GetPrivateStash"
  BY DEF Order
<1> QED BY <1>1, <1>2, <1>3

(* Instaloot's hooks that no switch of their own turns off.                *)
LEMMA WantedByInstaloot ==
  /\ Wanted("GetPrivateStash") <=> instance
  /\ Wanted("Update") => instance
<1>1. "GetPrivateStash" \in InstalootHook
  BY OrderIsOneToOne DEF InstalootHook
<1> QED BY <1>1 DEF Wanted

(* The DLL starts in the invariant.                                        *)
LEMMA InitInjectionInv == Init => InjectionInv
<1> SUFFICES ASSUME Init PROVE InjectionInv
  OBVIOUS
<1>1. TypeOK
  <2>1. FlagsOK
    BY Zenon DEF Init, FlagsOK
  <2>2. /\ config \subseteq Flag /\ waited \in 0..WaitMax /\ next \in 1..10
        /\ hook \in [Hook -> {"off", "patched", "stored"}]
        /\ depositListeners \in 0..ListenerMax
    BY InjectionAssumption DEF Init
  <2> QED BY <2>1, <2>2, Zenon DEF TypeOK, FlagsOK, Init
<1>2. "Update" \in Hook
  BY OrderIsOneToOne
<1> QED
  BY <1>1, <1>2, OrderIsOneToOne
  DEF Init, InjectionInv, ApiInv, UntouchedInv, OrderInv, WantedInv, InstalootInv,
      ListenerInv, ReportInv, Untouched

(* A step of DeferredInit before it enables the hooks.                     *)
LEMMA WaitStep ==
  ASSUME InjectionInv, ProcessAttach \/ WaitForModules \/ ResolveApi \/ WaitUntilOnline
  PROVE  InjectionInv'
<1> USE DEF envVars, objectVars, hookVars, lootVars, threadVars, Cancel, Sleep, Proceed
<1>1. /\ TypeOK /\ ApiInv /\ UntouchedInv /\ OrderInv
      /\ WantedInv /\ InstalootInv /\ ListenerInv /\ ReportInv
  BY DEF InjectionInv
<1>2. /\ UNCHANGED <<envVars, objectVars, hookVars, lootVars, bypassed, threadVars>>
      /\ phase \in {"attach", "modules", "resolve", "online"}
      /\ phase' \notin {"enable", "done"}
  BY <1>1 DEF ProcessAttach, WaitForModules, ResolveApi, WaitUntilOnline, TypeOK
<1>3. TypeOK'
  <2>1. waited' \in 0..WaitMax
    BY <1>1, InjectionAssumption
    DEF TypeOK, ProcessAttach, WaitForModules, ResolveApi, WaitUntilOnline
  <2>2. phase' \in {"attach", "passthrough", "modules", "resolve", "online", "configure",
                    "enable", "done", "cancelled"}
    BY <1>1 DEF TypeOK, ProcessAttach, WaitForModules, ResolveApi, WaitUntilOnline
  <2>3. g_gameApiResolved' \in BOOLEAN /\ reported' \in BOOLEAN
    BY <1>1, Zenon DEF TypeOK, ProcessAttach, WaitForModules, ResolveApi, WaitUntilOnline
  <2> QED BY <1>1, <1>2, <2>1, <2>2, <2>3 DEF TypeOK
<1>4. ApiInv'
  BY <1>1 DEF ApiInv, ProcessAttach, WaitForModules, ResolveApi, WaitUntilOnline
<1>5. UntouchedInv' /\ OrderInv' /\ InstalootInv' /\ ListenerInv'
  BY <1>1, <1>2 DEF UntouchedInv, OrderInv, InstalootInv, ListenerInv, Untouched
<1>6. WantedInv'
  BY <1>1, <1>2 DEF WantedInv, Wanted
<1>7. ReportInv'
  BY <1>1 DEF ReportInv, ProcessAttach, WaitForModules, ResolveApi, WaitUntilOnline
<1> QED BY <1>3, <1>4, <1>5, <1>6, <1>7 DEF InjectionInv

(* Creating the objects and starting the threads.                          *)
LEMMA ConfigureStep ==
  ASSUME InjectionInv, Configure \/ StartThreads
  PROVE  InjectionInv'
<1> USE DEF envVars, hookVars
<1>1. /\ TypeOK /\ ApiInv /\ UntouchedInv /\ OrderInv
      /\ WantedInv /\ InstalootInv /\ ListenerInv /\ ReportInv
  BY DEF InjectionInv
<1>2. UNCHANGED <<envVars, waited, g_gameApiResolved, hookVars, bypassed,
                  wineSetActiveDone, reported>>
  BY Zenon DEF Configure, StartThreads, threadVars
<1>3. \/ /\ Configure
         /\ phase = "configure" /\ phase' = "enable" /\ g_hEvent' \in BOOLEAN
         /\ SetActive(instance' /\ g_isRunningInWine)
         /\ UNCHANGED <<worker, seedThread>>
      \/ /\ StartThreads
         /\ phase = "enable" /\ phase' = "done" /\ next = 10 /\ worker' = TRUE
         /\ UNCHANGED <<g_hEvent, instance, listener, m_isActive, depositListeners>>
  BY Zenon DEF Configure, StartThreads, threadVars, lootVars
<1>0. /\ depositListeners' \in 0..ListenerMax
      /\ m_isActive' => instance' /\ (g_isRunningInWine \/ m_isActive)
      /\ Configure => /\ depositListeners' \in {0, 1}
                      /\ depositListeners' > 0 => g_isRunningInWine
  <2>1. CASE Configure
    <3>1. phase = "configure" /\ SetActive(instance' /\ g_isRunningInWine)
      BY <2>1 DEF Configure
    <3>2. ~m_isActive /\ depositListeners = 0
      BY <1>1, <3>1 DEF UntouchedInv, Untouched
    <3>3. depositListeners' = IF instance' /\ g_isRunningInWine THEN 0 + 1 ELSE 0
      BY <3>1, <3>2, Zenon DEF SetActive
    <3>4. m_isActive' => instance' /\ g_isRunningInWine
      BY <3>1, Zenon DEF SetActive
    <3>5. depositListeners' \in {0, 1} /\ (depositListeners' > 0 => g_isRunningInWine)
      BY <3>3
    <3>6. depositListeners' \in 0..ListenerMax
      BY <3>5, InjectionAssumption
    <3> QED BY <3>4, <3>5, <3>6
  <2>2. CASE StartThreads
    <3>1. UNCHANGED <<depositListeners, m_isActive, instance>> /\ ~Configure
      BY <2>2 DEF StartThreads, Configure, lootVars
    <3>2. depositListeners \in 0..ListenerMax /\ (m_isActive => instance)
      BY <1>1, Zenon DEF TypeOK, ListenerInv
    <3> QED BY <3>1, <3>2, Zenon
  <2> QED BY <2>1, <2>2
<1>4. TypeOK'
  <2>1. /\ instance' \in BOOLEAN /\ listener' \in BOOLEAN /\ g_tcpClient' \in BOOLEAN
        /\ g_hEvent' \in BOOLEAN /\ m_isActive' \in BOOLEAN
        /\ worker' \in BOOLEAN /\ seedThread' \in BOOLEAN
    <3>1. CASE Configure
      <4>1. instance' \in BOOLEAN /\ listener' \in BOOLEAN
        BY <3>1, Zenon DEF Configure
      <4>2. m_isActive' \in BOOLEAN /\ g_hEvent' \in BOOLEAN
        BY <3>1 DEF Configure, SetActive
      <4> QED BY <1>1, <3>1, <4>1, <4>2, Zenon DEF TypeOK, Configure, threadVars
    <3>2. CASE StartThreads
      BY <1>1, <3>2 DEF TypeOK, StartThreads, lootVars
    <3> QED BY <3>1, <3>2
  <2>2. phase' \in {"enable", "done"}
    BY <1>3
  <2> QED BY <1>0, <1>1, <1>2, <2>1, <2>2 DEF TypeOK
<1>5. ApiInv' /\ ReportInv'
  BY <1>1, <1>2, <1>3 DEF ApiInv, ReportInv
<1>6. UntouchedInv'
  BY <1>3 DEF UntouchedInv, Untouched
<1>7. OrderInv'
  BY <1>1, <1>2, <1>3 DEF OrderInv
<1>8. WantedInv'
  <2>1. CASE Configure
    BY <1>1, <1>2, <1>3, <2>1 DEF Configure, WantedInv, UntouchedInv, Untouched
  <2>2. CASE StartThreads
    <3>1. instance' = instance /\ listener' = listener /\ config' = config /\ hook' = hook
      BY <1>2, <2>2 DEF StartThreads
    <3> QED BY <1>1, <3>1 DEF WantedInv, Wanted
  <2> QED BY <2>1, <2>2
<1>9. InstalootInv'
  BY <1>0, <1>1, <1>2, <1>3 DEF InstalootInv, UntouchedInv, Untouched
<1>10. ListenerInv'
  <2>1. CASE Configure
    <3>1. next = 1 /\ ~worker /\ ~seedThread
      BY <1>1, <1>3, <2>1 DEF Configure, UntouchedInv, Untouched, ListenerInv
    <3>2. UNCHANGED <<next, worker, seedThread, g_isRunningInWine, wineSetActiveDone>>
      BY <1>2, <2>1 DEF Configure, threadVars
    <3> QED BY <1>0, <2>1, <3>1, <3>2 DEF ListenerInv
  <2>2. CASE StartThreads
    <3>1. /\ worker'
          /\ UNCHANGED <<next, g_isRunningInWine, wineSetActiveDone, depositListeners,
                         m_isActive, instance, g_hEvent>>
      BY <1>2, <2>2 DEF StartThreads, lootVars
    <3> QED BY <1>1, <3>1 DEF ListenerInv
  <2> QED BY <2>1, <2>2
<1> QED BY <1>4, <1>5, <1>6, <1>7, <1>8, <1>9, <1>10 DEF InjectionInv

(* A hook that is not wanted is passed over.                               *)
LEMMA SkipStep ==
  ASSUME InjectionInv, SkipHook
  PROVE  InjectionInv'
<1> USE DEF envVars, objectVars, lootVars, threadVars
<1>1. /\ TypeOK /\ ApiInv /\ UntouchedInv /\ OrderInv
      /\ WantedInv /\ InstalootInv /\ ListenerInv /\ ReportInv
  BY DEF InjectionInv
<1>2. /\ next' = next + 1 /\ next \in 1..9
      /\ phase = "enable" /\ ~Wanted(Order[next])
      /\ UNCHANGED <<envVars, phase, waited, g_gameApiResolved, objectVars, hook, findNext,
                     lootVars, bypassed, threadVars, reported>>
  BY <1>1 DEF SkipHook, TypeOK
<1>3. TypeOK'
  BY <1>1, <1>2 DEF TypeOK
<1>4. ApiInv' /\ UntouchedInv' /\ ReportInv'
  BY <1>1, <1>2 DEF ApiInv, UntouchedInv, ReportInv, Untouched
<1>5. hook[Order[next]] = "off"
  BY <1>1, <1>2, OrderIsOneToOne DEF WantedInv
<1>6. OrderInv'
  BY <1>1, <1>2, <1>5 DEF OrderInv
<1>7. WantedInv'
  BY <1>1, <1>2 DEF WantedInv, Wanted
<1>8. InstalootInv'
  <2>1. next = 6 => ~instance
    BY <1>2, OrderIsOneToOne, WantedByInstaloot
  <2> QED BY <1>1, <1>2, <2>1 DEF InstalootInv
<1>9. ListenerInv'
  <2>1. next = 6 => ~instance
    BY <1>2, OrderIsOneToOne, WantedByInstaloot
  <2> QED BY <1>1, <1>2, <2>1 DEF ListenerInv
<1> QED BY <1>3, <1>4, <1>6, <1>7, <1>8, <1>9 DEF InjectionInv

(* The hook whose turn it is is patched or has its pointer stored.         *)
LEMMA HookStep ==
  ASSUME InjectionInv, NEW h \in Hook, PatchHook(h) \/ StoreHook(h)
  PROVE  InjectionInv'
<1> USE DEF envVars, objectVars, threadVars
<1>1. /\ TypeOK /\ ApiInv /\ UntouchedInv /\ OrderInv
      /\ WantedInv /\ InstalootInv /\ ListenerInv /\ ReportInv
  BY DEF InjectionInv
<1>2. /\ next \in 1..9 /\ h = Order[next] /\ phase = "enable"
      /\ UNCHANGED <<envVars, phase, waited, g_gameApiResolved, objectVars,
                     depositListeners, bypassed, threadVars, reported>>
  <2>1. CASE PatchHook(h)
    BY <1>1, <2>1 DEF PatchHook, Enabling, TypeOK
  <2>2. CASE StoreHook(h)
    BY <1>1, <2>2 DEF StoreHook, Enabling, TypeOK, lootVars
  <2> QED BY <2>1, <2>2, Zenon
<1>3. /\ m_isActive' \in BOOLEAN
      /\ m_isActive' => m_isActive
      /\ findNext' \in BOOLEAN
      /\ findNext => findNext'
      /\ \/ /\ next' = next /\ h # "GetPrivateStash"
            /\ hook' = [hook EXCEPT ![h] = "patched"]
         \/ /\ next' = next + 1 /\ hook' = [hook EXCEPT ![h] = "stored"]
            /\ h = "GetPrivateStash" => findNext' \/ hook[h] = "patched"
         \/ /\ next' = next + 1 /\ hook' = hook /\ hook[h] = "off"
            /\ h = "GetPrivateStash" => findNext'
  <2>1. CASE PatchHook(h)
    <3>1. m_isActive' \in BOOLEAN /\ (m_isActive' => m_isActive)
      BY <1>1, <2>1 DEF PatchHook, TypeOK
    <3>2. findNext' \in BOOLEAN /\ (findNext => findNext')
      <4>1. \/ findNext' = findNext \/ findNext' = TRUE
            \/ findNext' = (findNext \/ h = "GetPrivateStash")
        BY <2>1, Zenon DEF PatchHook
      <4> QED BY <1>1, <4>1 DEF TypeOK
    <3> QED BY <2>1, <3>1, <3>2, Zenon DEF PatchHook
  <2>2. CASE StoreHook(h)
    BY <1>1, <2>2, Zenon DEF StoreHook, TypeOK, lootVars
  <2> QED BY <2>1, <2>2, Zenon
<1>4. TypeOK'
  <2>1. hook' \in [Hook -> {"off", "patched", "stored"}]
    BY <1>1, <1>3 DEF TypeOK
  <2>2. next' \in 1..10
    BY <1>2, <1>3
  <2>3. findNext' \in BOOLEAN /\ m_isActive' \in BOOLEAN
    BY <1>1, <1>3, Zenon DEF TypeOK
  <2> QED BY <1>1, <1>2, <2>1, <2>2, <2>3 DEF TypeOK
<1>5. ApiInv' /\ UntouchedInv' /\ ReportInv'
  BY <1>1, <1>2 DEF ApiInv, UntouchedInv, ReportInv, Untouched
<1>6. Wanted(h)
  BY <1>1, Zenon DEF PatchHook, StoreHook, WantedInv
<1>7. \A g \in Hook : g # h => hook'[g] = hook[g]
  BY <1>1, <1>3 DEF TypeOK
<1>8. next' = next + 1 => hook'[h] # "patched"
  BY <1>1, <1>2, <1>3 DEF TypeOK
<1>9. OrderInv'
  <2>1. \A k \in 1..9 : k > next' => hook'[Order[k]] = "off"
    BY <1>1, <1>2, <1>3, <1>7, OrderIsOneToOne DEF OrderInv
  <2>2. \A k \in 1..9 : k < next' => hook'[Order[k]] # "patched"
    BY <1>1, <1>2, <1>3, <1>7, <1>8, OrderIsOneToOne DEF OrderInv
  <2> QED BY <1>1, <1>2, <2>1, <2>2 DEF OrderInv
<1>10. WantedInv'
  BY <1>1, <1>2, <1>6, <1>7 DEF WantedInv, Wanted
<1>11. InstalootInv'
  <2>1. next = 6 /\ next' = next + 1 => findNext'
    BY <1>1, <1>2, <1>3, OrderIsOneToOne DEF InstalootInv
  <2>2. hook'["GetPrivateStash"] # "patched"
    BY <1>1, <1>3, OrderIsOneToOne DEF InstalootInv, TypeOK
  <2> QED BY <1>1, <1>2, <1>3, <2>1, <2>2 DEF InstalootInv
<1>12. ListenerInv'
  <2>1. next = 6 /\ next' = 7 => ~m_isActive'
    <3>1. CASE PatchHook(h)
      BY <1>2, <3>1, OrderIsOneToOne DEF PatchHook
    <3>2. CASE StoreHook(h)
      BY <1>1, <1>2, <3>2, OrderIsOneToOne DEF StoreHook, InstalootInv
    <3> QED BY <3>1, <3>2
  <2>2. next \in Nat /\ (next' = next \/ next' = next + 1)
    BY <1>2, <1>3
  <2> QED BY <1>1, <1>2, <1>3, <2>1, <2>2 DEF ListenerInv
<1> QED BY <1>4, <1>5, <1>9, <1>10, <1>11, <1>12 DEF InjectionInv

(* A step of the worker thread, of the game or of Item Assistant.          *)
LEMMA OtherStep ==
  ASSUME InjectionInv,
         \/ WorkerSetsActive \/ ListenerLeaves
         \/ GameLoads \/ GameOnline \/ IaWindowChanges
         \/ \E h \in Hook : GameEntersHook(h)
         \/ UNCHANGED vars
  PROVE  InjectionInv'
<1> USE DEF objectVars, hookVars
<1>1. /\ TypeOK /\ ApiInv /\ UntouchedInv /\ OrderInv
      /\ WantedInv /\ InstalootInv /\ ListenerInv /\ ReportInv
  BY DEF InjectionInv
<1>2. /\ UNCHANGED <<config, g_isRunningInWine, complete, phase, waited, g_gameApiResolved,
                     objectVars, hookVars, seedThread, worker, reported>>
      /\ gameLoaded => gameLoaded'
      /\ m_isActive' => m_isActive \/ (worker /\ g_hEvent /\ instance)
      /\ wineSetActiveDone => wineSetActiveDone'
  <2>1. CASE WorkerSetsActive
    BY <2>1, Zenon DEF WorkerSetsActive, SetActive, envVars, threadVars
  <2>2. CASE \/ ListenerLeaves \/ GameLoads \/ GameOnline \/ IaWindowChanges
             \/ \E h \in Hook : GameEntersHook(h)
    BY <2>2 DEF ListenerLeaves, GameLoads, GameOnline, IaWindowChanges, GameEntersHook,
                envVars, lootVars, threadVars
  <2>3. CASE UNCHANGED vars
    BY <2>3, Zenon DEF vars, envVars, lootVars, threadVars
  <2> QED BY <2>1, <2>2, <2>3, Zenon
<1>7. /\ depositListeners' <= depositListeners \/ worker
      /\ depositListeners' \in 0..ListenerMax
      /\ g_isRunningInWine => depositListeners' <= IF wineSetActiveDone' THEN 2 ELSE 1
  <2>0. depositListeners \in 0..ListenerMax /\ ListenerMax \in Nat /\ ListenerMax >= 2
    BY <1>1, InjectionAssumption DEF TypeOK
  <2>1. CASE WorkerSetsActive
    <3>1. CASE g_isRunningInWine
      <4>1. worker /\ ~wineSetActiveDone /\ wineSetActiveDone' = TRUE /\ SetActive(TRUE)
        BY <2>1, <3>1, Zenon DEF WorkerSetsActive
      <4>2. depositListeners <= 1
        BY <1>1, <3>1, <4>1 DEF ListenerInv
      <4> QED BY <2>0, <4>1, <4>2 DEF SetActive
    <3>2. CASE ~g_isRunningInWine
      <4>1. worker /\ depositListeners < ListenerMax /\ SetActive(iaWindow)
        BY <2>1, <3>2, Zenon DEF WorkerSetsActive
      <4> QED BY <2>0, <3>2, <4>1 DEF SetActive
    <3> QED BY <3>1, <3>2
  <2>2. CASE ListenerLeaves
    BY <1>1, <2>0, <2>2 DEF ListenerLeaves, ListenerInv, threadVars
  <2>3. CASE \/ GameLoads \/ GameOnline \/ IaWindowChanges
             \/ \E h \in Hook : GameEntersHook(h)
             \/ UNCHANGED vars
    <3>1. UNCHANGED <<depositListeners, wineSetActiveDone>>
      BY <2>3 DEF GameLoads, GameOnline, IaWindowChanges, GameEntersHook, vars,
                  lootVars, threadVars
    <3> QED BY <1>1, <2>0, <3>1 DEF ListenerInv
  <2> QED BY <2>1, <2>2, <2>3
<1>3. TypeOK'
  <2>1. /\ gameLoaded' \in BOOLEAN /\ online' \in BOOLEAN /\ iaWindow' \in BOOLEAN
        /\ m_isActive' \in BOOLEAN /\ bypassed' \in BOOLEAN
        /\ wineSetActiveDone' \in BOOLEAN
    <3>1. CASE WorkerSetsActive
      BY <1>1, <3>1, Zenon DEF TypeOK, WorkerSetsActive, SetActive, envVars
    <3>2. CASE \/ ListenerLeaves \/ GameLoads \/ GameOnline \/ IaWindowChanges
               \/ \E h \in Hook : GameEntersHook(h)
      BY <1>1, <3>2, Zenon
      DEF TypeOK, ListenerLeaves, GameLoads, GameOnline, IaWindowChanges, GameEntersHook,
          envVars, lootVars, threadVars
    <3>3. CASE UNCHANGED vars
      BY <1>1, <3>3, Zenon DEF TypeOK, vars, envVars, lootVars, threadVars
    <3> QED BY <3>1, <3>2, <3>3, Zenon
  <2>2. depositListeners' \in 0..ListenerMax
    BY <1>1, <1>7 DEF TypeOK
  <2> QED BY <1>1, <1>2, <2>1, <2>2 DEF TypeOK
<1>4. ApiInv' /\ UntouchedInv' /\ ReportInv'
  <2>1. Untouched => depositListeners' = 0
    BY <1>1, <1>7 DEF UntouchedInv
  <2> QED BY <1>1, <1>2, <2>1 DEF ApiInv, UntouchedInv, ReportInv, Untouched
<1>5. OrderInv' /\ InstalootInv' /\ ListenerInv'
  <2>1. depositListeners' > 0 => g_isRunningInWine \/ worker
    BY <1>1, <1>7 DEF ListenerInv, TypeOK
  <2> QED BY <1>1, <1>2, <1>7, <2>1 DEF OrderInv, InstalootInv, ListenerInv
<1>6. WantedInv'
  BY <1>1, <1>2 DEF WantedInv, Wanted
<1> QED BY <1>3, <1>4, <1>5, <1>6 DEF InjectionInv

(* The inductive invariant holds in every reachable state: the theorems    *)
(* below are its parts.                                                    *)
THEOREM InjectionInvariant == Spec => []InjectionInv
<1>1. InjectionInv /\ [Next]_vars => InjectionInv'
  BY WaitStep, ConfigureStep, SkipStep, HookStep, OtherStep DEF Next, InitStep
<1> QED BY <1>1, InitInjectionInv, PTL DEF Spec

(* Every variable keeps its type.                                          *)
THEOREM TypeCorrect == Spec => []TypeOK
<1>1. InjectionInv => TypeOK
  BY DEF InjectionInv
<1> QED BY <1>1, InjectionInvariant, PTL

(* No hook is installed before the functions that it calls are there,      *)
(* however long the game takes to load.                                    *)
THEOREM HooksHaveTheGame == Spec => []HooksNeedTheGame
<1>1. InjectionInv => HooksNeedTheGame
  BY DEF InjectionInv, HooksNeedTheGame, ApiInv, UntouchedInv, Untouched
<1> QED BY <1>1, InjectionInvariant, PTL

(* An injection that gives up has left the game alone.                     *)
THEOREM CancelLeavesNoTrace == Spec => []CancelledIsClean
<1>1. InjectionInv => CancelledIsClean
  BY DEF InjectionInv, CancelledIsClean, ReportInv, UntouchedInv, Untouched
<1> QED BY <1>1, InjectionInvariant, PTL

(* No thread that needs the hooks runs before they are finished, and under *)
(* Wine the one that does stays alone until the worker starts a second.    *)
THEOREM ThreadsInOrder == Spec => []NothingRunsEarly
<1>1. InjectionInv => NothingRunsEarly
  <2> SUFFICES ASSUME InjectionInv PROVE NothingRunsEarly
    OBVIOUS
  <2>1. ASSUME NEW h \in Hook, hook[h] = "patched"
        PROVE  ~worker /\ ~seedThread /\ (depositListeners > 0 => g_isRunningInWine)
    <3>1. PICK k \in 1..9 : h = Order[k]
      BY DEF Hook
    <3>2. ~worker
      BY <2>1, <3>1 DEF InjectionInv, OrderInv
    <3> QED BY <3>2 DEF InjectionInv, ListenerInv
  <2>2. g_isRunningInWine => depositListeners <= IF wineSetActiveDone THEN 2 ELSE 1
    BY DEF InjectionInv, ListenerInv
  <2>3. worker /\ ~g_hEvent => ~m_isActive
    BY DEF InjectionInv, ListenerInv, OrderInv
  <2> QED BY <2>1, <2>2, <2>3 DEF NothingRunsEarly
<1> QED BY <1>1, InjectionInvariant, PTL

(* Outside Wine the hook on Update deposits nothing before the function    *)
(* that finds a place for it has been looked up.                           *)
THEOREM DepositsHavePlaces == Spec => []DepositsCanBePlaced
<1>1. InjectionInv => DepositsCanBePlaced
  <2> SUFFICES ASSUME InjectionInv, hook["Update"] # "off", m_isActive, ~g_isRunningInWine
               PROVE  findNext
    BY DEF DepositsCanBePlaced
  <2>1. instance
    BY OrderIsOneToOne, WantedByInstaloot DEF InjectionInv, WantedInv
  <2>2. next = 10
    BY DEF InjectionInv, InstalootInv, OrderInv
  <2> QED BY <2>1, <2>2 DEF InjectionInv, InstalootInv
<1> QED BY <1>1, InjectionInvariant, PTL

-----------------------------------------------------------------------------
(* The part of InjectionEnds that is no matter of fairness.  DeferredInit  *)
(* has never more than so many steps before it: three waits of WaitMax     *)
(* rounds, two steps for each hook, and the steps between.                 *)
RoundsLeft == WaitMax - waited

HookStepsLeft == IF next <= 9 /\ hook[Order[next]] = "patched" THEN 2 * (10 - next) - 1
                                                              ELSE 2 * (10 - next)

StepsLeft ==
  CASE phase = "attach"    -> 3 * WaitMax + 24
    [] phase = "modules"   -> 2 * WaitMax + 23 + RoundsLeft
    [] phase = "resolve"   -> WaitMax + 22 + RoundsLeft
    [] phase = "online"    -> 21 + RoundsLeft
    [] phase = "configure" -> 20
    [] phase = "enable"    -> 1 + HookStepsLeft
    [] phase \in {"passthrough", "cancelled", "done"} -> 0

(* Each step of DeferredInit leaves fewer to do, and none of the game, of  *)
(* Item Assistant or of the worker adds any.                               *)
GetsOn == /\ StepsLeft \in Nat
          /\ InitStep => StepsLeft' < StepsLeft
          /\ ~InitStep => StepsLeft' = StepsLeft

(* What is left of the hooks is a number, and 18 when none is enabled.     *)
LEMMA HookStepsLeftBounds ==
  ASSUME TypeOK
  PROVE  /\ HookStepsLeft \in Nat /\ HookStepsLeft <= 18
         /\ next <= 9 => HookStepsLeft > 0
  BY DEF TypeOK, HookStepsLeft

(* The waits: a round less, or on to the next phase, or the end.           *)
LEMMA WaitGetsOn ==
  ASSUME TypeOK, ProcessAttach \/ WaitForModules \/ ResolveApi \/ WaitUntilOnline
  PROVE  StepsLeft' < StepsLeft
<1> USE InjectionAssumption DEF TypeOK, StepsLeft, RoundsLeft, Cancel, Sleep, Proceed
<1>1. CASE ProcessAttach
  BY <1>1 DEF ProcessAttach
<1>2. CASE WaitForModules
  BY <1>2 DEF WaitForModules
<1>3. CASE ResolveApi
  BY <1>3 DEF ResolveApi
<1>4. CASE WaitUntilOnline
  BY <1>4 DEF WaitUntilOnline
<1> QED BY <1>1, <1>2, <1>3, <1>4

(* The hooks: one less, or the first of the two steps of one.              *)
LEMMA EnablingGetsOn ==
  ASSUME TypeOK, SkipHook \/ \E h \in Hook : PatchHook(h) \/ StoreHook(h)
  PROVE  StepsLeft' < StepsLeft
<1>1. phase = "enable" /\ phase' = "enable" /\ next \in 1..9
  <2>1. CASE SkipHook
    BY <2>1 DEF SkipHook, TypeOK
  <2>2. ASSUME NEW h \in Hook, PatchHook(h)
        PROVE  phase = "enable" /\ phase' = "enable" /\ next \in 1..9
    BY <2>2 DEF PatchHook, Enabling, TypeOK
  <2>3. ASSUME NEW h \in Hook, StoreHook(h)
        PROVE  phase = "enable" /\ phase' = "enable" /\ next \in 1..9
    BY <2>3 DEF StoreHook, Enabling, TypeOK
  <2> QED BY <2>1, <2>2, <2>3
<1>2. \/ next' = next + 1
      \/ /\ next' = next /\ hook[Order[next]] = "off" /\ Order[next] \in Hook
         /\ hook' = [hook EXCEPT ![Order[next]] = "patched"]
  BY DEF SkipHook, PatchHook, StoreHook, Enabling
<1>3. CASE next' = next + 1
  <2>1. HookStepsLeft' <= 2 * (10 - next')
    BY <1>1, <1>3 DEF HookStepsLeft
  <2>2. HookStepsLeft >= 2 * (10 - next) - 1
    BY <1>1 DEF HookStepsLeft
  <2>3. HookStepsLeft' \in Nat /\ HookStepsLeft \in Nat
    BY <1>1, <1>3 DEF HookStepsLeft
  <2>4. HookStepsLeft' < HookStepsLeft
    BY <1>1, <1>3, <2>1, <2>2, <2>3
  <2> QED BY <1>1, <2>3, <2>4 DEF StepsLeft
<1>4. CASE /\ next' = next /\ hook[Order[next]] = "off" /\ Order[next] \in Hook
           /\ hook' = [hook EXCEPT ![Order[next]] = "patched"]
  <2>1. hook'[Order[next']] = "patched"
    BY <1>4 DEF TypeOK
  <2>2. HookStepsLeft = 2 * (10 - next) /\ HookStepsLeft' = 2 * (10 - next) - 1
    BY <1>1, <1>4, <2>1 DEF HookStepsLeft
  <2> QED BY <1>1, <2>2 DEF StepsLeft
<1> QED BY <1>2, <1>3, <1>4

(* Nothing but the number of steps that DeferredInit takes bounds the      *)
(* injection from within: it cannot go round in circles, however the game  *)
(* loads, goes online and offline or enters hooks.                         *)
THEOREM InjectionGetsOn == Spec => [][GetsOn]_vars
<1>1. InjectionInv /\ [Next]_vars => [GetsOn]_vars
  <2> SUFFICES ASSUME InjectionInv, Next PROVE GetsOn
    OBVIOUS
  <2>1. TypeOK /\ UntouchedInv
    BY DEF InjectionInv
  <2>2. StepsLeft \in Nat
    BY <2>1, HookStepsLeftBounds, InjectionAssumption DEF TypeOK, StepsLeft, RoundsLeft
  <2>3. ASSUME InitStep PROVE StepsLeft' < StepsLeft
    <3>1. CASE Configure
      <4>1. HookStepsLeft' = 18
        BY <2>1, <3>1, OrderIsOneToOne
        DEF Configure, hookVars, UntouchedInv, Untouched, HookStepsLeft
      <4> QED BY <3>1, <4>1 DEF Configure, StepsLeft
    <3>2. CASE StartThreads
      <4>1. HookStepsLeft \in Nat
        BY <2>1, HookStepsLeftBounds
      <4> QED BY <3>2, <4>1 DEF StartThreads, StepsLeft
    <3> QED BY <2>1, <2>3, <3>1, <3>2, WaitGetsOn, EnablingGetsOn DEF InitStep
  <2>4. ASSUME ~InitStep PROVE StepsLeft' = StepsLeft
    <3>1. UNCHANGED <<phase, waited, next, hook>>
      BY <2>4 DEF Next, WorkerSetsActive, ListenerLeaves, GameLoads, GameOnline, IaWindowChanges,
                  GameEntersHook, hookVars
    <3> QED BY <3>1 DEF StepsLeft, RoundsLeft, HookStepsLeft
  <2> QED BY <2>2, <2>3, <2>4 DEF GetsOn
<1> QED BY <1>1, InjectionInvariant, PTL DEF Spec

(* The hook whose turn it is is not finished: it is skipped, patched or    *)
(* stored next, and no wait goes beyond the round that ends it.            *)
TurnIsOpen == /\ next <= 9 => hook[Order[next]] # "stored"
              /\ phase \in {"modules", "resolve", "online"} => waited <= WaitMax

(* DeferredInit is never without a next step before its end: with          *)
(* InjectionGetsOn, it ends as soon as its thread gets to run so often.    *)
THEOREM InjectionNeverStuck == Spec => []TurnIsOpen
<1> DEFINE Open == next <= 9 => hook[Order[next]] # "stored"
<1>1. Init => Open
  BY OrderIsOneToOne DEF Init
<1>2. InjectionInv /\ Open /\ [Next]_vars => Open'
  <2> SUFFICES ASSUME InjectionInv, Open, [Next]_vars PROVE Open'
    OBVIOUS
  <2>1. TypeOK /\ OrderInv
    BY DEF InjectionInv
  <2>2. CASE UNCHANGED <<next, hook>>
    BY <2>2
  <2>3. CASE SkipHook
    BY <2>1, <2>3 DEF SkipHook, TypeOK, OrderInv
  <2>4. ASSUME NEW h \in Hook, PatchHook(h) \/ StoreHook(h) PROVE Open'
    <3>1. next \in 1..9 /\ h = Order[next]
      <4>1. CASE PatchHook(h)
        BY <2>1, <4>1 DEF PatchHook, Enabling, TypeOK
      <4>2. CASE StoreHook(h)
        BY <2>1, <4>2 DEF StoreHook, Enabling, TypeOK
      <4> QED BY <2>4, <4>1, <4>2
    <3>2. \A g \in Hook \ {h} : hook'[g] = hook[g]
      BY <2>1, <2>4 DEF PatchHook, StoreHook, TypeOK
    <3>3. next' = next + 1 \/ (next' = next /\ hook' = [hook EXCEPT ![h] = "patched"])
      BY <2>4 DEF PatchHook, StoreHook
    <3>4. CASE next' = next + 1 /\ next' <= 9
      <4>1. Order[next'] \in Hook /\ Order[next'] # h /\ hook[Order[next']] = "off"
        BY <2>1, <3>1, <3>4, OrderIsOneToOne DEF OrderInv
      <4> QED BY <3>2, <4>1
    <3>5. CASE next' = next /\ hook' = [hook EXCEPT ![h] = "patched"]
      BY <2>1, <3>1, <3>5 DEF TypeOK
    <3> QED BY <3>3, <3>4, <3>5
  <2>5. CASE \/ ProcessAttach \/ WaitForModules \/ ResolveApi \/ WaitUntilOnline
             \/ Configure \/ StartThreads \/ WorkerSetsActive \/ ListenerLeaves
             \/ GameLoads \/ GameOnline
             \/ IaWindowChanges \/ (\E h \in Hook : GameEntersHook(h)) \/ UNCHANGED vars
    <3>1. UNCHANGED <<next, hook>>
      BY <2>5 DEF ProcessAttach, WaitForModules, ResolveApi, WaitUntilOnline, Cancel, Sleep,
                  Proceed, Configure, StartThreads, WorkerSetsActive, ListenerLeaves,
                  GameLoads, GameOnline, IaWindowChanges, GameEntersHook, vars, hookVars
    <3> QED BY <2>2, <3>1
  <2> QED BY <2>3, <2>4, <2>5 DEF Next, InitStep
<1>3. InjectionInv /\ Open => TurnIsOpen
  BY InjectionAssumption DEF InjectionInv, TypeOK, TurnIsOpen
<1> QED BY <1>1, <1>2, <1>3, InjectionInvariant, PTL DEF Spec
=============================================================================
