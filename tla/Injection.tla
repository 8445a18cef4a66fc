----------------------------- MODULE Injection -----------------------------
(***************************************************************************)
(* The injection of the DLL into the game (HookDll/Hook: dllmain.cpp,      *)
(* HookConfig.cpp, BaseMethodHook.cpp, GrimTypes.cpp, and EnableHook of    *)
(* each hook).                                                             *)
(*                                                                         *)
(* ProcessAttach reads the configuration and leaves the rest to a thread,  *)
(* DeferredInit: wait for the modules of the game, resolve the functions   *)
(* the hooks call, wait until the game is online, create the objects,      *)
(* enable one hook after the other, start the worker thread.  Each wait    *)
(* gives up after a while, and the injection is then reported as           *)
(* cancelled.  The game runs meanwhile, and enters a hook as soon as       *)
(* Detours has patched its function, which is before HookDll has returned  *)
(* the pointer to the function replaced.                                   *)
(*                                                                         *)
(* The file formats of the configuration and the settings are left out.    *)
(***************************************************************************)
EXTENDS Naturals, Sequences

CONSTANTS
  WaitMax,      \* rounds of each wait (480, 60 and 360 in the code)
  ListenerMax,  \* bound on the deposit listeners that run at once
  Config        \* the configurations that may be found, each a set of flags

Flag == {"passthroughOnly", "hookInstaloot", "hookGameEngineUpdate",
         "hookEngineRender", "startSeedInfoThread", "startTcpClient"}

ASSUME InjectionAssumption ==
  /\ WaitMax \in Nat \ {0} /\ Config \subseteq SUBSET Flag
  /\ ListenerMax \in Nat /\ ListenerMax >= 2

(* The functions of the game that are hooked, in the order of enabling.    *)
Order == <<"GameInfo", "AddItem_Drop", "AddItem_Vec2", "SetTransferOpen", "Update",
           "GetPrivateStash", "SetHardcore", "SetDifficultyRamp", "Render">>

Hook == {Order[k] : k \in 1..9}

InstalootHook == {Order[k] : k \in 1..6}

VARIABLES
  config,             \* the flags of g_hookConfig that are set
  g_isRunningInWine,
  phase,              \* where ProcessAttach and DeferredInit are
  waited,             \* rounds waited in this phase
  gameLoaded,         \* game.dll and engine.dll are mapped
  complete,           \* the modules export all functions needed
  online,             \* the game is online and not loading
  iaWindow,           \* Item Assistant's window exists
  g_gameApiResolved,
  g_hEvent,           \* the event has been created (no one checks the result)
  instance,           \* g_InventorySack_AddItemInstance is not NULL
  listener,           \* listener is not NULL
  g_tcpClient,        \* g_tcpClient is not NULL
  next,               \* position in Order of the hook to enable next
  hook,               \* per hook: "off", "patched" or "stored"
  findNext,           \* FindNextPosition has been looked up (no one checks the result)
  m_isActive,         \* instaloot is active
  depositListeners,   \* how many threads are in InventorySack_AddItem::ThreadMain
  bypassed,           \* history: a hook has been entered without the pointer
  seedThread,         \* the seed thread has been started
  worker,             \* the worker thread has been started
  wineSetActiveDone,  \* a local variable of the worker thread
  reported            \* ReportCancelledInjection has been called

envVars    == <<config, g_isRunningInWine, gameLoaded, complete, online, iaWindow>>
objectVars == <<g_hEvent, instance, listener, g_tcpClient>>
hookVars   == <<next, hook, findNext>>
lootVars   == <<m_isActive, depositListeners>>
threadVars == <<seedThread, worker, wineSetActiveDone>>
vars == <<envVars, phase, waited, g_gameApiResolved, objectVars, hookVars, lootVars,
          bypassed, threadVars, reported>>

Init ==
  /\ config \in Config
  /\ g_isRunningInWine \in BOOLEAN
  /\ phase = "attach" /\ waited = 0
  /\ gameLoaded \in BOOLEAN /\ complete \in BOOLEAN
  /\ online = FALSE /\ iaWindow \in BOOLEAN
  /\ g_gameApiResolved = FALSE
  /\ g_hEvent = FALSE /\ instance = FALSE /\ listener = FALSE /\ g_tcpClient = FALSE
  /\ next = 1 /\ hook = [h \in Hook |-> "off"] /\ findNext = FALSE
  /\ m_isActive = FALSE /\ depositListeners = 0
  /\ bypassed = FALSE
  /\ seedThread = FALSE /\ worker = FALSE /\ wineSetActiveDone = FALSE
  /\ reported = FALSE

-----------------------------------------------------------------------------
(* ProcessAttach: pin the DLL; then nothing more, or DeferredInit.         *)
ProcessAttach ==
  /\ phase = "attach"
  /\ phase' = IF "passthroughOnly" \in config THEN "passthrough" ELSE "modules"
  /\ UNCHANGED <<envVars, waited, g_gameApiResolved, objectVars, hookVars, lootVars,
                 bypassed, threadVars, reported>>

(* Mutant: the report is not followed by a return.                         *)
CancelGoesOn ==
  /\ phase' = "configure"
  /\ reported' = TRUE
  /\ UNCHANGED <<envVars, waited, g_gameApiResolved, objectVars, hookVars, lootVars,
                 bypassed, threadVars>>

(* A wait that gives up, one that goes on, and one that is over.           *)
Cancel ==
  /\ phase' = "cancelled"
  /\ reported' = TRUE
  /\ UNCHANGED <<envVars, waited, g_gameApiResolved, objectVars, hookVars, lootVars,
                 bypassed, threadVars>>

Sleep ==
  /\ waited' = waited + 1
  /\ UNCHANGED <<envVars, phase, g_gameApiResolved, objectVars, hookVars, lootVars,
                 bypassed, threadVars, reported>>

Proceed(to) ==
  /\ phase' = to /\ waited' = 0
  /\ UNCHANGED <<envVars, objectVars, hookVars, lootVars, bypassed, threadVars, reported>>

(* Mutant: one round too many.                                             *)
WaitForModulesOneMore ==
  /\ phase = "modules"
  /\ \/ gameLoaded /\ Proceed("resolve") /\ UNCHANGED g_gameApiResolved
     \/ waited <= WaitMax /\ ~gameLoaded /\ Sleep
     \/ waited > WaitMax /\ Cancel

(* Phase 1.  Modules that turn up during the last sleep are too late.      *)
WaitForModules ==
  /\ phase = "modules"
  /\ \/ waited < WaitMax /\ gameLoaded /\ Proceed("resolve") /\ UNCHANGED g_gameApiResolved
     \/ waited < WaitMax /\ ~gameLoaded /\ Sleep
     \/ waited = WaitMax /\ Cancel

(* Mutant: after the last attempt it goes on with what has been resolved.  *)
ResolveApiInPart ==
  /\ phase = "resolve"
  /\ \/ complete /\ g_gameApiResolved' = TRUE /\ Proceed("online")
     \/ ~complete /\ waited < WaitMax /\ Sleep
     \/ ~complete /\ waited = WaitMax /\ Proceed("online") /\ UNCHANGED g_gameApiResolved

(* Phase 2: ResolveGameApi is tried once more than it is slept.            *)
ResolveApi ==
  /\ phase = "resolve"
  /\ \/ complete /\ g_gameApiResolved' = TRUE /\ Proceed("online")
     \/ ~complete /\ waited < WaitMax /\ Sleep
     \/ ~complete /\ waited = WaitMax /\ Cancel

(* Mutant: the wait for the game to be online never gives up.              *)
WaitUntilOnlineForEver ==
  /\ phase = "online"
  /\ \/ online /\ Proceed("configure") /\ UNCHANGED g_gameApiResolved
     \/ ~online /\ waited < WaitMax /\ Sleep

(* Phase 3.                                                                *)
WaitUntilOnline ==
  /\ phase = "online"
  /\ \/ waited < WaitMax /\ online /\ Proceed("configure") /\ UNCHANGED g_gameApiResolved
     \/ waited < WaitMax /\ ~online /\ Sleep
     \/ waited = WaitMax /\ Cancel

-----------------------------------------------------------------------------
(* SetActive: a thread is started for the deposits when it turns active.   *)
SetActive(isActive) ==
  /\ m_isActive' = isActive
  /\ depositListeners' = IF isActive /\ ~m_isActive THEN depositListeners + 1
                                                   ELSE depositListeners

(* Mutant: instaloot is set active as soon as it is configured.            *)
ConfigureActive ==
  /\ phase = "configure"
  /\ phase' = "enable"
  /\ g_hEvent' \in BOOLEAN
  /\ instance' = ("hookInstaloot" \in config)
  /\ SetActive(instance')
  /\ listener' = (config \cap {"hookEngineRender", "startSeedInfoThread"} # {})
  /\ UNCHANGED <<envVars, waited, g_gameApiResolved, g_tcpClient, hookVars, bypassed,
                 threadVars, reported>>

(* Create the event, which may fail, and the objects.  A constructor of    *)
(* InventorySack_AddItem that throws is logged and leaves the instance     *)
(* NULL.  Under Wine instaloot is set active at once, before any hook.     *)
Configure ==
  /\ phase = "configure"
  /\ phase' = "enable"
  /\ g_hEvent' \in BOOLEAN
  /\ instance' \in BOOLEAN /\ (instance' => "hookInstaloot" \in config)
  /\ SetActive(instance' /\ g_isRunningInWine)
  /\ listener' = (config \cap {"hookEngineRender", "startSeedInfoThread"} # {})
  /\ UNCHANGED <<envVars, waited, g_gameApiResolved, g_tcpClient, hookVars, bypassed,
                 threadVars, reported>>

Wanted(h) ==
  CASE h = "Update"        -> instance /\ "hookGameEngineUpdate" \in config
    [] h \in InstalootHook \ {"Update"} -> instance
    [] h = "SetHardcore"   -> "hookInstaloot" \in config
    [] h \in {"SetDifficultyRamp", "Render"} -> listener /\ "hookEngineRender" \in config

Enabling(h) == phase = "enable" /\ next <= 9 /\ h = Order[next]

SkipHook ==
  /\ phase = "enable" /\ next <= 9 /\ ~Wanted(Order[next])
  /\ next' = next + 1
  /\ UNCHANGED <<envVars, phase, waited, g_gameApiResolved, objectVars, hook, findNext,
                 lootVars, bypassed, threadVars, reported>>

(* HookDll up to the commit of the Detours transaction, which patches the  *)
(* function of the game or fails.  GetPrivateStash hands Detours the       *)
(* variable its hook reads, so that it is set by then.  InventorySack_-    *)
(* AddItem::EnableHook resets m_isActive before its last hook, and looks   *)
(* up FindNextPosition after it.                                           *)
PatchHook(h) ==
  /\ Enabling(h) /\ Wanted(h) /\ hook[h] = "off"
  /\ m_isActive' = IF h = "GetPrivateStash" THEN FALSE ELSE m_isActive
  /\ \/ /\ h # "GetPrivateStash"
        /\ hook' = [hook EXCEPT ![h] = "patched"]
        /\ UNCHANGED <<next, findNext>>
     \/ /\ h = "GetPrivateStash"
        /\ hook' = [hook EXCEPT ![h] = "stored"]
        /\ next' = next + 1 /\ findNext' = TRUE
     \/ /\ next' = next + 1
        /\ findNext' = (findNext \/ h = "GetPrivateStash")
        /\ UNCHANGED hook
  /\ UNCHANGED <<envVars, phase, waited, g_gameApiResolved, objectVars,
                 depositListeners, bypassed, threadVars, reported>>

(* HookDll returns, and EnableHook stores the pointer to the function.     *)
StoreHook(h) ==
  /\ Enabling(h) /\ hook[h] = "patched"
  /\ hook' = [hook EXCEPT ![h] = "stored"]
  /\ next' = next + 1
  /\ UNCHANGED <<envVars, phase, waited, g_gameApiResolved, objectVars, findNext,
                 lootVars, bypassed, threadVars, reported>>

(* Mutant: the worker is started before the hooks are enabled.             *)
StartThreadsEarly ==
  /\ phase = "enable" /\ ~worker
  /\ worker' = TRUE
  /\ g_tcpClient' = ("startTcpClient" \in config)
  /\ seedThread' = (listener /\ "startSeedInfoThread" \in config)
  /\ phase' = IF next = 10 THEN "done" ELSE phase
  /\ UNCHANGED <<envVars, waited, g_gameApiResolved, g_hEvent, instance, listener,
                 hookVars, lootVars, bypassed, wineSetActiveDone, reported>>

(* The TCP client, the worker thread, and from it the seed thread.         *)
StartThreads ==
  /\ phase = "enable" /\ next = 10
  /\ phase' = "done"
  /\ g_tcpClient' = ("startTcpClient" \in config)
  /\ worker' = TRUE
  /\ seedThread' = (listener /\ "startSeedInfoThread" \in config)
  /\ UNCHANGED <<envVars, waited, g_gameApiResolved, g_hEvent, instance, listener,
                 hookVars, lootVars, bypassed, wineSetActiveDone, reported>>

-----------------------------------------------------------------------------
(* Mutant: the worker relies on the call Configure has made.               *)
WorkerTrustsConfigure ==
  /\ worker /\ g_hEvent /\ instance /\ ~g_isRunningInWine
  /\ depositListeners < ListenerMax
  /\ SetActive(iaWindow)
  /\ UNCHANGED <<envVars, phase, waited, g_gameApiResolved, objectVars, hookVars,
                 bypassed, threadVars, reported>>

(* The worker thread calls SetActive: once under Wine, where there is no   *)
(* window to look for, and otherwise as the window says.  Without an event *)
(* to wait for it ends before that.                                        *)
WorkerSetsActive ==
  /\ worker /\ g_hEvent /\ instance
  /\ IF g_isRunningInWine
     THEN ~wineSetActiveDone /\ wineSetActiveDone' = TRUE /\ SetActive(TRUE)
     ELSE /\ depositListeners < ListenerMax
          /\ SetActive(iaWindow) /\ UNCHANGED wineSetActiveDone
  /\ UNCHANGED <<envVars, phase, waited, g_gameApiResolved, objectVars, hookVars,
                 bypassed, seedThread, worker, reported>>

(* A listener ends when it finds instaloot inactive, which it may not be   *)
(* any more after a sleep of 500 ms, or when listing its folder throws.    *)
ListenerLeaves ==
  /\ depositListeners > 0
  /\ depositListeners' = depositListeners - 1
  /\ UNCHANGED <<envVars, phase, waited, g_gameApiResolved, objectVars, hookVars,
                 m_isActive, bypassed, threadVars, reported>>

(* The game enters a hook that has no pointer yet to go on with.           *)
GameEntersHook(h) ==
  /\ hook[h] = "patched"
  /\ bypassed' = TRUE
  /\ UNCHANGED <<envVars, phase, waited, g_gameApiResolved, objectVars, hookVars,
                 lootVars, threadVars, reported>>

(* The game maps its modules, and goes online and offline.                 *)
GameLoads ==
  /\ ~gameLoaded
  /\ gameLoaded' = TRUE
  /\ UNCHANGED <<config, g_isRunningInWine, complete, online, iaWindow, phase, waited,
                 g_gameApiResolved, objectVars, hookVars, lootVars, bypassed,
                 threadVars, reported>>

GameOnline ==
  /\ gameLoaded
  /\ online' = ~online
  /\ UNCHANGED <<config, g_isRunningInWine, gameLoaded, complete, iaWindow, phase,
                 waited, g_gameApiResolved, objectVars, hookVars, lootVars, bypassed,
                 threadVars, reported>>

IaWindowChanges ==
  /\ iaWindow' = ~iaWindow
  /\ UNCHANGED <<config, g_isRunningInWine, gameLoaded, complete, online, phase,
                 waited, g_gameApiResolved, objectVars, hookVars, lootVars, bypassed,
                 threadVars, reported>>

-----------------------------------------------------------------------------
InitStep == \/ ProcessAttach \/ WaitForModules \/ ResolveApi \/ WaitUntilOnline
            \/ Configure \/ SkipHook \/ StartThreads
            \/ \E h \in Hook : PatchHook(h) \/ StoreHook(h)

Next == \/ InitStep \/ WorkerSetsActive \/ ListenerLeaves \/ GameLoads \/ GameOnline
        \/ IaWindowChanges
        \/ \E h \in Hook : GameEntersHook(h)

Spec == Init /\ [][Next]_vars

(* DeferredInit and the worker thread run when they can.                   *)
Fairness == WF_vars(InitStep) /\ WF_vars(WorkerSetsActive)

FairSpec == Spec /\ Fairness

-----------------------------------------------------------------------------
(* Every variable keeps its type.                                          *)
TypeOK ==
  /\ config \subseteq Flag
  /\ g_isRunningInWine \in BOOLEAN
  /\ phase \in {"attach", "passthrough", "modules", "resolve", "online", "configure",
                "enable", "done", "cancelled"}
  /\ waited \in 0..WaitMax
  /\ gameLoaded \in BOOLEAN /\ complete \in BOOLEAN /\ online \in BOOLEAN
  /\ iaWindow \in BOOLEAN /\ g_gameApiResolved \in BOOLEAN
  /\ g_hEvent \in BOOLEAN /\ instance \in BOOLEAN /\ listener \in BOOLEAN
  /\ g_tcpClient \in BOOLEAN
  /\ next \in 1..10
  /\ hook \in [Hook -> {"off", "patched", "stored"}]
  /\ findNext \in BOOLEAN /\ m_isActive \in BOOLEAN
  /\ depositListeners \in 0..ListenerMax
  /\ bypassed \in BOOLEAN
  /\ seedThread \in BOOLEAN /\ worker \in BOOLEAN /\ wineSetActiveDone \in BOOLEAN
  /\ reported \in BOOLEAN

(* The hooks call the functions of the game without looking: none is       *)
(* entered before they are there.                                          *)
HooksNeedTheGame ==
  (\E h \in Hook : hook[h] # "off") => g_gameApiResolved /\ gameLoaded

(* An injection that is reported as cancelled has left the game alone, and *)
(* one that has touched it is not reported.                                *)
CancelledIsClean ==
  /\ reported <=> phase = "cancelled"
  /\ reported => /\ ~worker /\ ~m_isActive /\ depositListeners = 0
                 /\ \A h \in Hook : hook[h] = "off"

(* While a hook has no pointer yet, no thread that needs the hooks runs;   *)
(* but under Wine a listener does, which Configure starts.  Under Wine     *)
(* there is a second only by the one call of the worker: EnableHook has    *)
(* reset m_isActive, and the first may not have looked since.  And when    *)
(* the event could not be created instaloot ends up inactive, under Wine   *)
(* too.                                                                    *)
NothingRunsEarly ==
  /\ \A h \in Hook : hook[h] = "patched" =>
       ~worker /\ ~seedThread /\ (depositListeners > 0 => g_isRunningInWine)
  /\ g_isRunningInWine => depositListeners <= IF wineSetActiveDone THEN 2 ELSE 1
  /\ worker /\ ~g_hEvent => ~m_isActive

(* Outside Wine the hook on Update deposits nothing, because instaloot is  *)
(* not active, before FindNextPosition, which it calls, is looked up.      *)
DepositsCanBePlaced ==
  hook["Update"] # "off" /\ m_isActive /\ ~g_isRunningInWine => findNext

(* Whatever the game does, the injection ends: it gives up or it is done.  *)
InjectionEnds == <>(phase \in {"passthrough", "cancelled", "done"})

(* Under Wine instaloot is active in the end, although EnableHook undoes   *)
(* the call of SetActive that Configure makes, if the worker has an event  *)
(* to wait for.                                                            *)
WineEndsActive ==
  g_isRunningInWine /\ worker /\ g_hEvent /\ instance ~> [](m_isActive)
=============================================================================
