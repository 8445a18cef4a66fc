# A verification development for Item Assistant (iagd)

TLA+ modules that model Grim Dawn Item Assistant as it is in this repository,
TLC configurations that check them on small instances, and theorems about them
checked by the TLA+ proof system.

The repository holds a DLL that is loaded into the game (C++, `HookDll/Hook`),
a backend that stores what the DLL reports (Rust, `gdia-tauri`), a web view of
the items (Preact, `WebUI`), and libraries in C#: parsers of the game's files,
and stat translation.  The desktop program that once tied them together is not
here; it is called *Item Assistant* below, and what it does is taken from how
the DLL uses it.

1. [Inventory](#1-inventory)
2. [Modules](#2-modules)
3. [Runs](#3-runs)
4. [Fairness](#4-fairness)
5. [Proofs](#5-proofs)
6. [What the checks found](#6-what-the-checks-found)
7. [What is not modelled](#7-what-is-not-modelled)
8. [Plan](#8-plan)


## 1. Inventory

### 1.1 The DLL in the game

Four threads of the DLL and several threads of the game meet in one address
space:

| Thread | Runs | Touches |
|---|---|---|
| game threads | the hooked functions: `AddItem` (2), `SetTransferOpen`, `GameInfo` constructor, `GameEngine::Update`, `GetPrivateStash`, `SetHardcore`, `SetDifficultyRamp`, `Engine::Render` | everything below |
| init | `DeferredInit`, once | creates the objects, enables the hooks, starts the worker |
| worker | `WorkerThreadMethod` | queue, event, socket, `SetActive` |
| listener(s) | `InventorySack_AddItem::ThreadMain`, one for each time instaloot is switched on | outgoing folder, `m_depositQueue` |
| seed | `OnDemandSeedInfo::ThreadMain` / `Process` | request folder, `m_itemQueue` |

**Instaloot item pipeline** (`InventorySack_AddItem.cpp`).
*State*: `m_isActive`, `m_isTransferStashOpen`, `m_depositQueue` (a set of
paths) under `m_mutex`, each listener's `knownFiles`, and the CSV files in
`itemqueue\ingoing`, `itemqueue\outgoing\<sc|hc>[\mod]` and
`itemqueue\deleted`.
*Operations*: `HandleItem`/`Persist` turn an item that the player drops on the
tab to loot from into a CSV and swallow the call; a listener lists the outgoing
folder every 500 ms and queues the new paths; the hook on `Update` walks over
the queue, creates each item, adds it to a tab and moves the file;
`SetTransferOpen` and `SetActive` turn it on and off.
*Interacts with* the worker (which calls `SetActive`), the game (stash tabs)
and Item Assistant (files).
*Hard*: an item is carried by files and by two programs without a transaction;
the listener and the deposit loop share a queue that is cleared as a whole;
several listeners may be alive; the mode may change while a path is queued; the
game may die between adding the item and moving the file.
*Correct when*: an item is never duplicated and never lost; a file that waits
is not forgotten; a file is deposited in the end; a file goes into the stash it
was meant for.

**Hook channel and worker** (`dllmain.cpp`, `DataQueue.h`,
`BaseMethodHook.cpp`, `TcpClient.cpp`, `JsonSerializer.h`; on the other side
`tcp_server.rs`).
*State*: `g_dataQueue`, the auto-reset event `g_hEvent`, the socket,
`g_targetWnd`.
*Operations*: a hook pushes and then sets the event; the worker wakes, looks
for the window, drains the queue, and sends each message as a line of JSON;
`SendMessage` connects when there is no socket, and disconnects on any error;
the backend runs a task per connection that answers each line.
*Hard*: coalesced wake-ups, an emptiness test outside the push's lock, a peer
that dies unnoticed, answers nobody reads, tasks of an old and a new connection
side by side.
*Correct when*: the worker never sleeps on a message; a message is sent at most
once and its fate is known; a connection keeps the order; the worker cannot be
blocked for ever; Item Assistant's coming and going is noticed.

**Item stats on demand** (`OnDemandSeedInfo.cpp`).
*State*: `m_isActive`, `m_sleepMilliseconds`, `m_itemQueue`, `_mutex`, the
files of `replica\from_ia` and `replica\to_ia`.
*Operations*: the seed thread reads and deletes request files; the hook on
`Render` serves up to a batch and writes the answers; the hook on
`SetDifficultyRamp` holds the lock meanwhile.
*Hard*: files half written, a deletion that fails, an exception in the middle
of a batch, a counter that one thread sets and another counts down, a lock that
`Render` may only try.
*Correct when*: each request is answered or reported once; no item is created
during `SetDifficultyRamp`; `Stop` ends the thread; the back-off ends.

**DLL life cycle** (`dllmain.cpp`, `HookConfig.cpp`, `BaseMethodHook.cpp`,
`GrimTypes.cpp`, each `EnableHook`, `VTableDispatch.h`).
*State*: the configuration switches, which objects exist, which hooks are
patched and have their pointers, which threads run.
*Operations*: `ProcessAttach`, the phases of `DeferredInit`,
`ReportCancelledInjection`, `ProcessDetach`.
*Hard*: hooks are live while later ones are still being installed, and before
the pointer to the original has been stored; three waits that give up;
`EnableHook` undoes what Configure has set.
*Correct when*: nothing is hooked before what the hook uses is there; giving up
leaves no trace; the worker and the seed thread start when the hooks are
complete; the initialisation ends.

**Settings, private stash and hardcore hooks** (`SettingsReader.cpp`,
`GetPrivateStash.cpp`, `SetHardcore.cpp`, `GameEngineUpdate.cpp`).
*State*: `settings.json`, and the tab numbers and the parsed flag the
constructor of `InventorySack_AddItem` reads from it.
*Operations*: the file is opened and parsed once for each value; a file that is
missing, or does not parse, reads as one without settings.
*Interacts with* Item Assistant, which writes the file at any time, and with
`IsSackToLootFrom` and `GetSackToDepositTo`, which turn the numbers into
indexes of the game's vector of tabs.
*Hard*: values of two versions of the file; arithmetic on `size_t`; a stash
whose number of tabs changes.
*Correct when*: both indexes name a tab that exists, and without settings they
name two tabs.  The private stash and hardcore hooks record one value.

**Hook logging** (`HookLog.cpp`, `DebugLog.h`): output only.

### 1.2 The other parts

| Part | State and operations | Hard | Correct when |
|---|---|---|---|
| Rust backend store (`database.rs`, `tcp_server.rs`, `models.rs`, `main.rs`) | two SQLite tables, one connection behind a mutex; a line with an item replaces the item of its slot, deletes its stats, inserts them one by one; the line is answered | no transaction; errors swallowed and answered "ok"; several connections; the process may be killed between two statements | a stat belongs to the item it came with; what was acknowledged, and hit by no fault, is whole |
| Web UI item list (`App.tsx`, `ItemContainer.tsx`, `integration.ts`, `ItemSetService.tsx`) | rows of items, a map from item number to row, a queue of updates for a timer; pages replace the list or are appended, transfers remove items and rows | the map is not told of a row removed; an update whose row is gone throws in the middle of a batch | no row is empty; an update hits its item; an update that throws does not stop later ones |
| Web UI views | none | - | - |
| Stash file codec (`Parser/Stash`) | a running decryption key; read and write of tabs, items and blocks | versions with different fields; strings of two widths | reading what was written gives it back |
| Game archives, characters (`Parser/Arz`, `Arc`, `Character`) | none across calls | - | - |
| Stat translation, shared utilities | none across calls, or unused | - | - |
| Vendored and generated code | - | - | - |

`PROJECT.json` lists each part with its files, and under `hazards` each place
where something can go wrong that a test would hardly reach, with the property
that covers it or the reason why none does yet.


## 2. Modules

| Module | Models | Uses |
|---|---|---|
| `Instaloot` | the item pipeline | instantiates `ItemCustody` |
| `ItemCustody` | what the pipeline promises: who has an item | - |
| `HookChannel` | queue, event, worker, socket, backend tasks | instantiates `Delivery` |
| `Delivery` | what the channel promises: at most once, in order on each connection | - |
| `SeedInfo` | item stats on demand | instantiates `StatRequests` |
| `StatRequests` | what the desk for item stats promises: what becomes of a request | - |
| `Injection` | `ProcessAttach` and `DeferredInit` | - |
| `WebItems` | the item list of the web view | - |
| `Backend` | the tasks and tables of the Rust backend | - |
| `StashTabs` | settings, the tabs items are taken from and put into | extends `ReplicaCsv` |
| `ReplicaCsv` | the CSV line of an item, written and read | - |
| `MCInstaloot`, `MCHookChannel`, `MCSeedInfo`, `MCInjection`, `MCStores` | instances for TLC | the above; `MCStores` is for `WebItems`, `Backend` and `StashTabs` |
| `InstalootProofs`, `HookChannelProofs`, `SeedInfoProofs`, `InjectionProofs`, `WebItemsProofs`, `BackendProofs`, `StashTabsProofs` | theorems | the above |

Variables and actions carry the names of the code where it has them.  In each
module the actions whose comment begins with *Mutant* are not part of `Next`:
each is a defect that the code could plausibly have had, and the property named
for it in `PROJECT.json` is violated when the action replaces the real one.

### 2.1 Instaloot

An item is in `stock[s]` for a store `s`, which is the stash of a mode or Item
Assistant's own store, or it is a file.  A mode stands for a pair (hardcore
flag, mod name).

| Action | Code (`InventorySack_AddItem.cpp`) |
|---|---|
| `SetActive` | `SetActive`; switching on starts a listener, however many there are |
| `ListenerTest`, `ListenerList`, `ListenerNoGame`, `ListenerInsert`, `ListenerScanned`, `ListenerThrows` | the steps of `ThreadMain`: test, sleep, list, one entry under the lock, end of the listing, an exception |
| `HandleItem`, `HandleItemThrows` | the hooks on `AddItem`, with `HandleItem` and `Persist` |
| `SetTransferOpen`, `UpdateNotReady` | the transfer stash flag |
| `DrainBegin`, `DrainItem`, `DrainMove`, `DrainEnd`, `DrainThrows` | the deposit loop in the hook on `Update`: it takes `m_mutex`, takes an entry as far as the tab (`Added`, `Rejected`, `Invalid`), calls `MoveFile`, clears the queue |
| `GameLoad`, `GameReady`, `GameRestart` | the game: other character, loading ends, process restarts |
| `IaImport`, `IaTransfer`, `IaFinishWrite`, `IaPurge` | Item Assistant |

`TwoTabs` are the modes whose stash has at least two tabs.  In the others
`IsSackToLootFrom` refuses every tab and `GetSackToDepositTo` gives null, so
nothing is looted and the queue is left as it is: `EveryFileIsHandled` has the
two tabs as a premise.  The set does not change in a behaviour; that the player
buys tabs is in `StashTabs`.

A step of the game thread is cut where another thread or process can get in
between: between reading an entry and moving its file, and between the entries.
The set of faults is a constant, `Faults`, so that a run and a theorem say which
faults they allow.  Each fault marks the item it hits in the history variable
`damaged`; the conservation property is about all the others, so it says that a
fault never hurts an item other than its own.

`ItemCustody` is the abstract specification: an item is with the game, in
`ingoing`, with Item Assistant or in `outgoing`, and one item at a time changes
hands along five edges.  A pipeline that is `Unreliable` may damage items, one
at a time; a damaged item is with nobody, and what becomes of it is not
promised.  `Custodian` is the refinement mapping: `HolderOf`, or `"damaged"` for
an item in `damaged`.  The pipeline is unreliable when any fault but a failing
listing can happen, so the run without faults checks the strict version, and
the run with all of them that a fault takes an item out and never sends another
one along a path that is not an edge.

### 2.2 HookChannel

Messages are numbered in the order they are pushed, so that order and
duplication can be stated; what they say is left out.  A connection is the
lines on the way, the number of answers, and whether the backend's end is open.
`Push`/`SignalEvent` are the two halves of a hook's report; `WorkerWake`,
`WorkerPoll`, `WorkerPop`, `WorkerEmpty` and the three `Send` actions are the
worker's loop; `ServerRead`, `ServerEnds`, `ServerStart`, `ServerStop` are the
backend.  `Init` has only the message of `StartWorkerThread` in the queue; what
the hooks have reported before that is covered by pushes before the worker
wakes for the first time.  A send fails when the peer has gone, or when the
buffers stay full for the five seconds of `SO_SNDTIMEO`.

`Delivery` is the abstract specification: messages leave in the order they are
pushed, each at most once, over an open connection, and a connection delivers its
lines in order.  The next message to leave may be lost at any time; lines that
have left are lost only as the tail of a closed connection.  In the mapping a
message waits while it is in the queue or in the worker's hands, and a
connection is closed when the worker has given it up or the backend's end has.

### 2.3 SeedInfo

`request[r]` says what has become of the file of request `r`.  The seed thread
is `SeedBegin` ... `SeedThrows`, the hook on `Render` is `RenderBackOff` ...
`RenderMove`, the hook on `SetDifficultyRamp` is `RampBegin` and `RampEnd`.  One
tick of `m_sleepMilliseconds` is six seconds.  Requests are those of the mode
played; the folders of other modes are left out.  The worker thread starts the
seed thread once, so after `Stop` it ends for good.  `spoiled` plays the role of
`damaged`.

A file of Item Assistant is `"file"` when it is complete and a request, and,
where the fault `"malformed"` can happen, possibly `"bad"`: complete, but with
another number of tokens than 12 or 15, an unknown type or a field that is no
number.  The code logs such a file and deletes it (`OnDemandSeedInfo.cpp:316,
328`), and nobody else hears of it; the model records it in `spoiled`.  The
premise of `ServedWhileInGame` is `request[r] = "file"`: valid requests are
served, malformed ones never.

`StatRequests` is the abstract specification: a request waits, is taken into a
batch that has room, and is answered together with all others of its batch, or
it is reported.  `Where` is the mapping: the set of places a request is in.  A
request that is in two places, or in none, has no counterpart in `StatRequests`
unless a fault has spoiled it.

### 2.4 Injection

`phase` is where `DeferredInit` is, `next` the hook it enables next, in the
order of the `EnableHook` functions.  A hook is `"off"`, `"patched"` from the
commit of the Detours transaction on, and `"stored"` once the pointer to the
function it replaces has been assigned.  A hook whose export is missing or whose
transaction fails stays off and the next one is tried.  `GameEntersHook` is the
game entering a hook that is patched and has no pointer: the code makes no
provision for it, the model shows it is possible, and `NothingRunsEarly` says
that it is not possible any more when the worker or the seed thread runs.

`SetActive` counts the deposit listeners it starts (`depositListeners`).  Under
Wine Configure calls it, before any hook is enabled; `EnableHook` resets
`m_isActive` without ending that listener, and the worker's one call starts
another, so that there may be two for good.  What two listeners do with the
same files is in the runs of `Instaloot`.  The result of `CreateEvent` is not
checked (`dllmain.cpp:482`): `g_hEvent` may stay `FALSE`, and then the worker
ends at once and instaloot is inactive for good, under Wine too.

### 2.5 WebItems

A row is the set of player items it shows, by number, and whether it shows
items that are not the player's (buddies', recipes).

| Action | Code (`App.tsx`, `ItemContainer.tsx`) |
|---|---|
| `SetItems`, `SetNoItems`, `AppendItems` | the message `SetItems`, which replaces the list and the map, or appends to both; a page is cut into rows |
| `Update` | the messages `UpdateItemStats` and `UpdateCloudIconStatus`, which wait in `delayedMessageQueue` |
| `Tick` | the timer: it takes the queue and works on it until an update throws (`Processed`) |
| `transferSingle`, `transferAll` | a transfer, and `reduceItemCount` (`Reduce`), which finds the row by `mergeIdentifier` and removes it when nothing is left |

The handlers run one after another on the browser's thread, so each is one
action.  Item Assistant is taken to merge equal items into one row and not to
send an item twice (`Page`); its code is not here.  `missed` collects the items
that were listed when an update for them was taken and that the update did not
reach; `removed` counts the rows removed since the list was last replaced.
`startsWith("PI/" + id)` is modelled with the digits of the numbers: an update
for item 1 also marks item 12 when both are in the row it looks at.

### 2.6 Backend

A task per connection goes through `"read"`, `"insert"`, `"delete"`, `"stats"`
and `"reply"`; an action is one statement on the database, which commits by
itself.  `mutex` is held from `InsertItem` to the end of `insert_item`.  What
SQLite does is taken from the schema and from how the bundled build is set up:
foreign keys are enforced, so `INSERT OR REPLACE` deletes the stats of the item
it replaces, and a row without a number gets the highest in use plus one
(`NewId`; the tables have no `AUTOINCREMENT`).  A line is `"malformed"`,
`"other"` (answered "ok" and not stored: another type, no `item_data`, a field
missing), or an item for a slot with so many stats.  `StatementFails` and
`Crash` are the faults; `hurt` records the messages they hit.

`Reply` is the answer (`tcp_server.rs:60-71`): it is written, or cannot be,
which ends the task and with it the connection, or it waits for ever for a client
that does not read.  So not every line is answered, and `answered` holds the
messages whose answer "ok" was written.  A read that fails, or is not UTF-8,
ends the task between two lines; the next connection takes its place in `Conn`.

The DLL's `JsonSerializer` sends no `item_data`, so the lines that `HookChannel`
models never reach the tables; `Backend` is for the clients that do send it
(`test_client.py`).  That is why the two are not composed.

### 2.7 StashTabs and ReplicaCsv

`StashTabs` follows items between the player's hand, the tabs and Item
Assistant, in a build with or without `PLAYTEST`.  `ReadLootFrom`,
`ReadDepositTo` and `ReadParsed` are the three reads of the constructor, and
`WriteSettings` may come between them.  `DropIntoLootTab` is `HandleItem` with
`IsRelevant`; `Deposit` creates the item from the line, as the deposit loop does.
`GiveBack` rewrites the line in one of the four formats that `Deserialize`
accepts, whether the format has a column for everything or not.  `TabNumbered`
is the arithmetic of both functions with `size_t` counting modulo `SizeMod`.  A
record's path stands for the class of items `IsRelevant` looks for in it.

An item does not come back as it was.  `Serialize` writes 15 of the fields of
`ItemReplicaInfo`; those in `Unwritten` (`enchantmentLevel`, `id`, `var1`,
`velocity`, `owner`) have no column, and `Deserialize` leaves them zero.  A line
of 14 tokens, whose ascendants an older version wrote on the next line
(`GrimTypes.cpp:82`), gives an item without ascendants and affix rerolls, one of
13 an item without any rerolls, one of 16 one without affix rerolls.  `formats` records the formats an item has been read
from, `Carried(n)` the fields with a column in a line of `n` tokens, and
`FieldsReturn` says which fields come back and which are lost, for every history
of an item.  Whether the game misses one of the lost fields is not in this
repository.

Faults, queues and files are `Instaloot`'s; here the hook is active, files are
written whole and the tab to deposit to has room.  Items of the game have a
stack size of at least one.


## 3. Runs

| Run | Instance | Shows |
|---|---|---|
| `instaloot_faults` | 1 item, 2 files, 1 mode, 2 listeners, up to 2 copies, all seven faults | `TypeOK`, `Conservation`, `NoForgottenFile`, `ImplementsCustody` |
| `instaloot_custody` | 1 item, 2 files, 2 modes, 2 listeners, no fault | `NoDamage`, `ActiveHasListener`, `ImplementsCustody` |
| `instaloot_live` | 1 item, 2 files, 2 modes of which one has two tabs, 2 listeners, no fault | `EveryFileIsHandled` |
| `instaloot_mode` | 2 modes, 1 listener | violation of `DepositsIntoItsMode` |
| `hook_channel` | 2 hooks, 5 messages, 2 connections, 2 lines and 1 answer per buffer | `TypeOK`, `NoLostWakeup`, `InOnePlace`, `OrderedPerConnection`, `EveryMessageLeavesTheDll`, `ImplementsDelivery` |
| `ia_presence` | 1 hook, 2 messages | violation of `IaClosedIsNoticed` |
| `seed_info` | 2 requests, batches of 2, queue of 3, all six faults | `TypeOK`, `RampExcluded`, `RequestConserved` |
| `seed_info_live` | 3 requests, batches of 2, no fault | `ServedWhileInGame`, `StopEndsTheThread`, `ImplementsRequests` |
| `seed_info_back_off` | 1 request | violation of `BackOffEnds` |
| `stores` | list: items 1, 2 and 12, 2 rows, 2 updates, 2 removals; store: 2 connections, 2 slots, 3 lines, items of 2 stats, both faults; tabs: 1 to 3 tabs, 1 item of 4 kinds, settings -1, 0, 2 and 9 | `WebTypeOK`, `RowsAreSound`, `LookupDrift`, `UpdatesArrive`, `UpdatesGetThrough`; `StoreTypeOK`, `StatsBelong`, `AckedIsWhole`, `EveryItemProcessed`; `TabsTypeOK`, `TabsExist`, `ApartByDefault`, `FieldsReturn` |
| `web_lookup` | the same list | violation of `LookupExact` |
| `injection` | 2 rounds per wait, at most 3 deposit listeners, the defaults and each switch turned, with and without Wine | `TypeOK`, `HooksNeedTheGame`, `CancelledIsClean`, `NothingRunsEarly`, `DepositsCanBePlaced`, `InjectionEnds`, `WineEndsActive` |

Every bound is a constant of its module.

* **One item** is enough for `Instaloot`: no action relates two items, except
  that they compete for files and for the queue, and the second file and the
  second listener stand for that competition.  Two files let one be refused or
  stuck while the other is handled, and let a stale path meet a new file.  Two
  listeners are the smallest number that have two `knownFiles`; `Listener` also
  bounds the listeners alive, so `SetActive(TRUE)` waits for a free slot when
  both are.  All modes have their two tabs, except in `instaloot_live`, where
  one has not: there a queue left behind by a stay in that mode must be handled
  in the other.  `MaxCopies = 2` lets a duplicate exist, so that the conservation
  property can fail.  All these bounds are gone from the theorems, which hold
  for every value of the constants.
* **Two connections, two lines per buffer**: the smallest instance in which
  lines are still unread on an old connection while a new one is in use, in
  which a connection can lose a line and keep an earlier one, and in which a
  send blocks.  Five messages let two connections carry two each and one more
  block or be lost between them.
* **Batch of two, three requests**: a full batch and a remainder.  The queue
  needs a bound because a request whose deletion fails is queued over and over.
* **Two rounds per wait** tell apart the first round, the last and the one
  after it; no wait in the code looks at the number except to compare it with
  its maximum.  `ListenerMax = 3` bounds the deposit listeners outside Wine, where
  the window may come and go faster than they notice; it is above the two that
  Wine can have, so it does not help `NothingRunsEarly`.

* **`stores`** checks three systems that share nothing in one run: `part` picks
  one in the initial state and the others stay as they are, so the number of
  states is the sum of the three and not the product.
* **Items 1, 2 and 12**: the smallest numbers of which one begins another and a
  third does not; two rows are the fewest of which one is behind another, and two
  updates are a batch in which one can throw before the other.
* **Two connections, three lines, two slots**: a task that waits for the mutex
  while another is between two statements; an item replaced in its slot, by its
  own task or the other, while the other slot is occupied; a number that is free
  again after a replacement.  Two stats let an item have a part of them.
* **Tabs**: one tab is too few for Item Assistant, with two the defaults are the
  only two, three let the player buy one more.  The settings are one that wraps
  (-1), the default (0), one that is a tab or not (2), and one beyond the end (9).
  One item is enough, since no action relates two; its kinds are a single one, a
  stack, a refused one, and one with rerolls and ascendants.  Each field of an
  item has a value of its own, so that a shifted column shows.

Deadlock is checked in every run: no state of these systems is final, because
the game or Item Assistant can always do something.


## 4. Fairness

* `Instaloot!Fairness`: each listener's steps and those of the deposit loop are
  weakly fair.  A listener is a thread that sleeps half a second and goes on;
  the game calls `Update` for each frame.  Nothing is assumed of the player, Item
  Assistant or the worker; `EveryFileIsHandled` therefore has the premise that
  the player stays in one mode, with the stash open and instaloot active.
* `HookChannel!Fairness`: a hook that has pushed goes on to `SetEvent`, the
  worker runs, and each backend task runs.  Nothing is assumed of pushes, of the
  backend being up, or of Item Assistant.
* `SeedInfo!Fairness`: the seed thread is weakly fair.  `Render` is strongly
  fair: the game calls it for each frame, and `try_lock` fails only while
  `SetDifficultyRamp` runs, which returns (`RampEnd` is weakly fair) and is
  called when the difficulty changes, not all the time.
* `WebItems!WebFairness`: the timer fires; `setInterval` does for as long as the
  view lives.  Nothing is assumed of Item Assistant or the user.
* `Backend!StoreFairness`: a task inside `insert_item` that can take a step takes
  one: the runtime polls it, and the statements wait for nothing but the mutex.
  Nothing is assumed of answers, which a client may never read:
  `EveryItemProcessed` is about the store and not about the answer.  Nor is the mutex assumed to be
  fair; weak fairness of a task is enough because `LineMax` bounds the lines read,
  so that others cannot keep it away for ever.  For an endless stream of lines on
  other connections that would need a fair mutex.
* `Injection!Fairness`: the init thread and the worker run when they can.
  Nothing is assumed of the game: `InjectionEnds` holds when it never loads.


## 5. Proofs

TLAPS checks every proof; the backends are Z3, Zenon and LS4.  The theorems
hold for all constants that satisfy the module's assumptions
(`ConstantsAssumption`, `ChannelAssumption`, `SeedInfoAssumption`,
`InjectionAssumption`, `WebItemsAssumption`, `BackendAssumption`,
`StashTabsAssumption`), which say no more than that bounds are natural numbers
and that a null value is not a real one, and, for the tabs, that a negative
setting does not wrap to a tab that exists (`size_t` is far larger than a stash)
and that a stack has at least one item.  Every invariant that a passing run
checks is also proved, and so are the three refinements, whatever fails.  Five
theorems assume faults away, and say so, because what they state is false
otherwise: `NoFaultNoDamage` and `ListingFaultHarmless` allow listings to fail
and nothing else; `AListenerRuns` only needs listings not to;
`KnownFilesAreQueued` needs that a move fails only when its file is gone and
that no CSV is seen half written; and `FaultlessStoreIsWhole` needs `Faults = {}`.
Two more say what is left of a property that a run refutes (section 6):
`OneModeDepositsWell` has the premise that the mode stays, and
`LookupExactUntilRemoval` that no row has been removed.

| Theorem | States | Argument |
|---|---|---|
| `InstalootProofs!TypeCorrect` | `TypeInv`, which contains `TypeOK` | `TypeOK` is not inductive: that an entry is moved at most once needs `MovingOK`, an entry whose item has been added is still in `outgoing` and on its way to `deleted` |
| `ItemsConserved` | `Conservation` | inductive given `TypeInv`; each step that touches an item either moves it from a store to a file (`StoreToFile`), from a file to a store (`FileToStore`) or leaves it (`Untouched`) |
| `NothingForgotten` | `NoForgottenFile` | strengthened by `Handled`: while the loop runs, a path that is queued and no longer to do has left outgoing or is stuck; that is what makes clearing the whole queue safe, together with the lock that keeps a listener from inserting meanwhile |
| `AListenerRuns` | `ActiveHasListener` | inductive: a listener leaves only when it sees `m_isActive` false, and what sets it to true starts one |
| `NoFaultNoDamage` | `NoDamage` | strengthened by `FaultFree`: as long as only listings fail every file is whole, and an entry that the loop gives up on is a stale path whose file has left `outgoing` already |
| `Refinement` | `ImplementsCustody` | `HolderFacts` turns "exactly one copy" into the value of `HolderOf` for an item that is not damaged; then each action is one edge of `ItemCustody`, damages the item it is about, or moves none |
| `OneModeDepositsWell` | `DepositsIntoItsMode` while the mode stays | `QueuedHere`: a path that is listed or queued, and still in outgoing, is for the mode played; a file keeps its mode while it is in outgoing |
| `KnownFilesAreQueued` | a file a listener has listed and that still waits is queued | `NothingForgotten`, with `NoOpenFile`: nothing is ever stuck |
| `HookChannelProofs!TypeCorrect`, `NoWakeupLost` | `TypeOK`, `NoLostWakeup` | inductive; the worker goes to sleep only after it has seen the queue empty, and between a push and its signal the hook is in `"push"` |
| `EachMessageInOnePlace`, `ConnectionsAreOrdered` | `InOnePlace`, `OrderedPerConnection` | `ChannelInv`: the queue is a segment of the numbers pushed (`QueueShape`), only messages that have left the DLL are elsewhere (`LeftOnly`), wires are sorted, disjoint and apart from what is lost or received (`WireSorted`, `WiresDisjoint`, `WireOnly`, `ReceivedOnce`), everything taken is accounted for, and what has been read on a connection precedes what is still on it (`ReadInOrder`) |
| `ChannelDelivers` | `ImplementsDelivery` | from `ChannelInv`: each action is one step of `Delivery` or none.  That a line is sent only over an open connection, and that what is cut off a connection is its tail, are the cases that need the order of the wires; `WireOpened` adds that there are no lines on a connection not yet opened |
| `MessagesGetOut` | | the safety half of `EveryMessageLeavesTheDll`: `StepsToLeave(m)`, three steps of the worker for each message before `m` and what is left of the present turn, is lowered by every step of the worker and raised by nobody |
| `SendGoesOrFails` | `NoLostWakeup` | with `BuffersHold`, inductive beside `TypeOK`: a send finds room in the connection's buffers or the full ones it fails on, and a sleeping worker is woken |
| `InstalootProofs!TypesHold` | `TypeOK` | a part of `TypeInv` |
| `SeedInfoProofs!TypeCorrect`, `RampIsExcluded` | `TypeOK`, `RampExcluded` | inductive |
| `SeedInfoProofs!RequestsConserved` | `RequestConserved` | `RequestInv`: a request that no fault has hit is in exactly one place (`OnePlace`), stated with positions in the queue and not with a count; lemmas on the head and the tail of the queue carry it |
| `DeskServes` | `ImplementsRequests` | `WhereIs` turns `OnePlace` into the value of `Where`; a batch is never larger than allowed (`BatchBounded`), what the listing found is still in the folder (`ListingTrue`), and the seed thread's steps move one request, those of `Render` one or the whole batch |
| `ListingFaultHarmless` | every request is in one place | no step spoils a request unless one of the other faults can happen |
| `WebItemsProofs!WebTypesCorrect`, `RowsStaySound`, `LookupDriftsBounded`, `UpdatesReachItems` | `WebTypeOK`, `RowsAreSound`, `LookupDrift`, `UpdatesArrive` | `WebInv`, their conjunction, is inductive: that the map is exact until a row goes is what makes the updates arrive, and that no item stands in two rows is what keeps the map's error bounded |
| `LookupExactUntilRemoval` | `LookupExact` until a row is removed | `LookupDrift` with a drift of zero |
| `BackendProofs!StoreTypesCorrect`, `StatsNeverStray`, `AckedStaysWhole` | `StoreTypeOK`, `StatsBelong`, `AckedIsWhole` | `StoreInv`: tasks work on messages of their own (`TasksInv`); rows and stats have numbers of their own and belong together (`RowsInv`); between two statements the task that holds the mutex has its row, the number SQLite returned, and as many stats as it is not still to insert (`HeldInv`); what has left `insert_item` is whole, superseded or hurt (`DoneInv`).  `GreatestExists` gives the maximum of a finite set of numbers, on which `NewId` rests |
| `NobodyReadsHalfAnItem`, `FaultlessStoreIsWhole` | a row read under the mutex has all its stats, unless a fault has hit its message; without faults all rows do | `NoRowBefore`: a message that a task has not begun to insert has no row yet; so, with `StoreInv`, a row came with a message that is hurt, or that has left `insert_item`, whose rows are whole, or that the task with the mutex is still inserting |
| `SlotsOnlyMoveOn` | a slot that has an item keeps it until one inserted later replaces it | `NewId` is above every number in use before the old row goes, so a replacement cannot be mistaken for what it replaces |
| `TasksGetOn`, `HolderNeverWaits` | the safety half of `EveryItemProcessed` | `WorkLeft`, the statements a task has left: its own steps lower it, and those of others leave it; and who holds the mutex has a statement to run |
| `StashTabsProofs!TabsTypeCorrect`, `TabsAlwaysExist`, `DefaultsApart` | `TabsTypeOK`, `TabsExist`, `ApartByDefault` | the types are inductive; the rest is arithmetic on them |
| `StashTabsProofs!FieldsComeBack` | `FieldsReturn` | `FieldsInv`: the line of an item carries, in one of the formats, what the item still has, which is what it was at first in the fields every format so far has carried and zero in the others; `Serialized`, `GivenBack` and the lemmas on the formats show what writing and reading do to each field |
| `InjectionProofs!TypeCorrect`, `HooksHaveTheGame`, `CancelLeavesNoTrace`, `ThreadsInOrder`, `DepositsHavePlaces` | `TypeOK`, `HooksNeedTheGame`, `CancelledIsClean`, `NothingRunsEarly`, `DepositsCanBePlaced` | `InjectionInv`: what each phase has reached (`ApiInv`), nothing is touched before hooks are enabled (`UntouchedInv`), the hooks before `next` are finished and those after it off (`OrderInv`), only wanted hooks are touched (`WantedInv`), `m_isActive` outside Wine comes from the worker (`InstalootInv`), and so do the deposit listeners, of which Wine has one from Configure and one from the worker (`ListenerInv`) |
| `InjectionGetsOn`, `InjectionNeverStuck` | the safety half of `InjectionEnds`, for any number of rounds | `StepsLeft`, which every step of `DeferredInit` lowers and no other step changes; and until the end a next step is there: the hook whose turn it is is not finished (`TurnIsOpen`) |

Model-checked only: the liveness properties (`EveryFileIsHandled`,
`EveryMessageLeavesTheDll`, `ServedWhileInGame`, `StopEndsTheThread`,
`InjectionEnds`, `WineEndsActive`, `UpdatesGetThrough`, `EveryItemProcessed`),
because liveness under fairness is out of the prover's reach.  For three of
them the part that is a safety property is proved: a number that a thread's own
steps lower and that nobody else raises (`InjectionGetsOn`, `TasksGetOn`,
`MessagesGetOut`), and that what the thread may wait for comes
(`InjectionNeverStuck`, `HolderNeverWaits`, `SendGoesOrFails`).
What remains for TLC is that a thread which can step does, and the step from
there to "in the end", both of which need `ENABLED` and fairness.


## 6. What the checks found

Each is a run that expects a violation.

* `instaloot_mode`: the comment at `InventorySack_AddItem.cpp:875` says that
  files of the current mode's folder are deposited.  `m_depositQueue` holds bare
  paths and is not emptied when the player changes character: a path found in
  `outgoing\sc` is deposited into a hardcore stash if the player switches before
  the loop comes to it.  Nothing else does: `OneModeDepositsWell` proves the
  comment right for a player who stays in one mode.
* `ia_presence`: `SetActive` is documented (163-164) as what keeps the game from
  looting when Item Assistant is closed.  The worker looks for the window only
  after some hook has reported something, so with none firing instaloot stays
  active.
* `seed_info_back_off`: `m_sleepMilliseconds` is documented (95) as a way to back
  off for a while.  `Render` sets it at any time, but only the outer loop of
  `ThreadMain` counts it down, and by then the thread is inside `Process`, which
  does not come back.  After one loading screen no request is served any more.

* `web_lookup`: `calculateItemLocations` is documented (`App.tsx:422-423`) as
  giving the row where an item is.  `reduceItemCount` removes an emptied row and
  leaves the map alone, so every row behind it is one too far in the map until
  the list is replaced: updates for these items are lost, and one for an item
  that was in the last row throws, which drops the rest of its batch.  What does
  hold is `LookupDrift` and `UpdatesArrive`, and, by
  `LookupExactUntilRemoval`, the comment itself until the first removal.

More things are visible in the models and are recorded as notes of hazards:
the window between the commit of a Detours transaction and the assignment of
the pointer (`Injection!GameEntersHook`), and, under Wine, the time between
Configure's `SetActive(true)` and its being reset by `EnableHook`, during which
`DepositsCanBePlaced` does not hold and which is why it is stated for the other
case; a line whose item SQLite refuses to store in part is answered "ok" like any
other (`tcp_server.rs:149`), so `AckedIsWhole` excepts the items in `hurt`; a
request that is malformed vanishes without an answer (`OnDemandSeedInfo.cpp:316`);
an item loses `enchantmentLevel` on its way through a CSV line; a listing that
throws leaves instaloot active without a listener until Item Assistant is closed
and opened again (`InventorySack_AddItem.cpp:918`); a failed `CreateEvent` leaves
hooks without a worker (`dllmain.cpp:482`); an
update marks items whose number begins with the one it is for when they share the
row (`App.tsx:172`); and the log message at `SettingsReader.cpp:50` says "last
stash tab" of a setting of 0, for which the code, like the message at line 45,
takes the second-to-last.


## 7. What is not modelled

* **Positions in a tab** (`SortInventorySack`, `FindNextPosition`): the game's.
* **What a message of the hook channel says**: JSON and message types.  The
  models tell messages apart and nothing else.  The stat lines behind the first
  line of a CSV are not read by anything here.
* **The stash file codec**: nothing in this repository calls `Stash.Read` or
  `Stash.Write`; the character reader uses their buffer class.  A round trip of
  the two would be a statement about a caller that is not here.
* **The private stash and hardcore hooks**, whose value goes into a message; the
  backend's `get_` functions and `clear_all`, which the server does not call.
* **Two game processes** that share the named event of the worker, and the seed
  thread started without its `Render` hook: both need a composition of modules
  that are large by themselves (`HookChannel` twice; `Injection` with
  `SeedInfo`).  They are hazards with a note.
* **`ProcessDetach` and `EndWorkerThread`**: the DLL pins itself in memory
  (`dllmain.cpp:577-586`), so they run when the process ends, after Windows has
  ended its other threads.
* **Notifications, logging, wording**: no other part reads them.
* **Views of the web UI, stat translation, archives and characters, shared
  utilities**: no state that outlives a call, or not used by anything here.
* **Vendored and generated code.**
* The stash of the game is assumed to survive a crash of the game; what the game
  itself has saved by then cannot be known from this repository.


## 8. Plan

What the project would gain from next, in this order:

1. `Hook`: `Injection` composed with `SeedInfo` and `Instaloot`, so that the
   premises each makes about the others (the `Render` hook is installed, the
   exports are resolved, who calls `SetActive`) become guarantees; and two
   instances of `HookChannel` on one event.
2. `StashTabs` as the choice of store in `Instaloot`: a store for each tab.
3. A variant for `EveryFileIsHandled`, as `Injection`, `Backend` and
   `HookChannel` have them for their threads: of the watcher and the deposit loop.
4. `StashCodec`, should a caller of `Stash.Write` come back into the repository.
