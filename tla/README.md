# A.T. Shield in TLA+

A verification development of A.T. Shield, a desktop program that blocks
distracting web sites while a focus session runs. It models the session engine
of the background service and its database (`crates/at_shield_core`,
`crates/at_shield_service`), its Windows network filter and page server
(`crates/at_shield_windows`), the engine inside the UI process
(`crates/at_shield_ffi`) and the session state of the UI (`apps/at_shield/lib`),
checks them with TLC on small instances, and proves their safety properties with
TLAPS for all sizes.

Paths below are relative to the repository root; line numbers are those of the
modelled commit. `PROJECT.json` maps every definition to the lines it stands for.

## 1. Inventory

### The parts

| Part | Source | State it keeps | Operations |
|---|---|---|---|
| Session engine | `at_shield_core/src/engine.rs` | `session`, `active`, `pending_summary`, `ui_heartbeat`, `ui_pid`, each behind its own mutex | one `Command` per request: start, restore, end, get, pop summary, health, edits of profiles and sites, history |
| UI watchdog | `engine.rs` 138-235 | none of its own | every 0.25-1 s: is the UI gone? then park the session, or purge leftovers |
| Warm-up | `engine.rs` 248-266 | none of its own | once per start of the service: migrate domains, promote the live checkpoint of a killed service, clear the network |
| Store | `store.rs` | SQLite: profiles, sites, settings (`interrupted_session`, `live_session_checkpoint`), history | one SQL statement per call, a connection per call |
| Network filter | `filter.rs`; Windows: `lib.rs`, `wfp.rs`, `hosts.rs` | rules applied, claims and reference counts of addresses, WFP filters, hosts file, `armed` | apply, remove, clear_all; nuke and uninstall from other processes |
| Page server | `page_server.rs` | routes, hit counters, TLS configuration; certificate, key and stamp files; the Root store | set/clear routes, serve pages, count hits, drain, refresh the certificate, uninstall |
| Service | `service/src/main.rs`, `pipe.rs` | the process, its threads | start, stop, one thread per connection |
| FFI | `ffi/src/lib.rs` | `ENGINE` | the engine inside the UI process, requests serialised |
| UI | `apps/at_shield/lib/engine` | `ShieldState` of the cubit | pulls every second, health every two, commands with an 8 s time-out, quit |

### How they interact

The UI opens one TCP connection per call, so two calls are two threads of the
service. A handler takes and releases the mutexes of the engine one at a time and
makes its SQL and filter calls between them; the watchdog and the warm-up do the
same beside it. Nothing spans a handler. The filter has a lock of its own that
does span each of its calls. The database and the hosts file survive the service;
WFP filters are in a dynamic session and die with it.

### What is hard, and what makes each part right

* **Engine.** Handlers, watchdog and warm-up interleave at every lock, statement
  and filter call. Right: no rule stays on the machine without somebody who will
  remove it; a session is ended by one thread and recorded once; a live session is
  enforced in full and can be recovered after a crash.
* **Watchdog.** Decides on state that changes while it acts. Right: a session whose
  UI died ends, and the machine is unblocked.
* **Warm-up and recovery.** The service may be killed at any step. Right: what a
  killed service left behind is cleared, and a stale checkpoint never revives a
  session that ended.
* **Windows filter.** Domains share addresses; system calls fail one by one; other
  processes purge. Right: counts match claims, claimed addresses stay blocked, a
  domain is enforced in one mode only.
* **Session clock.** Whole seconds counted since the last look. Right: a timer never
  runs fast, lags no more than rounding explains, and a UI that polls in time is never
  taken for gone.
* **Store and rules.** Multi-statement edits, a seeding and a migration, without
  transactions. Right: no duplicate rules, aliases in step, no rule of a profile that
  is gone, the built-in profiles always there.
* **Hosts file.** Truncate, then write, by several processes. Right: lines that are
  not ours survive, and a block of ours has an engine that will remove it.
* **Page server.** Hits counted beside reset and drain, certificates rebuilt from
  the routes. Right: each hit in the session it belongs to; the certificate covers
  the routes.
* **UI.** Answers of overlapping calls applied in any order. Right: it shows the
  service's session in the end, and each summary once.

The hazards of each part are listed, at their lines, in `PROJECT.json`.

## 2. Modules

| Module | What it is |
|---|---|
| `Engine` | the session engine with its threads, the watchdog, the warm-up, the processes and the disk |
| `EngineFocus` | the refinement mapping from `Engine` to `FocusSession` |
| `FocusSession` | the abstract specification: what the engine promises about sessions, each request in one step |
| `SessionClock` | sessions in real time: the clock, the polls and the heartbeat; a refinement of `FocusSession` |
| `RuleStore`, `Domains` | profiles and sites in the database, their edits, seeding and migration; `normalize_domain` |
| `WindowsFilter` | the Windows filter: WFP claims and counts, hosts file, routes, failures, other processes |
| `PageServer` | routes, certificates and visits of the local page server |
| `Machine` | the engines of one machine and the hosts file they share, line by line |
| `UiCubit` | the session state of the UI, its calls, and the service as the UI sees it |
| `MCEngine`, `MCSessionClock`, `MCRuleStore`, `MCPageServer`, `MCMachine`, `MCUiCubit` | instances for TLC |
| `EngineProofs` | theorems and proofs of `Engine`, with every overlap |
| `SerialProofs` | theorems and proofs of `Engine` where requests do not overlap, or come on one connection, and of its refinement of `FocusSession` |
| `SessionClockProofs` | theorems and proofs of `FocusSession` and `SessionClock` |
| `RuleStoreProofs` | theorems and proofs of `Domains` and `RuleStore` |
| `WindowsFilterProofs`, `PageServerProofs`, `MachineProofs`, `UiCubitProofs` | theorems and proofs of these modules |

`Engine` and `SessionClock` both implement `FocusSession`: the first shows it of the
interleavings, with a clock that is a number, the second of the clock, with requests
that take no time.

### Engine

One step takes one lock, runs one SQL statement or makes one filter call, so every
interleaving of the code's threads is one of the model's. `pc[t]` says where thread
`t` is; `frame[t]` holds the locals that survive a step: the command, the session
taken or built, the rules listed, the rules still to apply. A connection in the model
is a connection of the code with one request in progress; `Request` starts a handler.

| Code | Actions |
|---|---|
| `StartSession` (593-626) | `CheckSession`, `ClearInterrupted`, `ListSites`, `ClearBeforeApply`, `ApplyOne`*, `SetActive`, `ForgetSummary`, `TouchUi`, `SetLiveCheckpoint`, `Install`, `Snapshot` |
| `RestoreInterruptedSession` (655-685) | `CheckSession`, `GetInterrupted`, `ListSites` ... `Install`, `Unpark`, `Snapshot` |
| `EndSession` (627-633) | `ClearInterrupted`, `TakeSession`, `ClearLiveCheckpoint`, `ClearNetwork`, `ClearActive`, `Record`, `Publish`, `Pop` |
| `GetSession` (634-637), timer | `TouchUi`, `Snapshot`, and `TakeSession` ... `Publish` when time is up |
| `Health` (471-490), `UiHeartbeat` | `NoteUiPid`, `TouchUi` |
| `ClearSessionHistory` | `ClearHistory` |
| `SetEnabled` (549-563) | `RejectIfSession`, `SetEnabled` |
| `reap_if_ui_gone`, `park_session_for_restore` (166-235) | `WatchPid`, `WatchBeat`, `SeeSession`, `SeeActive`, `SeeArmed`, `Park`, `ClearNetwork`, `ClearActive`, `ForgetPid`, `ForgetBeat`, `DropSummary`, `DropCheckpoint`, `SetInterrupted` |
| `warm_protection` (248-266) | `WarmCheck`, `ReadCheckpoint`, `DeleteCheckpoint`, `SetInterrupted`, `ClearNetwork`, `ClearActive` |
| the processes | `UiLaunch`, `UiExit`, `HeartbeatLapses`, `ServiceEnds`, `ServiceStarts` |

`ServiceEnds` is a stop and a kill alike: the watchdog thread holds an
`Arc<Engine>` for ever, so `Engine::drop` does not run in the service.

Abstractions: the remaining time is a number that a look at the clock lowers by any
amount (`SessionClock` says by how much); an alias row is part of its rule
(`RuleStore` has the rows); the filter is the set of rules it tracks, the entries of
the hosts file and `armed` (`WindowsFilter` has the rest). `lives` numbers the
`LiveSession` values built, so that properties can tell two sessions apart.

`Overlap` says whether a thread may begin while another is in progress (`MayBegin`).
The code always lets it; `Overlap = FALSE` marks the boundary between what a
well-behaved UI sees and what it does not (see "Runs").

### SessionClock

`EXTENDS FocusSession` and conjoins time to its actions. `age` counts ticks since
`tick_at`, `silent` ticks since the last `touch_ui`; a tick is 1/`Unit` s. `Poll` is
`refresh_session_clock`: it takes the whole seconds off (`Elapsed`) and moves
`tick_at` whatever it counted. `ParkByHeartbeat` is the watchdog's reap, `Recover` a
kill with the warm-up after it, which offers the checkpoint of the last refresh. The
history variables `asked`, `ran`, `refreshes` and `unsaved` measure the timer from
outside.

### RuleStore and Domains

A step is one SQL statement with the decision on its result. `Seed` (the start, on
the thread `main`) and `Migrate` (`migrate_bad_domains`, on the warm-up thread) run
beside the requests of `Client`. `UpsertRow` fails on the foreign key. `ServiceEnds`
strikes at any statement. `overlapped` remembers that a request ran beside another
thread's writes: some properties hold only while it is false.

A domain is the sequence of the parts it is typed in, and `Norm` does to the parts
what `normalize_domain` does to the string, one pass in the same order; so
`www.www.x.com` keeps one `www.`, as in the code.

### WindowsFilter

The lock `inner` is held over a whole call, so `ApplyBlock`, `ApplyPage`, `Remove`
and `ClearAll` are one step each. Their effect on WFP is `Claim`, `Unclaim` and
`Purge`: any subset of additions and deletions may fail. `held` are addresses whose
filter is in WFP under the id that `ip_filters` records, `orphans` those with a
filter of ours that nothing records (a deletion failed and its result was dropped).
`Open`, `Killed`, `Dropped` and `Nuke` are the processes. A domain may resolve to
any set of addresses, anew at each apply. `intruded` and `synced` are history
variables: they say since when the machine may differ from the books.

### PageServer

The engine's calls come in the order of a session's start, end or park
(`StartSession`, `EndSession`, `ParkSession` queue them in `calls`), one step of a
call at a time. `refresh_tls` is `ReadNames`, `CheckStamp`, `WriteCer`, `WriteKey`,
`WriteStamp`, `Trust`, `Load`; any write may fail, and `Ends` cuts it anywhere. Each
listener serves one connection: `Accept`, `LookUp` (routes), `Count` (hits). The
engine's side of the interface is that of `WindowsFilter`: under one lock.

### Machine

Instances are service runs by the manager (`Scm`) and from a console, engines of
the UI process (`Ffi`) and runs of `--nuke`. `todo[i]` says which rewrites an
instance has still to make, and `Read`, `Truncate`, `Write` are the rewrite of
`hosts.rs`. Its loop, which carries a flag from line to line, is modelled by what it
computes: `Outside` are the lines that stand in no block, `Kept` those lines in their
order. `MCMachine` checks that this is what the loop does (`StripIsTheLoop`), on every
file of up to five lines. `Die` cuts what it was writing (`CutOff`). `port` is the exclusive bind
of the IPC, `slot` is `ENGINE` of the FFI. `raced`, `torn` and `died` record that two
rewrites overlapped, that one was cut off, and that a process died since the last
write that completed.

### UiCubit

Between two awaits a method of the cubit is one step. `Tick`, `Pulled`, `Popped` are
a pull; `UserStarts` ... `Refreshed` the user's methods, one at a time, as the dialogs
make them. `Serve` is the service, in the steps that the UI can tell apart: the
answer, and for an end the publication of the summary and its pop. `TimesOut` gives
up on a call, which the service goes on with (`Lost`).

## 3. Runs

| Run | Instance | Shows |
|---|---|---|
| `engine_solo` | service from its start, one connection, watchdog, warm-up, one restart, 2 sessions, all overlapping | no rule, hosts entry or checkpoint without an owner; every session ended by one thread, none overwritten |
| `engine_serial` | no overlaps, every command (the clearing of the history too), 2 profiles, hosts file that may fail, a stop at any step, 3 sessions, 2 UIs | a live session is enforced in full, checkpointed, its rules frozen, recorded once; the engine implements `FocusSession` |
| `engine_live` | one connection, one restart, fairness | a session without UI is reaped; leftovers are cleared |
| `filter` | 3 domains, 2 addresses, all failures, intruders | counts match claims, claimed is blocked, one mode per domain, pinned is answered |
| `session_clock` | 3 ticks to the second, polls 0 to 4 ticks apart, one kill | no timer runs fast, its lag is bounded, a UI that polls keeps its session; `FocusSession` is implemented |
| `rule_store` | 3 old databases, all edits, 2 requests, one stop at any statement | no orphan, built-in profiles served, one row per domain, normal domains, the warm-up goes on, aliases together |
| `page_server` | 2 domains, 2 sessions, visits on both ports, failing writes, one end | the certificate in use covers the routes and is trusted; a hit is counted for its session |
| `ui_cubit` | 1 session, 2 pulls, the user's methods, one time-out or restart | no stale session stays on screen, a shown one ends in time, its summary is shown |
| `machine` | one of each kind of instance, 2 lines of the user, kills anywhere | the user's lines are kept; no block of ours without an engine that answers for it |

Three runs end in a violation: they check what a test or the README of the
repository says and the code does not do. Each is a finding in `PROJECT.json`.

| Run | Says | What happens |
|---|---|---|
| `start_twice` | a start during a session is rejected (`engine.rs` 869) | two overlapping starts both pass the check at 597; the second overwrites the first session at 624 |
| `never_reaped` | the watchdog removes all blocks when the UI dies (`README.md` 76) | a reap that ends after a start's `touch_ui` forgets the pid and heartbeat of the new session: `ui_is_gone` is false for ever |
| `session_forgotten` | when the timer completes, the rules are dropped (`README.md` 71) | a late answer about the session before takes the next one from the screen: no pull looks at its clock, and the health poll keeps the watchdog away |

Seen while modelling, with no run of their own:

* Engine. Nothing drops the engine in the service, so closing it leaves the hosts file
  to the next start (`engine.rs` 271 says otherwise). The warm-up's last
  `clear_network` may fall after a start and disarm it. An edit admitted before a
  start lands after it (287). The warm-up parks its checkpoint after a start cleared
  the offer (257).
* Filter. `network_armed` is false with entries in the hosts file after a failed clear
  (`windows/lib.rs` 209-212) and true for a domain that resolves to nothing (150,
  `wfp.rs` 137-156).
* Clock. A poll a moment before the second is full counts nothing and moves `tick_at`:
  a UI that polls a little more often than each second may see its timer stand still.
  `LagIsBounded` says how much that costs.
* Page server. Certificates are not removed when a session ends (`README.md` 56, 74
  and 121 speak of removal): each change of the routes adds one to the Root store, and
  the uninstaller removes only that of the last file.
* UI. The summary of an `EndSession` may be popped by a pull in flight; a refresh
  whose `get_session` ends the session never pops its summary; `pending_summary` is one
  slot; a start that is installed after its call timed out is on screen only at the
  next refresh, as is the offer to restore.
* Machine. A console run whose port is taken exits with its warm-up thread in the
  middle of a rewrite. A block that was cut off before its end marker swallows the
  lines that come after it. The warm-up of a second instance clears the block of the
  first's session. A service whose bind failed runs on with no IPC.
* Rules. A toggle writes back the whole row it had read, and revives one deleted
  meanwhile. `normalize_domain` is not idempotent. A stop between the two statements
  of a toggle leaves a domain and its aliases apart.

### Properties that need one request at a time

`RecordedOnce`, `LiveIsEnforced`, `LiveIsCheckpointed`, `RulesFrozen` and the
refinement hold when requests, reaps and warm-ups do not overlap (`Overlap = FALSE`)
and fail when they do: the checks of `session` and the actions that follow are not
under one lock. Their theorems have `~ Overlap` as a hypothesis. `RulesHaveOwner`,
`HostsHaveOwner`, `CheckpointHasOwner` and `EndedByOne` hold, and are proved, with
every overlap. `NeverReplaced` holds, and is proved, with one connection beside
watchdog and warm-up, and fails with two (`start_twice`).
`UniqueDomains`, `StoredNormal`, `WarmUpGoesOn` and `AliasesFollow` except requests
that overlapped; `NoOrphans` and `BuiltinsServed` do not. `UserLinesKept` and
`EntriesHaveOwner` end at the first overlap of two rewrites: nothing in the code keeps
two processes apart, and past that point either's edits may be lost.

### Bounds

* `MaxLive` sessions: 2 reach start after end, start beside start and park then
  restore; 3 add a restored session parked again. `engine_live` has 1: a session
  left behind is the last one.
* `MaxLaunch` UIs: 1 for death of the UI, 2 for a new pid after a dead one.
* `MaxStops` ends of the service: 1 reaches a crash at every step and the recovery
  after it; a crash of the recovery is covered by the theorems, for `RuleStore` also by
  the crash of the first seeding.
* `Duration` 1 or 2: with time left, or none; 2 also a checkpoint older than the clock.
* 3 domains on 2 addresses: an address shared by three, two or one, and two
  addresses of one domain.
* `session_clock`: `Unit` 3 distinguishes polls early, on time and late in a second;
  `MaxGap` 4 is more than a second and less than `Timeout` 2 s; `Duration` 0 and 2, the
  ticks a session is live `MaxRan` 9 (three seconds), 3 refreshes: a session can be
  lowered, parked, restored and run out. The theorems have no bounds on these.
* `rule_store`: `MaxRow` 5 rows hold an old database and its seeds; 2 requests are one
  beside the migration and one after it, or two that follow each other; one `Client`,
  since two requests at once are excepted where it matters. The old databases are an
  empty one, one with domains that need normalising, and one with a stale profile. What
  two of the theorems ask of old databases (`OldUnique`, `OldNormal`) holds of these:
  `MCRuleStore` has it as an `ASSUME` (`OldDatabasesFit`).
* `page_server`: 6 certificates are all that 2 sessions on 2 domains make with a
  restart; one visit while it is counted beside a reset or a drain.
* `machine`: one instance of each kind meets every other; 2 lines are one before and
  one after a block. User lines are symmetric.
* `ui_cubit`: 2 pulls are one whose answer is late and one that is prompt; the second
  session is in `session_forgotten`.
* Deadlock is checked in `WindowsFilter`. In the other modules the system rests when
  the bounds are used up.

### Fairness

`FairSpec` of `Engine` assumes weak fairness of each request in progress, of the
watchdog and of the warm-up: they are threads of a running process that wait only for
locks held over single statements. A heartbeat lapses if no UI runs, because time
passes. Nothing obliges the UI to send, the user to act or the service to restart.
`Reaped` asks that the watchdog still has a pid or a heartbeat to judge by: without
that it is false (`never_reaped`).

`FairSpec` of `UiCubit` assumes that the service serves what it was sent, that the
isolate handles what was answered, that its timer ticks, and that the time of a live
session runs out. The user does nothing he need not do.

### Mutants

Every property of a passing run has a mutant in its module (marked `Mutant:`), a
plausible slip of the code that breaks the property under the run's own
configuration: a forgotten `clear_network`, a copied instead of taken session, a
filter deleted while still shared, aliases flipped the wrong way, certificate files
reused whatever they cover, a hosts block added to the old one, a late answer taken
without asking, and so on.

## 4. Theorems

| Theorem | Module | Statement |
|---|---|---|
| `TypeCorrect` | `EngineProofs` | `Spec => []TypeOK` of `Engine` |
| `RulesOwned` | `EngineProofs` | `Spec => []RulesHaveOwner` |
| `HostsOwned` | `EngineProofs` | `~HostsMayFail` implies `Spec => []HostsHaveOwner` |
| `CheckpointOwned` | `EngineProofs` | `Spec => []CheckpointHasOwner` |
| `OneEnds` | `EngineProofs` | `Spec => []EndedByOne` |
| `EachRecordedOnce` | `SerialProofs` | `~ Overlap` implies `Spec => []RecordedOnce` |
| `LiveEnforced` | `SerialProofs` | `~ Overlap` implies `Spec => []LiveIsEnforced` |
| `LiveCheckpointed` | `SerialProofs` | `~ Overlap` implies `Spec => []LiveIsCheckpointed` |
| `RulesStayFrozen` | `SerialProofs` | `~ Overlap` implies `Spec => RulesFrozen` |
| `EngineImplementsFocus` | `SerialProofs` | `~ Overlap` implies `Spec => ImplementsFocusSession` |
| `OneConnectionNeverReplaces` | `SerialProofs` | one `Client` implies `Spec => NeverReplaced`, with every overlap |
| `NeverInTwoPlaces` | `SessionClockProofs` | `Spec => []InOnePlace` of `FocusSession` |
| `ClockTyped` | `SessionClockProofs` | `TimedSpec => []ClockOK` |
| `NoEarlyEnd` | `SessionClockProofs` | `TimedSpec => NeverEndsEarly` |
| `LagBounded` | `SessionClockProofs` | `TimedSpec => []LagIsBounded` |
| `TimedRefines` | `SessionClockProofs` | `TimedSpec => RefinesFocusSession` |
| `PollingIsSafe` | `SessionClockProofs` | `TimedSpec => BeatingIsSafe` |
| `RefsAreClaims` | `WindowsFilterProofs` | `Spec => []RefsMatchClaims` of `WindowsFilter` |
| `BlockedWhileClaimed` | `WindowsFilterProofs` | `Spec => []ClaimedIsBlocked` |
| `FilterTyped` | `WindowsFilterProofs` | `Spec => []TypeOK` |
| `OneModeEach` | `WindowsFilterProofs` | `Spec => []OneMode` |
| `PinsAreAnswered` | `WindowsFilterProofs` | `Spec => []PinnedIsAnswered` |
| `NormClean` | `RuleStoreProofs` | what `Norm` of `Domains` returns has no path, query, fragment or user, and no dot at its end |
| `RulesTyped` | `RuleStoreProofs` | `Spec => []TypeOK` of `RuleStore` |
| `NeverOrphaned` | `RuleStoreProofs` | `Spec => []NoOrphans` |
| `BuiltinsAlwaysServed` | `RuleStoreProofs` | `Spec => []BuiltinsServed` |
| `MigrationGoesOn` | `RuleStoreProofs` | `Spec => []WarmUpGoesOn` |
| `OneRowPerDomain` | `RuleStoreProofs` | `OldUnique` implies `Spec => []UniqueDomains` |
| `MigratedIsNormal` | `RuleStoreProofs` | `OldNormal` implies `Spec => []StoredNormal` |
| `EditsAliasesToo` | `RuleStoreProofs` | `OldUnique` implies `Spec => AliasesFollow` |
| `PagesTyped` | `PageServerProofs` | `Spec => []TypeOK` of `PageServer` |
| `RoutesCovered` | `PageServerProofs` | `Spec => []CertCoversRoutes` |
| `HitsCharged` | `PageServerProofs` | `Spec => []HitsOfTheirSession` |
| `MachineTyped` | `MachineProofs` | `Spec => []TypeOK` of `Machine` |
| `LinesKept` | `MachineProofs` | `Spec => []UserLinesKept` |
| `EntriesOwned` | `MachineProofs` | `Spec => []EntriesHaveOwner` |
| `CubitTyped` | `UiCubitProofs` | `Spec => []TypeOK` of `UiCubit` |

Every safety property that a passing run checks is one of these.

They hold for any sets of connections, profiles, rules, commands, addresses, listeners,
pulls, instances and lines, any bounds, units and time-outs, and any set of domains
(for `WindowsFilter` a finite one). The assumptions are the named `ASSUME`s of each
module: types of the constants, thread names distinct, `None` and `Error` no values,
polls within the time-out, `localhost` no domain of a rule (`UpsertSite` takes only
names with a dot), the markers of the hosts file no lines of the user. Where a theorem
needs more, its statement says so and the table too.

**Engine.** `TypeOK` is not inductive: `SetLiveCheckpoint` stores `frame[c].mine`,
which is a session only because of where `c` is. `TypeInv` adds `AllPrepared`: for
each label, what the frame of a thread there holds (`Fits`). For the ownership of
rules, `OwnersInv` adds `DownIsClear`: while the service is down no rule is tracked,
and no thread is at a step. Then each step either keeps its owner, hands it on
(`Install` gives the rules to the session, `TakeSession` and `Park` to the thread
that will clear), or clears. The proof has one step per action. The argument for the
hosts file is the same with one more owner, the warm-up of the next start; it needs
writes that succeed, since a failed clear leaves entries with nobody to remove them.

**Sessions.** A checkpoint is owned by the session in the slot, by a thread that is
about to install it or to delete it, or by the next warm-up. `EmptyHanded` is the
strengthening: the watchdog holds no session before it parks one, so that the one it
holds later came from the slot. For `EndedByOne`, `IdsInv` says that the session in
the slot, those that threads hold and those in the history have ids that are pairwise
distinct and at most `lives`: `TakeSession` moves an id from the slot to one thread,
`Record` from that thread to the history, and a new session takes a fresh one.

**One request at a time.** `SerialInv` is what `~ Overlap` makes of the engine. `Alone`:
at most one thread is at work, so what it has seen stays true until it is done.
`SlotInv`: a thread that saw an empty slot, or emptied it, acts on an empty slot.
`HandsInv`: what the locals hold beyond `Fits`; a thread that is not in the middle of a
start, restore, end or park holds no session, else a name could be recorded by two.
`OfferInv`: while a session is live nothing is on offer, but for a restore between
`Install` and `Unpark`, and a restore installs what is on offer; without it a session
could be parked over another, or restored twice. `NamesInv`: a session in the slot, on
offer, in the checkpoint or in a hand has a name that no session in the history has,
which is `RecordedOnce` made inductive: the checkpoint counts, because the next warm-up
puts it on offer. `NetInv` follows the rules of a start from the list through
`ClearBeforeApply` and each `ApplyOne` to `Enforced`. `CheckpointInv` ties the
checkpoint to the session, except while a session out of time is being ended.
`FirstWarmUp`: before the first stop there is no checkpoint to promote, which the
refinement needs, since it holds until the service stops. Each conjunct has a
lemma per group of actions. For the refinement, `Install` is a `Start` or a `Restore`, `TakeSession`
an `End`, `Park` a `Park`, `ClearInterrupted` a `Discard`, a `Snapshot` that looks at the
clock a `Tick`, `ClearHistory` itself; `Unseen` says of every other step that it is a
stutter: what leaves the slot early and reaches history or offer late is in the abstract
history or offer in between (`Owed`, `Offered`).

**One connection.** `SeenEmpty`: a connection about to install a session has seen an
empty slot. It needs no `Alone`: watchdog and warm-up never install, so nothing they do
between the check and the install can fill it.

**SessionClock.** `TimedInv` has `ClockOK` and two facts about the history: while a
session is live there is no offer and `Fair(live, age)` holds, while one is on offer
`Fair(offer, 0)` does. `Fair` bounds the time taken off a session from above by the
time it ran and from below by that less rounding and kills. `WholeUnits` is the
division, `RefreshIsFair` the step of a refresh. The refinement needs from it that
the step of a park or kill is the abstract one. `BeatingIsSafe` needs `Beats` besides: a
UI that runs beside a live session has refreshed it within `MaxGap`, which `PollsBeat`
puts within the time-out; and `InOnePlace`, for which an end adds to the history, so
that it can be told from a park.

**WindowsFilter.** `BooksInv` types the claims and counts and says that each count is
the number of claimants. `DropClaims` and `AddClaims` do the arithmetic of one
domain leaving or joining (`FS_RemoveElement`, `FS_AddElement`); `LastClaim` says that
a count of 1 means the releasing domain is the only claimant, so its filter is the
one to delete. `ClaimedIsBlocked` follows from the same facts. `ModesInv` adds what the
modes rest on: without WFP nothing is claimed, without a process nothing is applied or
served, and while `synced` the hosts file holds the page domains applied. `EngineCall`
shows that each of the four calls keeps it, `ProcessModes` the same of the processes.

**Rules.** `RulesInv` says for each label what the locals of a thread there are (`Fit`)
and that ids it knows were given out (`Known`): a thread that is about to delete a
profile holds none of the built-in ones, because `CheckProfiles` refused them, and one
that writes a profile holds none of the stale ones. `Phases` keeps requests and
migration out until the seeding is over, `SeedingSoFar` says what the seeding has behind
it at each statement; from the two, `BuiltinsServed` holds when the service comes up,
and `Fit` keeps it. For `NoOrphans`, `UpsertRow` fails without the profile,
`DeleteProfile` fails if a row came in between the two deletions, and during the seeding
nobody else can write one. The other properties except overlapping requests.
`SerialRules` has for them: `Alone`, one thread at work; `InHand`, the rows it has
listed are still in the table, so a rename never finds its row or its profile gone;
`OneRow`, no domain twice, and the row about to be written clashes with none (`Fresh`:
the look-up of an edit, or the test of the migration, has just said so); `Tidy`, how far
the migration has come (`Cleaned`: what it has not yet to do is normal). `UniqueDomains`
and `AliasesFollow` are proved of old databases that have one row per domain
(`OldUnique`), since the table has no key that forbids two, and `StoredNormal` of old
databases and seeds whose domains are such as may be typed (`OldNormal`); `WarmUpGoesOn`
of all. Assumed of an old
database are unique ids not above the number of its rows, and sites that have a profile
(`LegacyType`); of the inputs, that the commands are those of the code
(`CommandsType`).

**FocusSession.** `InOnePlace` with `TypeOK` and the freshness of names is inductive.

**Domains.** `Before`, `AfterLast` and `TrimDots` choose a length; that there is one to
choose, by the well-ordering of the naturals, is what makes `NormClean` follow.

**PageServer.** For the certificates, `CertInv`. `Quiet`: until its first refresh has
gone well the server routes nothing, so the handshakes it answers are for no rule.
`Matching` says at each step of `refresh_tls` which of certificate, key and stamp belong
together. The hard part is the end of the process between two of the writes: it leaves
a new certificate with an old key under an old stamp. They are reused only if the stamp
has the names now wanted; the first refresh after a start is for `localhost`, which is
no domain of a rule, so either the stamp is that, and the mixed files serve no route,
or all three are written anew. For the hits, `HitsInv`. `Scripted`: a reset or a drain
is the last call of a start or an end. `Once`: a visit has an id of its own until it is
counted, and is counted once. `Charged`: after the reset of a session, what is counted or
about to be was looked up in this session, or was open at its start; before the reset
anything may be, which is why the reset must come.

**Machine.** `Control` types the instances. `File`, while no rewrites overlap: one
writer at most (`OneWriter`); one block at most, in order, which may be cut off
(`Shaped`), in the file and in what a rewrite is about to write, there only if it
starts a session; and while none was cut off, every block ends (`Whole`) and the user's
lines are those of `users`. `Owned`: a block has somebody who will remove it. What
`hosts::rewrite` does to such a file is `RewrittenFits`. It rests on facts about `Kept`,
a recursive function: that it exists (`KeptCounts`), that it commutes with the choice of
the user's lines (`OfUserKept`). They are inductions on the length, made with `UpTo`,
which follows from the well-ordering of the naturals and has a set, no operator, for its
parameter.

**UiCubit.** `CallInv`: a method awaits a call exactly while it is not idle, what the
service works on is never an error, and a call whose caller has given up (`Lost`) is in
the service's hands until it is served.

Only model-checked: `Reaped`, `LeftoversGo`, `StaleGoes`, `ShownSessionEnds` and
`TimerSummaryShown`, which are liveness under fairness, outside the prover's reach; and
that the closed form of the loop of `hosts::rewrite` is the loop (`StripIsTheLoop`),
checked on all files of up to five lines.

## 5. What is not modelled, and the plan

Not modelled on purpose: the crash log, preferences and widgets of the UI, the native
window host, stubs of other platforms, installer, static pages. Left out of modelled
parts: the framing of the IPC protocol, the preview of the page server and the HTTP it
speaks, the lists of profiles and sites in the UI, IPv6 (which the code does not
block). `PROJECT.json` gives the reason for each.

What is left, in this order:

1. `Engine` over `WindowsFilter` instead of the coarse filter, and `WindowsFilter` over
   the lines of `Machine`.
2. Restore of a session whose profile was deleted meanwhile: `Engine` with the rows of
   `RuleStore`.
