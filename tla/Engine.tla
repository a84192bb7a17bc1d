------------------------------- MODULE Engine -------------------------------
(***************************************************************************)
(* The session engine of crates/at_shield_core/src/engine.rs as the        *)
(* service runs it: one thread per request (a UI connection serves one     *)
(* call), the UI watchdog thread, and the warm-up thread of a fresh start. *)
(* No lock spans a handler: a step below takes one lock, runs one SQL      *)
(* statement, or makes one call of the network filter, and any other       *)
(* thread may run between two steps.                                       *)
(*                                                                         *)
(* The disk (settings, history, rules, hosts file) survives the service;   *)
(* everything else is lost when the process ends.                          *)
(*                                                                         *)
(* Abstractions.  A site rule is a member of Site; its alias rows (x.com,  *)
(* twitter.com) are part of it.  The remaining time of a session is a      *)
(* number that a clock refresh lowers by any amount.  The                  *)
(* `id' of a LiveSession numbers the LiveSession objects ever built; the   *)
(* code has no such field, it tells a restored session from the original.  *)
(* `started' is started_at.  Hit counters and redirect modes are left out. *)
(***************************************************************************)
EXTENDS Naturals, FiniteSets

CONSTANTS
  Client,        \* connections the UI may have open at once
  Profile,       \* profiles
  Site,          \* site rules (rows of the sites table)
  Owner,         \* Owner[s] is the profile_id of rule s
  Duration,      \* values of duration_secs a start may ask for
  Commands,      \* the commands the UI sends in this instance
  Watched,       \* spawn_ui_watchdog was called (the service, not the FFI)
  HostsMayFail,  \* writing the hosts file may fail (no Admin, file in use)
  Overlap,       \* threads may leave idle while others are in progress
  None,          \* Option::None
  MaxLive,       \* bound: no start or restore is sent once so many were built
  MaxLaunch,     \* bound on launches of the UI process
  MaxStops       \* bound on ends of the service process

Watchdog == "watchdog"
Warm     == "warm"
Thread   == Client \cup {Watchdog, Warm}

AllCommands ==
  {"StartSession", "EndSession", "GetSession", "PopSessionSummary", "Health",
   "RestoreInterruptedSession", "DiscardInterruptedSession", "SetEnabled", "UiHeartbeat",
   "ClearSessionHistory"}

\* LiveSession, and the InterruptedSession made of it: the part that matters.
LiveSession == [id : Nat, started : Nat, profile : Profile, left : Nat]

ASSUME ThreadsDistinct == Watchdog \notin Client /\ Warm \notin Client
ASSUME OwnerType       == Owner \in [Site -> Profile]
ASSUME DurationType    == Duration \subseteq Nat
ASSUME CommandsType    == Commands \subseteq AllCommands
ASSUME FlagsType       == {Watched, HostsMayFail, Overlap} \subseteq BOOLEAN
ASSUME NoneType        == None \notin LiveSession
ASSUME BoundsType      == MaxLive \in Nat /\ MaxLaunch \in Nat /\ MaxStops \in Nat

VARIABLES
  \* struct Engine
  session, active, pending_summary, ui_heartbeat, ui_pid,
  \* the filter: rules it tracks, whether it believes they are on the machine
  applied, armed,
  \* the disk
  interrupted, checkpoint, history, enabled, hosts,
  \* threads of the service: where each is, and its local variables
  pc, frame,
  \* the processes: service up or not, pid of the running UI (0: none)
  service, running,
  \* counters that the bounds cap
  lives, launches, stops

disk    == <<interrupted, checkpoint, history, enabled>>
net     == <<applied, armed, hosts, active>>
ui      == <<ui_heartbeat, ui_pid>>
world   == <<service, running, launches, stops>>
data    == <<session, pending_summary, lives, disk, net, ui, world>>
vars    == <<data, pc, frame>>

Frame == [cmd   : Commands \cup {"none"},
          mine  : LiveSession \cup {None},
          rules : SUBSET Site,
          todo  : SUBSET Site,
          ui    : Nat]

EmptyFrame == [cmd |-> "none", mine |-> None, rules |-> {}, todo |-> {}, ui |-> 0]

RulesOf(p) == {s \in enabled : Owner[s] = p}

-----------------------------------------------------------------------------
(* Control of a thread *)

At(t, label) == pc[t] = label /\ service = "up"

Goto(t, label) == pc' = [pc EXCEPT ![t] = label] /\ UNCHANGED frame

GotoWith(t, label, f) ==
  /\ pc' = [pc EXCEPT ![t] = label]
  /\ frame' = [frame EXCEPT ![t] = f]

Return(t) == GotoWith(t, "idle", EmptyFrame)

\* The code has no lock that makes t wait.  Without Overlap the instance is one
\* client that waits for its answers and a watchdog and a warm-up between them.
MayBegin(t) == Overlap \/ \A u \in Thread \ {t} : pc[u] = "idle"

Arms(t) == frame[t].cmd \in {"StartSession", "RestoreInterruptedSession"}

-----------------------------------------------------------------------------
(* The network filter, under its own lock (WindowsFilter.inner) *)

\* A write of the hosts file: done, or failed with the file as it was.
SyncHosts(entries, onSuccess) ==
  \/ hosts' = entries /\ armed' = onSuccess
  \/ HostsMayFail /\ hosts' = hosts /\ armed' = FALSE

ClearAll == applied' = {} /\ SyncHosts({}, FALSE)

Apply(s) == applied' = applied \cup {s} /\ SyncHosts(applied', TRUE)

-----------------------------------------------------------------------------
(* A request arrives *)

FirstStep(cmd) ==
  CASE cmd \in {"StartSession", "RestoreInterruptedSession"}        -> "check_session"
    [] cmd \in {"EndSession", "DiscardInterruptedSession"}          -> "clear_interrupted"
    [] cmd \in {"GetSession", "UiHeartbeat"}                        -> "touch_ui"
    [] cmd = "ClearSessionHistory"                                  -> "clear_history"
    [] cmd = "Health"                                               -> "note_ui_pid"
    [] cmd = "PopSessionSummary"                                    -> "pop"
    [] cmd = "SetEnabled"                                           -> "reject_if_session"

Targets(cmd) == IF cmd = "SetEnabled" THEN {{s} : s \in Site} ELSE {{}}

Request(c) ==
  /\ At(c, "idle") /\ running # 0 /\ MayBegin(c)
  /\ \E cmd \in Commands : \E target \in Targets(cmd) :
       /\ cmd \in {"StartSession", "RestoreInterruptedSession"} => lives < MaxLive
       /\ GotoWith(c, FirstStep(cmd),
            [EmptyFrame EXCEPT !.cmd = cmd, !.rules = target,
                               !.ui = IF cmd = "Health" THEN running ELSE 0])
  /\ UNCHANGED data

-----------------------------------------------------------------------------
(* Start and restore *)

\* Mutant: a start does not look for a live session.
CheckNothing(c) ==
  /\ At(c, "check_session")
  /\ UNCHANGED <<session, pending_summary, disk, net, ui, world>>
  /\ \/ /\ frame[c].cmd = "StartSession"
        /\ lives' = lives + 1
        /\ \E p \in Profile, d \in Duration :
             GotoWith(c, "clear_interrupted",
               [frame[c] EXCEPT !.mine = [id |-> lives', started |-> lives',
                                          profile |-> p, left |-> d]])
     \/ /\ frame[c].cmd = "RestoreInterruptedSession"
        /\ Goto(c, "get_interrupted") /\ UNCHANGED lives

\* `if self.session.lock().is_some()': the guard is dropped with the condition.
CheckSession(c) ==
  /\ At(c, "check_session")
  /\ UNCHANGED <<session, pending_summary, disk, net, ui, world>>
  /\ \/ session # None /\ Return(c) /\ UNCHANGED lives
     \/ /\ session = None /\ frame[c].cmd = "StartSession"
        /\ lives' = lives + 1
        /\ \E p \in Profile, d \in Duration :
             GotoWith(c, "clear_interrupted",
               [frame[c] EXCEPT !.mine = [id |-> lives', started |-> lives',
                                          profile |-> p, left |-> d]])
     \/ /\ session = None /\ frame[c].cmd = "RestoreInterruptedSession"
        /\ Goto(c, "get_interrupted") /\ UNCHANGED lives

\* The parked session is read here and deleted only after the install.  Parked
\* sessions always have time left, so `remaining_secs == 0' never holds.
GetInterrupted(c) ==
  /\ At(c, "get_interrupted")
  /\ UNCHANGED <<session, pending_summary, disk, net, ui, world>>
  /\ \/ interrupted = None /\ Return(c) /\ UNCHANGED lives
     \/ /\ interrupted # None
        /\ lives' = lives + 1
        /\ GotoWith(c, "list_sites",
             [frame[c] EXCEPT !.mine = [interrupted EXCEPT !.id = lives']])

ClearInterrupted(c) ==
  /\ At(c, "clear_interrupted")
  /\ interrupted' = None
  /\ UNCHANGED <<session, pending_summary, lives, checkpoint, history, enabled, net, ui, world>>
  /\ \/ frame[c].cmd = "StartSession" /\ Goto(c, "list_sites")
     \/ frame[c].cmd = "EndSession"   /\ Goto(c, "take_session")
     \/ frame[c].cmd = "DiscardInterruptedSession" /\ Return(c)

\* Mutant: the sites of every profile are listed.
ListAllSites(c) ==
  /\ At(c, "list_sites")
  /\ GotoWith(c, "clear_all", [frame[c] EXCEPT !.rules = enabled, !.todo = enabled])
  /\ UNCHANGED data

ListSites(c) ==
  /\ At(c, "list_sites")
  /\ LET rules == RulesOf(frame[c].mine.profile) IN
     GotoWith(c, "clear_all", [frame[c] EXCEPT !.rules = rules, !.todo = rules])
  /\ UNCHANGED data

ClearBeforeApply(c) ==
  /\ At(c, "clear_all")
  /\ ClearAll
  /\ Goto(c, "apply_batch")
  /\ UNCHANGED <<session, pending_summary, lives, active, disk, ui, world>>

ApplyOne(c) ==
  /\ At(c, "apply_batch")
  /\ \E s \in frame[c].todo :
       /\ Apply(s)
       /\ GotoWith(c, "apply_batch", [frame[c] EXCEPT !.todo = frame[c].todo \ {s}])
  /\ UNCHANGED <<session, pending_summary, lives, active, disk, ui, world>>

SetActive(c) ==
  /\ At(c, "apply_batch") /\ frame[c].todo = {}
  /\ active' = frame[c].rules
  /\ Goto(c, "forget_summary")
  /\ UNCHANGED <<session, pending_summary, lives, applied, armed, hosts, disk, ui, world>>

ForgetSummary(c) ==
  /\ At(c, "forget_summary")
  /\ pending_summary' = None
  /\ Goto(c, "touch_ui")
  /\ UNCHANGED <<session, lives, disk, net, ui, world>>

SetLiveCheckpoint(c) ==
  /\ At(c, "set_live_checkpoint")
  /\ checkpoint' = frame[c].mine
  /\ Goto(c, "install")
  /\ UNCHANGED <<session, pending_summary, lives, interrupted, history, enabled, net, ui, world>>

\* `*self.session.lock() = Some(live)': whatever is there is overwritten.
Install(c) ==
  /\ At(c, "install")
  /\ session' = frame[c].mine
  /\ IF frame[c].cmd = "RestoreInterruptedSession"
     THEN GotoWith(c, "unpark",   [EmptyFrame EXCEPT !.cmd = frame[c].cmd])
     ELSE GotoWith(c, "snapshot", [EmptyFrame EXCEPT !.cmd = frame[c].cmd])
  /\ UNCHANGED <<pending_summary, lives, disk, net, ui, world>>

\* Mutant: a restored session stays on offer.
KeepOffer(c) ==
  /\ At(c, "unpark")
  /\ Goto(c, "snapshot")
  /\ UNCHANGED data

Unpark(c) ==
  /\ At(c, "unpark")
  /\ interrupted' = None
  /\ Goto(c, "snapshot")
  /\ UNCHANGED <<session, pending_summary, lives, checkpoint, history, enabled, net, ui, world>>

-----------------------------------------------------------------------------
(* The other requests *)

NoteUiPid(c) ==
  /\ At(c, "note_ui_pid")
  /\ ui_pid' = frame[c].ui
  /\ Goto(c, "touch_ui")
  /\ UNCHANGED <<session, pending_summary, lives, disk, net, ui_heartbeat, world>>

TouchUi(c) ==
  /\ At(c, "touch_ui")
  /\ ui_heartbeat' = "fresh"
  /\ \/ Arms(c)                     /\ Goto(c, "set_live_checkpoint")
     \/ frame[c].cmd = "GetSession" /\ Goto(c, "snapshot")
     \/ frame[c].cmd \in {"Health", "UiHeartbeat"} /\ Return(c)
  /\ UNCHANGED <<session, pending_summary, lives, disk, net, ui_pid, world>>

\* Mutant: the clock is lowered without asking whether so much time is left.
RefreshedUnsaturated(sess) == {[sess EXCEPT !.left = @ - n] : n \in 0 .. sess.left + 1}

\* refresh_session_clock: some time has passed since the last tick.
Refreshed(sess) == {[sess EXCEPT !.left = n] : n \in 0 .. sess.left}

\* Mutant: a snapshot does not refresh the checkpoint.
SnapshotOnly(c) ==
  /\ At(c, "snapshot")
  /\ UNCHANGED <<pending_summary, lives, disk, net, ui, world>>
  /\ \/ session = None /\ Return(c) /\ UNCHANGED session
     \/ /\ session # None
        /\ session' \in Refreshed(session)
        /\ IF session'.left = 0 THEN Goto(c, "take_session") ELSE Return(c)

\* snapshot_session holds the session lock over the clock and the checkpoint;
\* it drops the lock before finish_session takes it again.
SnapshotAt(c, out) ==
  /\ At(c, "snapshot")
  /\ UNCHANGED <<pending_summary, lives, interrupted, history, enabled, net, ui, world>>
  /\ \/ session = None /\ Return(c) /\ UNCHANGED <<session, checkpoint>>
     \/ /\ session # None
        /\ session' \in Refreshed(session)
        /\ \/ session'.left <= out /\ Goto(c, "take_session") /\ UNCHANGED checkpoint
           \/ session'.left > out /\ checkpoint' = session' /\ Return(c)

\* Mutant: the timer ends a session one unit too early.
SnapshotEarly(c) == SnapshotAt(c, 1)

Snapshot(c) == SnapshotAt(c, 0)

Pop(c) ==
  /\ At(c, "pop")
  /\ pending_summary' = None
  /\ Return(c)
  /\ UNCHANGED <<session, lives, disk, net, ui, world>>

\* Mutant: sites may be edited at any time.
RejectNothing(c) ==
  /\ At(c, "reject_if_session")
  /\ Goto(c, "set_enabled")
  /\ UNCHANGED data

RejectIfSession(c) ==
  /\ At(c, "reject_if_session")
  /\ \/ session # None /\ Return(c)
     \/ session = None /\ Goto(c, "set_enabled")
  /\ UNCHANGED data

\* get_site and upsert_site: the row as the UI wants it, on or off.
SetEnabled(c) ==
  /\ At(c, "set_enabled")
  /\ enabled' \in {enabled \cup frame[c].rules, enabled \ frame[c].rules}
  /\ Return(c)
  /\ UNCHANGED <<session, pending_summary, lives, interrupted, checkpoint, history, net, ui, world>>

ClearHistory(c) ==
  /\ At(c, "clear_history")
  /\ history' = {}
  /\ Return(c)
  /\ UNCHANGED <<session, pending_summary, lives, interrupted, checkpoint, enabled, net, ui, world>>

-----------------------------------------------------------------------------
(* finish_session: of EndSession ("manual") and of a snapshot ("timer") *)

\* What follows finish_session in the handler that called it.
AfterFinish(c) == IF frame[c].cmd = "EndSession" THEN Goto(c, "pop") ELSE Return(c)

Reason(c) == IF frame[c].cmd = "EndSession" THEN "manual" ELSE "timer"

\* Mutant: the session is copied and cleared by nobody.
CopySession(c) ==
  /\ At(c, "take_session")
  /\ UNCHANGED data
  /\ \/ session = None /\ AfterFinish(c)
     \/ /\ session # None
        /\ \E sess \in Refreshed(session) :
             GotoWith(c, "clear_live_checkpoint", [frame[c] EXCEPT !.mine = sess])

\* `g.take()': whoever takes the session ends it.
TakeSession(c) ==
  /\ At(c, "take_session")
  /\ UNCHANGED <<pending_summary, lives, disk, net, ui, world>>
  /\ \/ session = None /\ AfterFinish(c) /\ UNCHANGED session
     \/ /\ session # None
        /\ session' = None
        /\ \E sess \in Refreshed(session) :
             GotoWith(c, "clear_live_checkpoint", [frame[c] EXCEPT !.mine = sess])

\* Mutant: finish_session forgets to clear the network.
ClearLiveCheckpointOnly(c) ==
  /\ At(c, "clear_live_checkpoint")
  /\ checkpoint' = None
  /\ Goto(c, "record")
  /\ UNCHANGED <<session, pending_summary, lives, interrupted, history, enabled, net, ui, world>>

\* Mutant: finish_session forgets the checkpoint.
KeepLiveCheckpoint(c) ==
  /\ At(c, "clear_live_checkpoint")
  /\ Goto(c, "clear_network")
  /\ UNCHANGED data

ClearLiveCheckpoint(c) ==
  /\ At(c, "clear_live_checkpoint")
  /\ checkpoint' = None
  /\ Goto(c, "clear_network")
  /\ UNCHANGED <<session, pending_summary, lives, interrupted, history, enabled, net, ui, world>>

\* clear_network is two steps, the filter and then the map of active rules;
\* finish_session, the watchdog and the warm-up all call it.
ClearNetwork(t) ==
  /\ At(t, "clear_network")
  /\ ClearAll
  /\ Goto(t, "clear_active")
  /\ UNCHANGED <<session, pending_summary, lives, active, disk, ui, world>>

ClearActive(t) ==
  /\ At(t, "clear_active")
  /\ active' = {}
  /\ \/ t = Watchdog /\ Goto(t, "forget_pid")
     \/ t = Warm     /\ Return(t)
     \/ t \in Client /\ Goto(t, "record")
  /\ UNCHANGED <<session, pending_summary, lives, applied, armed, hosts, disk, ui, world>>

Record(c) ==
  /\ At(c, "record")
  /\ LET sess == frame[c].mine IN
     history' = history \cup {[id |-> sess.id, started |-> sess.started, reason |-> Reason(c)]}
  /\ Goto(c, "publish")
  /\ UNCHANGED <<session, pending_summary, lives, interrupted, checkpoint, enabled, net, ui, world>>

Publish(c) ==
  /\ At(c, "publish")
  /\ pending_summary' = frame[c].mine.id
  /\ IF frame[c].cmd = "EndSession"
     THEN GotoWith(c, "pop", [frame[c] EXCEPT !.mine = None])
     ELSE Return(c)
  /\ UNCHANGED <<session, lives, disk, net, ui, world>>

-----------------------------------------------------------------------------
(* The UI watchdog: reap_if_ui_gone and park_session_for_restore *)

PidIsDead == ui_pid # 0 /\ ui_pid # running

\* A step of the watchdog that only reads, and where it goes from there.
Look(label, next) == At(Watchdog, label) /\ Goto(Watchdog, next) /\ UNCHANGED data

WatchPid ==
  /\ Watched /\ MayBegin(Watchdog)
  /\ Look("idle", IF PidIsDead THEN "see_session" ELSE "watch_beat")

\* Mutant: only a dead pid counts, a silent UI does not.
WatchPidOnly == Look("watch_beat", "idle")

WatchBeat ==
  Look("watch_beat", IF ui_heartbeat = "stale" THEN "see_session" ELSE "idle")

SeeSession == Look("see_session", IF session # None THEN "park" ELSE "see_active")

SeeActive == Look("see_active", IF active # {} THEN "clear_network" ELSE "see_armed")

SeeArmed == Look("see_armed", IF armed THEN "clear_network" ELSE "forget_pid")

Park ==
  /\ At(Watchdog, "park")
  /\ UNCHANGED <<pending_summary, lives, disk, net, ui, world>>
  /\ \/ session = None /\ Return(Watchdog) /\ UNCHANGED session
     \/ /\ session # None
        /\ session' = None
        /\ \E sess \in Refreshed(session) :
             GotoWith(Watchdog, "clear_network", [EmptyFrame EXCEPT !.mine = sess])

ForgetPid ==
  /\ At(Watchdog, "forget_pid")
  /\ ui_pid' = 0
  /\ Goto(Watchdog, "forget_beat")
  /\ UNCHANGED <<session, pending_summary, lives, disk, net, ui_heartbeat, world>>

ForgetBeat ==
  /\ At(Watchdog, "forget_beat")
  /\ ui_heartbeat' = "none"
  /\ Goto(Watchdog, IF frame[Watchdog].mine = None THEN "idle" ELSE "drop_summary")
  /\ UNCHANGED <<session, pending_summary, lives, disk, net, ui_pid, world>>

DropSummary ==
  /\ At(Watchdog, "drop_summary")
  /\ pending_summary' = None
  /\ Goto(Watchdog, "drop_checkpoint")
  /\ UNCHANGED <<session, lives, disk, net, ui, world>>

DropCheckpoint ==
  /\ At(Watchdog, "drop_checkpoint")
  /\ checkpoint' = None
  /\ IF frame[Watchdog].mine.left = 0 THEN Return(Watchdog) ELSE Goto(Watchdog, "set_interrupted")
  /\ UNCHANGED <<session, pending_summary, lives, interrupted, history, enabled, net, ui, world>>

\* Of the watchdog's park, and of the warm-up.
SetInterrupted(t) ==
  /\ At(t, "set_interrupted")
  /\ interrupted' = frame[t].mine
  /\ IF t = Watchdog THEN Return(t) ELSE GotoWith(t, "clear_network", EmptyFrame)
  /\ UNCHANGED <<session, pending_summary, lives, checkpoint, history, enabled, net, ui, world>>

-----------------------------------------------------------------------------
(* warm_protection, in a thread beside the IPC server *)

WarmCheck ==
  /\ At(Warm, "warm_check")
  /\ Goto(Warm, IF session = None THEN "read_checkpoint" ELSE "clear_network")
  /\ UNCHANGED data

\* take_live_checkpoint is a SELECT and then a DELETE.
ReadCheckpoint ==
  /\ At(Warm, "read_checkpoint")
  /\ GotoWith(Warm, "delete_checkpoint", [EmptyFrame EXCEPT !.mine = checkpoint])
  /\ UNCHANGED data

\* Mutant: with nothing to offer, the warm-up returns before clear_network.
DeleteCheckpointAndReturn ==
  /\ At(Warm, "delete_checkpoint")
  /\ checkpoint' = None
  /\ IF frame[Warm].mine # None /\ frame[Warm].mine.left > 0
     THEN Goto(Warm, "set_interrupted")
     ELSE Return(Warm)
  /\ UNCHANGED <<session, pending_summary, lives, interrupted, history, enabled, net, ui, world>>

DeleteCheckpoint ==
  /\ At(Warm, "delete_checkpoint")
  /\ checkpoint' = None
  /\ IF frame[Warm].mine # None /\ frame[Warm].mine.left > 0
     THEN Goto(Warm, "set_interrupted")
     ELSE GotoWith(Warm, "clear_network", EmptyFrame)
  /\ UNCHANGED <<session, pending_summary, lives, interrupted, history, enabled, net, ui, world>>

-----------------------------------------------------------------------------
(* The processes *)

UiLaunch ==
  /\ running = 0 /\ launches < MaxLaunch
  /\ launches' = launches + 1
  /\ running' = launches'
  /\ UNCHANGED <<session, pending_summary, lives, disk, net, ui, service, stops, pc, frame>>

\* Quit, crash or kill; requests already sent go on in the service.
UiExit ==
  /\ running # 0
  /\ running' = 0
  /\ UNCHANGED <<session, pending_summary, lives, disk, net, ui, service, launches, stops, pc, frame>>

\* UI_HEARTBEAT_TIMEOUT passes without a touch.
HeartbeatLapses ==
  /\ ui_heartbeat = "fresh"
  /\ ui_heartbeat' = "stale"
  /\ UNCHANGED <<session, pending_summary, lives, disk, net, ui_pid, world, pc, frame>>

\* The process ends: stopped by the service manager, or killed, which is the same:
\* the watchdog thread holds an Arc<Engine> for ever, so Engine::drop never runs.
ServiceEnds ==
  /\ service = "up" /\ stops < MaxStops
  /\ service' = "stopped"
  /\ stops' = stops + 1
  /\ session' = None /\ pending_summary' = None
  /\ ui_heartbeat' = "none" /\ ui_pid' = 0
  /\ applied' = {} /\ active' = {} /\ armed' = FALSE
  /\ pc' = [t \in Thread |-> "idle"] /\ frame' = [t \in Thread |-> EmptyFrame]
  /\ UNCHANGED <<disk, hosts, lives, running, launches>>

\* Engine::new and the threads the service starts before it serves requests.
ServiceStarts ==
  /\ service # "up"
  /\ service' = "up"
  /\ pc' = [pc EXCEPT ![Warm] = "warm_check"]
  /\ UNCHANGED <<session, pending_summary, lives, disk, net, ui, running, launches, stops, frame>>

-----------------------------------------------------------------------------
\* The service has just been built; `warm' says where its warm-up thread is.
InitWith(warm) ==
  /\ session = None /\ pending_summary = None /\ active = {}
  /\ ui_heartbeat = "none" /\ ui_pid = 0
  /\ applied = {} /\ armed = FALSE /\ hosts = {}
  /\ interrupted = None /\ checkpoint = None /\ history = {} /\ enabled = Site
  /\ pc = [t \in Thread |-> IF t = Warm THEN warm ELSE "idle"]
  /\ frame = [t \in Thread |-> EmptyFrame]
  /\ service = "up" /\ running = 0
  /\ lives = 0 /\ launches = 0 /\ stops = 0

Init == InitWith("warm_check")

StartOrRestore(c) ==
  \/ CheckSession(c) \/ GetInterrupted(c) \/ ListSites(c) \/ ClearBeforeApply(c)
  \/ ApplyOne(c) \/ SetActive(c) \/ ForgetSummary(c) \/ SetLiveCheckpoint(c)
  \/ Install(c) \/ Unpark(c)

Finish(c) == TakeSession(c) \/ ClearLiveCheckpoint(c) \/ Record(c) \/ Publish(c)

\* One step of the request that c carries.
Handle(c) ==
  \/ StartOrRestore(c) \/ Finish(c)
  \/ ClearInterrupted(c) \/ NoteUiPid(c) \/ TouchUi(c) \/ Snapshot(c) \/ Pop(c)
  \/ RejectIfSession(c) \/ SetEnabled(c) \/ ClearHistory(c)
  \/ ClearNetwork(c) \/ ClearActive(c)

WatchdogStep ==
  \/ WatchPid \/ WatchBeat \/ SeeSession \/ SeeActive \/ SeeArmed
  \/ Park \/ ForgetPid \/ ForgetBeat \/ DropSummary \/ DropCheckpoint
  \/ SetInterrupted(Watchdog) \/ ClearNetwork(Watchdog) \/ ClearActive(Watchdog)

WarmStep ==
  \/ WarmCheck \/ ReadCheckpoint \/ DeleteCheckpoint
  \/ SetInterrupted(Warm) \/ ClearNetwork(Warm) \/ ClearActive(Warm)

Environment ==
  UiLaunch \/ UiExit \/ HeartbeatLapses \/ ServiceEnds \/ ServiceStarts

Next ==
  \/ \E c \in Client : Request(c) \/ Handle(c)
  \/ WatchdogStep \/ WarmStep \/ Environment

Spec == Init /\ [][Next]_vars

\* The operating system runs every thread of a live service; a heartbeat no UI
\* renews becomes stale.  Nobody has to send a request, restart the service, or
\* end a process.
Fairness ==
  /\ \A c \in Client : WF_vars(Handle(c))
  /\ WF_vars(WatchdogStep)
  /\ WF_vars(WarmStep)
  /\ WF_vars(running = 0 /\ HeartbeatLapses)

FairSpec == Spec /\ Fairness

-----------------------------------------------------------------------------
(* Properties *)

FinishLabels == {"clear_live_checkpoint", "clear_network", "clear_active", "record", "publish"}

ClientLabels ==
  {"idle", "check_session", "get_interrupted", "clear_interrupted", "list_sites", "clear_all",
   "apply_batch", "forget_summary", "touch_ui", "set_live_checkpoint", "install", "unpark",
   "snapshot", "take_session", "note_ui_pid", "pop", "reject_if_session", "set_enabled",
   "clear_history"}
    \cup FinishLabels

WatchdogLabels ==
  {"idle", "watch_beat", "see_session", "see_active", "see_armed", "park", "clear_network",
   "clear_active", "forget_pid", "forget_beat", "drop_summary", "drop_checkpoint",
   "set_interrupted"}

WarmLabels ==
  {"idle", "warm_check", "read_checkpoint", "delete_checkpoint", "set_interrupted",
   "clear_network", "clear_active"}

Labels(t) ==
  IF t = Watchdog THEN WatchdogLabels ELSE IF t = Warm THEN WarmLabels ELSE ClientLabels

DataOK ==
  /\ session \in LiveSession \cup {None}
  /\ interrupted \in LiveSession \cup {None} /\ checkpoint \in LiveSession \cup {None}
  /\ pending_summary \in Nat \cup {None}
  /\ history \subseteq [id : Nat, started : Nat, reason : {"manual", "timer"}]
  /\ enabled \subseteq Site /\ active \subseteq Site
  /\ applied \subseteq Site /\ hosts \subseteq Site /\ armed \in BOOLEAN
  /\ ui_heartbeat \in {"none", "fresh", "stale"} /\ ui_pid \in Nat /\ running \in Nat
  /\ service \in {"up", "stopped"}
  /\ lives \in Nat /\ launches \in Nat /\ stops \in Nat

ThreadsOK ==
  /\ frame \in [Thread -> Frame]
  /\ pc \in [Thread -> UNION {Labels(t) : t \in Thread}]
  /\ \A t \in Thread : pc[t] \in Labels(t)

\* Every variable of the engine, the disk and the threads holds a value of its
\* Rust type, and each thread is at a step of its own code.
TypeOK == DataOK /\ ThreadsOK

\* t has put rules on the network, or may have, for a session it will install.
Arming(t) ==
  \/ pc[t] \in {"apply_batch", "forget_summary", "set_live_checkpoint", "install"}
  \/ pc[t] = "touch_ui" /\ Arms(t)

\* t is on its way to clear the network: it took the session, or found leftovers.
Clearing(t)     == pc[t] \in {"clear_live_checkpoint", "clear_network"}
Deactivating(t) == Clearing(t) \/ pc[t] = "clear_active"

\* The warm-up of this start of the service has not cleared the network yet.
WarmPending ==
  pc[Warm] \in {"warm_check", "read_checkpoint", "delete_checkpoint", "set_interrupted"}

\* Rules the filter tracks, or the engine counts as active, always have an owner:
\* a live session, a request about to install one, or a thread that is about to
\* clear them.  No interleaving of requests, watchdog and warm-up orphans a rule.
RulesHaveOwner ==
  /\ applied # {} =>
       session # None \/ \E t \in Thread : Arming(t) \/ Clearing(t)
  /\ active # {} =>
       session # None \/ \E t \in Thread : Arming(t) \/ Deactivating(t)

\* The same of the hosts file, which outlives the service: while the service is
\* down nobody owns it, and the next start's warm-up is its owner until it clears.
\* Holds only if the hosts file can always be written.
HostsHaveOwner ==
  hosts # {} =>
    \/ session # None
    \/ service # "up"
    \/ \E t \in Thread : Arming(t) \/ Clearing(t)
    \/ WarmPending

\* A live checkpoint in the database is that of a session still to be ended: a
\* session that was ended or parked never comes back from it after a crash.
CheckpointHasOwner ==
  checkpoint # None =>
    \/ session # None
    \/ service # "up"
    \/ \E c \in Client : pc[c] \in {"install", "clear_live_checkpoint"}
    \/ frame[Watchdog].mine # None /\ pc[Watchdog] # "set_interrupted"
    \/ pc[Warm] \in {"warm_check", "read_checkpoint", "delete_checkpoint"}

\* t has taken a live session and has not accounted for it yet.
Ending(t) ==
  \/ t \in Client /\ pc[t] \in {"clear_live_checkpoint", "clear_network", "clear_active", "record"}
  \/ t = Watchdog /\ frame[t].mine # None

\* A LiveSession is ended by one thread only: it is in the session slot, or held
\* by the one thread that took it, or in the history, and never in two of them.
EndedByOne ==
  /\ \A t, u \in Thread :
       t # u /\ Ending(t) /\ Ending(u) => frame[t].mine.id # frame[u].mine.id
  /\ \A t \in Thread : Ending(t) =>
       /\ session # None => session.id # frame[t].mine.id
       /\ \A h \in history : h.id # frame[t].mine.id
  /\ session # None => \A h \in history : h.id # session.id

\* A session that was started once goes to the history at most once, however
\* often it was parked and restored in between.
RecordedOnce == \A h, k \in history : h.started = k.started => h = k

AllIdle == \A t \in Thread : pc[t] \in {"idle", "watch_beat"}

\* With no request in progress, a live session means that exactly the enabled
\* rules of its profile are in the engine and in the filter, and in the hosts file
\* if it can be written or the filter says it is armed.
LiveIsEnforced ==
  AllIdle /\ session # None =>
    /\ active = RulesOf(session.profile) /\ applied = active
    /\ armed \/ ~ HostsMayFail => hosts = active

\* With no request in progress, a live session can be recovered after a crash: the
\* checkpoint names it and is no staler than the last snapshot.
LiveIsCheckpointed == AllIdle /\ session # None => checkpoint = session

\* A session in the slot is never replaced by another: it has to be taken first.
NeverReplaced ==
  [][session # None /\ session' # None => session'.id = session.id]_vars

\* The rules of the database do not change while a session is live.
RulesFrozen ==
  [][session # None /\ session' # None => enabled' = enabled]_vars

\* A session left behind by a UI that is gone for good ends, and the machine is
\* unblocked, provided the watchdog still has a pid or a heartbeat to judge by.
Reaped ==
  (/\ session # None /\ pc[Watchdog] = "idle"
   /\ (ui_heartbeat # "none" \/ ui_pid # 0))
  ~> (hosts = {} \/ running # 0 \/ service # "up")

\* Leftovers of a previous run, or of a session that ended, do not stay: some
\* thread clears the hosts file, unless a new session uses it.
LeftoversGo ==
  (service = "up" /\ session = None) ~> (hosts = {} \/ session # None \/ service # "up")

-----------------------------------------------------------------------------
(* What the documentation says and some behaviour of the code does not do *)

\* README: when the UI crashes or is killed, the watchdog removes all network
\* blocks.  Not so after a reap whose last two assignments, to ui_pid and to
\* ui_heartbeat, came after the touch_ui of a start: ui_is_gone then says no.
UnblockedWithoutUi == []<>(running # 0 \/ service # "up" \/ hosts = {})

=============================================================================
