---------------------------- MODULE SessionClock ----------------------------
(***************************************************************************)
(* Focus sessions in real time: refresh_session_clock of                   *)
(* crates/at_shield_core/src/engine.rs under the polls of the UI, the      *)
(* heartbeat that the watchdog judges by, and the checkpoint that a killed *)
(* service leaves.  Time passes in ticks, Unit of them to a second; the    *)
(* clock of a session counts whole seconds since it was last refreshed.    *)
(*                                                                         *)
(* The module refines FocusSession: every step is one of its steps, or     *)
(* leaves its variables alone, and says by how much the clock is lowered.  *)
(* Requests take no time here; Engine has their interleavings.             *)
(***************************************************************************)
EXTENDS FocusSession

CONSTANTS
  Unit,         \* ticks in a second
  Timeout,      \* UI_HEARTBEAT_TIMEOUT, in seconds
  MinGap,       \* a UI refreshes the clock of its session no sooner than this ...
  MaxGap,       \* ... and no later, in ticks, counted from its last refresh
  MaxRan,       \* bound on the ticks a session is live
  MaxRefreshes, \* bound on the refreshes of a session
  MaxKills      \* bound on the kills of the service

ASSUME UnitType    == Unit \in Nat \ {0}
ASSUME TimeoutType == Timeout \in Nat
ASSUME GapType     == MinGap \in Nat /\ MaxGap \in Nat /\ MinGap <= MaxGap
\* The UI polls once a second, well within the timeout.
ASSUME PollsBeat   == MaxGap <= Timeout * Unit

VARIABLES
  age,     \* ticks since tick_at of the live session
  silent,  \* ticks since the last touch_ui, up to just past the timeout
  uiUp,    \* the UI that polls is running
  kills,   \* kills of the service
  \* history, of the session that is live or on offer: the duration asked for, the
  \* ticks it has been live, how often its clock was refreshed, and the ticks a
  \* killed service had not saved
  asked, ran, refreshes, unsaved

env   == <<silent, uiUp, kills>>
ghost == <<asked, ran, refreshes, unsaved>>
timed == <<vars, age, env, ghost>>

\* as_secs of the time since tick_at: what is left of a second is dropped.
Elapsed == age \div Unit

\* Mutant: the clock is lowered without asking whether so much time is left.
Unsaturated == live.left - Elapsed

\* Mutant: a refresh takes off one second, however many have passed.
OneSecond == IF Elapsed = 0 THEN live.left ELSE IF live.left = 0 THEN 0 ELSE live.left - 1

\* remaining_secs after a refresh.
LeftNow == IF Elapsed >= live.left THEN 0 ELSE live.left - Elapsed

Forget == asked' = 0 /\ ran' = 0 /\ refreshes' = 0 /\ unsaved' = 0

-----------------------------------------------------------------------------
\* The UI, while it runs, does not let a live session go without a poll, and the
\* poll, or the start, that leaves no time goes on to finish the session.
Advance ==
  /\ live # None => ran < MaxRan /\ live.left > 0 /\ (uiUp => silent < MaxGap)
  /\ IF live = None THEN UNCHANGED <<age, ran>> ELSE age' = age + 1 /\ ran' = ran + 1
  /\ silent' = IF silent > Timeout * Unit THEN silent ELSE silent + 1
  /\ UNCHANGED <<vars, uiUp, kills, asked, refreshes, unsaved>>

\* StartSession: tick_at is now, and the request touches the heartbeat.
StartClock ==
  /\ uiUp /\ Start
  /\ age' = 0 /\ silent' = 0
  /\ asked' = live'.left /\ ran' = 0 /\ refreshes' = 0 /\ unsaved' = 0
  /\ UNCHANGED <<uiUp, kills>>

\* Mutant: the clock is lowered, and tick_at stays where it was.
PollKeepingTick ==
  /\ uiUp /\ live # None /\ silent >= MinGap /\ refreshes < MaxRefreshes
  /\ live' = [live EXCEPT !.left = LeftNow]
  /\ silent' = 0 /\ refreshes' = refreshes + 1
  /\ UNCHANGED <<offer, ended, age, uiUp, kills, asked, ran, unsaved>>

\* GetSession: tick_at becomes now, whatever has been counted.
Poll ==
  /\ uiUp /\ live # None /\ silent >= MinGap /\ refreshes < MaxRefreshes
  /\ live' = [live EXCEPT !.left = LeftNow]
  /\ age' = 0 /\ silent' = 0 /\ refreshes' = refreshes + 1
  /\ UNCHANGED <<offer, ended, uiUp, kills, asked, ran, unsaved>>

\* The same poll, or EndSession, finishes the session.
EndClock(reason) ==
  /\ uiUp /\ End(reason)
  /\ age' = 0 /\ Forget
  /\ UNCHANGED env

\* The offer becomes what is left of the live session, if anything is.
Offer(left) ==
  /\ live' = None
  /\ offer' = IF left = 0 THEN offer ELSE [live EXCEPT !.left = left]
  /\ age' = 0
  /\ UNCHANGED <<ended, asked, ran>>

\* Mutant: the timeout is of as many ticks as it should be of seconds.
ParkTooSoon ==
  /\ live # None /\ silent > Timeout
  /\ Offer(LeftNow)
  /\ refreshes' = refreshes + 1
  /\ UNCHANGED <<env, unsaved>>

\* Mutant: a session that has run out is parked like any other.
ParkSpent ==
  /\ live # None /\ silent > Timeout * Unit
  /\ live' = None /\ offer' = [live EXCEPT !.left = LeftNow]
  /\ age' = 0 /\ refreshes' = refreshes + 1
  /\ UNCHANGED <<ended, env, asked, ran, unsaved>>

\* reap_if_ui_gone, by the heartbeat.
ParkByHeartbeat ==
  /\ live # None /\ silent > Timeout * Unit
  /\ Offer(LeftNow)
  /\ refreshes' = refreshes + 1
  /\ UNCHANGED <<env, unsaved>>

\* The service is killed and started again: its warm-up offers the checkpoint, which
\* is what the last refresh left.
Recover ==
  /\ live # None /\ kills < MaxKills
  /\ Offer(live.left)
  /\ kills' = kills + 1
  /\ unsaved' = unsaved + age
  /\ UNCHANGED <<silent, uiUp, refreshes>>

RestoreClock ==
  /\ uiUp /\ Restore
  /\ age' = 0 /\ silent' = 0
  /\ UNCHANGED <<uiUp, kills, ghost>>

DiscardClock == uiUp /\ live = None /\ Discard /\ Forget /\ UNCHANGED <<age, env>>

\* The UI exits, or hangs; another one comes up and polls at once.
UiStops == uiUp /\ uiUp' = FALSE /\ UNCHANGED <<vars, age, silent, kills, ghost>>

UiReturns ==
  /\ ~ uiUp /\ uiUp' = TRUE /\ silent' = 0
  /\ UNCHANGED <<vars, age, kills, ghost>>

TimedInit ==
  /\ Init
  /\ age = 0 /\ silent = 0 /\ uiUp = TRUE /\ kills = 0
  /\ asked = 0 /\ ran = 0 /\ refreshes = 0 /\ unsaved = 0

TimedNext ==
  \/ Advance \/ StartClock \/ Poll \/ (\E reason \in {"manual", "timer"} : EndClock(reason))
  \/ ParkByHeartbeat \/ Recover \/ RestoreClock \/ DiscardClock \/ UiStops \/ UiReturns

TimedSpec == TimedInit /\ [][TimedNext]_timed

-----------------------------------------------------------------------------
\* The session is one of FocusSession's, the clock and the history hold numbers.
ClockOK ==
  /\ TypeOK
  /\ age \in Nat /\ silent \in Nat /\ uiUp \in BOOLEAN /\ kills \in Nat
  /\ asked \in Nat /\ ran \in Nat /\ refreshes \in Nat /\ unsaved \in Nat

\* Every step is a step of the abstract focus session.
RefinesFocusSession == Spec

\* What has been taken off the clock of a session, and what the next refresh may take,
\* it has been live for: through polls, parks, restores and kills no timer runs fast.
NeverFast ==
  /\ live # None /\ live.left > 0 => (asked - live.left) * Unit + age <= ran
  /\ live = None /\ offer # None => (asked - offer.left) * Unit <= ran

\* The timer ends no session before it was live for the whole duration asked for.
NeverEndsEarly ==
  [][\A h \in ended' \ ended : h.reason = "timer" => ran >= asked * Unit]_timed

\* A session with time left has lost to rounding less than a second per refresh: its
\* clock lags by no more than that, and by what a kill did not save.
LagIsBounded ==
  live # None /\ live.left > 0 =>
    ran <= (asked - live.left) * Unit + age + refreshes * (Unit - 1) + unsaved

\* A UI that polls within the timeout is never taken for gone: it loses its session
\* to its own EndSession, to the timer, or to a kill of the service.
BeatingIsSafe ==
  [][live # None /\ live' = None /\ uiUp => ended' # ended \/ kills' # kills]_timed

=============================================================================
