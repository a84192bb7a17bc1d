-------------------------- MODULE SessionClockProofs --------------------------
(***************************************************************************)
(* Proofs about FocusSession, for every set of names, profiles and         *)
(* durations, and about SessionClock, for every unit, timeout, pace of     *)
(* polls and set of durations: no session is in two places, no timer ends  *)
(* one early, the clock lags by no more than its roundings, and every step *)
(* of SessionClock is one of FocusSession's.                               *)
(***************************************************************************)
EXTENDS SessionClock, Integers, TLAPS

-----------------------------------------------------------------------------
(* The abstract session *)

FocusInv == TypeOK /\ InOnePlace

LEMMA FocusInit == Init => FocusInv
BY DEF Init, FocusInv, TypeOK, InOnePlace

LEMMA FocusNext == FocusInv /\ [Next]_vars => FocusInv'
<1> SUFFICES ASSUME TypeOK, InOnePlace, [Next]_vars PROVE TypeOK' /\ InOnePlace'
  BY DEF FocusInv
<1>1. CASE Start
  <2>1. PICK n \in Started, p \in Profile, d \in Duration :
          Fresh(n) /\ live' = [started |-> n, profile |-> p, left |-> d]
    BY <1>1 DEF Start
  <2>2. live' \in Session /\ live'.started = n
    BY <2>1, DurationType DEF Session
  <2>3. TypeOK'
    BY <1>1, <2>2 DEF Start, TypeOK
  <2>4. InOnePlace'
    BY <1>1, <2>1, <2>2 DEF Start, InOnePlace, Fresh
  <2> QED
    BY <2>3, <2>4
<1>2. CASE Tick
  <2>1. live' \in Session /\ live'.started = live.started
    BY <1>2 DEF Tick, TypeOK, Session
  <2> QED
    BY <1>2, <2>1 DEF Tick, TypeOK, InOnePlace
<1>3. ASSUME NEW reason \in {"manual", "timer"}, End(reason)
      PROVE  TypeOK' /\ InOnePlace'
  <2> DEFINE new == [started |-> live.started, reason |-> reason]
  <2>1. live \in Session /\ live # None
    BY <1>3 DEF End, TypeOK
  <2>2. new \in Record /\ new.started = live.started
    BY <2>1 DEF Session, Record
  <2>3. TypeOK'
    BY <1>3, <2>2 DEF End, TypeOK
  <2>4. InOnePlace'
    BY <1>3, <2>1, <2>2 DEF End, InOnePlace
  <2> QED
    BY <2>3, <2>4
<1>4. CASE Park
  <2>1. PICK n \in 0 .. live.left :
          offer' = IF n = 0 THEN offer ELSE [live EXCEPT !.left = n]
    BY <1>4 DEF Park
  <2>2. live \in Session /\ live # None
    BY <1>4 DEF Park, TypeOK
  <2>3. [live EXCEPT !.left = n] \in Session /\ [live EXCEPT !.left = n].started = live.started
    BY <2>1, <2>2 DEF Session
  <2> QED
    BY <1>4, <2>1, <2>2, <2>3 DEF Park, TypeOK, InOnePlace
<1>5. CASE Restore
  BY <1>5 DEF Restore, TypeOK, InOnePlace
<1>6. CASE Discard
  BY <1>6 DEF Discard, TypeOK, InOnePlace
<1>7. CASE ClearHistory
  BY <1>7 DEF ClearHistory, TypeOK, InOnePlace
<1>8. CASE UNCHANGED vars
  BY <1>8 DEF vars, TypeOK, InOnePlace
<1> QED
  BY <1>1, <1>2, <1>3, <1>4, <1>5, <1>6, <1>7, <1>8 DEF Next

\* A session is never in two places, and never ends in two ways: whatever
\* implements FocusSession keeps the history free of double entries.
THEOREM NeverInTwoPlaces == Spec => []InOnePlace
<1>1. FocusInv => InOnePlace
  BY DEF FocusInv
<1> QED
  BY <1>1, FocusInit, FocusNext, PTL DEF Spec

-----------------------------------------------------------------------------
(* Arithmetic of a refresh *)

LEMMA Distributes ==
  ASSUME NEW a \in Int, NEW b \in Int, NEW c \in Int
  PROVE  (a + b) * c = a * c + b * c
OBVIOUS

LEMMA WholeUnits ==
  ASSUME NEW n \in Nat
  PROVE  /\ n \div Unit \in Nat
         /\ (n \div Unit) * Unit <= n
         /\ n <= (n \div Unit) * Unit + (Unit - 1)
<1> DEFINE q == n \div Unit
           r == n % Unit
<1>1. q \in Int /\ r \in 0 .. Unit - 1 /\ n = Unit * q + r
  BY UnitType
<1>2. q >= 0
  BY <1>1, UnitType
<1> QED
  BY <1>1, <1>2, UnitType

-----------------------------------------------------------------------------
(* The inductive invariant *)

\* A clock that shows `left', refreshed n ticks ago, has counted no more than the session
\* has been live, and all of the duration if nothing is left.
NotFast(left, n) == (asked - left) * Unit + (IF left = 0 THEN 0 ELSE n) <= ran

\* It has counted all but what rounding and kills have lost.
NotSlow(left, n) ==
  left > 0 => ran <= (asked - left) * Unit + n + refreshes * (Unit - 1) + unsaved

Fair(sess, n) == sess.left <= asked /\ NotFast(sess.left, n) /\ NotSlow(sess.left, n)

TimedInv ==
  /\ ClockOK
  /\ live # None => offer = None /\ Fair(live, age)
  /\ offer # None => Fair(offer, 0)

-----------------------------------------------------------------------------
\* A refresh keeps the books: what it takes off was lived, and what it drops is less
\* than a second.
LEMMA RefreshIsFair ==
  ASSUME ClockOK, live # None, Fair(live, age)
  PROVE  /\ LeftNow \in 0 .. live.left
         /\ (asked - LeftNow) * Unit <= ran
         /\ LeftNow > 0 =>
              ran <= (asked - LeftNow) * Unit + (refreshes + 1) * (Unit - 1) + unsaved
<1> DEFINE q == age \div Unit
           left == live.left
<1>1. left \in Nat /\ left <= asked /\ asked \in Nat /\ ran \in Nat /\ age \in Nat
        /\ refreshes \in Nat /\ unsaved \in Nat /\ Unit \in Nat \ {0}
  BY UnitType DEF ClockOK, TypeOK, Session, Fair
<1>2. q \in Nat /\ q * Unit <= age /\ age <= q * Unit + (Unit - 1)
  BY <1>1, WholeUnits
<1>3. LeftNow = IF q >= left THEN 0 ELSE left - q
  BY DEF LeftNow, Elapsed
<1>4. CASE q >= left
  <2>1. left * Unit <= age
    <3>1. q * Unit = (q - left) * Unit + left * Unit
      BY <1>1, <1>2, Distributes
    <3>2. (q - left) * Unit >= 0
      BY <1>1, <1>2, <1>4
    <3> QED
      BY <1>1, <1>2, <3>1, <3>2
  <2>2. asked * Unit = (asked - left) * Unit + left * Unit
    BY <1>1, Distributes
  <2>3. asked * Unit <= ran
    BY <1>1, <2>1, <2>2 DEF Fair, NotFast
  <2> QED
    BY <1>1, <1>3, <1>4, <2>3
<1>5. CASE q < left
  <2>1. (asked - (left - q)) * Unit = (asked - left) * Unit + q * Unit
    <3>1. asked - (left - q) = (asked - left) + q
      BY <1>1, <1>2
    <3> QED
      BY <1>1, <1>2, <3>1, Distributes
  <2>2. (refreshes + 1) * (Unit - 1) = refreshes * (Unit - 1) + (Unit - 1)
    BY <1>1
  <2>3. (asked - left) * Unit + age <= ran
    BY <1>1, <1>2, <1>5 DEF Fair, NotFast
  <2>4. ran <= (asked - left) * Unit + age + refreshes * (Unit - 1) + unsaved
    BY <1>1, <1>2, <1>5 DEF Fair, NotSlow
  <2>5. (asked - (left - q)) * Unit <= ran
    BY <1>1, <1>2, <2>1, <2>3
  <2>6. ran <= (asked - (left - q)) * Unit + (refreshes + 1) * (Unit - 1) + unsaved
    <3> DEFINE A == (asked - left) * Unit
               B == q * Unit
               R == refreshes * (Unit - 1)
    <3>1. A \in Int /\ B \in Int /\ R \in Int
      BY <1>1, <1>2
    <3>2. ran <= A + age + R + unsaved /\ age <= B + (Unit - 1)
      BY <1>2, <2>4
    <3>3. (asked - (left - q)) * Unit + (refreshes + 1) * (Unit - 1) + unsaved
            = A + B + (R + (Unit - 1)) + unsaved
      BY <2>1, <2>2
    <3> HIDE DEF A, B, R
    <3> QED
      BY <1>1, <3>1, <3>2, <3>3
  <2> QED
    BY <1>1, <1>2, <1>3, <1>5, <2>5, <2>6
<1> QED
  BY <1>1, <1>2, <1>4, <1>5

-----------------------------------------------------------------------------
(* The invariant is inductive *)

LEMMA FairOfNothingCounted ==
  ASSUME ClockOK, NEW left \in Nat, left <= asked
  PROVE  (asked - left) * Unit \in Int
BY UnitType DEF ClockOK

LEMMA TimedInvInit == TimedInit => TimedInv
BY DEF TimedInit, Init, TimedInv, ClockOK, TypeOK

\* Time passes: for the session, if there is one, and for the clock alike.
LEMMA AdvanceFair ==
  ASSUME TimedInv, Advance
  PROVE  TimedInv'
<1>1. ClockOK'
  BY DEF TimedInv, Advance, ClockOK, TypeOK, vars
<1>2. CASE live = None
  BY <1>1, <1>2 DEF TimedInv, Advance, vars, Fair, NotFast, NotSlow
<1>3. CASE live # None
  <2>1. live.left \in Nat /\ live.left > 0 /\ (asked - live.left) * Unit \in Int
          /\ refreshes * (Unit - 1) \in Int
    BY <1>3, UnitType DEF TimedInv, ClockOK, TypeOK, Session, Advance
  <2>2. Fair(live, age)'
    <3> DEFINE A == (asked - live.left) * Unit
               R == refreshes * (Unit - 1)
    <3>1. live' = live /\ asked' = asked /\ age' = age + 1 /\ ran' = ran + 1
            /\ refreshes' = refreshes /\ unsaved' = unsaved
      BY <1>3 DEF Advance, vars
    <3>2. A + age <= ran /\ ran <= A + age + R + unsaved
      BY <1>3, <2>1 DEF TimedInv, Fair, NotFast, NotSlow
    <3>3. A + (age + 1) <= ran + 1 /\ ran + 1 <= A + (age + 1) + R + unsaved
      BY <2>1, <3>2 DEF TimedInv, ClockOK
    <3> QED
      BY <1>3, <2>1, <3>1, <3>3 DEF TimedInv, Fair, NotFast, NotSlow
  <2> QED
    BY <1>1, <1>3, <2>2 DEF TimedInv, Advance, vars
<1> QED
  BY <1>2, <1>3

LEMMA StartFair ==
  ASSUME TimedInv, StartClock
  PROVE  TimedInv'
<1>1. PICK n \in Started, p \in Profile, d \in Duration :
             live' = [started |-> n, profile |-> p, left |-> d]
  BY DEF StartClock, Start
<1>2. live' \in Session /\ live'.left = d /\ d \in Nat
  BY <1>1, DurationType DEF Session
<1>3. (asked' - live'.left) * Unit = 0
  BY <1>2, UnitType DEF StartClock
<1> QED
  BY <1>2, <1>3, UnitType
  DEF StartClock, Start, TimedInv, ClockOK, TypeOK, Fair, NotFast, NotSlow

LEMMA PollFair ==
  ASSUME TimedInv, Poll
  PROVE  TimedInv'
<1>1. live # None /\ live \in Session /\ Fair(live, age) /\ ClockOK /\ offer = None
  BY DEF Poll, TimedInv, ClockOK, TypeOK
<1>2. live' \in Session /\ live'.left = LeftNow /\ LeftNow \in 0 .. live.left
  BY <1>1, RefreshIsFair DEF Poll, Session
<1>3. Fair(live, age)'
  <2>1. asked' = asked /\ age' = 0 /\ ran' = ran /\ refreshes' = refreshes + 1 /\ unsaved' = unsaved
    BY DEF Poll
  <2>2. live'.left <= asked /\ (asked - live'.left) * Unit \in Int /\ live.left \in Nat
    BY <1>1, <1>2, FairOfNothingCounted DEF Fair, ClockOK, Session
  <2> QED
    BY <1>1, <1>2, <2>1, <2>2, RefreshIsFair, UnitType DEF Fair, NotFast, NotSlow, ClockOK
<1> QED
  BY <1>1, <1>2, <1>3 DEF Poll, TimedInv, ClockOK, TypeOK

\* A session that leaves the slot leaves an offer with the same books, or nothing.
LEMMA OfferFair ==
  ASSUME TimedInv, live # None, NEW left \in 0 .. live.left, Offer(left),
         refreshes' \in Nat, unsaved' \in Nat, silent' \in Nat, uiUp' \in BOOLEAN, kills' \in Nat,
         (asked - left) * Unit <= ran,
         left > 0 => ran <= (asked - left) * Unit + refreshes' * (Unit - 1) + unsaved'
  PROVE  TimedInv'
<1>1. live \in Session /\ live.left \in Nat /\ offer = None /\ live.left <= asked
        /\ asked \in Nat /\ ran \in Nat
  BY DEF TimedInv, ClockOK, TypeOK, Session, Fair
<1>2. CASE left = 0
  BY <1>1, <1>2 DEF TimedInv, ClockOK, TypeOK, Offer
<1>3. CASE left > 0
  <2>1. offer' \in Session /\ offer'.left = left /\ live' = None
    BY <1>1, <1>3 DEF Offer, Session
  <2>2. (asked - left) * Unit \in Int /\ refreshes' * (Unit - 1) \in Int
    BY <1>1, UnitType
  <2>3. asked' = asked /\ ran' = ran /\ age' = 0
    BY DEF Offer
  <2>4. Fair(offer, 0)'
    BY <1>1, <1>3, <2>1, <2>2, <2>3 DEF Fair, NotFast, NotSlow
  <2> QED
    BY <1>1, <2>1, <2>3, <2>4 DEF TimedInv, ClockOK, TypeOK, Offer
<1> QED
  BY <1>1, <1>2, <1>3

LEMMA ParkFair ==
  ASSUME TimedInv, ParkByHeartbeat
  PROVE  TimedInv'
<1>1. live # None /\ Fair(live, age) /\ ClockOK /\ Offer(LeftNow)
  BY DEF ParkByHeartbeat, TimedInv
<1>2. refreshes' = refreshes + 1 /\ UNCHANGED <<silent, uiUp, kills, unsaved>>
  BY DEF ParkByHeartbeat, env
<1> QED
  BY <1>1, <1>2, RefreshIsFair, OfferFair DEF ClockOK

LEMMA RecoverFair ==
  ASSUME TimedInv, Recover
  PROVE  TimedInv'
<1>1. live # None /\ Fair(live, age) /\ ClockOK /\ Offer(live.left) /\ live.left \in Nat
        /\ live.left <= asked
  BY DEF Recover, TimedInv, ClockOK, TypeOK, Session, Fair
<1>2. unsaved' = unsaved + age /\ kills' = kills + 1 /\ UNCHANGED <<silent, uiUp, refreshes>>
  BY DEF Recover
<1>3. (asked - live.left) * Unit \in Int /\ refreshes * (Unit - 1) \in Int
  BY <1>1, UnitType DEF ClockOK
<1>4. (asked - live.left) * Unit <= ran
  BY <1>1, <1>3 DEF Fair, NotFast, ClockOK
<1>5. live.left > 0 =>
        ran <= (asked - live.left) * Unit + refreshes' * (Unit - 1) + unsaved'
  BY <1>1, <1>2, <1>3 DEF Fair, NotSlow, ClockOK
<1> QED
  BY <1>1, <1>2, <1>4, <1>5, OfferFair DEF ClockOK

LEMMA TimedInvNext == TimedInv /\ [TimedNext]_timed => TimedInv'
<1> SUFFICES ASSUME TimedInv, [TimedNext]_timed PROVE TimedInv'
  OBVIOUS
<1>1. CASE Advance \/ StartClock \/ Poll \/ ParkByHeartbeat \/ Recover
  BY <1>1, AdvanceFair, StartFair, PollFair, ParkFair, RecoverFair
<1>2. ASSUME NEW reason \in {"manual", "timer"}, EndClock(reason) PROVE TimedInv'
  <2>1. live \in Session /\ live # None /\ offer = None
    BY <1>2 DEF EndClock, End, TimedInv, ClockOK, TypeOK
  <2>2. [started |-> live.started, reason |-> reason] \in Record
    BY <2>1 DEF Session, Record
  <2> QED
    BY <1>2, <2>1, <2>2 DEF EndClock, End, Forget, env, TimedInv, ClockOK, TypeOK
<1>3. CASE RestoreClock
  BY <1>3 DEF RestoreClock, Restore, ghost, TimedInv, ClockOK, TypeOK, Fair, NotFast, NotSlow
<1>4. CASE DiscardClock
  BY <1>4 DEF DiscardClock, Discard, Forget, env, TimedInv, ClockOK, TypeOK
<1>5. CASE UiStops \/ UiReturns
  <2>1. UNCHANGED <<live, offer, ended, age, kills, asked, ran, refreshes, unsaved>>
    BY <1>5 DEF UiStops, UiReturns, vars, ghost
  <2>2. silent' \in Nat
    BY <1>5 DEF UiStops, UiReturns, TimedInv, ClockOK
  <2>3. uiUp' \in BOOLEAN
    BY <1>5 DEF UiStops, UiReturns
  <2> QED
    BY <2>1, <2>2, <2>3 DEF TimedInv, ClockOK, TypeOK, Fair, NotFast, NotSlow
<1>6. CASE UNCHANGED timed
  BY <1>6 DEF timed, vars, env, ghost, TimedInv, ClockOK, TypeOK, Fair, NotFast, NotSlow
<1> QED
  BY <1>1, <1>2, <1>3, <1>4, <1>5, <1>6 DEF TimedNext

LEMMA TimedInvAlways == TimedSpec => []TimedInv
BY TimedInvInit, TimedInvNext, PTL DEF TimedSpec

-----------------------------------------------------------------------------
(* What follows *)

\* The session is one of FocusSession's, and clock and history hold numbers, for any
\* durations, units, time-outs and pace of polls.
THEOREM ClockTyped == TimedSpec => []ClockOK
<1>1. TimedInv => ClockOK
  BY DEF TimedInv
<1> QED
  BY <1>1, TimedInvAlways, PTL

\* Through polls at any pace, parks, restores and kills, the timer ends no session before
\* it was live for the duration that was asked for.
THEOREM NoEarlyEnd == TimedSpec => NeverEndsEarly
<1> DEFINE A == \A h \in ended' \ ended : h.reason = "timer" => ran >= asked * Unit
<1>1. TimedInv /\ [TimedNext]_timed => [A]_timed
  <2> SUFFICES ASSUME TimedInv, TimedNext, NEW h \in ended' \ ended, h.reason = "timer"
               PROVE  ran >= asked * Unit
    OBVIOUS
  <2>1. PICK reason \in {"manual", "timer"} : EndClock(reason)
    BY DEF TimedNext, Advance, StartClock, Start, Poll, ParkByHeartbeat, Recover, Offer, RestoreClock,
           Restore, DiscardClock, Discard, UiStops, UiReturns, vars
  <2>2. h.reason = reason /\ live # None /\ (reason = "timer" => live.left = 0)
    BY <2>1 DEF EndClock, End
  <2>3. (asked - 0) * Unit <= ran /\ asked \in Nat
    BY <2>2, UnitType DEF TimedInv, ClockOK, Fair, NotFast
  <2> QED
    BY <2>3, UnitType DEF TimedInv, ClockOK
<1> QED
  BY <1>1, TimedInvAlways, PTL DEF TimedSpec, NeverEndsEarly

\* A session loses less than a second per refresh, and what kills have not saved.
THEOREM LagBounded == TimedSpec => []LagIsBounded
<1>1. TimedInv => LagIsBounded
  BY DEF TimedInv, Fair, NotSlow, LagIsBounded
<1> QED
  BY <1>1, TimedInvAlways, PTL

\* Real time changes nothing in what sessions there are: every step of the timed engine
\* is one of FocusSession's or leaves its variables alone.
THEOREM TimedRefines == TimedSpec => RefinesFocusSession
<1>1. TimedInit => Init
  BY DEF TimedInit
<1>2. TimedInv /\ [TimedNext]_timed => [Next]_vars
  <2> SUFFICES ASSUME TimedInv, [TimedNext]_timed PROVE [Next]_vars
    OBVIOUS
  <2>1. CASE Poll \/ ParkByHeartbeat
    <3>1. LeftNow \in 0 .. live.left
      BY <2>1, RefreshIsFair DEF Poll, ParkByHeartbeat, TimedInv
    <3> QED
      BY <2>1, <3>1 DEF Poll, ParkByHeartbeat, Offer, Next, Tick, Park
  <2>2. CASE Recover
    <3>1. live.left \in 0 .. live.left
      BY <2>2 DEF Recover, TimedInv, ClockOK, TypeOK, Session
    <3> QED
      BY <2>2, <3>1 DEF Recover, Offer, Next, Park
  <2>3. CASE StartClock \/ RestoreClock \/ DiscardClock
    BY <2>3 DEF StartClock, RestoreClock, DiscardClock, Next
  <2>4. ASSUME NEW reason \in {"manual", "timer"}, EndClock(reason) PROVE Next
    BY <2>4 DEF EndClock, Next
  <2>5. CASE Advance \/ UiStops \/ UiReturns \/ UNCHANGED timed
    BY <2>5 DEF Advance, UiStops, UiReturns, timed
  <2> QED
    BY <2>1, <2>2, <2>3, <2>4, <2>5 DEF TimedNext
<1> QED
  BY <1>1, <1>2, TimedInvAlways, PTL DEF TimedSpec, RefinesFocusSession, Spec

\* A UI that runs has refreshed the clock of a live session within MaxGap ticks.
Beats == live # None /\ uiUp => silent <= MaxGap

LEMMA BeatsInit == TimedInit => Beats
BY DEF TimedInit, Init, Beats

LEMMA BeatsNext == TimedInv /\ Beats /\ [TimedNext]_timed => Beats'
<1> SUFFICES ASSUME TimedInv, Beats, [TimedNext]_timed, live' # None, uiUp' PROVE silent' <= MaxGap
  BY DEF Beats
<1>1. CASE Advance
  <2>1. live # None /\ uiUp /\ silent < MaxGap
    BY <1>1 DEF Advance, vars
  <2>2. silent' = silent \/ silent' = silent + 1
    BY <1>1 DEF Advance
  <2> QED
    BY <2>1, <2>2, GapType DEF TimedInv, ClockOK
<1>2. CASE StartClock \/ Poll \/ RestoreClock \/ UiReturns
  <2>1. silent' = 0
    BY <1>2 DEF StartClock, Poll, RestoreClock, UiReturns
  <2> QED
    BY <2>1, GapType
<1>3. CASE (\E reason \in {"manual", "timer"} : EndClock(reason)) \/ ParkByHeartbeat \/ Recover
             \/ DiscardClock
  BY <1>3 DEF EndClock, End, ParkByHeartbeat, Recover, Offer, DiscardClock, Discard
<1>4. CASE UiStops
  BY <1>4 DEF UiStops
<1>5. CASE UNCHANGED timed
  BY <1>5 DEF timed, vars, env, Beats
<1> QED
  BY <1>1, <1>2, <1>3, <1>4, <1>5 DEF TimedNext

\* The books of a session that ends did not have it yet.
LEMMA EndsAnew ==
  ASSUME FocusInv, NEW reason, End(reason)
  PROVE  ended' # ended
<1> DEFINE new == [started |-> live.started, reason |-> reason]
<1>1. live # None /\ ended' = ended \cup {new} /\ new.started = live.started
  BY DEF End
<1>2. \A h \in ended : live.started # h.started
  BY <1>1 DEF FocusInv, InOnePlace
<1> QED
  BY <1>1, <1>2

\* The watchdog judges by a heartbeat that a UI which polls within the timeout keeps up:
\* such a UI loses its session to its own EndSession, to the timer, or to a kill only.
THEOREM PollingIsSafe == TimedSpec => BeatingIsSafe
<1> DEFINE A == live # None /\ live' = None /\ uiUp => ended' # ended \/ kills' # kills
<1>1. TimedInv /\ FocusInv /\ Beats /\ [TimedNext]_timed => [A]_timed
  <2> SUFFICES ASSUME TimedInv, FocusInv, Beats, TimedNext, live # None, live' = None, uiUp
               PROVE  ended' # ended \/ kills' # kills
    OBVIOUS
  <2>1. (\E reason \in {"manual", "timer"} : EndClock(reason)) \/ ParkByHeartbeat \/ Recover
    <3>1. CASE Advance \/ RestoreClock \/ DiscardClock \/ UiStops \/ UiReturns
      BY <3>1 DEF Advance, RestoreClock, Restore, DiscardClock, Discard, UiStops, UiReturns, vars
    <3>2. CASE StartClock
      BY <3>2 DEF StartClock, Start
    <3>3. CASE Poll
      <4>1. live \in Session /\ LeftNow \in 0 .. live.left
        BY <3>3, RefreshIsFair DEF Poll, TimedInv, ClockOK, TypeOK
      <4>2. [live EXCEPT !.left = LeftNow] \in Session
        BY <4>1 DEF Session
      <4> QED
        BY <3>3, <4>2, NoneType DEF Poll
    <3> QED
      BY <3>1, <3>2, <3>3 DEF TimedNext
  <2>2. ~ ParkByHeartbeat
    BY PollsBeat, GapType, TimeoutType, UnitType DEF ParkByHeartbeat, Beats, TimedInv, ClockOK
  <2>3. Recover => kills' # kills
    BY DEF Recover, TimedInv, ClockOK
  <2>4. ASSUME NEW reason, EndClock(reason) PROVE ended' # ended
    BY <2>4, EndsAnew DEF EndClock
  <2> QED
    BY <2>1, <2>2, <2>3, <2>4
<1>2. TimedSpec => []FocusInv
  BY TimedRefines, FocusInit, FocusNext, PTL DEF RefinesFocusSession, Spec
<1> QED
  BY <1>1, <1>2, BeatsInit, BeatsNext, TimedInvAlways, PTL DEF TimedSpec, BeatingIsSafe

=============================================================================
