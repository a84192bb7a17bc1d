---------------------------- MODULE FocusSession ----------------------------
(***************************************************************************)
(* What the engine promises about focus sessions, without threads, network *)
(* or database: at most one session is live, it ends in one way, and one   *)
(* session may be parked for the user to take up again.                    *)
(*                                                                         *)
(* Every action is one request, or one decision of the watchdog, made in   *)
(* one step.  Engine implements this specification as long as one request  *)
(* is in progress at a time (see MCEngine).                                *)
(***************************************************************************)
EXTENDS Naturals

CONSTANTS
  Profile,   \* profiles
  Duration,  \* durations a start may ask for
  Started,   \* names of sessions (started_at of a LiveSession)
  None       \* no session

Session == [started : Started, profile : Profile, left : Nat]
Record  == [started : Started, reason : {"manual", "timer"}]

ASSUME DurationType == Duration \subseteq Nat
ASSUME NoneType     == None \notin Session

VARIABLES
  live,   \* the live session
  offer,  \* the parked session the UI may restore
  ended   \* the history

vars == <<live, offer, ended>>

Init == live = None /\ offer = None /\ ended = {}

Fresh(n) ==
  /\ \A h \in ended : h.started # n
  /\ live # None => live.started # n
  /\ offer # None => offer.started # n

\* StartSession: refused while a session is live; it replaces the offer.
Start ==
  /\ live = None
  /\ \E n \in Started, p \in Profile, d \in Duration :
       Fresh(n) /\ live' = [started |-> n, profile |-> p, left |-> d]
  /\ offer' = None
  /\ UNCHANGED ended

\* Time passes, and somebody looks at the clock.
Tick ==
  /\ live # None
  /\ \E n \in 0 .. live.left : live' = [live EXCEPT !.left = n]
  /\ UNCHANGED <<offer, ended>>

\* EndSession at any time, which discards the offer, or the timer of a session that
\* has no time left.
End(reason) ==
  /\ live # None
  /\ reason = "timer" => live.left = 0
  /\ live' = None
  /\ ended' = ended \cup {[started |-> live.started, reason |-> reason]}
  /\ offer' = IF reason = "manual" THEN None ELSE offer

\* The UI is gone: what time is left, if any, is offered to the next UI.
Park ==
  /\ live # None
  /\ live' = None
  /\ \E n \in 0 .. live.left :
       offer' = IF n = 0 THEN offer ELSE [live EXCEPT !.left = n]
  /\ UNCHANGED ended

Restore ==
  /\ live = None /\ offer # None
  /\ live' = offer /\ offer' = None
  /\ UNCHANGED ended

Discard == offer' = None /\ UNCHANGED <<live, ended>>

\* ClearSessionHistory: of the sessions that ended, nothing is known any more.
ClearHistory == ended' = {} /\ UNCHANGED <<live, offer>>

Next ==
  \/ Start \/ Tick \/ (\E reason \in {"manual", "timer"} : End(reason))
  \/ Park \/ Restore \/ Discard \/ ClearHistory

Spec == Init /\ [][Next]_vars

-----------------------------------------------------------------------------
\* The session, the offer and the history are of the kinds named above.
TypeOK ==
  /\ live \in Session \cup {None}
  /\ offer \in Session \cup {None}
  /\ ended \subseteq Record

\* A session is in one place only: it is not live and parked at the same time, and
\* one that ended is neither live nor parked and has ended in one way.
InOnePlace ==
  /\ live # None /\ offer # None => live.started # offer.started
  /\ \A h \in ended :
       /\ live # None => live.started # h.started
       /\ offer # None => offer.started # h.started
       /\ \A k \in ended : h.started = k.started => h = k

=============================================================================
