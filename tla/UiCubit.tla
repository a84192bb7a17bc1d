------------------------------- MODULE UiCubit -------------------------------
(***************************************************************************)
(* The state of the UI (lib/engine/shield_cubit.dart) about the session,   *)
(* and the calls that bring it up to date.                                 *)
(*                                                                         *)
(* The cubit runs in one isolate: between two awaits a method is one step. *)
(* A method that awaits a call lets the others run, and every call has a   *)
(* connection of its own (shield_rpc.dart), so answers come in any order.  *)
(* The user starts one method at a time; a tick of the timer starts a      *)
(* pull, however many are under way.  A call that is not answered within   *)
(* 8 seconds is an error to the UI, while the service goes on with it.     *)
(*                                                                         *)
(* The service is that of Engine, with the steps of each handler grouped   *)
(* into those that the UI can tell apart.  Sessions are numbered; `over'   *)
(* says that the live one has no time left.  Left out: profiles, sites,    *)
(* the history, and the health poll, which sets no field modelled here.    *)
(***************************************************************************)
EXTENDS Naturals

CONSTANTS
  Pull,          \* pulls that may be under way at once
  None, Error,   \* null, and the map that stands for a call that failed
  MaxStarts,     \* bound on the sessions started
  MaxFaults      \* bound on the calls that time out and the ends of the service

User == "user"
Lost == "lost"   \* a call the UI no longer waits for
Task == Pull \cup {User}

Sessions == 1 .. MaxStarts
Ops == {"get_session", "end_session", "pop_session_summary", "start_session",
        "restore_interrupted_session", "discard_interrupted_session", "health",
        "get_interrupted_session"}

Call == [op : Ops, stage : {"sent", "install", "publish", "pop", "done"},
         val : Sessions \cup {None, Error}]

ASSUME TasksDistinct == User \notin Pull /\ Lost \notin Task
ASSUME BoundsType    == MaxStarts \in Nat /\ MaxFaults \in Nat
ASSUME NoneType      == None \notin Call \cup Sessions /\ Error \notin Sessions \cup {None}

VARIABLES
  \* ShieldState: session, interruptedSession, and every lastSummary it has had
  session, interrupted, shown,
  \* where each method is, and the local variables of the user's: the summary of
  \* endSession, the session refresh has read
  at, summary, read,
  \* the call each method awaits, and the one that timed out
  call,
  \* the service: session, its time, pending_summary, the parked session
  live, over, pending, offer,
  \* counters that the bounds cap
  starts, timeouts, stops

cubit   == <<session, interrupted, shown>>
locals  == <<at, summary, read>>
service == <<live, over, pending, offer>>
bounds  == <<starts, timeouts, stops>>
vars    == <<cubit, locals, call, service, bounds>>

-----------------------------------------------------------------------------
(* The service: the steps of the handler of the call x awaits *)

SendFor(x, op, val) == call' = [call EXCEPT ![x] = [op |-> op, stage |-> "sent", val |-> val]]

Send(x, op) == SendFor(x, op, None)

In(x, op, stage) == call[x] # None /\ call[x].op = op /\ call[x].stage = stage

Stage(x, stage, val) == call' = [call EXCEPT ![x].stage = stage, ![x].val = val]

\* The answer of a call nobody waits for goes nowhere.
Answer(x, val) == IF x = Lost THEN call' = [call EXCEPT ![x] = None] ELSE Stage(x, "done", val)

ServiceOnly == UNCHANGED <<cubit, locals, bounds>>

\* Mutant: a snapshot never finishes a session.
GetWithoutTimer(x) ==
  /\ In(x, "get_session", "sent") /\ ServiceOnly
  /\ Answer(x, live)
  /\ UNCHANGED service

\* snapshot_session: the session, or none after the timer has taken it ...
Get(x) ==
  /\ In(x, "get_session", "sent") /\ ServiceOnly
  /\ \/ ~ over /\ Answer(x, live) /\ UNCHANGED <<live, over>>
     \/ /\ over /\ Stage(x, "publish", live)
        /\ live' = None /\ over' = FALSE
  /\ UNCHANGED <<pending, offer>>

\* EndSession discards the offer and takes the session ...
End(x) ==
  /\ In(x, "end_session", "sent") /\ ServiceOnly
  /\ offer' = None
  /\ live' = None /\ over' = FALSE
  /\ Stage(x, IF live = None THEN "pop" ELSE "publish", live)
  /\ UNCHANGED <<pending>>

\* ... and finish_session publishes the summary once the network is clear.
Publish(x) ==
  /\ call[x] # None /\ call[x].stage = "publish" /\ ServiceOnly
  /\ pending' = call[x].val
  /\ IF call[x].op = "end_session" THEN Stage(x, "pop", call[x].val) ELSE Answer(x, None)
  /\ UNCHANGED <<live, over, offer>>

\* EndSession takes the summary out again and answers with its own.
PopOwn(x) ==
  /\ In(x, "end_session", "pop") /\ ServiceOnly
  /\ pending' = None
  /\ Answer(x, call[x].val)
  /\ UNCHANGED <<live, over, offer>>

Pop(x) ==
  /\ In(x, "pop_session_summary", "sent") /\ ServiceOnly
  /\ Answer(x, pending)
  /\ pending' = None
  /\ UNCHANGED <<live, over, offer>>

\* StartSession, and RestoreInterruptedSession, which needs an offer: the check ...
Check(x) ==
  /\ In(x, "start_session", "sent") \/ In(x, "restore_interrupted_session", "sent")
  /\ ServiceOnly
  /\ LET restore == call[x].op = "restore_interrupted_session" IN
     \/ /\ live # None \/ (restore /\ offer = None)
        /\ Answer(x, Error) /\ UNCHANGED offer
     \/ /\ live = None /\ restore /\ offer # None
        /\ Stage(x, "install", offer) /\ UNCHANGED offer
     \/ /\ live = None /\ ~ restore
        /\ offer' = None
        /\ Stage(x, "install", call[x].val)
  /\ UNCHANGED <<live, over, pending>>

\* ... and, when the rules are applied, the session.
Install(x) ==
  /\ call[x] # None /\ call[x].stage = "install" /\ ServiceOnly
  /\ live' = call[x].val /\ over' = FALSE
  /\ pending' = None
  /\ offer' = IF call[x].op = "restore_interrupted_session" THEN None ELSE offer
  /\ Answer(x, call[x].val)

Discard(x) ==
  /\ In(x, "discard_interrupted_session", "sent") /\ ServiceOnly
  /\ offer' = None
  /\ Answer(x, None)
  /\ UNCHANGED <<live, over, pending>>

\* Health and GetInterruptedSession change nothing.
Look(x) ==
  /\ \/ In(x, "health", "sent") /\ Answer(x, None)
     \/ In(x, "get_interrupted_session", "sent") /\ Answer(x, offer)
  /\ ServiceOnly /\ UNCHANGED service

Serve(x) ==
  \/ Get(x) \/ End(x) \/ Publish(x) \/ PopOwn(x) \/ Pop(x) \/ Check(x) \/ Install(x)
  \/ Discard(x) \/ Look(x)

TimeIsUp ==
  /\ live # None /\ ~ over
  /\ over' = TRUE
  /\ UNCHANGED <<cubit, locals, call, live, pending, offer, bounds>>

\* The service ends and comes back: a live session is parked by its warm-up, and the
\* calls it was serving get no answer.
ServiceRestarts ==
  /\ timeouts + stops < MaxFaults /\ stops' = stops + 1
  /\ offer' = IF live # None /\ ~ over THEN live ELSE offer
  /\ live' = None /\ over' = FALSE /\ pending' = None
  /\ call' = [x \in Task \cup {Lost} |->
       IF x = Lost \/ call[x] = None THEN None
       ELSE IF call[x].stage = "done" THEN call[x]
       ELSE [call[x] EXCEPT !.stage = "done", !.val = Error]]
  /\ UNCHANGED <<cubit, locals, starts, timeouts>>

-----------------------------------------------------------------------------
(* The UI *)

UiOnly == UNCHANGED <<service, bounds>>

Done(t, label) == at[t] = label /\ call[t].stage = "done"

\* Go on to the next call, or return.
Await(t, label, op) == at' = [at EXCEPT ![t] = label] /\ Send(t, op)

Return(t) ==
  /\ at' = [at EXCEPT ![t] = "idle"]
  /\ call' = [call EXCEPT ![t] = None]

\* ShieldRpc.call gives up: the service does not know.
TimesOut(t) ==
  /\ timeouts + stops < MaxFaults /\ timeouts' = timeouts + 1
  /\ call[Lost] = None
  /\ call[t] # None /\ call[t].stage # "done"
  /\ call' = [call EXCEPT ![t].stage = "done", ![t].val = Error, ![Lost] = call[t]]
  /\ UNCHANGED <<cubit, locals, service, starts, stops>>

\* The session tick, every second while the UI shows a session.
Tick(t) ==
  /\ at[t] = "idle" /\ session # None
  /\ Await(t, "pull", "get_session")
  /\ UiOnly /\ UNCHANGED <<cubit, summary, read>>

\* Mutant: the answer replaces the session only if there is one.
PullKeeping(t) ==
  /\ Done(t, "pull")
  /\ session' = IF call[t].val \in {Error, None} THEN session ELSE call[t].val
  /\ IF call[t].val = None THEN Await(t, "pop", "pop_session_summary") ELSE Return(t)
  /\ UiOnly /\ UNCHANGED <<interrupted, shown, summary, read>>

\* Mutant: whether a session was shown is asked after the answer, not before the call.
PulledLate(t) ==
  /\ Done(t, "pull")
  /\ session' = IF call[t].val = Error THEN session ELSE call[t].val
  /\ IF call[t].val = None /\ session # None
     THEN Await(t, "pop", "pop_session_summary") ELSE Return(t)
  /\ UiOnly /\ UNCHANGED <<interrupted, shown, summary, read>>

\* _pullSession: no session clears the one shown, an error keeps it.
Pulled(t) ==
  /\ Done(t, "pull")
  /\ session' = IF call[t].val = Error THEN session ELSE call[t].val
  /\ IF call[t].val = None THEN Await(t, "pop", "pop_session_summary") ELSE Return(t)
  /\ UiOnly /\ UNCHANGED <<interrupted, shown, summary, read>>

Show(s) == shown' = IF s \in {None, Error} THEN shown ELSE shown \cup {s}

Popped(t) ==
  /\ Done(t, "pop")
  /\ Show(call[t].val)
  /\ Return(t)
  /\ UiOnly /\ UNCHANGED <<session, interrupted, summary, read>>

\* startSession, unless a session is shown.
UserStarts ==
  /\ at[User] = "idle" /\ session = None
  /\ starts < MaxStarts /\ starts' = starts + 1
  /\ at' = [at EXCEPT ![User] = "act"]
  /\ SendFor(User, "start_session", starts')
  /\ UNCHANGED <<cubit, summary, read, service, timeouts, stops>>

\* endSession drops the session it shows before it calls.
UserEnds ==
  /\ at[User] = "idle" /\ session # None
  /\ session' = None
  /\ Await(User, "end", "end_session")
  /\ UiOnly /\ UNCHANGED <<interrupted, shown, summary, read>>

UserRestores ==
  /\ at[User] = "idle" /\ interrupted # None
  /\ Await(User, "restore", "restore_interrupted_session")
  /\ UiOnly /\ UNCHANGED <<cubit, summary, read>>

UserDiscards ==
  /\ at[User] = "idle" /\ interrupted # None
  /\ Await(User, "discard", "discard_interrupted_session")
  /\ UiOnly /\ UNCHANGED <<cubit, summary, read>>

\* Any other action of the user, a rule or a profile saved, ends in a refresh.
UserActs ==
  /\ at[User] = "idle" /\ session = None
  /\ Await(User, "health", "health")
  /\ UiOnly /\ UNCHANGED <<cubit, summary, read>>

Acted ==
  /\ Done(User, "act")
  /\ Await(User, "health", "health")
  /\ UiOnly /\ UNCHANGED <<cubit, summary, read>>

Ended ==
  /\ Done(User, "end")
  /\ summary' = IF call[User].val = Error THEN None ELSE call[User].val
  /\ Await(User, "health", "health")
  /\ UiOnly /\ UNCHANGED <<cubit, read>>

\* An error of a restore takes the offer away, and there is no refresh.
Restored ==
  /\ Done(User, "restore")
  /\ \/ /\ call[User].val = Error
        /\ interrupted' = None
        /\ Return(User)
     \/ /\ call[User].val # Error
        /\ Await(User, "health", "health") /\ UNCHANGED interrupted
  /\ UiOnly /\ UNCHANGED <<session, shown, summary, read>>

Discarded ==
  /\ Done(User, "discard")
  /\ interrupted' = None
  /\ Return(User)
  /\ UiOnly /\ UNCHANGED <<session, shown, summary, read>>

\* The method returns from its refresh; endSession then shows its summary.
Leave == Return(User) /\ Show(summary) /\ summary' = None /\ read' = None

\* refresh: health and the lists first.  An error of one of them ends it.
Refreshes ==
  /\ Done(User, "health")
  /\ \/ call[User].val = Error /\ Leave
     \/ /\ call[User].val # Error
        /\ Await(User, "session", "get_session") /\ UNCHANGED <<shown, summary, read>>
  /\ UiOnly /\ UNCHANGED <<session, interrupted>>

ReadSession ==
  /\ Done(User, "session")
  /\ read' = call[User].val
  /\ Await(User, "offer", "get_interrupted_session")
  /\ UiOnly /\ UNCHANGED <<cubit, summary>>

\* Mutant: the session is emitted whatever kind of answer it came from.
RefreshedRaw ==
  /\ Done(User, "offer")
  /\ session' = read
  /\ interrupted' = IF call[User].val = Error THEN None ELSE call[User].val
  /\ Leave
  /\ UiOnly

Refreshed ==
  /\ Done(User, "offer")
  /\ session' = IF read = Error THEN session ELSE read
  /\ interrupted' = IF call[User].val = Error THEN None ELSE call[User].val
  /\ Leave
  /\ UiOnly

UserGoesOn ==
  Acted \/ Ended \/ Restored \/ Discarded \/ Refreshes \/ ReadSession \/ Refreshed

-----------------------------------------------------------------------------
Init ==
  /\ session = None /\ interrupted = None /\ shown = {}
  /\ at = [t \in Task |-> "idle"] /\ summary = None /\ read = None
  /\ call = [x \in Task \cup {Lost} |-> None]
  /\ live = None /\ over = FALSE /\ pending = None /\ offer = None
  /\ starts = 0 /\ timeouts = 0 /\ stops = 0

Next ==
  \/ \E x \in Task \cup {Lost} : Serve(x)
  \/ \E t \in Pull : Tick(t) \/ Pulled(t) \/ Popped(t)
  \/ \E t \in Task : TimesOut(t)
  \/ UserStarts \/ UserEnds \/ UserRestores \/ UserDiscards \/ UserActs \/ UserGoesOn
  \/ TimeIsUp \/ ServiceRestarts

Spec == Init /\ [][Next]_vars

\* The service serves what it gets, time passes, the isolate handles what is answered
\* and its timer ticks.  The user has to do nothing.
Fairness ==
  /\ \A t \in Pull : WF_vars(Serve(t) \/ Tick(t) \/ Pulled(t) \/ Popped(t))
  /\ WF_vars(Serve(User) \/ UserGoesOn)
  /\ WF_vars(Serve(Lost))
  /\ WF_vars(TimeIsUp)

FairSpec == Spec /\ Fairness

-----------------------------------------------------------------------------
(* Properties *)

\* The cubit, its methods and the service hold values of their types; no answer that
\* is an error gets into the state of the UI.
TypeOK ==
  /\ {session, interrupted, summary, live, pending, offer} \subseteq Sessions \cup {None}
  /\ read \in Sessions \cup {None, Error} /\ shown \subseteq Sessions /\ over \in BOOLEAN
  /\ at \in [Task -> {"idle", "pull", "pop", "act", "end", "restore", "discard", "health",
                      "session", "offer"}]
  /\ call \in [Task \cup {Lost} -> Call \cup {None}]
  /\ \A t \in Task : at[t] = "idle" <=> call[t] = None

\* A session the UI shows and the service no longer has goes from the screen, whatever
\* late answers bring it back in between.
StaleGoes == (session # None /\ live = None) ~> (session = None \/ live # None)

\* A session that the UI shows is ended when its time is up: nothing but the pulls
\* looks at the clock, and a failed pull does not end them.
ShownSessionEnds ==
  \A s \in Sessions : (live = s /\ session = s) ~> (live # s \/ session # s)

\* The summary of a session whose time was found to be up by a pull is shown to the
\* user, whichever of the pulls under way gets it, unless the user did something else
\* meanwhile or a call failed.  Only of the newest session, when no pull is finishing
\* another: the service keeps one summary.
TimerSummaryShown ==
  \A s \in Sessions :
    (\E t \in Pull : /\ In(t, "get_session", "publish") /\ call[t].val = s /\ starts = s
                    /\ \A x \in Pull \ {t} : ~ In(x, "get_session", "publish"))
      ~> (s \in shown \/ at[User] # "idle" \/ timeouts > 0 \/ stops > 0)

\* README: when the session timer completes, the rules are dropped.  Not so once a
\* late answer about the session before has taken a live one from the screen: no pull
\* looks at its clock any more, and the health poll keeps the watchdog away.
TimerEnds == \A s \in Sessions : live = s ~> live # s

=============================================================================
