---------------------------- MODULE EngineFocus -----------------------------
(***************************************************************************)
(* Engine implements FocusSession: the refinement mapping.  A session is   *)
(* ended, or parked, by the step that takes it from the slot; what the     *)
(* thread does with it later is not visible.                               *)
(***************************************************************************)
EXTENDS Engine

Abstract(sess) ==
  IF sess = None THEN None
  ELSE [started |-> sess.started, profile |-> sess.profile, left |-> sess.left]

\* Clients that took a session and have not written it to the history.
Finishing == {c \in Client : Ending(c)}

AbstractOffer ==
  CASE frame[Watchdog].mine # None /\ frame[Watchdog].mine.left > 0 ->
         Abstract(frame[Watchdog].mine)
    [] \E c \in Client : pc[c] = "unpark" -> None
    [] OTHER -> Abstract(interrupted)

AbstractEnded ==
  {[started |-> h.started, reason |-> h.reason] : h \in history}
    \cup {[started |-> frame[c].mine.started, reason |-> Reason(c)] : c \in Finishing}

Focus == INSTANCE FocusSession WITH
  Started <- 1 .. MaxLive,
  live <- Abstract(session), offer <- AbstractOffer, ended <- AbstractEnded

\* FocusSession takes None for no session, too.
ASSUME FocusNoneType == None \notin Focus!Session

\* Until the service stops, the engine behaves as the abstract focus session: starts
\* are refused while one is live, a timer ends only a session that ran out, and a
\* parked session comes back once.
ImplementsFocusSession ==
  Focus!Init /\ [][stops' = 0 => [Focus!Next]_(Focus!vars)]_vars

=============================================================================
