---------------------------- MODULE EngineProofs ----------------------------
(***************************************************************************)
(* Proofs about Engine, for every set of clients, profiles and rules and   *)
(* every value of the bounds: type correctness, that no interleaving       *)
(* orphans a rule, that a LiveSession is ended by one thread only, and     *)
(* that no checkpoint outlives the session it was made of.                 *)
(***************************************************************************)
EXTENDS Engine, TLAPS

-----------------------------------------------------------------------------
(* Threads and frames *)

LEMMA ThreadFacts ==
  /\ Client \subseteq Thread /\ Watchdog \in Thread /\ Warm \in Thread /\ Watchdog # Warm
  /\ \A c \in Client : Labels(c) = ClientLabels /\ c # Watchdog /\ c # Warm
  /\ Labels(Watchdog) = WatchdogLabels /\ Labels(Warm) = WarmLabels
BY ThreadsDistinct DEF Thread, Labels, Watchdog, Warm

\* The step that serves a command first is a step of a client thread.
LEMMA FirstStepIsClients ==
  ASSUME NEW cmd \in AllCommands
  PROVE  FirstStep(cmd) \in ClientLabels
BY DEF AllCommands, FirstStep, ClientLabels, FinishLabels

LEMMA EmptyFrameTyped == EmptyFrame \in Frame
BY DEF EmptyFrame, Frame

LEMMA FrameWithMine ==
  ASSUME NEW f \in Frame, NEW sess \in LiveSession \cup {None}
  PROVE  /\ [f EXCEPT !.mine = sess] \in Frame
         /\ [EmptyFrame EXCEPT !.mine = sess] \in Frame
BY EmptyFrameTyped DEF Frame

\* A thread that moves to a label of its own code, with a frame of the right
\* type, keeps all threads well typed.
LEMMA GotoWithTyped ==
  ASSUME ThreadsOK, NEW t \in Thread, NEW label \in Labels(t), NEW f \in Frame,
         GotoWith(t, label, f)
  PROVE  ThreadsOK'
BY DEF ThreadsOK, GotoWith

LEMMA GotoTyped ==
  ASSUME ThreadsOK, NEW t \in Thread, NEW label \in Labels(t), Goto(t, label)
  PROVE  ThreadsOK'
BY DEF ThreadsOK, Goto

LEMMA ReturnTyped ==
  ASSUME ThreadsOK, NEW t \in Thread, Return(t)
  PROVE  ThreadsOK'
<1>1. "idle" \in Labels(t)
  BY DEF Labels, WatchdogLabels, WarmLabels, ClientLabels
<1> QED
  BY <1>1, EmptyFrameTyped DEF ThreadsOK, Return, GotoWith

\* A clock refresh yields a session again, and never None.
LEMMA RefreshedTyped ==
  ASSUME NEW sess \in LiveSession, NEW next \in Refreshed(sess)
  PROVE  next \in LiveSession /\ next # None /\ next.left \in Nat
BY NoneType DEF Refreshed, LiveSession

\* What the local variables of a handler hold at each of its steps: a start or a
\* restore that touches the network has built its LiveSession, a finish_session
\* holds the one it took.
Fits(t, label, f) ==
  LET arms == f.cmd \in {"StartSession", "RestoreInterruptedSession"} IN
  /\ label \in {"list_sites", "clear_all", "apply_batch", "forget_summary",
                "set_live_checkpoint", "install"} => arms /\ f.mine # None
  /\ label = "touch_ui" /\ arms => f.mine # None
  /\ label = "clear_interrupted" /\ f.cmd = "StartSession" => f.mine # None
  /\ label = "get_interrupted" => arms
  /\ label = "note_ui_pid" => ~arms
  /\ t \in Client /\ label \in FinishLabels => f.mine # None

AllPrepared == \A t \in Thread : Fits(t, pc[t], frame[t])

-----------------------------------------------------------------------------
(* Type correctness *)

LEMMA InitTyped == Init => TypeOK
<1> SUFFICES ASSUME Init PROVE TypeOK
  OBVIOUS
<1>1. frame \in [Thread -> Frame]
  BY EmptyFrameTyped DEF Init, InitWith
<1>2. pc \in [Thread -> UNION {Labels(t) : t \in Thread}] /\ \A t \in Thread : pc[t] \in Labels(t)
  <2>1. \A t \in Thread : pc[t] \in Labels(t)
    BY ThreadFacts DEF Init, InitWith, ClientLabels, WatchdogLabels, WarmLabels, Labels
  <2> QED
    BY <2>1 DEF Init, InitWith
<1> QED
  BY <1>1, <1>2 DEF Init, InitWith, TypeOK, DataOK, ThreadsOK


\* The steps of a start and of a restore keep the types.
LEMMA StartStepsTyped ==
  ASSUME TypeOK, NEW c \in Client, StartOrRestore(c)
  PROVE  TypeOK'
<1> USE ThreadFacts
<1> DataOK /\ ThreadsOK
  BY DEF TypeOK
<1> c \in Thread /\ Labels(c) = ClientLabels
  OBVIOUS
<1>f. frame[c] \in Frame
  BY DEF ThreadsOK
<1>l. {"idle", "clear_interrupted", "get_interrupted", "list_sites", "clear_all", "apply_batch",
       "forget_summary", "touch_ui", "set_live_checkpoint", "install", "unpark", "snapshot"} \subseteq ClientLabels
  BY DEF ClientLabels, FinishLabels
<1>1. CASE CheckSession(c)
  <2>1. DataOK'
    BY <1>1 DEF CheckSession, DataOK, net, ui, world, disk, data
  <2>2. ThreadsOK'
    <3>1. CASE Return(c)
      BY <3>1, ReturnTyped
    <3>2. CASE Goto(c, "get_interrupted")
      BY <3>2, <1>l, GotoTyped
    <3>3. ASSUME NEW p \in Profile, NEW d \in Duration,
                 lives' = lives + 1,
                 GotoWith(c, "clear_interrupted",
                   [frame[c] EXCEPT !.mine = [id |-> lives', started |-> lives',
                                              profile |-> p, left |-> d]])
          PROVE  ThreadsOK'
      <4>1. [id |-> lives', started |-> lives', profile |-> p, left |-> d] \in LiveSession
        BY <3>3, DurationType DEF DataOK, LiveSession
      <4> QED
        BY <3>3, <4>1, <1>f, <1>l, FrameWithMine, GotoWithTyped
    <3> QED
      BY <1>1, <3>1, <3>2, <3>3 DEF CheckSession
  <2> QED
    BY <2>1, <2>2 DEF TypeOK
<1>2. CASE GetInterrupted(c)
  <2>1. DataOK'
    BY <1>2 DEF GetInterrupted, DataOK, net, ui, world, disk, data
  <2>2. ThreadsOK'
    <3>1. CASE Return(c)
      BY <3>1, ReturnTyped
    <3>2. CASE interrupted # None /\ lives' = lives + 1
      <4>1. [interrupted EXCEPT !.id = lives'] \in LiveSession
        BY <3>2 DEF DataOK, LiveSession
      <4>2. [frame[c] EXCEPT !.mine = [interrupted EXCEPT !.id = lives']] \in Frame
        BY <4>1, <1>f, FrameWithMine
      <4>3. CASE GotoWith(c, "list_sites", [frame[c] EXCEPT !.mine = [interrupted EXCEPT !.id = lives']])
        BY <4>2, <4>3, <1>l, GotoWithTyped
      <4> QED
        BY <1>2, <3>1, <3>2, <4>3 DEF GetInterrupted
    <3> QED
      BY <1>2, <3>1, <3>2 DEF GetInterrupted
  <2> QED
    BY <2>1, <2>2 DEF TypeOK
<1>3. CASE ListSites(c)
  <2>1. DataOK'
    BY <1>3 DEF ListSites, DataOK, net, ui, world, disk, data
  <2>2. ThreadsOK'
    <3> DEFINE rules == RulesOf(frame[c].mine.profile)
    <3>1. rules \subseteq Site
      BY DEF RulesOf, DataOK
    <3>2. [frame[c] EXCEPT !.rules = rules, !.todo = rules] \in Frame
      BY <3>1, <1>f DEF Frame
    <3> QED
      BY <1>3, <3>2, <1>l, GotoWithTyped DEF ListSites
  <2> QED
    BY <2>1, <2>2 DEF TypeOK
<1>4. CASE ClearBeforeApply(c)
  <2>1. DataOK'
    BY <1>4 DEF ClearBeforeApply, DataOK, net, ui, world, disk, data, ClearAll, SyncHosts
  <2>2. ThreadsOK'
    BY <1>4, <1>l, GotoTyped DEF ClearBeforeApply
  <2> QED
    BY <2>1, <2>2 DEF TypeOK
<1>5. CASE ApplyOne(c)
  <2>1. DataOK'
    BY <1>5, <1>f DEF ApplyOne, DataOK, net, ui, world, disk, data, Apply, SyncHosts, Frame
  <2>2. ThreadsOK'
    <3>1. PICK s \in frame[c].todo :
            GotoWith(c, "apply_batch", [frame[c] EXCEPT !.todo = frame[c].todo \ {s}])
      BY <1>5 DEF ApplyOne
    <3>2. [frame[c] EXCEPT !.todo = frame[c].todo \ {s}] \in Frame
      BY <1>f DEF Frame
    <3> QED
      BY <3>1, <3>2, <1>l, GotoWithTyped
  <2> QED
    BY <2>1, <2>2 DEF TypeOK
<1>6. CASE SetActive(c)
  <2>1. DataOK'
    BY <1>6, <1>f DEF SetActive, DataOK, net, ui, world, disk, data, Frame
  <2>2. ThreadsOK'
    BY <1>6, <1>l, GotoTyped DEF SetActive
  <2> QED
    BY <2>1, <2>2 DEF TypeOK
<1>7. CASE ForgetSummary(c)
  <2>1. DataOK'
    BY <1>7 DEF ForgetSummary, DataOK, net, ui, world, disk, data
  <2>2. ThreadsOK'
    BY <1>7, <1>l, GotoTyped DEF ForgetSummary
  <2> QED
    BY <2>1, <2>2 DEF TypeOK
<1>8. CASE SetLiveCheckpoint(c)
  <2>1. DataOK'
    BY <1>8, <1>f DEF SetLiveCheckpoint, DataOK, net, ui, world, disk, data, Frame
  <2>2. ThreadsOK'
    BY <1>8, <1>l, GotoTyped DEF SetLiveCheckpoint
  <2> QED
    BY <2>1, <2>2 DEF TypeOK
<1>9. CASE Install(c)
  <2>1. DataOK'
    BY <1>9, <1>f DEF Install, DataOK, net, ui, world, disk, data, Frame
  <2>2. ThreadsOK'
    <3>1. [EmptyFrame EXCEPT !.cmd = frame[c].cmd] \in Frame
      BY <1>f, EmptyFrameTyped DEF Frame
    <3> QED
      BY <1>9, <3>1, <1>l, GotoWithTyped DEF Install
  <2> QED
    BY <2>1, <2>2 DEF TypeOK
<1>10. CASE Unpark(c)
  <2>1. DataOK'
    BY <1>10 DEF Unpark, DataOK, net, ui, world, disk, data
  <2>2. ThreadsOK'
    BY <1>10, <1>l, GotoTyped DEF Unpark
  <2> QED
    BY <2>1, <2>2 DEF TypeOK
<1> QED
  BY <1>1, <1>2, <1>3, <1>4, <1>5, <1>6, <1>7, <1>8, <1>9, <1>10 DEF StartOrRestore

\* The steps of finish_session keep the types.
LEMMA FinishStepsTyped ==
  ASSUME TypeOK, AllPrepared, NEW c \in Client, Finish(c)
  PROVE  TypeOK'
<1> USE ThreadFacts
<1> DataOK /\ ThreadsOK
  BY DEF TypeOK
<1> c \in Thread /\ Labels(c) = ClientLabels
  OBVIOUS
<1>f. frame[c] \in Frame
  BY DEF ThreadsOK
<1>l. {"idle", "clear_live_checkpoint", "clear_network", "record", "publish", "pop"} \subseteq ClientLabels
  BY DEF ClientLabels, FinishLabels
<1>m. pc[c] \in FinishLabels => frame[c].mine \in LiveSession
  BY <1>f DEF AllPrepared, Fits, Frame
<1>1. CASE TakeSession(c)
  <2>1. DataOK'
    BY <1>1 DEF TakeSession, DataOK, net, ui, world, disk, data
  <2>2. ThreadsOK'
    <3>1. CASE AfterFinish(c)
      BY <3>1, <1>l, GotoTyped, ReturnTyped DEF AfterFinish
    <3>2. CASE session # None /\ \E sess \in Refreshed(session) :
                 GotoWith(c, "clear_live_checkpoint", [frame[c] EXCEPT !.mine = sess])
      <4>1. PICK sess \in Refreshed(session) :
              GotoWith(c, "clear_live_checkpoint", [frame[c] EXCEPT !.mine = sess])
        BY <3>2
      <4>2. [frame[c] EXCEPT !.mine = sess] \in Frame
        BY <3>2, <1>f, RefreshedTyped, FrameWithMine DEF DataOK
      <4> QED
        BY <4>1, <4>2, <1>l, GotoWithTyped
    <3> QED
      BY <1>1, <3>1, <3>2 DEF TakeSession
  <2> QED
    BY <2>1, <2>2 DEF TypeOK
<1>2. CASE ClearLiveCheckpoint(c)
  <2>1. DataOK'
    BY <1>2 DEF ClearLiveCheckpoint, DataOK, net, ui, world, disk, data
  <2>2. ThreadsOK'
    BY <1>2, <1>l, GotoTyped DEF ClearLiveCheckpoint
  <2> QED
    BY <2>1, <2>2 DEF TypeOK
<1>3. CASE Record(c)
  <2>1. DataOK'
    BY <1>3, <1>m DEF Record, DataOK, net, ui, world, disk, data, Reason, LiveSession, At, FinishLabels
  <2>2. ThreadsOK'
    BY <1>3, <1>l, GotoTyped DEF Record
  <2> QED
    BY <2>1, <2>2 DEF TypeOK
<1>4. CASE Publish(c)
  <2>1. DataOK'
    BY <1>4, <1>m DEF Publish, DataOK, net, ui, world, disk, data, LiveSession, At, FinishLabels
  <2>2. ThreadsOK'
    <3>1. [frame[c] EXCEPT !.mine = None] \in Frame
      BY <1>f, FrameWithMine
    <3> QED
      BY <1>4, <3>1, <1>l, GotoWithTyped, ReturnTyped DEF Publish
  <2> QED
    BY <2>1, <2>2 DEF TypeOK
<1> QED
  BY <1>1, <1>2, <1>3, <1>4 DEF Finish

\* The two steps of clear_network keep the types.
LEMMA ClearStepsTyped ==
  ASSUME TypeOK, NEW t \in Thread, pc[t] \in {"clear_network", "clear_active"}, ClearNetwork(t) \/ ClearActive(t)
  PROVE  TypeOK'
<1> USE ThreadFacts
<1> DataOK /\ ThreadsOK
  BY DEF TypeOK
<1>l. /\ "clear_active" \in Labels(t)
      /\ t = Watchdog => "forget_pid" \in Labels(t)
      /\ t \in Client => "record" \in Labels(t)
  BY DEF Labels, ClientLabels, FinishLabels, WatchdogLabels, WarmLabels, Thread
<1>1. CASE ClearNetwork(t)
  <2>1. DataOK'
    BY <1>1 DEF ClearNetwork, DataOK, net, ui, world, disk, data, ClearAll, SyncHosts
  <2>2. ThreadsOK'
    BY <1>1, <1>l, GotoTyped DEF ClearNetwork
  <2> QED
    BY <2>1, <2>2 DEF TypeOK
<1>2. CASE ClearActive(t)
  <2>1. DataOK'
    BY <1>2 DEF ClearActive, DataOK, net, ui, world, disk, data
  <2>2. ThreadsOK'
    BY <1>2, <1>l, GotoTyped, ReturnTyped DEF ClearActive
  <2> QED
    BY <2>1, <2>2 DEF TypeOK
<1> QED
  BY <1>1, <1>2

\* The other steps of requests keep the types.
LEMMA OtherStepsTyped ==
  ASSUME TypeOK, NEW c \in Client, Request(c) \/ ClearInterrupted(c) \/ NoteUiPid(c) \/ TouchUi(c) \/ Pop(c)
              \/ RejectIfSession(c) \/ SetEnabled(c) \/ ClearHistory(c) \/ Snapshot(c)
  PROVE  TypeOK'
<1> USE ThreadFacts
<1> DataOK /\ ThreadsOK
  BY DEF TypeOK
<1> c \in Thread /\ Labels(c) = ClientLabels
  OBVIOUS
<1>f. frame[c] \in Frame
  BY DEF ThreadsOK
<1>l. {"idle", "list_sites", "take_session", "touch_ui", "set_live_checkpoint", "snapshot",
       "set_enabled", "clear_history"} \subseteq ClientLabels
  BY DEF ClientLabels, FinishLabels
<1>1. CASE Request(c)
  <2>1. DataOK'
    BY <1>1 DEF Request, DataOK, net, ui, world, disk, data
  <2>2. ThreadsOK'
    <3>1. PICK cmd \in Commands : \E target \in Targets(cmd) :
            GotoWith(c, FirstStep(cmd),
              [EmptyFrame EXCEPT !.cmd = cmd, !.rules = target,
                                 !.ui = IF cmd = "Health" THEN running ELSE 0])
      BY <1>1 DEF Request
    <3>2. PICK target \in Targets(cmd) :
            GotoWith(c, FirstStep(cmd),
              [EmptyFrame EXCEPT !.cmd = cmd, !.rules = target,
                                 !.ui = IF cmd = "Health" THEN running ELSE 0])
      BY <3>1
    <3>3. target \subseteq Site
      BY DEF Targets
    <3>4. [EmptyFrame EXCEPT !.cmd = cmd, !.rules = target,
                             !.ui = IF cmd = "Health" THEN running ELSE 0] \in Frame
      BY <3>3, EmptyFrameTyped DEF Frame, DataOK
    <3>5. FirstStep(cmd) \in ClientLabels
      BY FirstStepIsClients, CommandsType
    <3> QED
      BY <3>2, <3>4, <3>5, GotoWithTyped
  <2> QED
    BY <2>1, <2>2 DEF TypeOK
<1>2. CASE ClearInterrupted(c)
  <2>1. DataOK'
    BY <1>2 DEF ClearInterrupted, DataOK, net, ui, world, disk, data
  <2>2. ThreadsOK'
    BY <1>2, <1>l, GotoTyped, ReturnTyped DEF ClearInterrupted
  <2> QED
    BY <2>1, <2>2 DEF TypeOK
<1>3. CASE NoteUiPid(c)
  <2>1. DataOK'
    BY <1>3, <1>f DEF NoteUiPid, DataOK, net, ui, world, disk, data, Frame
  <2>2. ThreadsOK'
    BY <1>3, <1>l, GotoTyped, ReturnTyped DEF NoteUiPid
  <2> QED
    BY <2>1, <2>2 DEF TypeOK
<1>4. CASE TouchUi(c)
  <2>1. DataOK'
    BY <1>4 DEF TouchUi, DataOK, net, ui, world, disk, data
  <2>2. ThreadsOK'
    BY <1>4, <1>l, GotoTyped, ReturnTyped DEF TouchUi
  <2> QED
    BY <2>1, <2>2 DEF TypeOK
<1>5. CASE Pop(c)
  <2>1. DataOK'
    BY <1>5 DEF Pop, DataOK, net, ui, world, disk, data
  <2>2. ThreadsOK'
    BY <1>5, <1>l, GotoTyped, ReturnTyped DEF Pop
  <2> QED
    BY <2>1, <2>2 DEF TypeOK
<1>6. CASE RejectIfSession(c)
  <2>1. DataOK'
    BY <1>6 DEF RejectIfSession, DataOK, net, ui, world, disk, data
  <2>2. ThreadsOK'
    BY <1>6, <1>l, GotoTyped, ReturnTyped DEF RejectIfSession
  <2> QED
    BY <2>1, <2>2 DEF TypeOK
<1>7. CASE SetEnabled(c)
  <2>1. DataOK'
    BY <1>7, <1>f DEF SetEnabled, DataOK, net, ui, world, disk, data, Frame
  <2>2. ThreadsOK'
    BY <1>7, <1>l, GotoTyped, ReturnTyped DEF SetEnabled
  <2> QED
    BY <2>1, <2>2 DEF TypeOK
<1>8. CASE Snapshot(c)
  <2>1. DataOK'
    BY <1>8, RefreshedTyped DEF Snapshot, DataOK, net, ui, world, disk, data, SnapshotAt
  <2>2. ThreadsOK'
    BY <1>8, <1>l, GotoTyped, ReturnTyped DEF Snapshot, SnapshotAt
  <2> QED
    BY <2>1, <2>2 DEF TypeOK
<1>9. CASE ClearHistory(c)
  <2>1. DataOK'
    BY <1>9 DEF ClearHistory, DataOK, net, ui, world, disk, data
  <2>2. ThreadsOK'
    BY <1>9, <1>l, GotoTyped, ReturnTyped DEF ClearHistory
  <2> QED
    BY <2>1, <2>2 DEF TypeOK
<1> QED
  BY <1>1, <1>2, <1>3, <1>4, <1>5, <1>6, <1>7, <1>8, <1>9

\* The steps of the watchdog keep the types.
LEMMA WatchdogStepsTyped ==
  ASSUME TypeOK, WatchdogStep
  PROVE  TypeOK'
<1> USE ThreadFacts
<1> DataOK /\ ThreadsOK
  BY DEF TypeOK
<1>f. frame[Watchdog] \in Frame
  BY DEF ThreadsOK
<1>l. WatchdogLabels = Labels(Watchdog) /\ {"idle", "watch_beat", "see_session", "see_active", "see_armed", "park",
         "clear_network", "clear_active", "forget_pid", "forget_beat", "drop_summary",
         "drop_checkpoint", "set_interrupted"} \subseteq WatchdogLabels
  BY DEF WatchdogLabels
<1>1. CASE WatchPid
  <2>1. DataOK'
    BY <1>1 DEF WatchPid, DataOK, net, ui, world, disk, data, Look
  <2>2. ThreadsOK'
    BY <1>1, <1>l, GotoTyped, ReturnTyped DEF WatchPid, Look
  <2> QED
    BY <2>1, <2>2 DEF TypeOK
<1>2. CASE WatchBeat
  <2>1. DataOK'
    BY <1>2 DEF WatchBeat, DataOK, net, ui, world, disk, data, Look
  <2>2. ThreadsOK'
    BY <1>2, <1>l, GotoTyped, ReturnTyped DEF WatchBeat, Look
  <2> QED
    BY <2>1, <2>2 DEF TypeOK
<1>3. CASE SeeSession
  <2>1. DataOK'
    BY <1>3 DEF SeeSession, DataOK, net, ui, world, disk, data, Look
  <2>2. ThreadsOK'
    BY <1>3, <1>l, GotoTyped, ReturnTyped DEF SeeSession, Look
  <2> QED
    BY <2>1, <2>2 DEF TypeOK
<1>4. CASE SeeActive
  <2>1. DataOK'
    BY <1>4 DEF SeeActive, DataOK, net, ui, world, disk, data, Look
  <2>2. ThreadsOK'
    BY <1>4, <1>l, GotoTyped, ReturnTyped DEF SeeActive, Look
  <2> QED
    BY <2>1, <2>2 DEF TypeOK
<1>5. CASE SeeArmed
  <2>1. DataOK'
    BY <1>5 DEF SeeArmed, DataOK, net, ui, world, disk, data, Look
  <2>2. ThreadsOK'
    BY <1>5, <1>l, GotoTyped, ReturnTyped DEF SeeArmed, Look
  <2> QED
    BY <2>1, <2>2 DEF TypeOK
<1>6. CASE Park
  <2>1. DataOK'
    BY <1>6 DEF Park, DataOK, net, ui, world, disk, data
  <2>2. ThreadsOK'
    <3>1. CASE session # None /\ \E sess \in Refreshed(session) :
                 GotoWith(Watchdog, "clear_network", [EmptyFrame EXCEPT !.mine = sess])
      <4>1. PICK sess \in Refreshed(session) :
              GotoWith(Watchdog, "clear_network", [EmptyFrame EXCEPT !.mine = sess])
        BY <3>1
      <4>2. [EmptyFrame EXCEPT !.mine = sess] \in Frame
        BY <3>1, EmptyFrameTyped, RefreshedTyped, FrameWithMine DEF DataOK
      <4> QED
        BY <4>1, <4>2, <1>l, GotoWithTyped
    <3> QED
      BY <1>6, <3>1, ReturnTyped DEF Park
  <2> QED
    BY <2>1, <2>2 DEF TypeOK
<1>7. CASE ForgetPid
  <2>1. DataOK'
    BY <1>7 DEF ForgetPid, DataOK, net, ui, world, disk, data
  <2>2. ThreadsOK'
    BY <1>7, <1>l, GotoTyped, ReturnTyped DEF ForgetPid, Look
  <2> QED
    BY <2>1, <2>2 DEF TypeOK
<1>8. CASE ForgetBeat
  <2>1. DataOK'
    BY <1>8 DEF ForgetBeat, DataOK, net, ui, world, disk, data
  <2>2. ThreadsOK'
    BY <1>8, <1>l, GotoTyped, ReturnTyped DEF ForgetBeat, Look
  <2> QED
    BY <2>1, <2>2 DEF TypeOK
<1>9. CASE DropSummary
  <2>1. DataOK'
    BY <1>9 DEF DropSummary, DataOK, net, ui, world, disk, data
  <2>2. ThreadsOK'
    BY <1>9, <1>l, GotoTyped, ReturnTyped DEF DropSummary, Look
  <2> QED
    BY <2>1, <2>2 DEF TypeOK
<1>10. CASE DropCheckpoint
  <2>1. DataOK'
    BY <1>10 DEF DropCheckpoint, DataOK, net, ui, world, disk, data
  <2>2. ThreadsOK'
    BY <1>10, <1>l, GotoTyped, ReturnTyped DEF DropCheckpoint, Look
  <2> QED
    BY <2>1, <2>2 DEF TypeOK
<1>11. CASE SetInterrupted(Watchdog)
  <2>1. DataOK'
    BY <1>11, <1>f DEF SetInterrupted, DataOK, net, ui, world, disk, data, Frame
  <2>2. ThreadsOK'
    BY <1>11, <1>l, EmptyFrameTyped, GotoWithTyped, ReturnTyped DEF SetInterrupted
  <2> QED
    BY <2>1, <2>2 DEF TypeOK
<1> QED
  BY <1>1, <1>2, <1>3, <1>4, <1>5, <1>6, <1>7, <1>8, <1>9, <1>10, <1>11, ClearStepsTyped DEF WatchdogStep, ClearNetwork, ClearActive, At

\* The steps of the warm-up keep the types.
LEMMA WarmStepsTyped ==
  ASSUME TypeOK, WarmStep
  PROVE  TypeOK'
<1> USE ThreadFacts
<1> DataOK /\ ThreadsOK
  BY DEF TypeOK
<1>f. frame[Warm] \in Frame
  BY DEF ThreadsOK
<1>l. WarmLabels = Labels(Warm) /\ {"idle", "warm_check", "read_checkpoint", "delete_checkpoint",
         "set_interrupted", "clear_network", "clear_active"} \subseteq WarmLabels
  BY DEF WarmLabels
<1>1. CASE WarmCheck
  <2>1. DataOK'
    BY <1>1 DEF WarmCheck, DataOK, net, ui, world, disk, data
  <2>2. ThreadsOK'
    BY <1>1, <1>l, GotoTyped DEF WarmCheck
  <2> QED
    BY <2>1, <2>2 DEF TypeOK
<1>2. CASE ReadCheckpoint
  <2>1. DataOK'
    BY <1>2 DEF ReadCheckpoint, DataOK, net, ui, world, disk, data
  <2>2. ThreadsOK'
    <3>1. [EmptyFrame EXCEPT !.mine = checkpoint] \in Frame
      BY EmptyFrameTyped, FrameWithMine DEF DataOK
    <3> QED
      BY <1>2, <3>1, <1>l, GotoWithTyped DEF ReadCheckpoint
  <2> QED
    BY <2>1, <2>2 DEF TypeOK
<1>3. CASE DeleteCheckpoint
  <2>1. DataOK'
    BY <1>3 DEF DeleteCheckpoint, DataOK, net, ui, world, disk, data
  <2>2. ThreadsOK'
    BY <1>3, <1>l, EmptyFrameTyped, GotoTyped, GotoWithTyped DEF DeleteCheckpoint
  <2> QED
    BY <2>1, <2>2 DEF TypeOK
<1>4. CASE SetInterrupted(Warm)
  <2>1. DataOK'
    BY <1>4, <1>f DEF SetInterrupted, DataOK, net, ui, world, disk, data, Frame
  <2>2. ThreadsOK'
    BY <1>4, <1>l, EmptyFrameTyped, GotoWithTyped, ReturnTyped DEF SetInterrupted
  <2> QED
    BY <2>1, <2>2 DEF TypeOK
<1> QED
  BY <1>1, <1>2, <1>3, <1>4, ClearStepsTyped DEF WarmStep, ClearNetwork, ClearActive, At

\* The ends and starts of processes keep the types.
LEMMA EnvironmentTyped ==
  ASSUME TypeOK, Environment
  PROVE  TypeOK'
<1> USE ThreadFacts
<1> DataOK /\ ThreadsOK
  BY DEF TypeOK
<1>1. CASE UiLaunch
  <2>1. DataOK'
    BY <1>1 DEF UiLaunch, DataOK, net, ui, world, disk, data
  <2>2. ThreadsOK'
    BY <1>1 DEF UiLaunch, ThreadsOK
  <2> QED
    BY <2>1, <2>2 DEF TypeOK
<1>2. CASE UiExit
  <2>1. DataOK'
    BY <1>2 DEF UiExit, DataOK, net, ui, world, disk, data
  <2>2. ThreadsOK'
    BY <1>2 DEF UiExit, ThreadsOK
  <2> QED
    BY <2>1, <2>2 DEF TypeOK
<1>3. CASE HeartbeatLapses
  <2>1. DataOK'
    BY <1>3 DEF HeartbeatLapses, DataOK, net, ui, world, disk, data
  <2>2. ThreadsOK'
    BY <1>3 DEF HeartbeatLapses, ThreadsOK
  <2> QED
    BY <2>1, <2>2 DEF TypeOK
<1>4. CASE ServiceEnds
  <2>1. DataOK'
    <3>1. /\ interrupted' = interrupted /\ checkpoint' = checkpoint /\ history' = history
          /\ enabled' = enabled
      BY <1>4 DEF ServiceEnds, disk
    <3>2. stops' \in Nat
      BY <1>4 DEF ServiceEnds, DataOK
    <3> QED
      BY <1>4, <3>1, <3>2 DEF ServiceEnds, DataOK
  <2>2. ThreadsOK'
    <3>1. \A t \in Thread : "idle" \in Labels(t)
      BY DEF Labels, WatchdogLabels, WarmLabels, ClientLabels
    <3> QED
      BY <1>4, <3>1, EmptyFrameTyped DEF ServiceEnds, ThreadsOK
  <2> QED
    BY <2>1, <2>2 DEF TypeOK
<1>5. CASE ServiceStarts
  <2>1. DataOK'
    BY <1>5 DEF ServiceStarts, DataOK, net, ui, world, disk, data
  <2>2. ThreadsOK'
    <3>1. "warm_check" \in Labels(Warm)
      BY DEF WarmLabels
    <3> QED
      BY <1>5, <3>1 DEF ServiceStarts, ThreadsOK
  <2> QED
    BY <2>1, <2>2 DEF TypeOK
<1> QED
  BY <1>1, <1>2, <1>3, <1>4, <1>5 DEF Environment

-----------------------------------------------------------------------------
(* The frames hold what the steps need *)

LEMMA GotoIsGotoWith ==
  ASSUME ThreadsOK, NEW t \in Thread, NEW label, Goto(t, label)
  PROVE  GotoWith(t, label, frame[t])
BY DEF ThreadsOK, Goto, GotoWith

LEMMA MovePrepared ==
  ASSUME ThreadsOK, AllPrepared, NEW t \in Thread, NEW label, NEW f, Fits(t, label, f),
         GotoWith(t, label, f)
  PROVE  AllPrepared'
BY DEF ThreadsOK, AllPrepared, GotoWith

LEMMA GotoPrepared ==
  ASSUME ThreadsOK, AllPrepared, NEW t \in Thread, NEW label, Fits(t, label, frame[t]),
         Goto(t, label)
  PROVE  AllPrepared'
BY GotoIsGotoWith, MovePrepared

LEMMA ReturnPrepared ==
  ASSUME ThreadsOK, AllPrepared, NEW t \in Thread, Return(t)
  PROVE  AllPrepared'
<1>1. Fits(t, "idle", EmptyFrame)
  BY DEF Fits, FinishLabels
<1> QED
  BY <1>1, MovePrepared DEF Return

\* The steps of a start and of a restore keep AllPrepared.
LEMMA StartStepsPrepared ==
  ASSUME TypeOK, AllPrepared, NEW c \in Client, StartOrRestore(c)
  PROVE  AllPrepared'
<1> USE ThreadFacts
<1> DataOK /\ ThreadsOK
  BY DEF TypeOK
<1> c \in Thread
  OBVIOUS
<1>p. Fits(c, pc[c], frame[c]) /\ frame[c] \in Frame
  BY DEF AllPrepared, ThreadsOK
<1>1. CASE CheckSession(c)
  <2>1. CASE Return(c)
    BY <2>1, ReturnPrepared
  <2>2. CASE Goto(c, "get_interrupted") /\ frame[c].cmd = "RestoreInterruptedSession"
    <3>1. Fits(c, "get_interrupted", frame[c])
      BY <2>2 DEF Fits, FinishLabels
    <3> QED
      BY <2>2, <3>1, GotoPrepared
  <2>3. ASSUME NEW p \in Profile, NEW d \in Duration,
               lives' = lives + 1,
               GotoWith(c, "clear_interrupted",
                 [frame[c] EXCEPT !.mine = [id |-> lives', started |-> lives',
                                            profile |-> p, left |-> d]])
        PROVE  AllPrepared'
    <3> DEFINE sess == [id |-> lives', started |-> lives', profile |-> p, left |-> d]
    <3>1. sess \in LiveSession
      BY <2>3, DurationType DEF DataOK, LiveSession
    <3>2. [frame[c] EXCEPT !.mine = sess].mine # None
      BY <3>1, <1>p, NoneType DEF Frame
    <3>3. Fits(c, "clear_interrupted", [frame[c] EXCEPT !.mine = sess])
      BY <3>2 DEF Fits, FinishLabels
    <3> QED
      BY <2>3, <3>3, MovePrepared
  <2> QED
    BY <1>1, <2>1, <2>2, <2>3 DEF CheckSession
<1>2. CASE GetInterrupted(c)
  <2>1. CASE Return(c)
    BY <2>1, ReturnPrepared
  <2>2. CASE interrupted # None /\ lives' = lives + 1
             /\ GotoWith(c, "list_sites",
                  [frame[c] EXCEPT !.mine = [interrupted EXCEPT !.id = lives']])
    <3> DEFINE sess == [interrupted EXCEPT !.id = lives']
    <3>1. sess \in LiveSession
      BY <2>2 DEF DataOK, LiveSession
    <3>2. [frame[c] EXCEPT !.mine = sess].mine # None
      BY <3>1, <1>p, NoneType DEF Frame
    <3>3. frame[c].cmd \in {"StartSession", "RestoreInterruptedSession"}
      BY <1>2, <1>p DEF GetInterrupted, At, Fits
    <3>4. Fits(c, "list_sites", [frame[c] EXCEPT !.mine = sess])
      BY <3>2, <3>3, <1>p DEF Fits, FinishLabels, Frame
    <3> QED
      BY <2>2, <3>4, MovePrepared
  <2> QED
    BY <1>2, <2>1, <2>2 DEF GetInterrupted
<1>3. CASE ListSites(c)
  <2> DEFINE rules == RulesOf(frame[c].mine.profile)
             f == [frame[c] EXCEPT !.rules = rules, !.todo = rules]
  <2>1. f.cmd = frame[c].cmd /\ f.mine = frame[c].mine
    BY <1>p DEF Frame
  <2>2. Fits(c, "clear_all", f)
    BY <1>3, <1>p, <2>1 DEF Fits, FinishLabels, ListSites, At
  <2> QED
    BY <1>3, <2>2, MovePrepared DEF ListSites
<1>4. CASE ClearBeforeApply(c)
  BY <1>4, <1>p, GotoPrepared, ReturnPrepared DEF ClearBeforeApply, Fits, At, FinishLabels
<1>5. CASE ApplyOne(c)
  <2>1. PICK s \in frame[c].todo :
          GotoWith(c, "apply_batch", [frame[c] EXCEPT !.todo = frame[c].todo \ {s}])
    BY <1>5 DEF ApplyOne
  <2> DEFINE f == [frame[c] EXCEPT !.todo = frame[c].todo \ {s}]
  <2>2. f.cmd = frame[c].cmd /\ f.mine = frame[c].mine
    BY <1>p DEF Frame
  <2>3. Fits(c, "apply_batch", f)
    BY <1>5, <1>p, <2>2 DEF Fits, FinishLabels, ApplyOne, At
  <2> QED
    BY <2>1, <2>3, MovePrepared
<1>6. CASE SetActive(c)
  BY <1>6, <1>p, GotoPrepared, ReturnPrepared DEF SetActive, Fits, At, FinishLabels
<1>7. CASE ForgetSummary(c)
  BY <1>7, <1>p, GotoPrepared, ReturnPrepared DEF ForgetSummary, Fits, At, FinishLabels
<1>8. CASE SetLiveCheckpoint(c)
  BY <1>8, <1>p, GotoPrepared, ReturnPrepared DEF SetLiveCheckpoint, Fits, At, FinishLabels
<1>9. CASE Install(c)
  <2> DEFINE f == [EmptyFrame EXCEPT !.cmd = frame[c].cmd]
  <2>1. Fits(c, "unpark", f) /\ Fits(c, "snapshot", f)
    BY DEF Fits, FinishLabels
  <2> QED
    BY <1>9, <2>1, MovePrepared DEF Install
<1>10. CASE Unpark(c)
  BY <1>10, <1>p, GotoPrepared, ReturnPrepared DEF Unpark, Fits, At, FinishLabels
<1> QED
  BY <1>1, <1>2, <1>3, <1>4, <1>5, <1>6, <1>7, <1>8, <1>9, <1>10 DEF StartOrRestore

\* The steps of finish_session keep AllPrepared.
LEMMA FinishStepsPrepared ==
  ASSUME TypeOK, AllPrepared, NEW c \in Client, Finish(c)
  PROVE  AllPrepared'
<1> USE ThreadFacts
<1> DataOK /\ ThreadsOK
  BY DEF TypeOK
<1> c \in Thread
  OBVIOUS
<1>p. Fits(c, pc[c], frame[c]) /\ frame[c] \in Frame
  BY DEF AllPrepared, ThreadsOK
<1>1. CASE TakeSession(c)
  <2>1. CASE AfterFinish(c)
    BY <2>1, <1>p, GotoPrepared, ReturnPrepared DEF AfterFinish, Fits, FinishLabels
  <2>2. CASE session # None /\ \E sess \in Refreshed(session) :
               GotoWith(c, "clear_live_checkpoint", [frame[c] EXCEPT !.mine = sess])
    <3>1. PICK sess \in Refreshed(session) :
            GotoWith(c, "clear_live_checkpoint", [frame[c] EXCEPT !.mine = sess])
      BY <2>2
    <3>2. sess # None
      BY <2>2, RefreshedTyped DEF DataOK
    <3>3. [frame[c] EXCEPT !.mine = sess].mine # None
      BY <3>2, <1>p DEF Frame
    <3>4. Fits(c, "clear_live_checkpoint", [frame[c] EXCEPT !.mine = sess])
      BY <3>3 DEF Fits, FinishLabels
    <3> QED
      BY <3>1, <3>4, MovePrepared
  <2> QED
    BY <1>1, <2>1, <2>2 DEF TakeSession
<1>2. CASE ClearLiveCheckpoint(c)
  BY <1>2, <1>p, GotoPrepared, ReturnPrepared DEF ClearLiveCheckpoint, Fits, At, FinishLabels
<1>3. CASE Record(c)
  BY <1>3, <1>p, GotoPrepared, ReturnPrepared DEF Record, Fits, At, FinishLabels
<1>4. CASE Publish(c)
  <2>1. Fits(c, "pop", [frame[c] EXCEPT !.mine = None])
    BY DEF Fits, FinishLabels
  <2> QED
    BY <1>4, <2>1, MovePrepared, ReturnPrepared DEF Publish
<1> QED
  BY <1>1, <1>2, <1>3, <1>4 DEF Finish

\* The other steps of requests keep AllPrepared.
LEMMA OtherStepsPrepared ==
  ASSUME TypeOK, AllPrepared, NEW c \in Client,
         Request(c) \/ ClearInterrupted(c) \/ NoteUiPid(c) \/ TouchUi(c) \/ Pop(c)
           \/ RejectIfSession(c) \/ SetEnabled(c) \/ ClearHistory(c) \/ Snapshot(c)
           \/ ClearNetwork(c) \/ ClearActive(c)
  PROVE  AllPrepared'
<1> USE ThreadFacts
<1> DataOK /\ ThreadsOK
  BY DEF TypeOK
<1> c \in Thread
  OBVIOUS
<1>p. Fits(c, pc[c], frame[c]) /\ frame[c] \in Frame
  BY DEF AllPrepared, ThreadsOK
<1>1. CASE Request(c)
  <2>1. PICK cmd \in Commands : \E target \in Targets(cmd) :
          GotoWith(c, FirstStep(cmd),
            [EmptyFrame EXCEPT !.cmd = cmd, !.rules = target,
                               !.ui = IF cmd = "Health" THEN running ELSE 0])
    BY <1>1 DEF Request
  <2>2. PICK target \in Targets(cmd) :
          GotoWith(c, FirstStep(cmd),
            [EmptyFrame EXCEPT !.cmd = cmd, !.rules = target,
                               !.ui = IF cmd = "Health" THEN running ELSE 0])
    BY <2>1
  <2> DEFINE f == [EmptyFrame EXCEPT !.cmd = cmd, !.rules = target,
                                     !.ui = IF cmd = "Health" THEN running ELSE 0]
  <2>3. f.cmd = cmd
    BY DEF EmptyFrame
  <2>4. Fits(c, FirstStep(cmd), f)
    BY <2>3, CommandsType DEF Fits, FinishLabels, FirstStep, AllCommands
  <2> QED
    BY <2>2, <2>4, MovePrepared
<1>2. CASE ClearInterrupted(c)
  BY <1>2, <1>p, GotoPrepared, ReturnPrepared DEF ClearInterrupted, Fits, At, FinishLabels
<1>3. CASE NoteUiPid(c)
  BY <1>3, <1>p, GotoPrepared, ReturnPrepared DEF NoteUiPid, Fits, At, FinishLabels
<1>4. CASE TouchUi(c)
  BY <1>4, <1>p, GotoPrepared, ReturnPrepared DEF TouchUi, Arms, Fits, At, FinishLabels
<1>5. CASE Pop(c)
  BY <1>5, <1>p, GotoPrepared, ReturnPrepared DEF Pop, Fits, At, FinishLabels
<1>6. CASE RejectIfSession(c)
  BY <1>6, <1>p, GotoPrepared, ReturnPrepared DEF RejectIfSession, Fits, At, FinishLabels
<1>7. CASE SetEnabled(c)
  BY <1>7, <1>p, GotoPrepared, ReturnPrepared DEF SetEnabled, Fits, At, FinishLabels
<1>8. CASE Snapshot(c)
  BY <1>8, <1>p, GotoPrepared, ReturnPrepared DEF Snapshot, SnapshotAt, Fits, At, FinishLabels
<1>9. CASE ClearNetwork(c)
  BY <1>9, <1>p, GotoPrepared, ReturnPrepared DEF ClearNetwork, Fits, At, FinishLabels
<1>10. CASE ClearActive(c)
  BY <1>10, <1>p, GotoPrepared, ReturnPrepared DEF ClearActive, Fits, At, FinishLabels
<1>11. CASE ClearHistory(c)
  BY <1>11, <1>p, GotoPrepared, ReturnPrepared DEF ClearHistory, Fits, At, FinishLabels
<1> QED
  BY <1>1, <1>2, <1>3, <1>4, <1>5, <1>6, <1>7, <1>8, <1>9, <1>10, <1>11

\* The steps of the watchdog and of the warm-up keep AllPrepared: their labels are
\* none of those that Fits speaks of.
LEMMA ThreadStepsPrepared ==
  ASSUME TypeOK, AllPrepared, WatchdogStep \/ WarmStep
  PROVE  AllPrepared'
<1> USE ThreadFacts
<1> DataOK /\ ThreadsOK
  BY DEF TypeOK
<1> Watchdog \notin Client /\ Warm \notin Client
  BY ThreadsDistinct
<1>1. CASE WatchPid
  BY <1>1, GotoPrepared, MovePrepared, ReturnPrepared DEF WatchPid, Look, Fits, FinishLabels
<1>2. CASE WatchBeat
  BY <1>2, GotoPrepared, MovePrepared, ReturnPrepared DEF WatchBeat, Look, Fits, FinishLabels
<1>3. CASE SeeSession
  BY <1>3, GotoPrepared, MovePrepared, ReturnPrepared DEF SeeSession, Look, Fits, FinishLabels
<1>4. CASE SeeActive
  BY <1>4, GotoPrepared, MovePrepared, ReturnPrepared DEF SeeActive, Look, Fits, FinishLabels
<1>5. CASE SeeArmed
  BY <1>5, GotoPrepared, MovePrepared, ReturnPrepared DEF SeeArmed, Look, Fits, FinishLabels
<1>6. CASE Park
  BY <1>6, GotoPrepared, MovePrepared, ReturnPrepared DEF Park, Look, Fits, FinishLabels
<1>7. CASE ForgetPid
  BY <1>7, GotoPrepared, MovePrepared, ReturnPrepared DEF ForgetPid, Look, Fits, FinishLabels
<1>8. CASE ForgetBeat
  BY <1>8, GotoPrepared, MovePrepared, ReturnPrepared DEF ForgetBeat, Look, Fits, FinishLabels
<1>9. CASE DropSummary
  BY <1>9, GotoPrepared, MovePrepared, ReturnPrepared DEF DropSummary, Look, Fits, FinishLabels
<1>10. CASE DropCheckpoint
  BY <1>10, GotoPrepared, MovePrepared, ReturnPrepared DEF DropCheckpoint, Look, Fits, FinishLabels
<1>11. CASE SetInterrupted(Watchdog)
  BY <1>11, GotoPrepared, MovePrepared, ReturnPrepared DEF SetInterrupted, Look, Fits, FinishLabels
<1>12. CASE ClearNetwork(Watchdog)
  BY <1>12, GotoPrepared, MovePrepared, ReturnPrepared DEF ClearNetwork, Look, Fits, FinishLabels
<1>13. CASE ClearActive(Watchdog)
  BY <1>13, GotoPrepared, MovePrepared, ReturnPrepared DEF ClearActive, Look, Fits, FinishLabels
<1>14. CASE WarmCheck
  BY <1>14, GotoPrepared, MovePrepared, ReturnPrepared DEF WarmCheck, Look, Fits, FinishLabels
<1>15. CASE ReadCheckpoint
  BY <1>15, GotoPrepared, MovePrepared, ReturnPrepared DEF ReadCheckpoint, Look, Fits, FinishLabels
<1>16. CASE DeleteCheckpoint
  BY <1>16, GotoPrepared, MovePrepared, ReturnPrepared DEF DeleteCheckpoint, Look, Fits, FinishLabels
<1>17. CASE SetInterrupted(Warm)
  BY <1>17, GotoPrepared, MovePrepared, ReturnPrepared DEF SetInterrupted, Look, Fits, FinishLabels
<1>18. CASE ClearNetwork(Warm)
  BY <1>18, GotoPrepared, MovePrepared, ReturnPrepared DEF ClearNetwork, Look, Fits, FinishLabels
<1>19. CASE ClearActive(Warm)
  BY <1>19, GotoPrepared, MovePrepared, ReturnPrepared DEF ClearActive, Look, Fits, FinishLabels
<1> QED
  BY <1>1, <1>2, <1>3, <1>4, <1>5, <1>6, <1>7, <1>8, <1>9, <1>10, <1>11, <1>12, <1>13, <1>14, <1>15, <1>16, <1>17, <1>18, <1>19 DEF WatchdogStep, WarmStep

\* The ends and starts of processes keep AllPrepared.
LEMMA EnvironmentPrepared ==
  ASSUME TypeOK, AllPrepared, Environment
  PROVE  AllPrepared'
<1> USE ThreadFacts
<1> DataOK /\ ThreadsOK
  BY DEF TypeOK
<1>1. CASE UiLaunch
  BY <1>1 DEF UiLaunch, AllPrepared
<1>2. CASE UiExit
  BY <1>2 DEF UiExit, AllPrepared
<1>3. CASE HeartbeatLapses
  BY <1>3 DEF HeartbeatLapses, AllPrepared
<1>4. CASE ServiceEnds
  <2>1. \A t \in Thread : Fits(t, "idle", EmptyFrame)
    BY DEF Fits, FinishLabels
  <2> QED
    BY <1>4, <2>1 DEF ServiceEnds, AllPrepared
<1>5. CASE ServiceStarts
  <2>1. Fits(Warm, "warm_check", frame[Warm])
    BY ThreadsDistinct DEF Fits, FinishLabels
  <2> QED
    BY <1>5, <2>1 DEF ServiceStarts, AllPrepared, ThreadsOK
<1> QED
  BY <1>1, <1>2, <1>3, <1>4, <1>5 DEF Environment

-----------------------------------------------------------------------------
(* Type correctness of every behaviour *)

TypeInv == TypeOK /\ AllPrepared

LEMMA TypeInvInit == Init => TypeInv
<1>1. \A t \in Thread : Fits(t, IF t = Warm THEN "warm_check" ELSE "idle", EmptyFrame)
  BY DEF Fits, FinishLabels
<1>2. Init => AllPrepared
  BY <1>1 DEF Init, InitWith, AllPrepared
<1> QED
  BY <1>2, InitTyped DEF TypeInv

LEMMA TypeInvNext == TypeInv /\ [Next]_vars => TypeInv'
<1> SUFFICES ASSUME TypeInv, [Next]_vars PROVE TypeInv'
  OBVIOUS
<1> USE ThreadFacts
<1> TypeOK /\ AllPrepared
  BY DEF TypeInv
<1>1. ASSUME NEW c \in Client, Request(c) PROVE TypeInv'
  BY <1>1, OtherStepsTyped, OtherStepsPrepared DEF TypeInv
<1>2. ASSUME NEW c \in Client, Handle(c) PROVE TypeInv'
  <2>1. CASE StartOrRestore(c)
    BY <2>1, StartStepsTyped, StartStepsPrepared DEF TypeInv
  <2>2. CASE Finish(c)
    BY <2>2, FinishStepsTyped, FinishStepsPrepared DEF TypeInv
  <2>3. CASE ClearNetwork(c) \/ ClearActive(c)
    <3>1. pc[c] \in {"clear_network", "clear_active"}
      BY <2>3 DEF ClearNetwork, ClearActive, At
    <3> QED
      BY <2>3, <3>1, ClearStepsTyped, OtherStepsPrepared DEF TypeInv
  <2>4. CASE ClearInterrupted(c) \/ NoteUiPid(c) \/ TouchUi(c) \/ Snapshot(c) \/ Pop(c)
               \/ RejectIfSession(c) \/ SetEnabled(c) \/ ClearHistory(c)
    BY <2>4, OtherStepsTyped, OtherStepsPrepared DEF TypeInv
  <2> QED
    BY <1>2, <2>1, <2>2, <2>3, <2>4 DEF Handle
<1>3. CASE WatchdogStep
  BY <1>3, WatchdogStepsTyped, ThreadStepsPrepared DEF TypeInv
<1>4. CASE WarmStep
  BY <1>4, WarmStepsTyped, ThreadStepsPrepared DEF TypeInv
<1>5. CASE Environment
  BY <1>5, EnvironmentTyped, EnvironmentPrepared DEF TypeInv
<1>6. CASE UNCHANGED vars
  BY <1>6 DEF vars, data, disk, net, ui, world, TypeInv, TypeOK, DataOK, ThreadsOK, AllPrepared
<1> QED
  BY <1>1, <1>2, <1>3, <1>4, <1>5, <1>6 DEF Next

\* Every variable keeps its type, in every behaviour of the engine.
THEOREM TypeCorrect == Spec => []TypeOK
<1>1. TypeInv => TypeOK
  BY DEF TypeInv
<1> QED
  BY <1>1, TypeInvInit, TypeInvNext, PTL DEF Spec

-----------------------------------------------------------------------------
(* Every rule has an owner *)

\* A service that is down tracks no rules.
DownIsClear == service # "up" => applied = {} /\ active = {}

OwnersInv ==
  /\ RulesHaveOwner
  /\ ~HostsMayFail => HostsHaveOwner
  /\ DownIsClear

\* After a step, somebody answers for whatever rules there are.
LEMMA TakesOver ==
  ASSUME NEW t \in Thread, service' = "up",
         (Arming(t) \/ Clearing(t))' \/ session' # None
  PROVE  OwnersInv'
BY DEF OwnersInv, RulesHaveOwner, HostsHaveOwner, DownIsClear, Deactivating

\* A thread that answers for no rules moves, and brings up none.
LEMMA QuietMove ==
  ASSUME ThreadsOK, OwnersInv, NEW t \in Thread, NEW label, NEW f, GotoWith(t, label, f),
         service = "up", service' = service, applied' = applied, hosts' = hosts,
         session # None => session' # None,
         ~Arming(t), ~Clearing(t), t = Warm => ~WarmPending,
         (active' = active /\ pc[t] # "clear_active") \/ active' = {}
  PROVE  OwnersInv'
<1>1. \A u \in Thread : u # t => pc'[u] = pc[u] /\ frame'[u] = frame[u]
  BY DEF ThreadsOK, GotoWith
<1>2. \A u \in Thread : Arming(u) \/ Clearing(u) => (Arming(u) \/ Clearing(u))'
  BY <1>1 DEF Arming, Clearing, Arms
<1>3. active' # {} => \A u \in Thread : Deactivating(u) => Deactivating(u)'
  BY <1>1 DEF Clearing, Deactivating
<1>4. WarmPending => WarmPending'
  BY <1>1, ThreadFacts DEF WarmPending
<1>5. RulesHaveOwner'
  BY <1>2, <1>3 DEF OwnersInv, RulesHaveOwner, Deactivating
<1>6. ~HostsMayFail => HostsHaveOwner'
  BY <1>2, <1>4 DEF OwnersInv, HostsHaveOwner
<1> QED
  BY <1>5, <1>6 DEF OwnersInv, DownIsClear

\* The step does not touch what the rules and their owners are.
LEMMA QuietGoto ==
  ASSUME ThreadsOK, OwnersInv, NEW t \in Thread, NEW label, Goto(t, label) \/ Return(t),
         service = "up", service' = service, applied' = applied, hosts' = hosts,
         session # None => session' # None,
         ~Arming(t), ~Clearing(t), t = Warm => ~WarmPending,
         (active' = active /\ pc[t] # "clear_active") \/ active' = {}
  PROVE  OwnersInv'
BY GotoIsGotoWith, QuietMove DEF Return

\* Where a thread is after its step.
LEMMA MovesTo ==
  ASSUME ThreadsOK, NEW t \in Thread
  PROVE  /\ \A label, f : GotoWith(t, label, f) => pc'[t] = label /\ frame'[t] = f
         /\ \A label : Goto(t, label) => pc'[t] = label /\ frame'[t] = frame[t]
BY DEF ThreadsOK, GotoWith, Goto

\* A start or a restore answers for the rules from the clear before its apply on, and
\* hands them to the session it installs.
LEMMA StartStepsOwned ==
  ASSUME TypeOK, AllPrepared, OwnersInv, NEW c \in Client, StartOrRestore(c)
  PROVE  OwnersInv'
<1> USE ThreadFacts
<1> DataOK /\ ThreadsOK
  BY DEF TypeOK
<1> c \in Thread /\ c # Warm
  OBVIOUS
<1>p. Fits(c, pc[c], frame[c])
  BY DEF AllPrepared
<1>1. CASE CheckSession(c)
  BY <1>1, QuietGoto, QuietMove DEF CheckSession, Arming, Clearing, Deactivating, Arms, At, net, world, disk, data
<1>2. CASE GetInterrupted(c)
  BY <1>2, QuietGoto, QuietMove DEF GetInterrupted, Arming, Clearing, Deactivating, Arms, At, net, world, disk, data
<1>3. CASE ListSites(c)
  BY <1>3, QuietGoto, QuietMove DEF ListSites, Arming, Clearing, Deactivating, Arms, At, net, world, disk, data
<1>4. CASE ClearBeforeApply(c)
  BY <1>4, MovesTo, TakesOver DEF ClearBeforeApply, Arming, Clearing, Deactivating, Arms, At, net, world, disk, data
<1>5. CASE ApplyOne(c)
  BY <1>5, MovesTo, TakesOver DEF ApplyOne, Arming, Clearing, Deactivating, Arms, At, net, world, disk, data
<1>6. CASE SetActive(c)
  BY <1>6, MovesTo, TakesOver DEF SetActive, Arming, Clearing, Deactivating, Arms, At, net, world, disk, data
<1>7. CASE ForgetSummary(c)
  <2>1. Arms(c)
    BY <1>7, <1>p DEF ForgetSummary, At, Fits, Arms
  <2>2. pc'[c] = "touch_ui" /\ frame'[c] = frame[c] /\ service' = "up"
    BY <1>7, MovesTo DEF ForgetSummary, At, world
  <2>3. Arming(c)'
    BY <2>1, <2>2 DEF Arming, Arms
  <2> QED
    BY <2>2, <2>3, TakesOver
<1>8. CASE SetLiveCheckpoint(c)
  BY <1>8, MovesTo, TakesOver DEF SetLiveCheckpoint, Arming, Clearing, Deactivating, Arms, At, net, world, disk, data
<1>9. CASE Install(c)
  <2>1. session' # None /\ service' = "up"
    BY <1>9, <1>p DEF Install, At, Fits, world
  <2> QED
    BY <2>1, TakesOver
<1>10. CASE Unpark(c)
  BY <1>10, QuietGoto, QuietMove DEF Unpark, Arming, Clearing, Deactivating, Arms, At, net, world, disk, data
<1> QED
  BY <1>1, <1>2, <1>3, <1>4, <1>5, <1>6, <1>7, <1>8, <1>9, <1>10 DEF StartOrRestore

\* Once the filter is clear, what is left is the map of active rules, and the
\* thread that cleared the filter is the one to clear the map.
LEMMA NetworkCleared ==
  ASSUME ThreadsOK, OwnersInv, NEW t \in Thread, ClearNetwork(t)
  PROVE  OwnersInv'
<1>1. service' = "up" /\ applied' = {} /\ (~HostsMayFail => hosts' = {})
  BY DEF ClearNetwork, ClearAll, SyncHosts, At, world
<1>2. Deactivating(t)'
  BY MovesTo DEF ClearNetwork, Deactivating
<1> QED
  BY <1>1, <1>2 DEF OwnersInv, RulesHaveOwner, HostsHaveOwner, DownIsClear

\* finish_session takes the rules over with the session, and lets go of them when the
\* network is clear.
LEMMA FinishStepsOwned ==
  ASSUME TypeOK, AllPrepared, OwnersInv, NEW c \in Client, Finish(c) \/ ClearNetwork(c) \/ ClearActive(c)
  PROVE  OwnersInv'
<1> USE ThreadFacts
<1> DataOK /\ ThreadsOK
  BY DEF TypeOK
<1> c \in Thread /\ c # Warm
  OBVIOUS
<1>p. Fits(c, pc[c], frame[c])
  BY DEF AllPrepared
<1>1. CASE TakeSession(c)
  <2>1. CASE session = None /\ session' = session /\ AfterFinish(c)
    <3>1. \/ Goto(c, "pop") \/ Return(c)
      BY <2>1 DEF AfterFinish
    <3> QED
      BY <1>1, <2>1, <3>1, QuietGoto DEF TakeSession, Arming, Clearing, At, net, world
  <2>2. CASE pc'[c] = "clear_live_checkpoint"
    BY <1>1, <2>2, TakesOver DEF TakeSession, Clearing, At, world
  <2> QED
    BY <1>1, <2>1, <2>2, MovesTo DEF TakeSession
<1>2. CASE ClearLiveCheckpoint(c)
  BY <1>2, MovesTo, TakesOver DEF ClearLiveCheckpoint, Arming, Clearing, Deactivating, Arms, At, net, world, disk, data
<1>3. CASE Record(c)
  BY <1>3, QuietGoto, QuietMove DEF Record, Arming, Clearing, Deactivating, Arms, At, net, world, disk, data
<1>4. CASE Publish(c)
  BY <1>4, QuietGoto, QuietMove DEF Publish, Arming, Clearing, Deactivating, Arms, At, net, world, disk, data
<1>5. CASE ClearNetwork(c)
  BY <1>5, NetworkCleared
<1>6. CASE ClearActive(c)
  BY <1>6, QuietGoto, QuietMove DEF ClearActive, Arming, Clearing, Deactivating, Arms, At, net, world, disk, data
<1> QED
  BY <1>1, <1>2, <1>3, <1>4, <1>5, <1>6 DEF Finish

\* The other steps of requests leave the rules alone.
LEMMA OtherStepsOwned ==
  ASSUME TypeOK, AllPrepared, OwnersInv, NEW c \in Client,
         Request(c) \/ ClearInterrupted(c) \/ NoteUiPid(c) \/ TouchUi(c) \/ Pop(c)
           \/ RejectIfSession(c) \/ SetEnabled(c) \/ ClearHistory(c) \/ Snapshot(c)
  PROVE  OwnersInv'
<1> USE ThreadFacts
<1> DataOK /\ ThreadsOK
  BY DEF TypeOK
<1> c \in Thread /\ c # Warm
  OBVIOUS
<1>p. Fits(c, pc[c], frame[c])
  BY DEF AllPrepared
<1>1. CASE Request(c)
  BY <1>1, QuietGoto, QuietMove DEF Request, Arming, Clearing, Deactivating, Arms, At, net, world, disk, data
<1>2. CASE ClearInterrupted(c)
  BY <1>2, QuietGoto, QuietMove DEF ClearInterrupted, Arming, Clearing, Deactivating, Arms, At, net, world, disk, data
<1>3. CASE NoteUiPid(c)
  BY <1>3, QuietGoto, QuietMove DEF NoteUiPid, Arming, Clearing, Deactivating, Arms, At, net, world, disk, data, ui
<1>4. CASE TouchUi(c)
  <2>1. CASE Arms(c) /\ Goto(c, "set_live_checkpoint")
    BY <1>4, <2>1, MovesTo, TakesOver DEF TouchUi, Arming, At, world
  <2>2. CASE ~Arms(c) /\ (Goto(c, "snapshot") \/ Return(c))
    BY <1>4, <2>2, QuietGoto DEF TouchUi, Arming, Clearing, At, net, world
  <2> QED
    BY <1>4, <2>1, <2>2 DEF TouchUi, Arms
<1>5. CASE Pop(c)
  BY <1>5, QuietGoto, QuietMove DEF Pop, Arming, Clearing, Deactivating, Arms, At, net, world, disk, data
<1>6. CASE RejectIfSession(c)
  BY <1>6, QuietGoto, QuietMove DEF RejectIfSession, Arming, Clearing, Deactivating, Arms, At, net, world, disk, data
<1>7. CASE SetEnabled(c)
  BY <1>7, QuietGoto, QuietMove DEF SetEnabled, Arming, Clearing, Deactivating, Arms, At, net, world, disk, data
<1>8. CASE Snapshot(c)
  <2>1. session # None => session' # None
    BY <1>8, RefreshedTyped DEF Snapshot, SnapshotAt, DataOK
  <2>2. Return(c) \/ Goto(c, "take_session")
    BY <1>8 DEF Snapshot, SnapshotAt
  <2> QED
    BY <1>8, <2>1, <2>2, QuietGoto DEF Snapshot, SnapshotAt, Arming, Clearing, At, net, world
<1>9. CASE ClearHistory(c)
  BY <1>9, QuietGoto, QuietMove DEF ClearHistory, Arming, Clearing, Deactivating, Arms, At, net, world, disk, data
<1> QED
  BY <1>1, <1>2, <1>3, <1>4, <1>5, <1>6, <1>7, <1>8, <1>9

\* The watchdog takes over the rules of the session it parks, and those it finds
\* without one.
LEMMA WatchdogStepsOwned ==
  ASSUME TypeOK, AllPrepared, OwnersInv, WatchdogStep
  PROVE  OwnersInv'
<1> USE ThreadFacts
<1> DataOK /\ ThreadsOK
  BY DEF TypeOK
<1>1. CASE WatchPid
  BY <1>1, QuietGoto, QuietMove DEF WatchPid, Look, Arming, Clearing, Deactivating, Arms, At, net, world, disk, data
<1>2. CASE WatchBeat
  BY <1>2, QuietGoto, QuietMove DEF WatchBeat, Look, Arming, Clearing, Deactivating, Arms, At, net, world, disk, data
<1>3. CASE SeeSession
  BY <1>3, QuietGoto, QuietMove DEF SeeSession, Look, Arming, Clearing, Deactivating, Arms, At, net, world, disk, data
<1>4. CASE SeeActive
  BY <1>4, QuietGoto, QuietMove DEF SeeActive, Look, Arming, Clearing, Deactivating, Arms, At, net, world, disk, data
<1>5. CASE SeeArmed
  BY <1>5, QuietGoto, QuietMove DEF SeeArmed, Look, Arming, Clearing, Deactivating, Arms, At, net, world, disk, data
<1>6. CASE Park
  <2>1. CASE session = None /\ session' = session /\ Return(Watchdog)
    BY <1>6, <2>1, QuietGoto DEF Park, Arming, Clearing, At, net, world
  <2>2. CASE pc'[Watchdog] = "clear_network"
    BY <1>6, <2>2, TakesOver DEF Park, Clearing, At, world
  <2> QED
    BY <1>6, <2>1, <2>2, MovesTo DEF Park
<1>7. CASE ForgetPid
  BY <1>7, QuietGoto, QuietMove DEF ForgetPid, Arming, Clearing, Deactivating, Arms, At, net, world, disk, data
<1>8. CASE ForgetBeat
  BY <1>8, QuietGoto, QuietMove DEF ForgetBeat, Arming, Clearing, Deactivating, Arms, At, net, world, disk, data
<1>9. CASE DropSummary
  BY <1>9, QuietGoto, QuietMove DEF DropSummary, Arming, Clearing, Deactivating, Arms, At, net, world, disk, data
<1>10. CASE DropCheckpoint
  BY <1>10, QuietGoto, QuietMove DEF DropCheckpoint, Arming, Clearing, Deactivating, Arms, At, net, world, disk, data
<1>11. CASE SetInterrupted(Watchdog)
  BY <1>11, QuietGoto, QuietMove DEF SetInterrupted, Arming, Clearing, Deactivating, Arms, At, net, world, disk, data
<1>12. CASE ClearNetwork(Watchdog)
  BY <1>12, NetworkCleared
<1>13. CASE ClearActive(Watchdog)
  BY <1>13, QuietGoto, QuietMove DEF ClearActive, Arming, Clearing, Deactivating, Arms, At, net, world, disk, data
<1> QED
  BY <1>1, <1>2, <1>3, <1>4, <1>5, <1>6, <1>7, <1>8, <1>9, <1>10, <1>11, <1>12, <1>13 DEF WatchdogStep

\* A step of the warm-up before it clears the network.
LEMMA WarmMoves ==
  ASSUME TypeOK, OwnersInv, service = "up", WarmPending,
         NEW label \in {"read_checkpoint", "delete_checkpoint", "set_interrupted", "clear_network"},
         NEW f, Goto(Warm, label) \/ GotoWith(Warm, label, f),
         UNCHANGED <<service, applied, hosts, active, session>>
  PROVE  OwnersInv'
<1> USE ThreadFacts
<1> ThreadsOK
  BY DEF TypeOK
<1>1. pc'[Warm] = label
  BY MovesTo
<1>2. CASE label = "clear_network"
  BY <1>1, <1>2, TakesOver DEF Clearing
<1>3. CASE label # "clear_network"
  <2>1. WarmPending'
    BY <1>1, <1>3 DEF WarmPending
  <2>2. \A u \in Thread : u # Warm => pc'[u] = pc[u] /\ frame'[u] = frame[u]
    BY DEF ThreadsOK, Goto, GotoWith
  <2>3. \A u \in Thread : Arming(u) \/ Clearing(u) => (Arming(u) \/ Clearing(u))'
    BY <2>2 DEF Arming, Clearing, Arms, WarmPending
  <2>4. \A u \in Thread : Deactivating(u) => Deactivating(u)'
    BY <2>2 DEF Clearing, Deactivating, WarmPending
  <2>5. RulesHaveOwner'
    BY <2>3, <2>4 DEF OwnersInv, RulesHaveOwner, Deactivating
  <2> QED
    BY <2>1, <2>5 DEF OwnersInv, HostsHaveOwner, DownIsClear
<1> QED
  BY <1>2, <1>3

\* The warm-up answers for a hosts file it finds until it has cleared it.
LEMMA WarmStepsOwned ==
  ASSUME TypeOK, AllPrepared, OwnersInv, WarmStep
  PROVE  OwnersInv'
<1> USE ThreadFacts
<1> DataOK /\ ThreadsOK
  BY DEF TypeOK
<1>1. CASE WarmCheck
  BY <1>1, WarmMoves DEF WarmCheck, At, net, world, disk, WarmPending, data
<1>2. CASE ReadCheckpoint
  BY <1>2, WarmMoves DEF ReadCheckpoint, At, net, world, disk, WarmPending, data
<1>3. CASE DeleteCheckpoint
  BY <1>3, WarmMoves DEF DeleteCheckpoint, At, net, world, disk, WarmPending
<1>4. CASE SetInterrupted(Warm)
  BY <1>4, WarmMoves DEF SetInterrupted, WarmPending, At, net, world, disk
<1>5. CASE ClearNetwork(Warm)
  BY <1>5, NetworkCleared
<1>6. CASE ClearActive(Warm)
  BY <1>6, QuietGoto, QuietMove DEF ClearActive, Arming, Clearing, Deactivating, Arms, At, net, world, disk, data, WarmPending
<1> QED
  BY <1>1, <1>2, <1>3, <1>4, <1>5, <1>6 DEF WarmStep

LEMMA NothingMoves ==
  ASSUME OwnersInv, UNCHANGED <<service, applied, hosts, active, session, pc, frame>>
  PROVE  OwnersInv'
BY DEF OwnersInv, RulesHaveOwner, HostsHaveOwner, DownIsClear, Arming, Clearing, Deactivating,
       Arms, WarmPending

\* An end of the service drops its rules, and leaves the hosts file to the warm-up of
\* the next start.
LEMMA EnvironmentOwned ==
  ASSUME TypeOK, AllPrepared, OwnersInv, Environment
  PROVE  OwnersInv'
<1> USE ThreadFacts
<1> DataOK /\ ThreadsOK
  BY DEF TypeOK
<1>1. CASE UiLaunch
  BY <1>1, NothingMoves DEF UiLaunch, net
<1>2. CASE UiExit
  BY <1>2, NothingMoves DEF UiExit, net
<1>3. CASE HeartbeatLapses
  BY <1>3, NothingMoves DEF HeartbeatLapses, net, world
<1>4. CASE ServiceEnds
  BY <1>4 DEF ServiceEnds, OwnersInv, RulesHaveOwner, HostsHaveOwner, DownIsClear
<1>5. CASE ServiceStarts
  <2>1. applied' = {} /\ active' = {}
    BY <1>5 DEF ServiceStarts, OwnersInv, DownIsClear, net
  <2>2. WarmPending'
    BY <1>5 DEF ServiceStarts, WarmPending, ThreadsOK
  <2> QED
    BY <2>1, <2>2 DEF OwnersInv, RulesHaveOwner, HostsHaveOwner, DownIsClear
<1> QED
  BY <1>1, <1>2, <1>3, <1>4, <1>5 DEF Environment

LEMMA OwnersInit == Init => OwnersInv
BY DEF Init, InitWith, OwnersInv, RulesHaveOwner, HostsHaveOwner, DownIsClear

LEMMA OwnersNext == TypeInv /\ OwnersInv /\ [Next]_vars => OwnersInv'
<1> SUFFICES ASSUME TypeInv, OwnersInv, [Next]_vars PROVE OwnersInv'
  OBVIOUS
<1> TypeOK /\ AllPrepared
  BY DEF TypeInv
<1>1. ASSUME NEW c \in Client, Request(c) PROVE OwnersInv'
  BY <1>1, OtherStepsOwned
<1>2. ASSUME NEW c \in Client, Handle(c) PROVE OwnersInv'
  BY <1>2, StartStepsOwned, FinishStepsOwned, OtherStepsOwned DEF Handle
<1>3. CASE WatchdogStep
  BY <1>3, WatchdogStepsOwned
<1>4. CASE WarmStep
  BY <1>4, WarmStepsOwned
<1>5. CASE Environment
  BY <1>5, EnvironmentOwned
<1>6. CASE UNCHANGED vars
  BY <1>6, NothingMoves DEF vars, data, disk, net, ui, world
<1> QED
  BY <1>1, <1>2, <1>3, <1>4, <1>5, <1>6 DEF Next

LEMMA OwnersAlways == Spec => []OwnersInv
<1>1. Spec => []TypeInv
  BY TypeInvInit, TypeInvNext, PTL DEF Spec
<1> QED
  BY <1>1, OwnersInit, OwnersNext, PTL DEF Spec

\* Whatever the clients ask for, and however the watchdog, the warm-up and the
\* ends of the processes interleave with them, no rule the filter tracks is left
\* without a session or a thread that will clear it.
THEOREM RulesOwned == Spec => []RulesHaveOwner
<1>1. OwnersInv => RulesHaveOwner
  BY DEF OwnersInv
<1> QED
  BY <1>1, OwnersAlways, PTL

\* The same of the hosts file, if it can always be written.
THEOREM HostsOwned ==
  ASSUME ~HostsMayFail
  PROVE  Spec => []HostsHaveOwner
<1>1. OwnersInv => HostsHaveOwner
  BY DEF OwnersInv
<1> QED
  BY <1>1, OwnersAlways, PTL

-----------------------------------------------------------------------------
(* A checkpoint has an owner *)

\* t is about to replace the checkpoint, to delete it, or to install its session.
Keeps(t) ==
  \/ t \in Client /\ pc[t] \in {"install", "clear_live_checkpoint"}
  \/ t = Watchdog /\ frame[t].mine # None /\ pc[t] # "set_interrupted"
  \/ t = Warm /\ pc[t] \in {"warm_check", "read_checkpoint", "delete_checkpoint"}

\* The watchdog holds a session only from its park to the write of the offer.
EmptyHanded ==
  pc[Watchdog] \in {"idle", "watch_beat", "see_session", "see_active", "see_armed", "park"}
    => frame[Watchdog].mine = None

LEMMA OwnerIsKeeper ==
  CheckpointHasOwner <=>
    (checkpoint # None => session # None \/ service # "up" \/ \E t \in Thread : Keeps(t))
BY ThreadFacts DEF CheckpointHasOwner, Keeps

\* After a step somebody answers for the checkpoint, or there is none.
LEMMA OwnerAfter ==
  ASSUME checkpoint' = None \/ session' # None \/ \E t \in Thread : Keeps(t)'
  PROVE  CheckpointHasOwner'
BY OwnerIsKeeper, ThreadFacts DEF CheckpointHasOwner, Keeps

\* A thread moves and, if it answered for the checkpoint, still does.
LEMMA OwnerKept ==
  ASSUME ThreadsOK, CheckpointHasOwner, service = "up", NEW t \in Thread, NEW label, NEW f,
         GotoWith(t, label, f), checkpoint' = checkpoint, session # None => session' # None,
         Keeps(t) => Keeps(t)'
  PROVE  CheckpointHasOwner'
<1>1. \A u \in Thread : Keeps(u) => Keeps(u)'
  BY DEF ThreadsOK, GotoWith, Keeps
<1> QED
  BY <1>1, OwnerIsKeeper, OwnerAfter

LEMMA OwnerKeptAt ==
  ASSUME ThreadsOK, CheckpointHasOwner, service = "up", NEW c \in Client, NEW label,
         Goto(c, label) \/ Return(c) \/ (\E f : GotoWith(c, label, f)),
         pc[c] \notin {"install", "clear_live_checkpoint"},
         checkpoint' = checkpoint, session # None => session' # None
  PROVE  CheckpointHasOwner'
<1> USE ThreadFacts
<1>1. ~ Keeps(c) /\ c \in Thread
  BY DEF Keeps
<1> QED
  BY <1>1, GotoIsGotoWith, OwnerKept DEF Return

\* A start writes the checkpoint of the session it is about to install.
LEMMA StartStepsCheckpointed ==
  ASSUME TypeOK, AllPrepared, CheckpointHasOwner, NEW c \in Client, StartOrRestore(c)
  PROVE  CheckpointHasOwner'
<1> USE ThreadFacts
<1> DataOK /\ ThreadsOK
  BY DEF TypeOK
<1> c \in Thread
  OBVIOUS
<1>p. Fits(c, pc[c], frame[c])
  BY DEF AllPrepared
<1>1. CASE CheckSession(c)
  BY <1>1, OwnerKeptAt DEF CheckSession, At, net, world, disk, data, ui
<1>2. CASE GetInterrupted(c)
  BY <1>2, OwnerKeptAt DEF GetInterrupted, At, net, world, disk, data, ui
<1>3. CASE ListSites(c)
  BY <1>3, OwnerKeptAt DEF ListSites, At, net, world, disk, data, ui
<1>4. CASE ClearBeforeApply(c)
  BY <1>4, OwnerKeptAt DEF ClearBeforeApply, At, net, world, disk, data, ui
<1>5. CASE ApplyOne(c)
  BY <1>5, OwnerKeptAt DEF ApplyOne, At, net, world, disk, data, ui
<1>6. CASE SetActive(c)
  BY <1>6, OwnerKeptAt DEF SetActive, At, net, world, disk, data, ui
<1>7. CASE ForgetSummary(c)
  BY <1>7, OwnerKeptAt DEF ForgetSummary, At, net, world, disk, data, ui
<1>8. CASE SetLiveCheckpoint(c)
  <2>1. Keeps(c)'
    BY <1>8, MovesTo DEF SetLiveCheckpoint, Keeps
  <2> QED
    BY <2>1, OwnerAfter
<1>9. CASE Install(c)
  <2>1. session' # None
    BY <1>9, <1>p DEF Install, At, Fits
  <2> QED
    BY <2>1, OwnerAfter
<1>10. CASE Unpark(c)
  BY <1>10, OwnerKeptAt DEF Unpark, At, net, world, disk, data, ui
<1> QED
  BY <1>1, <1>2, <1>3, <1>4, <1>5, <1>6, <1>7, <1>8, <1>9, <1>10 DEF StartOrRestore

\* finish_session answers for the checkpoint from the take on, and deletes it.
LEMMA FinishStepsCheckpointed ==
  ASSUME TypeOK, AllPrepared, CheckpointHasOwner, NEW c \in Client,
         Finish(c) \/ ClearNetwork(c) \/ ClearActive(c)
  PROVE  CheckpointHasOwner'
<1> USE ThreadFacts
<1> DataOK /\ ThreadsOK
  BY DEF TypeOK
<1> c \in Thread
  OBVIOUS
<1>p. Fits(c, pc[c], frame[c])
  BY DEF AllPrepared
<1>1. CASE TakeSession(c)
  <2>1. CASE session = None /\ session' = session /\ AfterFinish(c)
    BY <1>1, <2>1, OwnerKeptAt DEF TakeSession, AfterFinish, At, disk
  <2>2. CASE pc'[c] = "clear_live_checkpoint"
    BY <2>2, OwnerAfter DEF Keeps
  <2> QED
    BY <1>1, <2>1, <2>2, MovesTo DEF TakeSession
<1>2. CASE ClearLiveCheckpoint(c)
  BY <1>2, OwnerAfter DEF ClearLiveCheckpoint
<1>3. CASE Record(c)
  BY <1>3, OwnerKeptAt DEF Record, At, net, world, disk, data, ui
<1>4. CASE Publish(c)
  BY <1>4, OwnerKeptAt DEF Publish, At, net, world, disk, data, ui
<1>5. CASE ClearNetwork(c)
  BY <1>5, OwnerKeptAt DEF ClearNetwork, At, net, world, disk, data, ui
<1>6. CASE ClearActive(c)
  BY <1>6, OwnerKeptAt DEF ClearActive, At, net, world, disk, data, ui
<1> QED
  BY <1>1, <1>2, <1>3, <1>4, <1>5, <1>6 DEF Finish

\* The other steps of requests leave it to its owner; a snapshot has a session.
LEMMA OtherStepsCheckpointed ==
  ASSUME TypeOK, AllPrepared, CheckpointHasOwner, NEW c \in Client,
         Request(c) \/ ClearInterrupted(c) \/ NoteUiPid(c) \/ TouchUi(c) \/ Pop(c)
           \/ RejectIfSession(c) \/ SetEnabled(c) \/ ClearHistory(c) \/ Snapshot(c)
  PROVE  CheckpointHasOwner'
<1> USE ThreadFacts
<1> DataOK /\ ThreadsOK
  BY DEF TypeOK
<1> c \in Thread
  OBVIOUS
<1>p. Fits(c, pc[c], frame[c])
  BY DEF AllPrepared
<1>1. CASE Request(c)
  BY <1>1, OwnerKeptAt DEF Request, At, net, world, disk, data, ui
<1>2. CASE ClearInterrupted(c)
  BY <1>2, OwnerKeptAt DEF ClearInterrupted, At, net, world, disk, data, ui
<1>3. CASE NoteUiPid(c)
  BY <1>3, OwnerKeptAt DEF NoteUiPid, At, net, world, disk, data, ui
<1>4. CASE TouchUi(c)
  BY <1>4, OwnerKeptAt DEF TouchUi, At, net, world, disk, data, ui
<1>5. CASE Pop(c)
  BY <1>5, OwnerKeptAt DEF Pop, At, net, world, disk, data, ui
<1>6. CASE RejectIfSession(c)
  BY <1>6, OwnerKeptAt DEF RejectIfSession, At, net, world, disk, data, ui
<1>7. CASE SetEnabled(c)
  BY <1>7, OwnerKeptAt DEF SetEnabled, At, net, world, disk, data, ui
<1>8. CASE ClearHistory(c)
  BY <1>8, OwnerKeptAt DEF ClearHistory, At, net, world, disk, data, ui
<1>9. CASE Snapshot(c)
  <2>1. CASE session # None
    <3>1. session' # None
      BY <1>9, <2>1, RefreshedTyped DEF Snapshot, SnapshotAt, DataOK
    <3> QED
      BY <3>1, OwnerAfter
  <2>2. CASE session = None
    BY <1>9, <2>2, OwnerKeptAt DEF Snapshot, SnapshotAt, At, disk
  <2> QED
    BY <2>1, <2>2
<1> QED
  BY <1>1, <1>2, <1>3, <1>4, <1>5, <1>6, <1>7, <1>8, <1>9

\* The watchdog moves on with what it holds, and not to the write of the offer.
LEMMA WatchdogKeeps ==
  ASSUME ThreadsOK, CheckpointHasOwner, service = "up", NEW label,
         Goto(Watchdog, label) /\ label # "set_interrupted", checkpoint' = checkpoint, session' = session,
         pc[Watchdog] # "set_interrupted"
  PROVE  CheckpointHasOwner'
<1> USE ThreadFacts
<1>1. Keeps(Watchdog) => Keeps(Watchdog)'
  BY MovesTo DEF Keeps
<1> QED
  BY <1>1, GotoIsGotoWith, OwnerKept

\* The watchdog answers for the checkpoint of the session it parks.
LEMMA WatchdogStepsCheckpointed ==
  ASSUME TypeOK, EmptyHanded, CheckpointHasOwner, WatchdogStep
  PROVE  CheckpointHasOwner'
<1> USE ThreadFacts
<1> DataOK /\ ThreadsOK
  BY DEF TypeOK
<1>1. CASE WatchPid
  BY <1>1, WatchdogKeeps DEF WatchPid, Look, At, net, world, disk, data, ui
<1>2. CASE WatchBeat
  BY <1>2, WatchdogKeeps DEF WatchBeat, Look, At, net, world, disk, data, ui
<1>3. CASE SeeSession
  BY <1>3, WatchdogKeeps DEF SeeSession, Look, At, net, world, disk, data, ui
<1>4. CASE SeeActive
  BY <1>4, WatchdogKeeps DEF SeeActive, Look, At, net, world, disk, data, ui
<1>5. CASE SeeArmed
  BY <1>5, WatchdogKeeps DEF SeeArmed, Look, At, net, world, disk, data, ui
<1>6. CASE Park
  <2>1. CASE session = None /\ session' = session /\ Return(Watchdog)
    <3>1. frame[Watchdog].mine = None
      BY <1>6 DEF Park, At, EmptyHanded
    <3> QED
      BY <1>6, <2>1, <3>1, OwnerKept DEF Park, Return, Keeps, At, disk
  <2>2. ASSUME session # None, NEW sess \in Refreshed(session),
               GotoWith(Watchdog, "clear_network", [EmptyFrame EXCEPT !.mine = sess])
        PROVE  CheckpointHasOwner'
    <3>1. sess # None
      BY <2>2, RefreshedTyped DEF DataOK
    <3>2. Keeps(Watchdog)'
      BY <2>2, <3>1, MovesTo DEF Keeps, EmptyFrame
    <3> QED
      BY <3>2, OwnerAfter
  <2> QED
    BY <1>6, <2>1, <2>2 DEF Park
<1>7. CASE ForgetPid
  BY <1>7, WatchdogKeeps DEF ForgetPid, Look, At, net, world, disk, data, ui
<1>8. CASE ForgetBeat
  BY <1>8, WatchdogKeeps DEF ForgetBeat, Look, At, net, world, disk, data, ui
<1>9. CASE DropSummary
  BY <1>9, WatchdogKeeps DEF DropSummary, Look, At, net, world, disk, data, ui
<1>10. CASE DropCheckpoint
  BY <1>10, OwnerAfter DEF DropCheckpoint
<1>11. CASE SetInterrupted(Watchdog)
  BY <1>11, OwnerKept DEF SetInterrupted, Return, Keeps, At, disk
<1>12. CASE ClearNetwork(Watchdog)
  BY <1>12, WatchdogKeeps DEF ClearNetwork, Look, At, net, world, disk, data, ui
<1>13. CASE ClearActive(Watchdog)
  BY <1>13, WatchdogKeeps DEF ClearActive, Look, At, net, world, disk, data, ui
<1> QED
  BY <1>1, <1>2, <1>3, <1>4, <1>5, <1>6, <1>7, <1>8, <1>9, <1>10, <1>11, <1>12, <1>13 DEF WatchdogStep

\* The warm-up answers for the checkpoint it finds until it has deleted it.
LEMMA WarmStepsCheckpointed ==
  ASSUME TypeOK, CheckpointHasOwner, WarmStep
  PROVE  CheckpointHasOwner'
<1> USE ThreadFacts
<1> DataOK /\ ThreadsOK
  BY DEF TypeOK
<1>1. CASE WarmCheck
  <2>1. CASE session = None
    <3>1. Keeps(Warm)'
      BY <1>1, <2>1, MovesTo DEF WarmCheck, Keeps
    <3> QED
      BY <3>1, OwnerAfter
  <2>2. CASE session # None
    BY <1>1, <2>2, OwnerAfter DEF WarmCheck, data
  <2> QED
    BY <2>1, <2>2
<1>2. CASE ReadCheckpoint
  <2>1. Keeps(Warm)'
    BY <1>2, MovesTo DEF ReadCheckpoint, Keeps
  <2> QED
    BY <2>1, OwnerAfter
<1>3. CASE DeleteCheckpoint
  BY <1>3, OwnerAfter DEF DeleteCheckpoint
<1>4. CASE SetInterrupted(Warm)
  BY <1>4, OwnerKept DEF SetInterrupted, Keeps, At, disk
<1>5. CASE ClearNetwork(Warm)
  BY <1>5, GotoIsGotoWith, OwnerKept DEF ClearNetwork, Keeps, At, disk
<1>6. CASE ClearActive(Warm)
  BY <1>6, OwnerKept DEF ClearActive, Return, Keeps, At, disk
<1> QED
  BY <1>1, <1>2, <1>3, <1>4, <1>5, <1>6 DEF WarmStep

\* A request moves no thread but its own.
LEMMA OthersStay ==
  ASSUME TypeOK, NEW c \in Client, Request(c) \/ Handle(c), NEW u \in Thread, u # c
  PROVE  pc'[u] = pc[u] /\ frame'[u] = frame[u]
<1> USE DEF Goto, GotoWith, Return
<1> ThreadsOK
  BY DEF TypeOK
<1>1. CASE StartOrRestore(c)
  BY <1>1 DEF StartOrRestore, ThreadsOK, CheckSession, GetInterrupted, ListSites, ClearBeforeApply,
              ApplyOne, SetActive, ForgetSummary, SetLiveCheckpoint, Install, Unpark
<1>2. CASE Finish(c) \/ ClearNetwork(c) \/ ClearActive(c)
  BY <1>2, ThreadFacts DEF Finish, ThreadsOK, TakeSession, AfterFinish, ClearLiveCheckpoint, Record,
              Publish, ClearNetwork, ClearActive
<1>3. CASE Request(c) \/ ClearInterrupted(c) \/ NoteUiPid(c) \/ TouchUi(c) \/ Pop(c)
             \/ RejectIfSession(c) \/ SetEnabled(c) \/ ClearHistory(c) \/ Snapshot(c)
  BY <1>3 DEF ThreadsOK, Request, ClearInterrupted, NoteUiPid, TouchUi, Pop, RejectIfSession,
              SetEnabled, ClearHistory, Snapshot, SnapshotAt
<1> QED
  BY <1>1, <1>2, <1>3 DEF Handle

LEMMA EmptyHandedNext == TypeInv /\ EmptyHanded /\ [Next]_vars => EmptyHanded'
<1> SUFFICES ASSUME TypeInv, EmptyHanded, [Next]_vars PROVE EmptyHanded'
  OBVIOUS
<1> USE ThreadFacts
<1> TypeOK /\ ThreadsOK
  BY DEF TypeInv, TypeOK
<1>1. ASSUME NEW c \in Client, Request(c) \/ Handle(c) PROVE EmptyHanded'
  BY <1>1, OthersStay DEF EmptyHanded
<1>2. CASE WatchPid \/ WatchBeat \/ SeeSession \/ SeeActive \/ SeeArmed
  BY <1>2, MovesTo DEF WatchPid, WatchBeat, SeeSession, SeeActive, SeeArmed, Look, At, EmptyHanded
<1>3. CASE Park \/ SetInterrupted(Watchdog) \/ DropCheckpoint
  <2>1. CASE Return(Watchdog)
    BY <2>1, MovesTo DEF Return, EmptyFrame, EmptyHanded
  <2>2. CASE pc'[Watchdog] \in {"clear_network", "set_interrupted"}
    BY <2>2 DEF EmptyHanded
  <2> QED
    BY <1>3, <2>1, <2>2, MovesTo DEF Park, SetInterrupted, DropCheckpoint
<1>4. CASE ForgetPid \/ ForgetBeat \/ DropSummary \/ ClearNetwork(Watchdog) \/ ClearActive(Watchdog)
  BY <1>4, MovesTo DEF ForgetPid, ForgetBeat, DropSummary, ClearNetwork, ClearActive, EmptyHanded
<1>5. CASE WarmStep
  BY <1>5 DEF WarmStep, WarmCheck, ReadCheckpoint, DeleteCheckpoint, SetInterrupted, ClearNetwork,
              ClearActive, Goto, GotoWith, Return, ThreadsOK, EmptyHanded
<1>6. CASE Environment
  BY <1>6 DEF Environment, UiLaunch, UiExit, HeartbeatLapses, ServiceEnds, ServiceStarts, ThreadsOK,
              EmptyFrame, EmptyHanded
<1>7. CASE UNCHANGED vars
  BY <1>7 DEF vars, EmptyHanded
<1> QED
  BY <1>1, <1>2, <1>3, <1>4, <1>5, <1>6, <1>7 DEF Next, WatchdogStep

LEMMA CheckpointStays ==
  ASSUME CheckpointHasOwner, UNCHANGED <<service, checkpoint, session, pc, frame>>
  PROVE  CheckpointHasOwner'
BY DEF CheckpointHasOwner

LEMMA EnvironmentCheckpointed ==
  ASSUME TypeOK, CheckpointHasOwner, Environment
  PROVE  CheckpointHasOwner'
<1>1. CASE UiLaunch \/ UiExit \/ HeartbeatLapses
  BY <1>1, CheckpointStays DEF UiLaunch, UiExit, HeartbeatLapses, disk, world
<1>2. CASE ServiceEnds
  BY <1>2 DEF ServiceEnds, CheckpointHasOwner
<1>3. CASE ServiceStarts
  <2>1. Keeps(Warm)'
    BY <1>3, ThreadFacts DEF ServiceStarts, Keeps, TypeOK, ThreadsOK
  <2> QED
    BY <2>1, ThreadFacts, OwnerAfter
<1> QED
  BY <1>1, <1>2, <1>3 DEF Environment

LEMMA CheckpointNext ==
  TypeInv /\ EmptyHanded /\ CheckpointHasOwner /\ [Next]_vars => CheckpointHasOwner'
<1> SUFFICES ASSUME TypeInv, EmptyHanded, CheckpointHasOwner, [Next]_vars PROVE CheckpointHasOwner'
  OBVIOUS
<1> TypeOK /\ AllPrepared
  BY DEF TypeInv
<1>1. ASSUME NEW c \in Client, Request(c) \/ Handle(c) PROVE CheckpointHasOwner'
  BY <1>1, StartStepsCheckpointed, FinishStepsCheckpointed, OtherStepsCheckpointed DEF Handle
<1>2. CASE WatchdogStep \/ WarmStep
  BY <1>2, WatchdogStepsCheckpointed, WarmStepsCheckpointed
<1>3. CASE Environment
  BY <1>3, EnvironmentCheckpointed
<1>4. CASE UNCHANGED vars
  BY <1>4, CheckpointStays DEF vars, data, disk, world
<1> QED
  BY <1>1, <1>2, <1>3, <1>4 DEF Next

\* Whatever the clients ask for, and wherever the service is stopped, a checkpoint in the
\* database is that of a session still to be ended: what a user ended never comes back as
\* an offer after a crash.
THEOREM CheckpointOwned == Spec => []CheckpointHasOwner
<1>1. Init => CheckpointHasOwner /\ EmptyHanded
  BY ThreadFacts DEF Init, InitWith, CheckpointHasOwner, EmptyHanded, EmptyFrame
<1>2. Spec => []TypeInv
  BY TypeInvInit, TypeInvNext, PTL DEF Spec
<1> QED
  BY <1>1, <1>2, EmptyHandedNext, CheckpointNext, PTL DEF Spec

-----------------------------------------------------------------------------
(* A session is ended by one thread *)

\* t holds a LiveSession that it has built and not yet installed, or has taken and not
\* yet written to the history or to the offer.
Holding(t) ==
  /\ frame[t].mine # None
  /\ (t \in Client /\ pc[t] # "publish") \/ t = Watchdog

Held(t) == frame[t].mine.id

\* Ids are never used again: no LiveSession is in two hands, in a hand and in the slot,
\* or in either and in the history.
IdsInv ==
  /\ session # None => session.id <= lives /\ \A h \in history : h.id # session.id
  /\ \A h \in history : h.id <= lives
  /\ \A t \in Thread : Holding(t) =>
       /\ Held(t) <= lives
       /\ session # None => session.id # Held(t)
       /\ \A h \in history : h.id # Held(t)
  /\ \A t, u \in Thread : Holding(t) /\ Holding(u) /\ t # u => Held(t) # Held(u)

\* A step after which nobody holds what nobody held before.
LEMMA IdsKept ==
  ASSUME IdsInv, lives' = lives, history' \subseteq history,
         session' = None \/ (session # None /\ session'.id = session.id),
         \A u \in Thread : Holding(u)' => Holding(u) /\ Held(u)' = Held(u)
  PROVE  IdsInv'
BY DEF IdsInv

\* A thread that moves with what it holds, or lets go of it.
LEMMA MoveKeepsIds ==
  ASSUME ThreadsOK, IdsInv, NEW t \in Thread, NEW label, NEW f, GotoWith(t, label, f),
         f.mine = None \/ (f.mine = frame[t].mine /\ pc[t] # "publish"),
         lives' = lives, history' \subseteq history,
         session' = None \/ (session # None /\ session'.id = session.id)
  PROVE  IdsInv'
<1>1. \A u \in Thread : Holding(u)' => Holding(u) /\ Held(u)' = Held(u)
  BY DEF ThreadsOK, GotoWith, Holding, Held
<1> QED
  BY <1>1, IdsKept

LEMMA StepKeepsIds ==
  ASSUME ThreadsOK, IdsInv, NEW t \in Thread, NEW label, Goto(t, label) \/ Return(t),
         pc[t] # "publish" \/ Return(t), lives' = lives, history' \subseteq history,
         session' = session
  PROVE  IdsInv'
<1>1. EmptyFrame.mine = None
  BY DEF EmptyFrame
<1> QED
  BY <1>1, GotoIsGotoWith, MoveKeepsIds DEF Return

\* A LiveSession is built: its id is a new one.
LEMMA FreshId ==
  ASSUME TypeOK, IdsInv, NEW c \in Client, NEW label, NEW f, GotoWith(c, label, f),
         lives' = lives + 1, f.mine.id = lives',
         UNCHANGED <<session, history>>
  PROVE  IdsInv'
<1>1. DataOK /\ ThreadsOK /\ c \in Thread
  BY ThreadFacts DEF TypeOK
<1>2. lives \in Nat /\ lives' > lives
  BY <1>1 DEF DataOK
<1>3. Held(c)' = lives'
  BY <1>1, MovesTo DEF Held
<1>4. \A u \in Thread : u # c /\ Holding(u)' => Holding(u) /\ Held(u)' = Held(u)
  BY <1>1 DEF ThreadsOK, GotoWith, Holding, Held
<1>5. \A u \in Thread : Holding(u) => Held(u) \in Nat
  BY <1>1, NoneType DEF Holding, Held, ThreadsOK, Frame, LiveSession
<1>6. (session # None => session.id \in Nat) /\ \A h \in history : h.id \in Nat
  BY <1>1 DEF DataOK, LiveSession
<1>7. \A u \in Thread : Holding(u)' =>
        /\ Held(u)' <= lives'
        /\ session' # None => session'.id # Held(u)'
        /\ \A h \in history' : h.id # Held(u)'
  BY <1>1, <1>2, <1>3, <1>4, <1>5, <1>6 DEF IdsInv, DataOK
<1>8. \A t, u \in Thread : Holding(t)' /\ Holding(u)' /\ t # u => Held(t)' # Held(u)'
  BY <1>2, <1>3, <1>4, <1>5 DEF IdsInv
<1> QED
  BY <1>2, <1>6, <1>7, <1>8 DEF IdsInv

\* A thread takes the session from the slot.
LEMMA TakenId ==
  ASSUME ThreadsOK, IdsInv, NEW t \in Client \cup {Watchdog}, NEW label, NEW f,
         GotoWith(t, label, f), session # None, session' = None, f.mine.id = session.id,
         UNCHANGED <<lives, history>>
  PROVE  IdsInv'
<1>1. t \in Thread
  BY DEF Thread
<1>2. Held(t)' = session.id
  BY <1>1, MovesTo DEF Held
<1>3. \A u \in Thread : u # t /\ Holding(u)' => Holding(u) /\ Held(u)' = Held(u)
  BY <1>1 DEF ThreadsOK, GotoWith, Holding, Held
<1>4. \A u \in Thread : Holding(u)' => Held(u)' <= lives /\ \A h \in history : h.id # Held(u)'
  BY <1>2, <1>3 DEF IdsInv
<1>5. \A u, v \in Thread : Holding(u)' /\ Holding(v)' /\ u # v => Held(u)' # Held(v)'
  BY <1>2, <1>3 DEF IdsInv
<1> QED
  BY <1>4, <1>5 DEF IdsInv

\* A start or a restore builds a LiveSession of its own, and lets go of it when it installs it.
LEMMA StartStepsIds ==
  ASSUME TypeOK, AllPrepared, IdsInv, NEW c \in Client, StartOrRestore(c)
  PROVE  IdsInv'
<1> USE ThreadFacts
<1> DataOK /\ ThreadsOK
  BY DEF TypeOK
<1> c \in Thread
  OBVIOUS
<1>p. Fits(c, pc[c], frame[c])
  BY DEF AllPrepared
<1>f. frame[c] \in Frame
  BY DEF ThreadsOK
<1>1. CASE CheckSession(c)
  <2>1. CASE (Return(c) \/ Goto(c, "get_interrupted")) /\ UNCHANGED lives
    BY <1>1, <2>1, StepKeepsIds DEF CheckSession, At, disk
  <2>2. ASSUME NEW p \in Profile, NEW d \in Duration, lives' = lives + 1,
               GotoWith(c, "clear_interrupted",
                 [frame[c] EXCEPT !.mine = [id |-> lives', started |-> lives',
                                            profile |-> p, left |-> d]])
        PROVE  IdsInv'
    BY <1>1, <2>2, <1>f, FreshId DEF CheckSession, Frame, disk
  <2> QED
    BY <1>1, <2>1, <2>2 DEF CheckSession
<1>2. CASE GetInterrupted(c)
  <2>1. CASE interrupted = None
    BY <1>2, <2>1, StepKeepsIds DEF GetInterrupted, At, disk
  <2>2. CASE interrupted # None
    <3>1. [frame[c] EXCEPT !.mine = [interrupted EXCEPT !.id = lives']].mine.id = lives'
      BY <2>2, <1>f DEF DataOK, LiveSession, Frame
    <3> QED
      BY <1>2, <2>2, <3>1, FreshId DEF GetInterrupted, disk
  <2> QED
    BY <2>1, <2>2
<1>3. CASE ListSites(c)
  <2> DEFINE f == [frame[c] EXCEPT !.rules = RulesOf(frame[c].mine.profile),
                                 !.todo = RulesOf(frame[c].mine.profile)]
  <2>1. GotoWith(c, "clear_all", f)
    BY <1>3 DEF ListSites
  <2>2. f.mine = frame[c].mine
    BY <1>f DEF Frame
  <2> HIDE DEF f
  <2> QED
    BY <1>3, <2>1, <2>2, MoveKeepsIds DEF ListSites, At, data, disk
<1>4. CASE ClearBeforeApply(c)
  BY <1>4, StepKeepsIds DEF ClearBeforeApply, At, net, world, disk, data, ui
<1>5. CASE ApplyOne(c)
  <2>1. PICK s \in frame[c].todo :
               GotoWith(c, "apply_batch", [frame[c] EXCEPT !.todo = frame[c].todo \ {s}])
    BY <1>5 DEF ApplyOne
  <2>2. [frame[c] EXCEPT !.todo = frame[c].todo \ {s}].mine = frame[c].mine
    BY <1>f DEF Frame
  <2> QED
    BY <1>5, <2>1, <2>2, MoveKeepsIds DEF ApplyOne, At, disk
<1>6. CASE SetActive(c)
  BY <1>6, StepKeepsIds DEF SetActive, At, net, world, disk, data, ui
<1>7. CASE ForgetSummary(c)
  BY <1>7, StepKeepsIds DEF ForgetSummary, At, net, world, disk, data, ui
<1>8. CASE SetLiveCheckpoint(c)
  BY <1>8, StepKeepsIds DEF SetLiveCheckpoint, At, net, world, disk, data, ui
<1>9. CASE Install(c)
  <2>1. \A u \in Thread : Holding(u)' => u # c /\ Holding(u) /\ Held(u)' = Held(u)
    <3>1. frame'[c].mine = None
      BY <1>9, MovesTo DEF Install, EmptyFrame
    <3>2. \A u \in Thread : u # c => pc'[u] = pc[u] /\ frame'[u] = frame[u]
      BY <1>9 DEF Install, GotoWith, ThreadsOK
    <3> QED
      BY <3>1, <3>2 DEF Holding, Held
  <2>2. Holding(c) /\ session'.id = Held(c) /\ UNCHANGED <<lives, history>>
    BY <1>9, <1>p DEF Install, Holding, Held, At, Fits, disk
  <2> QED
    BY <2>1, <2>2 DEF IdsInv
<1>10. CASE Unpark(c)
  BY <1>10, StepKeepsIds DEF Unpark, At, net, world, disk, data, ui
<1> QED
  BY <1>1, <1>2, <1>3, <1>4, <1>5, <1>6, <1>7, <1>8, <1>9, <1>10 DEF StartOrRestore

\* finish_session takes the LiveSession from the slot and hands it to the history.
LEMMA FinishStepsIds ==
  ASSUME TypeOK, AllPrepared, IdsInv, NEW c \in Client,
         Finish(c) \/ ClearNetwork(c) \/ ClearActive(c)
  PROVE  IdsInv'
<1> USE ThreadFacts
<1> DataOK /\ ThreadsOK
  BY DEF TypeOK
<1> c \in Thread
  OBVIOUS
<1>p. Fits(c, pc[c], frame[c])
  BY DEF AllPrepared
<1>f. frame[c] \in Frame
  BY DEF ThreadsOK
<1>1. CASE TakeSession(c)
  <2>1. CASE session = None
    BY <1>1, <2>1, StepKeepsIds DEF TakeSession, AfterFinish, At, disk
  <2>2. CASE session # None
    <3>1. PICK sess \in Refreshed(session) :
                 GotoWith(c, "clear_live_checkpoint", [frame[c] EXCEPT !.mine = sess])
      BY <1>1, <2>2 DEF TakeSession
    <3>2. [frame[c] EXCEPT !.mine = sess].mine.id = session.id
      BY <2>2, <1>f DEF Refreshed, DataOK, LiveSession, Frame
    <3> QED
      BY <1>1, <2>2, <3>1, <3>2, TakenId DEF TakeSession, disk
  <2> QED
    BY <2>1, <2>2
<1>2. CASE ClearLiveCheckpoint(c)
  BY <1>2, StepKeepsIds DEF ClearLiveCheckpoint, At, net, world, disk, data, ui
<1>3. CASE Record(c)
  <2>1. \A u \in Thread : Holding(u)' => u # c /\ Holding(u) /\ Held(u)' = Held(u)
    <3>1. pc'[c] = "publish"
      BY <1>3, MovesTo DEF Record
    <3>2. \A u \in Thread : u # c => pc'[u] = pc[u] /\ frame'[u] = frame[u]
      BY <1>3 DEF Record, Goto, ThreadsOK
    <3> QED
      BY <3>1, <3>2 DEF Holding, Held
  <2>2. Holding(c) /\ UNCHANGED <<lives, session>>
    BY <1>3, <1>p DEF Record, Holding, At, Fits, FinishLabels
  <2>3. \A h \in history' : h \in history \/ h.id = Held(c)
    BY <1>3 DEF Record, Held
  <2> QED
    BY <2>1, <2>2, <2>3 DEF IdsInv
<1>4. CASE Publish(c)
  <2>1. PICK label, f : GotoWith(c, label, f) /\ f.mine = None
    BY <1>4, <1>f DEF Publish, Return, Frame, EmptyFrame
  <2> QED
    BY <1>4, <2>1, MoveKeepsIds DEF Publish, disk
<1>5. CASE ClearNetwork(c)
  BY <1>5, StepKeepsIds DEF ClearNetwork, At, net, world, disk, data, ui
<1>6. CASE ClearActive(c)
  BY <1>6, StepKeepsIds DEF ClearActive, At, disk
<1> QED
  BY <1>1, <1>2, <1>3, <1>4, <1>5, <1>6 DEF Finish

\* The other steps of requests make no LiveSession and end none.
LEMMA OtherStepsIds ==
  ASSUME TypeOK, AllPrepared, IdsInv, NEW c \in Client,
         Request(c) \/ ClearInterrupted(c) \/ NoteUiPid(c) \/ TouchUi(c) \/ Pop(c)
           \/ RejectIfSession(c) \/ SetEnabled(c) \/ ClearHistory(c) \/ Snapshot(c)
  PROVE  IdsInv'
<1> USE ThreadFacts
<1> DataOK /\ ThreadsOK
  BY DEF TypeOK
<1> c \in Thread
  OBVIOUS
<1>p. Fits(c, pc[c], frame[c])
  BY DEF AllPrepared
<1>f. frame[c] \in Frame
  BY DEF ThreadsOK
<1>1. CASE Request(c)
  <2>1. PICK cmd, target :
               GotoWith(c, FirstStep(cmd),
                 [EmptyFrame EXCEPT !.cmd = cmd, !.rules = target,
                                    !.ui = IF cmd = "Health" THEN running ELSE 0])
    BY <1>1 DEF Request
  <2>2. [EmptyFrame EXCEPT !.cmd = cmd, !.rules = target,
                           !.ui = IF cmd = "Health" THEN running ELSE 0].mine = None
    BY DEF EmptyFrame
  <2> QED
    BY <1>1, <2>1, <2>2, MoveKeepsIds DEF Request, data, disk
<1>2. CASE ClearInterrupted(c)
  BY <1>2, StepKeepsIds DEF ClearInterrupted, At, net, world, disk, data, ui
<1>3. CASE NoteUiPid(c)
  BY <1>3, StepKeepsIds DEF NoteUiPid, At, net, world, disk, data, ui
<1>4. CASE TouchUi(c)
  BY <1>4, StepKeepsIds DEF TouchUi, At, net, world, disk, data, ui
<1>5. CASE Pop(c)
  BY <1>5, StepKeepsIds DEF Pop, At, net, world, disk, data, ui
<1>6. CASE RejectIfSession(c)
  BY <1>6, StepKeepsIds DEF RejectIfSession, At, net, world, disk, data, ui
<1>7. CASE SetEnabled(c)
  BY <1>7, StepKeepsIds DEF SetEnabled, At, net, world, disk, data, ui
<1>8. CASE ClearHistory(c)
  BY <1>8, StepKeepsIds DEF ClearHistory, At, net, world, disk, data, ui
<1>9. CASE Snapshot(c)
  <2>1. session' = session \/ (session # None /\ session' # None /\ session'.id = session.id)
    <3>1. CASE session = None
      BY <1>9, <3>1 DEF Snapshot, SnapshotAt
    <3>2. CASE session # None
      <4>1. session \in LiveSession /\ session' \in Refreshed(session)
        BY <1>9, <3>2 DEF Snapshot, SnapshotAt, DataOK
      <4>2. session'.id = session.id /\ session' # None
        BY <4>1, RefreshedTyped DEF Refreshed, LiveSession
      <4> QED
        BY <3>2, <4>2
    <3> QED
      BY <3>1, <3>2
  <2>2. PICK label, f : GotoWith(c, label, f) /\ f.mine \in {None, frame[c].mine}
    BY <1>9, GotoIsGotoWith DEF Snapshot, SnapshotAt, Return, EmptyFrame
  <2> QED
    BY <1>9, <2>1, <2>2, MoveKeepsIds DEF Snapshot, SnapshotAt, At
<1> QED
  BY <1>1, <1>2, <1>3, <1>4, <1>5, <1>6, <1>7, <1>8, <1>9

\* The watchdog takes the LiveSession from the slot and lets go of it as it writes the offer.
LEMMA WatchdogStepsIds ==
  ASSUME TypeOK, IdsInv, WatchdogStep
  PROVE  IdsInv'
<1> USE ThreadFacts
<1> DataOK /\ ThreadsOK
  BY DEF TypeOK
<1>1. CASE WatchPid
  BY <1>1, StepKeepsIds DEF WatchPid, Look, At, net, world, disk, data, ui
<1>2. CASE WatchBeat
  BY <1>2, StepKeepsIds DEF WatchBeat, Look, At, net, world, disk, data, ui
<1>3. CASE SeeSession
  BY <1>3, StepKeepsIds DEF SeeSession, Look, At, net, world, disk, data, ui
<1>4. CASE SeeActive
  BY <1>4, StepKeepsIds DEF SeeActive, Look, At, net, world, disk, data, ui
<1>5. CASE SeeArmed
  BY <1>5, StepKeepsIds DEF SeeArmed, Look, At, net, world, disk, data, ui
<1>6. CASE Park
  <2>1. CASE session = None
    BY <1>6, <2>1, StepKeepsIds DEF Park, disk
  <2>2. CASE session # None
    <3>1. PICK sess \in Refreshed(session) :
                 GotoWith(Watchdog, "clear_network", [EmptyFrame EXCEPT !.mine = sess])
      BY <1>6, <2>2 DEF Park
    <3>2. [EmptyFrame EXCEPT !.mine = sess].mine.id = session.id
      BY <2>2 DEF Refreshed, DataOK, LiveSession, EmptyFrame
    <3> QED
      BY <1>6, <2>2, <3>1, <3>2, TakenId DEF Park, disk
  <2> QED
    BY <2>1, <2>2
<1>7. CASE ForgetPid
  BY <1>7, StepKeepsIds DEF ForgetPid, Look, At, net, world, disk, data, ui
<1>8. CASE ForgetBeat
  BY <1>8, StepKeepsIds DEF ForgetBeat, Look, At, net, world, disk, data, ui
<1>9. CASE DropSummary
  BY <1>9, StepKeepsIds DEF DropSummary, Look, At, net, world, disk, data, ui
<1>10. CASE DropCheckpoint
  BY <1>10, StepKeepsIds DEF DropCheckpoint, Look, At, net, world, disk, data, ui
<1>11. CASE SetInterrupted(Watchdog)
  BY <1>11, StepKeepsIds DEF SetInterrupted, Look, At, net, world, disk, data, ui
<1>12. CASE ClearNetwork(Watchdog)
  BY <1>12, StepKeepsIds DEF ClearNetwork, Look, At, net, world, disk, data, ui
<1>13. CASE ClearActive(Watchdog)
  BY <1>13, StepKeepsIds DEF ClearActive, At, disk
<1> QED
  BY <1>1, <1>2, <1>3, <1>4, <1>5, <1>6, <1>7, <1>8, <1>9, <1>10, <1>11, <1>12, <1>13 DEF WatchdogStep

\* The warm-up holds no LiveSession: what it reads is an offer of one.
LEMMA WarmStepsIds ==
  ASSUME TypeOK, IdsInv, WarmStep
  PROVE  IdsInv'
<1> ThreadsOK
  BY DEF TypeOK
<1>1. \A u \in Thread : u # Warm => pc'[u] = pc[u] /\ frame'[u] = frame[u]
  BY DEF WarmStep, WarmCheck, ReadCheckpoint, DeleteCheckpoint, SetInterrupted, ClearNetwork,
         ClearActive, Goto, GotoWith, Return, ThreadsOK
<1>2. ~ Holding(Warm)'
  BY ThreadFacts DEF Holding
<1>3. UNCHANGED <<lives, session, history>>
  BY DEF WarmStep, WarmCheck, ReadCheckpoint, DeleteCheckpoint, SetInterrupted, ClearNetwork,
         ClearActive, data, disk
<1>4. \A u \in Thread : Holding(u)' => Holding(u) /\ Held(u)' = Held(u)
  BY <1>1, <1>2 DEF Holding, Held
<1> QED
  BY <1>3, <1>4 DEF IdsInv

LEMMA EnvironmentIds ==
  ASSUME TypeOK, IdsInv, Environment
  PROVE  IdsInv'
<1> ThreadsOK
  BY DEF TypeOK
<1>1. UNCHANGED <<lives, history>> /\ (session' = session \/ session' = None)
  BY DEF Environment, UiLaunch, UiExit, HeartbeatLapses, ServiceEnds, ServiceStarts, disk
<1>2. \A u \in Thread : Holding(u)' => Holding(u) /\ Held(u)' = Held(u)
  <2>1. CASE ServiceEnds
    BY <2>1 DEF ServiceEnds, Holding, EmptyFrame
  <2>2. CASE ServiceStarts
    BY <2>2, ThreadFacts DEF ServiceStarts, Holding, Held, ThreadsOK
  <2>3. CASE UiLaunch \/ UiExit \/ HeartbeatLapses
    BY <2>3 DEF UiLaunch, UiExit, HeartbeatLapses, Holding, Held
  <2> QED
    BY <2>1, <2>2, <2>3 DEF Environment
<1> QED
  BY <1>1, <1>2 DEF IdsInv

LEMMA IdsNext == TypeInv /\ IdsInv /\ [Next]_vars => IdsInv'
<1> SUFFICES ASSUME TypeInv, IdsInv, [Next]_vars PROVE IdsInv'
  OBVIOUS
<1> TypeOK /\ AllPrepared
  BY DEF TypeInv
<1>1. ASSUME NEW c \in Client, Request(c) \/ Handle(c) PROVE IdsInv'
  BY <1>1, StartStepsIds, FinishStepsIds, OtherStepsIds DEF Handle
<1>2. CASE WatchdogStep \/ WarmStep
  BY <1>2, WatchdogStepsIds, WarmStepsIds
<1>3. CASE Environment
  BY <1>3, EnvironmentIds
<1>4. CASE UNCHANGED vars
  BY <1>4 DEF vars, data, disk, IdsInv, Holding, Held
<1> QED
  BY <1>1, <1>2, <1>3, <1>4 DEF Next

LEMMA IdsInit == Init => IdsInv
BY DEF Init, InitWith, IdsInv, Holding, EmptyFrame

LEMMA EndingHolds ==
  ASSUME TypeInv, NEW t \in Thread, Ending(t)
  PROVE  Holding(t)
<1>1. Fits(t, pc[t], frame[t])
  BY DEF TypeInv, AllPrepared
<1> QED
  BY <1>1, ThreadFacts DEF Ending, Holding, Fits, FinishLabels

\* However many clients end, time out or replace sessions at once, with the watchdog and
\* a stop of the service among them: a LiveSession that was taken is held by one thread
\* and by nothing else, so that it is accounted for once.
THEOREM OneEnds == Spec => []EndedByOne
<1>1. TypeInv /\ IdsInv => EndedByOne
  BY EndingHolds DEF IdsInv, EndedByOne, Held
<1>2. Spec => []TypeInv
  BY TypeInvInit, TypeInvNext, PTL DEF Spec
<1> QED
  BY <1>1, <1>2, IdsInit, IdsNext, PTL DEF Spec
=============================================================================
