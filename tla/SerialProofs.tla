---------------------------- MODULE SerialProofs ----------------------------
(***************************************************************************)
(* Proofs about Engine when requests, reaps and warm-ups do not overlap,   *)
(* for every set of clients, profiles and rules, every failure of the      *)
(* hosts file and a stop at any step: a live session is enforced in full   *)
(* and can be recovered, it reaches the history once, and the engine       *)
(* implements FocusSession.  And, with every overlap, that one connection  *)
(* never replaces a session.                                               *)
(***************************************************************************)
EXTENDS EngineProofs, EngineFocus

-----------------------------------------------------------------------------
(* The inductive invariant *)

\* At most one thread is at work, and one that is not holds no session.  While the
\* service is down nobody is, and there is no session.
Alone ==
  /\ \A t, u \in Thread : pc[t] # "idle" /\ pc[u] # "idle" => t = u
  /\ \A t \in Thread : pc[t] = "idle" => frame[t].mine = None
  /\ service # "up" => session = None /\ stops > 0 /\ \A t \in Thread : pc[t] = "idle"

\* t has seen that there is no session and will install one.
Starting(t) ==
  \/ pc[t] \in {"get_interrupted", "list_sites", "clear_all", "apply_batch",
                "forget_summary", "set_live_checkpoint", "install"}
  \/ pc[t] \in {"clear_interrupted", "touch_ui"} /\ Arms(t)

Reaping == {"see_active", "see_armed", "forget_pid", "forget_beat", "drop_summary",
            "drop_checkpoint", "set_interrupted"}

\* t has seen that there is no session, or has taken the one there was.
Vacant(t) ==
  Starting(t) \/ pc[t] \in FinishLabels \cup Reaping \cup {"set_enabled"}
    \/ (t = Warm /\ pc[t] # "idle")

SlotInv == \A t \in Thread : Vacant(t) => session = None

\* What the locals of a thread hold where it is, beyond Fits.
Holds(t) ==
  /\ pc[t] \in {"check_session", "get_interrupted", "unpark", "snapshot", "take_session",
                "pop", "watch_beat", "see_session", "see_active", "see_armed", "park",
                "warm_check", "read_checkpoint", "note_ui_pid", "reject_if_session",
                "set_enabled", "clear_history"} => frame[t].mine = None
  /\ pc[t] \in {"clear_interrupted", "touch_ui"} /\ ~ Arms(t) => frame[t].mine = None
  /\ t = Warm /\ pc[t] \in {"clear_network", "clear_active"} => frame[t].mine = None
  /\ pc[t] \in {"drop_summary", "drop_checkpoint", "set_interrupted"} => frame[t].mine # None
  /\ pc[t] = "set_interrupted" => frame[t].mine.left > 0
  /\ pc[t] = "check_session" => Arms(t)
  /\ pc[t] = "get_interrupted" => frame[t].cmd = "RestoreInterruptedSession"
  /\ pc[t] = "clear_interrupted" => frame[t].cmd # "RestoreInterruptedSession"
  /\ pc[t] = "unpark" => frame[t].cmd = "RestoreInterruptedSession"
  /\ pc[t] = "snapshot" => frame[t].cmd # "EndSession"
  /\ Starting(t) /\ frame[t].cmd = "StartSession" => frame[t].mine.left \in Duration

HandsInv == \A t \in Thread : Holds(t)

\* What is on offer: nothing while a session is live, except that of the restore in
\* progress.
OfferInv ==
  /\ session # None /\ interrupted # None => \E c \in Client : pc[c] = "unpark"
  /\ \A c \in Client : pc[c] \in FinishLabels \cup {"take_session"} => interrupted = None
  /\ \A c \in Client : Starting(c) /\ pc[c] \notin {"clear_interrupted", "get_interrupted"} =>
       \/ frame[c].cmd = "StartSession" /\ interrupted = None
       \/ /\ frame[c].cmd = "RestoreInterruptedSession" /\ interrupted # None
          /\ Abstract(frame[c].mine) = Abstract(interrupted)

\* A session that is not in the history has a name that no session in it has.
Named(sess) ==
  sess # None =>
    sess.started \in 1 .. lives /\ \A h \in history : h.started # sess.started

NamesInv ==
  /\ lives <= MaxLive
  /\ Named(session) /\ Named(interrupted) /\ Named(checkpoint)
  /\ \A t \in Thread : pc[t] # "publish" => Named(frame[t].mine)
  /\ \A h \in history : h.started \in 1 .. lives
  /\ \A c \in Client : pc[c] \in {"check_session", "get_interrupted"} => lives < MaxLive
  /\ RecordedOnce

\* The rules of the session that is live, or about to be, are on the network.
Hosted      == armed \/ ~ HostsMayFail => hosts = applied
Enforced(p) == active = RulesOf(p) /\ applied = active /\ Hosted

NetInv ==
  /\ session # None => Enforced(session.profile)
  /\ \A c \in Client :
       LET rules == frame[c].rules  todo == frame[c].todo IN
       /\ pc[c] \in {"clear_all", "apply_batch"} => rules = RulesOf(frame[c].mine.profile)
       /\ pc[c] = "clear_all" => todo = rules
       /\ pc[c] = "apply_batch" => todo \subseteq rules /\ applied = rules \ todo /\ Hosted
       /\ /\ Starting(c)
          /\ pc[c] \in {"forget_summary", "touch_ui", "set_live_checkpoint", "install"}
          => Enforced(frame[c].mine.profile)

\* The checkpoint is that of the live session, until the session is out of time.
CheckpointInv ==
  /\ session # None => checkpoint = session \/ \E c \in Client : pc[c] = "take_session"
  /\ \A c \in Client :
       /\ pc[c] = "install" => checkpoint = frame[c].mine
       /\ pc[c] \in FinishLabels \ {"clear_live_checkpoint"} => checkpoint = None
       /\ pc[c] = "take_session" /\ frame[c].cmd # "EndSession" =>
            session # None /\ session.left = 0

\* The first warm-up of all finds no checkpoint.
FirstWarmUp ==
  stops = 0 =>
    /\ pc[Warm] \in {"warm_check", "read_checkpoint"} => checkpoint = None
    /\ frame[Warm].mine = None
    /\ pc[Warm] # "set_interrupted"

SerialInv ==
  /\ Alone /\ SlotInv /\ HandsInv /\ OfferInv /\ NamesInv /\ NetInv /\ CheckpointInv
  /\ FirstWarmUp

-----------------------------------------------------------------------------
(* Steps of a thread that is alone *)

\* The threads other than t are idle, and stay so.
OthersIdle(t) ==
  \A u \in Thread \ {t} :
    pc[u] = "idle" /\ pc'[u] = "idle" /\ frame[u].mine = None /\ frame'[u] = frame[u]

LEMMA OthersAreIdle ==
  ASSUME ThreadsOK, Alone, ~ Overlap, NEW t \in Thread, pc[t] # "idle" \/ MayBegin(t),
         NEW label, NEW f, GotoWith(t, label, f)
  PROVE  OthersIdle(t) /\ pc'[t] = label /\ frame'[t] = f
BY DEF ThreadsOK, Alone, MayBegin, GotoWith, OthersIdle


\* A session is built in the hands of t, under a name of its own or that of the offer.
LEMMA NamesBuilt ==
  ASSUME DataOK, NamesInv, NEW t \in Thread, OthersIdle(t),
         lives < MaxLive, lives' = lives + 1,
         UNCHANGED <<history, session, interrupted, checkpoint>>,
         pc'[t] \in {"clear_interrupted", "list_sites"}, frame'[t].mine # None,
         \/ frame'[t].mine.started = lives'
         \/ interrupted # None /\ frame'[t].mine.started = interrupted.started
  PROVE  NamesInv'
<1>1. lives \in Nat /\ MaxLive \in Nat /\ lives' <= MaxLive /\ 1 .. lives \subseteq 1 .. lives'
  BY BoundsType DEF DataOK
<1>2. Named(session)' /\ Named(interrupted)' /\ Named(checkpoint)'
  BY <1>1 DEF NamesInv, Named
<1>3. Named(frame[t].mine)'
  <2>1. CASE frame'[t].mine.started = lives'
    BY <1>1, <2>1 DEF NamesInv, Named
  <2>2. CASE interrupted # None /\ frame'[t].mine.started = interrupted.started
    BY <1>1, <2>2 DEF NamesInv, Named
  <2> QED
    BY <2>1, <2>2
<1>4. (\A h \in history : h.started \in 1 .. lives)' /\ RecordedOnce'
  BY <1>1 DEF NamesInv, RecordedOnce
<1>5. \A u \in Thread : u # t => pc'[u] = "idle" /\ frame'[u].mine = None
  BY DEF OthersIdle
<1>6. (\A u \in Thread : pc[u] # "publish" => Named(frame[u].mine))'
  BY <1>3, <1>5 DEF Named
<1> QED
  BY <1>1, <1>2, <1>4, <1>5, <1>6, ThreadFacts DEF NamesInv

-----------------------------------------------------------------------------
(* Each step keeps the invariant *)

\* A start or a restore, from the look at the slot to the session in it.
LEMMA StartStepsSerial ==
  ASSUME TypeInv, SerialInv, ~ Overlap, NEW c \in Client, StartOrRestore(c)
  PROVE  SerialInv'
<1> USE ThreadFacts, NoneType
<1>0. /\ DataOK /\ ThreadsOK /\ c \in Thread
      /\ frame[c] \in Frame /\ Fits(c, pc[c], frame[c])
  BY DEF TypeInv, TypeOK, ThreadsOK, AllPrepared
<1>1. CASE CheckSession(c)
  <2>1. CASE session # None /\ Return(c) /\ UNCHANGED lives
    <3>1. /\ OthersIdle(c)
          /\ pc[c] = "check_session"
          /\ pc'[c] = "idle"
          /\ frame'[c] = EmptyFrame
          /\ lives' = lives
      BY <1>0, <1>1, <2>1, OthersAreIdle DEF SerialInv, CheckSession, At, Return
    <3>2. (Alone /\ SlotInv /\ HandsInv)'
      BY <1>0, <1>1, <2>1, <3>1 DEF SerialInv, OthersIdle, CheckSession, disk, net, ui,
         world, data, At, Frame, Return, GotoWith, EmptyFrame, Alone, SlotInv, HandsInv,
         Holds, Vacant, Starting, FinishLabels, Reaping, Arms
    <3>3. (OfferInv /\ NamesInv /\ CheckpointInv /\ FirstWarmUp)'
      BY <1>0, <1>1, <2>1, <3>1 DEF SerialInv, OthersIdle, CheckSession, disk, net, ui,
         world, data, At, Frame, Return, GotoWith, EmptyFrame, OfferInv, NamesInv,
         CheckpointInv, FirstWarmUp, SlotInv, HandsInv, Holds, Vacant, Starting,
         FinishLabels, Reaping, Arms, Abstract, Named, RecordedOnce
    <3>4. NetInv'
      BY <1>0, <1>1, <2>1, <3>1 DEF SerialInv, OthersIdle, CheckSession, disk, net, ui,
         world, data, At, Frame, Return, GotoWith, EmptyFrame, NetInv, SlotInv, Vacant,
         Starting, FinishLabels, Reaping, Arms, Enforced, Hosted, RulesOf
    <3> QED
      BY <3>2, <3>3, <3>4 DEF SerialInv
  <2>2. CASE /\ session = None /\ frame[c].cmd = "RestoreInterruptedSession"
             /\ Goto(c, "get_interrupted") /\ UNCHANGED lives
    <3>1. OthersIdle(c) /\ pc[c] = "check_session" /\ pc'[c] = "get_interrupted" /\ frame'[c] = frame[c]
        /\ session = None /\ lives' = lives /\ frame[c].cmd = "RestoreInterruptedSession"
      BY <1>0, <1>1, <2>2, OthersAreIdle, GotoIsGotoWith, MovesTo DEF SerialInv,
         CheckSession, At, Return
    <3>2. (Alone /\ SlotInv /\ HandsInv)'
      BY <1>0, <1>1, <2>2, <3>1 DEF SerialInv, OthersIdle, CheckSession, disk, net, ui,
         world, data, At, Frame, Alone, SlotInv, HandsInv, Holds, Vacant, Starting,
         FinishLabels, Reaping, Arms
    <3>3. (OfferInv /\ NamesInv /\ CheckpointInv /\ FirstWarmUp)'
      BY <1>0, <1>1, <2>2, <3>1 DEF SerialInv, OthersIdle, CheckSession, disk, net, ui,
         world, data, At, Frame, OfferInv, NamesInv, CheckpointInv, FirstWarmUp, SlotInv,
         HandsInv, Holds, Vacant, Starting, FinishLabels, Reaping, Arms, Abstract, Named,
         RecordedOnce
    <3>4. NetInv'
      BY <1>0, <1>1, <2>2, <3>1 DEF SerialInv, OthersIdle, CheckSession, disk, net, ui,
         world, data, At, Frame, NetInv, SlotInv, Vacant, Starting, FinishLabels, Reaping,
         Arms, Enforced, Hosted, RulesOf
    <3> QED
      BY <3>2, <3>3, <3>4 DEF SerialInv
  <2>3. ASSUME session = None, frame[c].cmd = "StartSession", lives' = lives + 1,
               NEW p \in Profile, NEW d \in Duration,
               GotoWith(c, "clear_interrupted",
                 [frame[c] EXCEPT !.mine = [id |-> lives', started |-> lives',
                                            profile |-> p, left |-> d]])
        PROVE  SerialInv'
    <3> DEFINE new == [id |-> lives', started |-> lives', profile |-> p, left |-> d]
               f   == [frame[c] EXCEPT !.mine = new]
    <3>1. new # None /\ new.started = lives + 1 /\ new.left \in Duration /\ lives \in Nat
      BY <1>0, <2>3, DurationType DEF DataOK, LiveSession
    <3>2. f.cmd = "StartSession" /\ f.mine = new
      BY <1>0, <2>3 DEF Frame
    <3> HIDE DEF new
    <3>3. /\ OthersIdle(c)
          /\ pc[c] = "check_session"
          /\ pc'[c] = "clear_interrupted"
          /\ frame'[c] = f
      BY <1>0, <1>1, <2>3, OthersAreIdle DEF SerialInv, CheckSession, At, new
    <3>4. (Alone /\ SlotInv /\ HandsInv)'
      BY <1>0, <1>1, <2>3, <3>1, <3>2, <3>3 DEF SerialInv, OthersIdle, CheckSession, disk,
         net, ui, world, data, At, Frame, Alone, SlotInv, HandsInv, Holds, Vacant, Starting,
         FinishLabels, Reaping, Arms
    <3>5. OfferInv'
      BY <1>0, <1>1, <2>3, <3>1, <3>2, <3>3 DEF SerialInv, OthersIdle, CheckSession, disk,
         net, ui, world, data, At, Frame, OfferInv, Abstract, SlotInv, HandsInv, Holds,
         Vacant, Starting, FinishLabels, Reaping, Arms
    <3>6. NamesInv'
      BY <1>0, <1>1, <2>3, <3>1, <3>2, <3>3, NamesBuilt DEF SerialInv, NamesInv,
         CheckSession, disk
    <3>7. (CheckpointInv /\ FirstWarmUp)'
      BY <1>0, <1>1, <2>3, <3>1, <3>2, <3>3 DEF SerialInv, OthersIdle, CheckSession, disk,
         net, ui, world, data, At, Frame, CheckpointInv, FirstWarmUp, SlotInv, HandsInv,
         Holds, Vacant, Starting, FinishLabels, Reaping, Arms
    <3>8. NetInv'
      BY <1>0, <1>1, <2>3, <3>1, <3>2, <3>3 DEF SerialInv, OthersIdle, CheckSession, disk,
         net, ui, world, data, At, Frame, NetInv, SlotInv, Vacant, Starting, FinishLabels,
         Reaping, Arms, Enforced, Hosted, RulesOf
    <3> QED
      BY <3>4, <3>5, <3>6, <3>7, <3>8 DEF SerialInv
  <2> QED
    BY <1>1, <2>1, <2>2, <2>3 DEF CheckSession
<1>2. CASE GetInterrupted(c)
  <2>1. CASE Return(c)
    <3>1. /\ OthersIdle(c)
          /\ pc[c] = "get_interrupted"
          /\ pc'[c] = "idle"
          /\ frame'[c] = EmptyFrame
          /\ lives' = lives
      BY <1>0, <1>2, <2>1, OthersAreIdle, MovesTo DEF SerialInv, GetInterrupted, At, Return,
         EmptyFrame
    <3>2. (Alone /\ SlotInv /\ HandsInv)'
      BY <1>0, <1>2, <2>1, <3>1 DEF SerialInv, OthersIdle, GetInterrupted, disk, net, ui,
         world, data, At, Frame, Return, GotoWith, EmptyFrame, Alone, SlotInv, HandsInv,
         Holds, Vacant, Starting, FinishLabels, Reaping, Arms
    <3>3. (OfferInv /\ NamesInv /\ CheckpointInv /\ FirstWarmUp)'
      BY <1>0, <1>2, <2>1, <3>1 DEF SerialInv, OthersIdle, GetInterrupted, disk, net, ui,
         world, data, At, Frame, Return, GotoWith, EmptyFrame, OfferInv, NamesInv,
         CheckpointInv, FirstWarmUp, SlotInv, HandsInv, Holds, Vacant, Starting,
         FinishLabels, Reaping, Arms, Abstract, Named, RecordedOnce
    <3>4. NetInv'
      BY <1>0, <1>2, <2>1, <3>1 DEF SerialInv, OthersIdle, GetInterrupted, disk, net, ui,
         world, data, At, Frame, Return, GotoWith, EmptyFrame, NetInv, SlotInv, Vacant,
         Starting, FinishLabels, Reaping, Arms, Enforced, Hosted, RulesOf
    <3> QED
      BY <3>2, <3>3, <3>4 DEF SerialInv
  <2>2. CASE ~ Return(c)
    <3> DEFINE new == [interrupted EXCEPT !.id = lives']
               f   == [frame[c] EXCEPT !.mine = new]
    <3>1. interrupted # None /\ lives' = lives + 1 /\ GotoWith(c, "list_sites", f)
      BY <1>2, <2>2 DEF GetInterrupted
    <3>2. /\ new # None /\ new.started = interrupted.started /\ lives \in Nat
          /\ Abstract(new) = Abstract(interrupted)
      BY <1>0, <3>1 DEF DataOK, LiveSession, Abstract
    <3>3. f.cmd = frame[c].cmd /\ f.mine = new
      BY <1>0 DEF Frame
    <3> HIDE DEF new
    <3>4. OthersIdle(c) /\ pc[c] = "get_interrupted" /\ pc'[c] = "list_sites" /\ frame'[c] = f
      BY <1>0, <1>2, <3>1, OthersAreIdle DEF SerialInv, GetInterrupted, At
    <3>5. (Alone /\ SlotInv /\ HandsInv)'
      BY <1>0, <1>2, <3>1, <3>2, <3>3, <3>4 DEF SerialInv, OthersIdle, GetInterrupted, disk,
         net, ui, world, data, At, Frame, Alone, SlotInv, HandsInv, Holds, Vacant, Starting,
         FinishLabels, Reaping, Arms
    <3>6. OfferInv'
      BY <1>0, <1>2, <3>1, <3>2, <3>3, <3>4 DEF SerialInv, OthersIdle, GetInterrupted, disk,
         net, ui, world, data, At, Frame, OfferInv, Abstract, SlotInv, HandsInv, Holds,
         Vacant, Starting, FinishLabels, Reaping, Arms
    <3>7. NamesInv'
      BY <1>0, <1>2, <3>1, <3>2, <3>3, <3>4, NamesBuilt DEF SerialInv, NamesInv,
         GetInterrupted, disk
    <3>8. (CheckpointInv /\ FirstWarmUp)'
      BY <1>0, <1>2, <3>1, <3>2, <3>3, <3>4 DEF SerialInv, OthersIdle, GetInterrupted, disk,
         net, ui, world, data, At, Frame, CheckpointInv, FirstWarmUp, SlotInv, HandsInv,
         Holds, Vacant, Starting, FinishLabels, Reaping, Arms
    <3>9. NetInv'
      BY <1>0, <1>2, <3>1, <3>2, <3>3, <3>4 DEF SerialInv, OthersIdle, GetInterrupted, disk,
         net, ui, world, data, At, Frame, NetInv, SlotInv, Vacant, Starting, FinishLabels,
         Reaping, Arms, Enforced, Hosted, RulesOf
    <3> QED
      BY <3>5, <3>6, <3>7, <3>8, <3>9 DEF SerialInv
  <2> QED
    BY <2>1, <2>2
<1>3. CASE ListSites(c)
  <2>1. /\ frame'[c].cmd = frame[c].cmd /\ frame'[c].mine = frame[c].mine
        /\ frame'[c].rules = RulesOf(frame[c].mine.profile) /\ frame'[c].todo = frame'[c].rules
    BY <1>0, <1>3 DEF ListSites, GotoWith, Frame, ThreadsOK
  <2>2. \A p : RulesOf(p)' = RulesOf(p)
    BY <1>3 DEF ListSites, data, disk, RulesOf
  <2>3. OthersIdle(c) /\ pc[c] = "list_sites" /\ pc'[c] = "clear_all"
    BY <1>0, <1>3, OthersAreIdle DEF SerialInv, ListSites, At
  <2>4. (Alone /\ SlotInv /\ HandsInv)'
    BY <1>0, <1>3, <2>1, <2>3 DEF SerialInv, OthersIdle, ListSites, disk, net, ui, world,
       data, At, Frame, Alone, SlotInv, HandsInv, Holds, Vacant, Starting, FinishLabels,
       Reaping, Arms
  <2>5. OfferInv'
    BY <1>0, <1>3, <2>1, <2>3 DEF SerialInv, OthersIdle, ListSites, disk, net, ui, world,
       data, At, Frame, OfferInv, Abstract, SlotInv, HandsInv, Holds, Vacant, Starting,
       FinishLabels, Reaping, Arms
  <2>6. NamesInv'
    BY <1>0, <1>3, <2>1, <2>3 DEF SerialInv, OthersIdle, ListSites, disk, net, ui, world,
       data, At, Frame, NamesInv, Named, RecordedOnce, SlotInv, HandsInv, Holds, Vacant,
       Starting, FinishLabels, Reaping, Arms
  <2>7. (CheckpointInv /\ FirstWarmUp)'
    BY <1>0, <1>3, <2>1, <2>3 DEF SerialInv, OthersIdle, ListSites, disk, net, ui, world,
       data, At, Frame, CheckpointInv, FirstWarmUp, SlotInv, HandsInv, Holds, Vacant,
       Starting, FinishLabels, Reaping, Arms
  <2>8. NetInv'
    BY <1>0, <1>3, <2>1, <2>2, <2>3 DEF SerialInv, OthersIdle, ListSites, data, net, disk,
       NetInv, SlotInv, Vacant, Starting, Enforced, Hosted
  <2> QED
    BY <2>4, <2>5, <2>6, <2>7, <2>8 DEF SerialInv
<1>4. CASE ClearBeforeApply(c)
  <2>1. OthersIdle(c) /\ pc[c] = "clear_all" /\ pc'[c] = "apply_batch" /\ frame'[c] = frame[c]
    BY <1>0, <1>4, OthersAreIdle, GotoIsGotoWith DEF SerialInv, ClearBeforeApply, At, Return
  <2>2. (Alone /\ SlotInv /\ HandsInv)'
    BY <1>0, <1>4, <2>1 DEF SerialInv, OthersIdle, ClearBeforeApply, disk, net, ui, world,
       data, At, Frame, ClearAll, SyncHosts, Alone, SlotInv, HandsInv, Holds, Vacant,
       Starting, FinishLabels, Reaping, Arms
  <2>3. (OfferInv /\ NamesInv /\ CheckpointInv /\ FirstWarmUp)'
    BY <1>0, <1>4, <2>1 DEF SerialInv, OthersIdle, ClearBeforeApply, disk, net, ui, world,
       data, At, Frame, ClearAll, SyncHosts, OfferInv, NamesInv, CheckpointInv, FirstWarmUp,
       SlotInv, HandsInv, Holds, Vacant, Starting, FinishLabels, Reaping, Arms, Abstract,
       Named, RecordedOnce
  <2>4. NetInv'
    BY <1>0, <1>4, <2>1 DEF SerialInv, OthersIdle, ClearBeforeApply, disk, net, ui, world,
       data, At, Frame, ClearAll, SyncHosts, NetInv, SlotInv, Vacant, Starting, FinishLabels,
       Reaping, Arms, Enforced, Hosted, RulesOf
  <2> QED
    BY <2>2, <2>3, <2>4 DEF SerialInv
<1>5. CASE ApplyOne(c)
  <2>1. PICK s \in frame[c].todo :
          /\ Apply(s)
          /\ GotoWith(c, "apply_batch", [frame[c] EXCEPT !.todo = frame[c].todo \ {s}])
    BY <1>5 DEF ApplyOne
  <2>2. /\ OthersIdle(c)
        /\ pc[c] = "apply_batch"
        /\ pc'[c] = "apply_batch"
        /\ frame'[c] = [frame[c] EXCEPT !.todo = frame[c].todo \ {s}]
    BY <1>0, <1>5, <2>1, OthersAreIdle DEF SerialInv, ApplyOne, At
  <2>3. (Alone /\ SlotInv /\ HandsInv)'
    BY <1>0, <1>5, <2>1, <2>2 DEF SerialInv, OthersIdle, ApplyOne, disk, net, ui, world, data,
       At, Frame, Apply, SyncHosts, Alone, SlotInv, HandsInv, Holds, Vacant, Starting,
       FinishLabels, Reaping, Arms
  <2>4. (OfferInv /\ NamesInv /\ CheckpointInv /\ FirstWarmUp)'
    BY <1>0, <1>5, <2>1, <2>2 DEF SerialInv, OthersIdle, ApplyOne, disk, net, ui, world, data,
       At, Frame, Apply, SyncHosts, OfferInv, NamesInv, CheckpointInv, FirstWarmUp, SlotInv,
       HandsInv, Holds, Vacant, Starting, FinishLabels, Reaping, Arms, Abstract, Named,
       RecordedOnce
  <2>5. NetInv'
    BY <1>0, <1>5, <2>1, <2>2 DEF SerialInv, OthersIdle, ApplyOne, disk, net, ui, world, data,
       At, Frame, Apply, SyncHosts, NetInv, SlotInv, Vacant, Starting, FinishLabels, Reaping,
       Arms, Enforced, Hosted, RulesOf
  <2> QED
    BY <2>3, <2>4, <2>5 DEF SerialInv
<1>6. CASE SetActive(c)
  <2>0. applied = frame[c].rules
    BY <1>0, <1>6 DEF SetActive, At, SerialInv, NetInv
  <2>1. /\ OthersIdle(c)
        /\ pc[c] = "apply_batch"
        /\ pc'[c] = "forget_summary"
        /\ frame'[c] = frame[c]
    BY <1>0, <1>6, OthersAreIdle, GotoIsGotoWith DEF SerialInv, SetActive, At, Return
  <2>2. (Alone /\ SlotInv /\ HandsInv)'
    BY <1>0, <1>6, <2>1, <2>0 DEF SerialInv, OthersIdle, SetActive, disk, net, ui, world,
       data, At, Frame, Fits, Alone, SlotInv, HandsInv, Holds, Vacant, Starting, FinishLabels,
       Reaping, Arms
  <2>3. (OfferInv /\ NamesInv /\ CheckpointInv /\ FirstWarmUp)'
    BY <1>0, <1>6, <2>1, <2>0 DEF SerialInv, OthersIdle, SetActive, disk, net, ui, world,
       data, At, Frame, Fits, OfferInv, NamesInv, CheckpointInv, FirstWarmUp, SlotInv,
       HandsInv, Holds, Vacant, Starting, FinishLabels, Reaping, Arms, Abstract, Named,
       RecordedOnce
  <2>4. NetInv'
    BY <1>0, <1>6, <2>1, <2>0 DEF SerialInv, OthersIdle, SetActive, disk, net, ui, world,
       data, At, Frame, Fits, NetInv, SlotInv, Vacant, Starting, FinishLabels, Reaping, Arms,
       Enforced, Hosted, RulesOf
  <2> QED
    BY <2>2, <2>3, <2>4 DEF SerialInv
<1>7. CASE ForgetSummary(c)
  <2>1. OthersIdle(c) /\ pc[c] = "forget_summary" /\ pc'[c] = "touch_ui" /\ frame'[c] = frame[c]
    BY <1>0, <1>7, OthersAreIdle, GotoIsGotoWith DEF SerialInv, ForgetSummary, At, Return
  <2>2. (Alone /\ SlotInv /\ HandsInv)'
    BY <1>0, <1>7, <2>1 DEF SerialInv, OthersIdle, ForgetSummary, disk, net, ui, world, data,
       At, Frame, Fits, Alone, SlotInv, HandsInv, Holds, Vacant, Starting, FinishLabels,
       Reaping, Arms
  <2>3. (OfferInv /\ NamesInv /\ CheckpointInv /\ FirstWarmUp)'
    BY <1>0, <1>7, <2>1 DEF SerialInv, OthersIdle, ForgetSummary, disk, net, ui, world, data,
       At, Frame, Fits, OfferInv, NamesInv, CheckpointInv, FirstWarmUp, SlotInv, HandsInv,
       Holds, Vacant, Starting, FinishLabels, Reaping, Arms, Abstract, Named, RecordedOnce
  <2>4. NetInv'
    BY <1>0, <1>7, <2>1 DEF SerialInv, OthersIdle, ForgetSummary, disk, net, ui, world, data,
       At, Frame, Fits, NetInv, SlotInv, Vacant, Starting, FinishLabels, Reaping, Arms,
       Enforced, Hosted, RulesOf
  <2> QED
    BY <2>2, <2>3, <2>4 DEF SerialInv
<1>8. CASE SetLiveCheckpoint(c)
  <2>1. /\ OthersIdle(c)
        /\ pc[c] = "set_live_checkpoint"
        /\ pc'[c] = "install"
        /\ frame'[c] = frame[c]
    BY <1>0, <1>8, OthersAreIdle, GotoIsGotoWith DEF SerialInv, SetLiveCheckpoint, At, Return
  <2>2. (Alone /\ SlotInv /\ HandsInv)'
    BY <1>0, <1>8, <2>1 DEF SerialInv, OthersIdle, SetLiveCheckpoint, disk, net, ui, world,
       data, At, Frame, Alone, SlotInv, HandsInv, Holds, Vacant, Starting, FinishLabels,
       Reaping, Arms
  <2>3. (OfferInv /\ NamesInv /\ CheckpointInv /\ FirstWarmUp)'
    BY <1>0, <1>8, <2>1 DEF SerialInv, OthersIdle, SetLiveCheckpoint, disk, net, ui, world,
       data, At, Frame, OfferInv, NamesInv, CheckpointInv, FirstWarmUp, SlotInv, HandsInv,
       Holds, Vacant, Starting, FinishLabels, Reaping, Arms, Abstract, Named, RecordedOnce
  <2>4. NetInv'
    BY <1>0, <1>8, <2>1 DEF SerialInv, OthersIdle, SetLiveCheckpoint, disk, net, ui, world,
       data, At, Frame, NetInv, SlotInv, Vacant, Starting, FinishLabels, Reaping, Arms,
       Enforced, Hosted, RulesOf
  <2> QED
    BY <2>2, <2>3, <2>4 DEF SerialInv
<1>9. CASE Install(c)
  <2> DEFINE f == [EmptyFrame EXCEPT !.cmd = frame[c].cmd]
  <2>1. f.cmd = frame[c].cmd /\ f.mine = None
    BY DEF EmptyFrame
  <2>2. /\ OthersIdle(c) /\ pc[c] = "install" /\ frame'[c] = f
        /\ pc'[c] = IF frame[c].cmd = "RestoreInterruptedSession" THEN "unpark" ELSE "snapshot"
    BY <1>0, <1>9, OthersAreIdle DEF SerialInv, Install, At
  <2>3. Alone'
    BY <1>0, <1>9, <2>1, <2>2 DEF SerialInv, OthersIdle, Install, disk, net, ui, world, data,
       At, Frame, Fits, Alone
  <2>4. SlotInv'
    BY <1>0, <1>9, <2>1, <2>2 DEF SerialInv, OthersIdle, Install, disk, net, ui, world, data,
       At, Frame, Fits, SlotInv, Vacant, Starting, Arms, FinishLabels, Reaping
  <2>5. HandsInv'
    BY <1>0, <1>9, <2>1, <2>2 DEF SerialInv, OthersIdle, Install, disk, net, ui, world, data,
       At, Frame, Fits, HandsInv, Holds, Starting, Arms, FinishLabels
  <2>6. OfferInv'
    BY <1>0, <1>9, <2>1, <2>2 DEF SerialInv, OthersIdle, Install, disk, net, ui, world, data,
       At, Frame, Fits, OfferInv, Abstract, SlotInv, HandsInv, Holds, Vacant, Starting,
       FinishLabels, Reaping, Arms
  <2>7. NamesInv'
    BY <1>0, <1>9, <2>1, <2>2 DEF SerialInv, OthersIdle, Install, disk, net, ui, world, data,
       At, Frame, Fits, NamesInv, Named, RecordedOnce, SlotInv, HandsInv, Holds, Vacant,
       Starting, FinishLabels, Reaping, Arms
  <2>8. (CheckpointInv /\ FirstWarmUp)'
    BY <1>0, <1>9, <2>1, <2>2 DEF SerialInv, OthersIdle, Install, disk, net, ui, world, data,
       At, Frame, Fits, CheckpointInv, FirstWarmUp, SlotInv, HandsInv, Holds, Vacant,
       Starting, FinishLabels, Reaping, Arms
  <2>9. NetInv'
    BY <1>0, <1>9, <2>1, <2>2 DEF SerialInv, OthersIdle, Install, disk, net, ui, world, data,
       At, Frame, Fits, NetInv, SlotInv, Vacant, Starting, FinishLabels, Reaping, Arms,
       Enforced, Hosted, RulesOf
  <2> QED
    BY <2>3, <2>4, <2>5, <2>6, <2>7, <2>8, <2>9 DEF SerialInv
<1>10. CASE Unpark(c)
  <2>1. OthersIdle(c) /\ pc[c] = "unpark" /\ pc'[c] = "snapshot" /\ frame'[c] = frame[c]
    BY <1>0, <1>10, OthersAreIdle, GotoIsGotoWith DEF SerialInv, Unpark, At, Return
  <2>2. (Alone /\ SlotInv /\ HandsInv)'
    BY <1>0, <1>10, <2>1 DEF SerialInv, OthersIdle, Unpark, disk, net, ui, world, data, At,
       Frame, Alone, SlotInv, HandsInv, Holds, Vacant, Starting, FinishLabels, Reaping, Arms
  <2>3. (OfferInv /\ NamesInv /\ CheckpointInv /\ FirstWarmUp)'
    BY <1>0, <1>10, <2>1 DEF SerialInv, OthersIdle, Unpark, disk, net, ui, world, data, At,
       Frame, OfferInv, NamesInv, CheckpointInv, FirstWarmUp, SlotInv, HandsInv, Holds,
       Vacant, Starting, FinishLabels, Reaping, Arms, Abstract, Named, RecordedOnce
  <2>4. NetInv'
    BY <1>0, <1>10, <2>1 DEF SerialInv, OthersIdle, Unpark, disk, net, ui, world, data, At,
       Frame, NetInv, SlotInv, Vacant, Starting, FinishLabels, Reaping, Arms, Enforced,
       Hosted, RulesOf
  <2> QED
    BY <2>2, <2>3, <2>4 DEF SerialInv
<1> QED
  BY <1>1, <1>2, <1>3, <1>4, <1>5, <1>6, <1>7, <1>8, <1>9, <1>10 DEF StartOrRestore

\* finish_session, from the take of the session to the summary of it.
LEMMA FinishStepsSerial ==
  ASSUME TypeInv, SerialInv, ~ Overlap, NEW c \in Client, Finish(c)
  PROVE  SerialInv'
<1> USE ThreadFacts, NoneType
<1>0. /\ DataOK /\ ThreadsOK /\ c \in Thread
      /\ frame[c] \in Frame /\ Fits(c, pc[c], frame[c])
  BY DEF TypeInv, TypeOK, ThreadsOK, AllPrepared
<1>1. CASE TakeSession(c)
  <2>1. CASE session = None
    <3>1. AfterFinish(c) /\ UNCHANGED data
      BY <1>1, <2>1 DEF TakeSession, data
    <3>2. CASE frame[c].cmd = "EndSession"
      <4>1. OthersIdle(c) /\ pc[c] = "take_session" /\ pc'[c] = "pop" /\ frame'[c] = frame[c]
        BY <1>0, <1>1, <3>1, <3>2, OthersAreIdle, GotoIsGotoWith DEF SerialInv,
           TakeSession, AfterFinish, At
      <4>2. (Alone /\ SlotInv /\ HandsInv)'
        BY <1>0, <2>1, <3>1, <3>2, <4>1 DEF SerialInv, OthersIdle, disk, net, ui, world,
           data, At, Frame, Alone, SlotInv, HandsInv, Holds, Vacant, Starting,
           FinishLabels, Reaping, Arms
      <4>3. (OfferInv /\ NamesInv /\ CheckpointInv /\ FirstWarmUp)'
        BY <1>0, <2>1, <3>1, <3>2, <4>1 DEF SerialInv, OthersIdle, disk, net, ui, world,
           data, At, Frame, OfferInv, NamesInv, CheckpointInv, FirstWarmUp, SlotInv,
           HandsInv, Holds, Vacant, Starting, FinishLabels, Reaping, Arms, Abstract,
           Named, RecordedOnce
      <4>4. NetInv'
        BY <1>0, <2>1, <3>1, <3>2, <4>1 DEF SerialInv, OthersIdle, disk, net, ui, world,
           data, At, Frame, NetInv, SlotInv, Vacant, Starting, FinishLabels, Reaping,
           Arms, Enforced, Hosted, RulesOf
      <4> QED
        BY <4>2, <4>3, <4>4 DEF SerialInv
    <3>3. CASE frame[c].cmd # "EndSession"
      <4>1. OthersIdle(c) /\ pc[c] = "take_session" /\ pc'[c] = "idle" /\ frame'[c] = EmptyFrame
        BY <1>0, <1>1, <3>1, <3>3, OthersAreIdle DEF SerialInv, TakeSession, AfterFinish,
           At, Return
      <4>2. (Alone /\ SlotInv /\ HandsInv)'
        BY <1>0, <2>1, <3>1, <3>3, <4>1 DEF SerialInv, OthersIdle, EmptyFrame, disk, net,
           ui, world, data, At, Frame, Alone, SlotInv, HandsInv, Holds, Vacant, Starting,
           FinishLabels, Reaping, Arms
      <4>3. (OfferInv /\ NamesInv /\ CheckpointInv /\ FirstWarmUp)'
        BY <1>0, <2>1, <3>1, <3>3, <4>1 DEF SerialInv, OthersIdle, EmptyFrame, disk, net,
           ui, world, data, At, Frame, OfferInv, NamesInv, CheckpointInv, FirstWarmUp,
           SlotInv, HandsInv, Holds, Vacant, Starting, FinishLabels, Reaping, Arms,
           Abstract, Named, RecordedOnce
      <4>4. NetInv'
        BY <1>0, <2>1, <3>1, <3>3, <4>1 DEF SerialInv, OthersIdle, EmptyFrame, disk, net,
           ui, world, data, At, Frame, NetInv, SlotInv, Vacant, Starting, FinishLabels,
           Reaping, Arms, Enforced, Hosted, RulesOf
      <4> QED
        BY <4>2, <4>3, <4>4 DEF SerialInv
    <3> QED
      BY <3>2, <3>3
  <2>2. CASE session # None
    <3>1. PICK sess \in Refreshed(session) :
            GotoWith(c, "clear_live_checkpoint", [frame[c] EXCEPT !.mine = sess])
      BY <1>1, <2>2 DEF TakeSession
    <3>2. sess # None /\ sess.started = session.started
      BY <1>0, <2>2, <3>1, RefreshedTyped, NoneType DEF DataOK, Refreshed, LiveSession
    <3>3. frame'[c].cmd = frame[c].cmd /\ frame'[c].mine = sess
      BY <1>0, <3>1 DEF GotoWith, Frame, ThreadsOK
    <3>4. OthersIdle(c) /\ pc[c] = "take_session" /\ pc'[c] = "clear_live_checkpoint"
      BY <1>0, <1>1, <3>1, OthersAreIdle DEF SerialInv, TakeSession, At
    <3>5. (Alone /\ SlotInv /\ HandsInv)'
      BY <1>0, <1>1, <2>2, <3>2, <3>3, <3>4 DEF SerialInv, OthersIdle, TakeSession, disk,
         net, ui, world, data, At, Frame, Alone, SlotInv, HandsInv, Holds, Vacant, Starting,
         FinishLabels, Reaping, Arms
    <3>6. OfferInv'
      BY <1>0, <1>1, <2>2, <3>2, <3>3, <3>4 DEF SerialInv, OthersIdle, TakeSession, disk,
         net, ui, world, data, At, Frame, OfferInv, Abstract, SlotInv, HandsInv, Holds,
         Vacant, Starting, FinishLabels, Reaping, Arms
    <3>7. NamesInv'
      BY <1>0, <1>1, <2>2, <3>2, <3>3, <3>4 DEF SerialInv, OthersIdle, TakeSession, disk,
         net, ui, world, data, At, Frame, NamesInv, Named, RecordedOnce, SlotInv, HandsInv,
         Holds, Vacant, Starting, FinishLabels, Reaping, Arms
    <3>8. (CheckpointInv /\ FirstWarmUp)'
      BY <1>0, <1>1, <2>2, <3>2, <3>3, <3>4 DEF SerialInv, OthersIdle, TakeSession, disk,
         net, ui, world, data, At, Frame, CheckpointInv, FirstWarmUp, SlotInv, HandsInv,
         Holds, Vacant, Starting, FinishLabels, Reaping, Arms
    <3>9. NetInv'
      BY <1>0, <1>1, <2>2, <3>2, <3>3, <3>4 DEF SerialInv, OthersIdle, TakeSession, disk,
         net, ui, world, data, At, Frame, NetInv, SlotInv, Vacant, Starting, FinishLabels,
         Reaping, Arms, Enforced, Hosted, RulesOf
    <3> QED
      BY <3>5, <3>6, <3>7, <3>8, <3>9 DEF SerialInv
  <2> QED
    BY <2>1, <2>2
<1>2. CASE ClearLiveCheckpoint(c)
  <2>1. /\ OthersIdle(c)
        /\ pc[c] = "clear_live_checkpoint"
        /\ pc'[c] = "clear_network"
        /\ frame'[c] = frame[c]
    BY <1>0, <1>2, OthersAreIdle, GotoIsGotoWith DEF SerialInv, ClearLiveCheckpoint, At,
       Return
  <2>2. (Alone /\ SlotInv /\ HandsInv)'
    BY <1>0, <1>2, <2>1 DEF SerialInv, OthersIdle, ClearLiveCheckpoint, disk, net, ui, world,
       data, At, Frame, Alone, SlotInv, HandsInv, Holds, Vacant, Starting, FinishLabels,
       Reaping, Arms
  <2>3. (OfferInv /\ NamesInv /\ CheckpointInv /\ FirstWarmUp)'
    BY <1>0, <1>2, <2>1 DEF SerialInv, OthersIdle, ClearLiveCheckpoint, disk, net, ui, world,
       data, At, Frame, OfferInv, NamesInv, CheckpointInv, FirstWarmUp, SlotInv, HandsInv,
       Holds, Vacant, Starting, FinishLabels, Reaping, Arms, Abstract, Named, RecordedOnce
  <2>4. NetInv'
    BY <1>0, <1>2, <2>1 DEF SerialInv, OthersIdle, ClearLiveCheckpoint, disk, net, ui, world,
       data, At, Frame, NetInv, SlotInv, Vacant, Starting, FinishLabels, Reaping, Arms,
       Enforced, Hosted, RulesOf
  <2> QED
    BY <2>2, <2>3, <2>4 DEF SerialInv
<1>3. CASE Record(c)
  <2>0. frame[c].mine # None /\ Named(frame[c].mine)
    BY <1>0, <1>3 DEF Record, At, SerialInv, NamesInv, Fits, FinishLabels
  <2>1. OthersIdle(c) /\ pc[c] = "record" /\ pc'[c] = "publish" /\ frame'[c] = frame[c]
    BY <1>0, <1>3, OthersAreIdle, GotoIsGotoWith DEF SerialInv, Record, At, Return
  <2>2. (Alone /\ SlotInv /\ HandsInv)'
    BY <1>0, <1>3, <2>1, <2>0 DEF SerialInv, OthersIdle, Record, disk, net, ui, world, data,
       At, Frame, Alone, SlotInv, HandsInv, Holds, Vacant, Starting, FinishLabels, Reaping,
       Arms
  <2>3. OfferInv'
    BY <1>0, <1>3, <2>1, <2>0 DEF SerialInv, OthersIdle, Record, disk, net, ui, world, data,
       At, Frame, OfferInv, Abstract, SlotInv, HandsInv, Holds, Vacant, Starting,
       FinishLabels, Reaping, Arms
  <2>4. NamesInv'
    BY <1>0, <1>3, <2>0, <2>1 DEF SerialInv, OthersIdle, Record, NamesInv, Named,
       RecordedOnce, SlotInv, Vacant, OfferInv, CheckpointInv, FinishLabels
  <2>5. (CheckpointInv /\ FirstWarmUp)'
    BY <1>0, <1>3, <2>1, <2>0 DEF SerialInv, OthersIdle, Record, disk, net, ui, world, data,
       At, Frame, CheckpointInv, FirstWarmUp, SlotInv, HandsInv, Holds, Vacant, Starting,
       FinishLabels, Reaping, Arms
  <2>6. NetInv'
    BY <1>0, <1>3, <2>1, <2>0 DEF SerialInv, OthersIdle, Record, disk, net, ui, world, data,
       At, Frame, NetInv, SlotInv, Vacant, Starting, FinishLabels, Reaping, Arms, Enforced,
       Hosted, RulesOf
  <2> QED
    BY <2>2, <2>3, <2>4, <2>5, <2>6 DEF SerialInv
<1>4. CASE Publish(c)
  <2>1. /\ pc'[c] \in {"pop", "idle"} /\ frame'[c].mine = None
        /\ pc'[c] = "pop" => frame'[c].cmd = frame[c].cmd
    BY <1>0, <1>4 DEF Publish, Return, GotoWith, EmptyFrame, Frame, ThreadsOK
  <2>2. OthersIdle(c) /\ pc[c] = "publish"
    BY <1>0, <1>4, OthersAreIdle DEF SerialInv, Publish, Return, At
  <2>3. (Alone /\ SlotInv /\ HandsInv)'
    BY <1>0, <1>4, <2>1, <2>2 DEF SerialInv, OthersIdle, Publish, disk, net, ui, world, data,
       At, Frame, Alone, SlotInv, HandsInv, Holds, Vacant, Starting, FinishLabels, Reaping,
       Arms
  <2>4. (OfferInv /\ NamesInv /\ CheckpointInv /\ FirstWarmUp)'
    BY <1>0, <1>4, <2>1, <2>2 DEF SerialInv, OthersIdle, Publish, disk, net, ui, world, data,
       At, Frame, OfferInv, NamesInv, CheckpointInv, FirstWarmUp, SlotInv, HandsInv, Holds,
       Vacant, Starting, FinishLabels, Reaping, Arms, Abstract, Named, RecordedOnce
  <2>5. NetInv'
    BY <1>0, <1>4, <2>1, <2>2 DEF SerialInv, OthersIdle, Publish, disk, net, ui, world, data,
       At, Frame, NetInv, SlotInv, Vacant, Starting, FinishLabels, Reaping, Arms, Enforced,
       Hosted, RulesOf
  <2> QED
    BY <2>3, <2>4, <2>5 DEF SerialInv
<1> QED
  BY <1>1, <1>2, <1>3, <1>4 DEF Finish

\* clear_network, of a client that ends its session, of the watchdog and of the warm-up.
LEMMA ClearStepsSerial ==
  ASSUME TypeInv, SerialInv, ~ Overlap, NEW t \in Thread, ClearNetwork(t) \/ ClearActive(t)
  PROVE  SerialInv'
<1> USE ThreadFacts, NoneType
<1>0. /\ DataOK /\ ThreadsOK /\ t \in Thread
      /\ frame[t] \in Frame /\ Fits(t, pc[t], frame[t])
  BY DEF TypeInv, TypeOK, ThreadsOK, AllPrepared
<1>v. Vacant(t) /\ session = None
  BY <1>0 DEF SerialInv, SlotInv, Vacant, FinishLabels, ClearNetwork, ClearActive, At
<1>1. CASE ClearNetwork(t)
  <2>1. /\ OthersIdle(t)
        /\ pc[t] = "clear_network"
        /\ pc'[t] = "clear_active"
        /\ frame'[t] = frame[t]
    BY <1>0, <1>1, OthersAreIdle, GotoIsGotoWith DEF SerialInv, ClearNetwork, At, Return
  <2>2. (Alone /\ SlotInv /\ HandsInv)'
    BY <1>0, <1>1, <2>1, <1>v DEF SerialInv, OthersIdle, ClearNetwork, disk, net, ui, world,
       data, At, Frame, ClearAll, SyncHosts, Alone, SlotInv, HandsInv, Holds, Vacant,
       Starting, FinishLabels, Reaping, Arms
  <2>3. (OfferInv /\ NamesInv /\ CheckpointInv /\ FirstWarmUp)'
    BY <1>0, <1>1, <2>1, <1>v DEF SerialInv, OthersIdle, ClearNetwork, disk, net, ui, world,
       data, At, Frame, ClearAll, SyncHosts, OfferInv, NamesInv, CheckpointInv, FirstWarmUp,
       SlotInv, HandsInv, Holds, Vacant, Starting, FinishLabels, Reaping, Arms, Abstract,
       Named, RecordedOnce
  <2>4. NetInv'
    BY <1>0, <1>1, <2>1, <1>v DEF SerialInv, OthersIdle, ClearNetwork, disk, net, ui, world,
       data, At, Frame, ClearAll, SyncHosts, NetInv, SlotInv, Vacant, Starting, FinishLabels,
       Reaping, Arms, Enforced, Hosted, RulesOf
  <2> QED
    BY <2>2, <2>3, <2>4 DEF SerialInv
<1>2. CASE ClearActive(t)
  <2>1. \/ t = Watchdog /\ pc'[t] = "forget_pid" /\ frame'[t] = frame[t]
        \/ t = Warm /\ pc'[t] = "idle" /\ frame'[t].mine = None
        \/ t \in Client /\ pc'[t] = "record" /\ frame'[t] = frame[t]
    BY <1>0, <1>2, MovesTo DEF ClearActive, Return, EmptyFrame
  <2>2. OthersIdle(t) /\ pc[t] = "clear_active"
    BY <1>0, <1>2, OthersAreIdle, GotoIsGotoWith DEF SerialInv, ClearActive, Return, At
  <2>3. (Alone /\ SlotInv /\ HandsInv)'
    BY <1>0, <1>2, <1>v, <2>1, <2>2 DEF SerialInv, OthersIdle, ClearActive, disk, net, ui,
       world, data, At, Frame, Alone, SlotInv, HandsInv, Holds, Vacant, Starting,
       FinishLabels, Reaping, Arms
  <2>4. OfferInv'
    BY <1>0, <1>2, <1>v, <2>1, <2>2 DEF SerialInv, OthersIdle, ClearActive, disk, net, ui,
       world, data, At, Frame, OfferInv, Abstract, SlotInv, HandsInv, Holds, Vacant, Starting,
       FinishLabels, Reaping, Arms
  <2>5. NamesInv'
    BY <1>0, <1>2, <1>v, <2>1, <2>2 DEF SerialInv, OthersIdle, ClearActive, disk, net, ui,
       world, data, At, Frame, NamesInv, Named, RecordedOnce, SlotInv, HandsInv, Holds,
       Vacant, Starting, FinishLabels, Reaping, Arms
  <2>6. (CheckpointInv /\ FirstWarmUp)'
    BY <1>0, <1>2, <1>v, <2>1, <2>2 DEF SerialInv, OthersIdle, ClearActive, disk, net, ui,
       world, data, At, Frame, CheckpointInv, FirstWarmUp, SlotInv, HandsInv, Holds, Vacant,
       Starting, FinishLabels, Reaping, Arms
  <2>7. NetInv'
    BY <1>0, <1>2, <1>v, <2>1, <2>2 DEF SerialInv, OthersIdle, ClearActive, disk, net, ui,
       world, data, At, Frame, NetInv, SlotInv, Vacant, Starting, FinishLabels, Reaping, Arms,
       Enforced, Hosted, RulesOf
  <2> QED
    BY <2>3, <2>4, <2>5, <2>6, <2>7 DEF SerialInv
<1> QED
  BY <1>1, <1>2

\* The other steps of a request.
LEMMA OtherStepsSerial ==
  ASSUME TypeInv, SerialInv, ~ Overlap, NEW c \in Client,
         Request(c) \/ ClearInterrupted(c) \/ NoteUiPid(c) \/ TouchUi(c) \/ Snapshot(c)
           \/ Pop(c) \/ RejectIfSession(c) \/ SetEnabled(c) \/ ClearHistory(c)
  PROVE  SerialInv'
<1> USE ThreadFacts, NoneType
<1>0. /\ DataOK /\ ThreadsOK /\ c \in Thread
      /\ frame[c] \in Frame /\ Fits(c, pc[c], frame[c])
  BY DEF TypeInv, TypeOK, ThreadsOK, AllPrepared
<1>1. CASE Request(c)
  <2>1. PICK cmd \in Commands, target \in UNION {Targets(k) : k \in Commands} :
          /\ cmd \in {"StartSession", "RestoreInterruptedSession"} => lives < MaxLive
          /\ GotoWith(c, FirstStep(cmd),
               [EmptyFrame EXCEPT !.cmd = cmd, !.rules = target,
                                  !.ui = IF cmd = "Health" THEN running ELSE 0])
    BY <1>1 DEF Request
  <2>2. UNCHANGED data /\ service = "up"
    BY <1>1 DEF Request, At
  <2>3. frame'[c].mine = None /\ frame'[c].cmd = cmd
    BY <1>0, <2>1 DEF GotoWith, ThreadsOK, EmptyFrame
  <2>4. /\ pc'[c] = "check_session" <=> cmd \in {"StartSession", "RestoreInterruptedSession"}
        /\ pc'[c] = "clear_interrupted" <=> cmd \in {"EndSession", "DiscardInterruptedSession"}
        /\ pc'[c] = "touch_ui" => cmd \in {"GetSession", "UiHeartbeat"}
        /\ pc'[c] \in {"check_session", "clear_interrupted", "touch_ui", "clear_history",
                       "note_ui_pid", "pop", "reject_if_session"}
    BY <1>0, <2>1, MovesTo, CommandsType DEF FirstStep, AllCommands
  <2>5. OthersIdle(c) /\ pc[c] = "idle" /\ frame[c].mine = None
    BY <1>0, <1>1, <2>1, OthersAreIdle DEF SerialInv, Request, At, Alone
  <2>6. (Alone /\ SlotInv /\ HandsInv)'
    BY <1>0, <2>1, <2>2, <2>3, <2>4, <2>5 DEF SerialInv, OthersIdle, disk, net, ui, world,
       data, At, Frame, Alone, SlotInv, HandsInv, Holds, Vacant, Starting, FinishLabels,
       Reaping, Arms
  <2>7. OfferInv'
    BY <1>0, <2>1, <2>2, <2>3, <2>4, <2>5 DEF SerialInv, OthersIdle, disk, net, ui, world,
       data, At, Frame, OfferInv, Abstract, SlotInv, HandsInv, Holds, Vacant, Starting,
       FinishLabels, Reaping, Arms
  <2>8. NamesInv'
    BY <1>0, <2>1, <2>2, <2>3, <2>4, <2>5 DEF SerialInv, OthersIdle, disk, net, ui, world,
       data, At, Frame, NamesInv, Named, RecordedOnce, SlotInv, HandsInv, Holds, Vacant,
       Starting, FinishLabels, Reaping, Arms
  <2>9. (CheckpointInv /\ FirstWarmUp)'
    BY <1>0, <2>1, <2>2, <2>3, <2>4, <2>5 DEF SerialInv, OthersIdle, disk, net, ui, world,
       data, At, Frame, CheckpointInv, FirstWarmUp, SlotInv, HandsInv, Holds, Vacant,
       Starting, FinishLabels, Reaping, Arms
  <2>10. NetInv'
    BY <1>0, <2>1, <2>2, <2>3, <2>4, <2>5 DEF SerialInv, OthersIdle, disk, net, ui, world,
       data, At, Frame, NetInv, SlotInv, Vacant, Starting, FinishLabels, Reaping, Arms,
       Enforced, Hosted, RulesOf
  <2> QED
    BY <2>6, <2>7, <2>8, <2>9, <2>10 DEF SerialInv
<1>2. CASE ClearInterrupted(c)
  <2>1. /\ frame[c].cmd = "StartSession" => pc'[c] = "list_sites" /\ frame'[c] = frame[c]
        /\ frame[c].cmd = "EndSession" => pc'[c] = "take_session" /\ frame'[c] = frame[c]
        /\ frame[c].cmd \notin {"StartSession", "EndSession"} =>
             pc'[c] = "idle" /\ frame'[c].mine = None
        /\ frame[c].cmd # "RestoreInterruptedSession"
    BY <1>0, <1>2, MovesTo DEF ClearInterrupted, Return, EmptyFrame
  <2>2. OthersIdle(c) /\ pc[c] = "clear_interrupted"
    BY <1>0, <1>2, OthersAreIdle, GotoIsGotoWith DEF SerialInv, ClearInterrupted, Return, At
  <2>3. (Alone /\ SlotInv /\ HandsInv)'
    BY <1>0, <1>2, <2>1, <2>2 DEF SerialInv, OthersIdle, ClearInterrupted, disk, net, ui,
       world, data, At, Frame, Alone, SlotInv, HandsInv, Holds, Vacant, Starting,
       FinishLabels, Reaping, Arms
  <2>4. OfferInv'
    BY <1>0, <1>2, <2>1, <2>2 DEF SerialInv, OthersIdle, ClearInterrupted, disk, net, ui,
       world, data, At, Frame, OfferInv, Abstract, SlotInv, HandsInv, Holds, Vacant, Starting,
       FinishLabels, Reaping, Arms
  <2>5. NamesInv'
    BY <1>0, <1>2, <2>1, <2>2 DEF SerialInv, OthersIdle, ClearInterrupted, disk, net, ui,
       world, data, At, Frame, NamesInv, Named, RecordedOnce, SlotInv, HandsInv, Holds,
       Vacant, Starting, FinishLabels, Reaping, Arms
  <2>6. (CheckpointInv /\ FirstWarmUp)'
    BY <1>0, <1>2, <2>1, <2>2 DEF SerialInv, OthersIdle, ClearInterrupted, disk, net, ui,
       world, data, At, Frame, CheckpointInv, FirstWarmUp, SlotInv, HandsInv, Holds, Vacant,
       Starting, FinishLabels, Reaping, Arms
  <2>7. NetInv'
    BY <1>0, <1>2, <2>1, <2>2 DEF SerialInv, OthersIdle, ClearInterrupted, disk, net, ui,
       world, data, At, Frame, NetInv, SlotInv, Vacant, Starting, FinishLabels, Reaping, Arms,
       Enforced, Hosted, RulesOf
  <2> QED
    BY <2>3, <2>4, <2>5, <2>6, <2>7 DEF SerialInv
<1>3. CASE NoteUiPid(c)
  <2>1. OthersIdle(c) /\ pc[c] = "note_ui_pid" /\ pc'[c] = "touch_ui" /\ frame'[c] = frame[c]
    BY <1>0, <1>3, OthersAreIdle, GotoIsGotoWith DEF SerialInv, NoteUiPid, At, Return
  <2>2. (Alone /\ SlotInv /\ HandsInv)'
    BY <1>0, <1>3, <2>1 DEF SerialInv, OthersIdle, NoteUiPid, disk, net, ui, world, data, At,
       Frame, Fits, Alone, SlotInv, HandsInv, Holds, Vacant, Starting, FinishLabels, Reaping,
       Arms
  <2>3. (OfferInv /\ NamesInv /\ CheckpointInv /\ FirstWarmUp)'
    BY <1>0, <1>3, <2>1 DEF SerialInv, OthersIdle, NoteUiPid, disk, net, ui, world, data, At,
       Frame, Fits, OfferInv, NamesInv, CheckpointInv, FirstWarmUp, SlotInv, HandsInv, Holds,
       Vacant, Starting, FinishLabels, Reaping, Arms, Abstract, Named, RecordedOnce
  <2>4. NetInv'
    BY <1>0, <1>3, <2>1 DEF SerialInv, OthersIdle, NoteUiPid, disk, net, ui, world, data, At,
       Frame, Fits, NetInv, SlotInv, Vacant, Starting, FinishLabels, Reaping, Arms, Enforced,
       Hosted, RulesOf
  <2> QED
    BY <2>2, <2>3, <2>4 DEF SerialInv
<1>4. CASE TouchUi(c)
  <2>1. \/ Arms(c) /\ pc'[c] = "set_live_checkpoint" /\ frame'[c] = frame[c]
        \/ frame[c].cmd = "GetSession" /\ pc'[c] = "snapshot" /\ frame'[c] = frame[c]
        \/ pc'[c] = "idle" /\ frame'[c].mine = None
    BY <1>0, <1>4, MovesTo DEF TouchUi, Return, EmptyFrame
  <2>2. OthersIdle(c) /\ pc[c] = "touch_ui"
    BY <1>0, <1>4, OthersAreIdle, GotoIsGotoWith DEF SerialInv, TouchUi, Return, At
  <2>3. (Alone /\ SlotInv /\ HandsInv)'
    BY <1>0, <1>4, <2>1, <2>2 DEF SerialInv, OthersIdle, TouchUi, Fits, disk, net, ui, world,
       data, At, Frame, Alone, SlotInv, HandsInv, Holds, Vacant, Starting, FinishLabels,
       Reaping, Arms
  <2>4. OfferInv'
    BY <1>0, <1>4, <2>1, <2>2 DEF SerialInv, OthersIdle, TouchUi, Fits, disk, net, ui, world,
       data, At, Frame, OfferInv, Abstract, SlotInv, HandsInv, Holds, Vacant, Starting,
       FinishLabels, Reaping, Arms
  <2>5. NamesInv'
    BY <1>0, <1>4, <2>1, <2>2 DEF SerialInv, OthersIdle, TouchUi, Fits, disk, net, ui, world,
       data, At, Frame, NamesInv, Named, RecordedOnce, SlotInv, HandsInv, Holds, Vacant,
       Starting, FinishLabels, Reaping, Arms
  <2>6. (CheckpointInv /\ FirstWarmUp)'
    BY <1>0, <1>4, <2>1, <2>2 DEF SerialInv, OthersIdle, TouchUi, Fits, disk, net, ui, world,
       data, At, Frame, CheckpointInv, FirstWarmUp, SlotInv, HandsInv, Holds, Vacant,
       Starting, FinishLabels, Reaping, Arms
  <2>7. NetInv'
    BY <1>0, <1>4, <2>1, <2>2 DEF SerialInv, OthersIdle, TouchUi, Fits, disk, net, ui, world,
       data, At, Frame, NetInv, SlotInv, Vacant, Starting, FinishLabels, Reaping, Arms,
       Enforced, Hosted, RulesOf
  <2> QED
    BY <2>3, <2>4, <2>5, <2>6, <2>7 DEF SerialInv
<1>5. CASE Snapshot(c)
  <2>1. CASE session = None
    <3>1. UNCHANGED data /\ Return(c)
      BY <1>5, <2>1 DEF Snapshot, SnapshotAt, data, disk
    <3>2. OthersIdle(c) /\ pc[c] = "snapshot" /\ pc'[c] = "idle" /\ frame'[c] = EmptyFrame
      BY <1>0, <1>5, <3>1, OthersAreIdle DEF SerialInv, Snapshot, SnapshotAt, Return, At
    <3>3. (Alone /\ SlotInv /\ HandsInv)'
      BY <1>0, <2>1, <3>1, <3>2 DEF SerialInv, OthersIdle, EmptyFrame, disk, net, ui, world,
         data, At, Frame, Alone, SlotInv, HandsInv, Holds, Vacant, Starting, FinishLabels,
         Reaping, Arms
    <3>4. (OfferInv /\ NamesInv /\ CheckpointInv /\ FirstWarmUp)'
      BY <1>0, <2>1, <3>1, <3>2 DEF SerialInv, OthersIdle, EmptyFrame, disk, net, ui, world,
         data, At, Frame, OfferInv, NamesInv, CheckpointInv, FirstWarmUp, SlotInv, HandsInv,
         Holds, Vacant, Starting, FinishLabels, Reaping, Arms, Abstract, Named, RecordedOnce
    <3>5. NetInv'
      BY <1>0, <2>1, <3>1, <3>2 DEF SerialInv, OthersIdle, EmptyFrame, disk, net, ui, world,
         data, At, Frame, NetInv, SlotInv, Vacant, Starting, FinishLabels, Reaping, Arms,
         Enforced, Hosted, RulesOf
    <3> QED
      BY <3>3, <3>4, <3>5 DEF SerialInv
  <2>2. CASE session # None
    <3>1. /\ session' # None /\ session'.started = session.started /\ session'.left \in Nat
          /\ session'.profile = session.profile
      BY <1>0, <1>5, <2>2, RefreshedTyped, NoneType
         DEF Snapshot, SnapshotAt, Refreshed, DataOK, LiveSession
    <3>2. \/ session'.left = 0 /\ pc'[c] = "take_session" /\ frame'[c] = frame[c] /\ UNCHANGED checkpoint
          \/ checkpoint' = session' /\ pc'[c] = "idle" /\ frame'[c].mine = None
      BY <1>0, <1>5, <2>2, <3>1, MovesTo DEF Snapshot, SnapshotAt, Return, EmptyFrame
    <3>3. OthersIdle(c) /\ pc[c] = "snapshot" /\ frame[c].mine = None /\ ~ Vacant(c)
      BY <1>0, <1>5, <2>2, OthersAreIdle, GotoIsGotoWith
         DEF SerialInv, Snapshot, SnapshotAt, Return, At, HandsInv, Holds, SlotInv
    <3>4. interrupted = None
      BY <1>0, <2>2, <3>3 DEF SerialInv, OfferInv, OthersIdle
    <3>5. /\ service = "up"
          /\ UNCHANGED <<lives, interrupted, history, enabled, net, ui, world>>
      BY <1>5 DEF Snapshot, SnapshotAt, At
    <3>6. (Alone /\ SlotInv /\ HandsInv)'
      BY <1>0, <2>2, <3>1, <3>2, <3>3, <3>4, <3>5 DEF SerialInv, OthersIdle, disk, net, ui,
         world, data, At, Frame, Alone, SlotInv, HandsInv, Holds, Vacant, Starting,
         FinishLabels, Reaping, Arms
    <3>7. OfferInv'
      BY <1>0, <2>2, <3>1, <3>2, <3>3, <3>4, <3>5 DEF SerialInv, OthersIdle, disk, net, ui,
         world, data, At, Frame, OfferInv, Abstract, SlotInv, HandsInv, Holds, Vacant,
         Starting, FinishLabels, Reaping, Arms
    <3>8. NamesInv'
      BY <1>0, <2>2, <3>1, <3>2, <3>3, <3>4, <3>5 DEF SerialInv, OthersIdle, disk, net, ui,
         world, data, At, Frame, NamesInv, Named, RecordedOnce, SlotInv, HandsInv, Holds,
         Vacant, Starting, FinishLabels, Reaping, Arms
    <3>9. (CheckpointInv /\ FirstWarmUp)'
      BY <1>0, <2>2, <3>1, <3>2, <3>3, <3>4, <3>5 DEF SerialInv, OthersIdle, disk, net, ui,
         world, data, At, Frame, CheckpointInv, FirstWarmUp, SlotInv, HandsInv, Holds,
         Vacant, Starting, FinishLabels, Reaping, Arms
    <3>10. NetInv'
      BY <1>0, <2>2, <3>1, <3>2, <3>3, <3>4, <3>5 DEF SerialInv, OthersIdle, disk, net, ui,
         world, data, At, Frame, NetInv, SlotInv, Vacant, Starting, FinishLabels, Reaping,
         Arms, Enforced, Hosted, RulesOf
    <3> QED
      BY <3>6, <3>7, <3>8, <3>9, <3>10 DEF SerialInv
  <2> QED
    BY <2>1, <2>2
<1>6. CASE Pop(c)
  <2>1. OthersIdle(c) /\ pc[c] = "pop" /\ pc'[c] = "idle" /\ frame'[c] = EmptyFrame
    BY <1>0, <1>6, OthersAreIdle, GotoIsGotoWith DEF SerialInv, Pop, At, Return
  <2>2. (Alone /\ SlotInv /\ HandsInv)'
    BY <1>0, <1>6, <2>1 DEF SerialInv, OthersIdle, Pop, disk, net, ui, world, data, At, Frame,
       EmptyFrame, Alone, SlotInv, HandsInv, Holds, Vacant, Starting, FinishLabels, Reaping,
       Arms
  <2>3. (OfferInv /\ NamesInv /\ CheckpointInv /\ FirstWarmUp)'
    BY <1>0, <1>6, <2>1 DEF SerialInv, OthersIdle, Pop, disk, net, ui, world, data, At, Frame,
       EmptyFrame, OfferInv, NamesInv, CheckpointInv, FirstWarmUp, SlotInv, HandsInv, Holds,
       Vacant, Starting, FinishLabels, Reaping, Arms, Abstract, Named, RecordedOnce
  <2>4. NetInv'
    BY <1>0, <1>6, <2>1 DEF SerialInv, OthersIdle, Pop, disk, net, ui, world, data, At, Frame,
       EmptyFrame, NetInv, SlotInv, Vacant, Starting, FinishLabels, Reaping, Arms, Enforced,
       Hosted, RulesOf
  <2> QED
    BY <2>2, <2>3, <2>4 DEF SerialInv
<1>7. CASE RejectIfSession(c)
  <2>1. \/ pc'[c] = "idle" /\ frame'[c].mine = None
        \/ session = None /\ pc'[c] = "set_enabled" /\ frame'[c] = frame[c]
    BY <1>0, <1>7, MovesTo DEF RejectIfSession, Return, EmptyFrame
  <2>2. OthersIdle(c) /\ pc[c] = "reject_if_session"
    BY <1>0, <1>7, OthersAreIdle, GotoIsGotoWith DEF SerialInv, RejectIfSession, Return, At
  <2>3. (Alone /\ SlotInv /\ HandsInv)'
    BY <1>0, <1>7, <2>1, <2>2 DEF SerialInv, OthersIdle, RejectIfSession, disk, net, ui,
       world, data, At, Frame, Alone, SlotInv, HandsInv, Holds, Vacant, Starting,
       FinishLabels, Reaping, Arms
  <2>4. (OfferInv /\ NamesInv /\ CheckpointInv /\ FirstWarmUp)'
    BY <1>0, <1>7, <2>1, <2>2 DEF SerialInv, OthersIdle, RejectIfSession, disk, net, ui,
       world, data, At, Frame, OfferInv, NamesInv, CheckpointInv, FirstWarmUp, SlotInv,
       HandsInv, Holds, Vacant, Starting, FinishLabels, Reaping, Arms, Abstract, Named,
       RecordedOnce
  <2>5. NetInv'
    BY <1>0, <1>7, <2>1, <2>2 DEF SerialInv, OthersIdle, RejectIfSession, disk, net, ui,
       world, data, At, Frame, NetInv, SlotInv, Vacant, Starting, FinishLabels, Reaping, Arms,
       Enforced, Hosted, RulesOf
  <2> QED
    BY <2>3, <2>4, <2>5 DEF SerialInv
<1>8. CASE SetEnabled(c)
  <2>1. OthersIdle(c) /\ pc[c] = "set_enabled" /\ pc'[c] = "idle" /\ frame'[c] = EmptyFrame
    BY <1>0, <1>8, OthersAreIdle, GotoIsGotoWith DEF SerialInv, SetEnabled, At, Return
  <2>2. (Alone /\ SlotInv /\ HandsInv)'
    BY <1>0, <1>8, <2>1 DEF SerialInv, OthersIdle, SetEnabled, disk, net, ui, world, data, At,
       Frame, EmptyFrame, Alone, SlotInv, HandsInv, Holds, Vacant, Starting, FinishLabels,
       Reaping, Arms
  <2>3. (OfferInv /\ NamesInv /\ CheckpointInv /\ FirstWarmUp)'
    BY <1>0, <1>8, <2>1 DEF SerialInv, OthersIdle, SetEnabled, disk, net, ui, world, data, At,
       Frame, EmptyFrame, OfferInv, NamesInv, CheckpointInv, FirstWarmUp, SlotInv, HandsInv,
       Holds, Vacant, Starting, FinishLabels, Reaping, Arms, Abstract, Named, RecordedOnce
  <2>4. NetInv'
    BY <1>0, <1>8, <2>1 DEF SerialInv, OthersIdle, SetEnabled, disk, net, ui, world, data, At,
       Frame, EmptyFrame, NetInv, SlotInv, Vacant, Starting, FinishLabels, Reaping, Arms,
       Enforced, Hosted, RulesOf
  <2> QED
    BY <2>2, <2>3, <2>4 DEF SerialInv
<1>9. CASE ClearHistory(c)
  <2>1. OthersIdle(c) /\ pc[c] = "clear_history" /\ pc'[c] = "idle" /\ frame'[c] = EmptyFrame
    BY <1>0, <1>9, OthersAreIdle, GotoIsGotoWith DEF SerialInv, ClearHistory, At, Return
  <2>2. (Alone /\ SlotInv /\ HandsInv)'
    BY <1>0, <1>9, <2>1 DEF SerialInv, OthersIdle, ClearHistory, disk, net, ui, world, data,
       At, Frame, EmptyFrame, Alone, SlotInv, HandsInv, Holds, Vacant, Starting, FinishLabels,
       Reaping, Arms
  <2>3. OfferInv'
    BY <1>0, <1>9, <2>1 DEF SerialInv, OthersIdle, ClearHistory, disk, net, ui, world, data,
       At, Frame, EmptyFrame, OfferInv, Abstract, SlotInv, HandsInv, Holds, Vacant, Starting,
       FinishLabels, Reaping, Arms
  <2>4. NamesInv'
    BY <1>0, <1>9, <2>1 DEF SerialInv, OthersIdle, ClearHistory, disk, net, ui, world, data,
       At, Frame, EmptyFrame, NamesInv, Named, RecordedOnce, SlotInv, HandsInv, Holds, Vacant,
       Starting, FinishLabels, Reaping, Arms
  <2>5. (CheckpointInv /\ FirstWarmUp)'
    BY <1>0, <1>9, <2>1 DEF SerialInv, OthersIdle, ClearHistory, disk, net, ui, world, data,
       At, Frame, EmptyFrame, CheckpointInv, FirstWarmUp, SlotInv, HandsInv, Holds, Vacant,
       Starting, FinishLabels, Reaping, Arms
  <2>6. NetInv'
    BY <1>0, <1>9, <2>1 DEF SerialInv, OthersIdle, ClearHistory, disk, net, ui, world, data,
       At, Frame, EmptyFrame, NetInv, SlotInv, Vacant, Starting, FinishLabels, Reaping, Arms,
       Enforced, Hosted, RulesOf
  <2> QED
    BY <2>2, <2>3, <2>4, <2>5, <2>6 DEF SerialInv
<1> QED
  BY <1>1, <1>2, <1>3, <1>4, <1>5, <1>6, <1>7, <1>8, <1>9

\* The watchdog.
LEMMA WatchdogStepsSerial ==
  ASSUME TypeInv, SerialInv, ~ Overlap, WatchdogStep
  PROVE  SerialInv'
<1> USE ThreadFacts, NoneType
<1>0. /\ DataOK /\ ThreadsOK /\ Watchdog \in Thread
      /\ frame[Watchdog] \in Frame /\ Fits(Watchdog, pc[Watchdog], frame[Watchdog])
  BY DEF TypeInv, TypeOK, ThreadsOK, AllPrepared
<1>1. CASE WatchPid
  <2>1. UNCHANGED data /\ service = "up" /\ frame'[Watchdog] = frame[Watchdog]
        /\ pc'[Watchdog] \in {"see_session", "watch_beat"}
    BY <1>0, <1>1, MovesTo DEF WatchPid, Look, At
  <2>2. OthersIdle(Watchdog) /\ pc[Watchdog] = "idle"
    BY <1>0, <1>1, OthersAreIdle, GotoIsGotoWith DEF SerialInv, WatchPid, Look, At
  <2>3. (Alone /\ SlotInv /\ HandsInv)'
    BY <1>0, <2>1, <2>2 DEF SerialInv, OthersIdle, disk, net, ui, world, data, At, Frame,
       Alone, SlotInv, HandsInv, Holds, Vacant, Starting, FinishLabels, Reaping, Arms
  <2>4. (OfferInv /\ NamesInv /\ CheckpointInv /\ FirstWarmUp)'
    BY <1>0, <2>1, <2>2 DEF SerialInv, OthersIdle, disk, net, ui, world, data, At, Frame,
       OfferInv, NamesInv, CheckpointInv, FirstWarmUp, SlotInv, HandsInv, Holds, Vacant,
       Starting, FinishLabels, Reaping, Arms, Abstract, Named, RecordedOnce
  <2>5. NetInv'
    BY <1>0, <2>1, <2>2 DEF SerialInv, OthersIdle, disk, net, ui, world, data, At, Frame,
       NetInv, SlotInv, Vacant, Starting, FinishLabels, Reaping, Arms, Enforced, Hosted,
       RulesOf
  <2> QED
    BY <2>3, <2>4, <2>5 DEF SerialInv
<1>2. CASE WatchBeat
  <2>1. UNCHANGED data /\ service = "up" /\ frame'[Watchdog] = frame[Watchdog]
        /\ pc'[Watchdog] \in {"see_session", "idle"}
    BY <1>0, <1>2, MovesTo DEF WatchBeat, Look, At
  <2>2. OthersIdle(Watchdog) /\ pc[Watchdog] = "watch_beat"
    BY <1>0, <1>2, OthersAreIdle, GotoIsGotoWith DEF SerialInv, WatchBeat, Look, At
  <2>3. (Alone /\ SlotInv /\ HandsInv)'
    BY <1>0, <2>1, <2>2 DEF SerialInv, OthersIdle, disk, net, ui, world, data, At, Frame,
       Alone, SlotInv, HandsInv, Holds, Vacant, Starting, FinishLabels, Reaping, Arms
  <2>4. (OfferInv /\ NamesInv /\ CheckpointInv /\ FirstWarmUp)'
    BY <1>0, <2>1, <2>2 DEF SerialInv, OthersIdle, disk, net, ui, world, data, At, Frame,
       OfferInv, NamesInv, CheckpointInv, FirstWarmUp, SlotInv, HandsInv, Holds, Vacant,
       Starting, FinishLabels, Reaping, Arms, Abstract, Named, RecordedOnce
  <2>5. NetInv'
    BY <1>0, <2>1, <2>2 DEF SerialInv, OthersIdle, disk, net, ui, world, data, At, Frame,
       NetInv, SlotInv, Vacant, Starting, FinishLabels, Reaping, Arms, Enforced, Hosted,
       RulesOf
  <2> QED
    BY <2>3, <2>4, <2>5 DEF SerialInv
<1>3. CASE SeeSession
  <2>1. UNCHANGED data /\ service = "up" /\ frame'[Watchdog] = frame[Watchdog]
        /\ pc'[Watchdog] = IF session # None THEN "park" ELSE "see_active"
    BY <1>0, <1>3, MovesTo DEF SeeSession, Look, At
  <2>2. OthersIdle(Watchdog) /\ pc[Watchdog] = "see_session"
    BY <1>0, <1>3, OthersAreIdle, GotoIsGotoWith DEF SerialInv, SeeSession, Look, At
  <2>3. (Alone /\ SlotInv /\ HandsInv)'
    BY <1>0, <2>1, <2>2 DEF SerialInv, OthersIdle, disk, net, ui, world, data, At, Frame,
       Alone, SlotInv, HandsInv, Holds, Vacant, Starting, FinishLabels, Reaping, Arms
  <2>4. (OfferInv /\ NamesInv /\ CheckpointInv /\ FirstWarmUp)'
    BY <1>0, <2>1, <2>2 DEF SerialInv, OthersIdle, disk, net, ui, world, data, At, Frame,
       OfferInv, NamesInv, CheckpointInv, FirstWarmUp, SlotInv, HandsInv, Holds, Vacant,
       Starting, FinishLabels, Reaping, Arms, Abstract, Named, RecordedOnce
  <2>5. NetInv'
    BY <1>0, <2>1, <2>2 DEF SerialInv, OthersIdle, disk, net, ui, world, data, At, Frame,
       NetInv, SlotInv, Vacant, Starting, FinishLabels, Reaping, Arms, Enforced, Hosted,
       RulesOf
  <2> QED
    BY <2>3, <2>4, <2>5 DEF SerialInv
<1>4. CASE SeeActive
  <2>1. UNCHANGED data /\ service = "up" /\ frame'[Watchdog] = frame[Watchdog]
        /\ pc'[Watchdog] \in {"clear_network", "see_armed"}
    BY <1>0, <1>4, MovesTo DEF SeeActive, Look, At
  <2>2. OthersIdle(Watchdog) /\ pc[Watchdog] = "see_active"
    BY <1>0, <1>4, OthersAreIdle, GotoIsGotoWith DEF SerialInv, SeeActive, Look, At
  <2>3. (Alone /\ SlotInv /\ HandsInv)'
    BY <1>0, <2>1, <2>2 DEF SerialInv, OthersIdle, disk, net, ui, world, data, At, Frame,
       Alone, SlotInv, HandsInv, Holds, Vacant, Starting, FinishLabels, Reaping, Arms
  <2>4. (OfferInv /\ NamesInv /\ CheckpointInv /\ FirstWarmUp)'
    BY <1>0, <2>1, <2>2 DEF SerialInv, OthersIdle, disk, net, ui, world, data, At, Frame,
       OfferInv, NamesInv, CheckpointInv, FirstWarmUp, SlotInv, HandsInv, Holds, Vacant,
       Starting, FinishLabels, Reaping, Arms, Abstract, Named, RecordedOnce
  <2>5. NetInv'
    BY <1>0, <2>1, <2>2 DEF SerialInv, OthersIdle, disk, net, ui, world, data, At, Frame,
       NetInv, SlotInv, Vacant, Starting, FinishLabels, Reaping, Arms, Enforced, Hosted,
       RulesOf
  <2> QED
    BY <2>3, <2>4, <2>5 DEF SerialInv
<1>5. CASE SeeArmed
  <2>1. UNCHANGED data /\ service = "up" /\ frame'[Watchdog] = frame[Watchdog]
        /\ pc'[Watchdog] \in {"clear_network", "forget_pid"}
    BY <1>0, <1>5, MovesTo DEF SeeArmed, Look, At
  <2>2. OthersIdle(Watchdog) /\ pc[Watchdog] = "see_armed"
    BY <1>0, <1>5, OthersAreIdle, GotoIsGotoWith DEF SerialInv, SeeArmed, Look, At
  <2>3. (Alone /\ SlotInv /\ HandsInv)'
    BY <1>0, <2>1, <2>2 DEF SerialInv, OthersIdle, disk, net, ui, world, data, At, Frame,
       Alone, SlotInv, HandsInv, Holds, Vacant, Starting, FinishLabels, Reaping, Arms
  <2>4. (OfferInv /\ NamesInv /\ CheckpointInv /\ FirstWarmUp)'
    BY <1>0, <2>1, <2>2 DEF SerialInv, OthersIdle, disk, net, ui, world, data, At, Frame,
       OfferInv, NamesInv, CheckpointInv, FirstWarmUp, SlotInv, HandsInv, Holds, Vacant,
       Starting, FinishLabels, Reaping, Arms, Abstract, Named, RecordedOnce
  <2>5. NetInv'
    BY <1>0, <2>1, <2>2 DEF SerialInv, OthersIdle, disk, net, ui, world, data, At, Frame,
       NetInv, SlotInv, Vacant, Starting, FinishLabels, Reaping, Arms, Enforced, Hosted,
       RulesOf
  <2> QED
    BY <2>3, <2>4, <2>5 DEF SerialInv
<1>6. CASE Park
  <2>1. CASE session = None
    <3>1. UNCHANGED data /\ Return(Watchdog)
      BY <1>6, <2>1 DEF Park, data
    <3>2. /\ OthersIdle(Watchdog)
          /\ pc[Watchdog] = "park"
          /\ pc'[Watchdog] = "idle"
          /\ frame'[Watchdog] = EmptyFrame
      BY <1>0, <1>6, <3>1, OthersAreIdle DEF SerialInv, Park, Return, At
    <3>3. (Alone /\ SlotInv /\ HandsInv)'
      BY <1>0, <2>1, <3>1, <3>2 DEF SerialInv, OthersIdle, EmptyFrame, disk, net, ui, world,
         data, At, Frame, Alone, SlotInv, HandsInv, Holds, Vacant, Starting, FinishLabels,
         Reaping, Arms
    <3>4. (OfferInv /\ NamesInv /\ CheckpointInv /\ FirstWarmUp)'
      BY <1>0, <2>1, <3>1, <3>2 DEF SerialInv, OthersIdle, EmptyFrame, disk, net, ui, world,
         data, At, Frame, OfferInv, NamesInv, CheckpointInv, FirstWarmUp, SlotInv, HandsInv,
         Holds, Vacant, Starting, FinishLabels, Reaping, Arms, Abstract, Named, RecordedOnce
    <3>5. NetInv'
      BY <1>0, <2>1, <3>1, <3>2 DEF SerialInv, OthersIdle, EmptyFrame, disk, net, ui, world,
         data, At, Frame, NetInv, SlotInv, Vacant, Starting, FinishLabels, Reaping, Arms,
         Enforced, Hosted, RulesOf
    <3> QED
      BY <3>3, <3>4, <3>5 DEF SerialInv
  <2>2. CASE session # None
    <3>1. PICK sess \in Refreshed(session) :
            GotoWith(Watchdog, "clear_network", [EmptyFrame EXCEPT !.mine = sess])
      BY <1>6, <2>2 DEF Park
    <3>2. sess # None /\ sess.started = session.started
      BY <1>0, <2>2, <3>1, RefreshedTyped, NoneType DEF DataOK, Refreshed, LiveSession
    <3>3. frame'[Watchdog].mine = sess /\ session' = None /\ service = "up"
      BY <1>0, <1>6, <2>2, <3>1 DEF Park, At, GotoWith, ThreadsOK, EmptyFrame
    <3>4. OthersIdle(Watchdog) /\ pc[Watchdog] = "park" /\ pc'[Watchdog] = "clear_network"
      BY <1>0, <1>6, <3>1, OthersAreIdle DEF SerialInv, Park, At
    <3>5. (Alone /\ SlotInv /\ HandsInv)'
      BY <1>0, <1>6, <2>2, <3>2, <3>3, <3>4 DEF SerialInv, OthersIdle, Park, disk, net, ui,
         world, data, At, Frame, Alone, SlotInv, HandsInv, Holds, Vacant, Starting,
         FinishLabels, Reaping, Arms
    <3>6. OfferInv'
      BY <1>0, <1>6, <2>2, <3>2, <3>3, <3>4 DEF SerialInv, OthersIdle, Park, disk, net, ui,
         world, data, At, Frame, OfferInv, Abstract, SlotInv, HandsInv, Holds, Vacant,
         Starting, FinishLabels, Reaping, Arms
    <3>7. NamesInv'
      BY <1>0, <1>6, <2>2, <3>2, <3>3, <3>4 DEF SerialInv, OthersIdle, Park, disk, net, ui,
         world, data, At, Frame, NamesInv, Named, RecordedOnce, SlotInv, HandsInv, Holds,
         Vacant, Starting, FinishLabels, Reaping, Arms
    <3>8. (CheckpointInv /\ FirstWarmUp)'
      BY <1>0, <1>6, <2>2, <3>2, <3>3, <3>4 DEF SerialInv, OthersIdle, Park, disk, net, ui,
         world, data, At, Frame, CheckpointInv, FirstWarmUp, SlotInv, HandsInv, Holds,
         Vacant, Starting, FinishLabels, Reaping, Arms
    <3>9. NetInv'
      BY <1>0, <1>6, <2>2, <3>2, <3>3, <3>4 DEF SerialInv, OthersIdle, Park, disk, net, ui,
         world, data, At, Frame, NetInv, SlotInv, Vacant, Starting, FinishLabels, Reaping,
         Arms, Enforced, Hosted, RulesOf
    <3> QED
      BY <3>5, <3>6, <3>7, <3>8, <3>9 DEF SerialInv
  <2> QED
    BY <2>1, <2>2
<1>7. CASE ForgetPid
  <2>1. /\ OthersIdle(Watchdog)
        /\ pc[Watchdog] = "forget_pid"
        /\ pc'[Watchdog] = "forget_beat"
        /\ frame'[Watchdog] = frame[Watchdog]
    BY <1>0, <1>7, OthersAreIdle, GotoIsGotoWith DEF SerialInv, ForgetPid, At, Return
  <2>2. (Alone /\ SlotInv /\ HandsInv)'
    BY <1>0, <1>7, <2>1 DEF SerialInv, OthersIdle, ForgetPid, disk, net, ui, world, data, At,
       Frame, Alone, SlotInv, HandsInv, Holds, Vacant, Starting, FinishLabels, Reaping, Arms
  <2>3. (OfferInv /\ NamesInv /\ CheckpointInv /\ FirstWarmUp)'
    BY <1>0, <1>7, <2>1 DEF SerialInv, OthersIdle, ForgetPid, disk, net, ui, world, data, At,
       Frame, OfferInv, NamesInv, CheckpointInv, FirstWarmUp, SlotInv, HandsInv, Holds,
       Vacant, Starting, FinishLabels, Reaping, Arms, Abstract, Named, RecordedOnce
  <2>4. NetInv'
    BY <1>0, <1>7, <2>1 DEF SerialInv, OthersIdle, ForgetPid, disk, net, ui, world, data, At,
       Frame, NetInv, SlotInv, Vacant, Starting, FinishLabels, Reaping, Arms, Enforced,
       Hosted, RulesOf
  <2> QED
    BY <2>2, <2>3, <2>4 DEF SerialInv
<1>8. CASE ForgetBeat
  <2>1. /\ pc'[Watchdog] = IF frame[Watchdog].mine = None THEN "idle" ELSE "drop_summary"
        /\ frame'[Watchdog] = frame[Watchdog]
    BY <1>0, <1>8, MovesTo DEF ForgetBeat
  <2>2. OthersIdle(Watchdog) /\ pc[Watchdog] = "forget_beat"
    BY <1>0, <1>8, OthersAreIdle, GotoIsGotoWith DEF SerialInv, ForgetBeat, At
  <2>3. (Alone /\ SlotInv /\ HandsInv)'
    BY <1>0, <1>8, <2>1, <2>2 DEF SerialInv, OthersIdle, ForgetBeat, disk, net, ui, world,
       data, At, Frame, Alone, SlotInv, HandsInv, Holds, Vacant, Starting, FinishLabels,
       Reaping, Arms
  <2>4. (OfferInv /\ NamesInv /\ CheckpointInv /\ FirstWarmUp)'
    BY <1>0, <1>8, <2>1, <2>2 DEF SerialInv, OthersIdle, ForgetBeat, disk, net, ui, world,
       data, At, Frame, OfferInv, NamesInv, CheckpointInv, FirstWarmUp, SlotInv, HandsInv,
       Holds, Vacant, Starting, FinishLabels, Reaping, Arms, Abstract, Named, RecordedOnce
  <2>5. NetInv'
    BY <1>0, <1>8, <2>1, <2>2 DEF SerialInv, OthersIdle, ForgetBeat, disk, net, ui, world,
       data, At, Frame, NetInv, SlotInv, Vacant, Starting, FinishLabels, Reaping, Arms,
       Enforced, Hosted, RulesOf
  <2> QED
    BY <2>3, <2>4, <2>5 DEF SerialInv
<1>9. CASE DropSummary
  <2>1. /\ OthersIdle(Watchdog)
        /\ pc[Watchdog] = "drop_summary"
        /\ pc'[Watchdog] = "drop_checkpoint"
        /\ frame'[Watchdog] = frame[Watchdog]
    BY <1>0, <1>9, OthersAreIdle, GotoIsGotoWith DEF SerialInv, DropSummary, At, Return
  <2>2. (Alone /\ SlotInv /\ HandsInv)'
    BY <1>0, <1>9, <2>1 DEF SerialInv, OthersIdle, DropSummary, disk, net, ui, world, data,
       At, Frame, Alone, SlotInv, HandsInv, Holds, Vacant, Starting, FinishLabels, Reaping,
       Arms
  <2>3. (OfferInv /\ NamesInv /\ CheckpointInv /\ FirstWarmUp)'
    BY <1>0, <1>9, <2>1 DEF SerialInv, OthersIdle, DropSummary, disk, net, ui, world, data,
       At, Frame, OfferInv, NamesInv, CheckpointInv, FirstWarmUp, SlotInv, HandsInv, Holds,
       Vacant, Starting, FinishLabels, Reaping, Arms, Abstract, Named, RecordedOnce
  <2>4. NetInv'
    BY <1>0, <1>9, <2>1 DEF SerialInv, OthersIdle, DropSummary, disk, net, ui, world, data,
       At, Frame, NetInv, SlotInv, Vacant, Starting, FinishLabels, Reaping, Arms, Enforced,
       Hosted, RulesOf
  <2> QED
    BY <2>2, <2>3, <2>4 DEF SerialInv
<1>10. CASE DropCheckpoint
  <2>1. /\ frame[Watchdog].mine # None /\ frame[Watchdog].mine.left \in Nat
        /\ pc[Watchdog] = "drop_checkpoint"
    BY <1>0, <1>10 DEF DropCheckpoint, At, SerialInv, HandsInv, Holds, Frame, LiveSession
  <2>2. \/ pc'[Watchdog] = "idle" /\ frame'[Watchdog].mine = None
        \/ /\ frame[Watchdog].mine.left > 0 /\ pc'[Watchdog] = "set_interrupted"
           /\ frame'[Watchdog] = frame[Watchdog]
    BY <1>0, <1>10, <2>1, MovesTo DEF DropCheckpoint, Return, EmptyFrame
  <2>3. OthersIdle(Watchdog)
    BY <1>0, <1>10, OthersAreIdle, GotoIsGotoWith DEF SerialInv, DropCheckpoint, Return, At
  <2>4. (Alone /\ SlotInv /\ HandsInv)'
    BY <1>0, <1>10, <2>1, <2>2, <2>3 DEF SerialInv, OthersIdle, DropCheckpoint, disk, net, ui,
       world, data, At, Frame, Alone, SlotInv, HandsInv, Holds, Vacant, Starting,
       FinishLabels, Reaping, Arms
  <2>5. OfferInv'
    BY <1>0, <1>10, <2>1, <2>2, <2>3 DEF SerialInv, OthersIdle, DropCheckpoint, disk, net, ui,
       world, data, At, Frame, OfferInv, Abstract, SlotInv, HandsInv, Holds, Vacant, Starting,
       FinishLabels, Reaping, Arms
  <2>6. NamesInv'
    BY <1>0, <1>10, <2>1, <2>2, <2>3 DEF SerialInv, OthersIdle, DropCheckpoint, disk, net, ui,
       world, data, At, Frame, NamesInv, Named, RecordedOnce, SlotInv, HandsInv, Holds,
       Vacant, Starting, FinishLabels, Reaping, Arms
  <2>7. (CheckpointInv /\ FirstWarmUp)'
    BY <1>0, <1>10, <2>1, <2>2, <2>3 DEF SerialInv, OthersIdle, DropCheckpoint, disk, net, ui,
       world, data, At, Frame, CheckpointInv, FirstWarmUp, SlotInv, HandsInv, Holds, Vacant,
       Starting, FinishLabels, Reaping, Arms
  <2>8. NetInv'
    BY <1>0, <1>10, <2>1, <2>2, <2>3 DEF SerialInv, OthersIdle, DropCheckpoint, disk, net, ui,
       world, data, At, Frame, NetInv, SlotInv, Vacant, Starting, FinishLabels, Reaping, Arms,
       Enforced, Hosted, RulesOf
  <2> QED
    BY <2>4, <2>5, <2>6, <2>7, <2>8 DEF SerialInv
<1>11. CASE SetInterrupted(Watchdog)
  <2>1. pc'[Watchdog] = "idle" /\ frame'[Watchdog].mine = None
    BY <1>0, <1>11, MovesTo DEF SetInterrupted, Return, EmptyFrame
  <2>2. OthersIdle(Watchdog) /\ pc[Watchdog] = "set_interrupted"
    BY <1>0, <1>11, OthersAreIdle DEF SerialInv, SetInterrupted, Return, At
  <2>3. (Alone /\ SlotInv /\ HandsInv)'
    BY <1>0, <1>11, <2>1, <2>2 DEF SerialInv, OthersIdle, SetInterrupted, disk, net, ui,
       world, data, At, Frame, Alone, SlotInv, HandsInv, Holds, Vacant, Starting,
       FinishLabels, Reaping, Arms
  <2>4. OfferInv'
    BY <1>0, <1>11, <2>1, <2>2 DEF SerialInv, OthersIdle, SetInterrupted, disk, net, ui,
       world, data, At, Frame, OfferInv, Abstract, SlotInv, HandsInv, Holds, Vacant, Starting,
       FinishLabels, Reaping, Arms
  <2>5. NamesInv'
    BY <1>0, <1>11, <2>1, <2>2 DEF SerialInv, OthersIdle, SetInterrupted, disk, net, ui,
       world, data, At, Frame, NamesInv, Named, RecordedOnce, SlotInv, HandsInv, Holds,
       Vacant, Starting, FinishLabels, Reaping, Arms
  <2>6. (CheckpointInv /\ FirstWarmUp)'
    BY <1>0, <1>11, <2>1, <2>2 DEF SerialInv, OthersIdle, SetInterrupted, disk, net, ui,
       world, data, At, Frame, CheckpointInv, FirstWarmUp, SlotInv, HandsInv, Holds, Vacant,
       Starting, FinishLabels, Reaping, Arms
  <2>7. NetInv'
    BY <1>0, <1>11, <2>1, <2>2 DEF SerialInv, OthersIdle, SetInterrupted, disk, net, ui,
       world, data, At, Frame, NetInv, SlotInv, Vacant, Starting, FinishLabels, Reaping, Arms,
       Enforced, Hosted, RulesOf
  <2> QED
    BY <2>3, <2>4, <2>5, <2>6, <2>7 DEF SerialInv
<1>12. CASE ClearNetwork(Watchdog) \/ ClearActive(Watchdog)
  BY <1>12, ClearStepsSerial
<1> QED
  BY <1>1, <1>2, <1>3, <1>4, <1>5, <1>6, <1>7, <1>8, <1>9, <1>10, <1>11, <1>12 DEF WatchdogStep

\* The warm-up.
LEMMA WarmStepsSerial ==
  ASSUME TypeInv, SerialInv, ~ Overlap, WarmStep
  PROVE  SerialInv'
<1> USE ThreadFacts, NoneType
<1>0. /\ DataOK /\ ThreadsOK /\ Warm \in Thread
      /\ frame[Warm] \in Frame /\ Fits(Warm, pc[Warm], frame[Warm])
  BY DEF TypeInv, TypeOK, ThreadsOK, AllPrepared
<1>1. CASE WarmCheck
  <2>1. pc'[Warm] = "read_checkpoint" /\ frame'[Warm] = frame[Warm] /\ session = None
    BY <1>0, <1>1, MovesTo DEF WarmCheck, At, SerialInv, SlotInv, Vacant
  <2>2. OthersIdle(Warm) /\ pc[Warm] = "warm_check"
    BY <1>0, <1>1, OthersAreIdle, GotoIsGotoWith DEF SerialInv, WarmCheck, At
  <2>3. (Alone /\ SlotInv /\ HandsInv)'
    BY <1>0, <1>1, <2>1, <2>2 DEF SerialInv, OthersIdle, WarmCheck, disk, net, ui, world,
       data, At, Frame, Alone, SlotInv, HandsInv, Holds, Vacant, Starting, FinishLabels,
       Reaping, Arms
  <2>4. (OfferInv /\ NamesInv /\ CheckpointInv /\ FirstWarmUp)'
    BY <1>0, <1>1, <2>1, <2>2 DEF SerialInv, OthersIdle, WarmCheck, disk, net, ui, world,
       data, At, Frame, OfferInv, NamesInv, CheckpointInv, FirstWarmUp, SlotInv, HandsInv,
       Holds, Vacant, Starting, FinishLabels, Reaping, Arms, Abstract, Named, RecordedOnce
  <2>5. NetInv'
    BY <1>0, <1>1, <2>1, <2>2 DEF SerialInv, OthersIdle, WarmCheck, disk, net, ui, world,
       data, At, Frame, NetInv, SlotInv, Vacant, Starting, FinishLabels, Reaping, Arms,
       Enforced, Hosted, RulesOf
  <2> QED
    BY <2>3, <2>4, <2>5 DEF SerialInv
<1>2. CASE ReadCheckpoint
  <2>1. pc'[Warm] = "delete_checkpoint" /\ frame'[Warm].mine = checkpoint
    BY <1>0, <1>2, MovesTo DEF ReadCheckpoint, EmptyFrame
  <2>2. OthersIdle(Warm) /\ pc[Warm] = "read_checkpoint"
    BY <1>0, <1>2, OthersAreIdle DEF SerialInv, ReadCheckpoint, At
  <2>3. (Alone /\ SlotInv /\ HandsInv)'
    BY <1>0, <1>2, <2>1, <2>2 DEF SerialInv, OthersIdle, ReadCheckpoint, disk, net, ui, world,
       data, At, Frame, Alone, SlotInv, HandsInv, Holds, Vacant, Starting, FinishLabels,
       Reaping, Arms
  <2>4. OfferInv'
    BY <1>0, <1>2, <2>1, <2>2 DEF SerialInv, OthersIdle, ReadCheckpoint, disk, net, ui, world,
       data, At, Frame, OfferInv, Abstract, SlotInv, HandsInv, Holds, Vacant, Starting,
       FinishLabels, Reaping, Arms
  <2>5. NamesInv'
    BY <1>0, <1>2, <2>1, <2>2 DEF SerialInv, OthersIdle, ReadCheckpoint, disk, net, ui, world,
       data, At, Frame, NamesInv, Named, RecordedOnce, SlotInv, HandsInv, Holds, Vacant,
       Starting, FinishLabels, Reaping, Arms
  <2>6. (CheckpointInv /\ FirstWarmUp)'
    BY <1>0, <1>2, <2>1, <2>2 DEF SerialInv, OthersIdle, ReadCheckpoint, disk, net, ui, world,
       data, At, Frame, CheckpointInv, FirstWarmUp, SlotInv, HandsInv, Holds, Vacant,
       Starting, FinishLabels, Reaping, Arms
  <2>7. NetInv'
    BY <1>0, <1>2, <2>1, <2>2 DEF SerialInv, OthersIdle, ReadCheckpoint, disk, net, ui, world,
       data, At, Frame, NetInv, SlotInv, Vacant, Starting, FinishLabels, Reaping, Arms,
       Enforced, Hosted, RulesOf
  <2> QED
    BY <2>3, <2>4, <2>5, <2>6, <2>7 DEF SerialInv
<1>3. CASE DeleteCheckpoint
  <2>1. \/ /\ frame[Warm].mine # None /\ frame[Warm].mine.left > 0
           /\ pc'[Warm] = "set_interrupted" /\ frame'[Warm] = frame[Warm]
        \/ pc'[Warm] = "clear_network" /\ frame'[Warm].mine = None
    BY <1>0, <1>3, MovesTo DEF DeleteCheckpoint, EmptyFrame
  <2>2. OthersIdle(Warm) /\ pc[Warm] = "delete_checkpoint"
    BY <1>0, <1>3, OthersAreIdle, GotoIsGotoWith DEF SerialInv, DeleteCheckpoint, At
  <2>3. (Alone /\ SlotInv /\ HandsInv)'
    BY <1>0, <1>3, <2>1, <2>2 DEF SerialInv, OthersIdle, DeleteCheckpoint, disk, net, ui,
       world, data, At, Frame, Alone, SlotInv, HandsInv, Holds, Vacant, Starting,
       FinishLabels, Reaping, Arms
  <2>4. OfferInv'
    BY <1>0, <1>3, <2>1, <2>2 DEF SerialInv, OthersIdle, DeleteCheckpoint, disk, net, ui,
       world, data, At, Frame, OfferInv, Abstract, SlotInv, HandsInv, Holds, Vacant, Starting,
       FinishLabels, Reaping, Arms
  <2>5. NamesInv'
    BY <1>0, <1>3, <2>1, <2>2 DEF SerialInv, OthersIdle, DeleteCheckpoint, disk, net, ui,
       world, data, At, Frame, NamesInv, Named, RecordedOnce, SlotInv, HandsInv, Holds,
       Vacant, Starting, FinishLabels, Reaping, Arms
  <2>6. (CheckpointInv /\ FirstWarmUp)'
    BY <1>0, <1>3, <2>1, <2>2 DEF SerialInv, OthersIdle, DeleteCheckpoint, disk, net, ui,
       world, data, At, Frame, CheckpointInv, FirstWarmUp, SlotInv, HandsInv, Holds, Vacant,
       Starting, FinishLabels, Reaping, Arms
  <2>7. NetInv'
    BY <1>0, <1>3, <2>1, <2>2 DEF SerialInv, OthersIdle, DeleteCheckpoint, disk, net, ui,
       world, data, At, Frame, NetInv, SlotInv, Vacant, Starting, FinishLabels, Reaping, Arms,
       Enforced, Hosted, RulesOf
  <2> QED
    BY <2>3, <2>4, <2>5, <2>6, <2>7 DEF SerialInv
<1>4. CASE SetInterrupted(Warm)
  <2>1. pc'[Warm] = "clear_network" /\ frame'[Warm].mine = None
    BY <1>0, <1>4, MovesTo DEF SetInterrupted, EmptyFrame
  <2>2. OthersIdle(Warm) /\ pc[Warm] = "set_interrupted"
    BY <1>0, <1>4, OthersAreIdle DEF SerialInv, SetInterrupted, At
  <2>3. (Alone /\ SlotInv /\ HandsInv)'
    BY <1>0, <1>4, <2>1, <2>2 DEF SerialInv, OthersIdle, SetInterrupted, disk, net, ui, world,
       data, At, Frame, Alone, SlotInv, HandsInv, Holds, Vacant, Starting, FinishLabels,
       Reaping, Arms
  <2>4. OfferInv'
    BY <1>0, <1>4, <2>1, <2>2 DEF SerialInv, OthersIdle, SetInterrupted, disk, net, ui, world,
       data, At, Frame, OfferInv, Abstract, SlotInv, HandsInv, Holds, Vacant, Starting,
       FinishLabels, Reaping, Arms
  <2>5. NamesInv'
    BY <1>0, <1>4, <2>1, <2>2 DEF SerialInv, OthersIdle, SetInterrupted, disk, net, ui, world,
       data, At, Frame, NamesInv, Named, RecordedOnce, SlotInv, HandsInv, Holds, Vacant,
       Starting, FinishLabels, Reaping, Arms
  <2>6. (CheckpointInv /\ FirstWarmUp)'
    BY <1>0, <1>4, <2>1, <2>2 DEF SerialInv, OthersIdle, SetInterrupted, disk, net, ui, world,
       data, At, Frame, CheckpointInv, FirstWarmUp, SlotInv, HandsInv, Holds, Vacant,
       Starting, FinishLabels, Reaping, Arms
  <2>7. NetInv'
    BY <1>0, <1>4, <2>1, <2>2 DEF SerialInv, OthersIdle, SetInterrupted, disk, net, ui, world,
       data, At, Frame, NetInv, SlotInv, Vacant, Starting, FinishLabels, Reaping, Arms,
       Enforced, Hosted, RulesOf
  <2> QED
    BY <2>3, <2>4, <2>5, <2>6, <2>7 DEF SerialInv
<1>5. CASE ClearNetwork(Warm) \/ ClearActive(Warm)
  BY <1>5, ClearStepsSerial
<1> QED
  BY <1>1, <1>2, <1>3, <1>4, <1>5 DEF WarmStep

\* The UI process, the clock, and the end and the start of the service.
LEMMA EnvironmentSerial ==
  ASSUME TypeInv, SerialInv, Environment
  PROVE  SerialInv'
<1> USE ThreadFacts, NoneType
<1>0. DataOK /\ ThreadsOK
  BY DEF TypeInv, TypeOK
<1>1. CASE UiLaunch \/ UiExit \/ HeartbeatLapses
  <2>1. /\ UNCHANGED <<session, interrupted, checkpoint, history, enabled, net, service, lives, stops, pc, frame>>
    BY <1>1 DEF UiLaunch, UiExit, HeartbeatLapses, disk, world
  <2>2. (Alone /\ SlotInv /\ HandsInv)'
    BY <2>1 DEF SerialInv, Alone, SlotInv, HandsInv, Holds, Vacant, Starting, Arms
  <2>3. (OfferInv /\ NamesInv /\ CheckpointInv /\ FirstWarmUp)'
    BY <2>1 DEF SerialInv, OfferInv, NamesInv, Named, RecordedOnce, CheckpointInv, FirstWarmUp,
       Starting, Arms
  <2>4. NetInv'
    BY <2>1 DEF SerialInv, NetInv, Enforced, Hosted, RulesOf, net, Starting, Arms
  <2> QED
    BY <2>2, <2>3, <2>4 DEF SerialInv
<1>2. CASE ServiceEnds
  <2>1. /\ \A t \in Thread : pc'[t] = "idle" /\ frame'[t].mine = None
        /\ session' = None /\ stops' > 0 /\ service' # "up"
        /\ UNCHANGED <<interrupted, checkpoint, history, enabled, lives>>
    BY <1>0, <1>2 DEF ServiceEnds, EmptyFrame, DataOK, disk
  <2>2. (Alone /\ SlotInv /\ HandsInv)'
    BY <2>1 DEF SerialInv, Alone, SlotInv, HandsInv, Holds, Vacant, Starting, FinishLabels,
       Reaping, Arms
  <2>3. (OfferInv /\ NamesInv /\ CheckpointInv /\ FirstWarmUp)'
    BY <2>1 DEF SerialInv, OfferInv, NamesInv, Named, RecordedOnce, CheckpointInv, FirstWarmUp,
       Starting, FinishLabels
  <2>4. NetInv'
    BY <2>1 DEF SerialInv, NetInv, Starting
  <2> QED
    BY <2>2, <2>3, <2>4 DEF SerialInv
<1>3. CASE ServiceStarts
  <2>1. /\ \A t \in Thread : pc[t] = "idle" /\ frame[t].mine = None
        /\ \A t \in Thread : pc'[t] = IF t = Warm THEN "warm_check" ELSE "idle"
        /\ session = None /\ service' = "up" /\ stops > 0
        /\ UNCHANGED <<session, interrupted, checkpoint, history, enabled, net, stops, lives, frame>>
    BY <1>0, <1>3 DEF ServiceStarts, SerialInv, Alone, disk, ThreadsOK
  <2>2. (Alone /\ SlotInv /\ HandsInv)'
    BY <2>1 DEF SerialInv, Alone, SlotInv, HandsInv, Holds, Vacant, Starting, FinishLabels,
       Reaping, Arms
  <2>3. (OfferInv /\ NamesInv /\ CheckpointInv /\ FirstWarmUp)'
    BY <1>0, <2>1 DEF DataOK, SerialInv, OfferInv, NamesInv, Named, RecordedOnce, CheckpointInv,
       FirstWarmUp, Starting, FinishLabels
  <2>4. NetInv'
    BY <2>1 DEF SerialInv, NetInv, Starting
  <2> QED
    BY <2>2, <2>3, <2>4 DEF SerialInv
<1> QED
  BY <1>1, <1>2, <1>3 DEF Environment

-----------------------------------------------------------------------------
(* The theorems *)

LEMMA SerialInit == Init => SerialInv
<1> SUFFICES ASSUME Init PROVE SerialInv
  OBVIOUS
<1> USE ThreadFacts
<1>1. /\ \A t \in Thread : pc[t] = (IF t = Warm THEN "warm_check" ELSE "idle") /\ frame[t].mine = None
      /\ session = None /\ interrupted = None /\ checkpoint = None /\ history = {}
      /\ service = "up" /\ lives = 0 /\ stops = 0
  BY DEF Init, InitWith, EmptyFrame
<1>2. Alone /\ SlotInv /\ HandsInv
  BY <1>1 DEF Alone, SlotInv, HandsInv, Holds, Starting, Arms
<1>3. OfferInv /\ NamesInv /\ CheckpointInv /\ FirstWarmUp
  BY <1>1, BoundsType DEF OfferInv, NamesInv, Named, RecordedOnce, CheckpointInv, FirstWarmUp,
     Starting, FinishLabels
<1>4. NetInv
  BY <1>1 DEF NetInv, Starting
<1> QED
  BY <1>2, <1>3, <1>4 DEF SerialInv

LEMMA SerialNext ==
  ASSUME TypeInv, SerialInv, ~ Overlap, [Next]_vars
  PROVE  SerialInv'
<1>1. ASSUME NEW c \in Client, Request(c) \/ Handle(c) PROVE SerialInv'
  BY <1>1, ThreadFacts, StartStepsSerial, FinishStepsSerial, OtherStepsSerial, ClearStepsSerial
     DEF Handle
<1>2. CASE WatchdogStep \/ WarmStep
  BY <1>2, WatchdogStepsSerial, WarmStepsSerial
<1>3. CASE Environment
  BY <1>3, EnvironmentSerial
<1>4. CASE UNCHANGED vars
  <2>1. (Alone /\ SlotInv /\ HandsInv)'
    BY <1>4 DEF vars, data, world, SerialInv, Alone, SlotInv, HandsInv, Holds, Vacant, Starting, Arms
  <2>2. (OfferInv /\ NamesInv /\ CheckpointInv /\ FirstWarmUp)'
    BY <1>4 DEF vars, data, disk, world, SerialInv, OfferInv, NamesInv, Named, RecordedOnce,
       CheckpointInv, FirstWarmUp, Starting, Arms
  <2>3. NetInv'
    BY <1>4 DEF vars, data, disk, net, SerialInv, NetInv, Enforced, Hosted, RulesOf, Starting, Arms
  <2> QED
    BY <2>1, <2>2, <2>3 DEF SerialInv
<1> QED
  BY <1>1, <1>2, <1>3, <1>4 DEF Next

LEMMA SerialInvariant ==
  ASSUME ~ Overlap
  PROVE  Spec => [](TypeInv /\ SerialInv)
<1>1. TypeInv /\ SerialInv /\ [Next]_vars => TypeInv' /\ SerialInv'
  BY SerialNext, TypeInvNext
<1>2. Init => TypeInv /\ SerialInv
  BY SerialInit, TypeInvInit
<1> QED
  BY <1>1, <1>2, PTL DEF Spec

\* A session that is parked and restored, whatever the service goes through in between,
\* reaches the history once: live, offer and checkpoint never bring back one that ended.
THEOREM EachRecordedOnce ==
  ASSUME ~ Overlap
  PROVE  Spec => []RecordedOnce
<1>1. SerialInv => RecordedOnce
  BY DEF SerialInv, NamesInv
<1> QED
  BY <1>1, SerialInvariant, PTL

\* Between requests a live session is enforced: the enabled rules of its profile are in
\* the engine and in the filter, and in the hosts file unless writing it failed.
THEOREM LiveEnforced ==
  ASSUME ~ Overlap
  PROVE  Spec => []LiveIsEnforced
<1>1. SerialInv => LiveIsEnforced
  BY DEF SerialInv, NetInv, Enforced, Hosted, LiveIsEnforced
<1> QED
  BY <1>1, SerialInvariant, PTL

\* Between requests a live session is the one a crash would recover.
THEOREM LiveCheckpointed ==
  ASSUME ~ Overlap
  PROVE  Spec => []LiveIsCheckpointed
<1>1. SerialInv => LiveIsCheckpointed
  BY ThreadFacts DEF SerialInv, CheckpointInv, AllIdle, LiveIsCheckpointed
<1> QED
  BY <1>1, SerialInvariant, PTL

\* No step changes a rule of the database while a session is live before and after it.
THEOREM RulesStayFrozen ==
  ASSUME ~ Overlap
  PROVE  Spec => RulesFrozen
<1>1. TypeInv /\ SerialInv /\ [Next]_vars
        => [session # None /\ session' # None => enabled' = enabled]_vars
  <2> SUFFICES ASSUME SerialInv, Next, session # None
               PROVE  enabled' = enabled
    OBVIOUS
  <2>1. ASSUME NEW c \in Client, Request(c) \/ Handle(c) PROVE enabled' = enabled
    <3>1. ~ SetEnabled(c)
      BY ThreadFacts DEF SerialInv, SlotInv, Vacant, SetEnabled, At
    <3> QED
      BY <2>1, <3>1 DEF Request, Handle, StartOrRestore, Finish, CheckSession, GetInterrupted,
         ListSites, ClearBeforeApply, ApplyOne, SetActive, ForgetSummary, SetLiveCheckpoint,
         Install, Unpark, TakeSession, ClearLiveCheckpoint, Record, Publish, ClearInterrupted,
         NoteUiPid, TouchUi, Snapshot, SnapshotAt, Pop, RejectIfSession, ClearHistory,
         ClearNetwork, ClearActive, data, disk
  <2>2. CASE WatchdogStep \/ WarmStep
    BY <2>2 DEF WatchdogStep, WarmStep, WatchPid, WatchBeat, SeeSession, SeeActive, SeeArmed, Look,
       Park, ForgetPid, ForgetBeat, DropSummary, DropCheckpoint, SetInterrupted, ClearNetwork,
       ClearActive, WarmCheck, ReadCheckpoint, DeleteCheckpoint, data, disk
  <2>3. CASE Environment
    BY <2>3 DEF Environment, UiLaunch, UiExit, HeartbeatLapses, ServiceEnds, ServiceStarts, disk
  <2> QED
    BY <2>1, <2>2, <2>3 DEF Next
<1> QED
  BY <1>1, SerialInvariant, PTL DEF Spec, RulesFrozen

-----------------------------------------------------------------------------
(* The engine implements FocusSession *)

\* What the offer and the history of FocusSession owe to the one thread at work.
Offered(t) ==
  IF t = Watchdog /\ frame[t].mine # None /\ frame[t].mine.left > 0 THEN Abstract(frame[t].mine)
  ELSE IF t \in Client /\ pc[t] = "unpark" THEN None
  ELSE Abstract(interrupted)

Owed(t) ==
  IF t \in Client /\ Ending(t)
  THEN {[started |-> frame[t].mine.started, reason |-> Reason(t)]} ELSE {}

Recorded == {[started |-> h.started, reason |-> h.reason] : h \in history}

LEMMA Views ==
  ASSUME NEW t \in Thread, OthersIdle(t)
  PROVE  /\ AbstractOffer = Offered(t) /\ AbstractOffer' = Offered(t)'
         /\ AbstractEnded = Recorded \cup Owed(t) /\ AbstractEnded' = Recorded' \cup Owed(t)'
<1> USE ThreadFacts
<1>1. AbstractOffer = Offered(t)
  <2>1. t # Watchdog => frame[Watchdog].mine = None
    BY DEF OthersIdle
  <2>2. (\E c \in Client : pc[c] = "unpark") <=> t \in Client /\ pc[t] = "unpark"
    BY DEF OthersIdle
  <2>3. t \in Client => t # Watchdog
    OBVIOUS
  <2> QED
    BY <2>1, <2>2, <2>3 DEF AbstractOffer, Offered
<1>2. AbstractOffer' = Offered(t)'
  <2>1. t # Watchdog => frame'[Watchdog].mine = None
    BY DEF OthersIdle
  <2>2. (\E c \in Client : pc'[c] = "unpark") <=> t \in Client /\ pc'[t] = "unpark"
    BY DEF OthersIdle
  <2>3. t \in Client => t # Watchdog
    OBVIOUS
  <2> QED
    BY <2>1, <2>2, <2>3 DEF AbstractOffer, Offered
<1>3. AbstractEnded = Recorded \cup Owed(t)
  <2>1. Finishing = IF t \in Client /\ Ending(t) THEN {t} ELSE {}
    BY DEF OthersIdle, Finishing, Ending
  <2> QED
    BY <2>1 DEF AbstractEnded, Recorded, Owed
<1>4. AbstractEnded' = Recorded' \cup Owed(t)'
  <2>1. Finishing' = IF t \in Client /\ Ending(t)' THEN {t} ELSE {}
    BY DEF OthersIdle, Finishing, Ending
  <2> QED
    BY <2>1 DEF AbstractEnded, Recorded, Owed
<1> QED
  BY <1>1, <1>2, <1>3, <1>4

\* A step that FocusSession does not see.
LEMMA Unseen ==
  ASSUME NEW t \in Thread, OthersIdle(t), session' = session, Offered(t)' = Offered(t),
         Recorded' \cup Owed(t)' = Recorded \cup Owed(t)
  PROVE  UNCHANGED Focus!vars
BY Views DEF Focus!vars, Abstract

LEMMA WorkerAlone ==
  ASSUME TypeInv, Alone, ~ Overlap
  PROVE  /\ \A c \in Client : Request(c) \/ Handle(c) => OthersIdle(c)
         /\ WatchdogStep => OthersIdle(Watchdog)
         /\ WarmStep => OthersIdle(Warm)
<1> USE ThreadFacts
<1>0. TypeOK /\ ThreadsOK
  BY DEF TypeInv, TypeOK
<1>1. ASSUME NEW c \in Client, Request(c) \/ Handle(c) PROVE OthersIdle(c)
  <2>1. pc[c] # "idle" \/ MayBegin(c)
    BY <1>1 DEF Request, Handle, StartOrRestore, Finish, CheckSession, GetInterrupted,
       ListSites, ClearBeforeApply, ApplyOne, SetActive, ForgetSummary, SetLiveCheckpoint,
       Install, Unpark, TakeSession, ClearLiveCheckpoint, Record, Publish, ClearInterrupted,
       NoteUiPid, TouchUi, Snapshot, SnapshotAt, Pop, RejectIfSession, SetEnabled, ClearHistory,
       ClearNetwork, ClearActive, At
  <2>2. \A u \in Thread \ {c} : pc'[u] = pc[u] /\ frame'[u] = frame[u]
    BY <1>0, <1>1, OthersStay
  <2> QED
    BY <2>1, <2>2 DEF Alone, MayBegin, OthersIdle
<1>2. ASSUME WatchdogStep PROVE OthersIdle(Watchdog)
  <2>1. pc[Watchdog] # "idle" \/ MayBegin(Watchdog)
    BY <1>2 DEF WatchdogStep, WatchPid, WatchBeat, SeeSession, SeeActive, SeeArmed, Look, Park,
       ForgetPid, ForgetBeat, DropSummary, DropCheckpoint, SetInterrupted, ClearNetwork,
       ClearActive, At
  <2>2. \A u \in Thread \ {Watchdog} : pc'[u] = pc[u] /\ frame'[u] = frame[u]
    BY <1>0, <1>2 DEF WatchdogStep, WatchPid, WatchBeat, SeeSession, SeeActive, SeeArmed, Look, Park,
       ForgetPid, ForgetBeat, DropSummary, DropCheckpoint, SetInterrupted, ClearNetwork,
       ClearActive, Goto, GotoWith, Return, ThreadsOK
  <2> QED
    BY <2>1, <2>2 DEF Alone, MayBegin, OthersIdle
<1>3. ASSUME WarmStep PROVE OthersIdle(Warm)
  <2>1. pc[Warm] # "idle"
    BY <1>3 DEF WarmStep, WarmCheck, ReadCheckpoint, DeleteCheckpoint, SetInterrupted,
       ClearNetwork, ClearActive, At
  <2>2. \A u \in Thread \ {Warm} : pc'[u] = pc[u] /\ frame'[u] = frame[u]
    BY <1>0, <1>3 DEF WarmStep, WarmCheck, ReadCheckpoint, DeleteCheckpoint, SetInterrupted,
       ClearNetwork, ClearActive, Goto, GotoWith, Return, ThreadsOK
  <2> QED
    BY <2>1, <2>2 DEF Alone, OthersIdle
<1> QED
  BY <1>1, <1>2, <1>3

\* A start or a restore is seen when the session is installed.
LEMMA StartStepsImplement ==
  ASSUME TypeInv, SerialInv, ~ Overlap, NEW c \in Client, StartOrRestore(c)
  PROVE  [Focus!Next]_(Focus!vars)
<1> USE ThreadFacts, NoneType
<1>0. /\ DataOK /\ ThreadsOK /\ c \in Thread
      /\ frame[c] \in Frame /\ Fits(c, pc[c], frame[c])
      /\ OthersIdle(c)
  BY WorkerAlone DEF TypeInv, TypeOK, ThreadsOK, AllPrepared, Handle, SerialInv
<1>1. CASE Install(c)
  <2>1. /\ session = None /\ session' = frame[c].mine /\ frame[c].mine # None
        /\ frame[c].mine \in LiveSession /\ Named(frame[c].mine)
        /\ UNCHANGED <<interrupted, history>>
        /\ pc[c] = "install" /\ Arms(c)
        /\ pc'[c] = IF frame[c].cmd = "RestoreInterruptedSession" THEN "unpark" ELSE "snapshot"
    BY <1>0, <1>1, MovesTo DEF Install, At, Fits, SerialInv, SlotInv, Vacant, Starting, Frame,
       NamesInv, disk, Arms
  <2>2. Owed(c) = {} /\ Owed(c)' = {} /\ Offered(c) = Abstract(interrupted) /\ Recorded' = Recorded
    BY <2>1 DEF Owed, Offered, Ending, Recorded
  <2>3. AbstractEnded' = AbstractEnded /\ AbstractOffer = Abstract(interrupted)
    BY <1>0, <2>2, Views
  <2>4. CASE frame[c].cmd = "StartSession"
    <3> DEFINE m == frame[c].mine
    <3>1. interrupted = None /\ m.left \in Duration
      BY <1>0, <2>1, <2>4 DEF SerialInv, OfferInv, HandsInv, Holds, Starting
    <3>2. AbstractOffer = None /\ AbstractOffer' = None
      BY <1>0, <2>1, <2>3, <2>4, <3>1, Views DEF Offered, Abstract
    <3>3. /\ m.started \in 1 .. MaxLive /\ m.profile \in Profile
          /\ Abstract(session)' = [started |-> m.started, profile |-> m.profile, left |-> m.left]
          /\ Abstract(session) = None
      BY <1>0, <2>1, BoundsType DEF Named, LiveSession, Abstract, DataOK, SerialInv, NamesInv
    <3>4. Focus!Fresh(m.started)
      <4>1. \A h \in Recorded : h.started # m.started
        BY <2>1 DEF Named, Recorded
      <4>2. AbstractEnded = Recorded
        BY <1>0, <2>2, Views
      <4> QED
        BY <3>2, <3>3, <4>1, <4>2 DEF Focus!Fresh
    <3> QED
      BY <2>3, <3>1, <3>2, <3>3, <3>4 DEF Focus!Next, Focus!Start
  <2>5. CASE frame[c].cmd = "RestoreInterruptedSession"
    <3>1. interrupted # None /\ Abstract(frame[c].mine) = Abstract(interrupted)
      BY <1>0, <2>1, <2>5 DEF SerialInv, OfferInv, Starting
    <3>2. /\ Abstract(session)' = AbstractOffer /\ Abstract(session) = None
          /\ AbstractOffer # None
      <4>1. Abstract(frame[c].mine) \in Focus!Session
        BY <1>0, <2>1, BoundsType
           DEF Abstract, Focus!Session, SerialInv, NamesInv, Named, DataOK, LiveSession
      <4> QED
        BY <2>1, <2>3, <3>1, <4>1, FocusNoneType DEF Abstract
    <3>3. AbstractOffer' = None
      BY <1>0, <2>1, <2>5, Views DEF Offered
    <3> QED
      BY <2>3, <3>2, <3>3 DEF Focus!Next, Focus!Restore
  <2> QED
    BY <2>1, <2>4, <2>5 DEF Arms
<1>2. CASE Unpark(c)
  <2>1. /\ session' = session /\ Recorded' = Recorded
        /\ pc[c] = "unpark" /\ pc'[c] = "snapshot" /\ interrupted' = None
    BY <1>0, <1>2, MovesTo DEF Unpark, At, Recorded
  <2>2. Owed(c)' = Owed(c) /\ Offered(c)' = Offered(c)
    BY <2>1 DEF Owed, Offered, Ending, Abstract
  <2> QED
    BY <1>0, <2>1, <2>2, Unseen
<1>3. CASE ~ Install(c) /\ ~ Unpark(c)
  <2> DEFINE unseen == FinishLabels \cup {"unpark"}
  <2>0. ASSUME NEW label, label \notin unseen,
               Goto(c, label) \/ \E f : GotoWith(c, label, f)
        PROVE  pc'[c] \notin unseen
    BY <1>0, <2>0, MovesTo
  <2>1. /\ UNCHANGED <<session, interrupted, history>>
        /\ pc[c] \notin unseen
        /\ pc'[c] \notin unseen
    <3>0. {"idle", "get_interrupted", "clear_interrupted", "list_sites", "clear_all", "apply_batch",
           "forget_summary", "touch_ui", "install"} \cap unseen = {}
      BY DEF FinishLabels
    <3>1. CASE CheckSession(c) \/ GetInterrupted(c)
      BY <3>0, <3>1, <2>0 DEF CheckSession, GetInterrupted, At, disk, Return, FinishLabels
    <3>2. CASE ListSites(c) \/ ClearBeforeApply(c) \/ ApplyOne(c)
      BY <3>0, <3>2, <2>0 DEF ListSites, ClearBeforeApply, ApplyOne, At, data, disk, FinishLabels
    <3>3. CASE SetActive(c) \/ ForgetSummary(c) \/ SetLiveCheckpoint(c)
      BY <3>0, <3>3, <2>0 DEF SetActive, ForgetSummary, SetLiveCheckpoint, At, disk, FinishLabels
    <3> QED
      BY <1>3, <3>1, <3>2, <3>3 DEF StartOrRestore
  <2>2. Owed(c)' = {} /\ Owed(c) = {} /\ Offered(c)' = Offered(c) /\ Recorded' = Recorded
    BY <2>1 DEF Owed, Offered, Ending, Abstract, FinishLabels, Recorded
  <2> QED
    BY <1>0, <2>1, <2>2, Unseen
<1> QED
  BY <1>1, <1>2, <1>3

\* The end of a session is seen when it is taken; the rest writes what was seen.
LEMMA FinishStepsImplement ==
  ASSUME TypeInv, SerialInv, ~ Overlap, NEW c \in Client,
         Finish(c) \/ ClearNetwork(c) \/ ClearActive(c)
  PROVE  [Focus!Next]_(Focus!vars)
<1> USE ThreadFacts, NoneType
<1>0. /\ DataOK /\ ThreadsOK /\ c \in Thread
      /\ frame[c] \in Frame /\ Fits(c, pc[c], frame[c])
      /\ OthersIdle(c)
  BY WorkerAlone DEF TypeInv, TypeOK, ThreadsOK, AllPrepared, Handle, SerialInv
<1>1. CASE TakeSession(c)
  <2>1. CASE session = None
    <3>1. /\ session' = session /\ UNCHANGED <<interrupted, history>>
          /\ pc[c] = "take_session" /\ pc'[c] \in {"pop", "idle"}
      BY <1>0, <1>1, <2>1, MovesTo DEF TakeSession, AfterFinish, Return, At, disk
    <3>2. Owed(c)' = {} /\ Owed(c) = {} /\ Offered(c)' = Offered(c) /\ Recorded' = Recorded
      BY <3>1 DEF Owed, Offered, Ending, Abstract, Recorded
    <3> QED
      BY <1>0, <3>1, <3>2, Unseen
  <2>2. CASE session # None
    <3>1. PICK sess \in Refreshed(session) :
            GotoWith(c, "clear_live_checkpoint", [frame[c] EXCEPT !.mine = sess])
      BY <1>1, <2>2 DEF TakeSession
    <3>2. /\ session' = None /\ interrupted = None /\ interrupted' = None /\ history' = history
          /\ pc[c] = "take_session" /\ pc'[c] = "clear_live_checkpoint"
          /\ frame'[c].cmd = frame[c].cmd /\ frame'[c].mine.started = session.started
      <4>1. sess.started = session.started
        BY <1>0, <2>2, <3>1 DEF Refreshed, DataOK, LiveSession
      <4> QED
        BY <1>0, <1>1, <2>2, <3>1, <4>1
           DEF TakeSession, At, disk, SerialInv, OfferInv, GotoWith, ThreadsOK, Frame
    <3>3. /\ Abstract(session) # None /\ Abstract(session)' = None
          /\ Abstract(session).started = session.started /\ Abstract(session).left = session.left
      <4>1. Abstract(session) \in Focus!Session
        BY <1>0, <2>2, BoundsType
           DEF Abstract, Focus!Session, SerialInv, NamesInv, Named, DataOK, LiveSession
      <4> QED
        BY <2>2, <3>2, <4>1, FocusNoneType DEF Abstract
    <3>4. AbstractOffer = None /\ AbstractOffer' = None
      BY <1>0, <3>2, Views DEF Offered, Abstract
    <3>5. AbstractEnded' = AbstractEnded \cup {[started |-> session.started, reason |-> Reason(c)]}
      <4>1. Owed(c) = {} /\ Recorded' = Recorded
        BY <3>2 DEF Owed, Ending, Recorded
      <4>2. Owed(c)' = {[started |-> session.started, reason |-> Reason(c)]}
        BY <3>2 DEF Owed, Ending, Reason
      <4> QED
        BY <1>0, <4>1, <4>2, Views
    <3>6. Reason(c) = "timer" => session.left = 0
      BY <1>0, <3>2 DEF Reason, SerialInv, CheckpointInv
    <3>7. Focus!End(Reason(c))
      BY <3>3, <3>4, <3>5, <3>6 DEF Focus!End
    <3> QED
      BY <3>7 DEF Focus!Next, Reason
  <2> QED
    BY <2>1, <2>2
<1>2. CASE Record(c)
  <2>1. /\ session' = session /\ interrupted' = interrupted
        /\ pc[c] = "record" /\ pc'[c] = "publish" /\ frame'[c] = frame[c]
        /\ history' = history \cup
             {[id |-> frame[c].mine.id, started |-> frame[c].mine.started, reason |-> Reason(c)]}
    BY <1>0, <1>2, MovesTo DEF Record, At
  <2>2. Recorded' = Recorded \cup Owed(c)
    <3> DEFINE rec == [id |-> frame[c].mine.id, started |-> frame[c].mine.started, reason |-> Reason(c)]
    <3>1. rec.started = frame[c].mine.started /\ rec.reason = Reason(c)
      OBVIOUS
    <3>2. history' = history \cup {rec}
      BY <2>1
    <3> HIDE DEF rec
    <3>3. Recorded' = Recorded \cup {[started |-> rec.started, reason |-> rec.reason]}
      BY <3>2 DEF Recorded
    <3> QED
      BY <2>1, <3>1, <3>3 DEF Owed, Ending
  <2>4. Owed(c)' = {}
    BY <2>1 DEF Owed, Ending
  <2>3. Offered(c)' = Offered(c)
    BY <2>1 DEF Offered, Abstract
  <2> QED
    BY <1>0, <2>1, <2>2, <2>3, <2>4, Unseen
<1>3. CASE Publish(c)
  <2>1. /\ UNCHANGED <<session, interrupted, history>>
        /\ pc[c] = "publish" /\ pc'[c] \in {"pop", "idle"}
    BY <1>0, <1>3, MovesTo DEF Publish, Return, At, disk
  <2>2. Owed(c)' = {} /\ Owed(c) = {} /\ Offered(c)' = Offered(c) /\ Recorded' = Recorded
    BY <2>1 DEF Owed, Offered, Ending, Abstract, Recorded
  <2> QED
    BY <1>0, <2>1, <2>2, Unseen
<1>4. CASE ClearLiveCheckpoint(c) \/ ClearNetwork(c) \/ ClearActive(c)
  <2>1. /\ UNCHANGED <<session, interrupted, history>> /\ frame'[c] = frame[c]
        /\ pc[c] \in {"clear_live_checkpoint", "clear_network", "clear_active"}
        /\ pc'[c] \in {"clear_network", "clear_active", "record"}
    BY <1>0, <1>4, MovesTo DEF ClearLiveCheckpoint, ClearNetwork, ClearActive, At, disk
  <2>2. Owed(c)' = Owed(c) /\ Offered(c)' = Offered(c) /\ Recorded' = Recorded
    BY <2>1 DEF Owed, Offered, Ending, Abstract, Recorded, Reason
  <2> QED
    BY <1>0, <2>1, <2>2, Unseen
<1> QED
  BY <1>1, <1>2, <1>3, <1>4 DEF Finish

\* A refresh of the clock and the two ways to forget are seen, other requests are not.
LEMMA OtherStepsImplement ==
  ASSUME TypeInv, SerialInv, ~ Overlap, NEW c \in Client,
         Request(c) \/ ClearInterrupted(c) \/ NoteUiPid(c) \/ TouchUi(c) \/ Snapshot(c)
           \/ Pop(c) \/ RejectIfSession(c) \/ SetEnabled(c) \/ ClearHistory(c)
  PROVE  [Focus!Next]_(Focus!vars)
<1> USE ThreadFacts, NoneType
<1>0. /\ DataOK /\ ThreadsOK /\ c \in Thread
      /\ frame[c] \in Frame /\ Fits(c, pc[c], frame[c])
      /\ OthersIdle(c)
  BY WorkerAlone DEF TypeInv, TypeOK, ThreadsOK, AllPrepared, Handle, SerialInv
<1> DEFINE unseen == FinishLabels \cup {"unpark"}
<1>l. {"idle", "take_session", "snapshot", "set_live_checkpoint", "list_sites", "clear_interrupted",
       "check_session", "touch_ui", "clear_history", "note_ui_pid", "pop", "reject_if_session",
       "set_enabled"} \cap unseen = {}
  BY DEF FinishLabels
<1>m. ASSUME NEW label, label \notin unseen, Goto(c, label) \/ \E f : GotoWith(c, label, f)
      PROVE  pc'[c] \notin unseen
  BY <1>0, <1>m, MovesTo
<1>f. \A cmd \in Commands : FirstStep(cmd) \notin unseen
  BY <1>l, CommandsType DEF FirstStep, AllCommands
<1>p. pc[c] \notin unseen /\ pc'[c] \notin unseen
  <2>1. CASE Request(c) \/ ClearInterrupted(c) \/ NoteUiPid(c)
    BY <1>l, <1>m, <1>f, <2>1 DEF Request, ClearInterrupted, NoteUiPid, At, Return
  <2>2. CASE TouchUi(c) \/ Snapshot(c)
    BY <1>l, <1>m, <2>2 DEF TouchUi, Snapshot, SnapshotAt, At, Return
  <2>3. CASE Pop(c) \/ RejectIfSession(c) \/ SetEnabled(c) \/ ClearHistory(c)
    BY <1>l, <1>m, <2>3 DEF Pop, RejectIfSession, SetEnabled, ClearHistory, At, Return
  <2> QED
    BY <2>1, <2>2, <2>3
<1>o. /\ Owed(c) = {} /\ Owed(c)' = {}
      /\ Offered(c) = Abstract(interrupted) /\ Offered(c)' = Abstract(interrupted)'
  BY <1>p DEF Owed, Offered, Ending, FinishLabels
<1>v. /\ AbstractOffer = Abstract(interrupted) /\ AbstractOffer' = Abstract(interrupted)'
      /\ AbstractEnded = Recorded /\ AbstractEnded' = Recorded'
  BY <1>0, <1>o, Views
<1>1. CASE UNCHANGED <<session, interrupted, history>>
  <2>1. Recorded' = Recorded /\ Offered(c)' = Offered(c)
    BY <1>1, <1>o DEF Recorded, Abstract
  <2> QED
    BY <1>0, <1>1, <1>o, <2>1, Unseen
<1>2. CASE ClearInterrupted(c)
  <2>1. Abstract(interrupted)' = None /\ Abstract(session)' = Abstract(session) /\ Recorded' = Recorded
    BY <1>2 DEF ClearInterrupted, Abstract, Recorded
  <2> QED
    BY <1>v, <2>1 DEF Focus!Next, Focus!Discard
<1>3. CASE Snapshot(c) /\ session' # session
  <2>1. /\ session # None /\ session' \in Refreshed(session)
        /\ UNCHANGED <<interrupted, history>>
    BY <1>3 DEF Snapshot, SnapshotAt
  <2>2. PICK n \in 0 .. session.left : session' = [session EXCEPT !.left = n]
    BY <2>1 DEF Refreshed
  <2>3. /\ Abstract(session) \in Focus!Session /\ Abstract(session).left = session.left
        /\ Abstract(session)' = [Abstract(session) EXCEPT !.left = n]
    BY <1>0, <2>1, <2>2, BoundsType, RefreshedTyped
       DEF Abstract, Focus!Session, SerialInv, NamesInv, Named, DataOK, LiveSession
  <2>4. Abstract(interrupted)' = Abstract(interrupted) /\ Recorded' = Recorded
    BY <2>1 DEF Abstract, Recorded
  <2> QED
    BY <1>v, <2>3, <2>4, FocusNoneType DEF Focus!Next, Focus!Tick
<1>4. CASE ClearHistory(c)
  <2>1. /\ Recorded' = {} /\ Abstract(session)' = Abstract(session)
        /\ Abstract(interrupted)' = Abstract(interrupted)
    BY <1>4 DEF ClearHistory, Recorded, Abstract
  <2> QED
    BY <1>v, <2>1 DEF Focus!Next, Focus!ClearHistory
<1>5. CASE Request(c) \/ NoteUiPid(c) \/ TouchUi(c) \/ Pop(c) \/ RejectIfSession(c) \/ SetEnabled(c)
  BY <1>1, <1>5 DEF Request, NoteUiPid, TouchUi, Pop, RejectIfSession, SetEnabled, data, disk
<1>6. CASE Snapshot(c) /\ session' = session
  BY <1>1, <1>6 DEF Snapshot, SnapshotAt
<1> QED
  BY <1>2, <1>3, <1>4, <1>5, <1>6

\* A park is seen when the session is taken; the offer is its to write.
LEMMA WatchdogStepsImplement ==
  ASSUME TypeInv, SerialInv, ~ Overlap, WatchdogStep
  PROVE  [Focus!Next]_(Focus!vars)
<1> USE ThreadFacts, NoneType
<1>0. /\ DataOK /\ ThreadsOK /\ Watchdog \in Thread
      /\ frame[Watchdog] \in Frame /\ Fits(Watchdog, pc[Watchdog], frame[Watchdog])
      /\ OthersIdle(Watchdog)
  BY WorkerAlone DEF TypeInv, TypeOK, ThreadsOK, AllPrepared, Handle, SerialInv
<1>w. OthersIdle(Watchdog)
  BY WorkerAlone DEF SerialInv
<1>o. Owed(Watchdog) = {} /\ Owed(Watchdog)' = {}
  BY DEF Owed
<1>1. CASE Park
  <2>1. CASE session = None
    <3>1. UNCHANGED <<session, interrupted, history>> /\ frame[Watchdog].mine = None /\ frame'[Watchdog].mine = None
      BY <1>0, <1>1, <2>1, MovesTo DEF Park, Return, EmptyFrame, At, disk, SerialInv, HandsInv, Holds
    <3>2. Offered(Watchdog)' = Offered(Watchdog) /\ Recorded' = Recorded
      BY <3>1 DEF Offered, Abstract, Recorded
    <3> QED
      BY <1>w, <1>o, <3>1, <3>2, Unseen
  <2>2. CASE session # None
    <3>1. PICK n \in 0 .. session.left :
            GotoWith(Watchdog, "clear_network", [EmptyFrame EXCEPT !.mine = [session EXCEPT !.left = n]])
      BY <1>1, <2>2 DEF Park, Refreshed
    <3>2. /\ session' = None /\ UNCHANGED <<interrupted, history>>
          /\ frame[Watchdog].mine = None /\ frame'[Watchdog].mine = [session EXCEPT !.left = n]
      BY <1>0, <1>1, <2>2, <3>1 DEF Park, At, disk, SerialInv, HandsInv, Holds, GotoWith, ThreadsOK, EmptyFrame
    <3>3. /\ [session EXCEPT !.left = n] # None /\ [session EXCEPT !.left = n].left = n
          /\ n \in Nat
      BY <1>0, <2>2, RefreshedTyped DEF DataOK, LiveSession, Refreshed
    <3>4. /\ AbstractEnded' = AbstractEnded /\ AbstractOffer = Abstract(interrupted)
          /\ AbstractOffer' = IF n = 0 THEN Abstract(interrupted) ELSE Abstract([session EXCEPT !.left = n])
      <4>1. Recorded' = Recorded
        BY <3>2 DEF Recorded
      <4>2. Offered(Watchdog) = Abstract(interrupted)
        BY <3>2 DEF Offered
      <4>3. Offered(Watchdog)' = IF n = 0 THEN Abstract(interrupted) ELSE Abstract([session EXCEPT !.left = n])
        BY <3>2, <3>3 DEF Offered, Abstract
      <4> QED
        BY <1>w, <1>o, <4>1, <4>2, <4>3, Views
    <3>5. /\ Abstract(session) \in Focus!Session /\ Abstract(session).left = session.left
          /\ Abstract([session EXCEPT !.left = n]) = [Abstract(session) EXCEPT !.left = n]
          /\ Abstract(session)' = None
      BY <1>0, <2>2, <3>2, <3>3, BoundsType
         DEF Abstract, Focus!Session, SerialInv, NamesInv, Named, DataOK, LiveSession
    <3> QED
      BY <3>4, <3>5, FocusNoneType DEF Focus!Next, Focus!Park
  <2> QED
    BY <2>1, <2>2
<1>2. CASE SetInterrupted(Watchdog)
  <2>1. /\ UNCHANGED <<session, history>> /\ interrupted' = frame[Watchdog].mine
        /\ frame[Watchdog].mine # None /\ frame[Watchdog].mine.left > 0
        /\ frame'[Watchdog].mine = None
    BY <1>0, <1>2, MovesTo DEF SetInterrupted, Return, EmptyFrame, At, SerialInv, HandsInv, Holds
  <2>2. Offered(Watchdog)' = Offered(Watchdog) /\ Recorded' = Recorded
    BY <2>1 DEF Offered, Abstract, Recorded
  <2> QED
    BY <1>w, <1>o, <2>1, <2>2, Unseen
<1>3. CASE DropCheckpoint
  <2>1. /\ UNCHANGED <<session, interrupted, history>>
        /\ \/ frame'[Watchdog] = frame[Watchdog]
           \/ frame[Watchdog].mine.left = 0 /\ frame'[Watchdog].mine = None
    BY <1>0, <1>3, MovesTo DEF DropCheckpoint, Return, EmptyFrame, At
  <2>2. Offered(Watchdog)' = Offered(Watchdog) /\ Recorded' = Recorded
    BY <2>1 DEF Offered, Abstract, Recorded
  <2> QED
    BY <1>w, <1>o, <2>1, <2>2, Unseen
<1>4. CASE \/ WatchPid \/ WatchBeat \/ SeeSession \/ SeeActive \/ SeeArmed
           \/ ForgetPid \/ ForgetBeat \/ DropSummary \/ ClearNetwork(Watchdog) \/ ClearActive(Watchdog)
  <2>1. UNCHANGED <<session, interrupted, history>> /\ frame'[Watchdog] = frame[Watchdog]
    BY <1>0, <1>4, MovesTo DEF WatchPid, WatchBeat, SeeSession, SeeActive, SeeArmed, Look, ForgetPid,
       ForgetBeat, DropSummary, ClearNetwork, ClearActive, data, disk
  <2>2. Offered(Watchdog)' = Offered(Watchdog) /\ Recorded' = Recorded
    BY <2>1 DEF Offered, Abstract, Recorded
  <2> QED
    BY <1>w, <1>o, <2>1, <2>2, Unseen
<1> QED
  BY <1>1, <1>2, <1>3, <1>4 DEF WatchdogStep

\* Before the service has stopped once, the warm-up finds nothing to offer.
LEMMA WarmStepsImplement ==
  ASSUME TypeInv, SerialInv, ~ Overlap, WarmStep, stops' = 0
  PROVE  [Focus!Next]_(Focus!vars)
<1> USE ThreadFacts
<1>1. OthersIdle(Warm)
  BY WorkerAlone DEF SerialInv
<1>2. stops = 0
  BY DEF WarmStep, WarmCheck, ReadCheckpoint, DeleteCheckpoint, SetInterrupted, ClearNetwork,
     ClearActive, data, world
<1>3. ~ SetInterrupted(Warm)
  BY <1>2 DEF SerialInv, FirstWarmUp, SetInterrupted, At
<1>4. UNCHANGED <<session, interrupted, history>>
  BY <1>3 DEF WarmStep, WarmCheck, ReadCheckpoint, DeleteCheckpoint, ClearNetwork, ClearActive,
     data, disk
<1>5. Owed(Warm)' = Owed(Warm) /\ Offered(Warm)' = Offered(Warm) /\ Recorded' = Recorded
  BY <1>4 DEF Owed, Offered, Recorded, Abstract
<1> QED
  BY <1>1, <1>4, <1>5, Unseen

\* Whatever the failures of the hosts file, the service behaves as FocusSession until it
\* is stopped: starts are refused while a session is live, a timer ends only a session
\* that ran out, what was parked comes back once, and the history gains what was taken.
THEOREM EngineImplementsFocus ==
  ASSUME ~ Overlap
  PROVE  Spec => ImplementsFocusSession
<1>1. Init => Focus!Init
  <2> SUFFICES ASSUME Init PROVE Focus!Init
    OBVIOUS
  <2>1. Finishing = {}
    BY ThreadFacts DEF Init, InitWith, Finishing, Ending
  <2>2. AbstractEnded = {}
    BY <2>1 DEF Init, InitWith, AbstractEnded
  <2>3. AbstractOffer = None
    BY ThreadFacts DEF Init, InitWith, EmptyFrame, AbstractOffer, Abstract
  <2> QED
    BY <2>2, <2>3 DEF Focus!Init, Init, InitWith, Abstract
<1>2. TypeInv /\ SerialInv /\ [Next]_vars => [stops' = 0 => [Focus!Next]_(Focus!vars)]_vars
  <2> SUFFICES ASSUME TypeInv, SerialInv, Next, stops' = 0
               PROVE  [Focus!Next]_(Focus!vars)
    OBVIOUS
  <2>1. ASSUME NEW c \in Client, Request(c) \/ Handle(c) PROVE [Focus!Next]_(Focus!vars)
    BY <2>1, StartStepsImplement, FinishStepsImplement, OtherStepsImplement DEF Handle
  <2>2. CASE WatchdogStep \/ WarmStep
    BY <2>2, WatchdogStepsImplement, WarmStepsImplement
  <2>3. CASE Environment
    <3>1. stops \in Nat /\ (service # "up" => stops > 0)
      BY DEF TypeInv, TypeOK, DataOK, SerialInv, Alone
    <3>2. UNCHANGED <<session, interrupted, history, pc, frame>>
      BY <2>3, <3>1 DEF Environment, UiLaunch, UiExit, HeartbeatLapses, ServiceEnds, ServiceStarts,
         disk, world
    <3> QED
      BY <3>2 DEF Focus!vars, Abstract, AbstractOffer, AbstractEnded, Finishing, Ending, Reason
  <2> QED
    BY <2>1, <2>2, <2>3 DEF Next
<1> QED
  BY <1>1, <1>2, SerialInvariant, PTL DEF Spec, ImplementsFocusSession

-----------------------------------------------------------------------------
(* One connection, and every overlap with the watchdog and the warm-up *)

\* A connection that is about to install a session has seen an empty slot.
SeenEmpty == \A c \in Client : Starting(c) => session = None

LEMMA SeenEmptyKept ==
  ASSUME TypeInv, SeenEmpty, NEW c \in Client, \A d \in Client : d = c,
         ~ Starting(c)' \/ (Starting(c) /\ session' = session) \/ session' = None
  PROVE  SeenEmpty'
BY DEF SeenEmpty

LEMMA ConnectionSeesEmpty ==
  ASSUME TypeInv, SeenEmpty, NEW c \in Client, \A d \in Client : d = c, Request(c) \/ Handle(c)
  PROVE  SeenEmpty'
<1> USE ThreadFacts
<1>0. /\ ThreadsOK /\ c \in Thread /\ frame[c] \in Frame /\ Fits(c, pc[c], frame[c])
  BY DEF TypeInv, TypeOK, ThreadsOK, AllPrepared
<1>1. CASE StartOrRestore(c)
  <2>1. CASE CheckSession(c)
    <3>1. CASE Return(c)
      BY <1>0, <3>1, MovesTo, SeenEmptyKept DEF Return, Starting
    <3>2. CASE ~ Return(c)
      BY <2>1, <3>2, SeenEmptyKept DEF CheckSession
    <3> QED
      BY <3>1, <3>2
  <2>2. CASE Install(c) \/ Unpark(c)
    <3>1. pc'[c] \in {"unpark", "snapshot"}
      BY <1>0, <2>2, MovesTo DEF Install, Unpark
    <3> QED
      BY <3>1, SeenEmptyKept DEF Starting
  <2>3. CASE ~ CheckSession(c) /\ ~ Install(c) /\ ~ Unpark(c)
    <3>1. Starting(c) /\ session' = session
      BY <1>1, <2>3 DEF StartOrRestore, GetInterrupted, ListSites, ClearBeforeApply, ApplyOne,
         SetActive, ForgetSummary, SetLiveCheckpoint, At, data, Starting
    <3> QED
      BY <3>1, SeenEmptyKept
  <2> QED
    BY <2>1, <2>2, <2>3
<1>2. CASE Finish(c) \/ ClearNetwork(c) \/ ClearActive(c)
  <2>1. pc'[c] \in {"idle", "pop"} \cup FinishLabels
    BY <1>0, <1>2, MovesTo DEF Finish, TakeSession, AfterFinish, ClearLiveCheckpoint, Record, Publish,
       ClearNetwork, ClearActive, Return, FinishLabels
  <2> QED
    BY <2>1, SeenEmptyKept DEF Starting, FinishLabels
<1>3. CASE Request(c)
  <2>1. PICK cmd \in Commands, target \in UNION {Targets(k) : k \in Commands} :
          GotoWith(c, FirstStep(cmd),
            [EmptyFrame EXCEPT !.cmd = cmd, !.rules = target,
                               !.ui = IF cmd = "Health" THEN running ELSE 0])
    BY <1>3 DEF Request
  <2>2. pc'[c] = FirstStep(cmd) /\ frame'[c].cmd = cmd
    BY <1>0, <2>1 DEF GotoWith, ThreadsOK, EmptyFrame
  <2>3. ~ Starting(c)'
    BY <2>2, CommandsType DEF FirstStep, AllCommands, Starting, Arms
  <2> QED
    BY <2>3, SeenEmptyKept
<1>4. CASE ClearInterrupted(c) \/ TouchUi(c)
  <2>1. session' = session
    BY <1>4 DEF ClearInterrupted, TouchUi
  <2>2. pc'[c] \in {"idle", "take_session", "snapshot"} \/ Starting(c)
    BY <1>0, <1>4, MovesTo DEF ClearInterrupted, TouchUi, Return, Starting, Arms, At
  <2> QED
    BY <2>1, <2>2, SeenEmptyKept DEF Starting
<1>5. CASE NoteUiPid(c)
  <2>1. pc'[c] = "touch_ui" /\ ~ Arms(c)'
    BY <1>0, <1>5, MovesTo DEF NoteUiPid, At, Fits, Arms
  <2> QED
    BY <2>1, SeenEmptyKept DEF Starting
<1>6. CASE Snapshot(c)
  <2>1. pc'[c] \in {"take_session", "idle"}
    BY <1>0, <1>6, MovesTo DEF Snapshot, SnapshotAt, Return
  <2> QED
    BY <2>1, SeenEmptyKept DEF Starting
<1>7. CASE Pop(c) \/ RejectIfSession(c) \/ SetEnabled(c) \/ ClearHistory(c)
  <2>1. pc'[c] \in {"set_enabled", "idle"}
    BY <1>0, <1>7, MovesTo DEF Pop, RejectIfSession, SetEnabled, ClearHistory, Return
  <2> QED
    BY <2>1, SeenEmptyKept DEF Starting
<1> QED
  BY <1>1, <1>2, <1>3, <1>4, <1>5, <1>6, <1>7 DEF Handle

LEMMA SeenEmptyNext ==
  ASSUME TypeInv, SeenEmpty, \A c, d \in Client : c = d, [Next]_vars
  PROVE  SeenEmpty'
<1> USE ThreadFacts
<1>0. ThreadsOK
  BY DEF TypeInv, TypeOK
<1>1. ASSUME NEW c \in Client, Request(c) \/ Handle(c) PROVE SeenEmpty'
  BY <1>1, ConnectionSeesEmpty
<1>2. CASE WatchdogStep \/ WarmStep
  <2>1. session' = session \/ session' = None
    BY <1>2 DEF WatchdogStep, WarmStep, WatchPid, WatchBeat, SeeSession, SeeActive, SeeArmed, Look,
       Park, ForgetPid, ForgetBeat, DropSummary, DropCheckpoint, SetInterrupted, ClearNetwork,
       ClearActive, WarmCheck, ReadCheckpoint, DeleteCheckpoint, data
  <2>2. \A c \in Client : pc'[c] = pc[c] /\ frame'[c] = frame[c]
    BY <1>0, <1>2 DEF WatchdogStep, WarmStep, WatchPid, WatchBeat, SeeSession, SeeActive, SeeArmed,
       Look, Park, ForgetPid, ForgetBeat, DropSummary, DropCheckpoint, SetInterrupted, ClearNetwork,
       ClearActive, WarmCheck, ReadCheckpoint, DeleteCheckpoint, Goto, GotoWith, Return, ThreadsOK
  <2> QED
    BY <2>1, <2>2 DEF SeenEmpty, Starting, Arms
<1>3. CASE Environment
  <2>1. CASE ServiceEnds
    BY <2>1 DEF ServiceEnds, SeenEmpty, Starting
  <2>2. CASE ServiceStarts
    BY <1>0, <2>2 DEF ServiceStarts, SeenEmpty, Starting, Arms, ThreadsOK
  <2>3. CASE UiLaunch \/ UiExit \/ HeartbeatLapses
    BY <2>3 DEF UiLaunch, UiExit, HeartbeatLapses, SeenEmpty, Starting, Arms
  <2> QED
    BY <1>3, <2>1, <2>2, <2>3 DEF Environment
<1>4. CASE UNCHANGED vars
  BY <1>4 DEF vars, data, SeenEmpty, Starting, Arms
<1> QED
  BY <1>1, <1>2, <1>3, <1>4 DEF Next

\* With one connection to the UI, whatever overlaps with the watchdog and the warm-up, a
\* session in the slot is taken before another is put there: the check of a start and the
\* install of its session are steps apart, and only a start of another connection fits in.
THEOREM OneConnectionNeverReplaces ==
  ASSUME \A c, d \in Client : c = d
  PROVE  Spec => NeverReplaced
<1>1. TypeInv /\ SeenEmpty /\ [Next]_vars => TypeInv' /\ SeenEmpty'
  BY SeenEmptyNext, TypeInvNext
<1>2. Init => TypeInv /\ SeenEmpty
  BY TypeInvInit, ThreadFacts DEF Init, InitWith, SeenEmpty, Starting
<1>3. TypeInv /\ SeenEmpty /\ [Next]_vars
        => [session # None /\ session' # None => session'.id = session.id]_vars
  <2> SUFFICES ASSUME TypeInv, SeenEmpty, Next, session # None, session' # None
               PROVE  session'.id = session.id
    OBVIOUS
  <2>1. ASSUME NEW c \in Client, Request(c) \/ Handle(c) PROVE session'.id = session.id
    <3>1. ~ Install(c)
      BY DEF SeenEmpty, Starting, Install, At
    <3>2. CASE Snapshot(c)
      BY <3>2 DEF Snapshot, SnapshotAt, Refreshed, TypeInv, TypeOK, DataOK, LiveSession
    <3>3. CASE ~ Snapshot(c)
      BY <2>1, <3>1, <3>3 DEF Request, Handle, StartOrRestore, Finish, CheckSession, GetInterrupted,
         ListSites, ClearBeforeApply, ApplyOne, SetActive, ForgetSummary, SetLiveCheckpoint,
         Unpark, TakeSession, ClearLiveCheckpoint, Record, Publish, ClearInterrupted,
         NoteUiPid, TouchUi, Pop, RejectIfSession, SetEnabled, ClearHistory,
         ClearNetwork, ClearActive, data
    <3> QED
      BY <3>2, <3>3
  <2>2. CASE WatchdogStep \/ WarmStep
    BY <2>2 DEF WatchdogStep, WarmStep, WatchPid, WatchBeat, SeeSession, SeeActive, SeeArmed, Look,
       Park, ForgetPid, ForgetBeat, DropSummary, DropCheckpoint, SetInterrupted, ClearNetwork,
       ClearActive, WarmCheck, ReadCheckpoint, DeleteCheckpoint, data
  <2>3. CASE Environment
    BY <2>3 DEF Environment, UiLaunch, UiExit, HeartbeatLapses, ServiceEnds, ServiceStarts
  <2> QED
    BY <2>1, <2>2, <2>3 DEF Next
<1> QED
  BY <1>1, <1>2, <1>3, PTL DEF Spec, NeverReplaced

=============================================================================
