----------------------------- MODULE UiCubitProofs -----------------------------
(***************************************************************************)
(* Proofs about UiCubit, for any pulls, sessions, time-outs and restarts.  *)
(***************************************************************************)
EXTENDS UiCubit, TLAPS

Value == Sessions \cup {None}

At == {"idle", "pull", "pop", "act", "end", "restore", "discard", "health", "session", "offer"}

Party == Task \cup {Lost}

\* A method that is not idle awaits a call; what the service works on is no error, and a
\* call that nobody waits for is in the service's hands.
Calls(a, c) ==
  /\ a \in [Task -> At] /\ c \in [Party -> Call \cup {None}]
  /\ \A x \in Party : c[x] # None /\ c[x].stage # "done" => c[x].val \in Value
  /\ \A t \in Task : a[t] = "idle" <=> c[t] = None

CubitOK   == session \in Value /\ interrupted \in Value /\ shown \subseteq Sessions
LocalsOK  == summary \in Value /\ read \in Value \cup {Error}
ServiceOK == live \in Value /\ pending \in Value /\ offer \in Value /\ over \in BOOLEAN

CallInv == CubitOK /\ LocalsOK /\ ServiceOK /\ starts \in 0 .. MaxStarts /\ Calls(at, call)

-----------------------------------------------------------------------------
(* What happens to a call *)

LEMMA CallOf ==
  ASSUME CallInv, NEW x \in Party, call[x] # None
  PROVE  call[x] \in Call /\ (call[x].stage # "done" => call[x].val \in Value)
BY DEF CallInv, Calls

\* The service goes on with a call, or answers it.
LEMMA StageKeeps ==
  ASSUME CallInv, NEW x \in Party, call[x] # None, NEW stage, NEW val, Stage(x, stage, val),
         stage \in {"install", "publish", "pop", "done"},
         val \in Value \/ (stage = "done" /\ val = Error), UNCHANGED at
  PROVE  Calls(at, call)'
<1> DEFINE new == [call[x] EXCEPT !.stage = stage, !.val = val]
<1>1. call[x] \in Call
  BY CallOf
<1>2. new \in Call /\ new.stage = stage /\ new.val = val
  BY <1>1 DEF Call, Value
<1>3. call' = [call EXCEPT ![x] = new]
  BY DEF Stage
<1> HIDE DEF new
<1> QED
  BY <1>2, <1>3, NoneType DEF CallInv, Calls

LEMMA AnswerKeeps ==
  ASSUME CallInv, NEW x \in Party, call[x] # None, NEW val \in Value \cup {Error}, Answer(x, val),
         UNCHANGED at
  PROVE  Calls(at, call)'
<1>1. CASE x = Lost
  <2>1. call' = [call EXCEPT ![Lost] = None] /\ \A t \in Task : t # Lost /\ t \in Party
    BY <1>1, TasksDistinct DEF Answer, Party
  <2>2. \A y \in Party : call'[y] = IF y = Lost THEN None ELSE call[y]
    BY <1>1, <2>1 DEF CallInv, Calls
  <2> QED
    BY <2>1, <2>2 DEF CallInv, Calls
<1>2. CASE x # Lost
  BY <1>2, StageKeeps DEF Answer
<1> QED
  BY <1>1, <1>2

\* A method sends its next call.
LEMMA SendKeeps ==
  ASSUME CallInv, NEW t \in Task, NEW label \in At \ {"idle"}, NEW op \in Ops, NEW val \in Value,
         at' = [at EXCEPT ![t] = label], SendFor(t, op, val)
  PROVE  Calls(at, call)'
<1> DEFINE new == [op |-> op, stage |-> "sent", val |-> val]
<1>1. new \in Call /\ new.val = val
  BY DEF Call, Value
<1>2. call' = [call EXCEPT ![t] = new]
  BY DEF SendFor
<1> HIDE DEF new
<1> QED
  BY <1>1, <1>2, NoneType DEF CallInv, Calls, Party

LEMMA AwaitKeeps ==
  ASSUME CallInv, NEW t \in Task, NEW label \in At \ {"idle"}, NEW op \in Ops, Await(t, label, op)
  PROVE  Calls(at, call)'
BY SendKeeps DEF Await, Send, Value

LEMMA ReturnKeeps ==
  ASSUME CallInv, NEW t \in Task, Return(t)
  PROVE  Calls(at, call)'
BY TasksDistinct DEF Return, CallInv, Calls, Party, At

-----------------------------------------------------------------------------
(* The invariant holds at first and is kept by every step *)

LEMMA CallInit == Init => CallInv
<1> SUFFICES ASSUME Init PROVE CallInv
  OBVIOUS
<1>1. Calls(at, call)
  <2>1. at = [t \in Task |-> "idle"] /\ call = [x \in Party |-> None] /\ Task \subseteq Party
    BY DEF Init, Party
  <2>2. "idle" \in At
    BY DEF At
  <2> QED
    BY <2>1, <2>2 DEF Calls
<1>2. starts \in 0 .. MaxStarts
  BY BoundsType DEF Init
<1> QED
  BY <1>1, <1>2 DEF Init, CallInv, CubitOK, LocalsOK, ServiceOK, Value

LEMMA ServeKeeps ==
  ASSUME CallInv, NEW x \in Party, Serve(x)
  PROVE  CallInv'
<1> SUFFICES ServiceOK' /\ Calls(at, call)'
  <2>1. UNCHANGED <<cubit, locals, bounds>>
    BY DEF Serve, Get, End, Publish, PopOwn, Pop, Check, Install, Discard, Look, ServiceOnly
  <2> QED
    BY <2>1 DEF CallInv, CubitOK, LocalsOK, cubit, locals, bounds
<1>0. UNCHANGED at /\ call[x] # None
  BY DEF Serve, Get, End, Publish, PopOwn, Pop, Check, Install, Discard, Look, ServiceOnly, In, locals
<1>1. ServiceOK /\ None \in Value /\ call[x] \in Call /\ (call[x].stage # "done" => call[x].val \in Value)
  BY <1>0, CallOf DEF CallInv, Value
<1>2. CASE Get(x)
  <2>1. (\E val \in Value : Answer(x, val)) \/ Stage(x, "publish", live)
    BY <1>1, <1>2 DEF Get, ServiceOK
  <2> QED
    BY <1>0, <1>1, <1>2, <2>1, AnswerKeeps, StageKeeps DEF Get, ServiceOK
<1>3. CASE End(x)
  BY <1>0, <1>1, <1>3, StageKeeps DEF End, ServiceOK
<1>4. CASE Publish(x)
  BY <1>0, <1>1, <1>4, AnswerKeeps, StageKeeps DEF Publish, ServiceOK
<1>5. CASE PopOwn(x)
  BY <1>0, <1>1, <1>5, AnswerKeeps DEF PopOwn, ServiceOK, In
<1>6. CASE Pop(x)
  BY <1>0, <1>1, <1>6, AnswerKeeps DEF Pop, ServiceOK
<1>7. CASE Check(x)
  BY <1>0, <1>1, <1>7, AnswerKeeps, StageKeeps DEF Check, ServiceOK, In
<1>8. CASE Install(x)
  BY <1>0, <1>1, <1>8, AnswerKeeps DEF Install, ServiceOK
<1>9. CASE Discard(x)
  BY <1>0, <1>1, <1>9, AnswerKeeps DEF Discard, ServiceOK
<1>10. CASE Look(x)
  BY <1>0, <1>1, <1>10, AnswerKeeps DEF Look, ServiceOK, service
<1> QED
  BY <1>2, <1>3, <1>4, <1>5, <1>6, <1>7, <1>8, <1>9, <1>10 DEF Serve

LEMMA TimesOutKeeps ==
  ASSUME CallInv, NEW t \in Task, TimesOut(t)
  PROVE  CallInv'
<1> DEFINE old == call[t]
           new == [old EXCEPT !.stage = "done", !.val = Error]
<1>1. t # Lost /\ t \in Party /\ Lost \in Party /\ old # None /\ old.stage # "done"
  BY TasksDistinct DEF TimesOut, Party
<1>2. old \in Call /\ old.val \in Value /\ new \in Call /\ new.stage = "done"
  BY <1>1, CallOf DEF Call
<1>3. \A x \in Party : call'[x] = IF x = Lost THEN old ELSE IF x = t THEN new ELSE call[x]
  BY <1>1 DEF TimesOut, CallInv, Calls
<1>4. call' \in [Party -> Call \cup {None}]
  <2>1. call' \in [Party -> {call'[x] : x \in Party}]
    BY DEF TimesOut, CallInv, Calls
  <2> HIDE DEF old, new
  <2> QED
    BY <1>2, <1>3, <2>1 DEF CallInv, Calls
<1>5. Calls(at, call)'
  <2>1. UNCHANGED at /\ \A u \in Task : u \in Party /\ u # Lost
    BY TasksDistinct DEF TimesOut, locals, Party
  <2>2. new # None
    BY <1>2, NoneType
  <2>3. \A u \in Task : call'[u] = None <=> call[u] = None
    <3> HIDE DEF new
    <3> QED
      BY <1>1, <1>3, <2>1, <2>2
  <2>4. ASSUME NEW x \in Party, call'[x] # None, call'[x].stage # "done"
        PROVE  call'[x].val \in Value
    <3> HIDE DEF old, new
    <3> QED
      BY <1>2, <1>3, <2>4 DEF CallInv, Calls
  <2> QED
    BY <1>4, <2>1, <2>3, <2>4 DEF CallInv, Calls
<1> QED
  BY <1>5 DEF TimesOut, CallInv, CubitOK, LocalsOK, ServiceOK, cubit, locals, service

LEMMA RestartKeeps ==
  ASSUME CallInv, ServiceRestarts
  PROVE  CallInv'
<1> DEFINE failed(x) == [call[x] EXCEPT !.stage = "done", !.val = Error]
<1>1. call' = [x \in Party |-> IF x = Lost \/ call[x] = None THEN None
                              ELSE IF call[x].stage = "done" THEN call[x] ELSE failed(x)]
  BY DEF ServiceRestarts, Party
<1>2. ASSUME NEW x \in Party, call[x] # None
      PROVE  failed(x) \in Call /\ failed(x).stage = "done" /\ failed(x) # None
  <2>1. call[x] \in Call
    BY <1>2, CallOf
  <2>2. failed(x) \in Call /\ failed(x).stage = "done"
    BY <2>1 DEF Call
  <2> QED
    BY <2>2, NoneType
<1> HIDE DEF failed
<1>3. Calls(at, call)'
  <2>1. UNCHANGED at /\ \A u \in Task : u \in Party /\ u # Lost
    BY TasksDistinct DEF ServiceRestarts, locals, Party
  <2> QED
    BY <1>1, <1>2, <2>1 DEF CallInv, Calls
<1>4. ServiceOK'
  BY DEF ServiceRestarts, CallInv, ServiceOK, Value
<1> QED
  BY <1>3, <1>4 DEF ServiceRestarts, CallInv, CubitOK, LocalsOK, cubit, locals

\* A summary is shown unless there is none.
LEMMA ShowKeeps ==
  ASSUME CallInv, NEW s \in Value \cup {Error}, Show(s)
  PROVE  shown' \subseteq Sessions
BY DEF Show, CallInv, CubitOK, Value

LEMMA PullKeeps ==
  ASSUME CallInv, NEW t \in Pull, Tick(t) \/ Pulled(t) \/ Popped(t)
  PROVE  CallInv'
<1> SUFFICES CubitOK' /\ Calls(at, call)'
  BY DEF Tick, Pulled, Popped, UiOnly, CallInv, LocalsOK, ServiceOK, service, bounds
<1>0. t \in Task /\ {"pull", "pop"} \subseteq At \ {"idle"} /\ {"get_session", "pop_session_summary"} \subseteq Ops
  BY DEF Task, At, Ops
<1>1. CASE Tick(t)
  BY <1>0, <1>1, AwaitKeeps DEF Tick, cubit, CallInv, CubitOK
<1>2. ASSUME Done(t, "pull") \/ Done(t, "pop") PROVE call[t].val \in Value \cup {Error}
  <2>1. call[t] # None /\ t \in Party
    BY <1>0, <1>2 DEF Done, CallInv, Calls, Party
  <2> QED
    BY <2>1, CallOf DEF Call, Value
<1>3. CASE Pulled(t)
  <2>1. Calls(at, call)'
    BY <1>0, <1>3, AwaitKeeps, ReturnKeeps DEF Pulled
  <2> QED
    BY <1>2, <1>3, <2>1 DEF Pulled, CallInv, CubitOK
<1>4. CASE Popped(t)
  BY <1>0, <1>2, <1>4, ReturnKeeps, ShowKeeps DEF Popped, CallInv, CubitOK
<1> QED
  BY <1>1, <1>3, <1>4

\* What the user does: the first call of a method.
LEMMA UserKeeps ==
  ASSUME CallInv, UserStarts \/ UserEnds \/ UserRestores \/ UserDiscards \/ UserActs
  PROVE  CallInv'
<1>1. User \in Task /\ {"act", "end", "restore", "discard", "health"} \subseteq At \ {"idle"}
        /\ {"start_session", "end_session", "restore_interrupted_session", "discard_interrupted_session",
            "health"} \subseteq Ops
  BY DEF Task, At, Ops
<1>2. CASE UserStarts
  <2>1. starts' \in 0 .. MaxStarts /\ starts' \in Value
    BY <1>2, BoundsType DEF UserStarts, CallInv, Value, Sessions
  <2>2. Calls(at, call)'
    BY <1>1, <1>2, <2>1, SendKeeps DEF UserStarts
  <2> QED
    BY <1>2, <2>1, <2>2 DEF UserStarts, CallInv, CubitOK, LocalsOK, ServiceOK, cubit, service
<1>3. CASE UserEnds
  <2>1. Calls(at, call)'
    BY <1>1, <1>3, AwaitKeeps DEF UserEnds
  <2> QED
    BY <1>3, <2>1 DEF UserEnds, UiOnly, CallInv, CubitOK, LocalsOK, ServiceOK, service, bounds, Value
<1>4. CASE UserRestores \/ UserDiscards \/ UserActs
  <2>1. Calls(at, call)'
    BY <1>1, <1>4, AwaitKeeps DEF UserRestores, UserDiscards, UserActs
  <2> QED
    BY <1>4, <2>1 DEF UserRestores, UserDiscards, UserActs, UiOnly, CallInv, CubitOK, LocalsOK, ServiceOK,
       cubit, service, bounds
<1> QED
  BY <1>2, <1>3, <1>4

\* What the user's methods do with the answers.
LEMMA GoesOnKeeps ==
  ASSUME CallInv, UserGoesOn
  PROVE  CallInv'
<1> DEFINE answer == call[User].val
<1> USE DEF UiOnly
<1>1. User \in Task /\ {"health", "session", "offer"} \subseteq At \ {"idle"}
        /\ {"health", "get_session", "get_interrupted_session"} \subseteq Ops
  BY DEF Task, At, Ops
<1>2. answer \in Value \cup {Error}
  <2>1. call[User] # None /\ User \in Party
    BY <1>1 DEF UserGoesOn, Acted, Ended, Restored, Discarded, Refreshes, ReadSession, Refreshed, Done,
       CallInv, Calls, Party
  <2> QED
    BY <2>1, CallOf DEF Call, Value
<1>3. None \in Value /\ summary \in Value \cup {Error}
  BY DEF Value, CallInv, LocalsOK
<1>4. Calls(at, call)'
  BY <1>1, AwaitKeeps, ReturnKeeps
     DEF UserGoesOn, Acted, Ended, Restored, Discarded, Refreshes, ReadSession, Refreshed, Leave
<1> HIDE DEF answer
<1>5. CubitOK' /\ LocalsOK'
  <2>1. CASE Acted
    BY <2>1 DEF Acted, cubit, CallInv, CubitOK, LocalsOK
  <2>2. CASE Ended
    BY <1>2, <1>3, <2>2 DEF Ended, cubit, CallInv, CubitOK, LocalsOK, answer
  <2>3. CASE Restored \/ Discarded
    BY <1>3, <2>3 DEF Restored, Discarded, CallInv, CubitOK, LocalsOK
  <2>4. CASE Refreshes
    BY <1>3, <2>4, ShowKeeps DEF Refreshes, Leave, CallInv, CubitOK, LocalsOK
  <2>5. CASE ReadSession
    BY <1>2, <2>5 DEF ReadSession, cubit, CallInv, CubitOK, LocalsOK, answer
  <2>6. CASE Refreshed
    BY <1>2, <1>3, <2>6, ShowKeeps DEF Refreshed, Leave, CallInv, CubitOK, LocalsOK, answer
  <2> QED
    BY <2>1, <2>2, <2>3, <2>4, <2>5, <2>6 DEF UserGoesOn
<1>6. UNCHANGED <<service, starts>>
  BY DEF UserGoesOn, Acted, Ended, Restored, Discarded, Refreshes, ReadSession, Refreshed, bounds
<1> QED
  BY <1>4, <1>5, <1>6 DEF CallInv, ServiceOK, service

LEMMA CallNext == CallInv /\ [Next]_vars => CallInv'
<1> SUFFICES ASSUME CallInv, [Next]_vars PROVE CallInv'
  OBVIOUS
<1>1. CASE TimeIsUp
  BY <1>1 DEF TimeIsUp, CallInv, CubitOK, LocalsOK, ServiceOK, cubit, locals, bounds
<1>2. CASE UNCHANGED vars
  BY <1>2 DEF vars, cubit, locals, service, bounds, CallInv, CubitOK, LocalsOK, ServiceOK
<1>3. ASSUME NEW x \in Task \cup {Lost}, Serve(x) PROVE CallInv'
  BY <1>3, ServeKeeps DEF Party
<1> QED
  BY <1>1, <1>2, <1>3, PullKeeps, TimesOutKeeps, UserKeeps, GoesOnKeeps, RestartKeeps DEF Next

\* The cubit, its methods, the calls and the service keep their types: however answers,
\* time-outs and restarts interleave, no error gets into the state of the UI, and a method
\* has a call exactly while it is under way.
THEOREM CubitTyped == Spec => []TypeOK
<1>1. CallInv => TypeOK
  BY DEF CallInv, CubitOK, LocalsOK, ServiceOK, Calls, TypeOK, Value, At, Party
<1> QED
  BY <1>1, CallInit, CallNext, PTL DEF Spec

=============================================================================
