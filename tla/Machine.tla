------------------------------- MODULE Machine -------------------------------
(***************************************************************************)
(* The engines that may run on one machine, and the hosts file they share. *)
(*                                                                         *)
(* An engine lives in a service process (at_shield_service/src/main.rs),   *)
(* started by the service manager or from a console, in the UI process     *)
(* (at_shield_ffi/src/lib.rs), or is the short run of --nuke.  Each of     *)
(* them rewrites the hosts file (at_shield_windows/src/hosts.rs) under a   *)
(* lock of its own filter, which no other process sees: it reads the file, *)
(* truncates it and writes it.                                             *)
(*                                                                         *)
(* Abstractions.  The file is a sequence of lines: those of the user, the  *)
(* markers, one entry for all of a session's, and a line that was cut off. *)
(* The several rewrites of a session's start are one, and so are the two   *)
(* of a drop (the engine's and the filter's).  What the threads of one     *)
(* engine do to each other is the subject of Engine, routes, WFP filters   *)
(* and a rewrite that fails that of WindowsFilter.                         *)
(***************************************************************************)
EXTENDS Naturals, Sequences

CONSTANTS
  Scm,       \* runs of at-shield-service by the service manager
  Console,   \* runs of at-shield-service --console
  Ffi,       \* engines at_shield_engine_start builds in the UI process
  Tool,      \* runs of at-shield-service --nuke
  None,
  UserLines  \* lines the user may add to the file (bounds the length of the file)

Service  == Scm \cup Console
Instance == Service \cup Ffi \cup Tool

Begin == "# BEGIN AT_SHIELD"
End   == "# END AT_SHIELD"
Entry == "127.0.0.2 x.com"
Cut   == "# BEG"
Lines == {Begin, End, Entry, Cut} \cup UserLines

ASSUME KindsDistinct ==
  /\ Scm \cap Console = {} /\ Service \cap (Ffi \cup Tool) = {} /\ Ffi \cap Tool = {}
  /\ None \notin Instance
  /\ {Begin, End, Entry, Cut} \cap UserLines = {}

VARIABLES
  lines,    \* the hosts file
  life,     \* of each instance: not yet there, up, stopped while a thread still holds it, gone
  todo,     \* what the threads of each instance are about to do
  job,      \* the rewrite each instance is in, under the lock of its filter
  session,  \* does the engine have a session
  port,     \* the instance that listens on 127.0.0.1:47830
  slot,     \* the engine in the UI process' ENGINE
  users,    \* history: the lines the user has added, in order
  raced,    \* history: a rewrite overlapped with another writer
  torn,     \* history: a rewrite was cut off
  died      \* history: a process ended since the last complete rewrite

engines == <<life, todo, session, port, slot>>
history == <<raced, torn, died>>
vars    == <<lines, job, users, engines, history>>

-----------------------------------------------------------------------------
(* hosts::rewrite *)

NoJob   == [at |-> "idle", why |-> "none", out |-> <<>>]
Idle(i) == job[i] = NoJob

\* The lines of ls at the places K, in their order.
Kept(ls, K) ==
  LET kept[n \in 0 .. Len(ls)] ==
        IF n = 0 THEN <<>>
        ELSE IF n \in K THEN Append(kept[n - 1], ls[n]) ELSE kept[n - 1]
  IN kept[Len(ls)]

\* Where the loop does not skip: on no marker, and on no line with a begin before it and
\* no end between them.  A block with no end goes on to the end of the file.
Outside(ls) ==
  {n \in 1 .. Len(ls) :
     /\ ls[n] \notin {Begin, End}
     /\ \A b \in 1 .. n : ls[b] = Begin => \E e \in b .. n : ls[e] = End}

\* Mutant: the end marker is dropped like any other line of the block.
StripToEnd(ls) == Kept(ls, {n \in 1 .. Len(ls) : \A b \in 1 .. n : ls[b] # Begin})

\* The file without our block.
Strip(ls) == Kept(ls, Outside(ls))

Block(why) == IF why = "start" THEN <<Begin, Entry, End>> ELSE <<>>

\* Mutant: the new block is added to the old one.
Appended(ls, why) == ls \o Block(why)

Rewritten(ls, why) == Strip(ls) \o Block(why)

Read(i, why) ==
  /\ why \in todo[i] /\ why # "bind"
  /\ Idle(i)
  /\ job' = [job EXCEPT ![i] = [at |-> "read", why |-> why, out |-> Rewritten(lines, why)]]
  /\ raced' = (raced \/ \E j \in Instance : ~ Idle(j))
  /\ UNCHANGED <<lines, users, engines, torn, died>>

Truncate(i) ==
  /\ job[i].at = "read"
  /\ job' = [job EXCEPT ![i].at = "truncated"]
  /\ lines' = <<>>
  /\ UNCHANGED <<users, engines, history>>

\* What another writer put beyond the end of ours stays.
Over(out) == out \o SubSeq(lines, Len(out) + 1, Len(lines))

\* The write completes, and with it what it was for.  The warm-up thread of an engine
\* that was stopped meanwhile holds the last reference, and drops it.
Write(i) ==
  /\ job[i].at = "truncated"
  /\ LET why  == job[i].why
         last == why \in {"drop", "nuke"}
     IN
     /\ todo' = [todo EXCEPT ![i] = IF why = "warm" /\ life[i] = "stopped" THEN {"drop"}
                                    ELSE @ \ {why}]
     /\ session' = [session EXCEPT ![i] = why = "start" \/ (@ /\ ~ last)]
     /\ life' = [life EXCEPT ![i] = IF last THEN "gone" ELSE @]
     /\ slot' = IF last /\ slot = i THEN None ELSE slot
  /\ lines' = Over(job[i].out)
  /\ job' = [job EXCEPT ![i] = NoJob]
  /\ died' = FALSE
  /\ UNCHANGED <<users, port, raced, torn>>

\* What a write that was cut off leaves: some lines, and perhaps a part of the next.
CutOff(out) ==
  LET whole == {SubSeq(out, 1, n) : n \in 0 .. Len(out) - 1} \cup {out}
  IN whole \cup {Append(p, Cut) : p \in whole \ {out}}

-----------------------------------------------------------------------------
(* Processes and engines *)

\* The process of the instances in `dead` ends, whatever their threads are doing: no
\* destructor runs, the port is free again.
Die(dead) ==
  /\ life' = [i \in Instance |-> IF i \in dead THEN "gone" ELSE life[i]]
  /\ todo' = [i \in Instance |-> IF i \in dead THEN {} ELSE todo[i]]
  /\ session' = [i \in Instance |-> i \notin dead /\ session[i]]
  /\ job' = [i \in Instance |-> IF i \in dead THEN NoJob ELSE job[i]]
  /\ port' = IF port \in dead THEN None ELSE port
  /\ slot' = IF slot \in dead THEN None ELSE slot
  /\ LET cut == {i \in dead : job[i].at = "truncated"} IN
     /\ torn' = (torn \/ cut # {})
     /\ \/ cut = {} /\ UNCHANGED lines
        \/ \E i \in cut : \E out \in CutOff(job[i].out) : lines' = Over(out)
  /\ died' = TRUE
  /\ UNCHANGED <<users, raced>>

Alive(i) == life[i] \in {"up", "stopped"}

Launch(i, tasks) ==
  /\ life[i] = "new"
  /\ life' = [life EXCEPT ![i] = "up"]
  /\ todo' = [todo EXCEPT ![i] = tasks]
  /\ UNCHANGED <<lines, job, users, session, port, history>>

\* run_console, service_main: a warm-up thread is spawned, then the port is bound.  The
\* service manager runs one of its service at a time.
LaunchService(i) ==
  /\ i \in Scm => \A j \in Scm : ~ Alive(j)
  /\ Launch(i, {"warm", "bind"})
  /\ UNCHANGED slot

Nuke(i) == Launch(i, {"nuke"}) /\ UNCHANGED slot

Bind(i) ==
  /\ "bind" \in todo[i]
  /\ port = None
  /\ port' = i
  /\ todo' = [todo EXCEPT ![i] = @ \ {"bind"}]
  /\ UNCHANGED <<lines, job, users, life, session, slot, history>>

\* The port is taken.  The console run exits, with its warm-up thread wherever it is; the
\* service ignores the error and runs on with no IPC.
BindFails(i) ==
  /\ "bind" \in todo[i]
  /\ port # None
  /\ \/ i \in Console /\ Die({i})
     \/ /\ i \in Scm
        /\ todo' = [todo EXCEPT ![i] = @ \ {"bind"}]
        /\ UNCHANGED <<lines, job, users, life, session, port, slot, history>>

\* A kill, a crash, or a stop by the service manager: service_main returns while the
\* watchdog thread still holds the engine, so that nothing drops it.
ServiceEnds(i) == i \in Service /\ life[i] = "up" /\ Die({i})

NukeEnds(i) == i \in Tool /\ life[i] = "up" /\ Die({i})

UiEnds == /\ \E i \in Ffi : Alive(i)
          /\ Die({i \in Ffi : Alive(i)})

\* at_shield_engine_start, and at_shield_rpc when there is no engine.
EngineStart(i) ==
  /\ slot = None
  /\ Launch(i, {"warm"})
  /\ slot' = i

\* Mutant: the engine is forgotten, and nothing clears what it has armed.
Forget(i) ==
  /\ slot = i /\ todo[i] \subseteq {"warm"}
  /\ slot' = None
  /\ life' = [life EXCEPT ![i] = "gone"]
  /\ todo' = [todo EXCEPT ![i] = {}]
  /\ session' = [session EXCEPT ![i] = FALSE]
  /\ job' = [job EXCEPT ![i] = NoJob]
  /\ UNCHANGED <<lines, users, port, history>>

\* at_shield_engine_stop waits for the call in progress, which holds ENGINE.  It drops the
\* engine before it lets go of ENGINE, unless the warm-up thread still holds it.
EngineStop(i) ==
  /\ slot = i /\ life[i] = "up" /\ todo[i] \subseteq {"warm"}
  /\ life' = [life EXCEPT ![i] = "stopped"]
  /\ IF todo[i] = {}
     THEN todo' = [todo EXCEPT ![i] = {"drop"}] /\ UNCHANGED slot
     ELSE slot' = None /\ UNCHANGED todo
  /\ UNCHANGED <<lines, job, users, session, port, history>>

-----------------------------------------------------------------------------
(* What the UI and the timers have an engine do *)

\* A request reaches an engine through the port, or through ENGINE, one at a time.
Reached(i) == port = i \/ (slot = i /\ life[i] = "up" /\ todo[i] \subseteq {"warm"})

StartSession(i) ==
  /\ Reached(i)
  /\ ~ session[i] /\ "start" \notin todo[i]
  /\ todo' = [todo EXCEPT ![i] = @ \cup {"start"}]
  /\ UNCHANGED <<lines, job, users, life, session, port, slot, history>>

\* The session is taken before the network is cleared.  In a service the watchdog may
\* do this too: it needs no port.
EndSession(i) ==
  /\ session[i] /\ "end" \notin todo[i]
  /\ i \in Ffi => Reached(i)
  /\ session' = [session EXCEPT ![i] = FALSE]
  /\ todo' = [todo EXCEPT ![i] = @ \cup {"end"}]
  /\ UNCHANGED <<lines, job, users, life, port, slot, history>>

\* The user, or another program, adds a line.
UserAppends(u) ==
  /\ \A n \in 1 .. Len(users) : users[n] # u
  /\ users' = Append(users, u)
  /\ lines' = Append(lines, u)
  /\ raced' = (raced \/ \E i \in Instance : ~ Idle(i))
  /\ UNCHANGED <<job, engines, torn, died>>

-----------------------------------------------------------------------------

Init ==
  /\ lines = <<>> /\ users = <<>>
  /\ life = [i \in Instance |-> "new"]
  /\ todo = [i \in Instance |-> {}]
  /\ job = [i \in Instance |-> NoJob]
  /\ session = [i \in Instance |-> FALSE]
  /\ port = None /\ slot = None
  /\ raced = FALSE /\ torn = FALSE /\ died = FALSE

Next ==
  \/ \E i \in Service : LaunchService(i) \/ Bind(i) \/ BindFails(i) \/ ServiceEnds(i)
  \/ \E i \in Tool : Nuke(i) \/ NukeEnds(i)
  \/ \E i \in Ffi : EngineStart(i) \/ EngineStop(i)
  \/ UiEnds
  \/ \E i \in Instance :
       \/ \E why \in todo[i] : Read(i, why)
       \/ Truncate(i) \/ Write(i)
       \/ StartSession(i) \/ EndSession(i)
  \/ \E u \in UserLines : UserAppends(u)

Spec == Init /\ [][Next]_vars

-----------------------------------------------------------------------------
(* Properties *)

\* The places of the line l in the file.
Places(l) == {n \in 1 .. Len(lines) : lines[n] = l}

\* At most one block of ours, cut off or not.
OneBlock ==
  /\ \A l \in {Begin, Entry, End} : \A m, n \in Places(l) : m = n
  /\ Places(End) # {} => Places(Begin) # {}

\* The variables have their types, and as long as no two rewrites overlapped the file has
\* at most one block of ours, cut off or not (hosts.rs rewrite).
TypeOK ==
  /\ lines \in Seq(Lines)
  /\ users \in Seq(UserLines)
  /\ life \in [Instance -> {"new", "up", "stopped", "gone"}]
  /\ \A i \in Instance : todo[i] \subseteq {"warm", "bind", "start", "end", "drop", "nuke"}
  /\ \A i \in Instance : ~ Idle(i) =>
       job[i].at \in {"read", "truncated"} /\ job[i].why \in todo[i]
  /\ session \in [Instance -> BOOLEAN]
  /\ port \in Service \cup {None} /\ slot \in Ffi \cup {None}
  /\ {raced, torn, died} \subseteq BOOLEAN
  /\ raced \/ OneBlock

\* The user's lines of ls.
OfUser(ls) == Kept(ls, {n \in 1 .. Len(ls) : ls[n] \in UserLines})

\* Between two rewrites, the file has every line the user added, in their order, whatever
\* sessions came and went, as long as no rewrite met another writer or was cut off
\* (hosts.rs rewrite: a block with no end swallows what the user adds after it).
UserLinesKept ==
  ~ raced /\ ~ torn /\ (\A i \in Instance : job[i].at # "truncated")
    => OfUser(lines) = users

\* Our block is in the file only while some engine has a session or is about to rewrite
\* the file, unless a process was killed since: stopping the UI's engine, ending a session
\* and --nuke leave nothing behind (engine.rs Drop, ffi lib.rs at_shield_engine_stop).
EntriesHaveOwner ==
  ~ raced /\ ~ died /\ Places(Begin) # {}
    => \E i \in Instance : session[i] \/ todo[i] \ {"bind"} # {}
=============================================================================
