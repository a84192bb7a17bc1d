--------------------------- MODULE RuleStoreProofs ---------------------------
(***************************************************************************)
(* Proofs about RuleStore, for any profiles, domains, connections, old     *)
(* databases and ends of the service: no edit, seeding or migration, cut   *)
(* off or overlapping, leaves a row without its profile, and no request is *)
(* served without the built-in profiles.  The last part is about what the  *)
(* requests keep as long as none overlaps another or the migration: one    *)
(* row per domain, normal domains, aliases together.                       *)
(***************************************************************************)
EXTENDS RuleStore, Integers, SequenceTheorems, WellFoundedInduction, TLAPS

-----------------------------------------------------------------------------
(* Domains: what normalize_domain returns, for every sequence of parts *)

LEMMA Least ==
  ASSUME NEW T, T \subseteq Nat, T # {}
  PROVE  \E n \in T : \A m \in T : n <= m
<1>1. \E x \in T : \A y \in T : ~ (<<y, x>> \in OpToRel(<, Nat))
  BY NatLessThanWellFounded, WFMin
<1>2. PICK x \in T : \A y \in T : ~ (<<y, x>> \in OpToRel(<, Nat))
  BY <1>1
<1>3. ASSUME NEW y \in T PROVE ~ (y < x)
  BY <1>2 DEF OpToRel
<1> QED
  BY <1>3

Parts == Seq(STRING)

\* A stretch of a sequence of parts is one, and has no parts of its own.
LEMMA Stretch ==
  ASSUME NEW d \in Parts, NEW m \in 1 .. Len(d) + 1, NEW n \in 0 .. Len(d)
  PROVE  /\ SubSeq(d, m, n) \in Parts
         /\ Len(SubSeq(d, m, n)) = IF m <= n THEN n - m + 1 ELSE 0
         /\ \A i \in 1 .. Len(SubSeq(d, m, n)) : SubSeq(d, m, n)[i] = d[m + i - 1]
<1>1. Len(d) \in Nat /\ \A i \in 1 .. Len(d) : d[i] \in STRING
  BY DEF Parts
<1>2. \A i \in m .. n : d[i] \in STRING
  BY <1>1
<1> QED
  BY <1>1, <1>2, SubSeqProperties DEF Parts

LEMMA BeforeStops ==
  ASSUME NEW d \in Parts, NEW marks
  PROVE  /\ Before(d, marks) \in Parts
         /\ \A i \in 1 .. Len(Before(d, marks)) : Before(d, marks)[i] \notin marks
<1> DEFINE halts(n) == (\A i \in 1 .. n : d[i] \notin marks) /\ (n = Len(d) \/ d[n + 1] \in marks)
           T == {n \in 0 .. Len(d) : n = Len(d) \/ d[n + 1] \in marks}
           cut == CHOOSE n \in 0 .. Len(d) : halts(n)
<1>0. Len(d) \in Nat
  BY DEF Parts
<1>1. T \subseteq Nat /\ Len(d) \in T
  BY <1>0
<1>2. PICK n \in T : \A m \in T : n <= m
  BY <1>1, Least
<1>3. \A i \in 1 .. n : d[i] \notin marks
  <2> SUFFICES ASSUME NEW i \in 1 .. n, d[i] \in marks PROVE FALSE
    OBVIOUS
  <2>1. i - 1 \in 0 .. Len(d) /\ (i - 1) + 1 = i
    BY <1>0
  <2>2. i - 1 \in T
    BY <2>1
  <2>3. n <= i - 1
    BY <1>2, <2>2
  <2>4. n \in 0 .. Len(d)
    OBVIOUS
  <2> HIDE DEF T
  <2> QED
    BY <1>0, <2>3, <2>4
<1>4. n \in 0 .. Len(d) /\ halts(n)
  BY <1>3
<1>5. cut \in 0 .. Len(d) /\ halts(cut)
  BY <1>4
<1>6. Before(d, marks) = SubSeq(d, 1, cut)
  BY DEF Before
<1> HIDE DEF cut
<1>7. 1 \in 1 .. Len(d) + 1
  BY <1>0
<1> QED
  BY <1>0, <1>5, <1>6, <1>7, Stretch

LEMMA AfterLastStarts ==
  ASSUME NEW d \in Parts, NEW marks
  PROVE  /\ AfterLast(d, marks) \in Parts
         /\ \A i \in 1 .. Len(AfterLast(d, marks)) : AfterLast(d, marks)[i] \notin marks
         /\ \A i \in 1 .. Len(AfterLast(d, marks)) :
              \E j \in 1 .. Len(d) : AfterLast(d, marks)[i] = d[j]
<1> DEFINE starts(n) == (\A i \in n .. Len(d) : d[i] \notin marks) /\ (n = 1 \/ d[n - 1] \in marks)
           T == {k \in 0 .. Len(d) : k = Len(d) \/ d[Len(d) - k] \in marks}
           first == CHOOSE n \in 1 .. Len(d) + 1 : starts(n)
<1>0. Len(d) \in Nat
  BY DEF Parts
<1>1. T \subseteq Nat /\ Len(d) \in T
  BY <1>0
<1>2. PICK k \in T : \A m \in T : k <= m
  BY <1>1, Least
<1>3. \A i \in Len(d) + 1 - k .. Len(d) : d[i] \notin marks
  <2> SUFFICES ASSUME NEW i \in Len(d) + 1 - k .. Len(d), d[i] \in marks PROVE FALSE
    OBVIOUS
  <2>1. i \in 1 .. Len(d) /\ Len(d) - i \in 0 .. Len(d) /\ Len(d) - (Len(d) - i) = i
    BY <1>0, <1>2
  <2>2. Len(d) - i \in T
    BY <2>1
  <2>3. k <= Len(d) - i
    BY <1>2, <2>2
  <2>4. k \in 0 .. Len(d)
    OBVIOUS
  <2> HIDE DEF T
  <2> QED
    BY <1>0, <2>1, <2>3, <2>4
<1>4. Len(d) + 1 - k \in 1 .. Len(d) + 1
  BY <1>0, <1>2
<1>5. (Len(d) + 1 - k) - 1 = Len(d) - k
  BY <1>0, <1>2
<1>6. starts(Len(d) + 1 - k)
  <2>1. k = Len(d) \/ d[Len(d) - k] \in marks
    OBVIOUS
  <2>2. k = Len(d) => Len(d) + 1 - k = 1
    BY <1>0
  <2>3. d[(Len(d) + 1 - k) - 1] = d[Len(d) - k]
    BY <1>5
  <2> QED
    BY <1>3, <2>1, <2>2, <2>3
<1>7. first \in 1 .. Len(d) + 1 /\ starts(first)
  BY <1>4, <1>6
<1>8. AfterLast(d, marks) = SubSeq(d, first, Len(d))
  BY DEF AfterLast
<1> HIDE DEF first
<1>9. Len(d) \in 0 .. Len(d)
  BY <1>0
<1> QED
  BY <1>0, <1>7, <1>8, <1>9, Stretch

LEMMA TrimDotsTrims ==
  ASSUME NEW d \in Parts
  PROVE  /\ TrimDots(d) \in Parts
         /\ Len(TrimDots(d)) > 0 => TrimDots(d)[Len(TrimDots(d))] # "."
         /\ Len(TrimDots(d)) <= Len(d) /\ \A i \in 1 .. Len(TrimDots(d)) : TrimDots(d)[i] = d[i]
<1> DEFINE ends(n) == (\A i \in n + 1 .. Len(d) : d[i] = ".") /\ (n = 0 \/ d[n] # ".")
           T == {k \in 0 .. Len(d) : Len(d) - k = 0 \/ d[Len(d) - k] # "."}
           last == CHOOSE n \in 0 .. Len(d) : ends(n)
<1>0. Len(d) \in Nat
  BY DEF Parts
<1>1. T \subseteq Nat /\ Len(d) \in T
  BY <1>0
<1>2. PICK k \in T : \A m \in T : k <= m
  BY <1>1, Least
<1>3. \A i \in (Len(d) - k) + 1 .. Len(d) : d[i] = "."
  <2> SUFFICES ASSUME NEW i \in (Len(d) - k) + 1 .. Len(d), d[i] # "." PROVE FALSE
    OBVIOUS
  <2>1. i \in 1 .. Len(d) /\ Len(d) - i \in 0 .. Len(d) /\ Len(d) - (Len(d) - i) = i
    BY <1>0, <1>2
  <2>2. Len(d) - i \in T
    BY <2>1
  <2>3. k <= Len(d) - i
    BY <1>2, <2>2
  <2>4. k \in 0 .. Len(d)
    OBVIOUS
  <2> HIDE DEF T
  <2> QED
    BY <1>0, <2>1, <2>3, <2>4
<1>4. Len(d) - k \in 0 .. Len(d) /\ ends(Len(d) - k)
  BY <1>0, <1>2, <1>3
<1>5. last \in 0 .. Len(d) /\ ends(last)
  BY <1>4
<1>6. TrimDots(d) = SubSeq(d, 1, last)
  BY DEF TrimDots
<1> HIDE DEF last
<1>7. 1 \in 1 .. Len(d) + 1
  BY <1>0
<1>8. Len(TrimDots(d)) = last /\ \A i \in 1 .. last : TrimDots(d)[i] = d[i]
  BY <1>0, <1>5, <1>6, <1>7, Stretch
<1> QED
  BY <1>0, <1>5, <1>6, <1>7, <1>8, Stretch

\* What d has is in e too.
Within(d, e) ==
  d \in Parts /\ \A i \in 1 .. Len(d) : \E j \in 1 .. Len(e) : d[i] = e[j]

LEMMA DropFirstWithin ==
  ASSUME NEW d \in Parts, NEW marks
  PROVE  Within(DropFirst(d, marks), d)
<1>1. CASE d # <<>> /\ d[1] \in marks
  <2>1. Tail(d) \in Parts /\ Len(Tail(d)) = Len(d) - 1 /\ \A i \in 1 .. Len(Tail(d)) : Tail(d)[i] = d[i + 1]
    BY <1>1, HeadTailProperties DEF Parts
  <2>2. Len(d) \in Nat
    BY DEF Parts
  <2> QED
    BY <1>1, <2>1, <2>2 DEF DropFirst, Within
<1>2. CASE ~ (d # <<>> /\ d[1] \in marks)
  BY <1>2 DEF DropFirst, Within
<1> QED
  BY <1>1, <1>2

LEMMA DropPortWithin ==
  ASSUME NEW d \in Parts
  PROVE  Within(DropPort(d), d)
<1>0. Len(d) \in Nat /\ (d # <<>> => Len(d) > 0)
  BY EmptySeq DEF Parts
<1>1. CASE d # <<>> /\ d[Len(d)] = ":80"
  <2>1. 1 \in 1 .. Len(d) + 1 /\ Len(d) - 1 \in 0 .. Len(d)
    BY <1>0, <1>1
  <2> QED
    BY <1>0, <1>1, <2>1, Stretch DEF DropPort, Within
<1>2. CASE ~ (d # <<>> /\ d[Len(d)] = ":80")
  BY <1>2 DEF DropPort, Within
<1> QED
  BY <1>1, <1>2

\* What normalize_domain returns has no path, query or user in it, and no dot at its
\* end, whatever was typed.  It may have a "www." or a port left: see Norm.
THEOREM NormClean ==
  ASSUME NEW d \in Seq(STRING)
  PROVE  /\ Norm(d) \in Seq(STRING)
         /\ \A i \in 1 .. Len(Norm(d)) : Norm(d)[i] \notin Ends \cup {"user@"}
         /\ Len(Norm(d)) > 0 => Norm(d)[Len(Norm(d))] # "."
<1> DEFINE bare  == DropFirst(d, Schemes)
           front == Before(bare, Ends)
           host  == AfterLast(front, {"user@"})
           name  == DropFirst(DropPort(host), {"www."})
<1>1. bare \in Parts
  BY DropFirstWithin DEF Parts, Within
<1> HIDE DEF bare
<1>2. front \in Parts /\ \A i \in 1 .. Len(front) : front[i] \notin Ends
  BY <1>1, BeforeStops
<1> HIDE DEF front
<1>3. host \in Parts /\ \A i \in 1 .. Len(host) : host[i] \notin Ends \cup {"user@"}
  BY <1>2, AfterLastStarts
<1> HIDE DEF host
<1>4. Within(DropPort(host), host)
  BY <1>3, DropPortWithin
<1>5. Within(name, DropPort(host))
  BY <1>4, DropFirstWithin DEF Within
<1>6. name \in Parts /\ \A i \in 1 .. Len(name) : name[i] \notin Ends \cup {"user@"}
  BY <1>3, <1>4, <1>5 DEF Within
<1> HIDE DEF name
<1>7. Len(name) \in Nat
  BY <1>6 DEF Parts
<1>8. /\ TrimDots(name) \in Parts
      /\ Len(TrimDots(name)) > 0 => TrimDots(name)[Len(TrimDots(name))] # "."
      /\ Len(TrimDots(name)) <= Len(name)
      /\ \A i \in 1 .. Len(TrimDots(name)) : TrimDots(name)[i] = name[i]
  BY <1>6, TrimDotsTrims
<1>9. Len(TrimDots(name)) \in Nat
  BY <1>8 DEF Parts
<1>10. \A i \in 1 .. Len(TrimDots(name)) : TrimDots(name)[i] \notin Ends \cup {"user@"}
  BY <1>6, <1>7, <1>8, <1>9
<1>11. Norm(d) = TrimDots(name)
  BY DEF Norm, name, host, front, bare
<1> QED
  BY <1>8, <1>10, <1>11 DEF Parts

-----------------------------------------------------------------------------
(* The inductive invariant *)

Cmds == {"none", "UpsertProfile", "DeleteProfile", "UpsertSite", "DeleteSite",
         "SetRedirectPage", "SetEnabled", "SetEnabledBatch"}

Frame == [cmd : Cmds, row : Row \cup {NoRow}, on : BOOLEAN, ids : SUBSET Nat,
          profile : Profile \cup {"none"}, todo : SUBSET Row]

\* The rows a thread holds were given their ids by now.
Known(f) == f.row.id <= lastRow /\ \A s \in f.todo : s.id <= lastRow

HasRow      == {"find_row", "write_row", "find_alias", "write_alias", "rename_row"}
Deletes     == {"delete_sites", "delete_profile"}
SeedDeletes == {"seed_delete_sites", "seed_delete_profile"}

\* What the locals of a thread are for where it is.
Fit(label, f) ==
  /\ label \in HasRow => f.row \in Row
  /\ label \in Deletes => f.profile \notin Builtin
  /\ label = "write_profile" => f.profile \in Profile \ Stale
  /\ label \in SeedDeletes => f.profile \in Stale
  /\ label = "reject_if_session" =>
       /\ f.cmd = "UpsertSite" => f.row \in Row
       /\ f.cmd = "UpsertProfile" => f.profile \in Profile \ Stale

Control ==
  /\ DOMAIN pc = Thread /\ frame \in [Thread -> Frame]
  /\ \A t \in Thread : Known(frame[t]) /\ Fit(pc[t], frame[t])

\* The seeding is over before anything else begins.
Phases ==
  /\ service \in {"down", "seeding", "up"}
  /\ service # "up" => \A t \in Thread \ {Main} : pc[t] = "idle"
  /\ service # "seeding" => pc[Main] = "idle"

\* What the seeding has behind it at each of its statements.
SeedingSoFar ==
  /\ pc[Main] = "seed_delete_profile" => RowsOf(frame[Main].profile) = {}
  /\ pc[Main] = "seed_profile" => Stale \cap profiles = {}

Books ==
  /\ profiles \subseteq Profile /\ sites \subseteq Row /\ lastRow \in Nat
  /\ \A s \in sites : s.id <= lastRow
  /\ NoOrphans

Counters ==
  live \in BOOLEAN /\ overlapped \in BOOLEAN /\ requests \in Nat /\ stops \in Nat

RulesInv == Books /\ Control /\ Phases /\ SeedingSoFar /\ BuiltinsServed /\ Counters

-----------------------------------------------------------------------------
(* What the steps have in common *)

LEMMA FrameTypes ==
  /\ EmptyFrame \in Frame
  /\ EmptyFrame.row.id = 0 /\ EmptyFrame.todo = {}
  /\ \A p \in Profile : /\ [EmptyFrame EXCEPT !.profile = p] \in Frame
                        /\ [EmptyFrame EXCEPT !.profile = p].row.id = 0
                        /\ [EmptyFrame EXCEPT !.profile = p].todo = {}
                        /\ [EmptyFrame EXCEPT !.profile = p].profile = p
BY DEF EmptyFrame, Frame, NoRow, Cmds

\* A thread with no row at hand.
LEMMA NothingKnown ==
  ASSUME RulesInv, NEW f, f.row.id = 0, f.todo = {}
  PROVE  Known(f)
<1>1. lastRow \in Nat
  BY DEF RulesInv, Books
<1> QED
  BY <1>1 DEF Known

\* No row id is made twice.
Later == lastRow \in Nat /\ lastRow' \in Nat /\ lastRow <= lastRow'

LEMMA NoNewRow ==
  ASSUME RulesInv, lastRow' = lastRow
  PROVE  Later
<1>1. lastRow \in Nat
  BY DEF RulesInv, Books
<1> QED
  BY <1>1 DEF Later

\* A thread takes a step of its own; the locals of the others stay right.
LEMMA ControlMoves ==
  ASSUME RulesInv, NEW t \in Thread, NEW label, NEW f \in Frame,
         Known(f)', Fit(label, f),
         pc' = [pc EXCEPT ![t] = label], frame' = [frame EXCEPT ![t] = f], Later
  PROVE  Control'
<1>1. DOMAIN pc' = Thread /\ frame' \in [Thread -> Frame]
  BY DEF RulesInv, Control
<1>2. ASSUME NEW u \in Thread
      PROVE  Known(frame[u])' /\ Fit(pc[u], frame[u])'
  <2>1. CASE u = t
    <3>1. pc'[u] = label /\ frame'[u] = f
      BY <2>1 DEF RulesInv, Control
    <3> QED
      BY <3>1 DEF Known, Fit
  <2>2. CASE u # t
    <3>1. pc'[u] = pc[u] /\ frame'[u] = frame[u] /\ frame[u] \in Frame
      BY <2>2 DEF RulesInv, Control
    <3>2. frame[u].row.id \in Nat /\ \A s \in frame[u].todo : s.id \in Nat
      BY <3>1 DEF Frame, Row, NoRow
    <3>3. Known(frame[u]) /\ Fit(pc[u], frame[u])
      BY DEF RulesInv, Control
    <3>4. Known(frame[u])'
      BY <3>1, <3>2, <3>3 DEF Known, Later
    <3> QED
      BY <3>1, <3>3, <3>4 DEF Fit
  <2> QED
    BY <2>1, <2>2
<1> QED
  BY <1>1, <1>2 DEF Control

\* A thread beside the seeding goes on: the service is up, the seeding is not disturbed.
LEMMA ThreadMoves ==
  ASSUME RulesInv, NEW t \in Thread \ {Main}, pc[t] # "idle" \/ service = "up",
         NEW label, NEW f \in Frame, Known(f)', Fit(label, f),
         pc' = [pc EXCEPT ![t] = label], frame' = [frame EXCEPT ![t] = f],
         service' = service, Later
  PROVE  service = "up" /\ Control' /\ Phases' /\ SeedingSoFar'
<1>1. service = "up" /\ pc[Main] = "idle" /\ pc'[Main] = "idle"
  BY DEF RulesInv, Control, Phases, Thread
<1>2. Control'
  BY ControlMoves
<1>3. Phases' /\ SeedingSoFar'
  BY <1>1 DEF RulesInv, Phases, SeedingSoFar
<1> QED
  BY <1>1, <1>2, <1>3

\* The locals of a thread that keeps them.
LEMMA OwnFrame ==
  ASSUME RulesInv, NEW t \in Thread
  PROVE  /\ frame[t] \in Frame /\ Known(frame[t]) /\ Fit(pc[t], frame[t])
         /\ frame = [frame EXCEPT ![t] = frame[t]]
BY DEF RulesInv, Control

\* A row at hand keeps an id that was made before.
LEMMA KnownStays ==
  ASSUME NEW f \in Frame, Known(f), Later
  PROVE  Known(f)'
<1>1. f.row.id \in Nat /\ \A s \in f.todo : s.id \in Nat
  BY DEF Frame, Row, NoRow
<1> QED
  BY <1>1 DEF Known, Later

\* A request or the migration that ends, or goes on.
LEMMA Moves ==
  ASSUME RulesInv, NEW t \in Thread \ {Main}, pc[t] # "idle",
         NEW label, NEW f \in Frame, Known(f), Fit(label, f),
         GotoWith(t, label, f), UNCHANGED <<world, lastRow>>, Books', BuiltinsServed'
  PROVE  RulesInv'
<1>1. Known(f)' /\ Later
  BY NoNewRow, KnownStays
<1>2. service' = service
  BY DEF world
<1>3. Control' /\ Phases' /\ SeedingSoFar'
  BY <1>1, <1>2, ThreadMoves DEF GotoWith
<1>4. Counters'
  BY DEF RulesInv, Counters, world
<1> QED
  BY <1>3, <1>4 DEF RulesInv

\* One that leaves the profiles alone.
LEMMA Quietly ==
  ASSUME RulesInv, NEW t \in Thread \ {Main}, pc[t] # "idle",
         NEW label, NEW f \in Frame, Known(f), Fit(label, f),
         GotoWith(t, label, f), UNCHANGED <<profiles, world, lastRow>>, Books'
  PROVE  RulesInv'
<1>1. BuiltinsServed'
  BY DEF RulesInv, BuiltinsServed, world
<1> QED
  BY <1>1, Moves

LEMMA EndsQuietly ==
  ASSUME RulesInv, NEW t \in Thread \ {Main}, pc[t] # "idle",
         NEW label, label \in {"idle", "migrated", "failed"},
         GotoWith(t, label, EmptyFrame), UNCHANGED <<profiles, world, lastRow>>, Books'
  PROVE  RulesInv'
<1>1. EmptyFrame \in Frame /\ Known(EmptyFrame) /\ Fit(label, EmptyFrame)
  BY FrameTypes, NothingKnown DEF Fit, HasRow, Deletes, SeedDeletes
<1> QED
  BY <1>1, Quietly

LEMMA GoesQuietly ==
  ASSUME RulesInv, NEW t \in Thread \ {Main}, pc[t] # "idle", NEW label,
         Fit(label, frame[t]),
         Goto(t, label), UNCHANGED <<profiles, world, lastRow>>, Books'
  PROVE  RulesInv'
<1>1. frame[t] \in Frame /\ Known(frame[t]) /\ GotoWith(t, label, frame[t])
  BY OwnFrame DEF Goto, GotoWith
<1> QED
  BY <1>1, Quietly

LEMMA Same ==
  ASSUME RulesInv, UNCHANGED <<rules, lastRow>>
  PROVE  Books'
BY DEF RulesInv, Books, NoOrphans, rules

\* INSERT ... ON CONFLICT: a row with a parent keeps the table in order.
LEMMA RowWritten ==
  ASSUME RulesInv, NEW row \in Row, row.profile \in profiles, row.id <= lastRow, UpsertRow(row)
  PROVE  Books'
<1>1. sites' = Upserted(row) /\ UNCHANGED <<profiles, lastRow>>
  BY DEF UpsertRow
<1>2. \A s \in sites' : s = row \/ (s \in sites /\ s.id # row.id)
  BY <1>1 DEF Upserted
<1> QED
  BY <1>1, <1>2 DEF RulesInv, Books, NoOrphans

\* A DELETE of rows does.
LEMMA RowsGone ==
  ASSUME RulesInv, sites' \subseteq sites, UNCHANGED <<profiles, lastRow>>
  PROVE  Books'
BY DEF RulesInv, Books, NoOrphans

\* A row keeps its type when its domain is normalised.
LEMMA CleanRow ==
  ASSUME NEW row \in Row
  PROVE  Clean(row) \in Row /\ Clean(row).id = row.id /\ Clean(row).profile = row.profile
<1>1. Norm(row.domain) \in Seq(STRING)
  BY NormClean DEF Row
<1> QED
  BY <1>1 DEF Clean, Retyped, Row

-----------------------------------------------------------------------------
(* seed_if_empty *)

\* The main thread at work: nothing is served, nobody else is there.
LEMMA SeedMoves ==
  ASSUME RulesInv, pc[Main] # "idle", NEW label, NEW f \in Frame, Known(f),
         Fit(label, f), GotoWith(Main, label, f), UNCHANGED world,
         Later, Books', SeedingSoFar'
  PROVE  RulesInv'
<1>1. service = "seeding" /\ service' = "seeding" /\ Main \in Thread
  BY DEF RulesInv, Phases, world, Thread
<1>2. Control'
  BY <1>1, KnownStays, ControlMoves DEF GotoWith
<1>3. Phases'
  BY <1>1 DEF RulesInv, Control, Phases, GotoWith
<1>4. BuiltinsServed' /\ Counters'
  BY <1>1 DEF RulesInv, BuiltinsServed, Counters, world
<1> QED
  BY <1>2, <1>3, <1>4 DEF RulesInv

LEMMA SeedGoes ==
  ASSUME RulesInv, pc[Main] # "idle", NEW label,
         Fit(label, frame[Main]), Goto(Main, label), UNCHANGED world,
         Later, Books', SeedingSoFar'
  PROVE  RulesInv'
<1>1. Main \in Thread
  BY DEF Thread
<1>2. frame[Main] \in Frame /\ Known(frame[Main]) /\ GotoWith(Main, label, frame[Main])
  BY <1>1, OwnFrame DEF Goto, GotoWith
<1> QED
  BY <1>2, SeedMoves

LEMMA SeedStep ==
  ASSUME RulesInv, Seed
  PROVE  RulesInv'
<1> USE DEF At
<1>1. Main \in Thread /\ Warm \in Thread /\ Main # Warm
  BY ThreadsDistinct DEF Thread, Main, Warm
<1>2. pc'[Main] # "seed_delete_profile" /\ pc'[Main] # "seed_profile" => SeedingSoFar'
  BY DEF SeedingSoFar
<1>3. CASE SeedStale
  <2>1. Books'
    BY <1>3, Same DEF SeedStale, Reads
  <2>2. ASSUME NEW p \in Stale \cap profiles,
               GotoWith(Main, "seed_delete_sites", [EmptyFrame EXCEPT !.profile = p])
        PROVE  RulesInv'
    <3> DEFINE f == [EmptyFrame EXCEPT !.profile = p]
    <3>1. f \in Frame /\ Known(f) /\ f.profile = p
      BY ProfilesType, FrameTypes, NothingKnown
    <3>2. Fit("seed_delete_sites", f)
      BY <3>1 DEF Fit, HasRow, Deletes
    <3>3. SeedingSoFar'
      BY <1>1, <1>2, <2>2 DEF GotoWith, RulesInv, Control
    <3> QED
      BY <1>1, <1>3, <2>1, <2>2, <3>1, <3>2, <3>3, NoNewRow, SeedMoves DEF SeedStale, Reads
  <2>3. ASSUME Stale \cap profiles = {}, Goto(Main, "seed_profile")
        PROVE  RulesInv'
    <3>1. SeedingSoFar'
      BY <1>1, <1>3, <2>3 DEF SeedStale, Reads, rules, Goto, SeedingSoFar, RulesInv, Control
    <3>2. Fit("seed_profile", frame[Main])
      BY DEF Fit, HasRow, Deletes, SeedDeletes
    <3> QED
      BY <1>1, <1>3, <2>1, <2>3, <3>1, <3>2, NoNewRow, SeedGoes DEF SeedStale, Reads
  <2> QED
    BY <1>3, <2>2, <2>3 DEF SeedStale
<1>4. CASE SeedDeleteSites
  <2>1. Books'
    BY <1>4, RowsGone DEF SeedDeleteSites
  <2>2. frame[Main].profile \in Stale
    BY <1>1, <1>4, OwnFrame DEF SeedDeleteSites, Fit, SeedDeletes
  <2>3. SeedingSoFar'
    BY <1>1, <1>4 DEF SeedDeleteSites, Goto, SeedingSoFar, RowsOf, RulesInv, Control
  <2>4. Fit("seed_delete_profile", frame[Main])
    BY <2>2 DEF Fit, HasRow, Deletes
  <2> QED
    BY <1>1, <1>4, <2>1, <2>3, <2>4, NoNewRow, SeedGoes DEF SeedDeleteSites
<1>5. CASE SeedDeleteProfile
  <2>1. RowsOf(frame[Main].profile) = {}
    BY <1>5 DEF SeedDeleteProfile, RulesInv, SeedingSoFar
  <2>2. Books'
    BY <1>5, <2>1 DEF SeedDeleteProfile, RulesInv, Books, NoOrphans, RowsOf
  <2>3. SeedingSoFar'
    BY <1>1, <1>2, <1>5 DEF SeedDeleteProfile, Goto, RulesInv, Control
  <2>4. Fit("seed_stale", frame[Main])
    BY DEF Fit, HasRow, Deletes, SeedDeletes
  <2> QED
    BY <1>1, <1>5, <2>2, <2>3, <2>4, NoNewRow, SeedGoes DEF SeedDeleteProfile
<1>6. Fit("seed_profile", frame[Main])
  BY DEF Fit, HasRow, Deletes, SeedDeletes
<1>7. CASE SeedProfile
  <2>1. PICK p \in Builtin \ profiles : profiles' = profiles \cup {p}
    BY <1>7 DEF SeedProfile
  <2>2. Books'
    BY <1>7, <2>1, ProfilesType DEF SeedProfile, RulesInv, Books, NoOrphans
  <2>3. SeedingSoFar'
    BY <1>1, <1>7, <2>1, ProfilesType
    DEF SeedProfile, Goto, RulesInv, Control, SeedingSoFar
  <2> QED
    BY <1>1, <1>6, <1>7, <2>2, <2>3, NoNewRow, SeedGoes DEF SeedProfile
<1>8. CASE SeedSite
  <2>0. PICK p \in Builtin \cap profiles : \E d \in Missing(p) :
          sites' = sites \cup {[id |-> lastRow + 1, profile |-> p, domain |-> d, enabled |-> TRUE]}
    BY <1>8 DEF SeedSite
  <2>1. PICK d \in Missing(p) :
          sites' = sites \cup {[id |-> lastRow + 1, profile |-> p, domain |-> d, enabled |-> TRUE]}
    BY <2>0
  <2> DEFINE row == [id |-> lastRow + 1, profile |-> p, domain |-> d, enabled |-> TRUE]
  <2>2. lastRow \in Nat /\ lastRow' = lastRow + 1
    BY <1>8 DEF SeedSite, RulesInv, Books
  <2>3. row \in Row /\ row.profile \in profiles /\ row.id = lastRow + 1
    <3>1. d \in Seq(STRING)
      BY <2>1, SeedsType DEF Missing
    <3> QED
      BY <2>2, <2>1, <3>1, ProfilesType DEF Row
  <2>4. \A s \in sites : s.id \in Nat /\ s.id <= lastRow
    BY DEF RulesInv, Books, Row
  <2>5. Books'
    <3> HIDE DEF row
    <3>1. \A s \in sites' : s \in sites \/ s = row
      BY <2>1 DEF row
    <3>2. lastRow' = lastRow + 1 /\ profiles' = profiles
      BY <1>8 DEF SeedSite
    <3>3. sites' \subseteq Row /\ \A s \in sites' : s.id <= lastRow' /\ s.profile \in profiles'
      BY <2>2, <2>3, <2>4, <3>1, <3>2 DEF RulesInv, Books, NoOrphans
    <3>4. \A s, r \in sites' : s.id = r.id => s = r
      BY <2>2, <2>3, <2>4, <3>1, <3>2 DEF RulesInv, Books, NoOrphans
    <3> QED
      BY <2>2, <3>2, <3>3, <3>4 DEF RulesInv, Books, NoOrphans
  <2>6. SeedingSoFar'
    BY <1>1, <1>8 DEF SeedSite, Goto, RulesInv, Control, SeedingSoFar
  <2>7. Later
    BY <2>0, <2>2 DEF Later
  <2> QED
    BY <1>6, <1>8, <2>5, <2>6, <2>7, SeedGoes DEF SeedSite
<1>9. CASE Seeded
  <2>1. Books'
    BY <1>9, Same DEF Seeded
  <2>2. pc' = [pc EXCEPT ![Main] = "idle", ![Warm] = "list_rows"] /\ UNCHANGED <<frame, lastRow>>
    BY <1>9 DEF Seeded
  <2>3. Control'
    BY <1>1, <2>2 DEF RulesInv, Control, Fit, Known, HasRow, Deletes, SeedDeletes
  <2>4. Phases' /\ SeedingSoFar'
    BY <1>1, <1>9, <2>2 DEF Seeded, RulesInv, Control, Phases, SeedingSoFar
  <2>5. BuiltinsServed'
    BY <1>9 DEF Seeded, rules, BuiltinsServed, RulesInv, SeedingSoFar
  <2>6. Counters'
    BY <1>9 DEF Seeded, RulesInv, Counters
  <2> QED
    BY <2>1, <2>3, <2>4, <2>5, <2>6 DEF RulesInv
<1> QED
  BY <1>3, <1>4, <1>5, <1>7, <1>8, <1>9 DEF Seed

-----------------------------------------------------------------------------
(* migrate_bad_domains *)

LEMMA MigrateStep ==
  ASSUME RulesInv, Migrate
  PROVE  RulesInv'
<1> USE DEF At
<1>1. Warm \in Thread \ {Main}
  BY DEF Thread, Main, Warm
<1>2. frame[Warm] \in Frame /\ Known(frame[Warm]) /\ Fit(pc[Warm], frame[Warm])
  BY <1>1, OwnFrame
<1>3. Fit("next_row", frame[Warm]) /\ Fit("drop_row", frame[Warm])
  BY DEF Fit, HasRow, Deletes, SeedDeletes
<1>4. CASE ListRows
  <2> DEFINE listed == {s \in sites : Norm(s.domain) \notin {<<>>, s.domain}}
             f == [EmptyFrame EXCEPT !.todo = listed]
  <2>1. listed \subseteq Row /\ \A s \in listed : s.id <= lastRow
    BY DEF RulesInv, Books
  <2>2. f \in Frame /\ f.row.id = 0 /\ f.todo = listed
    <3> HIDE DEF listed
    <3> QED
      BY <2>1 DEF EmptyFrame, Frame, NoRow, Cmds
  <2>3. Known(f)
    <3>1. lastRow \in Nat
      BY DEF RulesInv, Books
    <3> HIDE DEF f
    <3> QED
      BY <2>1, <2>2, <3>1 DEF Known
  <2>4. Fit("next_row", f)
    BY DEF Fit, HasRow, Deletes, SeedDeletes
  <2>5. Books'
    BY <1>4, Same DEF ListRows, Reads
  <2> QED
    BY <1>1, <1>4, <2>2, <2>3, <2>4, <2>5, Quietly DEF ListRows, Reads, rules
<1>5. CASE NextRow
  <2>1. Books' /\ UNCHANGED <<profiles, world, lastRow>> /\ pc[Warm] # "idle"
    BY <1>5, Same DEF NextRow, Reads, rules
  <2>2. CASE GotoWith(Warm, "migrated", EmptyFrame)
    BY <1>1, <2>1, <2>2, EndsQuietly
  <2>3. ASSUME NEW row \in frame[Warm].todo, NEW label \in {"drop_row", "rename_row"},
               GotoWith(Warm, label,
                        [frame[Warm] EXCEPT !.row = row, !.todo = frame[Warm].todo \ {row}])
        PROVE  RulesInv'
    <3> DEFINE f == [frame[Warm] EXCEPT !.row = row, !.todo = frame[Warm].todo \ {row}]
    <3>1. f \in Frame /\ f.row = row /\ f.todo \subseteq frame[Warm].todo /\ row \in Row
      BY <1>2 DEF Frame
    <3>2. Known(f)
      BY <1>2, <3>1 DEF Known
    <3>3. Fit(label, f)
      BY <3>1 DEF Fit, HasRow, Deletes, SeedDeletes
    <3> QED
      BY <1>1, <2>1, <2>3, <3>1, <3>2, <3>3, Quietly
  <2> QED
    BY <1>5, <2>2, <2>3 DEF NextRow
<1>6. CASE DropRow
  <2>1. Books' /\ UNCHANGED <<profiles, world, lastRow>> /\ pc[Warm] # "idle"
    BY <1>6, RowsGone DEF DropRow, DeleteRow
  <2> QED
    BY <1>1, <1>3, <1>6, <2>1, GoesQuietly DEF DropRow
<1>7. CASE RenameRow
  <2>1. frame[Warm].row \in Row /\ frame[Warm].row.id <= lastRow
    BY <1>2, <1>7 DEF RenameRow, Fit, HasRow, Known
  <2>2. CASE ParentExists(frame[Warm].row) /\ UpsertRow(Clean(frame[Warm].row)) /\ Goto(Warm, "next_row")
    <3>1. Books'
      BY <2>1, <2>2, CleanRow, RowWritten DEF ParentExists
    <3>2. UNCHANGED <<profiles, world, lastRow>> /\ pc[Warm] # "idle"
      BY <1>7, <2>2 DEF RenameRow, UpsertRow
    <3> QED
      BY <1>1, <1>3, <2>2, <3>1, <3>2, GoesQuietly
  <2>3. CASE GotoWith(Warm, "failed", EmptyFrame) /\ Reads
    <3>1. Books' /\ UNCHANGED <<profiles, world, lastRow>> /\ pc[Warm] # "idle"
      BY <1>7, <2>3, Same DEF RenameRow, Reads, rules
    <3> QED
      BY <1>1, <2>3, <3>1, EndsQuietly
  <2> QED
    BY <1>7, <2>2, <2>3 DEF RenameRow
<1> QED
  BY <1>4, <1>5, <1>6, <1>7 DEF Migrate

-----------------------------------------------------------------------------
(* Edits of the profiles *)

LEMMA ProfileStep ==
  ASSUME RulesInv, NEW c \in Client, WriteProfile(c) \/ CheckProfiles(c) \/ DeleteSites(c) \/ DeleteProfile(c)
  PROVE  RulesInv'
<1> USE DEF At
<1>1. c \in Thread \ {Main} /\ pc[c] # "idle"
  BY ThreadsDistinct DEF Thread, WriteProfile, CheckProfiles, DeleteSites, DeleteProfile
<1>2. frame[c] \in Frame /\ Known(frame[c]) /\ Fit(pc[c], frame[c])
  BY <1>1, OwnFrame
<1>3. EmptyFrame \in Frame /\ Known(EmptyFrame) /\ Fit("idle", EmptyFrame)
  BY FrameTypes, NothingKnown DEF Fit, HasRow, Deletes, SeedDeletes
<1>4. CASE WriteProfile(c)
  <2>1. frame[c].profile \in Profile \ Stale
    BY <1>2, <1>4 DEF WriteProfile, Fit
  <2>2. Books'
    BY <1>4, <2>1 DEF WriteProfile, RulesInv, Books, NoOrphans
  <2>3. BuiltinsServed'
    BY <1>4, <2>1 DEF WriteProfile, RulesInv, BuiltinsServed, world
  <2> QED
    BY <1>1, <1>3, <1>4, <2>2, <2>3, Moves DEF WriteProfile, Return
<1>5. CASE CheckProfiles(c)
  <2>1. Books' /\ UNCHANGED <<profiles, world, lastRow>>
    BY <1>5, Same DEF CheckProfiles, Reads, rules
  <2>2. CASE frame[c].profile \notin Builtin /\ Goto(c, "delete_sites")
    <3>1. Fit("delete_sites", frame[c])
      BY <2>2 DEF Fit, HasRow, SeedDeletes
    <3> QED
      BY <1>1, <2>1, <2>2, <3>1, GoesQuietly
  <2>3. CASE Return(c)
    BY <1>1, <2>1, <2>3, EndsQuietly DEF Return
  <2> QED
    BY <1>5, <2>2, <2>3 DEF CheckProfiles
<1>6. CASE DeleteSites(c)
  <2>1. Books' /\ UNCHANGED <<profiles, world, lastRow>>
    BY <1>6, RowsGone DEF DeleteSites
  <2>2. Fit("delete_profile", frame[c])
    BY <1>2, <1>6 DEF DeleteSites, Fit, HasRow, Deletes, SeedDeletes
  <2> QED
    BY <1>1, <1>6, <2>1, <2>2, GoesQuietly DEF DeleteSites
<1>7. CASE DeleteProfile(c)
  <2>1. frame[c].profile \notin Builtin
    BY <1>2, <1>7 DEF DeleteProfile, Fit, Deletes
  <2>2. Books'
    BY <1>7 DEF DeleteProfile, RulesInv, Books, NoOrphans, RowsOf
  <2>3. BuiltinsServed'
    BY <1>7, <2>1 DEF DeleteProfile, RulesInv, BuiltinsServed, world
  <2> QED
    BY <1>1, <1>3, <1>7, <2>2, <2>3, Moves DEF DeleteProfile, Return
<1> QED
  BY <1>4, <1>5, <1>6, <1>7

-----------------------------------------------------------------------------
(* Edits of the sites *)

LEMMA TakesRow ==
  ASSUME NEW f \in Frame, Known(f), NEW row \in Row, row.id <= lastRow
  PROVE  LET g == [f EXCEPT !.row = row] IN
         g \in Frame /\ Known(g) /\ g.row = row /\ g.todo = f.todo
<1> DEFINE g == [f EXCEPT !.row = row]
<1>1. g \in Frame /\ g.row = row /\ g.todo = f.todo
  BY DEF Frame
<1> HIDE DEF g
<1>2. Known(g)
  BY <1>1 DEF Known
<1> QED
  BY <1>1, <1>2 DEF g

LEMMA TakesTodo ==
  ASSUME NEW f \in Frame, Known(f), NEW rows \in SUBSET Row, \A s \in rows : s.id <= lastRow
  PROVE  LET g == [f EXCEPT !.todo = rows] IN
         g \in Frame /\ Known(g) /\ g.row = f.row /\ g.todo = rows
<1> DEFINE g == [f EXCEPT !.todo = rows]
<1>1. g \in Frame /\ g.row = f.row /\ g.todo = rows
  BY DEF Frame
<1> HIDE DEF g
<1>2. Known(g)
  BY <1>1 DEF Known
<1> QED
  BY <1>1, <1>2 DEF g

\* What is true of a thread before a step on the sites, and how the step may end.
LEMMA SiteEnds ==
  ASSUME RulesInv, NEW c \in Client, pc[c] # "idle"
  PROVE  /\ c \in Thread \ {Main}
         /\ frame[c] \in Frame /\ Known(frame[c]) /\ Fit(pc[c], frame[c])
         /\ \A s \in sites : s \in Row /\ s.id <= lastRow
         /\ \A label, f : label \in {"get_row", "find_doomed", "delete_row"} => Fit(label, f)
         /\ \A label, f : label \in {"write_row", "write_alias"} /\ f.row \in Row => Fit(label, f)
<1>1. c \in Thread \ {Main}
  BY ThreadsDistinct DEF Thread
<1>2. frame[c] \in Frame /\ Known(frame[c]) /\ Fit(pc[c], frame[c])
  BY <1>1, OwnFrame
<1>3. \A s \in sites : s \in Row /\ s.id <= lastRow
  BY DEF RulesInv, Books
<1> QED
  BY <1>1, <1>2, <1>3 DEF Fit, HasRow, Deletes, SeedDeletes

LEMMA ReadingStep ==
  ASSUME RulesInv, NEW c \in Client,
         FindRow(c) \/ GetRow(c) \/ FindAlias(c) \/ GetDoomed(c) \/ FindDoomed(c)
  PROVE  RulesInv'
<1> USE DEF At
<1>1. pc[c] # "idle" /\ Reads
  BY DEF FindRow, GetRow, FindAlias, GetDoomed, FindDoomed
<1>2. Books' /\ UNCHANGED <<profiles, world, lastRow>>
  BY <1>1, Same DEF Reads, rules
<1>3. CASE FindRow(c)
  <2> DEFINE row == Clean(frame[c].row)
             found == {s \in RowsOf(row.profile) : s.domain = row.domain}
  <2>1. row \in Row /\ row.id = frame[c].row.id /\ row.id <= lastRow
    BY <1>1, <1>3, SiteEnds, CleanRow DEF FindRow, Fit, HasRow, Known
  <2>2. ASSUME NEW r \in Row, r.id <= lastRow,
               GotoWith(c, "write_row", [frame[c] EXCEPT !.row = r])
        PROVE  RulesInv'
    <3> DEFINE g == [frame[c] EXCEPT !.row = r]
    <3>1. g \in Frame /\ Known(g) /\ g.row = r
      BY <1>1, <2>2, SiteEnds, TakesRow
    <3> HIDE DEF g
    <3>2. Fit("write_row", g)
      BY <1>1, <3>1, SiteEnds
    <3>3. GotoWith(c, "write_row", g)
      BY <2>2 DEF g
    <3> QED
      BY <1>1, <1>2, <3>1, <3>2, <3>3, SiteEnds, Quietly
  <2>3. CASE Return(c)
    BY <1>1, <1>2, <2>3, SiteEnds, EndsQuietly DEF Return
  <2>4. CASE GotoWith(c, "write_row", [frame[c] EXCEPT !.row = row])
    BY <2>1, <2>2, <2>4
  <2>5. ASSUME NEW s \in found,
               GotoWith(c, "write_row", [frame[c] EXCEPT !.row =
                          IF s.id = row.id THEN row ELSE [row EXCEPT !.id = s.id, !.enabled = TRUE]])
        PROVE  RulesInv'
    <3>1. s \in Row /\ s.id <= lastRow
      BY <1>1, SiteEnds DEF RowsOf
    <3>2. [row EXCEPT !.id = s.id, !.enabled = TRUE] \in Row
            /\ [row EXCEPT !.id = s.id, !.enabled = TRUE].id = s.id
      <4> HIDE DEF row
      <4> QED
        BY <2>1, <3>1 DEF Row
    <3> HIDE DEF row
    <3>3. (IF s.id = row.id THEN row ELSE [row EXCEPT !.id = s.id, !.enabled = TRUE]) \in Row
            /\ (IF s.id = row.id THEN row ELSE [row EXCEPT !.id = s.id, !.enabled = TRUE]).id <= lastRow
      BY <2>1, <3>1, <3>2
    <3> QED
      BY <2>2, <2>5, <3>3
  <2> QED
    BY <1>3, <2>3, <2>4, <2>5 DEF FindRow
<1>4. CASE GetRow(c)
  <2>1. CASE Return(c)
    BY <1>1, <1>2, <2>1, SiteEnds, EndsQuietly DEF Return
  <2>2. ASSUME NEW id \in frame[c].ids
        PROVE  LET f == [frame[c] EXCEPT !.ids = frame[c].ids \ {id}] IN
               f \in Frame /\ Known(f)
    <3> DEFINE f == [frame[c] EXCEPT !.ids = frame[c].ids \ {id}]
    <3>1. f \in Frame /\ f.row = frame[c].row /\ f.todo = frame[c].todo
      BY <1>1, SiteEnds DEF Frame
    <3> HIDE DEF f
    <3>2. Known(f)
      BY <1>1, <3>1, SiteEnds DEF Known
    <3> QED
      BY <3>1, <3>2 DEF f
  <2>3. ASSUME NEW id \in frame[c].ids,
               GotoWith(c, "get_row", [frame[c] EXCEPT !.ids = frame[c].ids \ {id}])
        PROVE  RulesInv'
    BY <1>1, <1>2, <2>2, <2>3, SiteEnds, Quietly
  <2>4. ASSUME NEW id \in frame[c].ids, NEW s \in sites, NEW f,
               f = [frame[c] EXCEPT !.ids = frame[c].ids \ {id}],
               GotoWith(c, "write_row", [f EXCEPT !.row =
                    IF f.cmd = "SetRedirectPage" THEN s ELSE [s EXCEPT !.enabled = f.on]])
        PROVE  RulesInv'
    <3>1. f \in Frame /\ Known(f)
      BY <2>2, <2>4
    <3>2. s \in Row /\ s.id <= lastRow
      BY <1>1, SiteEnds
    <3>3. [s EXCEPT !.enabled = f.on] \in Row /\ [s EXCEPT !.enabled = f.on].id = s.id
      BY <3>1, <3>2 DEF Frame, Row
    <3> DEFINE r == IF f.cmd = "SetRedirectPage" THEN s ELSE [s EXCEPT !.enabled = f.on]
    <3>4. r \in Row /\ r.id <= lastRow
      BY <3>2, <3>3
    <3> HIDE DEF r
    <3> DEFINE g == [f EXCEPT !.row = r]
    <3>5. g \in Frame /\ Known(g) /\ g.row = r
      BY <3>1, <3>4, TakesRow
    <3>6. GotoWith(c, "write_row", g)
      BY <2>4 DEF r
    <3> HIDE DEF g
    <3>7. Fit("write_row", g)
      BY <1>1, <3>4, <3>5, SiteEnds
    <3> QED
      BY <1>1, <1>2, <3>5, <3>6, <3>7, SiteEnds, Quietly
  <2> QED
    BY <1>4, <2>1, <2>3, <2>4 DEF GetRow
<1>5. CASE FindAlias(c)
  <2>1. CASE Goto(c, "get_row")
    BY <1>1, <1>2, <2>1, SiteEnds, GoesQuietly
  <2>2. ASSUME NEW s \in Twins(frame[c].row),
               GotoWith(c, "write_alias", [frame[c] EXCEPT !.todo = {s}])
        PROVE  RulesInv'
    <3>1. {s} \in SUBSET Row /\ \A r \in {s} : r.id <= lastRow
      BY <1>1, SiteEnds DEF Twins, RowsOf
    <3>2. frame[c].row \in Row
      BY <1>1, <1>5, SiteEnds DEF FindAlias, Fit, HasRow
    <3> DEFINE g == [frame[c] EXCEPT !.todo = {s}]
    <3>3. g \in Frame /\ Known(g) /\ g.row = frame[c].row
      BY <1>1, <3>1, SiteEnds, TakesTodo
    <3> HIDE DEF g
    <3>4. Fit("write_alias", g)
      BY <1>1, <3>2, <3>3, SiteEnds
    <3>5. GotoWith(c, "write_alias", g)
      BY <2>2 DEF g
    <3> QED
      BY <1>1, <1>2, <3>3, <3>4, <3>5, SiteEnds, Quietly
  <2> QED
    BY <1>5, <2>1, <2>2 DEF FindAlias, AfterAliases
<1>6. CASE GetDoomed(c)
  <2>1. CASE Return(c)
    BY <1>1, <1>2, <2>1, SiteEnds, EndsQuietly DEF Return
  <2>2. ASSUME NEW s \in sites, GotoWith(c, "find_doomed", [frame[c] EXCEPT !.row = s])
        PROVE  RulesInv'
    BY <1>1, <1>2, <2>2, SiteEnds, TakesRow, Quietly
  <2> QED
    BY <1>6, <2>1, <2>2 DEF GetDoomed
<1>7. CASE FindDoomed(c)
  <2>1. CASE Goto(c, "delete_row")
    BY <1>1, <1>2, <2>1, SiteEnds, GoesQuietly
  <2>2. ASSUME NEW s \in Twins(frame[c].row),
               GotoWith(c, "delete_row", [frame[c] EXCEPT !.todo = {s}])
        PROVE  RulesInv'
    <3>1. {s} \in SUBSET Row /\ \A r \in {s} : r.id <= lastRow
      BY <1>1, SiteEnds DEF Twins, RowsOf
    <3> QED
      BY <1>1, <1>2, <2>2, <3>1, SiteEnds, TakesTodo, Quietly
  <2> QED
    BY <1>7, <2>1, <2>2 DEF FindDoomed
<1> QED
  BY <1>3, <1>4, <1>5, <1>6, <1>7

LEMMA WritingStep ==
  ASSUME RulesInv, NEW c \in Client, WriteRow(c) \/ WriteAlias(c) \/ DeleteDoomed(c)
  PROVE  RulesInv'
<1> USE DEF At
<1>1. pc[c] # "idle"
  BY DEF WriteRow, WriteAlias, DeleteDoomed
<1>2. CASE WriteRow(c)
  <2>1. frame[c].row \in Row /\ frame[c].row.id <= lastRow
    BY <1>1, <1>2, SiteEnds DEF WriteRow, Fit, HasRow, Known
  <2>2. CASE Return(c) /\ Reads
    BY <1>1, <2>2, SiteEnds, Same, EndsQuietly DEF Return, Reads, rules
  <2>3. CASE ParentExists(frame[c].row) /\ UpsertRow(frame[c].row)
    <3>1. Books' /\ UNCHANGED <<profiles, world, lastRow>>
      BY <2>1, <2>3, RowWritten DEF ParentExists, UpsertRow
    <3>2. Fit("get_row", frame[c]) /\ Fit("find_alias", frame[c])
      BY <2>1 DEF Fit, HasRow, Deletes, SeedDeletes
    <3> QED
      BY <1>1, <1>2, <2>3, <3>1, <3>2, SiteEnds, GoesQuietly, EndsQuietly DEF WriteRow, Return
  <2> QED
    BY <1>2, <2>2, <2>3 DEF WriteRow
<1>3. CASE WriteAlias(c)
  <2> DEFINE g == [frame[c] EXCEPT !.todo = {}]
  <2>1. g \in Frame /\ Known(g) /\ Fit("get_row", g) /\ GotoWith(c, "get_row", g)
    BY <1>1, <1>3, SiteEnds, TakesTodo DEF WriteAlias
  <2> HIDE DEF g
  <2>2. CASE Reads
    BY <1>1, <2>1, <2>2, SiteEnds, Same, Quietly DEF Reads, rules
  <2>3. ASSUME NEW s \in frame[c].todo, ParentExists(s),
               UpsertRow([s EXCEPT !.enabled = frame[c].row.enabled])
        PROVE  RulesInv'
    <3>1. s \in Row /\ s.id <= lastRow /\ frame[c].row \in Row
      BY <1>1, <1>3, SiteEnds DEF WriteAlias, Fit, HasRow, Known, Frame
    <3> DEFINE r == [s EXCEPT !.enabled = frame[c].row.enabled]
    <3>2. r \in Row /\ r.id = s.id /\ r.profile = s.profile
      BY <3>1 DEF Row
    <3> HIDE DEF r
    <3>3. UpsertRow(r)
      BY <2>3 DEF r
    <3>4. r.id <= lastRow /\ r.profile \in profiles
      BY <2>3, <3>1, <3>2 DEF ParentExists
    <3>5. Books' /\ UNCHANGED <<profiles, world, lastRow>>
      BY <3>2, <3>3, <3>4, RowWritten DEF UpsertRow
    <3> QED
      BY <1>1, <2>1, <3>5, SiteEnds, Quietly
  <2> QED
    BY <1>3, <2>2, <2>3 DEF WriteAlias
<1>4. CASE DeleteDoomed(c)
  <2>1. Books' /\ UNCHANGED <<profiles, world, lastRow>>
    BY <1>4, RowsGone DEF DeleteDoomed, DeleteRow
  <2>2. CASE Return(c)
    BY <1>1, <2>1, <2>2, SiteEnds, EndsQuietly DEF Return
  <2>3. ASSUME NEW s \in frame[c].todo,
               GotoWith(c, "delete_row", [frame[c] EXCEPT !.row = s, !.todo = {}])
        PROVE  RulesInv'
    <3>1. s \in Row /\ s.id <= lastRow
      BY <1>1, SiteEnds DEF Known, Frame
    <3> DEFINE g == [frame[c] EXCEPT !.row = s, !.todo = {}]
    <3>2. g \in Frame /\ g.row = s /\ g.todo = {}
      BY <1>1, <3>1, SiteEnds DEF Frame
    <3> HIDE DEF g
    <3>3. Known(g) /\ GotoWith(c, "delete_row", g)
      BY <2>3, <3>1, <3>2 DEF Known, g
    <3> QED
      BY <1>1, <2>1, <3>2, <3>3, SiteEnds, Quietly
  <2> QED
    BY <1>4, <2>2, <2>3 DEF DeleteDoomed
<1> QED
  BY <1>2, <1>3, <1>4

-----------------------------------------------------------------------------
(* Requests, sessions and the service *)

LEMMA AskedTypes ==
  ASSUME RulesInv, NEW cmd \in Commands, NEW f \in Asked(cmd)
  PROVE  /\ f \in Frame /\ f.todo = {}
         /\ cmd = "UpsertSite" => f.row \in Row
         /\ cmd # "UpsertSite" => f.row.id = 0
         /\ cmd = "UpsertProfile" => f.profile \in Profile \ Stale
         /\ f.cmd = cmd
<1>1. profiles \subseteq Profile /\ sites \subseteq Row /\ lastRow + 1 \in Nat
  BY DEF RulesInv, Books
<1>2. cmd \in Cmds /\ NoRow \notin Row /\ NoRow.id = 0
  BY CommandsType DEF Cmds, NoRow, Row
<1>3. Ids \subseteq Nat /\ \A p : {s.id : s \in RowsOf(p)} \subseteq Nat
  BY <1>1 DEF Ids, RowsOf, Row
<1> DEFINE none == {"none"}
           off == {FALSE}
           noRow == {NoRow}
           noIds == {{}}
           one == {{id} : id \in Ids}
           all == {{s.id : s \in RowsOf(p)} : p \in profiles}
           ours == Profile \ Stale
           edited == {Retyped(s, d) : s \in sites, d \in Domain}
           made == [id : {lastRow + 1}, profile : profiles, domain : Domain, enabled : BOOLEAN]
           both == edited \cup made
<1>4. /\ none \in SUBSET (Profile \cup {"none"}) /\ ours \in SUBSET (Profile \cup {"none"})
      /\ off \in SUBSET BOOLEAN /\ BOOLEAN \in SUBSET BOOLEAN
      /\ noRow \in SUBSET (Row \cup {NoRow})
      /\ noIds \in SUBSET SUBSET Nat /\ one \in SUBSET SUBSET Nat /\ all \in SUBSET SUBSET Nat
  BY <1>3
<1>5. both \in SUBSET (Row \cup {NoRow}) /\ both \subseteq Row
  <2>1. edited \subseteq Row
    BY <1>1, DomainType DEF Retyped, Row
  <2>2. made \subseteq Row
    BY <1>1, DomainType DEF Row
  <2> QED
    BY <2>1, <2>2
<1>6. /\ cmd \in {"UpsertProfile", "DeleteProfile"} => f \in Naming(cmd, noRow, noIds, off, ours)
      /\ cmd = "UpsertSite" => f \in Naming(cmd, both, noIds, off, none)
      /\ cmd \in {"DeleteSite", "SetRedirectPage"} => f \in Naming(cmd, noRow, one, off, none)
      /\ cmd = "SetEnabled" => f \in Naming(cmd, noRow, one, BOOLEAN, none)
      /\ cmd = "SetEnabledBatch" => f \in Naming(cmd, noRow, all, BOOLEAN, none)
  BY DEF Asked
<1>7. \A row \in noRow : row.id = 0
  BY <1>2
<1> HIDE DEF none, off, noRow, noIds, one, all, ours, both
<1>8. CASE cmd \in {"UpsertProfile", "DeleteProfile"}
  <2>1. f \in Frame /\ f.cmd = cmd /\ f.row \in noRow /\ f.profile \in ours /\ f.todo = {}
    BY <1>2, <1>4, <1>6, <1>8 DEF Naming, Frame
  <2> QED
    BY <1>7, <1>8, <2>1 DEF ours
<1>9. CASE cmd = "UpsertSite"
  <2>1. f \in Frame /\ f.cmd = cmd /\ f.row \in both /\ f.todo = {}
    BY <1>2, <1>4, <1>5, <1>6, <1>9 DEF Naming, Frame
  <2> QED
    BY <1>5, <1>9, <2>1
<1>10. CASE cmd \in {"DeleteSite", "SetRedirectPage", "SetEnabled", "SetEnabledBatch"}
  <2>1. f \in Frame /\ f.cmd = cmd /\ f.row \in noRow /\ f.todo = {}
    BY <1>2, <1>4, <1>6, <1>10 DEF Naming, Frame
  <2> QED
    BY <1>7, <1>10, <2>1
<1> QED
  BY <1>8, <1>9, <1>10, CommandsType

LEMMA RequestStep ==
  ASSUME RulesInv, NEW c \in Client, Request(c)
  PROVE  RulesInv'
<1>1. c \in Thread \ {Main}
  BY ThreadsDistinct DEF Thread
<1>2. PICK cmd \in Commands : \E f \in Asked(cmd) :
        /\ GotoWith(c, "reject_if_session", f)
        /\ lastRow' = IF cmd = "UpsertSite" /\ f.row.id > lastRow THEN f.row.id ELSE lastRow
  BY DEF Request
<1>3. PICK f \in Asked(cmd) :
        /\ GotoWith(c, "reject_if_session", f)
        /\ lastRow' = IF cmd = "UpsertSite" /\ f.row.id > lastRow THEN f.row.id ELSE lastRow
  BY <1>2
<1>4. f \in Frame /\ f.todo = {} /\ f.row.id \in Nat /\ lastRow \in Nat
  BY AskedTypes DEF Frame, Row, NoRow, RulesInv, Books
<1>5. cmd # "UpsertSite" => f.row.id = 0
  BY AskedTypes
<1>6. Later /\ Known(f)'
  <2>1. CASE f.row.id > lastRow /\ lastRow' = f.row.id
    BY <1>4, <2>1 DEF Later, Known
  <2>2. CASE f.row.id <= lastRow /\ lastRow' = lastRow
    BY <1>4, <2>2 DEF Later, Known
  <2>3. cmd # "UpsertSite" => f.row.id <= lastRow
    BY <1>4, <1>5
  <2>4. f.row.id > lastRow \/ f.row.id <= lastRow
    BY <1>4
  <2> QED
    BY <1>3, <2>1, <2>2, <2>3, <2>4
<1>7. Fit("reject_if_session", f)
  BY AskedTypes DEF Fit, HasRow, Deletes, SeedDeletes
<1>8. service = "up" /\ UNCHANGED <<rules, service, live, stops>>
  BY DEF Request
<1>9. Control' /\ Phases' /\ SeedingSoFar'
  BY <1>1, <1>3, <1>4, <1>6, <1>7, <1>8, ThreadMoves DEF GotoWith
<1>10. Books'
  <2>1. profiles' = profiles /\ sites' = sites /\ lastRow' \in Nat
    BY <1>6, <1>8 DEF rules, Later
  <2>2. \A s \in sites : s.id <= lastRow'
    BY <1>6 DEF RulesInv, Books, Row, Later
  <2> QED
    BY <2>1, <2>2 DEF RulesInv, Books, NoOrphans
<1>11. BuiltinsServed'
  BY <1>8 DEF rules, RulesInv, BuiltinsServed
<1>12. Counters'
  <2>1. requests' \in Nat
    BY DEF Request, RulesInv, Counters
  <2>2. overlapped' \in BOOLEAN
    BY DEF Request, RulesInv, Counters
  <2> QED
    BY <1>8, <2>1, <2>2 DEF RulesInv, Counters
<1> QED
  BY <1>9, <1>10, <1>11, <1>12 DEF RulesInv

LEMMA RejectStep ==
  ASSUME RulesInv, NEW c \in Client, RejectIfSession(c)
  PROVE  RulesInv'
<1>1. c \in Thread \ {Main} /\ pc[c] = "reject_if_session" /\ pc[c] # "idle"
  BY ThreadsDistinct DEF Thread, RejectIfSession, At
<1>2. Fit(pc[c], frame[c]) /\ frame[c] \in Frame
  BY <1>1, OwnFrame
<1>3. Books' /\ UNCHANGED <<profiles, world, lastRow>>
  BY Same DEF RejectIfSession, Reads, rules
<1>4. CASE Return(c)
  BY <1>1, <1>3, <1>4, EndsQuietly DEF Return
<1>5. CASE Goto(c, FirstStep(frame[c].cmd))
  <2> DEFINE cmd == frame[c].cmd
  <2>1. /\ FirstStep(cmd) \in {"write_profile", "check_profiles", "find_row", "get_doomed", "get_row"}
        /\ FirstStep(cmd) = "write_profile" => cmd = "UpsertProfile"
        /\ FirstStep(cmd) = "find_row" => cmd = "UpsertSite"
    BY DEF FirstStep
  <2>2. Fit(FirstStep(cmd), frame[c])
    BY <1>1, <1>2, <2>1 DEF Fit, HasRow, Deletes, SeedDeletes
  <2> QED
    BY <1>1, <1>3, <1>5, <2>2, GoesQuietly
<1> QED
  BY <1>4, <1>5 DEF RejectIfSession

LEMMA HandleStep ==
  ASSUME RulesInv, NEW c \in Client, Handle(c)
  PROVE  RulesInv'
BY RejectStep, ProfileStep, ReadingStep, WritingStep DEF Handle

LEMMA ServiceStep ==
  ASSUME RulesInv, SessionStarts \/ SessionEnds \/ ServiceEnds \/ ServiceStarts
  PROVE  RulesInv'
<1>1. Main \in Thread
  BY DEF Thread
<1>2. UNCHANGED <<rules, lastRow>> /\ Books'
  BY Same DEF SessionStarts, SessionEnds, ServiceEnds, ServiceStarts
<1>3. CASE SessionStarts \/ SessionEnds
  <2>1. UNCHANGED <<service, pc, frame>> /\ Counters'
    BY <1>3 DEF SessionStarts, SessionEnds, RulesInv, Counters
  <2> QED
    BY <1>2, <2>1 DEF RulesInv, Control, Known, Phases, SeedingSoFar, RowsOf, BuiltinsServed, rules
<1>4. CASE ServiceEnds
  <2>1. /\ service' = "down" /\ pc' = [t \in Thread |-> "idle"]
        /\ frame' = [t \in Thread |-> EmptyFrame]
    BY <1>4 DEF ServiceEnds
  <2>2. Known(EmptyFrame)'
    BY <1>2, FrameTypes, NothingKnown DEF Known
  <2>3. Control'
    BY <2>1, <2>2, FrameTypes DEF Control, Known, Fit, HasRow, Deletes, SeedDeletes
  <2>4. Phases' /\ SeedingSoFar' /\ BuiltinsServed'
    BY <1>1, <2>1 DEF Phases, SeedingSoFar, BuiltinsServed
  <2>5. Counters'
    <3>1. stops \in Nat /\ stops' = stops + 1
      BY <1>4 DEF ServiceEnds, RulesInv, Counters
    <3>2. stops' \in Nat
      BY <3>1
    <3> QED
      BY <1>4, <3>2 DEF ServiceEnds, RulesInv, Counters
  <2> QED
    BY <1>2, <2>3, <2>4, <2>5 DEF RulesInv
<1>5. CASE ServiceStarts
  <2>1. /\ service' = "seeding" /\ pc' = [pc EXCEPT ![Main] = "seed_stale"] /\ frame' = frame
    BY <1>5 DEF ServiceStarts
  <2>2. Control'
    BY <1>1, <1>2, <2>1 DEF RulesInv, Control, Known, Fit, HasRow, Deletes, SeedDeletes
  <2>3. Phases' /\ SeedingSoFar' /\ BuiltinsServed'
    BY <1>1, <1>5, <2>1
    DEF ServiceStarts, RulesInv, Control, Phases, SeedingSoFar, BuiltinsServed
  <2>4. Counters'
    BY <1>5 DEF ServiceStarts, RulesInv, Counters
  <2> QED
    BY <1>2, <2>2, <2>3, <2>4 DEF RulesInv
<1> QED
  BY <1>3, <1>4, <1>5

LEMMA RulesInit == Init => RulesInv
<1> SUFFICES ASSUME Init PROVE RulesInv
  OBVIOUS
<1>1. PICK db \in Legacy : profiles = db.profiles /\ sites = db.sites /\ lastRow = Cardinality(db.sites)
  BY DEF Init
<1>2. Books
  BY <1>1, LegacyType DEF Books, NoOrphans
<1>3. pc = [t \in Thread |-> "idle"] /\ frame = [t \in Thread |-> EmptyFrame] /\ service = "down"
  BY DEF Init
<1>4. Known(EmptyFrame)
  BY <1>2, FrameTypes DEF Books, Known
<1>5. Control
  BY <1>3, <1>4, FrameTypes DEF Control, Fit, HasRow, Deletes, SeedDeletes
<1>6. Phases /\ SeedingSoFar /\ BuiltinsServed
  BY <1>3 DEF Phases, SeedingSoFar, BuiltinsServed, Thread
<1>7. Counters
  BY DEF Init, Counters
<1> QED
  BY <1>2, <1>5, <1>6, <1>7 DEF RulesInv

LEMMA RulesNext == RulesInv /\ [Next]_vars => RulesInv'
<1> SUFFICES ASSUME RulesInv, [Next]_vars PROVE RulesInv'
  OBVIOUS
<1>1. CASE UNCHANGED vars
  BY <1>1 DEF vars, rules, world, RulesInv, Books, NoOrphans, Control, Known, Phases, SeedingSoFar,
              RowsOf, BuiltinsServed, Counters
<1> QED
  BY <1>1, SeedStep, MigrateStep, RequestStep, HandleStep, ServiceStep DEF Next

LEMMA RulesAlways == Spec => []RulesInv
BY RulesInit, RulesNext, PTL DEF Spec

-----------------------------------------------------------------------------
\* The rows, the locals of every thread and the counters keep their types.
THEOREM RulesTyped == Spec => []TypeOK
<1>1. RulesInv => TypeOK
  BY DEF RulesInv, Books, Control, Phases, Counters, TypeOK, Frame
<1> QED
  BY <1>1, RulesAlways, PTL

\* No edit, seeding or migration, overlapping with any other or cut off at any statement,
\* leaves a site of a profile that is gone, or two rows with one id.
THEOREM NeverOrphaned == Spec => []NoOrphans
<1>1. RulesInv => NoOrphans
  BY DEF RulesInv, Books
<1> QED
  BY <1>1, RulesAlways, PTL

\* Whenever requests are served, the built-in profiles are there and the stale ones are
\* not, whatever was cut off in the starts before.
THEOREM BuiltinsAlwaysServed == Spec => []BuiltinsServed
<1>1. RulesInv => BuiltinsServed
  BY DEF RulesInv
<1> QED
  BY <1>1, RulesAlways, PTL

-----------------------------------------------------------------------------
(* As long as no request overlaps another, or the migration *)

Busy(t) == pc[t] \notin {"idle", "migrated", "failed"}

\* A domain the table may hold before the migration.
Stored(d) == Normal(d) \/ (d \in Domain /\ Norm(d) # <<>>)

Distinct ==
  \A s, r \in sites : s.profile = r.profile /\ s.domain = r.domain => s = r

\* The row may be written under its id: no other has its domain.
Free(row) ==
  \A s \in sites : s.profile = row.profile /\ s.domain = row.domain => s.id = row.id

\* The rows a thread has read are still in the table.
Placed(label, f) ==
  /\ label = "next_row" => f.todo \subseteq sites
  /\ label \in {"drop_row", "rename_row"} => f.row \in sites \ f.todo /\ f.todo \subseteq sites
  /\ label = "write_alias" => f.todo \subseteq Twins(f.row)

\* The rows about to be written clash with none.
Fresh(label, f) ==
  /\ label = "write_row" => Free(f.row)
  /\ label = "rename_row" => Free(Clean(f.row))

\* How far the domains are normalised.
Cleaned(label, f) ==
  /\ label = "next_row" => \A s \in sites \ f.todo : Normal(s.domain)
  /\ label \in {"drop_row", "rename_row"} =>
       \A s \in sites \ f.todo : s = f.row \/ Normal(s.domain)
  /\ label = "find_row" \/ (label = "reject_if_session" /\ f.cmd = "UpsertSite") =>
       f.row.domain \in Domain
  /\ label = "write_row" =>
       Stored(f.row.domain) /\ (pc[Warm] = "migrated" => Normal(f.row.domain))

Alone  == \A t, u \in Thread : Busy(t) /\ Busy(u) => t = u
InHand == pc[Warm] # "failed" /\ \A t \in Thread : Placed(pc[t], frame[t])
OneRow == OldUnique => Distinct /\ \A t \in Thread : Fresh(pc[t], frame[t])
Tidy   ==
  OldNormal =>
    /\ \A s \in sites : Stored(s.domain)
    /\ pc[Warm] = "migrated" => \A s \in sites : Normal(s.domain)
    /\ \A t \in Thread : Cleaned(pc[t], frame[t])

SerialRules == ~ overlapped => Alone /\ InHand /\ OneRow /\ Tidy

\* A thread that is at work is alone with the table.
LEMMA SerialMoves ==
  ASSUME RulesInv, SerialRules, ~ overlapped, NEW t \in Thread, Busy(t), overlapped' = overlapped,
         NEW label, NEW f, GotoWith(t, label, f), label # "failed",
         Placed(label, f)',
         OldUnique => (Distinct /\ Fresh(label, f))',
         OldNormal => /\ \A s \in sites' : Stored(s.domain)
                      /\ pc'[Warm] = "migrated" => \A s \in sites' : Normal(s.domain)
                      /\ Cleaned(label, f)'
  PROVE  SerialRules'
<1>1. /\ pc'[t] = label /\ frame'[t] = f
      /\ \A u \in Thread \ {t} : pc'[u] = pc[u] /\ frame'[u] = frame[u]
  BY DEF GotoWith, RulesInv, Control
<1>2. \A u \in Thread \ {t} : ~ Busy(u)
  BY DEF SerialRules, Alone
<1>3. \A u \in Thread \ {t} : pc'[u] \in {"idle", "migrated", "failed"}
  BY <1>1, <1>2 DEF Busy
<1>4. Alone'
  BY <1>3 DEF Alone, Busy
<1>5. ASSUME NEW u \in Thread \ {t}
      PROVE  Placed(pc[u], frame[u])' /\ Fresh(pc[u], frame[u])' /\ Cleaned(pc[u], frame[u])'
  BY <1>3 DEF Placed, Fresh, Cleaned
<1>6. pc'[Warm] # "failed"
  BY <1>1 DEF SerialRules, InHand, Thread
<1>7. \A u \in Thread : Placed(pc[u], frame[u])'
  BY <1>1, <1>5
<1>8. OldUnique => \A u \in Thread : Fresh(pc[u], frame[u])'
  BY <1>1, <1>5
<1>9. OldNormal => \A u \in Thread : Cleaned(pc[u], frame[u])'
  BY <1>1, <1>5
<1> QED
  BY <1>4, <1>6, <1>7, <1>8, <1>9 DEF SerialRules, InHand, OneRow, Tidy

\* At most of its steps nothing is asked of a thread.
Plain == {"idle", "seed_stale", "seed_delete_sites", "seed_delete_profile", "seed_profile",
          "write_profile", "check_profiles", "delete_sites", "delete_profile", "get_row",
          "find_alias", "get_doomed", "find_doomed", "delete_row"}

LEMMA PlainIsFine ==
  ASSUME NEW label \in Plain, NEW f
  PROVE  /\ label \notin {"failed", "migrated"}
         /\ Placed(label, f) /\ Fresh(label, f) /\ Cleaned(label, f)
         /\ (Placed(label, f) /\ Fresh(label, f) /\ Cleaned(label, f))'
BY DEF Plain, Placed, Fresh, Cleaned

\* A step that leaves the sites alone.
LEMMA SerialReads ==
  ASSUME RulesInv, SerialRules, ~ overlapped, NEW t \in Thread, Busy(t),
         UNCHANGED <<sites, overlapped>>,
         NEW label, NEW f, GotoWith(t, label, f), label \notin {"failed", "migrated"},
         t = Warm => label # "write_row",
         Placed(label, f), OldUnique => Fresh(label, f), OldNormal => Cleaned(label, f)
  PROVE  SerialRules'
<1>1. Placed(label, f)'
  BY DEF Placed, Twins, RowsOf
<1>2. OldUnique => (Distinct /\ Fresh(label, f))'
  BY DEF SerialRules, OneRow, Distinct, Fresh, Free
<1>3. t # Warm => pc'[Warm] = pc[Warm]
  BY DEF GotoWith, RulesInv, Control
<1>4. pc'[Warm] = "migrated" => pc[Warm] = "migrated"
  BY <1>3 DEF GotoWith, RulesInv, Control
<1>5. OldNormal => Cleaned(label, f)'
  BY <1>3 DEF Cleaned
<1> QED
  BY <1>1, <1>2, <1>4, <1>5, SerialMoves DEF SerialRules, Tidy

LEMMA PlainReads ==
  ASSUME RulesInv, SerialRules, NEW t \in Thread, Busy(t),
         UNCHANGED <<sites, overlapped>>, NEW label \in Plain, NEW f, GotoWith(t, label, f)
  PROVE  SerialRules'
<1>1. CASE overlapped
  BY <1>1 DEF SerialRules
<1>2. CASE ~ overlapped
  BY <1>2, PlainIsFine, SerialReads DEF Plain
<1> QED
  BY <1>1, <1>2

\* A step that deletes rows.
LEMMA PlainDeletes ==
  ASSUME RulesInv, SerialRules, NEW t \in Thread, Busy(t),
         sites' \subseteq sites, overlapped' = overlapped,
         NEW label \in Plain, NEW f, GotoWith(t, label, f)
  PROVE  SerialRules'
<1>1. CASE overlapped
  BY <1>1 DEF SerialRules
<1>2. CASE ~ overlapped
  <2>1. OldUnique => Distinct'
    BY <1>2 DEF SerialRules, OneRow, Distinct
  <2>2. pc'[Warm] = "migrated" => pc[Warm] = "migrated"
    BY DEF GotoWith, RulesInv, Control, Plain
  <2>3. OldNormal => /\ \A s \in sites' : Stored(s.domain)
                     /\ pc'[Warm] = "migrated" => \A s \in sites' : Normal(s.domain)
    BY <1>2, <2>2 DEF SerialRules, Tidy
  <2> QED
    BY <1>2, <2>1, <2>3, PlainIsFine, SerialMoves
<1> QED
  BY <1>1, <1>2

\* A row written under an id that no other row with its domain has.
LEMMA FreeWritten ==
  ASSUME NEW row, UpsertRow(row)
  PROVE  /\ Distinct /\ Free(row) => Distinct'
         /\ \A s \in sites' : s = row \/ (s \in sites /\ s.id # row.id)
         /\ \A s \in sites : s.id # row.id => s \in sites'
         /\ UNCHANGED <<profiles, world, lastRow>>
<1>1. sites' = Upserted(row) /\ UNCHANGED <<profiles, world, lastRow>>
  BY DEF UpsertRow
<1>2. \A s \in sites' : s = row \/ (s \in sites /\ s.id # row.id)
  BY <1>1 DEF Upserted
<1>3. \A s \in sites : s.id # row.id => s \in sites'
  BY <1>1 DEF Upserted
<1>4. ASSUME Distinct, Free(row) PROVE Distinct'
  BY <1>2, <1>4 DEF Distinct, Free
<1> QED
  BY <1>1, <1>2, <1>3, <1>4

\* A request that writes a row.
LEMMA PlainWrites ==
  ASSUME RulesInv, SerialRules, ~ overlapped, NEW t \in Thread \ {Warm}, Busy(t),
         NEW row, UpsertRow(row), NEW label \in Plain, NEW f, GotoWith(t, label, f),
         OldUnique => Free(row),
         OldNormal => Stored(row.domain) /\ (pc[Warm] = "migrated" => Normal(row.domain))
  PROVE  SerialRules'
<1>1. overlapped' = overlapped /\ pc'[Warm] = pc[Warm]
  BY FreeWritten DEF world, GotoWith, RulesInv, Control
<1>2. OldUnique => Distinct'
  BY FreeWritten DEF SerialRules, OneRow
<1>3. OldNormal => /\ \A s \in sites' : Stored(s.domain)
                   /\ pc'[Warm] = "migrated" => \A s \in sites' : Normal(s.domain)
  BY <1>1, FreeWritten DEF SerialRules, Tidy
<1> QED
  BY <1>1, <1>2, <1>3, PlainIsFine, SerialMoves

\* Where a thread is at work, and whose thread it is.
LEMMA AtWork ==
  /\ Main \in Thread /\ Warm \in Thread /\ Main # Warm
  /\ \A c \in Client : c \in Thread \ {Main, Warm}
BY ThreadsDistinct DEF Thread, Main, Warm

\* The seeding: a domain is added where it is missing.
LEMMA SeedSerial ==
  ASSUME RulesInv, SerialRules, Seed
  PROVE  SerialRules'
<1> USE DEF At
<1>0. Main \in Thread /\ Warm \in Thread /\ Main # Warm
  BY AtWork
<1>1. Busy(Main) /\ service = "seeding"
  BY <1>0 DEF Seed, SeedStale, SeedDeleteSites, SeedDeleteProfile, SeedProfile, SeedSite, Seeded, Busy,
     RulesInv, Phases
<1>2. \A t \in Thread \ {Main} : pc[t] = "idle"
  BY <1>1 DEF RulesInv, Phases
<1>3. frame = [frame EXCEPT ![Main] = frame[Main]]
  BY <1>0, OwnFrame
<1>4. CASE SeedStale
  <2>1. UNCHANGED <<sites, overlapped>>
    BY <1>4 DEF SeedStale, Reads, rules, world
  <2>2. \E label \in Plain : \E f : GotoWith(Main, label, f)
    <3>1. CASE Goto(Main, "seed_profile")
      BY <1>3, <3>1 DEF Goto, GotoWith, Plain
    <3>2. CASE ~ Goto(Main, "seed_profile")
      BY <1>4, <3>2 DEF SeedStale, Plain
    <3> QED
      BY <3>1, <3>2
  <2> QED
    BY <1>0, <1>1, <2>1, <2>2, PlainReads
<1>5. CASE SeedDeleteSites \/ SeedDeleteProfile
  <2>1. sites' \subseteq sites /\ overlapped' = overlapped
    BY <1>5 DEF SeedDeleteSites, SeedDeleteProfile, world
  <2>2. \E label \in Plain : GotoWith(Main, label, frame[Main])
    BY <1>3, <1>5 DEF SeedDeleteSites, SeedDeleteProfile, Goto, GotoWith, Plain
  <2> QED
    BY <1>0, <1>1, <2>1, <2>2, PlainDeletes
<1>6. CASE SeedProfile
  <2>1. UNCHANGED <<sites, overlapped>> /\ GotoWith(Main, "seed_profile", frame[Main])
    BY <1>3, <1>6 DEF SeedProfile, world, Goto, GotoWith
  <2> QED
    BY <1>0, <1>1, <2>1, PlainReads DEF Plain
<1>7. CASE SeedSite
  <2>1. overlapped' = overlapped /\ GotoWith(Main, "seed_profile", frame[Main])
    BY <1>3, <1>7 DEF SeedSite, world, Goto, GotoWith
  <2>2. PICK p \in Builtin \cap profiles : \E d \in Missing(p) :
          sites' = sites \cup {[id |-> lastRow + 1, profile |-> p, domain |-> d, enabled |-> TRUE]}
    BY <1>7 DEF SeedSite
  <2>3. PICK d \in Missing(p) :
          sites' = sites \cup {[id |-> lastRow + 1, profile |-> p, domain |-> d, enabled |-> TRUE]}
    BY <2>2
  <2> DEFINE new == [id |-> lastRow + 1, profile |-> p, domain |-> d, enabled |-> TRUE]
  <2>4. new.profile = p /\ new.domain = d /\ sites' = sites \cup {new}
    BY <2>3
  <2>5. d \in Seeds[p] /\ \A s \in sites : ~ (s.profile = p /\ s.domain = d)
    BY <2>3 DEF Missing, RowsOf
  <2> HIDE DEF new
  <2>6. CASE ~ overlapped
    <3>1. OldUnique => Distinct'
      BY <2>4, <2>5, <2>6 DEF SerialRules, OneRow, Distinct
    <3>2. OldNormal => Normal(d)
      BY <2>2, <2>5 DEF OldNormal
    <3>3. OldNormal => \A s \in sites' : Stored(s.domain)
      BY <2>4, <2>6, <3>2 DEF SerialRules, Tidy, Stored
    <3>4. pc'[Warm] # "migrated"
      BY <1>0, <1>2, <2>1 DEF GotoWith, RulesInv, Control
    <3> QED
      BY <1>0, <1>1, <2>1, <2>6, <3>1, <3>3, <3>4, PlainIsFine, SerialMoves DEF Plain
  <2>7. CASE overlapped
    BY <2>1, <2>7 DEF SerialRules
  <2> QED
    BY <2>6, <2>7
<1>8. CASE Seeded
  <2>1. /\ UNCHANGED <<sites, frame, overlapped>> /\ pc'[Main] = "idle" /\ pc'[Warm] = "list_rows"
        /\ \A t \in Thread \ {Main, Warm} : pc'[t] = "idle"
    BY <1>0, <1>2, <1>8 DEF Seeded, rules, RulesInv, Control
  <2>2. \A t \in Thread : pc'[t] \in {"idle", "list_rows"}
    BY <2>1
  <2>3. Alone' /\ InHand' /\ \A t \in Thread : Fresh(pc[t], frame[t])' /\ Cleaned(pc[t], frame[t])'
    BY <1>0, <2>1, <2>2 DEF Alone, Busy, InHand, Placed, Fresh, Cleaned
  <2> QED
    BY <2>1, <2>3 DEF SerialRules, OneRow, Distinct, Tidy
<1> QED
  BY <1>4, <1>5, <1>6, <1>7, <1>8 DEF Seed

\* The migration: what it has listed stays in the table until it is renamed or dropped,
\* and what it has not listed is normal.
LEMMA MigrateSerial ==
  ASSUME RulesInv, SerialRules, Migrate
  PROVE  SerialRules'
<1> USE DEF At
<1>0. Warm \in Thread
  BY AtWork
<1>f. PICK f : f = frame[Warm]
  OBVIOUS
<1>1. /\ Busy(Warm) /\ overlapped' = overlapped
      /\ pc[Warm] \in {"list_rows", "next_row", "drop_row", "rename_row"}
  BY FreeWritten DEF Migrate, ListRows, NextRow, DropRow, RenameRow, DeleteRow, UpsertRow, Reads, world, Busy
<1>2. SUFFICES ASSUME ~ overlapped PROVE SerialRules'
  BY <1>1 DEF SerialRules
<1>3. /\ Placed(pc[Warm], f) /\ f \in Frame /\ \A s \in sites : s.profile \in profiles
      /\ \A s, r \in sites : s.id = r.id => s = r
      /\ frame = [frame EXCEPT ![Warm] = f]
  BY <1>0, <1>f, <1>2, OwnFrame DEF SerialRules, InHand, RulesInv, Books, NoOrphans
<1>4. OldUnique => Distinct /\ Fresh(pc[Warm], f)
  BY <1>0, <1>f, <1>2 DEF SerialRules, OneRow
<1>5. OldNormal => (\A s \in sites : Stored(s.domain)) /\ Cleaned(pc[Warm], f)
  BY <1>0, <1>f, <1>2 DEF SerialRules, Tidy
<1>6. OldNormal => \A d : Stored(d) => Normal(Norm(d))
  <2>1. ASSUME OldNormal, NEW d, Normal(d) PROVE Normal(Norm(d))
    BY <2>1 DEF OldNormal, Normal
  <2> QED
    BY <2>1 DEF Stored, Normal
<1>7. CASE ListRows
  <2> DEFINE listed == {s \in sites : Norm(s.domain) \notin {<<>>, s.domain}}
             g == [EmptyFrame EXCEPT !.todo = listed]
  <2>1. g.todo = listed /\ GotoWith(Warm, "next_row", g) /\ UNCHANGED sites
    BY <1>7 DEF ListRows, EmptyFrame, Reads, rules
  <2>2. OldNormal => \A s \in sites \ listed : Normal(s.domain)
    BY <1>5 DEF Stored, Normal
  <2>3. Placed("next_row", g) /\ Fresh("next_row", g) /\ (OldNormal => Cleaned("next_row", g))
    BY <2>1, <2>2 DEF Placed, Fresh, Cleaned
  <2> HIDE DEF g
  <2> QED
    BY <1>0, <1>1, <1>2, <2>1, <2>3, SerialReads
<1>8. CASE NextRow
  <2>1. UNCHANGED sites /\ pc[Warm] = "next_row"
    BY <1>8 DEF NextRow, Reads, rules
  <2>2. CASE f.todo = {} /\ GotoWith(Warm, "migrated", EmptyFrame)
    <3>1. OldNormal => \A s \in sites : Normal(s.domain)
      BY <1>5, <2>1, <2>2 DEF Cleaned
    <3>2. (Placed("migrated", EmptyFrame) /\ Fresh("migrated", EmptyFrame) /\ Cleaned("migrated", EmptyFrame))'
      BY DEF Placed, Fresh, Cleaned
    <3>3. OldUnique => Distinct'
      BY <1>4, <2>1 DEF Distinct
    <3> QED
      BY <1>0, <1>1, <1>2, <1>5, <2>1, <2>2, <3>1, <3>2, <3>3, SerialMoves
  <2>3. ASSUME NEW row \in f.todo,
               GotoWith(Warm, IF Clash(row) THEN "drop_row" ELSE "rename_row",
                        [f EXCEPT !.row = row, !.todo = f.todo \ {row}])
        PROVE  SerialRules'
    <3> DEFINE label == IF Clash(row) THEN "drop_row" ELSE "rename_row"
               g == [f EXCEPT !.row = row, !.todo = f.todo \ {row}]
    <3>1. g.row = row /\ g.todo = f.todo \ {row} /\ row \in sites /\ f.todo \subseteq sites
      BY <1>3, <2>1, <2>3 DEF Frame, Placed
    <3>2. label \in {"drop_row", "rename_row"} /\ (label = "rename_row" => ~ Clash(row))
      OBVIOUS
    <3> HIDE DEF g, label
    <3>3. Placed(label, g)
      BY <3>1, <3>2 DEF Placed
    <3>4. Fresh(label, g)
      <4>1. Clean(row).profile = row.profile /\ Clean(row).domain = Norm(row.domain)
              /\ Clean(row).id = row.id
        BY <3>1 DEF Clean, Retyped, RulesInv, Books, Row
      <4> QED
        BY <3>1, <3>2, <4>1 DEF Fresh, Free, Clash, RowsOf
    <3>5. OldNormal => Cleaned(label, g)
      BY <1>5, <2>1, <3>1, <3>2 DEF Cleaned
    <3>6. GotoWith(Warm, label, g)
      BY <2>3 DEF label, g
    <3> QED
      BY <1>0, <1>1, <1>2, <2>1, <3>2, <3>3, <3>4, <3>5, <3>6, SerialReads
  <2> QED
    BY <1>f, <1>8, <2>2, <2>3 DEF NextRow
<1>9. ASSUME pc[Warm] \in {"drop_row", "rename_row"}, GotoWith(Warm, "next_row", f),
             \A s \in sites' : (s \in sites /\ s # f.row) \/ (OldNormal => Normal(s.domain)),
             \A s \in sites : s.id # f.row.id => s \in sites',
             OldUnique => Distinct'
      PROVE  SerialRules'
  <2>1. f.row \in sites \ f.todo /\ f.todo \subseteq sites
    BY <1>3, <1>9 DEF Placed
  <2>2. Placed("next_row", f)'
    BY <1>3, <1>9, <2>1 DEF Placed
  <2>3. Fresh("next_row", f)'
    BY DEF Fresh
  <2>4. OldNormal => \A s \in sites' \ f.todo : Normal(s.domain)
    BY <1>5, <1>9, <2>1 DEF Cleaned
  <2>5. OldNormal => Cleaned("next_row", f)'
    BY <2>4 DEF Cleaned
  <2>6. OldNormal => \A s \in sites' : Stored(s.domain)
    BY <1>5, <1>9 DEF Stored
  <2>7. pc'[Warm] # "migrated"
    BY <1>0, <1>9 DEF GotoWith, RulesInv, Control
  <2> QED
    BY <1>0, <1>1, <1>2, <1>9, <2>2, <2>3, <2>5, <2>6, <2>7, SerialMoves
<1>10. CASE DropRow
  <2>1. sites' = {s \in sites : s.id # f.row.id} /\ pc[Warm] = "drop_row"
          /\ GotoWith(Warm, "next_row", f)
    BY <1>f, <1>3, <1>10 DEF DropRow, DeleteRow, Goto, GotoWith
  <2>2. OldUnique => Distinct'
    BY <1>4, <2>1 DEF Distinct
  <2> QED
    BY <1>9, <2>1, <2>2
<1>11. CASE RenameRow
  <2>1. f.row \in sites /\ pc[Warm] = "rename_row" /\ f.row \in Row
    BY <1>f, <1>3, <1>11 DEF RenameRow, Placed, RulesInv, Books
  <2>2. UpsertRow(Clean(f.row)) /\ GotoWith(Warm, "next_row", f)
    BY <1>f, <1>3, <1>11, <2>1 DEF RenameRow, ParentExists, Goto, GotoWith
  <2>3. Clean(f.row).id = f.row.id /\ Clean(f.row).domain = Norm(f.row.domain)
    BY <2>1 DEF Clean, Retyped, Row
  <2>4. OldNormal => Normal(Clean(f.row).domain)
    BY <1>5, <1>6, <2>1, <2>3
  <2>5. OldUnique => Distinct'
    BY <1>4, <2>1, <2>2, FreeWritten DEF Fresh
  <2>6. \A s \in sites' : s = Clean(f.row) \/ (s \in sites /\ s.id # f.row.id)
    BY <2>2, <2>3, FreeWritten
  <2>7. \A s \in sites : s.id # f.row.id => s \in sites'
    BY <2>2, <2>3, FreeWritten
  <2> QED
    BY <1>9, <2>1, <2>2, <2>4, <2>5, <2>6, <2>7
<1> QED
  BY <1>7, <1>8, <1>10, <1>11 DEF Migrate

\* What a request brings along, and what it has read, may be written.
LEMMA RequestSerial ==
  ASSUME RulesInv, SerialRules, NEW c \in Client, Request(c)
  PROVE  SerialRules'
<1>1. c \in Thread /\ c # Warm
  BY AtWork
<1>2. UNCHANGED sites /\ pc[c] = "idle" /\ service = "up"
  BY DEF Request, rules, At
<1>3. SUFFICES ASSUME ~ overlapped' PROVE SerialRules'
  BY DEF SerialRules
<1>4. ~ overlapped /\ \A t \in Thread \ {c} : ~ Busy(t)
  BY <1>3 DEF Request, Busy
<1>a. PICK cmd \in Commands : \E f \in Asked(cmd) : GotoWith(c, "reject_if_session", f)
  BY DEF Request
<1>5. PICK f \in Asked(cmd) : GotoWith(c, "reject_if_session", f)
  BY <1>a
<1>6. f.cmd = cmd /\ f \in Frame
  BY <1>5, AskedTypes
<1>7. ASSUME cmd = "UpsertSite" PROVE f.row.domain \in Domain
  <2> DEFINE edited == {Retyped(s, d) : s \in sites, d \in Domain}
             made == [id : {lastRow + 1}, profile : profiles, domain : Domain, enabled : BOOLEAN]
  <2>1. f.row \in edited \cup made
    BY <1>5, <1>7 DEF Asked, Naming
  <2>2. \A r \in edited : r.domain \in Domain
    BY DEF Retyped, RulesInv, Books, Row
  <2> HIDE DEF edited
  <2> QED
    BY <2>1, <2>2
<1>8. /\ pc'[c] = "reject_if_session" /\ frame'[c] = f
      /\ \A u \in Thread \ {c} : pc'[u] = pc[u] /\ frame'[u] = frame[u]
  BY <1>1, <1>5 DEF GotoWith, RulesInv, Control
<1>9. \A u \in Thread \ {c} : pc'[u] \in {"idle", "migrated", "failed"}
  BY <1>4, <1>8 DEF Busy
<1>10. Alone'
  BY <1>9 DEF Alone, Busy
<1>11. ASSUME NEW u \in Thread
       PROVE  /\ Placed(pc[u], frame[u])' /\ Fresh(pc[u], frame[u])' /\ Cleaned(pc[u], frame[u])'
  <2>1. CASE u = c
    BY <1>6, <1>7, <1>8, <2>1 DEF Placed, Fresh, Cleaned
  <2>2. CASE u # c
    BY <1>9, <2>2 DEF Placed, Fresh, Cleaned
  <2> QED
    BY <2>1, <2>2
<1>12. pc'[Warm] = pc[Warm]
  BY <1>1, <1>8, AtWork
<1> QED
  BY <1>2, <1>4, <1>10, <1>11, <1>12 DEF SerialRules, InHand, OneRow, Distinct, Tidy

\* The edits of profiles, and all that only reads or deletes.
LEMMA PlainSerial ==
  ASSUME RulesInv, SerialRules, NEW c \in Client,
         WriteProfile(c) \/ CheckProfiles(c) \/ DeleteSites(c) \/ DeleteProfile(c)
           \/ GetDoomed(c) \/ FindDoomed(c) \/ DeleteDoomed(c)
  PROVE  SerialRules'
<1> USE DEF At
<1>1. c \in Thread /\ Busy(c)
  BY AtWork DEF WriteProfile, CheckProfiles, DeleteSites, DeleteProfile, GetDoomed, FindDoomed,
                DeleteDoomed, Busy
<1>2. sites' \subseteq sites /\ overlapped' = overlapped
  BY DEF WriteProfile, CheckProfiles, DeleteSites, DeleteProfile, GetDoomed, FindDoomed,
         DeleteDoomed, DeleteRow, Reads, rules, world
<1>3. \E label \in Plain : \E f : GotoWith(c, label, f)
  <2>1. ASSUME Return(c) PROVE \E label \in Plain : \E f : GotoWith(c, label, f)
    BY <2>1 DEF Return, Plain
  <2>2. ASSUME NEW label \in Plain, Goto(c, label) PROVE GotoWith(c, label, frame[c])
    BY <1>1, <2>2, OwnFrame DEF Goto, GotoWith
  <2>3. \/ Return(c) \/ Goto(c, "delete_sites") \/ Goto(c, "delete_profile") \/ Goto(c, "delete_row")
        \/ \E f : GotoWith(c, "find_doomed", f) \/ GotoWith(c, "delete_row", f)
    BY DEF WriteProfile, CheckProfiles, DeleteSites, DeleteProfile, GetDoomed, FindDoomed, DeleteDoomed
  <2> QED
    BY <2>1, <2>2, <2>3 DEF Plain
<1> QED
  BY <1>1, <1>2, <1>3, PlainDeletes

LEMMA RejectSerial ==
  ASSUME RulesInv, SerialRules, NEW c \in Client, RejectIfSession(c)
  PROVE  SerialRules'
<1>1. c \in Thread /\ c # Warm /\ Busy(c) /\ pc[c] = "reject_if_session"
  BY AtWork DEF RejectIfSession, At, Busy
<1>2. UNCHANGED <<sites, overlapped>>
  BY DEF RejectIfSession, Reads, rules, world
<1>3. CASE Return(c)
  BY <1>1, <1>2, <1>3, PlainReads DEF Return, Plain
<1>4. CASE Goto(c, FirstStep(frame[c].cmd))
  <2>1. GotoWith(c, FirstStep(frame[c].cmd), frame[c])
    BY <1>1, <1>4, OwnFrame DEF Goto, GotoWith
  <2>2. CASE FirstStep(frame[c].cmd) \in Plain
    BY <1>1, <1>2, <2>1, <2>2, PlainReads
  <2>3. CASE FirstStep(frame[c].cmd) = "find_row" /\ frame[c].cmd = "UpsertSite"
    <3>1. Placed("find_row", frame[c]) /\ Fresh("find_row", frame[c])
      BY DEF Placed, Fresh
    <3>2. ~ overlapped /\ OldNormal => Cleaned("find_row", frame[c])
      BY <1>1, <2>3 DEF SerialRules, Tidy, Cleaned
    <3>3. overlapped => SerialRules'
      BY <1>2 DEF SerialRules
    <3> QED
      BY <1>1, <1>2, <2>1, <2>3, <3>1, <3>2, <3>3, SerialReads
  <2> QED
    BY <2>2, <2>3 DEF FirstStep, Plain
<1> QED
  BY <1>3, <1>4 DEF RejectIfSession

\* A row that is about to be written clashes with none, and is normal.
LEMMA WillWrite ==
  ASSUME RulesInv, SerialRules, ~ overlapped, NEW c \in Client, Busy(c),
         UNCHANGED <<sites, overlapped>>, NEW f, GotoWith(c, "write_row", f),
         OldUnique => Free(f.row),
         OldNormal => Stored(f.row.domain) /\ (pc[Warm] = "migrated" => Normal(f.row.domain))
  PROVE  SerialRules'
<1>1. c \in Thread /\ c # Warm
  BY AtWork
<1>2. Placed("write_row", f) /\ (OldUnique => Fresh("write_row", f))
        /\ (OldNormal => Cleaned("write_row", f))
  BY DEF Placed, Fresh, Cleaned
<1> QED
  BY <1>1, <1>2, SerialReads

LEMMA FindRowSerial ==
  ASSUME RulesInv, SerialRules, NEW c \in Client, FindRow(c)
  PROVE  SerialRules'
<1>1. c \in Thread /\ Busy(c) /\ pc[c] = "find_row" /\ frame[c] \in Frame /\ frame[c].row \in Row
  BY AtWork, OwnFrame DEF FindRow, At, Busy, Fit, HasRow
<1>2. UNCHANGED <<sites, overlapped>>
  BY DEF FindRow, Reads, rules, world
<1>3. SUFFICES ASSUME ~ overlapped PROVE SerialRules'
  BY <1>2 DEF SerialRules
<1>4. PICK row : row = Clean(frame[c].row)
  OBVIOUS
<1>5. row \in Row /\ row.domain = Norm(frame[c].row.domain)
  BY <1>1, <1>4, CleanRow DEF Clean, Retyped, Row
<1>6. OldNormal => Normal(row.domain) /\ Stored(row.domain)
  BY <1>1, <1>3, <1>5 DEF SerialRules, Tidy, Cleaned, Normal, Stored
<1>7. CASE Return(c)
  BY <1>1, <1>2, <1>7, PlainReads DEF Return, Plain
<1>8. ASSUME NEW r \in Row, r.domain = row.domain, OldUnique => Free(r),
             GotoWith(c, "write_row", [frame[c] EXCEPT !.row = r])
      PROVE  SerialRules'
  <2>1. PICK f : f = [frame[c] EXCEPT !.row = r]
    OBVIOUS
  <2>2. f.row = r
    BY <1>1, <2>1 DEF Frame
  <2> QED
    BY <1>1, <1>2, <1>3, <1>6, <1>8, <2>1, <2>2, WillWrite
<1>9. CASE /\ {s \in RowsOf(row.profile) : s.domain = row.domain} = {}
           /\ GotoWith(c, "write_row", [frame[c] EXCEPT !.row = row])
  <2>1. Free(row)
    BY <1>9 DEF Free, RowsOf
  <2> QED
    BY <1>5, <1>8, <1>9, <2>1
<1>10. ASSUME NEW s \in RowsOf(row.profile), s.domain = row.domain,
              GotoWith(c, "write_row", [frame[c] EXCEPT !.row =
                IF s.id = row.id THEN row ELSE [row EXCEPT !.id = s.id, !.enabled = TRUE]])
       PROVE  SerialRules'
  <2>1. PICK r : r = IF s.id = row.id THEN row ELSE [row EXCEPT !.id = s.id, !.enabled = TRUE]
    OBVIOUS
  <2>2. s \in sites /\ s.id \in Nat /\ s.profile = row.profile
    BY <1>10 DEF RowsOf, RulesInv, Books, Row
  <2>3. r \in Row /\ r.id = s.id /\ r.profile = row.profile /\ r.domain = row.domain
    BY <1>5, <2>1, <2>2 DEF Row
  <2>4. OldUnique => Free(r)
    BY <1>3, <1>10, <2>2, <2>3 DEF SerialRules, OneRow, Distinct, Free
  <2> QED
    BY <1>8, <1>10, <2>1, <2>3, <2>4
<1> QED
  BY <1>4, <1>7, <1>9, <1>10 DEF FindRow

LEMMA GetRowSerial ==
  ASSUME RulesInv, SerialRules, NEW c \in Client, GetRow(c)
  PROVE  SerialRules'
<1>1. c \in Thread /\ Busy(c) /\ pc[c] = "get_row" /\ frame[c] \in Frame
  BY AtWork, OwnFrame DEF GetRow, At, Busy
<1>2. UNCHANGED <<sites, overlapped>>
  BY DEF GetRow, Reads, rules, world
<1>3. SUFFICES ASSUME ~ overlapped PROVE SerialRules'
  BY <1>2 DEF SerialRules
<1>4. CASE Return(c) \/ \E f : GotoWith(c, "get_row", f)
  BY <1>1, <1>2, <1>4, PlainReads DEF Return, Plain
<1>5. ASSUME NEW id \in frame[c].ids, NEW s \in sites, NEW f,
             f = [frame[c] EXCEPT !.ids = frame[c].ids \ {id}],
             GotoWith(c, "write_row", [f EXCEPT !.row =
                  IF f.cmd = "SetRedirectPage" THEN s ELSE [s EXCEPT !.enabled = f.on]])
      PROVE  SerialRules'
  <2>1. f \in Frame /\ s \in Row
    BY <1>1, <1>5 DEF Frame, RulesInv, Books
  <2>2. PICK r : r = IF f.cmd = "SetRedirectPage" THEN s ELSE [s EXCEPT !.enabled = f.on]
    OBVIOUS
  <2>3. r.id = s.id /\ r.profile = s.profile /\ r.domain = s.domain
    BY <2>1, <2>2 DEF Row
  <2>4. PICK g : g = [f EXCEPT !.row = r]
    OBVIOUS
  <2>5. g.row = r /\ GotoWith(c, "write_row", g)
    BY <1>5, <2>1, <2>2, <2>4 DEF Frame
  <2>6. OldUnique => Free(g.row)
    BY <1>3, <1>5, <2>3, <2>5 DEF SerialRules, OneRow, Distinct, Free
  <2>7. OldNormal => Stored(g.row.domain) /\ (pc[Warm] = "migrated" => Normal(g.row.domain))
    BY <1>3, <1>5, <2>3, <2>5 DEF SerialRules, Tidy
  <2> QED
    BY <1>1, <1>2, <1>3, <2>5, <2>6, <2>7, WillWrite
<1> QED
  BY <1>4, <1>5 DEF GetRow

LEMMA WriteRowSerial ==
  ASSUME RulesInv, SerialRules, NEW c \in Client, WriteRow(c)
  PROVE  SerialRules'
<1>1. c \in Thread \ {Warm} /\ Busy(c) /\ pc[c] = "write_row"
  BY AtWork DEF WriteRow, At, Busy
<1>2. overlapped' = overlapped
  BY FreeWritten DEF WriteRow, UpsertRow, Reads, world
<1>3. SUFFICES ASSUME ~ overlapped PROVE SerialRules'
  BY <1>2 DEF SerialRules
<1>4. CASE Return(c) /\ Reads
  BY <1>1, <1>2, <1>4, PlainReads DEF Return, Reads, rules, Plain
<1>5. CASE /\ UpsertRow(frame[c].row)
           /\ Goto(c, IF frame[c].cmd = "SetRedirectPage" THEN "get_row" ELSE "find_alias")
  <2>1. \E label \in Plain : GotoWith(c, label, frame[c])
    BY <1>1, <1>5, OwnFrame DEF Goto, GotoWith, Plain
  <2>2. OldUnique => Free(frame[c].row)
    BY <1>1, <1>3 DEF SerialRules, OneRow, Fresh
  <2>3. OldNormal => /\ Stored(frame[c].row.domain)
                     /\ pc[Warm] = "migrated" => Normal(frame[c].row.domain)
    BY <1>1, <1>3 DEF SerialRules, Tidy, Cleaned
  <2> QED
    BY <1>1, <1>3, <1>5, <2>1, <2>2, <2>3, PlainWrites
<1> QED
  BY <1>4, <1>5 DEF WriteRow

LEMMA AliasSerial ==
  ASSUME RulesInv, SerialRules, NEW c \in Client, FindAlias(c) \/ WriteAlias(c)
  PROVE  SerialRules'
<1> USE DEF At
<1>1. c \in Thread \ {Warm} /\ Busy(c) /\ frame[c] \in Frame
  BY AtWork, OwnFrame DEF FindAlias, WriteAlias, Busy
<1>2. overlapped' = overlapped
  BY FreeWritten DEF FindAlias, WriteAlias, UpsertRow, Reads, world
<1>3. SUFFICES ASSUME ~ overlapped PROVE SerialRules'
  BY <1>2 DEF SerialRules
<1>4. CASE FindAlias(c)
  <2>1. UNCHANGED sites
    BY <1>4 DEF FindAlias, Reads, rules
  <2>2. CASE Goto(c, "get_row")
    <3>1. GotoWith(c, "get_row", frame[c])
      BY <1>1, <2>2, OwnFrame DEF Goto, GotoWith
    <3> QED
      BY <1>1, <1>2, <2>1, <3>1, PlainReads DEF Plain
  <2>3. ASSUME NEW s \in Twins(frame[c].row),
               GotoWith(c, "write_alias", [frame[c] EXCEPT !.todo = {s}])
        PROVE  SerialRules'
    <3>1. PICK f : f = [frame[c] EXCEPT !.todo = {s}]
      OBVIOUS
    <3>2. f.todo = {s} /\ f.row = frame[c].row
      BY <1>1, <3>1 DEF Frame
    <3>3. Placed("write_alias", f) /\ Fresh("write_alias", f) /\ Cleaned("write_alias", f)
      BY <2>3, <3>2 DEF Placed, Fresh, Cleaned
    <3> QED
      BY <1>1, <1>2, <1>3, <2>1, <2>3, <3>1, <3>3, SerialReads
  <2> QED
    BY <1>4, <2>2, <2>3 DEF FindAlias, AfterAliases
<1>5. CASE WriteAlias(c)
  <2>1. \E f : GotoWith(c, "get_row", f)
    BY <1>5 DEF WriteAlias
  <2>2. CASE Reads
    BY <1>1, <1>2, <2>1, <2>2, PlainReads DEF Reads, rules, Plain
  <2>3. ASSUME NEW s \in frame[c].todo, UpsertRow([s EXCEPT !.enabled = frame[c].row.enabled])
        PROVE  SerialRules'
    <3>1. s \in sites /\ s \in Row
      BY <1>1, <1>3, <1>5, <2>3
         DEF SerialRules, InHand, Placed, WriteAlias, Twins, RowsOf, RulesInv, Books
    <3>2. PICK r : r = [s EXCEPT !.enabled = frame[c].row.enabled]
      OBVIOUS
    <3>3. r.id = s.id /\ r.profile = s.profile /\ r.domain = s.domain /\ UpsertRow(r)
      BY <2>3, <3>1, <3>2 DEF Row
    <3>4. OldUnique => Free(r)
      BY <1>3, <3>1, <3>3 DEF SerialRules, OneRow, Distinct, Free
    <3>5. OldNormal => Stored(r.domain) /\ (pc[Warm] = "migrated" => Normal(r.domain))
      BY <1>3, <3>1, <3>3 DEF SerialRules, Tidy
    <3> QED
      BY <1>1, <1>3, <2>1, <3>3, <3>4, <3>5, PlainWrites DEF Plain
  <2> QED
    BY <1>5, <2>2, <2>3 DEF WriteAlias
<1> QED
  BY <1>4, <1>5

LEMMA ServiceSerial ==
  ASSUME RulesInv, SerialRules,
         SessionStarts \/ SessionEnds \/ ServiceEnds \/ ServiceStarts \/ UNCHANGED vars
  PROVE  SerialRules'
<1>1. UNCHANGED <<sites, overlapped>>
  BY DEF SessionStarts, SessionEnds, ServiceEnds, ServiceStarts, vars, rules, world
<1>2. CASE UNCHANGED <<pc, frame>>
  BY <1>1, <1>2 DEF SerialRules, Alone, Busy, InHand, OneRow, Tidy, Distinct, Placed, Twins, RowsOf,
                    Fresh, Free, Cleaned
<1>3. CASE ServiceEnds
  <2>1. \A t \in Thread : pc'[t] = "idle"
    BY <1>3 DEF ServiceEnds
  <2>2. pc'[Warm] = "idle"
    BY <2>1, AtWork
  <2> QED
    BY <1>1, <2>1, <2>2 DEF SerialRules, Alone, Busy, InHand, OneRow, Tidy, Distinct, Placed, Fresh, Cleaned
<1>4. CASE ServiceStarts
  <2>1. \A t \in Thread : pc[t] = "idle"
    BY <1>4, AtWork DEF ServiceStarts, RulesInv, Phases
  <2>2. /\ pc'[Main] = "seed_stale" /\ \A t \in Thread \ {Main} : pc'[t] = "idle"
        /\ pc'[Warm] = "idle"
    BY <1>4, <2>1, AtWork DEF ServiceStarts, RulesInv, Control
  <2>3. \A t \in Thread : pc'[t] \in {"idle", "seed_stale"}
    BY <2>2
  <2>4. Alone' /\ InHand' /\ \A t \in Thread : Fresh(pc[t], frame[t])' /\ Cleaned(pc[t], frame[t])'
    BY <2>2, <2>3 DEF Alone, Busy, InHand, Placed, Fresh, Cleaned
  <2> QED
    BY <1>1, <2>2, <2>4 DEF SerialRules, OneRow, Tidy, Distinct
<1> QED
  BY <1>2, <1>3, <1>4 DEF SessionStarts, SessionEnds, vars

LEMMA SerialRulesInit == Init => SerialRules
<1> SUFFICES ASSUME Init PROVE SerialRules
  OBVIOUS
<1>1. \A t \in Thread : pc[t] = "idle"
  BY DEF Init
<1>2. pc[Warm] = "idle"
  BY <1>1, AtWork
<1>3. Alone /\ InHand /\ \A t \in Thread : Fresh(pc[t], frame[t]) /\ Cleaned(pc[t], frame[t])
  BY <1>1, <1>2 DEF Alone, Busy, InHand, Placed, Fresh, Cleaned
<1>4. PICK db \in Legacy : sites = db.sites
  BY DEF Init
<1>5. OldUnique => Distinct
  BY <1>4 DEF OldUnique, Distinct
<1>6. OldNormal => \A s \in sites : Stored(s.domain)
  BY <1>4 DEF OldNormal, Stored
<1> QED
  BY <1>2, <1>3, <1>5, <1>6 DEF SerialRules, OneRow, Tidy

LEMMA SerialRulesNext == RulesInv /\ SerialRules /\ [Next]_vars => SerialRules'
<1> SUFFICES ASSUME RulesInv, SerialRules, [Next]_vars PROVE SerialRules'
  OBVIOUS
<1>1. ASSUME NEW c \in Client, Handle(c) PROVE SerialRules'
  BY <1>1, PlainSerial, RejectSerial, FindRowSerial, GetRowSerial, WriteRowSerial, AliasSerial
     DEF Handle
<1> QED
  BY <1>1, SeedSerial, MigrateSerial, RequestSerial, ServiceSerial DEF Next

LEMMA SerialRulesAlways == Spec => [](RulesInv /\ SerialRules)
BY RulesInit, RulesNext, SerialRulesInit, SerialRulesNext, PTL DEF Spec

-----------------------------------------------------------------------------
\* The migration never fails, so that the warm-up goes on to clear the network, unless a
\* request overlapped: what it has listed is in the table, with its profile, until it is
\* renamed or dropped.
THEOREM MigrationGoesOn == Spec => []WarmUpGoesOn
<1>1. SerialRules => WarmUpGoesOn
  BY DEF SerialRules, InHand, WarmUpGoesOn
<1> QED
  BY <1>1, SerialRulesAlways, PTL

\* A profile has one row per domain, whatever seedings, migrations, edits and stops came,
\* as long as none overlapped, if the database had.
THEOREM OneRowPerDomain ==
  ASSUME OldUnique
  PROVE  Spec => []UniqueDomains
<1>1. SerialRules => UniqueDomains
  BY DEF SerialRules, OneRow, Distinct, UniqueDomains
<1> QED
  BY <1>1, SerialRulesAlways, PTL

\* After the migration, and through all edits that do not overlap, the database holds what
\* normalize_domain returns of domains that may be typed.
THEOREM MigratedIsNormal ==
  ASSUME OldNormal
  PROVE  Spec => []StoredNormal
<1>1. SerialRules => StoredNormal
  BY DEF SerialRules, Tidy, StoredNormal
<1> QED
  BY <1>1, SerialRulesAlways, PTL

\* What is asked of the step that ends an edit.
Follows(c) ==
  /\ pc[c] \in {"find_alias", "write_alias"} /\ pc'[c] = "get_row"
  /\ ~ overlapped
  => \A s \in sites' :
         s.profile = frame[c].row.profile /\ s.domain \in Aliases(frame[c].row.domain)
           => s.enabled = frame[c].row.enabled

\* A domain has one alias at most.
LEMMA OneAlias ==
  ASSUME NEW d, NEW a \in Aliases(d), NEW b \in Aliases(d)
  PROVE  a = b
BY DEF Aliases, SameProduct

LEMMA EditFollows ==
  ASSUME RulesInv, SerialRules, OldUnique, [Next]_vars, NEW c \in Client
  PROVE  Follows(c)
<1> USE DEF At
<1>1. SUFFICES ASSUME pc[c] \in {"find_alias", "write_alias"}, pc'[c] = "get_row", ~ overlapped,
                      NEW t \in sites', t.profile = frame[c].row.profile,
                      t.domain \in Aliases(frame[c].row.domain)
               PROVE  t.enabled = frame[c].row.enabled
  BY DEF Follows
<1>2. c \in Thread \ {Main, Warm} /\ Busy(c) /\ Distinct /\ Placed(pc[c], frame[c])
        /\ service = "up"
  BY <1>1, AtWork DEF Busy, SerialRules, OneRow, InHand, RulesInv, Phases
<1>3. FindAlias(c) \/ WriteAlias(c)
  <2>1. \A u \in Thread : Busy(u) => u = c
    BY <1>1, <1>2 DEF SerialRules, Alone
  <2>2. ~ Seed /\ ~ Migrate
    BY <1>2, <2>1, AtWork DEF Seed, SeedStale, SeedDeleteSites, SeedDeleteProfile, SeedProfile, SeedSite,
       Seeded, Migrate, ListRows, NextRow, DropRow, RenameRow, Busy
  <2>3. ~ (SessionStarts \/ SessionEnds \/ ServiceEnds \/ ServiceStarts \/ UNCHANGED vars)
    BY <1>1, <1>2 DEF SessionStarts, SessionEnds, ServiceEnds, ServiceStarts, vars
  <2>4. ASSUME NEW d \in Client, Request(d) PROVE FALSE
    <3>1. pc[d] = "idle" /\ \E f : GotoWith(d, "reject_if_session", f)
      BY <2>4 DEF Request
    <3> QED
      BY <1>1, <1>2, <3>1 DEF GotoWith, RulesInv, Control
  <2>5. ASSUME NEW d \in Client, Handle(d) PROVE d = c
    BY <2>1, <2>5, AtWork DEF Handle, RejectIfSession, WriteProfile, CheckProfiles, DeleteSites, DeleteProfile,
       FindRow, GetRow, WriteRow, FindAlias, WriteAlias, GetDoomed, FindDoomed, DeleteDoomed, Busy
  <2>6. Handle(c)
    BY <2>2, <2>3, <2>4, <2>5 DEF Next
  <2> QED
    BY <1>1, <2>6 DEF Handle, RejectIfSession, WriteProfile, CheckProfiles, DeleteSites, DeleteProfile,
       FindRow, GetRow, WriteRow, GetDoomed, FindDoomed, DeleteDoomed
<1>4. CASE FindAlias(c)
  <2>1. t \in Twins(frame[c].row) /\ \A s \in Twins(frame[c].row) : s = t
    BY <1>1, <1>2, <1>4, OneAlias DEF FindAlias, Reads, rules, Twins, RowsOf, Distinct
  <2>2. pc'[c] # "write_alias"
    BY <1>1
  <2>3. \E s \in Twins(frame[c].row) : s.enabled = frame[c].row.enabled
    BY <1>2, <1>4, <2>1, <2>2 DEF FindAlias, GotoWith, RulesInv, Control
  <2> QED
    BY <2>1, <2>3
<1>5. CASE WriteAlias(c)
  <2>1. PICK s \in frame[c].todo :
          \/ ParentExists(s) /\ UpsertRow([s EXCEPT !.enabled = frame[c].row.enabled])
          \/ ~ ParentExists(s) /\ Reads
    BY <1>5 DEF WriteAlias
  <2>2. s \in Twins(frame[c].row) /\ s \in sites /\ s \in Row /\ s.profile \in profiles
    BY <1>2, <1>5, <2>1 DEF WriteAlias, Placed, Twins, RowsOf, RulesInv, Books, NoOrphans
  <2>3. PICK r : r = [s EXCEPT !.enabled = frame[c].row.enabled]
    OBVIOUS
  <2>4. UpsertRow(r) /\ r.id = s.id /\ r.enabled = frame[c].row.enabled
    BY <2>1, <2>2, <2>3 DEF ParentExists, Row
  <2>5. t = r \/ (t \in sites /\ t.id # s.id)
    BY <1>1, <2>4, FreeWritten
  <2>6. t \in sites => t = s
    BY <1>1, <1>2, <2>2, OneAlias DEF Twins, RowsOf, Distinct
  <2> QED
    BY <2>4, <2>5, <2>6
<1> QED
  BY <1>3, <1>4, <1>5

\* An edit that ends leaves the other name of its domain as it left the domain, whatever
\* seedings, migrations, edits and stops came before, as long as none overlapped.
THEOREM EditsAliasesToo ==
  ASSUME OldUnique
  PROVE  Spec => AliasesFollow
<1>1. RulesInv /\ SerialRules /\ [Next]_vars => [\A c \in Client : Follows(c)]_vars
  BY EditFollows
<1> QED
  BY <1>1, SerialRulesAlways, PTL DEF Spec, AliasesFollow, Follows

=============================================================================
