-------------------------- MODULE PageServerProofs --------------------------
(***************************************************************************)
(* Proofs about PageServer, for every set of domains, any number of        *)
(* sessions, visits, generations of the certificate and ends of the        *)
(* process, and every write that fails: a routed domain is served under a  *)
(* certificate that covers it, and no session is charged the visits of     *)
(* another.                                                                *)
(***************************************************************************)
EXTENDS PageServer, SequenceTheorems, TLAPS

-----------------------------------------------------------------------------
(* The inductive invariant *)

Generating == {"write_cer", "write_key", "write_stamp"}
Paired     == Generating \cup {"trust", "load"}
Named      == Paired \cup {"check_stamp"}
Steps      == Named \cup {"idle", "read_names"}

Pair  == [cert : Cert, key : Nat]
Visit == [id : Nat, domain : Domain, at : {"read", "count"}, during : Nat]

\* The names a certificate for these routes has.
Covering == IF routes = {} THEN {"localhost"} ELSE routes

Typed ==
  /\ TypeOK
  /\ pc \in Steps
  /\ pc \in Named => names = Covering
  /\ pc \in Paired => pair \in Pair
  /\ pc \in {"write_key", "write_stamp", "trust", "load"} => cer = pair.cert
  /\ visit \in [Listener -> Visit \cup {None}]
  /\ session \in Nat /\ certs \in Nat /\ visits \in Nat /\ sessions \in Nat

\* While the server is down, and until its first refresh has gone well, nothing is routed.
Quiet ==
  /\ ~ up => pc = "idle" /\ calls = <<>> /\ routes = {} /\ tls = None
  /\ up /\ tls = None /\ ~ failed => pc # "idle" /\ calls = <<>> /\ routes = {}

Matches(cert, k) == cert.names = names /\ cert.key = k

\* Unless a write has failed: the pair at hand matches, if there is anything to cover;
\* what was written of it is in the files; and once a refresh has gone well, files that a
\* later one may use match, but for those of no route at all, which the end of the process
\* may have left half written under the stamp of an earlier start.
Matching ==
  ~ failed =>
    /\ pc \in Generating => Matches(pair.cert, pair.key)
    /\ pc \in {"trust", "load"} /\ routes # {} => Matches(pair.cert, pair.key)
    /\ pc \in {"write_stamp", "trust", "load"} => key = pair.key
    /\ pc \in {"trust", "load"} => stamp = names
    /\ pc = "load" => pair.cert \in root
    /\ tls # None /\ pc \in {"idle", "read_names", "check_stamp", "write_cer"} =>
         stamp = {"localhost"} \/ (cer.names = stamp /\ cer.key = key)

\* Between two refreshes the routes are covered.
Covered ==
  up /\ pc = "idle" /\ ~ failed =>
    \A d \in routes : d \in tls.cert.names /\ tls.cert.key = tls.key /\ tls.cert \in root

CertInv == Typed /\ Quiet /\ Matching /\ Covered

\* The calls to come: of a start, of an end, or of a park; a reset and a drain come last.
Calls == [op : {"set_route", "clear_route", "clear_routes", "reset_hits", "drain_hits"},
          domain : Domain \cup {None}]

ResetAhead == calls # <<>> /\ calls[Len(calls)].op = "reset_hits"
DrainAhead == calls # <<>> /\ calls[Len(calls)].op = "drain_hits"

Scripted ==
  /\ calls \in Seq(Calls)
  /\ \A i \in 1 .. Len(calls) :
       /\ calls[i].op = "set_route" => calls[i].domain \in Domain
       /\ calls[i].op \in {"reset_hits", "drain_hits"} => i = Len(calls)
  /\ ResetAhead \/ DrainAhead => session # 0

\* A visit that is served has an identity of its own.
Serving(l) == visit[l] # None

Once ==
  /\ \A l \in Listener : Serving(l) =>
       /\ visit[l].id <= visits
       /\ \A h \in hits : h.id # visit[l].id
       /\ \A r \in drained : \A h \in r.hits : h.id # visit[l].id
  /\ \A l, m \in Listener : Serving(l) /\ Serving(m) /\ l # m => visit[l].id # visit[m].id
  /\ \A h \in hits : h.id <= visits /\ \A r \in drained : \A k \in r.hits : k.id # h.id
  /\ \A r \in drained : \A h \in r.hits : h.id <= visits

\* Once its hits were reset, what is counted or about to be is of this session, or was open.
Charged ==
  session # 0 /\ ~ ResetAhead =>
    /\ \A h \in hits : h.during = session \/ h.id \in open
    /\ \A l \in Listener :
         Serving(l) /\ visit[l].at = "count" => visit[l].during = session \/ visit[l].id \in open

HitsInv == Scripted /\ Once /\ Charged /\ HitsOfTheirSession

-----------------------------------------------------------------------------
(* The calls of the engine *)

\* What is left of a list when its first element is taken.
LEMMA NoneLeft == ASSUME NEW S, NEW t \in Seq(S) PROVE t = <<>> <=> Len(t) = 0
BY EmptySeq
LEMMA Pop ==
  ASSUME NEW S, NEW s \in Seq(S), s # <<>>
  PROVE  /\ Len(s) \in Nat \ {0} /\ Head(s) = s[1] /\ Tail(s) \in Seq(S)
         /\ Len(Tail(s)) = Len(s) - 1
         /\ Tail(s) = <<>> <=> Len(s) = 1
         /\ \A i \in 1 .. Len(s) - 1 : Tail(s)[i] = s[i + 1]
<1>1. Len(s) \in Nat \ {0}
  BY EmptySeq
<1>2. /\ Tail(s) \in Seq(S) /\ Len(Tail(s)) = Len(s) - 1 /\ Head(s) = s[1]
      /\ \A i \in 1 .. Len(s) - 1 : Tail(s)[i] = s[i + 1]
  BY HeadTailProperties, <1>1
<1>3. PICK t : t = Tail(s)
  OBVIOUS
<1>4. t = <<>> <=> Len(t) = 0
  BY NoneLeft, <1>2, <1>3
<1> QED
  BY <1>1, <1>2, <1>3, <1>4

\* What the next call is, and what is ahead after it.
LEMMA NextCall ==
  ASSUME Scripted, calls # <<>>, calls' = Tail(calls)
  PROVE  LET op == Head(calls).op IN
         /\ op = "set_route" => Head(calls).domain \in Domain
         /\ op = "drain_hits" => ~ ResetAhead /\ session # 0
         /\ op = "reset_hits" => ResetAhead /\ session # 0
         /\ op \in {"drain_hits", "reset_hits"} => calls' = <<>>
         /\ op \notin {"drain_hits", "reset_hits"} =>
              (ResetAhead' <=> ResetAhead) /\ (DrainAhead' <=> DrainAhead)
         /\ session' = session => Scripted'
<1> DEFINE n == Len(calls)
<1>0. /\ calls \in Seq(Calls)
      /\ \A i \in 1 .. n : /\ calls[i].op = "set_route" => calls[i].domain \in Domain
                           /\ calls[i].op \in {"reset_hits", "drain_hits"} => i = n
      /\ ResetAhead \/ DrainAhead => session # 0
  BY DEF Scripted
<1>1. /\ n \in Nat \ {0} /\ Head(calls) = calls[1] /\ calls' \in Seq(Calls)
      /\ Len(calls') = n - 1
      /\ calls' = <<>> <=> n = 1
      /\ \A i \in 1 .. n - 1 : calls'[i] = calls[i + 1]
  BY <1>0, Pop
<1> HIDE DEF n
<1>2. 1 \in 1 .. n /\ n \in 1 .. n /\ 1 .. Len(calls') = 1 .. n - 1
  BY <1>1
<1>3. Head(calls).op \in {"drain_hits", "reset_hits"} => n = 1
  BY <1>0, <1>1, <1>2
<1>4. n # 1 => calls'[Len(calls')] = calls[n]
  <2>1. ASSUME n # 1 PROVE n - 1 \in 1 .. n - 1 /\ (n - 1) + 1 = n
    BY <1>1, <2>1
  <2> QED
    BY <1>1, <2>1
<1>5. ASSUME Head(calls).op \notin {"drain_hits", "reset_hits"}
      PROVE  (ResetAhead' <=> ResetAhead) /\ (DrainAhead' <=> DrainAhead)
  BY <1>1, <1>4, <1>5 DEF ResetAhead, DrainAhead, n
<1>6. ASSUME session' = session PROVE Scripted'
  <2>1. ASSUME NEW i \in 1 .. Len(calls')
        PROVE  /\ calls'[i].op = "set_route" => calls'[i].domain \in Domain
               /\ calls'[i].op \in {"reset_hits", "drain_hits"} => i = Len(calls')
    <3>1. i + 1 \in 1 .. n /\ calls'[i] = calls[i + 1] /\ (i + 1 = n => i = Len(calls'))
      BY <1>1, <1>2, <2>1
    <3> QED
      BY <1>0, <3>1
  <2>2. (ResetAhead \/ DrainAhead)' => session' # 0
    BY <1>0, <1>1, <1>3, <1>5, <1>6 DEF ResetAhead, DrainAhead
  <2> QED
    BY <1>1, <2>1, <2>2 DEF Scripted
<1>7. Head(calls).op = "set_route" => Head(calls).domain \in Domain
  BY <1>0, <1>1, <1>2
<1>8. ASSUME Head(calls).op \in {"drain_hits", "reset_hits"}
      PROVE  Head(calls) = calls[n] /\ calls' = <<>>
  BY <1>1, <1>3, <1>8
<1> QED
  BY <1>0, <1>5, <1>6, <1>7, <1>8 DEF ResetAhead, DrainAhead, n

\* What the engine is about to call at a start, at an end and at a park.
LEMMA Scripts ==
  /\ \A d \in Domain :
       /\ StartCalls(d) \in Seq(Calls) /\ Len(StartCalls(d)) = 4
       /\ \A i \in 1 .. 4 :
            /\ StartCalls(d)[i].op = "set_route" => StartCalls(d)[i].domain \in Domain
            /\ StartCalls(d)[i].op # "drain_hits"
            /\ StartCalls(d)[i].op = "reset_hits" <=> i = 4
  /\ LET end == <<Call("clear_routes", None), Call("drain_hits", None)>> IN
       /\ end \in Seq(Calls) /\ Len(end) = 2
       /\ end[1].op = "clear_routes" /\ end[2].op = "drain_hits"
  /\ LET park == <<Call("clear_routes", None)>> IN
       /\ park \in Seq(Calls) /\ Len(park) = 1 /\ park[1].op = "clear_routes"
BY DEF StartCalls, Call, Calls
-----------------------------------------------------------------------------
(* The certificate covers the routes *)

LEMMA CoveringIsNames == ASSUME routes \subseteq Domain PROVE Covering \in Names
<1>1. CASE routes = {}
  BY <1>1 DEF Covering, Names
<1>2. CASE routes # {}
  <2>1. routes \in (SUBSET Domain) \ {{}}
    BY <1>2
  <2> QED
    BY <1>2, <2>1, Zenon DEF Covering, Names
<1> QED
  BY <1>1, <1>2

\* A refresh keeps the books of what it has at hand, in the files and in use.
LEMMA RefreshMatches ==
  ASSUME CertInv, RefreshTls
  PROVE  CertInv'
<1> USE DEF Steps, Named, Paired, Generating
<1>0. Typed /\ Quiet /\ Matching /\ Covered /\ TypeOK /\ Covering \in Names /\ Covering # None
  BY CoveringIsNames, NoneType DEF CertInv, Typed, TypeOK
<1>1. CASE ReadNames
  <2>1. Typed'
    BY <1>0, <1>1 DEF ReadNames, Typed, TypeOK, Covering, world, files, record
  <2>2. (Quiet /\ Matching /\ Covered)'
    BY <1>0, <1>1 DEF ReadNames, Quiet, Matching, Covered, world, files, record
  <2> QED
    BY <2>1, <2>2 DEF CertInv
<1>2. CASE CheckStamp
  <2>1. names = Covering
    BY <1>0, <1>2 DEF CheckStamp, Typed
  <2>2. CASE Reuse /\ pair' = [cert |-> cer, key |-> key] /\ pc' = "trust" /\ UNCHANGED certs
    <3>1. cer \in Cert /\ key \in Nat /\ pair'.cert = cer /\ pair'.key = key /\ pair' \in Pair
      BY <1>0, <2>2 DEF Reuse, TypeOK, Pair
    <3>2. Typed'
      BY <1>0, <1>2, <2>2, <3>1 DEF CheckStamp, Typed, TypeOK, Covering, world, files, record
    <3>3. ~ failed /\ routes # {} => cer.names = names /\ cer.key = key
      <4>1. ASSUME ~ failed, routes # {} PROVE cer.names = names /\ cer.key = key
        <5>1. tls # None
          BY <1>0, <1>2, <4>1 DEF Quiet, CheckStamp, TypeOK
        <5>2. stamp # {"localhost"}
          BY <1>0, <2>1, <2>2, <4>1, DomainType DEF Reuse, Covering, TypeOK
        <5> QED
          BY <1>0, <1>2, <2>2, <4>1, <5>1, <5>2 DEF Matching, CheckStamp, Reuse
      <4> QED
        BY <4>1
    <3>4. (Quiet /\ Matching /\ Covered)'
      BY <1>0, <1>2, <2>2, <3>1, <3>3
         DEF CheckStamp, Quiet, Matching, Covered, Matches, Reuse, world, files, record
    <3> QED
      BY <3>2, <3>4 DEF CertInv
  <2>3. CASE /\ certs' = certs + 1
             /\ pair' = [cert |-> [names |-> names, key |-> certs'], key |-> certs']
             /\ pc' = "write_cer"
    <3>1. pair' \in Pair /\ pair'.cert.names = names /\ pair'.cert.key = pair'.key
      BY <1>0, <2>1, <2>3 DEF Typed, Pair, Cert
    <3>2. Typed'
      BY <1>0, <1>2, <2>3, <3>1 DEF CheckStamp, Typed, TypeOK, Covering, world, files, record
    <3>3. (Quiet /\ Matching /\ Covered)'
      BY <1>0, <1>2, <2>3, <3>1
         DEF CheckStamp, Quiet, Matching, Covered, Matches, world, files, record
    <3> QED
      BY <3>2, <3>3 DEF CertInv
  <2> QED
    BY <1>2, <2>2, <2>3 DEF CheckStamp
<1>3. CASE WriteFails
  <2>1. Typed'
    BY <1>0, <1>3 DEF WriteFails, Typed, TypeOK, Covering, world, files, record
  <2>2. (Quiet /\ Matching /\ Covered)'
    BY <1>0, <1>3 DEF WriteFails, Quiet, Matching, Covered, TypeOK, world
  <2> QED
    BY <2>1, <2>2 DEF CertInv
<1>4. CASE WriteCer
  <2>1. Typed'
    BY <1>0, <1>4 DEF WriteCer, Typed, TypeOK, Covering, Pair, world, record
  <2>2. (Quiet /\ Matching /\ Covered)'
    BY <1>0, <1>4 DEF WriteCer, Quiet, Matching, Covered, Matches, world, record
  <2> QED
    BY <2>1, <2>2 DEF CertInv
<1>5. CASE WriteKey
  <2>1. Typed'
    BY <1>0, <1>5 DEF WriteKey, Typed, TypeOK, Covering, Pair, world, record
  <2>2. (Quiet /\ Matching /\ Covered)'
    BY <1>0, <1>5 DEF WriteKey, Quiet, Matching, Covered, Matches, world, record
  <2> QED
    BY <2>1, <2>2 DEF CertInv
<1>6. CASE WriteStamp
  <2>1. Typed'
    BY <1>0, <1>6 DEF WriteStamp, Typed, TypeOK, Covering, world, record
  <2>2. (Quiet /\ Matching /\ Covered)'
    BY <1>0, <1>6 DEF WriteStamp, Quiet, Matching, Covered, Matches, world, record
  <2> QED
    BY <2>1, <2>2 DEF CertInv
<1>7. CASE Trust
  <2>1. Typed'
    BY <1>0, <1>7 DEF Trust, Typed, TypeOK, Covering, Pair, world, files, record
  <2>2. (Quiet /\ Matching /\ Covered)'
    BY <1>0, <1>7 DEF Trust, Typed, Quiet, Matching, Covered, Matches, world, files, record
  <2> QED
    BY <2>1, <2>2 DEF CertInv
<1>8. CASE Load
  <2>1. pair \in Pair /\ pair # None /\ names = Covering /\ cer = pair.cert
    BY <1>0, <1>8, NoneType DEF Load, Typed, Pair
  <2>2. Typed'
    BY <1>0, <1>8, <2>1 DEF Load, Typed, TypeOK, Pair, Covering, world, files, record
  <2>3. (Quiet /\ Matching /\ Covered)'
    BY <1>0, <1>8, <2>1
       DEF Load, Quiet, Matching, Covered, Matches, Covering, TypeOK, world, files, record
  <2> QED
    BY <2>2, <2>3 DEF CertInv
<1> QED
  BY <1>1, <1>2, <1>3, <1>4, <1>5, <1>6, <1>7, <1>8 DEF RefreshTls

\* The calls of the engine: those that change the routes have them covered anew.
LEMMA CallMatches ==
  ASSUME CertInv, Scripted,
         SetRoute \/ ClearRoute \/ ClearRoutes \/ ResetHits \/ DrainHits
           \/ StartSession \/ EndSession \/ ParkSession
  PROVE  CertInv'
<1> USE DEF Steps, Named, Paired, Generating
<1>0. Typed /\ Quiet /\ Matching /\ Covered /\ TypeOK
  BY DEF CertInv, Typed
<1>1. CASE SetRoute \/ ClearRoute \/ ClearRoutes
  <2>1. PICK op \in {"set_route", "clear_route", "clear_routes"},
             changed \in {routes \cup {Head(calls).domain}, routes \ {Head(calls).domain}, {}} :
          Route(op, changed) /\ (op = "set_route" \/ changed \subseteq routes)
    BY <1>1 DEF SetRoute, ClearRoute, ClearRoutes
  <2>2. changed \subseteq Domain
    <3>1. op = "set_route" => Head(calls).domain \in Domain
      BY <2>1, NextCall DEF Route, Step
    <3> QED
      BY <1>0, <2>1, <3>1 DEF TypeOK
  <2>3. Typed'
    BY <1>0, <2>1, <2>2 DEF Route, Step, Typed, TypeOK, world, files, record
  <2>4. (Quiet /\ Matching /\ Covered)'
    BY <1>0, <2>1 DEF Route, Step, Quiet, Matching, Covered, world, files, record
  <2> QED
    BY <2>3, <2>4 DEF CertInv
<1>2. CASE ResetHits \/ DrainHits
  <2>1. Typed'
    <3>1. CASE ResetHits
      BY <1>0, <3>1 DEF ResetHits, Step, Typed, TypeOK, Hits, Covering, world, files
    <3>2. CASE DrainHits
      BY <1>0, <3>2 DEF DrainHits, Step, Typed, TypeOK, Hits, Covering, world, files
    <3> QED
      BY <1>2, <3>1, <3>2
  <2>2. (Quiet /\ Matching /\ Covered)'
    BY <1>0, <1>2 DEF ResetHits, DrainHits, Step, Quiet, Matching, Covered, Matches, world, files
  <2> QED
    BY <2>1, <2>2 DEF CertInv
<1>3. CASE StartSession \/ EndSession \/ ParkSession
  <2>1. PICK next : Drive(next)
    BY <1>3 DEF StartSession, EndSession, ParkSession
  <2>2. session' \in Nat /\ sessions' \in Nat
    BY <1>0, <1>3 DEF StartSession, EndSession, ParkSession, Typed
  <2>3. Typed'
    BY <1>0, <2>1, <2>2 DEF Drive, Idle, Typed, TypeOK, Covering, world, files
  <2>4. (Quiet /\ Matching /\ Covered)'
    BY <1>0, <2>1 DEF Drive, Idle, Quiet, Matching, Covered, Matches, world, files
  <2> QED
    BY <2>3, <2>4 DEF CertInv
<1> QED
  BY <1>1, <1>2, <1>3

\* The listeners, and the process.
LEMMA WorldMatches ==
  ASSUME CertInv,
         (\E l \in Listener : Accept(l) \/ LookUp(l) \/ Count(l) \/ Dismiss(l))
           \/ Ends \/ Starts \/ Uninstall \/ UNCHANGED vars
  PROVE  CertInv'
<1> USE DEF Steps, Named, Paired, Generating
<1>0. Typed /\ Quiet /\ Matching /\ Covered /\ TypeOK
  BY DEF CertInv, Typed
<1>1. ASSUME NEW l \in Listener, Accept(l) \/ LookUp(l) \/ Count(l) \/ Dismiss(l)
      PROVE  CertInv'
  <2>1. /\ UNCHANGED <<world, routes, tls, files, root, refresh, session, drained, sessions, failed, certs>>
        /\ visit' \in [Listener -> Visit \cup {None}] /\ visits' \in Nat /\ hits' \in Hits
    <3>1. CASE Accept(l)
      BY <1>0, <3>1 DEF Accept, Typed, TypeOK, Visit, record
    <3>2. CASE LookUp(l)
      BY <1>0, <3>2 DEF LookUp, Typed, TypeOK, Visit, record
    <3>3. CASE Count(l)
      BY <1>0, <3>3 DEF Count, Typed, TypeOK, Visit, Hits, record
    <3>4. CASE Dismiss(l)
      BY <1>0, <3>4 DEF Dismiss, Typed, TypeOK, record
    <3> QED
      BY <1>1, <3>1, <3>2, <3>3, <3>4
  <2>2. Typed'
    BY <1>0, <2>1 DEF Typed, TypeOK, Covering, world, files, refresh
  <2>3. (Quiet /\ Matching /\ Covered)'
    BY <1>0, <2>1 DEF Quiet, Matching, Covered, Matches, world, files, refresh
  <2> QED
    BY <2>2, <2>3 DEF CertInv
<1>2. CASE Ends
  <2>1. Typed'
    BY <1>0, <1>2 DEF Ends, Typed, TypeOK, Hits, files
  <2>2. (Quiet /\ Matching /\ Covered)'
    BY <1>2 DEF Ends, Quiet, Matching, Covered
  <2> QED
    BY <2>1, <2>2 DEF CertInv
<1>3. CASE Starts
  <2>1. Typed'
    BY <1>0, <1>3 DEF Starts, Typed, TypeOK, files, record
  <2>2. (Quiet /\ Matching /\ Covered)'
    BY <1>0, <1>3 DEF Starts, Quiet, Matching, Covered
  <2> QED
    BY <2>1, <2>2 DEF CertInv
<1>4. CASE Uninstall
  <2>1. Typed'
    BY <1>0, <1>4 DEF Uninstall, Quiet, Typed, TypeOK, refresh, record
  <2>2. (Quiet /\ Matching /\ Covered)'
    BY <1>0, <1>4 DEF Uninstall, Quiet, Matching, Covered, refresh
  <2> QED
    BY <2>1, <2>2 DEF CertInv
<1>5. CASE UNCHANGED vars
  BY <1>0, <1>5 DEF vars, world, files, refresh, record, CertInv, Typed, TypeOK, Covering, Quiet,
     Matching, Matches, Covered
<1> QED
  BY <1>1, <1>2, <1>3, <1>4, <1>5


-----------------------------------------------------------------------------
(* No session is charged the visits of another *)

\* Nothing that the hits depend on changes.
LEMMA HitsStay ==
  ASSUME HitsInv, UNCHANGED <<calls, session, hits, visit, drained, open, visits>>
  PROVE  HitsInv'
BY DEF HitsInv, Scripted, ResetAhead, DrainAhead, Once, Serving, Charged, HitsOfTheirSession

\* The calls of the engine: a start resets the hits before anything is charged to its
\* session, and an end takes them once.
LEMMA CallCharges ==
  ASSUME CertInv, HitsInv,
         SetRoute \/ ClearRoute \/ ClearRoutes \/ ResetHits \/ DrainHits
           \/ StartSession \/ EndSession \/ ParkSession
  PROVE  HitsInv'
<1>0. /\ Scripted /\ Once /\ Charged /\ HitsOfTheirSession
      /\ session \in Nat /\ sessions \in Nat /\ visits \in Nat
  BY DEF HitsInv, CertInv, Typed
<1>1. CASE SetRoute \/ ClearRoute \/ ClearRoutes
  <2>1. PICK op \in {"set_route", "clear_route", "clear_routes"} :
          Step(op) /\ UNCHANGED <<session, hits, visit, drained, open, visits>>
    BY <1>1 DEF SetRoute, ClearRoute, ClearRoutes, Route, record
  <2>2. Scripted' /\ (ResetAhead' <=> ResetAhead)
    BY <1>0, <2>1, NextCall DEF Step
  <2> QED
    BY <1>0, <2>1, <2>2 DEF HitsInv, Once, Serving, Charged, HitsOfTheirSession
<1>2. CASE ResetHits
  <2>1. Scripted'
    BY <1>0, <1>2, NextCall DEF ResetHits, Step
  <2>2. (Once /\ Charged /\ HitsOfTheirSession)'
    BY <1>0, <1>2 DEF ResetHits, Once, Serving, Charged, HitsOfTheirSession
  <2> QED
    BY <2>1, <2>2 DEF HitsInv
<1>3. CASE DrainHits
  <2> DEFINE new == [session |-> session, hits |-> hits, open |-> open]
  <2>1. ~ ResetAhead /\ session # 0 /\ calls' = <<>>
    BY <1>0, <1>3, NextCall DEF DrainHits, Step
  <2>2. /\ new.session = session /\ new.hits = hits /\ new.open = open
        /\ drained' = drained \cup {new}
        /\ hits' = {} /\ session' = 0 /\ open' = {} /\ visit' = visit /\ visits' = visits
    BY <1>3 DEF DrainHits
  <2> HIDE DEF new
  <2>3. Scripted'
    BY <2>1, EmptySeq DEF Scripted, ResetAhead, DrainAhead
  <2>4. Once' /\ Charged'
    BY <1>0, <2>2 DEF Once, Serving, Charged
  <2>5. HitsOfTheirSession'
    <3>1. ASSUME NEW r \in drained', NEW h \in r.hits PROVE h.during = r.session \/ h.id \in r.open
      BY <1>0, <2>1, <2>2, <3>1 DEF Charged, HitsOfTheirSession
    <3>2. ASSUME NEW r \in drained', NEW q \in drained', r # q,
                 NEW h \in r.hits, NEW k \in q.hits
          PROVE  h.id # k.id
      BY <1>0, <2>2, <3>2 DEF Once, HitsOfTheirSession
    <3> QED
      BY <3>1, <3>2 DEF HitsOfTheirSession
  <2> QED
    BY <2>3, <2>4, <2>5 DEF HitsInv
<1>4. CASE StartSession
  <2>1. PICK d \in Domain : Drive(StartCalls(d))
    BY <1>4 DEF StartSession
  <2>2. /\ calls' = StartCalls(d) /\ session' # 0
        /\ UNCHANGED <<hits, visit, drained, open, visits>>
    BY <1>0, <1>4, <2>1 DEF StartSession, Drive
  <2>3. Scripted' /\ ResetAhead'
    <3>1. /\ calls' \in Seq(Calls) /\ Len(calls') = 4 /\ calls' # <<>>
          /\ \A i \in 1 .. 4 : /\ calls'[i].op = "set_route" => calls'[i].domain \in Domain
                               /\ calls'[i].op # "drain_hits"
                               /\ calls'[i].op = "reset_hits" <=> i = 4
      BY <2>2, Scripts, NoneLeft
    <3> QED
      BY <2>2, <3>1 DEF Scripted, ResetAhead
  <2> QED
    BY <1>0, <2>2, <2>3 DEF HitsInv, Once, Serving, Charged, HitsOfTheirSession
<1>5. CASE EndSession
  <2>1. /\ calls = <<>> /\ calls' = <<Call("clear_routes", None), Call("drain_hits", None)>>
        /\ session # 0 /\ UNCHANGED <<session, hits, visit, drained, open, visits>>
    BY <1>5 DEF EndSession, Drive, Idle
  <2>2. /\ calls' \in Seq(Calls) /\ Len(calls') = 2
        /\ calls'[1].op = "clear_routes" /\ calls'[2].op = "drain_hits"
    BY <2>1, Scripts
  <2>3. Scripted'
    <3>1. \A i \in 1 .. 2 : i = 1 \/ i = 2
      OBVIOUS
    <3> QED
      BY <2>1, <2>2, <3>1 DEF Scripted
  <2>4. ~ ResetAhead
    BY <2>1 DEF ResetAhead
  <2> QED
    BY <1>0, <2>1, <2>3, <2>4 DEF HitsInv, Once, Serving, Charged, HitsOfTheirSession
<1>6. CASE ParkSession
  <2>1. /\ calls' = <<Call("clear_routes", None)>>
        /\ session' = 0 /\ UNCHANGED <<hits, visit, drained, open, visits>>
    BY <1>6 DEF ParkSession, Drive
  <2>2. calls' \in Seq(Calls) /\ Len(calls') = 1 /\ calls'[1].op = "clear_routes"
    BY <2>1, Scripts
  <2>3. Scripted'
    <3>1. \A i \in 1 .. 1 : i = 1
      OBVIOUS
    <3> QED
      BY <2>1, <2>2, <3>1 DEF Scripted, ResetAhead, DrainAhead
  <2> QED
    BY <1>0, <2>1, <2>3 DEF HitsInv, Once, Serving, Charged, HitsOfTheirSession
<1> QED
  BY <1>1, <1>2, <1>3, <1>4, <1>5, <1>6

\* The listeners: a visit has a number of its own until it is counted.
LEMMA ListenerCharges ==
  ASSUME CertInv, HitsInv, NEW l \in Listener,
         Accept(l) \/ LookUp(l) \/ Count(l) \/ Dismiss(l)
  PROVE  HitsInv'
<1>0. /\ Scripted /\ Once /\ Charged /\ HitsOfTheirSession
      /\ session \in Nat /\ visits \in Nat
      /\ visit \in [Listener -> Visit \cup {None}] /\ hits \in Hits
      /\ \A r \in drained : r.hits \in Hits
  BY DEF HitsInv, CertInv, Typed, TypeOK
<1>1. UNCHANGED <<calls, session, drained, open>>
  BY DEF Accept, LookUp, Count, Dismiss, record, refresh
<1>2. Scripted' /\ HitsOfTheirSession' /\ (ResetAhead' <=> ResetAhead)
  BY <1>0, <1>1 DEF Scripted, ResetAhead, DrainAhead, HitsOfTheirSession
<1>3. \A m \in Listener : Serving(m) => visit[m].id \in Nat
  BY <1>0 DEF Serving, Visit
<1>4. CASE Accept(l)
  <2>1. PICK d \in Domain :
          visit' = [visit EXCEPT ![l] =
                      [id |-> visits + 1, domain |-> d, at |-> "read", during |-> 0]]
    BY <1>4 DEF Accept
  <2>2. visits' = visits + 1 /\ hits' = hits
    BY <1>4 DEF Accept
  <2>3. /\ visit'[l].id = visits + 1 /\ visit'[l].at = "read"
        /\ \A m \in Listener \ {l} : visit'[m] = visit[m]
    BY <1>0, <2>1
  <2>4. \A h \in hits : h.id \in Nat /\ h.id <= visits
    BY <1>0 DEF Once, Hits
  <2>5. \A r \in drained : \A h \in r.hits : h.id \in Nat /\ h.id <= visits
    BY <1>0 DEF Once, Hits
  <2>6. Once'
    <3>1. ASSUME NEW m \in Listener, Serving(m)'
          PROVE  /\ visit'[m].id <= visits'
                 /\ \A h \in hits' : h.id # visit'[m].id
                 /\ \A r \in drained' : \A h \in r.hits : h.id # visit'[m].id
      <4>1. CASE m = l
        BY <1>0, <1>1, <2>2, <2>3, <2>4, <2>5, <4>1
      <4>2. CASE m # l
        BY <1>0, <1>1, <1>3, <2>2, <2>3, <3>1, <4>2 DEF Once, Serving
      <4> QED
        BY <4>1, <4>2
    <3>2. ASSUME NEW m \in Listener, NEW k \in Listener, Serving(m)', Serving(k)', m # k
          PROVE  visit'[m].id # visit'[k].id
      <4>1. \A j \in Listener \ {l} : Serving(j)' => visit'[j].id \in Nat /\ visit'[j].id <= visits
        BY <1>0, <1>3, <2>3 DEF Once, Serving
      <4>2. CASE m = l \/ k = l
        BY <1>0, <2>3, <3>2, <4>1, <4>2
      <4>3. CASE m # l /\ k # l
        BY <1>0, <2>3, <3>2, <4>3 DEF Once, Serving
      <4> QED
        BY <4>2, <4>3
    <3>3. \A h \in hits' : h.id <= visits' /\ \A r \in drained' : \A k \in r.hits : k.id # h.id
      BY <1>0, <1>1, <2>2, <2>4 DEF Once
    <3>4. \A r \in drained' : \A h \in r.hits : h.id <= visits'
      BY <1>0, <1>1, <2>2, <2>5
    <3> QED
      BY <3>1, <3>2, <3>3, <3>4 DEF Once
  <2>7. Charged'
    BY <1>0, <1>1, <1>2, <2>2, <2>3 DEF Charged, Serving
  <2> QED
    BY <1>2, <2>6, <2>7 DEF HitsInv
<1>5. CASE LookUp(l)
  <2>1. /\ visits' = visits /\ hits' = hits /\ visit[l] # None
        /\ visit'[l] # None => visit'[l].id = visit[l].id /\ visit'[l].during = session
        /\ \A m \in Listener \ {l} : visit'[m] = visit[m]
    BY <1>0, <1>5 DEF LookUp, Visit
  <2>2. Once'
    BY <1>0, <1>1, <2>1 DEF Once, Serving
  <2>3. Charged'
    BY <1>0, <1>1, <1>2, <2>1 DEF Charged, Serving
  <2> QED
    BY <1>2, <2>2, <2>3 DEF HitsInv
<1>6. CASE Count(l)
  <2> DEFINE new == [id |-> visit[l].id, during |-> visit[l].during]
  <2>1. /\ visits' = visits /\ visit[l] # None /\ visit[l].at = "count"
        /\ visit'[l] = None /\ \A m \in Listener \ {l} : visit'[m] = visit[m]
        /\ new.id = visit[l].id /\ new.during = visit[l].during /\ hits' = hits \cup {new}
    BY <1>0, <1>6 DEF Count
  <2> HIDE DEF new
  <2>2. Once'
    BY <1>0, <1>1, <2>1 DEF Once, Serving
  <2>3. Charged'
    BY <1>0, <1>1, <1>2, <2>1 DEF Charged, Serving
  <2> QED
    BY <1>2, <2>2, <2>3 DEF HitsInv
<1>7. CASE Dismiss(l)
  <2>1. /\ visits' = visits /\ hits' = hits
        /\ visit'[l] = None /\ \A m \in Listener \ {l} : visit'[m] = visit[m]
    BY <1>0, <1>7 DEF Dismiss
  <2>2. Once' /\ Charged'
    BY <1>0, <1>1, <1>2, <2>1 DEF Once, Serving, Charged
  <2> QED
    BY <1>2, <2>2 DEF HitsInv
<1> QED
  BY <1>4, <1>5, <1>6, <1>7

-----------------------------------------------------------------------------
(* The theorems *)

PageInv == CertInv /\ HitsInv

LEMMA PageInit == Init => PageInv
<1> SUFFICES ASSUME Init PROVE PageInv
  OBVIOUS
<1>1. CertInv
  BY DEF Init, CertInv, Typed, TypeOK, Hits, Quiet, Matching, Covered, Steps, Named, Paired,
     Generating
<1>2. Scripted /\ Once /\ Charged /\ HitsOfTheirSession
  BY EmptySeq DEF Init, Scripted, ResetAhead, DrainAhead, Once, Serving, Charged, HitsOfTheirSession
<1> QED
  BY <1>1, <1>2 DEF PageInv, HitsInv

LEMMA PageNext == PageInv /\ [Next]_vars => PageInv'
<1> SUFFICES ASSUME PageInv, [Next]_vars PROVE PageInv'
  OBVIOUS
<1>0. CertInv /\ HitsInv /\ Scripted
  BY DEF PageInv, HitsInv
<1>1. CASE RefreshTls
  <2>1. UNCHANGED <<calls, session, hits, visit, drained, open, visits>>
    BY <1>1 DEF RefreshTls, ReadNames, CheckStamp, WriteFails, WriteCer, WriteKey, WriteStamp,
                Trust, Load, record
  <2> QED
    BY <1>0, <1>1, <2>1, RefreshMatches, HitsStay DEF PageInv
<1>2. CASE SetRoute \/ ClearRoute \/ ClearRoutes \/ ResetHits \/ DrainHits
             \/ StartSession \/ EndSession \/ ParkSession
  BY <1>0, <1>2, CallMatches, CallCharges DEF PageInv
<1>3. ASSUME NEW l \in Listener, Accept(l) \/ LookUp(l) \/ Count(l) \/ Dismiss(l)
      PROVE  PageInv'
  BY <1>0, <1>3, WorldMatches, ListenerCharges DEF PageInv
<1>4. CASE Ends
  <2>1. /\ calls' = <<>> /\ session' = 0 /\ hits' = {} /\ UNCHANGED <<drained, visits>>
        /\ \A l \in Listener : visit'[l] = None
    BY <1>4 DEF Ends
  <2>2. Scripted'
    BY <2>1, EmptySeq DEF Scripted, ResetAhead, DrainAhead
  <2>3. (Once /\ Charged /\ HitsOfTheirSession)'
    BY <1>0, <2>1 DEF HitsInv, Once, Serving, Charged, HitsOfTheirSession
  <2> QED
    BY <1>0, <1>4, <2>2, <2>3, WorldMatches DEF PageInv, HitsInv
<1>5. CASE Starts \/ Uninstall \/ UNCHANGED vars
  <2>1. UNCHANGED <<calls, session, hits, visit, drained, open, visits>>
    BY <1>5 DEF Starts, Uninstall, vars, refresh, record
  <2> QED
    BY <1>0, <1>5, <2>1, WorldMatches, HitsStay DEF PageInv
<1> QED
  BY <1>1, <1>2, <1>3, <1>4, <1>5 DEF Next

LEMMA PageInvariant == Spec => []PageInv
BY PageInit, PageNext, PTL DEF Spec

\* The server, its files, the Root store and its threads hold values of their types.
THEOREM PagesTyped == Spec => []TypeOK
<1>1. PageInv => TypeOK
  BY DEF PageInv, CertInv, Typed
<1> QED
  BY <1>1, PageInvariant, PTL

\* Between two calls of the engine every routed domain is served under a certificate that
\* covers it, with the key in use, that the Root store trusts: whenever the process was
\* ended in the middle of writing the files, and started again.
THEOREM RoutesCovered == Spec => []CertCoversRoutes
<1>1. PageInv => CertCoversRoutes
  BY DEF PageInv, CertInv, Covered, CertCoversRoutes, Idle
<1> QED
  BY <1>1, PageInvariant, PTL

\* A record counts a visit once, and no session is charged the visits of another.
THEOREM HitsCharged == Spec => []HitsOfTheirSession
<1>1. PageInv => HitsOfTheirSession
  BY DEF PageInv, HitsInv
<1> QED
  BY <1>1, PageInvariant, PTL

=============================================================================
