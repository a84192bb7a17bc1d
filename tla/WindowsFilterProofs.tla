------------------------ MODULE WindowsFilterProofs ------------------------
(***************************************************************************)
(* Proofs about WindowsFilter, for any finite set of domains, any set of   *)
(* addresses, and every combination of failures.                           *)
(***************************************************************************)
EXTENDS WindowsFilter, FiniteSetTheorems, TLAPS

\* The claims as a constant-level operator: who claims ip under the claims c.
Claiming(c, ip) == {d \in Domain : ip \in c[d]}

Counts(c, n) == \A ip \in Ip : n[ip] = Cardinality(Claiming(c, ip))

LEMMA ClaimingFinite ==
  ASSUME NEW c, NEW ip
  PROVE  IsFiniteSet(Claiming(c, ip))
BY DomainFinite, FS_Subset DEF Claiming

\* A domain that drops its claims takes one off the count of each.
LEMMA DropClaims ==
  ASSUME NEW c \in [Domain -> SUBSET Ip], NEW n \in [Ip -> Nat], Counts(c, n),
         NEW d \in Domain
  PROVE  LET m == [ip \in Ip |-> n[ip] - One(ip \in c[d])] IN
         /\ m \in [Ip -> Nat]
         /\ Counts([c EXCEPT ![d] = {}], m)
<1> DEFINE e == [c EXCEPT ![d] = {}]
           m == [ip \in Ip |-> n[ip] - One(ip \in c[d])]
<1>1. ASSUME NEW ip \in Ip
      PROVE  m[ip] \in Nat /\ m[ip] = Cardinality(Claiming(e, ip))
  <2>1. Claiming(e, ip) = Claiming(c, ip) \ {d}
    BY DEF Claiming
  <2>2. IsFiniteSet(Claiming(c, ip)) /\ Cardinality(Claiming(c, ip)) \in Nat
    BY ClaimingFinite, FS_CardinalityType
  <2>3. n[ip] = Cardinality(Claiming(c, ip))
    BY DEF Counts
  <2>4. CASE ip \in c[d]
    <3>1. d \in Claiming(c, ip)
      BY <2>4 DEF Claiming
    <3>2. Cardinality(Claiming(c, ip) \ {d}) = Cardinality(Claiming(c, ip)) - 1
      BY <2>2, <3>1, FS_RemoveElement
    <3>3. Cardinality(Claiming(e, ip)) \in Nat
      BY ClaimingFinite, FS_CardinalityType
    <3> QED
      BY <2>1, <2>2, <2>3, <2>4, <3>2, <3>3 DEF One
  <2>5. CASE ip \notin c[d]
    <3>1. Claiming(c, ip) \ {d} = Claiming(c, ip)
      BY <2>5 DEF Claiming
    <3>2. n[ip] \in Nat /\ One(ip \in c[d]) = 0
      BY <2>5 DEF One
    <3>3. m[ip] = n[ip]
      BY <3>2
    <3> QED
      BY <2>1, <2>3, <3>1, <3>2, <3>3
  <2> QED
    BY <2>4, <2>5
<1> QED
  BY <1>1 DEF Counts

\* A domain without claims that makes some adds one to the count of each.
LEMMA AddClaims ==
  ASSUME NEW c \in [Domain -> SUBSET Ip], NEW n \in [Ip -> Nat], Counts(c, n),
         NEW d \in Domain, c[d] = {}, NEW new \in SUBSET Ip
  PROVE  LET m == [ip \in Ip |-> n[ip] + One(ip \in new)] IN
         /\ m \in [Ip -> Nat]
         /\ Counts([c EXCEPT ![d] = new], m)
<1> DEFINE e == [c EXCEPT ![d] = new]
           m == [ip \in Ip |-> n[ip] + One(ip \in new)]
<1>1. ASSUME NEW ip \in Ip
      PROVE  m[ip] \in Nat /\ m[ip] = Cardinality(Claiming(e, ip))
  <2>1. IsFiniteSet(Claiming(c, ip)) /\ Cardinality(Claiming(c, ip)) \in Nat
    BY ClaimingFinite, FS_CardinalityType
  <2>2. n[ip] = Cardinality(Claiming(c, ip))
    BY DEF Counts
  <2>3. CASE ip \in new
    <3>1. Claiming(e, ip) = Claiming(c, ip) \cup {d} /\ d \notin Claiming(c, ip)
      BY <2>3 DEF Claiming
    <3>2. Cardinality(Claiming(e, ip)) = Cardinality(Claiming(c, ip)) + 1
      BY <2>1, <3>1, FS_AddElement
    <3> QED
      BY <2>1, <2>2, <2>3, <3>2 DEF One
  <2>4. CASE ip \notin new
    <3>1. Claiming(e, ip) = Claiming(c, ip)
      BY <2>4 DEF Claiming
    <3> QED
      BY <2>1, <2>2, <2>4, <3>1 DEF One
  <2> QED
    BY <2>3, <2>4
<1> QED
  BY <1>1 DEF Counts

LEMMA NoClaimsCounted == NoClaims \in [Domain -> SUBSET Ip] /\ NoCounts \in [Ip -> Nat]
                         /\ Counts(NoClaims, NoCounts)
<1>1. \A ip \in Ip : Claiming(NoClaims, ip) = {}
  BY DEF Claiming, NoClaims
<1> QED
  BY <1>1, FS_EmptySet DEF NoClaims, NoCounts, Counts

-----------------------------------------------------------------------------
(* The books of WfpEngine *)

BooksInv ==
  /\ domain_ips \in [Domain -> SUBSET Ip] /\ ip_filters \in [Ip -> Nat]
  /\ Counts(domain_ips, ip_filters)

LEMMA UnclaimBooks ==
  ASSUME BooksInv, NEW d \in Domain, Unclaim(d)
  PROVE  BooksInv'
<1>1. ip_filters' = [ip \in Ip |-> ip_filters[ip] - One(ip \in domain_ips[d])]
      /\ domain_ips' = [domain_ips EXCEPT ![d] = {}]
  BY DEF Unclaim, Released
<1> QED
  BY <1>1, DropClaims DEF BooksInv

\* What a domain claims anew is counted, and blocked if it was not.
LEMMA ClaimStep ==
  ASSUME NEW d \in Domain, Claim(d)
  PROVE  \E claimed \in SUBSET Ip :
           LET n == [ip \in Ip |-> ip_filters[ip] - One(ip \in domain_ips[d])] IN
           /\ domain_ips' = [domain_ips EXCEPT ![d] = claimed]
           /\ ip_filters' = [ip \in Ip |-> n[ip] + One(ip \in claimed)]
           /\ held' = (held \ {ip \in domain_ips[d] : ip_filters[ip] = 1})
                        \cup {ip \in claimed : n[ip] = 0}
<1> DEFINE r == Released(d)
<1>1. PICK resolved \in SUBSET Ip :
        \E refused \in Failures({ip \in resolved : r.counts[ip] = 0}) :
          /\ domain_ips' = [domain_ips EXCEPT ![d] = resolved \ refused]
          /\ ip_filters' = [ip \in Ip |-> r.counts[ip] + One(ip \in resolved \ refused)]
          /\ held' = (held \ r.last) \cup {ip \in resolved \ refused : r.counts[ip] = 0}
  BY DEF Claim
<1>2. PICK refused :
          /\ domain_ips' = [domain_ips EXCEPT ![d] = resolved \ refused]
          /\ ip_filters' = [ip \in Ip |-> r.counts[ip] + One(ip \in resolved \ refused)]
          /\ held' = (held \ r.last) \cup {ip \in resolved \ refused : r.counts[ip] = 0}
  BY <1>1
<1>3. resolved \ refused \in SUBSET Ip
  OBVIOUS
<1>4. /\ r.counts = [ip \in Ip |-> ip_filters[ip] - One(ip \in domain_ips[d])]
      /\ r.last = {ip \in domain_ips[d] : ip_filters[ip] = 1}
  BY DEF Released
<1> HIDE DEF r
<1> DEFINE n == [ip \in Ip |-> ip_filters[ip] - One(ip \in domain_ips[d])]
           claimed == resolved \ refused
<1>5. /\ domain_ips' = [domain_ips EXCEPT ![d] = claimed]
      /\ ip_filters' = [ip \in Ip |-> n[ip] + One(ip \in claimed)]
      /\ held' = (held \ {ip \in domain_ips[d] : ip_filters[ip] = 1})
                   \cup {ip \in claimed : n[ip] = 0}
  BY <1>2, <1>4, Zenon
<1> QED
  <2> WITNESS claimed \in SUBSET Ip
  <2> QED
    BY <1>5

LEMMA ClaimBooks ==
  ASSUME BooksInv, NEW d \in Domain, Claim(d)
  PROVE  BooksInv'
<1> DEFINE c == [domain_ips EXCEPT ![d] = {}]
           n == [ip \in Ip |-> ip_filters[ip] - One(ip \in domain_ips[d])]
<1>1. PICK claimed \in SUBSET Ip :
        /\ domain_ips' = [domain_ips EXCEPT ![d] = claimed]
        /\ ip_filters' = [ip \in Ip |-> n[ip] + One(ip \in claimed)]
  BY ClaimStep
<1>2. c \in [Domain -> SUBSET Ip] /\ n \in [Ip -> Nat] /\ Counts(c, n) /\ c[d] = {}
  BY DropClaims DEF BooksInv
<1>3. domain_ips' = [c EXCEPT ![d] = claimed]
  BY <1>1 DEF BooksInv
<1> HIDE DEF c, n
<1>4. LET m == [ip \in Ip |-> n[ip] + One(ip \in claimed)] IN
      m \in [Ip -> Nat] /\ Counts([c EXCEPT ![d] = claimed], m)
  BY <1>2, AddClaims
<1>5. domain_ips' \in [Domain -> SUBSET Ip]
  BY <1>2, <1>3
<1>6. ip_filters' \in [Ip -> Nat] /\ Counts(domain_ips', ip_filters')
  BY <1>1, <1>3, <1>4
<1> QED
  BY <1>5, <1>6 DEF BooksInv

LEMMA PurgeBooks ==
  ASSUME BooksInv, Purge
  PROVE  BooksInv'
BY NoClaimsCounted DEF Purge, BooksInv

LEMMA BooksNext == BooksInv /\ [Next]_vars => BooksInv'
<1> SUFFICES ASSUME BooksInv, [Next]_vars PROVE BooksInv'
  OBVIOUS
<1>1. CASE UNCHANGED <<domain_ips, ip_filters>>
  BY <1>1 DEF BooksInv
<1>2. ASSUME NEW d \in Domain, ApplyBlock(d) \/ ApplyPage(d) \/ Remove(d) PROVE BooksInv'
  <2>1. Claim(d) \/ Unclaim(d) \/ UNCHANGED machine
    BY <1>2 DEF ApplyBlock, ApplyPage, Remove
  <2> QED
    BY <1>1, <2>1, ClaimBooks, UnclaimBooks DEF machine
<1>3. CASE ClearAll
  <2>1. Purge \/ UNCHANGED machine
    BY <1>3 DEF ClearAll
  <2> QED
    BY <1>1, <2>1, PurgeBooks DEF machine
<1>4. CASE Killed \/ Dropped
  BY <1>4, NoClaimsCounted DEF Killed, Dropped, Gone, BooksInv
<1>5. CASE Open \/ Nuke \/ UNCHANGED vars
  BY <1>1, <1>5 DEF Open, Nuke, vars, machine
<1> QED
  BY <1>2, <1>3, <1>4, <1>5 DEF Next

LEMMA BooksAlways == Spec => []BooksInv
<1>1. Init => BooksInv
  BY NoClaimsCounted DEF Init, BooksInv
<1> QED
  BY <1>1, BooksNext, PTL DEF Spec

\* The reference count of every address is the number of domains that claim it,
\* whatever fails and whoever else purges.
THEOREM RefsAreClaims == Spec => []RefsMatchClaims
<1>1. BooksInv => RefsMatchClaims
  BY DEF BooksInv, Counts, Claiming, RefsMatchClaims, Claimants
<1> QED
  BY <1>1, BooksAlways, PTL

-----------------------------------------------------------------------------
(* What is blocked *)

\* The last claim of an address is the one whose count is 1.
LEMMA LastClaim ==
  ASSUME BooksInv, NEW d \in Domain, NEW ip \in domain_ips[d]
  PROVE  ip_filters[ip] = 1 <=> Claiming(domain_ips, ip) = {d}
<1> DEFINE S == Claiming(domain_ips, ip)
<1>1. ip \in Ip /\ d \in S /\ IsFiniteSet(S)
  BY ClaimingFinite DEF BooksInv, Claiming
<1>2. ip_filters[ip] = Cardinality(S)
  BY <1>1 DEF BooksInv, Counts
<1>3. Cardinality(S \ {d}) = Cardinality(S) - 1 /\ IsFiniteSet(S \ {d}) /\ Cardinality(S) \in Nat
  BY <1>1, FS_RemoveElement, FS_CardinalityType
<1>4. Cardinality(S \ {d}) = 0 <=> S \ {d} = {}
  BY <1>3, FS_EmptySet
<1>5. S \ {d} = {} <=> S = {d}
  BY <1>1
<1> HIDE DEF S
<1>6. ip_filters[ip] = 1 <=> S = {d}
  BY <1>2, <1>3, <1>4, <1>5
<1> QED
  BY <1>6 DEF S

\* An address has no count exactly when nobody claims it.
LEMMA NoCount ==
  ASSUME NEW c, NEW n, Counts(c, n), NEW ip \in Ip
  PROVE  n[ip] = 0 <=> Claiming(c, ip) = {}
BY ClaimingFinite, FS_EmptySet DEF Counts

Blocked == held = {ip \in Ip : Claimants(ip) # {}}

LEMMA UnclaimBlocked ==
  ASSUME BooksInv, Blocked, NEW d \in Domain, Unclaim(d)
  PROVE  Blocked'
<1>1. domain_ips' = [domain_ips EXCEPT ![d] = {}]
      /\ held' = held \ {ip \in domain_ips[d] : ip_filters[ip] = 1}
  BY DEF Unclaim, Released
<1>2. ASSUME NEW ip \in Ip
      PROVE  ip \in held' <=> Claiming(domain_ips', ip) # {}
  <2>1. Claiming(domain_ips', ip) = Claiming(domain_ips, ip) \ {d}
    BY <1>1 DEF Claiming, BooksInv
  <2>2. ip \in held <=> Claiming(domain_ips, ip) # {}
    BY DEF Blocked, Claimants, Claiming
  <2>3. CASE ip \in domain_ips[d]
    BY <1>1, <2>1, <2>2, <2>3, LastClaim DEF Claiming
  <2>4. CASE ip \notin domain_ips[d]
    BY <1>1, <2>1, <2>2, <2>4 DEF Claiming
  <2> QED
    BY <2>3, <2>4
<1>3. held' \subseteq Ip
  BY <1>1 DEF Blocked
<1> QED
  BY <1>2, <1>3 DEF Blocked, Claimants, Claiming

LEMMA ClaimBlocked ==
  ASSUME BooksInv, Blocked, NEW d \in Domain, Claim(d)
  PROVE  Blocked'
<1> DEFINE c == [domain_ips EXCEPT ![d] = {}]
           n == [ip \in Ip |-> ip_filters[ip] - One(ip \in domain_ips[d])]
<1>1. PICK claimed \in SUBSET Ip :
        /\ domain_ips' = [domain_ips EXCEPT ![d] = claimed]
        /\ held' = (held \ {ip \in domain_ips[d] : ip_filters[ip] = 1})
                     \cup {ip \in claimed : n[ip] = 0}
  BY ClaimStep
<1>2. c \in [Domain -> SUBSET Ip] /\ Counts(c, n)
  BY DropClaims DEF BooksInv
<1>3. ASSUME NEW ip \in Ip
      PROVE  ip \in held' <=> Claiming(domain_ips', ip) # {}
  <2>1. Claiming(domain_ips', ip) = Claiming(c, ip) \cup (IF ip \in claimed THEN {d} ELSE {})
    BY <1>1 DEF Claiming, BooksInv
  <2>2. Claiming(c, ip) = Claiming(domain_ips, ip) \ {d}
    BY DEF Claiming, BooksInv
  <2>3. ip \in held <=> Claiming(domain_ips, ip) # {}
    BY DEF Blocked, Claimants, Claiming
  <2>4. n[ip] = 0 <=> Claiming(c, ip) = {}
    BY <1>2, NoCount
  <2>5. ip \in held \ {i \in domain_ips[d] : ip_filters[i] = 1} <=> Claiming(c, ip) # {}
    <3>1. CASE ip \in domain_ips[d]
      BY <2>2, <2>3, <3>1, LastClaim DEF Claiming
    <3>2. CASE ip \notin domain_ips[d]
      BY <2>2, <2>3, <3>2 DEF Claiming
    <3> QED
      BY <3>1, <3>2
  <2> HIDE DEF c, n
  <2> QED
    BY <1>1, <2>1, <2>4, <2>5
<1>4. held' \subseteq Ip
  BY <1>1 DEF Blocked
<1> QED
  BY <1>3, <1>4 DEF Blocked, Claimants, Claiming

LEMMA BlockedNext ==
  ASSUME BooksInv, ClaimedIsBlocked, [Next]_vars
  PROVE  ClaimedIsBlocked'
<1>1. CASE UNCHANGED <<domain_ips, held, intruded>>
  BY <1>1 DEF ClaimedIsBlocked, Claimants
<1>2. ASSUME NEW d \in Domain, ApplyBlock(d) \/ ApplyPage(d) \/ Remove(d)
      PROVE  ClaimedIsBlocked'
  <2>1. UNCHANGED intruded /\ (Claim(d) \/ Unclaim(d) \/ UNCHANGED machine)
    BY <1>2 DEF ApplyBlock, ApplyPage, Remove
  <2>2. CASE intruded
    BY <2>1, <2>2 DEF ClaimedIsBlocked
  <2>3. CASE ~intruded
    <3>1. Blocked
      BY <2>3 DEF ClaimedIsBlocked, Blocked
    <3>2. CASE Claim(d) \/ Unclaim(d)
      BY <3>1, <3>2, ClaimBlocked, UnclaimBlocked DEF ClaimedIsBlocked, Blocked
    <3> QED
      BY <1>1, <2>1, <3>2 DEF machine
  <2> QED
    BY <2>2, <2>3
<1>3. CASE domain_ips' = NoClaims /\ held' = {}
  BY <1>3 DEF ClaimedIsBlocked, Claimants, NoClaims
<1>4. CASE ClearAll \/ Killed \/ Dropped
  BY <1>1, <1>3, <1>4 DEF ClearAll, Purge, Killed, Dropped, Gone, machine
<1>5. CASE Nuke
  BY <1>5 DEF Nuke, ClaimedIsBlocked
<1>6. CASE Open \/ UNCHANGED vars
  BY <1>1, <1>6 DEF Open, vars, machine
<1> QED
  BY <1>2, <1>4, <1>5, <1>6 DEF Next

\* Unless another process has purged our filters since we did, an address is blocked as
\* long as one domain claims it, and has no recorded filter once none does.
THEOREM BlockedWhileClaimed == Spec => []ClaimedIsBlocked
<1>1. Init => ClaimedIsBlocked
  BY DEF Init, ClaimedIsBlocked, Claimants, NoClaims
<1>2. BooksInv /\ ClaimedIsBlocked /\ [Next]_vars => ClaimedIsBlocked'
  BY BlockedNext
<1> QED
  BY <1>1, <1>2, BooksAlways, PTL DEF Spec

-----------------------------------------------------------------------------
(* Modes *)

LEMMA BooksTyped == BooksInv => domain_ips \in [Domain -> SUBSET Ip] /\ ip_filters \in [Ip -> Nat]
BY DEF BooksInv

Flags ==
  /\ up \in BOOLEAN /\ wfp \in BOOLEAN /\ pages \in BOOLEAN /\ armed \in BOOLEAN
  /\ intruded \in BOOLEAN /\ synced \in BOOLEAN

Sets ==
  /\ held \subseteq Ip /\ orphans \subseteq Ip
  /\ applied \in [Domain -> {"block", "page", None}]
  /\ routes \subseteq Domain /\ hosts \subseteq Domain

\* OneMode is not inductive: without WFP an apply does not release what the domain
\* claims, which is nothing; and routes survive only in a process that serves them.
ModesInv ==
  /\ BooksInv /\ Flags /\ Sets /\ OneMode
  /\ ~ wfp => domain_ips = NoClaims
  /\ ~ up => ~ wfp /\ ~ pages /\ applied = NoRules /\ routes = {} /\ ~ synced
  /\ synced => hosts = Pages(applied)

\* What a call on WFP leaves of the claims of one domain.
LEMMA EngineCall ==
  ASSUME ModesInv, NEW d \in Domain,
         IF wfp THEN Claim(d) \/ Unclaim(d) ELSE UNCHANGED machine
  PROVE  /\ \A e \in Domain \ {d} : domain_ips'[e] = domain_ips[e]
         /\ ~ wfp => domain_ips' = NoClaims
         /\ held' \subseteq Ip /\ orphans' \subseteq Ip
<1>1. domain_ips \in [Domain -> SUBSET Ip] /\ held \subseteq Ip /\ orphans \subseteq Ip
  BY BooksTyped DEF ModesInv, Sets
<1>2. CASE wfp /\ Claim(d)
  <2>1. PICK claimed \in SUBSET Ip :
          /\ domain_ips' = [domain_ips EXCEPT ![d] = claimed]
          /\ held' = (held \ {ip \in domain_ips[d] : ip_filters[ip] = 1})
                       \cup {ip \in claimed :
                              [jp \in Ip |-> ip_filters[jp] - One(jp \in domain_ips[d])][ip] = 0}
    BY <1>2, ClaimStep
  <2>2. PICK stuck \in SUBSET Ip : orphans' = orphans \cup stuck
    BY <1>1, <1>2 DEF Claim, Released, Failures
  <2> QED
    BY <1>1, <1>2, <2>1, <2>2
<1>3. CASE wfp /\ Unclaim(d)
  BY <1>1, <1>3 DEF Unclaim, Released, Failures
<1>4. CASE ~ wfp
  BY <1>1, <1>4 DEF ModesInv, machine
<1> QED
  BY <1>2, <1>3, <1>4

LEMMA ApplyModes ==
  ASSUME ModesInv, BooksInv', NEW d \in Domain, ApplyBlock(d) \/ ApplyPage(d) \/ Remove(d)
  PROVE  ModesInv'
<1>1. /\ \A e \in Domain \ {d} : domain_ips'[e] = domain_ips[e]
      /\ ~ wfp => domain_ips' = NoClaims
      /\ held' \subseteq Ip /\ orphans' \subseteq Ip
  BY EngineCall DEF ApplyBlock, ApplyPage, Remove
<1>2. applied \in [Domain -> {"block", "page", None}]
  BY DEF ModesInv, Sets
<1>3. up /\ UNCHANGED <<up, wfp, pages, intruded>>
  BY DEF ApplyBlock, ApplyPage, Remove, process
<1>4. /\ synced' => hosts' = Pages(applied')
      /\ hosts' \subseteq Domain /\ Flags'
  BY <1>3 DEF ApplyBlock, ApplyPage, Remove, SyncHosts, ModesInv, Flags, Sets, Pages
<1>5. CASE ApplyBlock(d) \/ Remove(d)
  <2>1. /\ applied' \in [Domain -> {"block", "page", None}] /\ applied'[d] # "page"
        /\ \A e \in Domain \ {d} : applied'[e] = applied[e]
    BY <1>2, <1>5, NoneType DEF ApplyBlock, Remove
  <2>2. routes' = routes \ {d} /\ Pages(applied') = Pages(applied) \ {d}
    BY <1>5, <2>1 DEF ApplyBlock, Remove, Pages
  <2>3. OneMode'
    BY <1>1, <1>3, <2>1, <2>2 DEF ModesInv, OneMode, Pages
  <2>4. Sets'
    BY <1>1, <1>4, <2>1, <2>2 DEF ModesInv, Sets
  <2> QED
    BY <1>1, <1>3, <1>4, <2>3, <2>4 DEF ModesInv
<1>6. CASE ApplyPage(d)
  <2>1. /\ applied' \in [Domain -> {"block", "page", None}] /\ applied'[d] = "page"
        /\ \A e \in Domain \ {d} : applied'[e] = applied[e]
    BY <1>2, <1>6 DEF ApplyPage
  <2>2. routes' = (IF pages THEN routes \cup {d} ELSE routes)
          /\ Pages(applied') = Pages(applied) \cup {d}
    BY <1>6, <2>1 DEF ApplyPage, Routed, Pages
  <2>3. domain_ips'[d] = {}
    <3>1. domain_ips \in [Domain -> SUBSET Ip]
      BY BooksTyped DEF ModesInv
    <3> QED
      BY <1>6, <3>1 DEF ApplyPage, Unclaim, machine, ModesInv, NoClaims
  <2>4. OneMode'
    BY <1>1, <1>3, <2>1, <2>2, <2>3 DEF ModesInv, OneMode, Pages
  <2>5. Sets'
    BY <1>1, <1>4, <2>1, <2>2 DEF ModesInv, Sets
  <2> QED
    BY <1>1, <1>3, <1>4, <2>4, <2>5 DEF ModesInv
<1> QED
  BY <1>5, <1>6

LEMMA ProcessModes ==
  ASSUME ModesInv, BooksInv', ClearAll \/ Open \/ Killed \/ Dropped \/ Nuke
  PROVE  ModesInv'
<1>1. NoRules \in [Domain -> {"block", "page", None}] /\ Pages(NoRules) = {}
  BY NoneType DEF NoRules, Pages
<1>2. CASE ClearAll
  <2>1. /\ up /\ UNCHANGED <<up, wfp, pages>> /\ applied' = NoRules /\ routes' = {}
        /\ synced' => hosts' = Pages(applied')
        /\ hosts' \subseteq Domain /\ armed' \in BOOLEAN /\ synced' \in BOOLEAN
    BY <1>2 DEF ClearAll, process, SyncHosts, ModesInv, Flags, Sets, Pages
  <2>2. /\ held' \subseteq Ip /\ orphans' \subseteq Ip /\ intruded' \in BOOLEAN
        /\ ~ wfp => domain_ips' = NoClaims
    BY <1>2 DEF ClearAll, Purge, Failures, machine, ModesInv, Flags, Sets
  <2>3. OneMode'
    BY <1>1, <2>1, NoneType DEF OneMode, NoRules
  <2> QED
    BY <1>1, <2>1, <2>2, <2>3 DEF ModesInv, Flags, Sets
<1>3. CASE Open
  <2>1. domain_ips' = NoClaims /\ applied' = NoRules /\ routes' = {} /\ ~ synced'
    BY <1>3 DEF Open, machine, ModesInv
  <2>2. OneMode'
    BY <1>1, <2>1, NoneType DEF OneMode, NoRules
  <2> QED
    BY <1>3, <2>1, <2>2 DEF Open, machine, ModesInv, Flags, Sets
<1>4. CASE Gone /\ hosts' \in {{}, hosts}
  <2>1. OneMode'
    BY <1>1, <1>4, NoneType DEF Gone, OneMode, NoRules
  <2> QED
    BY <1>1, <1>4, <2>1 DEF Gone, ModesInv, Flags, Sets
<1>5. CASE Nuke
  BY <1>5 DEF Nuke, process, ModesInv, Flags, Sets, OneMode, Pages
<1> QED
  BY <1>2, <1>3, <1>4, <1>5 DEF Killed, Dropped

LEMMA ModesAlways == Spec => []ModesInv
<1>1. Init => ModesInv
  <2> SUFFICES ASSUME Init PROVE ModesInv
    OBVIOUS
  <2>1. NoRules \in [Domain -> {"block", "page", None}] /\ Pages(NoRules) = {}
    BY NoneType DEF NoRules, Pages
  <2>2. OneMode
    BY <2>1, NoneType DEF Init, OneMode, NoRules
  <2> QED
    BY <2>1, <2>2, NoClaimsCounted DEF Init, ModesInv, BooksInv, Flags, Sets
<1>2. ModesInv /\ [Next]_vars => ModesInv'
  <2> SUFFICES ASSUME ModesInv, [Next]_vars PROVE ModesInv'
    OBVIOUS
  <2>1. BooksInv'
    BY BooksNext DEF ModesInv
  <2>2. CASE UNCHANGED vars
    BY <2>1, <2>2 DEF vars, process, machine, ModesInv, Flags, Sets, OneMode, Pages
  <2> QED
    BY <2>1, <2>2, ApplyModes, ProcessModes DEF Next
<1> QED
  BY <1>1, <1>2, PTL DEF Spec

\* The filter's fields, the filters in WFP and the hosts file keep their types.
THEOREM FilterTyped == Spec => []TypeOK
<1>1. ModesInv => TypeOK
  BY BooksTyped DEF ModesInv, Flags, Sets, TypeOK
<1> QED
  BY <1>1, ModesAlways, PTL

\* Whatever was applied before, in which order and with which failures, a domain is
\* routed or its addresses are claimed, never both.
THEOREM OneModeEach == Spec => []OneMode
<1>1. ModesInv => OneMode
  BY DEF ModesInv
<1> QED
  BY <1>1, ModesAlways, PTL

\* After a successful rewrite the hosts file pins exactly the domains with a page.
THEOREM PinsAreAnswered == Spec => []PinnedIsAnswered
<1>1. ModesInv => PinnedIsAnswered
  BY DEF ModesInv, OneMode, PinnedIsAnswered
<1> QED
  BY <1>1, ModesAlways, PTL

=============================================================================
