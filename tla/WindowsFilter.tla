--------------------------- MODULE WindowsFilter ---------------------------
(***************************************************************************)
(* The Windows network filter of crates/at_shield_windows: rules in        *)
(* hard-block mode become WFP filters on the IPv4 addresses their domain   *)
(* resolves to (wfp.rs), rules in custom-page mode become lines of the     *)
(* hosts file and routes of the local page server (lib.rs, hosts.rs).      *)
(*                                                                         *)
(* Every call holds the lock `inner' from its first line to its last, so a *)
(* call is one step.  The hosts file outlives the process; WFP filters are *)
(* in a dynamic session and do not.  The domains of rules, with and        *)
(* without www, are members of Domain; a domain resolves to any addresses. *)
(*                                                                         *)
(* Every call of the operating system may fail (no Admin, a busy file).    *)
(***************************************************************************)
EXTENDS Naturals, FiniteSets

CONSTANTS
  Domain,  \* domains of rules
  Ip,      \* IPv4 addresses
  None     \* no rule applied

ASSUME DomainFinite == IsFiniteSet(Domain)
ASSUME NoneType     == None \notin {"block", "page"}

VARIABLES
  up,          \* the process that holds the filter runs
  wfp,         \* WfpEngine::open succeeded
  pages,       \* PageServer::start succeeded
  domain_ips,  \* the addresses each domain claims
  ip_filters,  \* the reference count of each address, 0 if it has no filter
  held,        \* addresses whose filter, as recorded in ip_filters, is in WFP
  orphans,     \* addresses with a filter of ours in WFP that no record knows of
  applied,     \* domain -> mode of the rule applied
  routes,      \* domains the page server answers for
  armed,       \* the last hosts or WFP write succeeded
  hosts,       \* domains in our block of the hosts file
  intruded,    \* another process deleted filters after our last complete purge
  synced       \* the last write of the hosts file was ours and succeeded

machine == <<domain_ips, ip_filters, held, orphans>>
process == <<up, wfp, pages>>
vars    == <<process, machine, applied, routes, armed, hosts, intruded, synced>>

NoClaims == [d \in Domain |-> {}]
NoCounts == [ip \in Ip |-> 0]
NoRules  == [d \in Domain |-> None]

Claimants(ip) == {d \in Domain : ip \in domain_ips[d]}

One(b) == IF b THEN 1 ELSE 0

-----------------------------------------------------------------------------
(* WfpEngine *)

\* Mutant: whoever releases an address deletes its filter.
DropAtOnce(d) ==
  [counts |-> [ip \in Ip |-> IF ip \in domain_ips[d] THEN 0 ELSE ip_filters[ip]],
   last   |-> domain_ips[d]]

\* Mutant: the filter of an address goes while another domain still claims it.
DropTooEarly(d) ==
  [counts |-> [ip \in Ip |-> ip_filters[ip] - One(ip \in domain_ips[d])],
   last   |-> {ip \in domain_ips[d] : ip_filters[ip] <= 2}]

\* release_ip for the addresses that d claims: the counts after it, and the
\* addresses nobody claims any more, whose filters are deleted.  Its early return,
\* for an address without a filter, is never taken: TypeOK would fail.
Released(d) ==
  [counts |-> [ip \in Ip |-> ip_filters[ip] - One(ip \in domain_ips[d])],
   last   |-> {ip \in domain_ips[d] : ip_filters[ip] = 1}]

\* FwpmFilterAdd0 and FwpmFilterDeleteById0 fail for any of the addresses.
Failures(ips) == SUBSET ips

\* Mutant: the addresses are released, but d keeps its claims.
UnclaimKeepingClaims(d) ==
  LET r == Released(d) IN
  \E stuck \in Failures(r.last \cap held) :
    /\ ip_filters' = r.counts
    /\ held' = held \ r.last
    /\ orphans' = orphans \cup stuck
    /\ UNCHANGED domain_ips

\* unblock_domain
Unclaim(d) ==
  LET r == Released(d) IN
  \E stuck \in Failures(r.last \cap held) :
    /\ domain_ips' = [domain_ips EXCEPT ![d] = {}]
    /\ ip_filters' = r.counts
    /\ held' = held \ r.last
    /\ orphans' = orphans \cup stuck

\* block_domain: what the domain claimed before is released first.  An address
\* that has a filter is shared; one that has none needs a filter, and is claimed
\* only if adding it succeeds.
Claim(d) ==
  LET r == Released(d) IN
  \E resolved \in SUBSET Ip :
    \E refused \in Failures({ip \in resolved : r.counts[ip] = 0}) :
      \E stuck \in Failures(r.last \cap held) :
        LET claimed == resolved \ refused IN
        /\ domain_ips' = [domain_ips EXCEPT ![d] = claimed]
        /\ ip_filters' = [ip \in Ip |-> r.counts[ip] + One(ip \in claimed)]
        /\ held' = (held \ r.last) \cup {ip \in claimed : r.counts[ip] = 0}
        /\ orphans' = orphans \cup stuck

\* purge_provider_filters: every filter of ours, whoever added it, and the books.
Purge ==
  /\ \E stuck \in Failures(held \cup orphans) : orphans' = stuck
  /\ held' = {} /\ domain_ips' = NoClaims /\ ip_filters' = NoCounts
  /\ intruded' = FALSE

-----------------------------------------------------------------------------
(* WindowsFilter *)

Pages(rules) == {d \in Domain : rules[d] = "page"}

\* Without a page server nobody keeps routes.
Routed(d) == IF pages THEN routes \cup {d} ELSE routes

\* The hosts file is rewritten from the rules applied, and armed says how it went.
SyncHosts(onSuccess, onFailure) ==
  \/ hosts' = Pages(applied') /\ armed' = onSuccess /\ synced' = TRUE
  \/ hosts' = hosts /\ armed' = onFailure /\ synced' = FALSE

\* Mutant: the route of the previous mode stays.
ApplyBlockOverRoute(d) ==
  /\ up
  /\ IF wfp THEN Claim(d) ELSE UNCHANGED machine
  /\ applied' = [applied EXCEPT ![d] = "block"]
  /\ SyncHosts(wfp, wfp /\ Pages(applied') = {})
  /\ UNCHANGED <<process, routes, intruded>>

\* apply, of a rule in hard-block mode.
ApplyBlock(d) ==
  /\ up
  /\ IF wfp THEN Claim(d) ELSE UNCHANGED machine
  /\ routes' = routes \ {d}
  /\ applied' = [applied EXCEPT ![d] = "block"]
  /\ SyncHosts(wfp, wfp /\ Pages(applied') = {})
  /\ UNCHANGED <<process, intruded>>

\* Mutant: the hosts file is not rewritten.
ApplyPageWithoutHosts(d) ==
  /\ up
  /\ IF wfp THEN Unclaim(d) ELSE UNCHANGED machine
  /\ routes' = Routed(d)
  /\ applied' = [applied EXCEPT ![d] = "page"]
  /\ armed' = TRUE
  /\ UNCHANGED <<process, hosts, intruded, synced>>

\* apply, of a rule in custom-page mode.
ApplyPage(d) ==
  /\ up
  /\ IF wfp THEN Unclaim(d) ELSE UNCHANGED machine
  /\ routes' = Routed(d)
  /\ applied' = [applied EXCEPT ![d] = "page"]
  /\ SyncHosts(TRUE, FALSE)
  /\ UNCHANGED <<process, intruded>>

Remove(d) ==
  /\ up
  /\ IF wfp THEN Unclaim(d) ELSE UNCHANGED machine
  /\ routes' = routes \ {d}
  /\ applied' = [applied EXCEPT ![d] = None]
  /\ SyncHosts(armed, FALSE)
  /\ UNCHANGED <<process, intruded>>

\* A purge that cannot enumerate the filters changes nothing, and is not an error.
ClearAll ==
  /\ up
  /\ \/ wfp /\ Purge
     \/ UNCHANGED <<machine, intruded>>
  /\ routes' = {}
  /\ applied' = NoRules
  /\ SyncHosts(FALSE, FALSE)
  /\ UNCHANGED process

\* WindowsFilter::new; the filters of an earlier process died with it.
Open ==
  /\ ~up
  /\ up' = TRUE
  /\ wfp' \in BOOLEAN /\ pages' \in BOOLEAN
  /\ UNCHANGED <<machine, applied, routes, armed, hosts, intruded, synced>>

\* The process is gone, and the filters of its dynamic session with it.
Gone ==
  /\ up
  /\ up' = FALSE /\ wfp' = FALSE /\ pages' = FALSE
  /\ domain_ips' = NoClaims /\ ip_filters' = NoCounts /\ held' = {} /\ orphans' = {}
  /\ applied' = NoRules /\ routes' = {} /\ armed' = FALSE /\ intruded' = FALSE /\ synced' = FALSE

\* It ends without running a destructor, as the service does.
Killed == Gone /\ UNCHANGED hosts

\* WindowsFilter::drop wipes the hosts file, if it can.
Dropped == Gone /\ hosts' \in {{}, hosts}

\* nuke_all_blocks in a process of its own: the running filter does not notice.
Nuke ==
  /\ \E stuck \in Failures(held \cup orphans) :
       held' = held \cap stuck /\ orphans' = orphans \cap stuck
  /\ hosts' \in {{}, hosts}
  /\ intruded' = TRUE /\ synced' = FALSE
  /\ UNCHANGED <<process, domain_ips, ip_filters, applied, routes, armed>>

-----------------------------------------------------------------------------
Init ==
  /\ up = FALSE /\ wfp = FALSE /\ pages = FALSE
  /\ domain_ips = NoClaims /\ ip_filters = NoCounts /\ held = {} /\ orphans = {}
  /\ applied = NoRules /\ routes = {} /\ armed = FALSE /\ hosts = {}
  /\ intruded = FALSE /\ synced = FALSE

Next ==
  \/ \E d \in Domain : ApplyBlock(d) \/ ApplyPage(d) \/ Remove(d)
  \/ ClearAll \/ Open \/ Killed \/ Dropped \/ Nuke

Spec == Init /\ [][Next]_vars

-----------------------------------------------------------------------------
(* Properties *)

\* Every variable of the filter holds a value of its Rust type.
TypeOK ==
  /\ up \in BOOLEAN /\ wfp \in BOOLEAN /\ pages \in BOOLEAN /\ armed \in BOOLEAN
  /\ domain_ips \in [Domain -> SUBSET Ip] /\ ip_filters \in [Ip -> Nat]
  /\ held \subseteq Ip /\ orphans \subseteq Ip
  /\ applied \in [Domain -> {"block", "page", None}]
  /\ routes \subseteq Domain /\ hosts \subseteq Domain
  /\ intruded \in BOOLEAN /\ synced \in BOOLEAN

\* The reference count of an address is the number of domains that claim it,
\* through every order of applies, removals, failed adds and purges: no shared
\* address is freed too early, or kept for ever.
RefsMatchClaims == \A ip \in Ip : ip_filters[ip] = Cardinality(Claimants(ip))

\* An address that some domain claims is blocked, and an address with a recorded
\* filter is claimed: unblocking one domain never unblocks another that shares an
\* edge with it.  Filters another process deleted are missed until the next purge.
ClaimedIsBlocked == intruded \/ held = {ip \in Ip : Claimants(ip) # {}}

\* A domain is enforced in the mode of its rule and in no other, even when it was
\* applied in the other mode before.
OneMode ==
  /\ routes = IF pages THEN Pages(applied) ELSE {}
  /\ \A d \in Domain : applied[d] = "page" => domain_ips[d] = {}

\* The page server has a page for exactly the domains the hosts file pins to it, once
\* a rule in custom-page mode is applied and unless the file could not be written; what
\* a killed process left in the file goes with the first rewrite.
PinnedIsAnswered == synced /\ pages => hosts = routes

=============================================================================
