----------------------------- MODULE PageServer -----------------------------
(***************************************************************************)
(* The local page server of crates/at_shield_windows/src/page_server.rs:   *)
(* its routes, the certificate that covers them, the trust store, and the  *)
(* listeners on 127.0.0.2:80 and :443 that count visits.                   *)
(*                                                                         *)
(* The engine drives it under the lock of WindowsFilter, one call at a     *)
(* time: a session start clears the routes, sets one per rule and resets   *)
(* the hits; an end clears the routes and drains the hits; a park only     *)
(* clears the routes.  Each listener is a thread that serves one           *)
(* connection after the other, between any two steps of a call.            *)
(*                                                                         *)
(* Abstractions.  A domain and its www name are one route.  A certificate  *)
(* is the names it covers and the number of its key.  The preview on       *)
(* :47831, which counts nothing, and the files of the pages are left out.  *)
(***************************************************************************)
EXTENDS Naturals, Sequences, FiniteSets

CONSTANTS
  Domain,        \* domains of rules in custom-page mode
  None,
  WritesMayFail, \* writing a file of cert_dir may fail
  MaxCerts,      \* bounds on the certificates generated, the visits, the sessions and
  MaxVisits,     \*   the ends of the process
  MaxSessions,
  MaxStops

Listener == {"http", "https"}

\* With no route the certificate is for localhost.
Names == {{"localhost"}} \cup ((SUBSET Domain) \ {{}})
Cert  == [names : Names, key : Nat]

ASSUME FlagsType   == WritesMayFail \in BOOLEAN
\* UpsertSite takes only a domain with a dot in it.
ASSUME DomainType  == "localhost" \notin Domain
ASSUME NoneType    ==
  /\ None \notin Cert /\ None \notin [cert : Cert, key : Nat]
  /\ \A n \in Names : n # None
ASSUME BoundsType  == {MaxCerts, MaxVisits, MaxSessions, MaxStops} \subseteq Nat

VARIABLES
  \* PageServer
  up, routes, hits, tls,
  \* cert_dir on the disk, and the Root store
  cer, key, stamp, root,
  \* the calls to come, the step of refresh_tls, the names and the certificate at hand
  calls, pc, names, pair,
  \* the connection each listener serves
  visit,
  \* history: the session, the records of those that ended, the connections that were
  \* open when its hits were reset, whether a write failed, and counters
  session, drained, open, failed, uninstalled, certs, visits, sessions, stops

files   == <<cer, key, stamp>>
refresh == <<calls, pc, names, pair>>
record  == <<session, drained, open, sessions>>
world   == <<up, uninstalled, stops>>
vars    == <<world, routes, hits, tls, files, root, refresh, visit, record, failed, certs, visits>>

Call(op, d) == [op |-> op, domain |-> d]
Idle == calls = <<>> /\ pc = "idle"

-----------------------------------------------------------------------------
(* refresh_tls, after every change of the routes *)

\* Mutant: nothing stands in for an empty list of names.
ReadRoutes ==
  /\ pc = "read_names"
  /\ names' = routes
  /\ pc' = "check_stamp"
  /\ UNCHANGED <<world, routes, hits, tls, files, root, calls, pair, visit, record, failed,
                 certs, visits>>

ReadNames ==
  /\ pc = "read_names"
  /\ names' = IF routes = {} THEN {"localhost"} ELSE routes
  /\ pc' = "check_stamp"
  /\ UNCHANGED <<world, routes, hits, tls, files, root, calls, pair, visit, record, failed,
                 certs, visits>>

\* Mutant: files that exist are used whatever they cover.
ReuseAny == stamp # None /\ cer # None /\ key # None

\* The files are used if the stamp has these names; the pair in them is not compared.
Reuse == stamp = names /\ cer # None /\ key # None

CheckStamp ==
  /\ pc = "check_stamp"
  /\ \/ /\ Reuse
        /\ pair' = [cert |-> cer, key |-> key]
        /\ pc' = "trust"
        /\ UNCHANGED certs
     \/ /\ ~ Reuse /\ certs < MaxCerts
        /\ certs' = certs + 1
        /\ pair' = [cert |-> [names |-> names, key |-> certs'], key |-> certs']
        /\ pc' = "write_cer"
  /\ UNCHANGED <<world, routes, hits, tls, files, root, calls, names, visit, record, failed, visits>>

\* build_tls_config returns an error: the configuration stays as it was.
WriteFails ==
  /\ WritesMayFail /\ pc \in {"write_cer", "write_key", "write_stamp"}
  /\ failed' = TRUE
  /\ pc' = "idle" /\ names' = {} /\ pair' = None
  /\ UNCHANGED <<world, routes, hits, tls, files, root, calls, visit, record, certs, visits>>

WriteCer ==
  /\ pc = "write_cer"
  /\ cer' = pair.cert
  /\ pc' = "write_key"
  /\ UNCHANGED <<world, routes, hits, tls, key, stamp, root, calls, names, pair, visit, record,
                 failed, certs, visits>>

WriteKey ==
  /\ pc = "write_key"
  /\ key' = pair.key
  /\ pc' = "write_stamp"
  /\ UNCHANGED <<world, routes, hits, tls, cer, stamp, root, calls, names, pair, visit, record,
                 failed, certs, visits>>

WriteStamp ==
  /\ pc = "write_stamp"
  /\ stamp' = names
  /\ pc' = "trust"
  /\ UNCHANGED <<world, routes, hits, tls, cer, key, root, calls, names, pair, visit, record,
                 failed, certs, visits>>

\* install_ca_trust adds the file to the Root store; nothing takes the old ones out.
Trust ==
  /\ pc = "trust"
  /\ root' = root \cup {cer}
  /\ pc' = "load"
  /\ UNCHANGED <<world, routes, hits, tls, files, calls, names, pair, visit, record, failed,
                 certs, visits>>

Load ==
  /\ pc = "load"
  /\ tls' = pair
  /\ pc' = "idle" /\ names' = {} /\ pair' = None
  /\ UNCHANGED <<world, routes, hits, files, root, calls, visit, record, failed, certs, visits>>

RefreshTls ==
  ReadNames \/ CheckStamp \/ WriteFails \/ WriteCer \/ WriteKey \/ WriteStamp \/ Trust \/ Load

-----------------------------------------------------------------------------
(* The calls of the engine *)

Step(op) == up /\ pc = "idle" /\ calls # <<>> /\ Head(calls).op = op /\ calls' = Tail(calls)

Route(op, changed) ==
  /\ Step(op)
  /\ routes' = changed
  /\ pc' = "read_names"
  /\ UNCHANGED <<world, hits, tls, files, root, names, pair, visit, record, failed, certs, visits>>

SetRoute    == Route("set_route", routes \cup {Head(calls).domain})
ClearRoute  == Route("clear_route", routes \ {Head(calls).domain})
ClearRoutes == Route("clear_routes", {})

ResetHits ==
  /\ Step("reset_hits")
  /\ hits' = {}
  /\ open' = {visit[l].id : l \in {l \in Listener : visit[l] # None}}
  /\ UNCHANGED <<world, routes, tls, files, root, pc, names, pair, visit, session, drained,
                 sessions, failed, certs, visits>>

\* The record of a session has the hits that are there when it ends.
DrainHits ==
  /\ Step("drain_hits")
  /\ drained' = drained \cup {[session |-> session, hits |-> hits, open |-> open]}
  /\ hits' = {} /\ session' = 0 /\ open' = {}
  /\ UNCHANGED <<world, routes, tls, files, root, pc, names, pair, visit, sessions, failed,
                 certs, visits>>

\* Mutant: a start does not reset the hits.
StartCallsOnly(d) ==
  <<Call("clear_routes", None), Call("clear_route", d), Call("set_route", d)>>

\* apply_profile_network for a profile of one rule, and reset_block_hits.
StartCalls(d) ==
  <<Call("clear_routes", None), Call("clear_route", d), Call("set_route", d),
    Call("reset_hits", None)>>

Drive(next) ==
  /\ up /\ Idle
  /\ calls' = next
  /\ UNCHANGED <<world, routes, hits, tls, files, root, pc, names, pair, visit, drained, open,
                 failed, certs, visits>>

StartSession ==
  /\ session = 0 /\ sessions < MaxSessions
  /\ sessions' = sessions + 1 /\ session' = sessions'
  /\ \E d \in Domain : Drive(StartCalls(d))

EndSession ==
  /\ session # 0
  /\ Drive(<<Call("clear_routes", None), Call("drain_hits", None)>>)
  /\ UNCHANGED <<session, sessions>>

\* The watchdog parks the session; nobody drains the hits.
ParkSession ==
  /\ session # 0 /\ session' = 0
  /\ Drive(<<Call("clear_routes", None)>>)
  /\ UNCHANGED sessions

-----------------------------------------------------------------------------
(* The listeners *)

\* A connection; without a TLS configuration the one on :443 is dropped.
Accept(l) ==
  /\ up /\ visit[l] = None /\ visits < MaxVisits
  /\ l = "https" => tls # None
  /\ visits' = visits + 1
  /\ \E d \in Domain :
       visit' = [visit EXCEPT ![l] = [id |-> visits', domain |-> d, at |-> "read", during |-> 0]]
  /\ UNCHANGED <<world, routes, hits, tls, files, root, refresh, record, failed, certs>>

\* record_document_hit looks the host up, under the lock of the routes ...
LookUp(l) ==
  /\ visit[l] # None /\ visit[l].at = "read"
  /\ visit' = [visit EXCEPT ![l] =
       IF visit[l].domain \in routes
       THEN [visit[l] EXCEPT !.at = "count", !.during = session] ELSE None]
  /\ UNCHANGED <<world, routes, hits, tls, files, root, refresh, record, failed, certs, visits>>

\* ... and counts under the lock of the hits.  The answer follows.
Count(l) ==
  /\ visit[l] # None /\ visit[l].at = "count"
  /\ hits' = hits \cup {[id |-> visit[l].id, during |-> visit[l].during]}
  /\ visit' = [visit EXCEPT ![l] = None]
  /\ UNCHANGED <<world, routes, tls, files, root, refresh, record, failed, certs, visits>>

\* The client closes without a request, or asks for something that is no document.
Dismiss(l) ==
  /\ visit[l] # None /\ visit[l].at = "read"
  /\ visit' = [visit EXCEPT ![l] = None]
  /\ UNCHANGED <<world, routes, hits, tls, files, root, refresh, record, failed, certs, visits>>

-----------------------------------------------------------------------------
(* The process *)

Ends ==
  /\ up /\ stops < MaxStops
  /\ up' = FALSE /\ stops' = stops + 1
  /\ routes' = {} /\ hits' = {} /\ tls' = None /\ session' = 0 /\ open' = {}
  /\ calls' = <<>> /\ pc' = "idle" /\ names' = {} /\ pair' = None
  /\ visit' = [l \in Listener |-> None]
  /\ UNCHANGED <<files, root, drained, sessions, failed, uninstalled, certs, visits>>

\* PageServer::start ends with a refresh_tls.
Starts ==
  /\ ~ up /\ ~ uninstalled
  /\ up' = TRUE /\ pc' = "read_names"
  /\ UNCHANGED <<routes, hits, tls, files, root, calls, names, pair, visit, record, failed,
                 uninstalled, certs, visits, stops>>

\* uninstall_cleanup: remove_ca_trust takes the certificate of the file out of the store,
\* and the data directory is deleted.
Uninstall ==
  /\ ~ up /\ ~ uninstalled
  /\ uninstalled' = TRUE
  /\ root' = root \ {cer}
  /\ cer' = None /\ key' = None /\ stamp' = None
  /\ UNCHANGED <<up, stops, routes, hits, tls, refresh, visit, record, failed, certs, visits>>

Init ==
  /\ up = FALSE /\ routes = {} /\ hits = {} /\ tls = None
  /\ cer = None /\ key = None /\ stamp = None /\ root = {}
  /\ calls = <<>> /\ pc = "idle" /\ names = {} /\ pair = None
  /\ visit = [l \in Listener |-> None]
  /\ session = 0 /\ drained = {} /\ open = {} /\ failed = FALSE /\ uninstalled = FALSE
  /\ certs = 0 /\ visits = 0 /\ sessions = 0 /\ stops = 0

Next ==
  \/ RefreshTls \/ SetRoute \/ ClearRoute \/ ClearRoutes \/ ResetHits \/ DrainHits
  \/ StartSession \/ EndSession \/ ParkSession
  \/ \E l \in Listener : Accept(l) \/ LookUp(l) \/ Count(l) \/ Dismiss(l)
  \/ Ends \/ Starts \/ Uninstall

Spec == Init /\ [][Next]_vars

-----------------------------------------------------------------------------
(* Properties *)

Hits == SUBSET [id : Nat, during : Nat]

\* The server, its files and its threads hold values of their types.
TypeOK ==
  /\ up \in BOOLEAN /\ failed \in BOOLEAN /\ uninstalled \in BOOLEAN
  /\ routes \subseteq Domain /\ hits \in Hits
  /\ cer \in Cert \cup {None} /\ key \in Nat \cup {None} /\ stamp \in Names \cup {None}
  /\ root \subseteq Cert
  /\ tls \in [cert : Cert, key : Nat] \cup {None}
  /\ \A r \in drained : r.hits \in Hits

\* Between two calls of the engine every routed domain is covered by the certificate
\* in use, its key is the one in use, and the Root store trusts it: the browser shows
\* the page and no warning.  Whenever the process was ended in the middle of writing
\* the files; a write that failed may leave the certificate of one generation beside
\* the key and the stamp of another.
CertCoversRoutes ==
  up /\ Idle /\ ~ failed =>
    \A d \in routes : /\ d \in tls.cert.names
                      /\ tls.cert.key = tls.key
                      /\ tls.cert \in root

\* The record of a session counts a visit once, and only a visit that was made during
\* it, or was being served when its hits were reset: no hit of a session that was
\* parked or ended goes to the next.
HitsOfTheirSession ==
  /\ \A r \in drained : \A h \in r.hits : h.during = r.session \/ h.id \in r.open
  /\ \A r, q \in drained : r # q => \A h \in r.hits, k \in q.hits : h.id # k.id

=============================================================================
