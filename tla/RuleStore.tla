----------------------------- MODULE RuleStore ------------------------------
(***************************************************************************)
(* The rules of the database: the profiles and sites tables of             *)
(* crates/at_shield_core/src/store.rs, the seeding of a start, the         *)
(* migration of the warm-up and the commands of engine.rs that edit them.  *)
(*                                                                         *)
(* No transaction spans two statements: a step below is one SQL statement  *)
(* with the decision taken on its result, and another thread, or the end   *)
(* of the process, may come between two of them.  SQLite enforces the      *)
(* foreign key of sites (rusqlite's bundled build does so by default).     *)
(*                                                                         *)
(* Abstractions.  A row has its id, profile, domain and enabled flag; the  *)
(* redirect columns are left out.  The rules that are on the wire, and the *)
(* sessions themselves, are those of Engine: here a session is live or not.*)
(***************************************************************************)
EXTENDS Domains, FiniteSets

CONSTANTS
  Client,       \* connections the UI may have open at once
  Profile,      \* ids of profiles
  Builtin,      \* BUILTIN_PROFILES
  Stale,        \* built-in profiles of older versions
  Domain,       \* domains as typed, or as an older version stored them
  Seeds,        \* Seeds[p]: the domains a built-in profile is given
  Legacy,       \* databases the first start may find: [profiles, sites]
  Commands,     \* the commands the UI sends in this instance
  MaxRow,       \* bound on the rows ever made
  MaxRequests,  \* bound on the requests of a behaviour
  MaxStops      \* bound on the ends of the service

Main   == "main"
Warm   == "warm"
Thread == Client \cup {Main, Warm}

Row  == [id : Nat, profile : Profile, domain : Seq(STRING), enabled : BOOLEAN]
NoRow == [id |-> 0]

ASSUME ThreadsDistinct == Main \notin Client /\ Warm \notin Client
ASSUME ProfilesType    == Builtin \subseteq Profile /\ Stale \subseteq Profile \ Builtin
ASSUME DomainType      == Domain \subseteq Seq(STRING)
ASSUME SeedsType       == Seeds \in [Builtin -> SUBSET Seq(STRING)]
\* A database of an older version has what its key constraints leave: rows of profiles
\* that are there, numbered one by one.
ASSUME LegacyType ==
  \A db \in Legacy :
    /\ db.profiles \subseteq Profile
    /\ db.sites \subseteq Row /\ Cardinality(db.sites) \in Nat
    /\ \A s \in db.sites : s.profile \in db.profiles /\ s.id <= Cardinality(db.sites)
    /\ \A s, r \in db.sites : s.id = r.id => s = r
ASSUME CommandsType ==
  Commands \subseteq {"UpsertProfile", "DeleteProfile", "UpsertSite", "DeleteSite",
                      "SetRedirectPage", "SetEnabled", "SetEnabledBatch"}

VARIABLES
  \* the database
  profiles, sites,
  \* the process: "down", "seeding" or "up"; where each thread is, and its locals
  service, pc, frame,
  \* a session is live
  live,
  \* history: a request has been handled while another, or the migration, was in progress
  overlapped,
  \* the last row id made, and the counters that the bounds cap
  lastRow, requests, stops

rules == <<profiles, sites>>
world == <<service, live, overlapped, requests, stops>>
vars  == <<rules, world, pc, frame, lastRow>>

\* cmd; the row at hand, the flag and ids asked for; a profile; rows still to do.
EmptyFrame == [cmd |-> "none", row |-> NoRow, on |-> FALSE, ids |-> {}, profile |-> "none",
               todo |-> {}]

RowsOf(p) == {s \in sites : s.profile = p}
Ids       == {s.id : s \in sites}

-----------------------------------------------------------------------------
(* Control of a thread, and the statements *)

At(t, label) == pc[t] = label

Goto(t, label) == pc' = [pc EXCEPT ![t] = label] /\ UNCHANGED frame

GotoWith(t, label, f) ==
  /\ pc' = [pc EXCEPT ![t] = label]
  /\ frame' = [frame EXCEPT ![t] = f]

Return(t) == GotoWith(t, "idle", EmptyFrame)

\* A statement that only reads.
Reads == UNCHANGED <<rules, world, lastRow>>

\* Mutant: an SQLite that does not enforce foreign keys.
ForeignKeysOff(row) == TRUE

\* The foreign key of sites.
ParentExists(row) == row.profile \in profiles

\* INSERT ... ON CONFLICT(id) DO UPDATE: the whole row is written.
Upserted(row) == {s \in sites : s.id # row.id} \cup {row}

UpsertRow(row) == sites' = Upserted(row) /\ UNCHANGED <<profiles, world, lastRow>>

DeleteRow(id) == sites' = {s \in sites : s.id # id} /\ UNCHANGED <<profiles, world, lastRow>>

-----------------------------------------------------------------------------
(* seed_if_empty, before the service serves anything *)

SeedStale ==
  /\ At(Main, "seed_stale")
  /\ \/ \E p \in Stale \cap profiles :
          GotoWith(Main, "seed_delete_sites", [EmptyFrame EXCEPT !.profile = p])
     \/ Stale \cap profiles = {} /\ Goto(Main, "seed_profile")
  /\ Reads

SeedDeleteSites ==
  /\ At(Main, "seed_delete_sites")
  /\ sites' = sites \ RowsOf(frame[Main].profile)
  /\ Goto(Main, "seed_delete_profile")
  /\ UNCHANGED <<profiles, world, lastRow>>

SeedDeleteProfile ==
  /\ At(Main, "seed_delete_profile")
  /\ profiles' = profiles \ {frame[Main].profile}
  /\ Goto(Main, "seed_stale")
  /\ UNCHANGED <<sites, world, lastRow>>

Missing(p) == {d \in Seeds[p] : \A s \in RowsOf(p) : s.domain # d}

SeedProfile ==
  /\ At(Main, "seed_profile")
  /\ \E p \in Builtin \ profiles : profiles' = profiles \cup {p}
  /\ Goto(Main, "seed_profile")
  /\ UNCHANGED <<sites, world, lastRow>>

SeedSite ==
  /\ At(Main, "seed_profile")
  /\ \E p \in Builtin \cap profiles : \E d \in Missing(p) :
       sites' = sites \cup {[id |-> lastRow + 1, profile |-> p, domain |-> d, enabled |-> TRUE]}
  /\ lastRow' = lastRow + 1
  /\ Goto(Main, "seed_profile")
  /\ UNCHANGED <<profiles, world>>

\* Engine::new returns; the warm-up thread starts beside the requests.
Seeded ==
  /\ At(Main, "seed_profile") /\ Builtin \subseteq profiles
  /\ \A p \in Builtin : Missing(p) = {}
  /\ service' = "up"
  /\ pc' = [pc EXCEPT ![Main] = "idle", ![Warm] = "list_rows"]
  /\ UNCHANGED <<rules, live, overlapped, requests, stops, frame, lastRow>>

Seed == SeedStale \/ SeedDeleteSites \/ SeedDeleteProfile \/ SeedProfile \/ SeedSite \/ Seeded

-----------------------------------------------------------------------------
(* migrate_bad_domains, the first thing of the warm-up *)

ListRows ==
  /\ At(Warm, "list_rows")
  /\ GotoWith(Warm, "next_row", [EmptyFrame EXCEPT !.todo = {s \in sites :
                                   Norm(s.domain) \notin {<<>>, s.domain}}])
  /\ Reads

Retyped(row, d) == [row EXCEPT !.domain = d]

Clean(row) == Retyped(row, Norm(row.domain))

Clash(row) == \E s \in RowsOf(row.profile) : s.id # row.id /\ s.domain = Norm(row.domain)

\* Mutant: the clean domain is not looked for.
NextRowUnchecked ==
  /\ At(Warm, "next_row")
  /\ \/ /\ frame[Warm].todo = {} /\ GotoWith(Warm, "migrated", EmptyFrame)
     \/ \E row \in frame[Warm].todo :
          GotoWith(Warm, "rename_row",
                   [frame[Warm] EXCEPT !.row = row, !.todo = frame[Warm].todo \ {row}])
  /\ Reads

NextRow ==
  /\ At(Warm, "next_row")
  /\ \/ /\ frame[Warm].todo = {} /\ GotoWith(Warm, "migrated", EmptyFrame)
     \/ \E row \in frame[Warm].todo :
          GotoWith(Warm, IF Clash(row) THEN "drop_row" ELSE "rename_row",
                   [frame[Warm] EXCEPT !.row = row, !.todo = frame[Warm].todo \ {row}])
  /\ Reads

\* Mutant: an error of filter.remove, which is ignored, is returned.
DropRowOrFail ==
  /\ At(Warm, "drop_row")
  /\ \/ DeleteRow(frame[Warm].row.id) /\ Goto(Warm, "next_row")
     \/ Reads /\ GotoWith(Warm, "failed", EmptyFrame)

DropRow ==
  /\ At(Warm, "drop_row")
  /\ DeleteRow(frame[Warm].row.id)
  /\ Goto(Warm, "next_row")

\* Mutant: the row is written as it was read.
RenameNothing ==
  /\ At(Warm, "rename_row")
  /\ ParentExists(frame[Warm].row)
  /\ UpsertRow(frame[Warm].row)
  /\ Goto(Warm, "next_row")

\* The row as it was listed, with its new domain.  An error ends the warm-up.
RenameRow ==
  /\ At(Warm, "rename_row")
  /\ \/ /\ ParentExists(frame[Warm].row)
        /\ UpsertRow(Clean(frame[Warm].row))
        /\ Goto(Warm, "next_row")
     \/ /\ ~ ParentExists(frame[Warm].row)
        /\ GotoWith(Warm, "failed", EmptyFrame)
        /\ Reads

Migrate == ListRows \/ NextRow \/ DropRow \/ RenameRow

-----------------------------------------------------------------------------
(* Requests *)

\* The frames of a request that names some of these rows, ids, flags and profiles.
Naming(cmd, rows, ids, flags, ps) ==
  [cmd : {cmd}, row : rows, on : flags, ids : ids, profile : ps, todo : {{}}]

\* What the UI sends: rows it has listed, or new ones.
Asked(cmd) ==
  CASE cmd \in {"UpsertProfile", "DeleteProfile"} ->
         Naming(cmd, {NoRow}, {{}}, {FALSE}, Profile \ Stale)
    [] cmd = "UpsertSite" ->
         Naming(cmd, {Retyped(s, d) : s \in sites, d \in Domain}
                       \cup [id : {lastRow + 1}, profile : profiles, domain : Domain,
                             enabled : BOOLEAN],
                {{}}, {FALSE}, {"none"})
    [] cmd \in {"DeleteSite", "SetRedirectPage"} ->
         Naming(cmd, {NoRow}, {{id} : id \in Ids}, {FALSE}, {"none"})
    [] cmd = "SetEnabled" ->
         Naming(cmd, {NoRow}, {{id} : id \in Ids}, BOOLEAN, {"none"})
    [] cmd = "SetEnabledBatch" ->
         Naming(cmd, {NoRow}, {{s.id : s \in RowsOf(p)} : p \in profiles}, BOOLEAN, {"none"})

Request(c) ==
  /\ At(c, "idle") /\ service = "up" /\ requests < MaxRequests
  /\ requests' = requests + 1
  /\ overlapped' = (overlapped \/ \E t \in Thread \ {c} : pc[t] \notin {"idle", "migrated", "failed"})
  /\ \E cmd \in Commands : \E f \in Asked(cmd) :
       /\ cmd = "UpsertSite" => lastRow < MaxRow
       /\ GotoWith(c, "reject_if_session", f)
       /\ lastRow' = IF cmd = "UpsertSite" /\ f.row.id > lastRow THEN f.row.id ELSE lastRow
  /\ UNCHANGED <<rules, service, live, stops>>

FirstStep(cmd) ==
  CASE cmd = "UpsertProfile"  -> "write_profile"
    [] cmd = "DeleteProfile"  -> "check_profiles"
    [] cmd = "UpsertSite"     -> "find_row"
    [] cmd = "DeleteSite"     -> "get_doomed"
    [] OTHER                  -> "get_row"

RejectIfSession(c) ==
  /\ At(c, "reject_if_session")
  /\ \/ live /\ Return(c)
     \/ ~ live /\ Goto(c, FirstStep(frame[c].cmd))
  /\ Reads

WriteProfile(c) ==
  /\ At(c, "write_profile")
  /\ profiles' = profiles \cup {frame[c].profile}
  /\ Return(c)
  /\ UNCHANGED <<sites, world, lastRow>>

\* Mutant: built-in profiles can be deleted.
CheckOther(c) ==
  /\ At(c, "check_profiles")
  /\ LET p == frame[c].profile IN
     \/ p \in profiles /\ Cardinality(profiles) > 1 /\ Goto(c, "delete_sites")
     \/ (p \notin profiles \/ Cardinality(profiles) <= 1) /\ Return(c)
  /\ Reads

CheckProfiles(c) ==
  /\ At(c, "check_profiles")
  /\ LET p == frame[c].profile
         deletable == p \notin Builtin /\ p \in profiles /\ Cardinality(profiles) > 1 IN
     \/ deletable /\ Goto(c, "delete_sites")
     \/ ~ deletable /\ Return(c)
  /\ Reads

DeleteSites(c) ==
  /\ At(c, "delete_sites")
  /\ sites' = sites \ RowsOf(frame[c].profile)
  /\ Goto(c, "delete_profile")
  /\ UNCHANGED <<profiles, world, lastRow>>

\* The foreign key refuses a profile that has been given a site in between.
DeleteProfile(c) ==
  /\ At(c, "delete_profile")
  /\ profiles' = IF RowsOf(frame[c].profile) = {} THEN profiles \ {frame[c].profile} ELSE profiles
  /\ Return(c)
  /\ UNCHANGED <<sites, world, lastRow>>

\* UpsertSite: an existing row of the same profile and domain is written instead.
FindRow(c) ==
  /\ At(c, "find_row")
  /\ LET row   == Clean(frame[c].row)
         found == {s \in RowsOf(row.profile) : s.domain = row.domain}
         Write(r) == GotoWith(c, "write_row", [frame[c] EXCEPT !.row = r]) IN
     \/ ~ Valid(row.domain) /\ Return(c)
     \/ Valid(row.domain) /\ found = {} /\ Write(row)
     \/ /\ Valid(row.domain)
        /\ \E s \in found : Write(IF s.id = row.id THEN row
                                  ELSE [row EXCEPT !.id = s.id, !.enabled = TRUE])
  /\ Reads

\* SetEnabled, SetEnabledBatch (one row after the other) and SetRedirectPage.
GetRow(c) ==
  /\ At(c, "get_row")
  /\ \/ frame[c].ids = {} /\ Return(c)
     \/ \E id \in frame[c].ids :
          LET f == [frame[c] EXCEPT !.ids = frame[c].ids \ {id}] IN
          \/ id \notin Ids /\ GotoWith(c, "get_row", f)
          \/ \E s \in sites :
               /\ s.id = id
               /\ GotoWith(c, "write_row", [f EXCEPT !.row =
                    IF f.cmd = "SetRedirectPage" THEN s ELSE [s EXCEPT !.enabled = f.on]])
  /\ Reads

\* The row as it was found, deleted since or not.
WriteRow(c) ==
  /\ At(c, "write_row")
  /\ \/ ~ ParentExists(frame[c].row) /\ Return(c) /\ Reads
     \/ /\ ParentExists(frame[c].row)
        /\ UpsertRow(frame[c].row)
        /\ Goto(c, IF frame[c].cmd = "SetRedirectPage" THEN "get_row" ELSE "find_alias")

Twins(row) == {s \in RowsOf(row.profile) : s.domain \in Aliases(row.domain)}

\* After the row and its aliases: the next row of a batch, or the end.
AfterAliases(c) == Goto(c, "get_row")

\* Mutant: the aliases that agree with the row are the ones that are flipped.
FindAgreeing(c) ==
  /\ At(c, "find_alias")
  /\ LET row == frame[c].row IN
     \/ \E s \in Twins(row) : s.enabled = row.enabled
                              /\ GotoWith(c, "write_alias", [frame[c] EXCEPT !.todo = {s}])
     \/ (\A s \in Twins(row) : s.enabled # row.enabled) /\ AfterAliases(c)
  /\ Reads

\* set_aliases_enabled: one alias, found by its domain.
FindAlias(c) ==
  /\ At(c, "find_alias")
  /\ LET row == frame[c].row IN
     \/ Twins(row) = {} /\ AfterAliases(c)
     \/ \E s \in Twins(row) :
          \/ s.enabled = row.enabled /\ AfterAliases(c)
          \/ s.enabled # row.enabled /\ GotoWith(c, "write_alias", [frame[c] EXCEPT !.todo = {s}])
  /\ Reads

\* An error of this statement is ignored.
WriteAlias(c) ==
  /\ At(c, "write_alias")
  /\ \E s \in frame[c].todo :
       \/ ParentExists(s) /\ UpsertRow([s EXCEPT !.enabled = frame[c].row.enabled])
       \/ ~ ParentExists(s) /\ Reads
  /\ GotoWith(c, "get_row", [frame[c] EXCEPT !.todo = {}])

\* DeleteSite: the row, then its aliases.
GetDoomed(c) ==
  /\ At(c, "get_doomed")
  /\ \E id \in frame[c].ids :
       \/ id \notin Ids /\ Return(c)
       \/ \E s \in sites : s.id = id /\ GotoWith(c, "find_doomed", [frame[c] EXCEPT !.row = s])
  /\ Reads

\* Mutant: an alias that is not there is deleted too.
FindDoomedAnyway(c) ==
  /\ At(c, "find_doomed")
  /\ \E s \in Twins(frame[c].row) \cup {NoRow} :
       GotoWith(c, "delete_row", [frame[c] EXCEPT !.todo = {s}])
  /\ Reads

FindDoomed(c) ==
  /\ At(c, "find_doomed")
  /\ \/ Twins(frame[c].row) = {} /\ Goto(c, "delete_row")
     \/ \E s \in Twins(frame[c].row) :
          GotoWith(c, "delete_row", [frame[c] EXCEPT !.todo = {s}])
  /\ Reads

DeleteDoomed(c) ==
  /\ At(c, "delete_row")
  /\ DeleteRow(frame[c].row.id)
  /\ \/ frame[c].todo = {} /\ Return(c)
     \/ \E s \in frame[c].todo :
          GotoWith(c, "delete_row", [frame[c] EXCEPT !.row = s, !.todo = {}])

Handle(c) ==
  \/ RejectIfSession(c) \/ WriteProfile(c) \/ CheckProfiles(c) \/ DeleteSites(c)
  \/ DeleteProfile(c) \/ FindRow(c) \/ GetRow(c) \/ WriteRow(c) \/ FindAlias(c)
  \/ WriteAlias(c) \/ GetDoomed(c) \/ FindDoomed(c) \/ DeleteDoomed(c)

-----------------------------------------------------------------------------
(* The service and its sessions *)

SessionStarts ==
  /\ service = "up" /\ ~ live /\ live' = TRUE
  /\ UNCHANGED <<rules, service, overlapped, requests, stops, pc, frame, lastRow>>

SessionEnds ==
  /\ live /\ live' = FALSE
  /\ UNCHANGED <<rules, service, overlapped, requests, stops, pc, frame, lastRow>>

\* At any step of a start, of the migration or of a request.
ServiceEnds ==
  /\ service # "down" /\ stops < MaxStops
  /\ service' = "down" /\ stops' = stops + 1 /\ live' = FALSE
  /\ pc' = [t \in Thread |-> "idle"] /\ frame' = [t \in Thread |-> EmptyFrame]
  /\ UNCHANGED <<rules, overlapped, requests, lastRow>>

ServiceStarts ==
  /\ service = "down"
  /\ service' = "seeding"
  /\ pc' = [pc EXCEPT ![Main] = "seed_stale"]
  /\ UNCHANGED <<rules, live, overlapped, requests, stops, frame, lastRow>>

Init ==
  /\ \E db \in Legacy : /\ profiles = db.profiles /\ sites = db.sites
                        /\ lastRow = Cardinality(db.sites)
  /\ service = "down" /\ live = FALSE /\ overlapped = FALSE
  /\ pc = [t \in Thread |-> "idle"] /\ frame = [t \in Thread |-> EmptyFrame]
  /\ requests = 0 /\ stops = 0

Next ==
  \/ Seed \/ Migrate
  \/ \E c \in Client : Request(c) \/ Handle(c)
  \/ SessionStarts \/ SessionEnds \/ ServiceEnds \/ ServiceStarts

Spec == Init /\ [][Next]_vars

-----------------------------------------------------------------------------
(* What may be asked of an old database, the seeds and what is typed *)

\* A profile of an old database has one row per domain: no constraint of the table says so.
OldUnique ==
  \A db \in Legacy : \A s, r \in db.sites :
    s.profile = r.profile /\ s.domain = r.domain => s = r

Normal(d) == \E e \in Domain : d = Norm(e)

\* What an old database holds was typed and has a host in it, the seeds are normal, and
\* what is normalised twice is what some domain that may be typed normalises to.
OldNormal ==
  /\ \A db \in Legacy : \A s \in db.sites : s.domain \in Domain /\ Norm(s.domain) # <<>>
  /\ \A p \in Builtin : \A d \in Seeds[p] : Normal(d)
  /\ \A d \in Domain : Normal(Norm(Norm(d)))

-----------------------------------------------------------------------------
(* Properties *)

\* The database and the locals hold values of their Rust types.
TypeOK ==
  /\ profiles \subseteq Profile /\ sites \subseteq Row
  /\ service \in {"down", "seeding", "up"} /\ live \in BOOLEAN /\ overlapped \in BOOLEAN
  /\ DOMAIN pc = Thread /\ DOMAIN frame = Thread
  /\ \A t \in Thread :
       /\ frame[t].row \in Row \cup {NoRow} /\ frame[t].todo \subseteq Row
       /\ frame[t].ids \subseteq Nat /\ frame[t].profile \in Profile \cup {"none"}
  /\ lastRow \in Nat /\ requests \in Nat /\ stops \in Nat

\* No row names a profile that is gone, whatever overlaps and wherever a deletion
\* of a profile is cut short; and no two rows have one id.
NoOrphans ==
  /\ \A s \in sites : s.profile \in profiles
  /\ \A s, r \in sites : s.id = r.id => s = r

\* While requests are served, the built-in profiles are there and those of older
\* versions are not, after any number of starts that were cut short.
BuiltinsServed ==
  service = "up" => Builtin \subseteq profiles /\ Stale \cap profiles = {}

\* A profile has one row per domain, so that a toggle of the row the UI shows is a
\* toggle of the rule, as long as requests and the migration do not overlap; the
\* ends of the service in the middle of them do no harm.
UniqueDomains ==
  ~ overlapped =>
    \A s, r \in sites : s.profile = r.profile /\ s.domain = r.domain => s = r

\* After the migration the database holds only what normalize_domain returns.
StoredNormal ==
  pc[Warm] = "migrated" /\ ~ overlapped =>
    \A s \in sites : Normal(s.domain)

\* The migration fails, and the warm-up returns without clearing the network, only
\* when a request overlapped it.
WarmUpGoesOn == pc[Warm] = "failed" => overlapped

\* An edit that ends leaves the other names of its domain as it left the domain:
\* they are blocked and unblocked together.
AliasesFollow ==
  [][\A c \in Client :
       /\ pc[c] \in {"find_alias", "write_alias"} /\ pc'[c] = "get_row"
       /\ ~ overlapped
       => \A s \in sites' :
            s.profile = frame[c].row.profile /\ s.domain \in Aliases(frame[c].row.domain)
              => s.enabled = frame[c].row.enabled]_vars

=============================================================================
