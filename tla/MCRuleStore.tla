---------------------------- MODULE MCRuleStore -----------------------------
(* Instances of RuleStore for TLC. *)
EXTENDS RuleStore, TLC

X        == <<"x.com">>
Twitter  == <<"twitter.com">>
PastedX  == <<"https://", "www.", "x.com", "/", "home">>
TwiceWww == <<"www.", "www.", "twitter.com">>
Word     == <<"localhost", ":80">>

CONSTANT c1

TypedDomains == {X, Twitter, PastedX, TwiceWww, Word}

ThreeProfiles == {"profile-estudo", "mine", "profile-trabalho"}

SameSeeds == "profile-estudo" :> {X, Twitter}

RowOf(id, p, d, on) == [id |-> id, profile |-> p, domain |-> d, enabled |-> on]

\* A fresh installation; one of a version that did not normalise domains; one whose
\* seed profile is stale.
OldDatabases ==
  {[profiles |-> {}, sites |-> {}],
   [profiles |-> {"profile-estudo", "mine"},
    sites    |-> {RowOf(1, "mine", TwiceWww, FALSE),
                  RowOf(2, "profile-estudo", PastedX, FALSE)}],
   [profiles |-> {"profile-trabalho"}, sites |-> {RowOf(1, "profile-trabalho", X, TRUE)}]}

\* The theorems on these databases are not about nothing.
ASSUME OldDatabasesFit == OldUnique /\ OldNormal

=============================================================================
