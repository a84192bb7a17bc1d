------------------------------ MODULE Domains -------------------------------
(***************************************************************************)
(* normalize_domain and domain_aliases of crates/at_shield_core/src/       *)
(* engine.rs.  A domain as the user types it is a sequence of its parts:   *)
(* a scheme, "user@", "www.", a host, "." and ":80" in some order, and     *)
(* then "/", "?" or "#" with whatever follows.  White space and letter     *)
(* case are left out, and a second scheme is not considered.               *)
(***************************************************************************)
EXTENDS Naturals, Sequences

Schemes  == {"https://", "http://"}
Ends     == {"/", "?", "#"}
Dotless  == {"user@", ":80", "localhost"}

\* What comes before the first part in marks, and after the last one.
Before(d, marks) ==
  SubSeq(d, 1, CHOOSE n \in 0 .. Len(d) :
                 /\ \A i \in 1 .. n : d[i] \notin marks
                 /\ n = Len(d) \/ d[n + 1] \in marks)

AfterLast(d, marks) ==
  SubSeq(d, CHOOSE n \in 1 .. Len(d) + 1 :
              /\ \A i \in n .. Len(d) : d[i] \notin marks
              /\ n = 1 \/ d[n - 1] \in marks, Len(d))

DropFirst(d, marks) == IF d # <<>> /\ d[1] \in marks THEN Tail(d) ELSE d

DropPort(d) == IF d # <<>> /\ d[Len(d)] = ":80" THEN SubSeq(d, 1, Len(d) - 1) ELSE d

TrimDots(d) ==
  SubSeq(d, 1, CHOOSE n \in 0 .. Len(d) :
                 /\ \A i \in n + 1 .. Len(d) : d[i] = "."
                 /\ n = 0 \/ d[n] # ".")

\* One pass: "www.www.x.com" loses one "www.", and "x.com:80." only its dot.
Norm(d) ==
  LET host == AfterLast(Before(DropFirst(d, Schemes), Ends), {"user@"}) IN
  TrimDots(DropFirst(DropPort(host), {"www."}))

\* UpsertSite takes a domain that has a dot in it.
Valid(d) == \E i \in 1 .. Len(d) : d[i] \notin Dotless

SameProduct == {<<"x.com">>, <<"twitter.com">>}

\* The other names of a domain, which are blocked and unblocked with it.
Aliases(d) == IF d \in SameProduct THEN SameProduct \ {d} ELSE {}

=============================================================================
