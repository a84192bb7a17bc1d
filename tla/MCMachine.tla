------------------------------ MODULE MCMachine ------------------------------
(* Machine with a service of each kind, one engine in the UI, and a run of    *)
(* --nuke.  An instance is not used twice: what comes after it is another.    *)
(* The user's lines are alike.  Past the first overlap of two rewrites        *)
(* nothing is claimed of the file, and the run goes no further.               *)
EXTENDS Machine, SequencesExt, TLC

\* The loop of hosts::rewrite, line by line with its flag.
StripLoop(ls) ==
  LET step(acc, l) ==
        IF l \in {Begin, End} THEN [acc EXCEPT !.skipping = (l = Begin)]
        ELSE IF acc.skipping THEN acc
        ELSE [acc EXCEPT !.out = Append(@, l)]
  IN FoldLeft(step, [out |-> <<>>, skipping |-> FALSE], ls).out

\* What Strip keeps is what that loop puts out, for every file of up to five lines.
ASSUME StripIsTheLoop == \A ls \in SeqOf(Lines, 5) : Kept(ls, Outside(ls)) = StripLoop(ls)

UserSymmetry == Permutations(UserLines)

NotRacedYet == ~ raced
=============================================================================
