----------------------------- MODULE MachineProofs -----------------------------
(***************************************************************************)
(* Proofs about Machine, for any instances of each kind and any lines of   *)
(* the user: what the rewrites of several processes do to the hosts file,  *)
(* as long as none meets another.                                          *)
(***************************************************************************)
EXTENDS Machine, SequenceTheorems, WellFoundedInduction, TLAPS

-----------------------------------------------------------------------------
(* The lines that are kept, by induction on their number *)

\* What holds of 0 and goes from n to n + 1 holds up to m: there is no least exception.
LEMMA UpTo ==
  ASSUME NEW m \in Nat, NEW T, 0 \in T, \A n \in 0 .. m - 1 : n \in T => n + 1 \in T
  PROVE  \A n \in 0 .. m : n \in T
<1> SUFFICES ASSUME NEW k \in 0 .. m, k \notin T PROVE FALSE
  OBVIOUS
<1> DEFINE X == {n \in 0 .. m : n \notin T}
<1>1. X \subseteq Nat /\ X # {}
  OBVIOUS
<1>2. \E x \in X : \A y \in X : ~ (<<y, x>> \in OpToRel(<, Nat))
  BY <1>1, NatLessThanWellFounded, WFMin
<1>3. PICK x \in X : \A y \in X : ~ (<<y, x>> \in OpToRel(<, Nat))
  BY <1>2
<1>4. \A y \in X : ~ (y < x)
  BY <1>1, <1>3 DEF OpToRel
<1>5. x # 0 /\ x \in 0 .. m
  BY <1>3
<1>6. x - 1 \in 0 .. m - 1 /\ x - 1 \in 0 .. m /\ x - 1 < x /\ (x - 1) + 1 = x
  BY <1>5
<1>7. x - 1 \in T
  BY <1>4, <1>6
<1> QED
  BY <1>3, <1>6, <1>7

\* f counts up what is kept of the first n lines of ls.
Counts(f, ls, K) ==
  /\ f[0] = <<>>
  /\ \A n \in 1 .. Len(ls) : f[n] = IF n \in K THEN Append(f[n - 1], ls[n]) ELSE f[n - 1]

LEMMA KeptCounts ==
  ASSUME NEW ls, Len(ls) \in Nat, NEW K
  PROVE  \E f : Counts(f, ls, K) /\ Kept(ls, K) = f[Len(ls)]
<1> DEFINE next(f, n) == IF n = 0 THEN <<>>
                         ELSE IF n \in K THEN Append(f[n - 1], ls[n]) ELSE f[n - 1]
           T == {m \in 0 .. Len(ls) : \E f : f = [n \in 0 .. m |-> next(f, n)]}
<1>1. 0 \in T
  <2> DEFINE none == [n \in 0 .. 0 |-> <<>>]
  <2>1. \A n \in 0 .. 0 : next(none, n) = <<>>
    OBVIOUS
  <2>2. none = [n \in 0 .. 0 |-> next(none, n)]
    <3> HIDE DEF next
    <3> QED
      BY <2>1
  <2>3. 0 \in 0 .. Len(ls)
    OBVIOUS
  <2> HIDE DEF none, next
  <2> QED
    BY <2>2, <2>3
<1>2. ASSUME NEW m \in 0 .. Len(ls) - 1, m \in T PROVE m + 1 \in T
  <2>1. PICK f : f = [n \in 0 .. m |-> next(f, n)]
    BY <1>2
  <2> DEFINE g == [n \in 0 .. m + 1 |->
                     IF n <= m THEN f[n]
                     ELSE IF m + 1 \in K THEN Append(f[m], ls[m + 1]) ELSE f[m]]
  <2>2. \A n \in 0 .. m : g[n] = next(g, n)
    <3>1. \A n \in 0 .. m : f[n] = next(f, n)
      BY <2>1
    <3>2. \A n \in 0 .. m : g[n] = f[n] /\ (n # 0 => n - 1 \in 0 .. m /\ g[n - 1] = f[n - 1])
      OBVIOUS
    <3> QED
      BY <3>1, <3>2
  <2>3. g[m + 1] = next(g, m + 1)
    <3>1. (m + 1) - 1 = m /\ m + 1 # 0 /\ ~ (m + 1 <= m) /\ m <= m /\ m \in 0 .. m + 1
            /\ m + 1 \in 0 .. m + 1
      OBVIOUS
    <3>2. g[m] = f[m] /\ g[m + 1] = IF m + 1 \in K THEN Append(f[m], ls[m + 1]) ELSE f[m]
      BY <3>1
    <3> HIDE DEF g
    <3> QED
      BY <3>1, <3>2
  <2>4. \A n \in 0 .. m + 1 : g[n] = next(g, n)
    <3>1. \A n \in 0 .. m + 1 : n \in 0 .. m \/ n = m + 1
      OBVIOUS
    <3> HIDE DEF g, next
    <3> QED
      BY <2>2, <2>3, <3>1
  <2>5. g = [n \in 0 .. m + 1 |-> g[n]]
    OBVIOUS
  <2>6. g = [n \in 0 .. m + 1 |-> next(g, n)]
    <3> HIDE DEF g, next
    <3> QED
      BY <2>4, <2>5
  <2>7. m + 1 \in 0 .. Len(ls)
    OBVIOUS
  <2> QED
    BY <2>6, <2>7
<1>3. \E f : f = [n \in 0 .. Len(ls) |-> next(f, n)]
  <2>1. Len(ls) \in T
    <3> HIDE DEF T
    <3>1. \A m \in 0 .. Len(ls) : m \in T
      BY <1>1, <1>2, UpTo
    <3> QED
      BY <3>1
  <2> QED
    BY <2>1
<1> DEFINE kept == CHOOSE f : f = [n \in 0 .. Len(ls) |-> next(f, n)]
<1>4. kept = [n \in 0 .. Len(ls) |-> next(kept, n)]
  BY <1>3
<1>5. Kept(ls, K) = kept[Len(ls)]
  BY DEF Kept
<1> HIDE DEF kept
<1>6. Counts(kept, ls, K)
  <2>1. \A n \in 0 .. Len(ls) : kept[n] = next(kept, n)
    BY <1>4
  <2> QED
    BY <2>1 DEF Counts
<1> QED
  BY <1>5, <1>6

LEMMA CountTyped ==
  ASSUME NEW S, NEW ls, Len(ls) \in Nat, NEW K, NEW f, Counts(f, ls, K),
         \A n \in 1 .. Len(ls) : n \in K => ls[n] \in S
  PROVE  \A n \in 0 .. Len(ls) : f[n] \in Seq(S)
<1> DEFINE T == {n \in 0 .. Len(ls) : f[n] \in Seq(S)}
<1>1. 0 \in T
  <2>1. f[0] = <<>> /\ 0 \in 0 .. Len(ls)
    BY DEF Counts
  <2>2. <<>> \in Seq(S)
    OBVIOUS
  <2> QED
    BY <2>1, <2>2
<1>2. ASSUME NEW n \in 0 .. Len(ls) - 1, n \in T PROVE n + 1 \in T
  <2>1. n + 1 \in 1 .. Len(ls) /\ (n + 1) - 1 = n /\ n + 1 \in 0 .. Len(ls)
    OBVIOUS
  <2>2. f[n + 1] = IF n + 1 \in K THEN Append(f[n], ls[n + 1]) ELSE f[n]
    BY <2>1 DEF Counts
  <2>3. n + 1 \in K => Append(f[n], ls[n + 1]) \in Seq(S)
    BY <1>2, <2>1, AppendProperties
  <2> QED
    BY <1>2, <2>1, <2>2, <2>3
<1>3. \A n \in 0 .. Len(ls) : n \in T
  <2> HIDE DEF T
  <2> QED
    BY <1>1, <1>2, UpTo
<1> QED
  BY <1>3

\* The lines kept of a file are lines of it.
LEMMA KeptTyped ==
  ASSUME NEW S, NEW ls, Len(ls) \in Nat, NEW K,
         \A n \in 1 .. Len(ls) : n \in K => ls[n] \in S
  PROVE  Kept(ls, K) \in Seq(S)
BY KeptCounts, CountTyped

UserAt(ls) == {n \in 1 .. Len(ls) : ls[n] \in UserLines}

LEMMA OfUserCounts ==
  ASSUME NEW ls, Len(ls) \in Nat
  PROVE  \E f : Counts(f, ls, UserAt(ls)) /\ OfUser(ls) = f[Len(ls)]
BY KeptCounts DEF OfUser, UserAt

LEMMA OfUserEmpty == OfUser(<<>>) = <<>>
BY OfUserCounts DEF Counts

\* A line at the end of a file is one more line of the user, or none.
LEMMA OfUserAppend ==
  ASSUME NEW ls \in Seq(Lines), NEW l \in Lines
  PROVE  OfUser(Append(ls, l)) = IF l \in UserLines THEN Append(OfUser(ls), l) ELSE OfUser(ls)
<1> DEFINE more == Append(ls, l)
<1>1. /\ more \in Seq(Lines) /\ Len(more) = Len(ls) + 1 /\ more[Len(ls) + 1] = l
      /\ \A n \in 1 .. Len(ls) : more[n] = ls[n]
      /\ Len(ls) \in Nat
  OBVIOUS
<1> HIDE DEF more
<1>2. PICK f : Counts(f, ls, UserAt(ls)) /\ OfUser(ls) = f[Len(ls)]
  BY <1>1, OfUserCounts
<1>3. PICK g : Counts(g, more, UserAt(more)) /\ OfUser(more) = g[Len(more)]
  BY <1>1, OfUserCounts
<1> DEFINE T == {n \in 0 .. Len(ls) : f[n] = g[n]}
<1>4. 0 \in T
  BY <1>1, <1>2, <1>3 DEF Counts
<1>5. ASSUME NEW n \in 0 .. Len(ls) - 1, n \in T PROVE n + 1 \in T
  <2>1. n + 1 \in 1 .. Len(ls) /\ (n + 1) - 1 = n /\ n + 1 \in 0 .. Len(ls)
          /\ n + 1 \in 1 .. Len(more) /\ more[n + 1] = ls[n + 1]
    BY <1>1
  <2>2. n + 1 \in UserAt(ls) <=> n + 1 \in UserAt(more)
    BY <2>1 DEF UserAt
  <2>3. f[n + 1] = IF n + 1 \in UserAt(ls) THEN Append(f[n], ls[n + 1]) ELSE f[n]
    BY <1>2, <2>1 DEF Counts
  <2>4. g[n + 1] = IF n + 1 \in UserAt(more) THEN Append(g[n], more[n + 1]) ELSE g[n]
    BY <1>3, <2>1 DEF Counts
  <2> QED
    BY <1>5, <2>1, <2>2, <2>3, <2>4
<1>6. f[Len(ls)] = g[Len(ls)]
  <2>1. Len(ls) \in T
    <3> HIDE DEF T
    <3>1. \A n \in 0 .. Len(ls) : n \in T
      BY <1>1, <1>4, <1>5, UpTo
    <3> QED
      BY <1>1, <3>1
  <2> QED
    BY <2>1
<1>7. g[Len(ls) + 1] = IF l \in UserLines THEN Append(g[Len(ls)], l) ELSE g[Len(ls)]
  <2>1. Len(ls) + 1 \in 1 .. Len(more) /\ (Len(ls) + 1) - 1 = Len(ls)
    BY <1>1
  <2>2. Len(ls) + 1 \in UserAt(more) <=> l \in UserLines
    BY <1>1, <2>1 DEF UserAt
  <2> QED
    BY <1>1, <1>3, <2>1, <2>2 DEF Counts
<1> QED
  BY <1>1, <1>2, <1>3, <1>6, <1>7 DEF more

\* Dropping lines that are not the user's leaves the user's as they are.
LEMMA OfUserKept ==
  ASSUME NEW ls \in Seq(Lines), NEW K, UserAt(ls) \subseteq K
  PROVE  OfUser(Kept(ls, K)) = OfUser(ls)
<1>1. Len(ls) \in Nat /\ \A n \in 1 .. Len(ls) : ls[n] \in Lines
  OBVIOUS
<1>2. PICK f : Counts(f, ls, K) /\ Kept(ls, K) = f[Len(ls)]
  BY <1>1, KeptCounts
<1>3. PICK g : Counts(g, ls, UserAt(ls)) /\ OfUser(ls) = g[Len(ls)]
  BY <1>1, OfUserCounts
<1>4. \A n \in 0 .. Len(ls) : f[n] \in Seq(Lines)
  BY <1>1, <1>2, CountTyped
<1> DEFINE T == {n \in 0 .. Len(ls) : OfUser(f[n]) = g[n]}
<1>5. 0 \in T
  BY <1>1, <1>2, <1>3, OfUserEmpty DEF Counts
<1>6. ASSUME NEW n \in 0 .. Len(ls) - 1, n \in T PROVE n + 1 \in T
  <2>1. n + 1 \in 1 .. Len(ls) /\ (n + 1) - 1 = n /\ n + 1 \in 0 .. Len(ls) /\ n \in 0 .. Len(ls)
    BY <1>1
  <2>2. f[n + 1] = IF n + 1 \in K THEN Append(f[n], ls[n + 1]) ELSE f[n]
    BY <1>2, <2>1 DEF Counts
  <2>3. g[n + 1] = IF n + 1 \in UserAt(ls) THEN Append(g[n], ls[n + 1]) ELSE g[n]
    BY <1>3, <2>1 DEF Counts
  <2>4. OfUser(Append(f[n], ls[n + 1])) =
          IF ls[n + 1] \in UserLines THEN Append(OfUser(f[n]), ls[n + 1]) ELSE OfUser(f[n])
    BY <1>1, <1>4, <2>1, OfUserAppend
  <2>5. n + 1 \in UserAt(ls) <=> ls[n + 1] \in UserLines
    BY <2>1 DEF UserAt
  <2> QED
    BY <1>6, <2>1, <2>2, <2>3, <2>4, <2>5
<1>7. Len(ls) \in T
  <2> HIDE DEF T
  <2>1. \A n \in 0 .. Len(ls) : n \in T
    BY <1>1, <1>5, <1>6, UpTo
  <2> QED
    BY <1>1, <2>1
<1> QED
  BY <1>2, <1>3, <1>7

-----------------------------------------------------------------------------
(* The inductive invariant *)

Task == {"warm", "bind", "start", "end", "drop", "nuke"}

Work == [at : {"read", "truncated"}, why : Task \ {"bind"}, out : Seq(Lines)]

Job == {NoJob} \cup Work

\* The variables have their types, a job is one of the tasks to do, and an instance that is
\* not yet there has nothing to do, no session and no port.
Control ==
  /\ lines \in Seq(Lines) /\ users \in Seq(UserLines)
  /\ life \in [Instance -> {"new", "up", "stopped", "gone"}]
  /\ todo \in [Instance -> SUBSET Task]
  /\ job \in [Instance -> Job]
  /\ \A i \in Instance : ~ Idle(i) => job[i].why \in todo[i]
  /\ session \in [Instance -> BOOLEAN]
  /\ port \in Service \cup {None} /\ slot \in Ffi \cup {None}
  /\ raced \in BOOLEAN /\ torn \in BOOLEAN /\ died \in BOOLEAN
  /\ \A i \in Instance : life[i] = "new" => todo[i] = {} /\ ~ session[i] /\ port # i

\* One block at most, in the order it is written in; it may be cut off.
Shaped(ls) ==
  /\ \A m, n \in 1 .. Len(ls) : ls[m] = Begin /\ ls[n] = Begin => m = n
  /\ \A n \in 1 .. Len(ls) : ls[n] = Entry => n > 1 /\ ls[n - 1] = Begin
  /\ \A n \in 1 .. Len(ls) : ls[n] = End => n > 1 /\ ls[n - 1] = Entry

\* A block that begins also ends.
Whole(ls) == \A n \in 1 .. Len(ls) : ls[n] = Begin => n + 2 <= Len(ls) /\ ls[n + 2] = End

\* A file that has the user's lines, and one line more is theirs.
Keeps(ls) == Whole(ls) /\ OfUser(ls) = users

NoBlock(ls) == \A n \in 1 .. Len(ls) : ls[n] # Begin

OneWriter == \A i, j \in Instance : ~ Idle(i) /\ ~ Idle(j) => i = j

Truncated == \E i \in Instance : job[i].at = "truncated"

\* What the file is, and what it is about to be.
File ==
  ~ raced =>
    /\ OneWriter
    /\ Shaped(lines)
    /\ \A i \in Instance : ~ Idle(i) =>
         Shaped(job[i].out) /\ (job[i].why # "start" => NoBlock(job[i].out))
    /\ Truncated => lines = <<>>
    /\ ~ torn =>
         /\ \A i \in Instance : ~ Idle(i) => Keeps(job[i].out)
         /\ ~ Truncated => Keeps(lines)

\* Our block in the file is somebody's.
Owned ==
  ~ raced /\ ~ died /\ ~ NoBlock(lines)
    => \E i \in Instance : session[i] \/ todo[i] \ {"bind"} # {}

MachineInv == Control /\ File /\ Owned

-----------------------------------------------------------------------------
(* What a rewrite makes of a file *)

LEMMA OutsideIsClean ==
  ASSUME NEW ls \in Seq(Lines), Shaped(ls), NEW n \in Outside(ls)
  PROVE  ls[n] \in UserLines \cup {Cut}
<1>1. Len(ls) \in Nat /\ n \in 1 .. Len(ls) /\ ls[n] \in Lines /\ ls[n] \notin {Begin, End}
        /\ \A b \in 1 .. n : ls[b] = Begin => \E e \in b .. n : ls[e] = End
  BY DEF Outside
<1>2. ASSUME ls[n] = Entry PROVE FALSE
  <2>1. n > 1 /\ ls[n - 1] = Begin
    BY <1>1, <1>2 DEF Shaped
  <2>2. n - 1 \in 1 .. n
    BY <1>1, <2>1
  <2>3. PICK e \in n - 1 .. n : ls[e] = End
    BY <1>1, <2>1, <2>2
  <2>4. e = n - 1 \/ e = n
    BY <1>1, <2>3
  <2> QED
    BY <1>2, <2>1, <2>3, <2>4 DEF Begin, End, Entry
<1> QED
  BY <1>1, <1>2 DEF Lines

\* A block that is whole ends before the user's next line.
LEMMA UserOutside ==
  ASSUME NEW ls \in Seq(Lines), Shaped(ls), Whole(ls)
  PROVE  UserAt(ls) \subseteq Outside(ls)
<1> SUFFICES ASSUME NEW n \in UserAt(ls) PROVE n \in Outside(ls)
  OBVIOUS
<1>1. Len(ls) \in Nat /\ n \in 1 .. Len(ls) /\ ls[n] \in UserLines
  BY DEF UserAt
<1>2. ls[n] \notin {Begin, End, Entry}
  BY <1>1, KindsDistinct
<1>3. ASSUME NEW b \in 1 .. n, ls[b] = Begin PROVE \E e \in b .. n : ls[e] = End
  <2>1. b \in 1 .. Len(ls) /\ b + 2 <= Len(ls) /\ ls[b + 2] = End
    BY <1>1, <1>3 DEF Whole
  <2>2. ls[b + 1] = Entry
    <3>1. b + 2 \in 1 .. Len(ls) /\ (b + 2) - 1 = b + 1
      BY <1>1, <2>1
    <3> QED
      BY <2>1, <3>1 DEF Shaped
  <2>3. n # b /\ n # b + 1 /\ n # b + 2
    BY <1>2, <1>3, <2>1, <2>2
  <2>4. b + 2 \in b .. n
    BY <1>1, <2>1, <2>3
  <2> QED
    BY <2>1, <2>4
<1> QED
  BY <1>1, <1>2, <1>3 DEF Outside

\* A file of the user's lines, and perhaps some that were cut off.
Clean(ls) == ls \in Seq(UserLines \cup {Cut})

LEMMA CleanShaped ==
  ASSUME NEW ls, Clean(ls)
  PROVE  ls \in Seq(Lines) /\ Shaped(ls) /\ NoBlock(ls)
<1>1. UserLines \cup {Cut} \subseteq Lines /\ {Begin, Entry, End} \cap (UserLines \cup {Cut}) = {}
  BY KindsDistinct DEF Lines, Begin, End, Entry, Cut
<1>2. Len(ls) \in Nat /\ \A n \in 1 .. Len(ls) : ls[n] \in UserLines \cup {Cut}
  BY DEF Clean
<1>3. ls \in Seq(Lines)
  BY <1>1, <1>2 DEF Clean
<1> QED
  BY <1>1, <1>2, <1>3 DEF Shaped, NoBlock

LEMMA WithBlock ==
  ASSUME NEW ls, Clean(ls)
  PROVE  LET new == ls \o Block("start") IN
         /\ new \in Seq(Lines) /\ Shaped(new) /\ Whole(new) /\ OfUser(new) = OfUser(ls)
<1> DEFINE one   == Append(ls, Begin)
           two   == Append(one, Entry)
           three == Append(two, End)
           new   == ls \o Block("start")
<1>1. ls \in Seq(Lines) /\ Len(ls) \in Nat /\ \A n \in 1 .. Len(ls) : ls[n] \in UserLines \cup {Cut}
  BY CleanShaped DEF Clean
<1>2. {Begin, Entry, End} \subseteq Lines /\ {Begin, Entry, End} \cap UserLines = {}
        /\ Begin # Entry /\ Begin # End /\ Entry # End /\ Cut \notin {Begin, Entry, End}
  BY KindsDistinct DEF Lines, Begin, End, Entry, Cut
<1>3. one \in Seq(Lines) /\ two \in Seq(Lines) /\ three \in Seq(Lines)
  BY <1>1, <1>2
<1>4. OfUser(three) = OfUser(ls)
  <2>1. OfUser(one) = OfUser(ls)
    BY <1>1, <1>2, OfUserAppend
  <2>2. OfUser(two) = OfUser(one)
    BY <1>2, <1>3, OfUserAppend
  <2>3. OfUser(three) = OfUser(two)
    BY <1>2, <1>3, OfUserAppend
  <2> QED
    BY <2>1, <2>2, <2>3
<1>5. /\ Len(three) = Len(ls) + 3
      /\ \A n \in 1 .. Len(ls) : three[n] = ls[n]
      /\ three[Len(ls) + 1] = Begin /\ three[Len(ls) + 2] = Entry /\ three[Len(ls) + 3] = End
  BY <1>1, <1>2
<1>6. new = three
  <2>0. PICK b : b = Block("start")
    OBVIOUS
  <2>1. b \in Seq(Lines) /\ Len(b) = 3 /\ b[1] = Begin /\ b[2] = Entry /\ b[3] = End
    BY <1>2, <2>0 DEF Block
  <2>2. /\ new \in Seq(Lines) /\ Len(new) = Len(ls) + 3
        /\ \A n \in 1 .. Len(ls) + 3 : new[n] = IF n <= Len(ls) THEN ls[n] ELSE b[n - Len(ls)]
    <3>1. new = ls \o b
      BY <2>0 DEF new
    <3>2. /\ ls \o b \in Seq(Lines) /\ Len(ls \o b) = Len(ls) + Len(b)
          /\ \A n \in 1 .. Len(ls) + Len(b) : (ls \o b)[n] = IF n <= Len(ls) THEN ls[n] ELSE b[n - Len(ls)]
      BY <1>1, <2>1, ConcatProperties
    <3> QED
      BY <2>1, <3>1, <3>2
  <2>3. new[Len(ls) + 1] = Begin /\ new[Len(ls) + 2] = Entry /\ new[Len(ls) + 3] = End
    <3>1. /\ Len(ls) + 1 \in 1 .. Len(ls) + 3 /\ Len(ls) + 2 \in 1 .. Len(ls) + 3 /\ Len(ls) + 3 \in 1 .. Len(ls) + 3
          /\ ~ (Len(ls) + 1 <= Len(ls)) /\ ~ (Len(ls) + 2 <= Len(ls)) /\ ~ (Len(ls) + 3 <= Len(ls))
          /\ (Len(ls) + 1) - Len(ls) = 1 /\ (Len(ls) + 2) - Len(ls) = 2 /\ (Len(ls) + 3) - Len(ls) = 3
      BY <1>1
    <3> QED
      BY <2>1, <2>2, <3>1
  <2>4. \A n \in 1 .. Len(ls) : new[n] = ls[n]
    <3>1. \A n \in 1 .. Len(ls) : n \in 1 .. Len(ls) + 3 /\ n <= Len(ls)
      BY <1>1
    <3> QED
      BY <2>2, <3>1
  <2>5. \A n \in 1 .. Len(ls) + 3 :
          n \in 1 .. Len(ls) \/ n = Len(ls) + 1 \/ n = Len(ls) + 2 \/ n = Len(ls) + 3
    BY <1>1
  <2>6. \A n \in 1 .. Len(new) : new[n] = three[n]
    BY <1>5, <2>2, <2>3, <2>4, <2>5
  <2> QED
    BY <1>3, <1>5, <2>2, <2>6, SeqEqual
<1> HIDE DEF one, two, three, new
<1>7. \A n \in 1 .. Len(three) :
        n \in 1 .. Len(ls) \/ n = Len(ls) + 1 \/ n = Len(ls) + 2 \/ n = Len(ls) + 3
  BY <1>1, <1>5
<1>8. \A n \in 1 .. Len(ls) : three[n] \notin {Begin, Entry, End}
  BY <1>1, <1>2, <1>5
<1>9. Shaped(three) /\ Whole(three)
  <2>1. \A n \in 1 .. Len(three) : three[n] = Begin => n = Len(ls) + 1
    BY <1>2, <1>5, <1>7, <1>8
  <2>2. \A n \in 1 .. Len(three) : three[n] = Entry => n = Len(ls) + 2
    BY <1>2, <1>5, <1>7, <1>8
  <2>3. \A n \in 1 .. Len(three) : three[n] = End => n = Len(ls) + 3
    BY <1>2, <1>5, <1>7, <1>8
  <2>4. /\ (Len(ls) + 2) - 1 = Len(ls) + 1 /\ (Len(ls) + 3) - 1 = Len(ls) + 2
        /\ (Len(ls) + 1) + 2 = Len(ls) + 3 /\ Len(ls) + 2 > 1 /\ Len(ls) + 3 > 1
    BY <1>1
  <2> QED
    BY <1>1, <1>5, <2>1, <2>2, <2>3, <2>4 DEF Shaped, Whole
<1> QED
  BY <1>6, <1>3, <1>4, <1>9 DEF new

\* What hosts::rewrite makes of a file with one block at most, cut off or not.
LEMMA RewrittenFits ==
  ASSUME NEW ls \in Seq(Lines), Shaped(ls), NEW why \in Task
  PROVE  LET new == Rewritten(ls, why) IN
         /\ new \in Seq(Lines) /\ Shaped(new) /\ Whole(new)
         /\ why # "start" => NoBlock(new)
         /\ Whole(ls) => OfUser(new) = OfUser(ls)
<1> DEFINE rest == Strip(ls)
           new  == Rewritten(ls, why)
<1>0. Len(ls) \in Nat
  OBVIOUS
<1>1. Clean(rest)
  <2>1. \A n \in 1 .. Len(ls) : n \in Outside(ls) => ls[n] \in UserLines \cup {Cut}
    BY OutsideIsClean
  <2> QED
    BY <1>0, <2>1, KeptTyped DEF Strip, Clean
<1>2. Whole(ls) => OfUser(rest) = OfUser(ls)
  BY UserOutside, OfUserKept DEF Strip
<1>3. new = rest \o Block(why)
  BY DEF Rewritten
<1> HIDE DEF rest, new
<1>4. CASE why = "start"
  BY <1>1, <1>2, <1>3, <1>4, WithBlock DEF new
<1>5. CASE why # "start"
  <2>1. new = rest
    <3>1. Block(why) = <<>>
      BY <1>5 DEF Block
    <3>2. rest \in Seq(Lines)
      BY <1>1, CleanShaped
    <3> QED
      BY <1>3, <3>1, <3>2
  <2>2. Whole(rest)
    BY <1>1, CleanShaped DEF Whole, NoBlock
  <2> QED
    BY <1>1, <1>2, <1>5, <2>1, <2>2, CleanShaped DEF new
<1> QED
  BY <1>4, <1>5

\* One line more of the user, or one that was cut off, at the end of a file.
LEMMA OneMore ==
  ASSUME NEW ls \in Seq(Lines), Shaped(ls), NEW l \in UserLines \cup {Cut}
  PROVE  /\ Append(ls, l) \in Seq(Lines) /\ Shaped(Append(ls, l))
         /\ Whole(ls) => Whole(Append(ls, l))
         /\ NoBlock(ls) => NoBlock(Append(ls, l))
<1> DEFINE more == Append(ls, l)
<1>1. l \in Lines /\ l \notin {Begin, Entry, End}
  BY KindsDistinct DEF Lines, Begin, End, Entry, Cut
<1>2. /\ more \in Seq(Lines) /\ Len(ls) \in Nat /\ Len(more) = Len(ls) + 1 /\ more[Len(ls) + 1] = l
      /\ \A n \in 1 .. Len(ls) : more[n] = ls[n]
  BY <1>1
<1> HIDE DEF more
<1>3. \A n \in 1 .. Len(more) : more[n] \in {Begin, Entry, End} => n \in 1 .. Len(ls)
  BY <1>1, <1>2
<1>4. \A n \in 1 .. Len(ls) : n \in 1 .. Len(more) /\ more[n] = ls[n] /\ (n > 1 => more[n - 1] = ls[n - 1])
                               /\ (n + 2 <= Len(ls) => n + 2 <= Len(more) /\ more[n + 2] = ls[n + 2])
  BY <1>2
<1>5. Shaped(more)
  BY <1>3, <1>4 DEF Shaped
<1> QED
  BY <1>2, <1>3, <1>4, <1>5 DEF Whole, NoBlock, more

LEMMA RewrittenTyped ==
  ASSUME NEW ls \in Seq(Lines), NEW why
  PROVE  Rewritten(ls, why) \in Seq(Lines)
<1>1. Strip(ls) \in Seq(Lines)
  BY KeptTyped DEF Strip
<1>2. {Begin, Entry, End} \subseteq Lines
  BY DEF Lines
<1>3. <<Begin, Entry, End>> \in Seq(Lines) /\ <<>> \in Seq(Lines)
  BY <1>2
<1>4. Block(why) \in Seq(Lines)
  BY <1>3 DEF Block
<1> QED
  BY <1>1, <1>4, ConcatProperties DEF Rewritten

LEMMA OverTyped ==
  ASSUME NEW out \in Seq(Lines), lines \in Seq(Lines)
  PROVE  Over(out) \in Seq(Lines)
<1>1. SubSeq(lines, Len(out) + 1, Len(lines)) \in Seq(Lines)
  BY SubSeqProperties
<1> QED
  BY <1>1, ConcatProperties DEF Over

LEMMA CutOffTyped ==
  ASSUME NEW out \in Seq(Lines), NEW ls \in CutOff(out)
  PROVE  ls \in Seq(Lines)
<1> DEFINE whole == {SubSeq(out, 1, n) : n \in 0 .. Len(out) - 1} \cup {out}
<1>1. \A n \in 0 .. Len(out) - 1 : SubSeq(out, 1, n) \in Seq(Lines)
  OBVIOUS
<1>2. \A p \in whole : p \in Seq(Lines)
  BY <1>1
<1>3. ls \in whole \/ \E p \in whole : ls = Append(p, Cut)
  BY DEF CutOff
<1>4. Cut \in Lines
  BY DEF Lines
<1> QED
  BY <1>2, <1>3, <1>4

\* A write to a file that is empty is all there is in it.
LEMMA OverEmpty ==
  ASSUME NEW out \in Seq(Lines), lines = <<>>
  PROVE  Over(out) = out
<1>1. SubSeq(lines, Len(out) + 1, Len(lines)) = <<>>
  OBVIOUS
<1> QED
  BY <1>1, ConcatEmptySeq DEF Over

\* The first lines of a file.
LEMMA FirstLines ==
  ASSUME NEW ls \in Seq(Lines), NEW k \in 0 .. Len(ls), Shaped(ls)
  PROVE  SubSeq(ls, 1, k) \in Seq(Lines) /\ Shaped(SubSeq(ls, 1, k))
<1> DEFINE some == SubSeq(ls, 1, k)
<1>1. /\ some \in Seq(Lines) /\ Len(some) = k /\ k \in Nat /\ Len(ls) \in Nat /\ k <= Len(ls)
      /\ \A n \in 1 .. k : some[n] = ls[n]
  OBVIOUS
<1> HIDE DEF some
<1>2. \A n \in 1 .. k : n \in 1 .. Len(ls) /\ (n > 1 => n - 1 \in 1 .. k)
  BY <1>1
<1>3. Shaped(some)
  BY <1>1, <1>2 DEF Shaped
<1> QED
  BY <1>1, <1>3 DEF some

LEMMA CutOffShaped ==
  ASSUME NEW out \in Seq(Lines), Shaped(out), NEW ls \in CutOff(out)
  PROVE  ls \in Seq(Lines) /\ Shaped(ls)
<1>1. \A n \in 0 .. Len(out) - 1 : n \in 0 .. Len(out)
  OBVIOUS
<1> DEFINE whole == {SubSeq(out, 1, n) : n \in 0 .. Len(out) - 1} \cup {out}
<1>2. \A p \in whole : p \in Seq(Lines) /\ Shaped(p)
  BY <1>1, FirstLines
<1>3. ls \in whole \/ \E p \in whole : ls = Append(p, Cut)
  BY DEF CutOff
<1> QED
  BY <1>2, <1>3, OneMore

-----------------------------------------------------------------------------
(* The invariant holds at first and is kept by every step *)

LEMMA MachineInit == Init => MachineInv
<1> SUFFICES ASSUME Init PROVE MachineInv
  OBVIOUS
<1> USE DEF Init
<1>1. Control
  <2>1. lines \in Seq(Lines) /\ users \in Seq(UserLines) /\ job \in [Instance -> Job]
    BY DEF Job
  <2>2. \A i \in Instance : Idle(i)
    BY DEF Idle
  <2>3. \A i \in Instance : port # i
    BY KindsDistinct
  <2> QED
    BY <2>1, <2>2, <2>3 DEF Control
<1>2. File
  <2>1. Shaped(<<>>) /\ Whole(<<>>)
    BY DEF Shaped, Whole
  <2> QED
    BY <2>1, OfUserEmpty DEF File, OneWriter, Idle, Keeps, Truncated, NoJob
<1>3. Owned
  BY DEF Owned, NoBlock
<1> QED
  BY <1>1, <1>2, <1>3 DEF MachineInv

\* A job that is not idle is a rewrite of one of the tasks.
LEMMA JobOf ==
  ASSUME Control, NEW i \in Instance, ~ Idle(i)
  PROVE  /\ job[i] \in Work
         /\ job[i].why \in todo[i]
BY DEF Control, Job, Idle

LEMMA Working ==
  ASSUME NEW i, job[i].at \in {"read", "truncated"}
  PROVE  ~ Idle(i)
BY DEF Idle, NoJob

\* Only the first of two writers is sure of what it has read.
LEMMA ReadKeeps ==
  ASSUME MachineInv, NEW i \in Instance, NEW why \in todo[i], Read(i, why)
  PROVE  MachineInv'
<1>1. why \in Task \ {"bind"} /\ Idle(i) /\ lines \in Seq(Lines)
  BY DEF Read, MachineInv, Control
<1> DEFINE new == [at |-> "read", why |-> why, out |-> Rewritten(lines, why)]
<1>2. /\ job' = [job EXCEPT ![i] = new] /\ raced' = (raced \/ \E j \in Instance : ~ Idle(j))
      /\ UNCHANGED <<lines, users, life, todo, session, port, slot, torn, died>>
  BY DEF Read, engines
<1>3. Rewritten(lines, why) \in Seq(Lines)
  BY <1>1, RewrittenTyped
<1>4. Control'
  <2>1. new \in Work
    BY <1>1, <1>3 DEF Work
  <2>2. job' \in [Instance -> Job]
    BY <1>2, <2>1 DEF MachineInv, Control, Job
  <2>3. \A j \in Instance : ~ Idle(j)' => job'[j].why \in todo'[j]
    BY <1>2 DEF MachineInv, Control, Idle
  <2> QED
    BY <1>2, <2>2, <2>3 DEF MachineInv, Control
<1>5. File'
  <2> SUFFICES ASSUME ~ raced' PROVE File'
    BY DEF File
  <2>1. ~ raced /\ \A j \in Instance : Idle(j)
    BY <1>2
  <2>2. ~ Truncated
    BY <2>1 DEF Truncated, Idle, NoJob
  <2>3. Shaped(lines) /\ (~ torn => Keeps(lines))
    BY <2>1, <2>2 DEF MachineInv, File
  <2>4. /\ Shaped(new.out) /\ (why # "start" => NoBlock(new.out))
        /\ ~ torn => Keeps(new.out)
    BY <1>1, <2>3, RewrittenFits DEF Keeps
  <2>5. \A j \in Instance : job'[j] = IF j = i THEN new ELSE NoJob
    BY <1>2, <2>1 DEF MachineInv, Control, Idle
  <2>6. \A j \in Instance : ~ Idle(j)' => j = i
    BY <2>5 DEF Idle
  <2>7. ~ Truncated'
    BY <2>5 DEF Truncated, NoJob
  <2> QED
    BY <1>2, <2>3, <2>4, <2>5, <2>6, <2>7 DEF File, OneWriter, Keeps
<1>6. Owned'
  BY <1>2 DEF MachineInv, Owned
<1> QED
  BY <1>4, <1>5, <1>6 DEF MachineInv

LEMMA TruncateKeeps ==
  ASSUME MachineInv, NEW i \in Instance, Truncate(i)
  PROVE  MachineInv'
<1>1. /\ ~ Idle(i) /\ job[i] \in Work
      /\ job' = [job EXCEPT ![i].at = "truncated"] /\ lines' = <<>>
      /\ UNCHANGED <<users, life, todo, session, port, slot, raced, torn, died>>
  BY Working, JobOf DEF Truncate, MachineInv, engines, history
<1>2. job'[i] = [job[i] EXCEPT !.at = "truncated"] /\ \A j \in Instance : j # i => job'[j] = job[j]
  BY <1>1 DEF MachineInv, Control
<1>3. /\ job'[i] \in Work
      /\ job'[i].why = job[i].why /\ job'[i].out = job[i].out /\ job'[i].at = "truncated"
  BY <1>1, <1>2 DEF Work
<1>4. \A j \in Instance : Idle(j)' <=> Idle(j)
  BY <1>1, <1>2, <1>3 DEF Idle, NoJob
<1>5. Control'
  <2>1. job' \in [Instance -> Job]
    BY <1>1, <1>3 DEF MachineInv, Control, Job
  <2> QED
    BY <1>1, <1>2, <1>3, <1>4, <2>1 DEF MachineInv, Control
<1>6. File'
  <2>1. Shaped(<<>>)
    BY DEF Shaped
  <2>2. Truncated'
    BY <1>3 DEF Truncated
  <2> QED
    BY <1>1, <1>2, <1>3, <1>4, <2>1, <2>2 DEF MachineInv, File, OneWriter, Keeps
<1>7. Owned'
  BY <1>1 DEF Owned, NoBlock
<1> QED
  BY <1>5, <1>6, <1>7 DEF MachineInv

LEMMA WriteKeeps ==
  ASSUME MachineInv, NEW i \in Instance, Write(i)
  PROVE  MachineInv'
<1> DEFINE out == job[i].out
           why == job[i].why
           last == why \in {"drop", "nuke"}
<1>1. /\ ~ Idle(i) /\ job[i] \in Work
      /\ job[i].at = "truncated"
  BY Working, JobOf DEF Write, MachineInv
<1>2. /\ todo' = [todo EXCEPT ![i] = IF why = "warm" /\ life[i] = "stopped" THEN {"drop"} ELSE @ \ {why}]
      /\ session' = [session EXCEPT ![i] = why = "start" \/ (@ /\ ~ last)]
      /\ life' = [life EXCEPT ![i] = IF last THEN "gone" ELSE @]
      /\ slot' = IF last /\ slot = i THEN None ELSE slot
      /\ lines' = Over(out) /\ job' = [job EXCEPT ![i] = NoJob] /\ died' = FALSE
      /\ UNCHANGED <<users, port, raced, torn>>
  BY DEF Write
<1>3. \A j \in Instance : job'[j] = IF j = i THEN NoJob ELSE job[j]
  BY <1>2 DEF MachineInv, Control
<1>4. Control'
  <2>1. lines' \in Seq(Lines)
    BY <1>1, <1>2, OverTyped DEF MachineInv, Control, Work
  <2>2. todo' \in [Instance -> SUBSET Task] /\ session' \in [Instance -> BOOLEAN]
          /\ life' \in [Instance -> {"new", "up", "stopped", "gone"}] /\ slot' \in Ffi \cup {None}
          /\ job' \in [Instance -> Job]
    BY <1>2 DEF MachineInv, Control, Task, Job
  <2>3. \A j \in Instance : ~ Idle(j)' => job'[j].why \in todo'[j]
    BY <1>2, <1>3 DEF MachineInv, Control, Idle
  <2>4. \A j \in Instance : life'[j] = "new" => todo'[j] = {} /\ ~ session'[j] /\ port' # j
    <3>1. life[i] # "new"
      BY <1>1, JobOf DEF MachineInv, Control
    <3> QED
      BY <1>2, <3>1 DEF MachineInv, Control
  <2> QED
    BY <1>2, <2>1, <2>2, <2>3, <2>4 DEF MachineInv, Control
<1>5. ASSUME ~ raced PROVE lines' = out /\ \A j \in Instance : Idle(j)'
  <2>1. lines = <<>> /\ \A j \in Instance : j # i => Idle(j)
    BY <1>1, <1>5 DEF MachineInv, File, Truncated, OneWriter
  <2>2. lines' = out
    BY <1>1, <1>2, <2>1, OverEmpty DEF Work
  <2> QED
    BY <1>3, <2>1, <2>2 DEF Idle
<1>6. File'
  <2> SUFFICES ASSUME ~ raced' PROVE File'
    BY DEF File
  <2>1. ~ raced /\ torn' = torn /\ users' = users
    BY <1>2
  <2>2. ~ Truncated'
    BY <1>5, <2>1 DEF Truncated, Idle, NoJob
  <2>3. Shaped(out) /\ (~ torn => Keeps(out))
    BY <1>1, <2>1 DEF MachineInv, File
  <2> QED
    BY <1>5, <2>1, <2>2, <2>3 DEF File, OneWriter, Keeps
<1>7. Owned'
  <2> SUFFICES ASSUME ~ raced', ~ NoBlock(lines)'
               PROVE  \E j \in Instance : session'[j] \/ todo'[j] \ {"bind"} # {}
    BY DEF Owned
  <2>1. ~ raced /\ ~ NoBlock(out)
    BY <1>2, <1>5 DEF NoBlock
  <2>2. why = "start"
    BY <1>1, <2>1 DEF MachineInv, File
  <2>3. session'[i]
    BY <1>2, <2>2 DEF MachineInv, Control
  <2> QED
    BY <2>3
<1> QED
  BY <1>4, <1>6, <1>7 DEF MachineInv

\* Processes that end take their jobs with them; one that was writing tears the file.
LEMMA DieKeeps ==
  ASSUME MachineInv, NEW dead \in SUBSET Instance, Die(dead)
  PROVE  MachineInv'
<1> DEFINE cut == {i \in dead : job[i].at = "truncated"}
<1>1. /\ life' = [i \in Instance |-> IF i \in dead THEN "gone" ELSE life[i]]
      /\ todo' = [i \in Instance |-> IF i \in dead THEN {} ELSE todo[i]]
      /\ session' = [i \in Instance |-> i \notin dead /\ session[i]]
      /\ job' = [i \in Instance |-> IF i \in dead THEN NoJob ELSE job[i]]
      /\ port' = IF port \in dead THEN None ELSE port
      /\ slot' = IF slot \in dead THEN None ELSE slot
      /\ torn' = (torn \/ cut # {}) /\ died' = TRUE /\ UNCHANGED <<users, raced>>
      /\ \/ cut = {} /\ UNCHANGED lines
         \/ \E i \in cut : \E out \in CutOff(job[i].out) : lines' = Over(out)
  BY DEF Die
<1>2. \A i \in cut : /\ i \in Instance /\ ~ Idle(i)
                     /\ job[i] \in Work
  BY Working, JobOf DEF MachineInv
<1>3. \A j \in Instance : ~ Idle(j)' => j \notin dead /\ job'[j] = job[j] /\ ~ Idle(j)
  BY <1>1 DEF Idle
<1>4. Control'
  <2>1. lines' \in Seq(Lines)
    <3>1. ASSUME NEW i \in cut, NEW out \in CutOff(job[i].out), lines' = Over(out)
          PROVE  lines' \in Seq(Lines)
      BY <1>2, <3>1, CutOffTyped, OverTyped DEF MachineInv, Control, Work
    <3> QED
      BY <1>1, <3>1 DEF MachineInv, Control
  <2>2. /\ life' \in [Instance -> {"new", "up", "stopped", "gone"}]
        /\ todo' \in [Instance -> SUBSET Task]
        /\ session' \in [Instance -> BOOLEAN]
        /\ port' \in Service \cup {None} /\ slot' \in Ffi \cup {None}
    BY <1>1 DEF MachineInv, Control
  <2>3. job' \in [Instance -> Job]
    BY <1>1 DEF MachineInv, Control, Job
  <2>4. \A j \in Instance : ~ Idle(j)' => job'[j].why \in todo'[j]
    BY <1>1, <1>3 DEF MachineInv, Control
  <2>5. \A j \in Instance : life'[j] = "new" => todo'[j] = {} /\ ~ session'[j] /\ port' # j
    BY <1>1, KindsDistinct DEF MachineInv, Control
  <2> QED
    BY <1>1, <2>1, <2>2, <2>3, <2>4, <2>5 DEF MachineInv, Control
<1>5. File'
  <2> SUFFICES ASSUME ~ raced' PROVE File'
    BY DEF File
  <2>1. ~ raced /\ users' = users
    BY <1>1
  <2>2. OneWriter'
    BY <1>3, <2>1 DEF MachineInv, File, OneWriter
  <2>3. CASE cut = {}
    <3>1. lines' = lines /\ torn' = torn
      <4> HIDE DEF cut
      <4> QED
        BY <1>1, <2>3 DEF MachineInv, Control
    <3>2. Truncated' <=> Truncated
      BY <1>1, <1>3, <2>3, Working DEF Truncated, NoJob
    <3> QED
      BY <1>3, <2>1, <2>2, <3>1, <3>2 DEF MachineInv, File, Keeps
  <2>4. CASE cut # {}
    <3>0. PICK i \in cut : \E out \in CutOff(job[i].out) : lines' = Over(out)
      BY <1>1, <2>4
    <3>1. PICK out \in CutOff(job[i].out) : lines' = Over(out)
      BY <3>0
    <3>2. lines = <<>> /\ \A j \in Instance : j # i => Idle(j)
      BY <1>2, <2>1 DEF MachineInv, File, Truncated, OneWriter
    <3>3. out \in Seq(Lines) /\ Shaped(out)
      BY <1>2, <2>1, CutOffShaped DEF MachineInv, File, Work
    <3>4. lines' = out
      BY <3>1, <3>2, <3>3, OverEmpty
    <3>5. torn' /\ \A j \in Instance : Idle(j)'
      BY <1>1, <1>3, <2>4, <3>2
    <3>6. ~ Truncated'
      BY <3>5 DEF Truncated, Idle, NoJob
    <3> QED
      BY <2>2, <3>3, <3>4, <3>5, <3>6 DEF File
  <2> QED
    BY <2>3, <2>4
<1>6. Owned'
  BY <1>1 DEF Owned
<1> QED
  BY <1>4, <1>5, <1>6 DEF MachineInv

LEMMA UserKeeps ==
  ASSUME MachineInv, NEW u \in UserLines, UserAppends(u)
  PROVE  MachineInv'
<1>1. /\ users' = Append(users, u) /\ lines' = Append(lines, u)
      /\ raced' = (raced \/ \E i \in Instance : ~ Idle(i))
      /\ UNCHANGED <<job, life, todo, session, port, slot, torn, died>>
  BY DEF UserAppends, engines
<1>2. u \in Lines /\ lines \in Seq(Lines)
  BY DEF Lines, MachineInv, Control
<1>3. Control'
  <2>1. lines' \in Seq(Lines) /\ users' \in Seq(UserLines)
    BY <1>1, <1>2 DEF MachineInv, Control
  <2> QED
    BY <1>1, <2>1 DEF MachineInv, Control, Idle
<1>4. ASSUME ~ raced' PROVE ~ raced /\ Shaped(lines) /\ \A i \in Instance : Idle(i)
  BY <1>1, <1>4 DEF MachineInv, File
<1>5. File'
  <2> SUFFICES ASSUME ~ raced' PROVE File'
    BY DEF File
  <2>1. ~ Truncated /\ ~ Truncated' /\ \A i \in Instance : Idle(i)'
    BY <1>1, <1>4 DEF Truncated, Idle, NoJob
  <2>2. Shaped(lines')
    BY <1>1, <1>2, <1>4, OneMore
  <2>3. ~ torn => Keeps(lines)'
    BY <1>1, <1>2, <1>4, <2>1, OneMore, OfUserAppend DEF MachineInv, File, Keeps
  <2> QED
    BY <1>1, <2>1, <2>2, <2>3 DEF File, OneWriter
<1>6. Owned'
  BY <1>1, <1>2, <1>4, OneMore DEF MachineInv, Owned
<1> QED
  BY <1>3, <1>5, <1>6 DEF MachineInv

\* A step that leaves the file and its writers alone.
LEMMA Elsewhere ==
  ASSUME File, UNCHANGED <<lines, job, users, raced, torn>>
  PROVE  File'
BY DEF File, OneWriter, Keeps, Truncated, Idle

LEMMA LaunchKeeps ==
  ASSUME MachineInv, NEW i \in Instance, NEW tasks \in SUBSET Task, Launch(i, tasks),
         tasks \ {"bind"} # {}, slot' \in Ffi \cup {None}
  PROVE  MachineInv'
<1>1. /\ life[i] = "new" /\ life' = [life EXCEPT ![i] = "up"] /\ todo' = [todo EXCEPT ![i] = tasks]
      /\ UNCHANGED <<lines, job, users, session, port, raced, torn, died>>
  BY DEF Launch, history
<1>2. Idle(i)
  BY <1>1, JobOf DEF MachineInv, Control
<1>3. Control'
  BY <1>1, <1>2 DEF MachineInv, Control, Idle
<1>4. Owned'
  BY <1>1 DEF MachineInv, Control, Owned
<1> QED
  BY <1>1, <1>3, <1>4, Elsewhere DEF MachineInv

LEMMA BindKeeps ==
  ASSUME MachineInv, NEW i \in Service, Bind(i)
  PROVE  MachineInv'
<1>1. /\ "bind" \in todo[i] /\ port' = i /\ todo' = [todo EXCEPT ![i] = @ \ {"bind"}]
      /\ UNCHANGED <<lines, job, users, life, session, slot, raced, torn, died>>
  BY DEF Bind, history
<1>2. Control'
  <2>1. \A j \in Instance : ~ Idle(j)' => job'[j].why \in todo'[j]
    BY <1>1, JobOf DEF MachineInv, Control, Idle, Work
  <2> QED
    BY <1>1, <2>1 DEF MachineInv, Control
<1>3. Owned'
  BY <1>1 DEF MachineInv, Control, Owned
<1> QED
  BY <1>1, <1>2, <1>3, Elsewhere DEF MachineInv

LEMMA BindFailsKeeps ==
  ASSUME MachineInv, NEW i \in Service, BindFails(i)
  PROVE  MachineInv'
<1>1. CASE Die({i})
  BY <1>1, DieKeeps DEF Instance
<1>2. CASE ~ Die({i})
  <2>1. /\ "bind" \in todo[i] /\ todo' = [todo EXCEPT ![i] = @ \ {"bind"}]
        /\ UNCHANGED <<lines, job, users, life, session, port, slot, raced, torn, died>>
    BY <1>2 DEF BindFails, history
  <2>2. Control'
    <3>1. \A j \in Instance : ~ Idle(j)' => job'[j].why \in todo'[j]
      BY <2>1, JobOf DEF MachineInv, Control, Idle, Work
    <3> QED
      BY <2>1, <3>1 DEF MachineInv, Control
  <2>3. Owned'
    BY <2>1 DEF MachineInv, Control, Owned
  <2> QED
    BY <2>1, <2>2, <2>3, Elsewhere DEF MachineInv
<1> QED
  BY <1>1, <1>2

LEMMA StopKeeps ==
  ASSUME MachineInv, NEW i \in Ffi, EngineStop(i)
  PROVE  MachineInv'
<1>1. /\ i \in Instance /\ life[i] = "up" /\ life' = [life EXCEPT ![i] = "stopped"]
      /\ \/ todo[i] = {} /\ todo' = [todo EXCEPT ![i] = {"drop"}] /\ UNCHANGED slot
         \/ todo[i] # {} /\ slot' = None /\ UNCHANGED todo
      /\ UNCHANGED <<lines, job, users, session, port, raced, torn, died>>
  BY DEF EngineStop, history, Instance
<1>2. todo' \in [Instance -> SUBSET Task] /\ \A j \in Instance : todo[j] \subseteq todo'[j]
  BY <1>1 DEF MachineInv, Control, Task
<1>3. Control'
  <2>1. \A j \in Instance : ~ Idle(j)' => job'[j].why \in todo'[j]
    BY <1>1, <1>2 DEF MachineInv, Control, Idle
  <2>2. \A j \in Instance : life'[j] = "new" => todo'[j] = {} /\ ~ session'[j] /\ port' # j
    BY <1>1 DEF MachineInv, Control
  <2> QED
    BY <1>1, <1>2, <2>1, <2>2 DEF MachineInv, Control
<1>4. Owned'
  BY <1>1, <1>2 DEF MachineInv, Control, Owned
<1> QED
  BY <1>1, <1>3, <1>4, Elsewhere DEF MachineInv

\* A request reaches an instance that is there.
LEMMA SessionKeeps ==
  ASSUME MachineInv, NEW i \in Instance, StartSession(i) \/ EndSession(i)
  PROVE  MachineInv'
<1>1. PICK why \in {"start", "end"} :
        /\ todo' = [todo EXCEPT ![i] = @ \cup {why}]
        /\ session' = session \/ (session' = [session EXCEPT ![i] = FALSE] /\ why = "end")
        /\ UNCHANGED <<lines, job, users, life, port, slot, raced, torn, died>>
  BY DEF StartSession, EndSession, history
<1>2. life[i] # "new"
  BY DEF StartSession, EndSession, Reached, MachineInv, Control
<1>3. /\ todo' \in [Instance -> SUBSET Task] /\ \A j \in Instance : todo[j] \subseteq todo'[j]
      /\ session' \in [Instance -> BOOLEAN] /\ why \in todo'[i]
  BY <1>1 DEF MachineInv, Control, Task
<1>4. Control'
  <2>1. \A j \in Instance : ~ Idle(j)' => job'[j].why \in todo'[j]
    BY <1>1, <1>3 DEF MachineInv, Control, Idle
  <2>2. \A j \in Instance : life'[j] = "new" => todo'[j] = {} /\ ~ session'[j] /\ port' # j
    BY <1>1, <1>2 DEF MachineInv, Control
  <2> QED
    BY <1>1, <1>3, <2>1, <2>2 DEF MachineInv, Control
<1>5. Owned'
  BY <1>3 DEF Owned
<1> QED
  BY <1>1, <1>4, <1>5, Elsewhere DEF MachineInv

LEMMA MachineNext == MachineInv /\ [Next]_vars => MachineInv'
<1> SUFFICES ASSUME MachineInv, [Next]_vars PROVE MachineInv'
  OBVIOUS
<1>1. ASSUME NEW i \in Service, LaunchService(i) PROVE MachineInv'
  BY <1>1, LaunchKeeps DEF LaunchService, Instance, Task, MachineInv, Control
<1>2. ASSUME NEW i \in Tool, Nuke(i) PROVE MachineInv'
  BY <1>2, LaunchKeeps DEF Nuke, Instance, Task, MachineInv, Control
<1>3. ASSUME NEW i \in Ffi, EngineStart(i) PROVE MachineInv'
  <2>1. i \in Instance /\ {"warm"} \in SUBSET Task /\ {"warm"} \ {"bind"} # {}
    BY DEF Instance, Task
  <2>2. Launch(i, {"warm"}) /\ slot' \in Ffi \cup {None}
    BY <1>3 DEF EngineStart
  <2> QED
    BY <2>1, <2>2, LaunchKeeps
<1>4. ASSUME NEW i \in Service, Bind(i) \/ BindFails(i) PROVE MachineInv'
  BY <1>4, BindKeeps, BindFailsKeeps DEF Instance
<1>5. ASSUME NEW i \in Service, ServiceEnds(i) PROVE MachineInv'
  BY <1>5, DieKeeps DEF ServiceEnds, Instance
<1>6. ASSUME NEW i \in Tool, NukeEnds(i) PROVE MachineInv'
  BY <1>6, DieKeeps DEF NukeEnds, Instance
<1>7. ASSUME NEW i \in Ffi, EngineStop(i) PROVE MachineInv'
  BY <1>7, StopKeeps
<1>8. CASE UiEnds
  <2>1. {i \in Ffi : Alive(i)} \in SUBSET Instance
    BY DEF Instance
  <2> QED
    BY <1>8, <2>1, DieKeeps DEF UiEnds
<1>9. ASSUME NEW i \in Instance,
             (\E why \in todo[i] : Read(i, why)) \/ Truncate(i) \/ Write(i)
                \/ StartSession(i) \/ EndSession(i)
      PROVE  MachineInv'
  BY <1>9, ReadKeeps, TruncateKeeps, WriteKeeps, SessionKeeps
<1>10. ASSUME NEW u \in UserLines, UserAppends(u) PROVE MachineInv'
  BY <1>10, UserKeeps
<1>11. CASE UNCHANGED vars
  BY <1>11, Elsewhere DEF vars, engines, history, MachineInv, Control, Owned, Idle
<1> QED
  BY <1>1, <1>2, <1>3, <1>4, <1>5, <1>6, <1>7, <1>8, <1>9, <1>10, <1>11 DEF Next

LEMMA MachineAlways == Spec => []MachineInv
BY MachineInit, MachineNext, PTL DEF Spec

-----------------------------------------------------------------------------
\* The variables have their types; and the file has at most one block of ours, cut off or
\* not, whatever rewrites were cut off, until two of them overlap.
THEOREM MachineTyped == Spec => []TypeOK
<1>1. MachineInv => TypeOK
  <2> SUFFICES ASSUME MachineInv PROVE TypeOK
    OBVIOUS
  <2>1. \A i \in Instance : ~ Idle(i) => job[i].at \in {"read", "truncated"} /\ job[i].why \in todo[i]
    BY JobOf DEF MachineInv, Work
  <2>2. ASSUME ~ raced PROVE OneBlock
    <3>1. Shaped(lines) /\ Len(lines) \in Nat
      BY <2>2 DEF MachineInv, File, Control
    <3>2. \A m, n \in Places(Begin) : m = n
      BY <3>1 DEF Places, Shaped
    <3>3. \A n \in Places(Entry) : n \in Nat /\ n - 1 \in Places(Begin)
      BY <3>1 DEF Places, Shaped
    <3>4. \A n \in Places(End) : n \in Nat /\ n - 1 \in Places(Entry)
      BY <3>1 DEF Places, Shaped
    <3>5. \A m, n \in Places(Entry) : m = n
      BY <3>2, <3>3
    <3>6. \A m, n \in Places(End) : m = n
      BY <3>4, <3>5
    <3> QED
      BY <3>2, <3>3, <3>4, <3>5, <3>6 DEF OneBlock
  <2> QED
    BY <2>1, <2>2 DEF MachineInv, Control, TypeOK, Task
<1> QED
  BY <1>1, MachineAlways, PTL

\* No rewrite loses a line of the user's or changes their order, whatever instances come
\* and go, until two writers overlap or one is cut off.
THEOREM LinesKept == Spec => []UserLinesKept
<1>1. MachineInv => UserLinesKept
  BY DEF MachineInv, File, Truncated, Keeps, UserLinesKept
<1> QED
  BY <1>1, MachineAlways, PTL

\* A block of ours in the file has an engine that will remove it, until two writers overlap
\* or a process dies.
THEOREM EntriesOwned == Spec => []EntriesHaveOwner
<1>1. MachineInv => EntriesHaveOwner
  BY DEF MachineInv, Owned, NoBlock, Places, EntriesHaveOwner
<1> QED
  BY <1>1, MachineAlways, PTL

=============================================================================
