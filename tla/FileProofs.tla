---------------------------- MODULE FileProofs ------------------------------
(***************************************************************************)
(* What the scan, BatchFiles and BuildPrompt make of any clone, any files  *)
(* and any texts.  Each of their loops is a recursive function over the    *)
(* rounds: a lemma says what a round does, and LoopInduction, which rests  *)
(* on the order of Nat being well-founded, takes it to the end.            *)
(***************************************************************************)
EXTENDS RepoFiles, FiniteSetTheorems, SequenceTheorems, TLAPS

\* Every set of naturals that is not empty has a least member.
LEMMA LeastMember ==
  ASSUME NEW T \in SUBSET Nat, T # {}
  PROVE  \E x \in T : \A y \in T : x <= y
<1>1. \E x \in T : \A y \in T : ~(<<y, x>> \in OpToRel(<, Nat))
  BY NatLessThanWellFounded, WFMin, Zenon
<1>2. \A x, y \in T : ~(<<y, x>> \in OpToRel(<, Nat)) => x <= y
  BY DEF OpToRel
<1> QED
  BY <1>1, <1>2

\* Induction along a loop of n rounds: what holds before the first round and
\* is kept by each holds after all of them.
LEMMA LoopInduction ==
  ASSUME NEW n \in Nat, NEW T, 0 \in T, \A i \in 1..n : i - 1 \in T => i \in T
  PROVE  \A i \in 0..n : i \in T
<1> DEFINE B == (0..n) \ T
<1> SUFFICES ASSUME B # {} PROVE FALSE
  OBVIOUS
<1>0. B \in SUBSET Nat
  OBVIOUS
<1> HIDE DEF B
<1>1. PICK x \in B : \A y \in B : x <= y
  BY <1>0, LeastMember
<1> USE DEF B
<1>2. x \in 1..n /\ x - 1 \in 0..n /\ x - 1 \notin B
  BY <1>1
<1> QED
  BY <1>1, <1>2

\* The rounds of InOrder.
Collects(seq, S, n) ==
    /\ seq[0] = << >>
    /\ \A i \in 1..n : seq[i] = IF i \in S THEN Append(seq[i - 1], i) ELSE seq[i - 1]

\* InOrder is the end of such a loop.
LEMMA InOrderRuns ==
  ASSUME NEW S, NEW n \in Nat
  PROVE  \E seq : Collects(seq, S, n) /\ InOrder(S, n) = seq[n]
<1> DEFINE Round(s, i) == IF i \in S THEN Append(s, i) ELSE s
           Run(f, k) == f = [i \in 0..k |-> IF i = 0 THEN << >> ELSE Round(f[i - 1], i)]
           T == {k \in 0..n : \E f : Run(f, k)}
<1> HIDE DEF Round
<1>1. \E f : Run(f, 0)
  <2>1. Run([i \in 0..0 |-> << >>], 0)
    OBVIOUS
  <2> QED
    BY <2>1, Zenon
<1>2. ASSUME NEW k \in 1..n, NEW f, Run(f, k - 1)
      PROVE  \E g : Run(g, k)
  <2> DEFINE g == [i \in 0..k |-> IF i = k THEN Round(f[k - 1], k) ELSE f[i]]
  <2>1. Run(g, k)
    BY <1>2
  <2> QED
    BY <2>1, Zenon
<1> HIDE DEF Run
<1>3. \E f : Run(f, n)
  <2>1. 0 \in T /\ \A k \in 1..n : k - 1 \in T => k \in T
    BY <1>1, <1>2
  <2> HIDE DEF T
  <2>2. n \in T
    BY <2>1, LoopInduction
  <2> QED
    BY <2>2 DEF T
<1> DEFINE seq[i \in 0..n] == IF i = 0 THEN << >>
                              ELSE IF i \in S THEN Append(seq[i - 1], i) ELSE seq[i - 1]
<1>4. Run(seq, n)
  BY <1>3, Zenon DEF Run, Round
<1>5. InOrder(S, n) = seq[n]
  BY DEF InOrder
<1> HIDE DEF seq
<1>6. seq[0] = << >> /\ \A i \in 1..n : seq[i] = Round(seq[i - 1], i)
  BY <1>4 DEF Run
<1> QED
  BY <1>5, <1>6, Zenon DEF Round, Collects

Upto(S, i) == {k \in S : k <= i}

\* What InOrder has after i rounds: it has the members up to i, and all that it
\* has had before.
Collected(seq, S, i) ==
    /\ seq[i] \in Seq(S)
    /\ Len(seq[i]) = Cardinality(Upto(S, i))
    /\ \A j \in 0..i : /\ Len(seq[j]) <= Len(seq[i])
                       /\ SubSeq(seq[i], 1, Len(seq[j])) = seq[j]

\* What holds after each of its rounds.
LEMMA InOrderFacts ==
  ASSUME NEW n \in Nat, NEW S \in SUBSET (1..n), NEW seq, Collects(seq, S, n)
  PROVE  \A i \in 0..n : Collected(seq, S, i)
<1> DEFINE Good(i) == Collected(seq, S, i)
           T == {i \in 0..n : Good(i)}
<1>1. \A k \in S : k \in 1..n /\ k \in Nat /\ k > 0
  OBVIOUS
<1>9. /\ seq[0] = << >>
      /\ \A i \in 1..n : seq[i] = IF i \in S THEN Append(seq[i - 1], i) ELSE seq[i - 1]
  BY DEF Collects
<1>2. Good(0)
  <2>1. Upto(S, 0) = {} /\ Cardinality({}) = 0
    <3>1. \A k \in S : ~(k <= 0)
      BY <1>1
    <3> QED
      BY <3>1, FS_EmptySet DEF Upto
  <2>2. seq[0] = << >> /\ << >> \in Seq(S) /\ Len(<< >>) = 0 /\ SubSeq(<< >>, 1, 0) = << >>
    BY <1>9
  <2>3. \A j \in 0..0 : j = 0
    OBVIOUS
  <2>4. seq[0] \in Seq(S) /\ Len(seq[0]) = Cardinality(Upto(S, 0))
    BY <2>1, <2>2
  <2>5. Len(seq[0]) <= Len(seq[0]) /\ SubSeq(seq[0], 1, Len(seq[0])) = seq[0]
    <3>1. Len(seq[0]) = 0
      BY <2>2
    <3> QED
      BY <2>2, <3>1
  <2> QED
    BY <2>3, <2>4, <2>5 DEF Collected
<1>3. ASSUME NEW i \in 1..n, Good(i - 1)
      PROVE  Good(i)
  <2>1. /\ seq[i - 1] \in Seq(S)
        /\ Len(seq[i - 1]) = Cardinality(Upto(S, i - 1))
        /\ \A j \in 0..(i - 1) : /\ Len(seq[j]) <= Len(seq[i - 1])
                                 /\ SubSeq(seq[i - 1], 1, Len(seq[j])) = seq[j]
    BY <1>3 DEF Collected
  <2>2. IsFiniteSet(Upto(S, i - 1))
    <3>1. IsFiniteSet(1..n) /\ Upto(S, i - 1) \subseteq 1..n
      <4>1. IsFiniteSet(1..n)
        BY FS_Interval
      <4> QED
        BY <4>1 DEF Upto
    <3> QED
      BY <3>1, FS_Subset
  <2>3. CASE i \in S
    <3>1. seq[i] = Append(seq[i - 1], i) /\ i \in S
      BY <1>9, <2>3
    <3>2. Upto(S, i) = Upto(S, i - 1) \cup {i} /\ i \notin Upto(S, i - 1)
      <4>1. \A k \in S : k <= i <=> k <= i - 1 \/ k = i
        BY <1>1
      <4>2. ~(i <= i - 1) /\ i <= i
        OBVIOUS
      <4> QED
        BY <3>1, <4>1, <4>2 DEF Upto
    <3>3. Cardinality(Upto(S, i)) = Cardinality(Upto(S, i - 1)) + 1
      BY <2>2, <3>2, FS_AddElement
    <3>4. seq[i] \in Seq(S) /\ Len(seq[i]) = Len(seq[i - 1]) + 1 /\ Len(seq[i - 1]) \in Nat
      BY <2>1, <3>1, AppendProperties, LenProperties
    <3>5. ASSUME NEW j \in 0..(i - 1)
          PROVE  Len(seq[j]) <= Len(seq[i]) /\ SubSeq(seq[i], 1, Len(seq[j])) = seq[j]
      <4>1. Len(seq[j]) <= Len(seq[i - 1]) /\ SubSeq(seq[i - 1], 1, Len(seq[j])) = seq[j]
        BY <2>1
      <4>2. Len(seq[j]) \in Nat
        BY <2>1, <4>1
      <4>3. SubSeq(Append(seq[i - 1], i), 1, Len(seq[j])) = SubSeq(seq[i - 1], 1, Len(seq[j]))
        BY <2>1, <4>1, <4>2
      <4> QED
        BY <3>1, <3>4, <4>1, <4>2, <4>3
    <3>6. SubSeq(seq[i], 1, Len(seq[i])) = seq[i]
      BY <3>4
    <3> QED
      BY <2>1, <3>3, <3>4, <3>5, <3>6 DEF Collected
  <2>4. CASE i \notin S
    <3>1. seq[i] = seq[i - 1]
      BY <1>9, <2>4
    <3>2. Upto(S, i) = Upto(S, i - 1)
      <4>1. \A k \in S : k <= i <=> k <= i - 1
        BY <1>1, <2>4
      <4> QED
        BY <4>1 DEF Upto
    <3>3. SubSeq(seq[i], 1, Len(seq[i])) = seq[i] /\ Len(seq[i]) \in Nat
      <4>1. seq[i] \in Seq(S)
        BY <2>1, <3>1
      <4> QED
        BY <4>1
    <3> QED
      BY <2>1, <3>1, <3>2, <3>3 DEF Collected
  <2> QED
    BY <2>3, <2>4
<1>4. \A i \in 0..n : i \in T
  <2> HIDE DEF Good
  <2>1. 0 \in T /\ \A i \in 1..n : i - 1 \in T => i \in T
    BY <1>2, <1>3
  <2> HIDE DEF T
  <2> QED
    BY <2>1, LoopInduction
<1> QED
  BY <1>4

-----------------------------------------------------------------------------
\* The walk takes the entries of a tree one by one.
LEMMA WalkRuns ==
  ASSUME NEW t, NEW n \in Nat, Len(t) = n, NEW max
  PROVE  \E after : /\ after[0] = StartWalk
                    /\ \A i \in 1..n : after[i] = Visit(t, max, after[i - 1], i)
                    /\ Walk(t, max) = after[n]
<1> DEFINE Round(w, i) == Visit(t, max, w, i)
           Run(f, k) == f = [i \in 0..k |-> IF i = 0 THEN StartWalk ELSE Round(f[i - 1], i)]
           T == {k \in 0..n : \E f : Run(f, k)}
<1> HIDE DEF Round
<1>1. \E f : Run(f, 0)
  <2>1. Run([i \in 0..0 |-> StartWalk], 0)
    OBVIOUS
  <2> QED
    BY <2>1, Zenon
<1>2. ASSUME NEW k \in 1..n, NEW f, Run(f, k - 1)
      PROVE  \E g : Run(g, k)
  <2> DEFINE g == [i \in 0..k |-> IF i = k THEN Round(f[k - 1], k) ELSE f[i]]
  <2>1. Run(g, k)
    BY <1>2
  <2> QED
    BY <2>1, Zenon
<1> HIDE DEF Run
<1>3. \E f : Run(f, n)
  <2>1. 0 \in T /\ \A k \in 1..n : k - 1 \in T => k \in T
    BY <1>1, <1>2
  <2> HIDE DEF T
  <2>2. n \in T
    BY <2>1, LoopInduction
  <2> QED
    BY <2>2 DEF T
<1> DEFINE after[i \in 0..n] == IF i = 0 THEN StartWalk ELSE Visit(t, max, after[i - 1], i)
<1>4. Run(after, n)
  BY <1>3, Zenon DEF Run, Round
<1>5. Walk(t, max) = after[n]
  BY DEF Walk
<1> HIDE DEF after
<1>6. after[0] = StartWalk /\ \A i \in 1..n : after[i] = Round(after[i - 1], i)
  BY <1>4 DEF Run
<1> QED
  BY <1>5, <1>6, Zenon DEF Round

\* An entry of the tree is skipped if a skipped directory before it reaches that
\* far.
Covers(k, i) == tree[k].kind = "skip" /\ \A m \in (k + 1)..i : tree[m].depth > tree[k].depth

\* The entries of a clone.
LEMMA TreeEntries ==
  ASSUME tree \in Trees
  PROVE  /\ Len(tree) \in Nat
         /\ DOMAIN tree = 1..Len(tree)
         /\ \A i \in 1..Len(tree) : tree[i].depth \in Nat \ {0} /\ tree[i].kind \in Kinds
<1> DEFINE E == [depth : Nat \ {0}, kind : Kinds]
<1>1. \A e \in E : e.depth \in Nat \ {0} /\ e.kind \in Kinds
  OBVIOUS
<1>2. tree \in Seq(E)
  BY TreesAssumption
<1> HIDE DEF E
<1>3. Len(tree) \in Nat /\ DOMAIN tree = 1..Len(tree) /\ \A i \in 1..Len(tree) : tree[i] \in E
  BY <1>2
<1> QED
  BY <1>1, <1>3

\* An entry more is below a skipped directory if one before it still covers it.
LEMMA SkippedCovers ==
  ASSUME tree \in Trees, NEW i \in 1..Len(tree)
  PROVE  /\ Skipped(i) <=> \E k \in 1..(i - 1) : Covers(k, i - 1) /\ tree[i].depth > tree[k].depth
         /\ \A k \in 1..(i - 1) : Covers(k, i) <=> Covers(k, i - 1) /\ tree[i].depth > tree[k].depth
         /\ Covers(i, i) <=> tree[i].kind = "skip"
<1>2. DOMAIN tree = 1..Len(tree) /\ Len(tree) \in Nat
  BY TreeEntries
<1>3. ASSUME NEW k \in 1..(i - 1)
      PROVE  Covers(k, i) <=> Covers(k, i - 1) /\ tree[i].depth > tree[k].depth
  <2>1. (k + 1)..i = ((k + 1)..(i - 1)) \cup {i}
    BY <1>2
  <2> QED
    BY <2>1 DEF Covers
<1>4. Covers(i, i) <=> tree[i].kind = "skip"
  BY <1>2 DEF Covers
<1>5. Skipped(i) <=> \E k \in 1..(i - 1) : Covers(k, i)
  BY <1>2 DEF Skipped, Below, Covers
<1> QED
  BY <1>3, <1>4, <1>5, Zenon

\* What the walk has after i entries, if taken is a run of InOrder.
WalkGood(walk, taken, i) ==
    /\ walk.end \in {"no", "full", "error"}
    /\ walk.end = "no" =>
         /\ walk.results = taken[i]
         /\ Len(taken[i]) < MaxFiles
         /\ \A j \in 1..i : tree[j].kind = "bad" => Skipped(j)
         /\ walk.skip \in Nat
         /\ walk.skip = 0 => \A k \in 1..i : ~Covers(k, i)
         /\ walk.skip # 0 => /\ \E k \in 1..i : Covers(k, i) /\ tree[k].depth = walk.skip
                             /\ \A k \in 1..i : Covers(k, i) => tree[k].depth >= walk.skip
    /\ walk.end = "full" =>
         \E j \in 1..i : /\ walk.results = taken[j]
                         /\ Len(taken[j]) = MaxFiles
                         /\ \A m \in 1..j : tree[m].kind = "bad" => Skipped(m)
    /\ walk.end = "error" =>
         \E j \in 1..i : tree[j].kind = "bad" /\ ~Skipped(j) /\ Len(taken[j - 1]) < MaxFiles

\* walkDir keeps that on an entry more: the file is taken, the directory is
\* skipped or cannot be read, or the scan is full.
LEMMA VisitGood ==
  ASSUME tree \in Trees, NEW i \in 1..Len(tree), NEW taken, NEW walk,
         \A j \in 0..i : Len(taken[j]) \in Nat,
         Len(taken[i - 1]) + 1 = Len(Append(taken[i - 1], i)),
         taken[i] = IF i \in Wanted THEN Append(taken[i - 1], i) ELSE taken[i - 1],
         WalkGood(walk, taken, i - 1)
  PROVE  WalkGood(Visit(tree, MaxFiles, walk, i), taken, i)
<1> DEFINE next == Visit(tree, MaxFiles, walk, i)
           entry == tree[i]
           found == IF entry.kind = "file" THEN Append(walk.results, i) ELSE walk.results
<1> SUFFICES WalkGood(next, taken, i)
  OBVIOUS
<1>0. "full" # "no" /\ "full" # "error" /\ "error" # "no"
  OBVIOUS
<1>1. Len(tree) \in Nat /\ entry.kind \in Kinds /\ entry.depth \in Nat \ {0} /\ i \in DOMAIN tree
  BY TreeEntries
<1>2. CASE walk.end # "no"
  <2>1. next = walk
    BY <1>2 DEF Visit
  <2> HIDE DEF next
  <2>2. \A j \in 1..(i - 1) : j \in 1..i
    BY <1>1
  <2>3. CASE walk.end = "full"
    <3>1. PICK j \in 1..(i - 1) : /\ walk.results = taken[j]
                                  /\ Len(taken[j]) = MaxFiles
                                  /\ \A m \in 1..j : tree[m].kind = "bad" => Skipped(m)
      BY <2>3 DEF WalkGood
    <3> QED
      BY <2>1, <2>2, <2>3, <3>1, <1>0, Zenon DEF WalkGood
  <2>4. CASE walk.end = "error"
    <3>1. PICK j \in 1..(i - 1) : tree[j].kind = "bad" /\ ~Skipped(j) /\ Len(taken[j - 1]) < MaxFiles
      BY <2>4 DEF WalkGood
    <3> QED
      BY <2>1, <2>2, <2>4, <3>1, <1>0, Zenon DEF WalkGood
  <2> QED
    BY <1>2, <2>3, <2>4 DEF WalkGood
<1>3. CASE walk.end = "no" /\ walk.skip # 0 /\ entry.depth > walk.skip
  <2>1. next = walk
    BY <1>3 DEF Visit
  <2>2. PICK k \in 1..(i - 1) : Covers(k, i - 1) /\ tree[k].depth = walk.skip
    BY <1>3 DEF WalkGood
  <2>3. Skipped(i) /\ Covers(k, i)
    BY <1>3, <2>2, SkippedCovers
  <2>4. i \notin Wanted
    BY <2>3 DEF Wanted
  <2>5. walk.results = taken[i] /\ Len(taken[i]) < MaxFiles
    BY <1>3, <2>4 DEF WalkGood
  <2>6. \A j \in 1..i : tree[j].kind = "bad" => Skipped(j)
    BY <1>1, <1>3, <2>3 DEF WalkGood
  <2>7. \A m \in 1..i : Covers(m, i) => tree[m].depth >= walk.skip
    <3>1. \A m \in 1..(i - 1) : Covers(m, i) => tree[m].depth >= walk.skip
      BY <1>3, SkippedCovers DEF WalkGood
    <3>2. tree[i].depth >= walk.skip
      BY <1>1, <1>3 DEF WalkGood
    <3> QED
      BY <1>1, <3>1, <3>2
  <2>8. walk.skip \in Nat /\ k \in 1..i
    BY <1>1, <1>3 DEF WalkGood
  <2> HIDE DEF next
  <2> QED
    BY <1>3, <2>1, <2>2, <2>3, <2>5, <2>6, <2>7, <2>8, <1>0, Zenon DEF WalkGood
<1>4. CASE walk.end = "no" /\ ~(walk.skip # 0 /\ entry.depth > walk.skip)
  <2>1. next = [results |-> found,
                skip |-> IF entry.kind = "skip" THEN entry.depth ELSE 0,
                end |-> CASE entry.kind = "bad" -> "error"
                          [] entry.kind = "file" /\ Full(found, MaxFiles) -> "full"
                          [] OTHER -> "no"]
    BY <1>4 DEF Visit
  <2>2. \A k \in 1..(i - 1) : ~(Covers(k, i - 1) /\ tree[i].depth > tree[k].depth)
    <3> SUFFICES ASSUME NEW k \in 1..(i - 1), Covers(k, i - 1), tree[i].depth > tree[k].depth
                 PROVE  FALSE
      OBVIOUS
    <3>0. k \in DOMAIN tree /\ tree[k].depth \in Nat
      BY <1>1, TreeEntries
    <3>1. CASE walk.skip = 0
      BY <1>4, <3>1 DEF WalkGood
    <3>2. CASE walk.skip # 0
      <4>1. walk.skip \in Nat /\ tree[k].depth >= walk.skip
        BY <1>4, <3>2 DEF WalkGood
      <4> QED
        BY <1>1, <1>4, <3>0, <3>2, <4>1
    <3> QED
      BY <3>1, <3>2
  <2>3. ~Skipped(i) /\ \A k \in 1..(i - 1) : ~Covers(k, i)
    BY <2>2, SkippedCovers
  <2>4. i \in Wanted <=> entry.kind = "file"
    BY <1>1, <2>3 DEF Wanted
  <2>5. walk.results = taken[i - 1] /\ Len(taken[i - 1]) < MaxFiles
    BY <1>4 DEF WalkGood
  <2>6. found = taken[i]
    BY <2>4, <2>5
  <2>7. \A j \in 1..(i - 1) : tree[j].kind = "bad" => Skipped(j)
    BY <1>4 DEF WalkGood
  <2>8. CASE entry.kind = "bad"
    <3>1. next.end = "error"
      BY <2>1, <2>8
    <3>2. i \in 1..i
      BY <1>1
    <3> HIDE DEF next
    <3> QED
      BY <2>3, <2>5, <2>8, <3>1, <3>2, <1>0, Zenon DEF WalkGood
  <2>9. CASE entry.kind # "bad"
    <3>1. \A j \in 1..i : tree[j].kind = "bad" => Skipped(j)
      BY <1>1, <2>7, <2>9
    <3>2. Len(taken[i]) \in Nat /\ Len(taken[i - 1]) \in Nat
      BY <1>1
    <3>3. CASE entry.kind = "file" /\ Full(found, MaxFiles)
      <4>1. next.end = "full" /\ next.results = taken[i]
        BY <2>1, <2>6, <2>9, <3>3
      <4>2. Len(taken[i]) = MaxFiles
        <5>1. Len(taken[i]) = Len(taken[i - 1]) + 1
          BY <2>4, <3>3
        <5>2. Len(taken[i]) >= MaxFiles
          BY <2>6, <3>3 DEF Full
        <5> QED
          BY <2>5, <3>2, <5>1, <5>2, ConfigAssumption
      <4>3. i \in 1..i
        BY <1>1
      <4> HIDE DEF next
      <4> QED
        BY <3>1, <4>1, <4>2, <4>3, <1>0, Zenon DEF WalkGood
    <3>4. CASE ~(entry.kind = "file" /\ Full(found, MaxFiles))
      <4>1. /\ next.end = "no"
            /\ next.results = taken[i]
            /\ next.skip = IF entry.kind = "skip" THEN entry.depth ELSE 0
        BY <2>1, <2>6, <2>9, <3>4
      <4>2. Len(taken[i]) < MaxFiles
        <5>1. CASE entry.kind = "file"
          BY <2>6, <3>2, <3>4, <5>1, ConfigAssumption DEF Full
        <5>2. CASE entry.kind # "file"
          BY <2>4, <2>5, <5>2
        <5> QED
          BY <5>1, <5>2
      <4>3. Covers(i, i) <=> entry.kind = "skip"
        BY SkippedCovers
      <4>4. \A k \in 1..i : Covers(k, i) <=> k = i /\ entry.kind = "skip"
        BY <1>1, <2>3, <4>3
      <4>5. next.skip \in Nat
        BY <1>1, <4>1
      <4>6. next.skip = 0 => \A k \in 1..i : ~Covers(k, i)
        BY <1>1, <4>1, <4>4
      <4>7. next.skip # 0 => /\ \E k \in 1..i : Covers(k, i) /\ tree[k].depth = next.skip
                             /\ \A k \in 1..i : Covers(k, i) => tree[k].depth >= next.skip
        <5> HIDE DEF next
        <5> QED
          BY <1>1, <4>1, <4>4
      <4> HIDE DEF next
      <4> QED
        BY <3>1, <4>1, <4>2, <4>5, <4>6, <4>7, <1>0, Zenon DEF WalkGood
    <3> QED
      BY <3>3, <3>4
  <2> QED
    BY <2>8, <2>9
<1> QED
  BY <1>2, <1>3, <1>4

\* A sequence of members of A is one of members of a larger B.
LEMMA SeqGrows ==
  ASSUME NEW A, NEW B, A \subseteq B
  PROVE  Seq(A) \subseteq Seq(B)
OBVIOUS

\* The walk of any clone finds the first MaxFiles wanted files, or fails at a
\* directory that it had to read.
LEMMA WalkTakesFirst ==
  ASSUME tree \in Trees
  PROVE  LET walk == Walk(tree, MaxFiles)
             all == InOrder(Wanted, Len(tree))
         IN IF walk.end = "error"
            THEN Unreadable # {}
            ELSE /\ walk.results = SubSeq(all, 1, IF Len(all) < MaxFiles THEN Len(all) ELSE MaxFiles)
                 /\ Unreadable = {}
<1>0. PICK n : n = Len(tree)
  OBVIOUS
<1> DEFINE walk == Walk(tree, MaxFiles)
           all == InOrder(Wanted, n)
<1>1. n \in Nat /\ MaxFiles \in Nat
  BY <1>0, TreeEntries, ConfigAssumption
<1>14. DOMAIN tree = 1..n
  BY <1>0, TreeEntries
<1>15. Wanted \subseteq 1..n
  BY <1>14 DEF Wanted
<1>2. PICK after : /\ after[0] = StartWalk
                   /\ \A i \in 1..n : after[i] = Visit(tree, MaxFiles, after[i - 1], i)
                   /\ walk = after[n]
  BY <1>0, <1>1, WalkRuns
<1>3. PICK taken : Collects(taken, Wanted, n) /\ all = taken[n]
  BY <1>1, InOrderRuns
<1>16. /\ taken[0] = << >>
       /\ \A i \in 1..n : taken[i] = IF i \in Wanted THEN Append(taken[i - 1], i) ELSE taken[i - 1]
  BY <1>3 DEF Collects
<1> HIDE DEF walk, all
<1>4. \A i \in 0..n :
         /\ taken[i] \in Seq(Nat)
         /\ Len(taken[i]) = Cardinality(Upto(Wanted, i))
         /\ \A j \in 0..i : /\ Len(taken[j]) <= Len(taken[i])
                            /\ SubSeq(taken[i], 1, Len(taken[j])) = taken[j]
  <2>4. Wanted \subseteq Nat
    BY <1>1, <1>15
  <2>2. \A i \in 0..n : Collected(taken, Wanted, i)
    <3>1. Wanted \in SUBSET (1..n)
      BY <1>15
    <3> QED
      BY <1>1, <1>3, <3>1, InOrderFacts, Zenon
  <2>3. Seq(Wanted) \subseteq Seq(Nat)
    BY <2>4, SeqGrows
  <2> QED
    BY <2>2, <2>3, Zenon DEF Collected
<1>5. \A i \in 0..n : Len(taken[i]) \in Nat
  BY <1>4
<1> DEFINE T == {i \in 0..n : WalkGood(after[i], taken, i)}
<1>6. 0 \in T
  <2>1. Len(taken[0]) = 0
    BY <1>16
  <2> QED
    BY <1>1, <1>2, <1>16, <2>1, ConfigAssumption DEF WalkGood, StartWalk
<1>7. \A i \in 1..n : i - 1 \in T => i \in T
  <2> SUFFICES ASSUME NEW i \in 1..n, WalkGood(after[i - 1], taken, i - 1)
               PROVE  WalkGood(after[i], taken, i)
    BY <1>1
  <2>1. after[i] = Visit(tree, MaxFiles, after[i - 1], i)
    BY <1>2
  <2>2. \A j \in 0..i : Len(taken[j]) \in Nat
    BY <1>1, <1>5
  <2>3. Len(taken[i - 1]) + 1 = Len(Append(taken[i - 1], i))
    BY <1>1, <1>4
  <2>4. taken[i] = IF i \in Wanted THEN Append(taken[i - 1], i) ELSE taken[i - 1]
    BY <1>16
  <2> QED
    BY <1>0, <2>1, <2>2, <2>3, <2>4, VisitGood, Zenon
<1>8. WalkGood(walk, taken, n)
  <2> HIDE DEF T
  <2>1. n \in T
    BY <1>1, <1>6, <1>7, LoopInduction
  <2> QED
    BY <1>2, <2>1 DEF T
<1>9. \A i \in 1..n : Cardinality({k \in Wanted : k < i}) = Len(taken[i - 1])
  <2> SUFFICES ASSUME NEW i \in 1..n
               PROVE  Cardinality({k \in Wanted : k < i}) = Len(taken[i - 1])
    OBVIOUS
  <2>1. {k \in Wanted : k < i} = Upto(Wanted, i - 1)
    <3>1. \A k \in Wanted : k < i <=> k <= i - 1
      BY <1>1, <1>15
    <3> QED
      BY <3>1 DEF Upto
  <2>2. i - 1 \in 0..n
    BY <1>1
  <2> QED
    BY <1>4, <2>1, <2>2
<1>10. Unreadable = {i \in 1..n : tree[i].kind = "bad" /\ ~Skipped(i) /\ Len(taken[i - 1]) < MaxFiles}
  BY <1>9, <1>14 DEF Unreadable
<1>11. CASE walk.end = "error"
  <2>1. Unreadable # {}
    BY <1>8, <1>10, <1>11 DEF WalkGood
  <2> QED
    BY <1>0, <1>11, <2>1 DEF walk, all
<1>12. CASE walk.end = "no"
  <2>1. walk.results = all /\ Len(all) < MaxFiles /\ \A j \in 1..n : tree[j].kind = "bad" => Skipped(j)
    BY <1>3, <1>8, <1>12 DEF WalkGood
  <2>2. Unreadable = {}
    BY <1>10, <2>1
  <2>3. all \in Seq(Nat)
    <3>1. n \in 0..n
      BY <1>1
    <3> QED
      BY <1>3, <1>4, <3>1
  <2>4. SubSeq(all, 1, Len(all)) = all
    BY <2>3
  <2>5. walk.results = SubSeq(all, 1, IF Len(all) < MaxFiles THEN Len(all) ELSE MaxFiles)
    BY <2>1, <2>4
  <2> QED
    BY <1>0, <1>12, <2>2, <2>5 DEF walk, all
<1>13. CASE walk.end = "full"
  <2>1. PICK j \in 1..n : /\ walk.results = taken[j]
                          /\ Len(taken[j]) = MaxFiles
                          /\ \A m \in 1..j : tree[m].kind = "bad" => Skipped(m)
    BY <1>8, <1>13 DEF WalkGood
  <2>2. Len(all) >= MaxFiles /\ Len(all) \in Nat /\ SubSeq(all, 1, MaxFiles) = taken[j]
    <3>1. n \in 0..n /\ j \in 0..n
      BY <1>1
    <3>2. Len(taken[j]) <= Len(all) /\ SubSeq(all, 1, Len(taken[j])) = taken[j]
      BY <1>3, <1>4, <3>1
    <3> QED
      BY <1>3, <1>5, <2>1, <3>1, <3>2
  <2>3. ASSUME NEW m \in 1..n, tree[m].kind = "bad", ~Skipped(m)
        PROVE  Len(taken[m - 1]) >= MaxFiles
    <3>1. m - 1 \in 0..n /\ j \in 0..(m - 1)
      BY <1>1, <2>1, <2>3
    <3>2. Len(taken[j]) <= Len(taken[m - 1])
      BY <1>4, <3>1
    <3> QED
      BY <1>1, <1>5, <2>1, <3>1, <3>2
  <2>4. Unreadable = {}
    <3>1. \A m \in 1..n : Len(taken[m - 1]) \in Nat
      BY <1>1, <1>5
    <3> QED
      BY <1>1, <1>10, <2>3, <3>1
  <2>5. walk.results = SubSeq(all, 1, IF Len(all) < MaxFiles THEN Len(all) ELSE MaxFiles)
    BY <1>1, <2>1, <2>2
  <2> QED
    BY <1>0, <1>13, <2>4, <2>5 DEF walk, all
<1> QED
  BY <1>8, <1>11, <1>12, <1>13 DEF WalkGood

\* The tree that is scanned is a clone until the paths are handed on; a job that
\* fails later has none.
ScanInv ==
    /\ stage \in {"scan", "scanned", "parse", "batched", "generating", "prompt", "failed"}
    /\ stage = "scan" => tree \in Trees
    /\ stage \in {"parse", "batched", "generating", "prompt"} => tree = << >>
    /\ ScanTakesFirst

\* No step changes what the scan has found until the paths are handed on.
LEMMA NextScanInv ==
  ASSUME ScanInv, [RepoNext]_repoVars
  PROVE  ScanInv'
<1> USE DEF ScanInv
<1>1. CASE CancelRepo \/ ParseStep \/ UNCHANGED repoVars
  <2>1. UNCHANGED <<stage, tree, paths>>
    BY <1>1 DEF CancelRepo, ParseStep, repoVars
  <2>2. Unreadable' = Unreadable /\ Wanted' = Wanted
    BY <2>1 DEF Unreadable, Wanted, Skipped, Below
  <2>3. ScanTakesFirst' <=> ScanTakesFirst
    BY <2>1, <2>2 DEF ScanTakesFirst
  <2> QED
    BY <2>1, <2>3
<1>2. CASE Scan
  <2> DEFINE walk == Walk(tree, MaxFiles)
  <2>1. tree \in Trees /\ tree' = tree
    BY <1>2 DEF Scan
  <2>2. Unreadable' = Unreadable /\ Wanted' = Wanted
    BY <2>1 DEF Unreadable, Wanted, Skipped, Below
  <2>3. CASE walk.end = "error"
    <3>1. stage' = "failed"
      BY <1>2, <2>3 DEF Scan
    <3>2. Unreadable # {}
      BY <2>1, <2>3, WalkTakesFirst
    <3> QED
      BY <2>2, <3>1, <3>2 DEF ScanTakesFirst
  <2>4. CASE walk.end # "error"
    <3>1. stage' = "scanned" /\ paths' = walk.results
      BY <1>2, <2>4 DEF Scan
    <3> QED
      BY <2>1, <2>2, <2>4, <3>1, WalkTakesFirst DEF ScanTakesFirst
  <2> QED
    BY <2>3, <2>4
<1>3. CASE StartParse
  BY <1>3 DEF StartParse, ScanTakesFirst
<1>4. CASE Batch
  BY <1>4 DEF Batch, ScanTakesFirst
<1>5. CASE Generating
  BY <1>5 DEF Generating, ScanTakesFirst
<1>6. CASE Prompt
  BY <1>6 DEF Prompt, ScanTakesFirst
<1> QED
  BY <1>1, <1>2, <1>3, <1>4, <1>5, <1>6 DEF RepoNext, RepoStep

\* For any clone and any limit of files the scan returns the first files that
\* are wanted, and fails for a directory that cannot be read and for no other
\* reason (scanner.go:12-45).
THEOREM ScanRight == RepoSpec => []ScanTakesFirst
<1>1. RepoInit => ScanInv
  BY DEF RepoInit, ScanInv, ScanTakesFirst
<1>2. ScanInv /\ [RepoNext]_repoVars => ScanInv'
  BY NextScanInv
<1>3. ScanInv => ScanTakesFirst
  BY DEF ScanInv
<1> QED
  BY <1>1, <1>2, <1>3, PTL DEF RepoSpec

-----------------------------------------------------------------------------
\* A loop that picks what a sequence has at the members of S.
Picks(picked, s, S, n) ==
    /\ picked[0] = << >>
    /\ \A i \in 1..n : picked[i] = IF i \in S THEN Append(picked[i - 1], s[i]) ELSE picked[i - 1]

\* Appending commutes with picking.
LEMMA AppendItem ==
  ASSUME NEW S, NEW c \in Seq(S), NEW i \in S, NEW s
  PROVE  Append(ItemsAt(s, c), s[i]) = ItemsAt(s, Append(c, i))
BY DEF ItemsAt

\* It ends with the items at the places that InOrder lists.
LEMMA PicksItems ==
  ASSUME NEW n \in Nat, NEW S \in SUBSET (1..n), NEW s, NEW chosen, NEW picked,
         Collects(chosen, S, n), Picks(picked, s, S, n)
  PROVE  picked[n] = ItemsAt(s, chosen[n])
<1> DEFINE T == {i \in 0..n : picked[i] = ItemsAt(s, chosen[i])}
<1>1. /\ chosen[0] = << >>
      /\ \A i \in 1..n : chosen[i] = IF i \in S THEN Append(chosen[i - 1], i) ELSE chosen[i - 1]
  BY DEF Collects
<1>2. \A i \in 0..n : chosen[i] \in Seq(S)
  BY InOrderFacts, Zenon DEF Collected
<1>9. /\ picked[0] = << >>
      /\ \A i \in 1..n : picked[i] = IF i \in S THEN Append(picked[i - 1], s[i]) ELSE picked[i - 1]
  BY DEF Picks
<1>3. 0 \in T
  BY <1>1, <1>9 DEF ItemsAt
<1>4. ASSUME NEW i \in 1..n, i - 1 \in T
      PROVE  i \in T
  <2>1. chosen[i - 1] \in Seq(S) /\ picked[i - 1] = ItemsAt(s, chosen[i - 1])
    BY <1>2, <1>4
  <2>2. CASE i \in S
    <3>1. chosen[i] = Append(chosen[i - 1], i)
      BY <1>1, <2>2
    <3>2. picked[i] = Append(picked[i - 1], s[i])
      BY <1>9, <2>2
    <3>3. picked[i] = ItemsAt(s, chosen[i])
      BY <2>1, <2>2, <3>1, <3>2, AppendItem
    <3> QED
      BY <3>3
  <2>3. CASE i \notin S
    BY <1>1, <1>9, <2>1, <2>3
  <2> QED
    BY <2>2, <2>3
<1>5. n \in T
  <2>1. \A i \in 1..n : i - 1 \in T => i \in T
    BY <1>4
  <2> HIDE DEF T
  <2> QED
    BY <1>3, <2>1, LoopInduction
<1> QED
  BY <1>5

\* selectFiles is a loop that picks the files of a document.
LEMMA SelectRuns ==
  ASSUME NEW fs, NEW n \in Nat, Len(fs) = n, NEW doc
  PROVE  \E selected : /\ Picks(selected, fs, {i \in 1..n : Matches(fs[i], doc)}, n)
                       /\ SelectFiles(fs, doc) = selected[n]
<1> DEFINE Round(s, i) == IF Matches(fs[i], doc) THEN Append(s, fs[i]) ELSE s
           Run(f, k) == f = [i \in 0..k |-> IF i = 0 THEN << >> ELSE Round(f[i - 1], i)]
           T == {k \in 0..n : \E f : Run(f, k)}
<1> HIDE DEF Round
<1>1. \E f : Run(f, 0)
  <2>1. Run([i \in 0..0 |-> << >>], 0)
    OBVIOUS
  <2> QED
    BY <2>1, Zenon
<1>2. ASSUME NEW k \in 1..n, NEW f, Run(f, k - 1)
      PROVE  \E g : Run(g, k)
  <2> DEFINE g == [i \in 0..k |-> IF i = k THEN Round(f[k - 1], k) ELSE f[i]]
  <2>1. Run(g, k)
    BY <1>2
  <2> QED
    BY <2>1, Zenon
<1> HIDE DEF Run
<1>3. \E f : Run(f, n)
  <2>1. 0 \in T /\ \A k \in 1..n : k - 1 \in T => k \in T
    BY <1>1, <1>2
  <2> HIDE DEF T
  <2>2. n \in T
    BY <2>1, LoopInduction
  <2> QED
    BY <2>2 DEF T
<1> DEFINE selected[i \in 0..n] ==
             IF i = 0 THEN << >>
             ELSE IF Matches(fs[i], doc) THEN Append(selected[i - 1], fs[i])
                                         ELSE selected[i - 1]
<1>4. Run(selected, n)
  BY <1>3, Zenon DEF Run, Round
<1>5. SelectFiles(fs, doc) = selected[n]
  BY DEF SelectFiles
<1> HIDE DEF selected
<1>6. selected[0] = << >> /\ \A i \in 1..n : selected[i] = Round(selected[i - 1], i)
  BY <1>4 DEF Run
<1>7. Picks(selected, fs, {i \in 1..n : Matches(fs[i], doc)}, n)
  BY <1>6 DEF Round, Picks
<1> QED
  BY <1>5, <1>7, Zenon

\* extractImports is a loop over the lines.
LEMMA ExtractRuns ==
  ASSUME NEW lines, NEW n \in Nat, Len(lines) = n
  PROVE  \E scan : /\ scan[0] = [inBlock |-> FALSE, out |-> << >>]
                   /\ \A i \in 1..n : scan[i] = ImportLine(scan[i - 1], lines[i])
                   /\ ExtractImports(lines) = scan[n].out
<1> DEFINE Start == [inBlock |-> FALSE, out |-> << >>]
           Round(s, i) == ImportLine(s, lines[i])
           Run(f, k) == f = [i \in 0..k |-> IF i = 0 THEN Start ELSE Round(f[i - 1], i)]
           T == {k \in 0..n : \E f : Run(f, k)}
<1> HIDE DEF Round, Start
<1>1. \E f : Run(f, 0)
  <2>1. Run([i \in 0..0 |-> Start], 0)
    OBVIOUS
  <2> QED
    BY <2>1, Zenon
<1>2. ASSUME NEW k \in 1..n, NEW f, Run(f, k - 1)
      PROVE  \E g : Run(g, k)
  <2> DEFINE g == [i \in 0..k |-> IF i = k THEN Round(f[k - 1], k) ELSE f[i]]
  <2>1. Run(g, k)
    BY <1>2
  <2> QED
    BY <2>1, Zenon
<1> HIDE DEF Run
<1>3. \E f : Run(f, n)
  <2>1. 0 \in T /\ \A k \in 1..n : k - 1 \in T => k \in T
    BY <1>1, <1>2
  <2> HIDE DEF T
  <2>2. n \in T
    BY <2>1, LoopInduction
  <2> QED
    BY <2>2 DEF T
<1> DEFINE scan[i \in 0..n] == IF i = 0 THEN [inBlock |-> FALSE, out |-> << >>]
                               ELSE ImportLine(scan[i - 1], lines[i])
<1>4. Run(scan, n)
  BY <1>3, Zenon DEF Run, Round, Start
<1>5. ExtractImports(lines) = scan[n].out
  BY DEF ExtractImports
<1> HIDE DEF scan
<1>6. scan[0] = Start /\ \A i \in 1..n : scan[i] = Round(scan[i - 1], i)
  BY <1>4 DEF Run
<1> QED
  BY <1>5, <1>6, Zenon DEF Round, Start

\* A line opens a block, closes it or leaves it as it was.
LEMMA BlockSteps ==
  ASSUME NEW lines, NEW i \in Nat \ {0}
  PROVE  /\ ~InBlock(lines, 1)
         /\ InBlock(lines, i + 1) <=>
              \/ lines[i].text = "open"
              \/ InBlock(lines, i) /\ lines[i].text # "close"
<1>1. ~InBlock(lines, 1)
  BY DEF InBlock
<1>2. 1..i = (1..(i - 1)) \cup {i} /\ (i + 1) - 1 = i
  OBVIOUS
<1>3. \A k \in 1..(i - 1) : (k + 1)..i = ((k + 1)..(i - 1)) \cup {i}
  OBVIOUS
<1>4. (i + 1)..i = {}
  OBVIOUS
<1>5. InBlock(lines, i + 1) <=> \E k \in 1..i : /\ lines[k].text = "open"
                                                /\ \A m \in (k + 1)..i : lines[m].text # "close"
  BY <1>2 DEF InBlock
<1>6. InBlock(lines, i + 1) <=>
        \/ lines[i].text = "open"
        \/ \E k \in 1..(i - 1) : /\ lines[k].text = "open"
                                 /\ \A m \in (k + 1)..i : lines[m].text # "close"
  BY <1>2, <1>4, <1>5
<1>7. \A k \in 1..(i - 1) : (\A m \in (k + 1)..i : lines[m].text # "close") <=>
                              /\ \A m \in (k + 1)..(i - 1) : lines[m].text # "close"
                              /\ lines[i].text # "close"
  BY <1>3
<1> QED
  BY <1>1, <1>6, <1>7 DEF InBlock

\* What SourcesAssumption says of one text.
LEMMA LinesOfSources ==
  ASSUME NEW lines \in Sources
  PROVE  /\ Len(lines) \in Nat
         /\ DOMAIN lines = 1..Len(lines)
         /\ \A i \in 1..Len(lines) :
              /\ lines[i].text \in {"open", "single", "text", "close", "blank"}
              /\ lines[i].part = "spec" <=>
                   lines[i].text = "single" \/ (InBlock(lines, i) /\ lines[i].text = "text")
<1> DEFINE E == [text : {"open", "single", "text", "close", "blank"}, part : {"spec", "other"}]
<1>1. \A e \in E : e.text \in {"open", "single", "text", "close", "blank"}
  OBVIOUS
<1>2. lines \in Seq(E)
  BY SourcesAssumption
<1> HIDE DEF E
<1>3. Len(lines) \in Nat /\ DOMAIN lines = 1..Len(lines) /\ \A i \in 1..Len(lines) : lines[i] \in E
  BY <1>2
<1> QED
  BY <1>1, <1>3, SourcesAssumption

\* The switch of extractImports on a line.
AfterLine(b, out, line) ==
    [inBlock |-> IF line.text = "open" THEN TRUE ELSE IF line.text = "close" THEN FALSE ELSE b,
     out |-> IF line.text = "single" \/ (b /\ line.text = "text") THEN Append(out, line) ELSE out]

\* ImportLine is that switch.
LEMMA ImportLineStep ==
  ASSUME NEW b \in BOOLEAN, NEW out, NEW line,
         line.text \in {"open", "single", "text", "close", "blank"}
  PROVE  ImportLine([inBlock |-> b, out |-> out], line) = AfterLine(b, out, line)
<1>1. CASE b = TRUE
  BY <1>1 DEF ImportLine, Closes, AfterLine
<1>2. CASE b = FALSE
  BY <1>2 DEF ImportLine, Closes, AfterLine
<1> QED
  BY <1>1, <1>2

\* extractImports keeps the lines that name an import and no other.
LEMMA ImportsAreSpecs ==
  ASSUME NEW lines \in Sources
  PROVE  ExtractImports(lines) = ItemsAt(lines, SpecLines(lines))
<1>0. PICK n : n = Len(lines)
  OBVIOUS
<1> DEFINE S == {i \in DOMAIN lines : lines[i].part = "spec"}
<1>1. n \in Nat /\ S \in SUBSET (1..n)
  BY <1>0, LinesOfSources
<1>2. \A i \in 1..n :
        /\ lines[i].text \in {"open", "single", "text", "close", "blank"}
        /\ i \in S <=> lines[i].text = "single" \/ (InBlock(lines, i) /\ lines[i].text = "text")
  BY <1>0, LinesOfSources
<1>3. SpecLines(lines) = InOrder(S, n)
  BY <1>0 DEF SpecLines
<1>4. PICK scan : /\ scan[0] = [inBlock |-> FALSE, out |-> << >>]
                  /\ \A i \in 1..n : scan[i] = ImportLine(scan[i - 1], lines[i])
                  /\ ExtractImports(lines) = scan[n].out
  BY <1>0, <1>1, ExtractRuns, Zenon
<1>5. PICK chosen : Collects(chosen, S, n) /\ InOrder(S, n) = chosen[n]
  BY <1>1, InOrderRuns, Zenon
<1> HIDE DEF S
<1> DEFINE Good(i) == \E b \in BOOLEAN : /\ scan[i] = [inBlock |-> b, out |-> scan[i].out]
                                         /\ b <=> InBlock(lines, i + 1)
           T == {i \in 0..n : Good(i)}
<1>6. 0 \in T
  <2>1. scan[0] = [inBlock |-> FALSE, out |-> scan[0].out]
    BY <1>4
  <2>2. FALSE <=> InBlock(lines, 0 + 1)
    <3>1. ~InBlock(lines, 1) /\ 0 + 1 = 1
      BY BlockSteps
    <3> QED
      BY <3>1
  <2>3. FALSE \in BOOLEAN
    OBVIOUS
  <2>4. Good(0)
    BY <2>1, <2>2, <2>3, Zenon
  <2> HIDE DEF Good
  <2> QED
    BY <1>1, <2>4
<1>7. ASSUME NEW i \in 1..n, Good(i - 1)
      PROVE  /\ Good(i)
             /\ scan[i].out = IF i \in S THEN Append(scan[i - 1].out, lines[i]) ELSE scan[i - 1].out
  <2> DEFINE line == lines[i]
             out == scan[i - 1].out
  <2>1. PICK b \in BOOLEAN : scan[i - 1] = [inBlock |-> b, out |-> out] /\ (b <=> InBlock(lines, i))
    BY <1>7
  <2>2. scan[i] = ImportLine([inBlock |-> b, out |-> out], line)
    BY <1>4, <2>1
  <2>3. line.text \in {"open", "single", "text", "close", "blank"}
    BY <1>2
  <2>4. i \in S <=> line.text = "single" \/ (b /\ line.text = "text")
    BY <1>2, <2>1
  <2>5. InBlock(lines, i + 1) <=> line.text = "open" \/ (b /\ line.text # "close")
    BY <2>1, BlockSteps
  <2> HIDE DEF line, out
  <2> DEFINE c == IF line.text = "open" THEN TRUE ELSE IF line.text = "close" THEN FALSE ELSE b
             newOut == IF i \in S THEN Append(out, line) ELSE out
  <2>6. scan[i] = [inBlock |-> c, out |-> newOut]
    <3>1. ImportLine([inBlock |-> b, out |-> out], line) = AfterLine(b, out, line)
      BY <2>3, ImportLineStep, SMT
    <3> QED
      BY <2>2, <2>4, <3>1, Zenon DEF AfterLine
  <2>7. c \in BOOLEAN /\ (c <=> InBlock(lines, i + 1))
    BY <2>3, <2>5
  <2> HIDE DEF c, newOut
  <2>8. scan[i].out = newOut
    BY <2>6
  <2>9. Good(i)
    BY <2>6, <2>7, <2>8, Zenon
  <2> QED
    BY <2>8, <2>9, Zenon DEF newOut, line, out
<1>8. \A i \in 0..n : Good(i)
  <2> HIDE DEF Good
  <2>1. \A i \in 1..n : i - 1 \in T => i \in T
    BY <1>7
  <2> HIDE DEF T
  <2>2. \A i \in 0..n : i \in T
    BY <1>1, <1>6, <2>1, LoopInduction
  <2> QED
    BY <2>2 DEF T
<1> DEFINE picked == [i \in 0..n |-> scan[i].out]
<1>9. Picks(picked, lines, S, n)
  <2> HIDE DEF Good
  <2>1. \A i \in 1..n : scan[i].out = IF i \in S THEN Append(scan[i - 1].out, lines[i]) ELSE scan[i - 1].out
    <3>1. \A i \in 1..n : i - 1 \in 0..n
      BY <1>1
    <3> QED
      BY <1>7, <1>8, <3>1, Zenon
  <2>2. \A i \in 1..n : picked[i] = scan[i].out /\ picked[i - 1] = scan[i - 1].out
    BY <1>1
  <2>3. picked[0] = << >>
    BY <1>1, <1>4
  <2> HIDE DEF picked
  <2> QED
    BY <2>1, <2>2, <2>3 DEF Picks
<1>10. ExtractImports(lines) = picked[n]
  BY <1>1, <1>4
<1> HIDE DEF picked
<1>11. picked[n] = ItemsAt(lines, chosen[n])
  BY <1>1, <1>5, <1>9, PicksItems, Zenon
<1> QED
  BY <1>3, <1>5, <1>10, <1>11, Zenon

\* What PromptsExact asks of the files fs.
SectionsRight(fs, doc) ==
    LET sections == Sections(fs, doc)
        chosen == InOrder({i \in DOMAIN fs : doc \in fs[i].docs}, Len(fs))
    IN /\ Len(sections) = Len(chosen)
       /\ \A k \in DOMAIN sections :
            LET file == fs[chosen[k]]
            IN /\ sections[k].path = file.path
               /\ sections[k].lines =
                    IF doc # DocDiagram THEN file.lines
                    ELSE ItemsAt(file.lines, SpecLines(file.lines))

\* The sections of the prompt for one document are right, for files of any
\* paths, texts and audiences.
LEMMA SectionsExact ==
  ASSUME NEW n \in Nat, NEW fs, DOMAIN fs = 1..n, Len(fs) = n, NEW doc,
         \A i \in 1..n : fs[i].lines \in Sources
  PROVE  SectionsRight(fs, doc)
<1> DEFINE S == {i \in 1..n : Matches(fs[i], doc)}
<1>1. S = {i \in DOMAIN fs : doc \in fs[i].docs}
  BY DEF Matches
<1>2. S \in SUBSET (1..n)
  OBVIOUS
<1>3. PICK selected : Picks(selected, fs, S, n) /\ SelectFiles(fs, doc) = selected[n]
  BY SelectRuns, Zenon
<1> HIDE DEF S
<1>4. PICK chosen : Collects(chosen, S, n) /\ InOrder(S, n) = chosen[n]
  BY InOrderRuns, Zenon
<1>5. PICK c \in Seq(S) : c = chosen[n]
  <2>1. n \in 0..n
    OBVIOUS
  <2>2. chosen[n] \in Seq(S)
    BY <1>2, <1>4, <2>1, InOrderFacts, Zenon DEF Collected
  <2> QED
    BY <2>2, Zenon
<1>6. selected[n] = ItemsAt(fs, c)
  <2>1. selected[n] = ItemsAt(fs, chosen[n])
    BY <1>2, <1>3, <1>4, PicksItems
  <2> QED
    BY <1>5, <2>1
<1>7. Len(c) \in Nat /\ DOMAIN c = 1..Len(c) /\ \A k \in 1..Len(c) : c[k] \in 1..n
  <2>1. Len(c) \in Nat /\ DOMAIN c = 1..Len(c) /\ \A k \in 1..Len(c) : c[k] \in S
    OBVIOUS
  <2> QED
    BY <1>2, <2>1
<1>8. /\ DOMAIN SelectFiles(fs, doc) = 1..Len(c)
      /\ \A k \in 1..Len(c) : SelectFiles(fs, doc)[k] = fs[c[k]]
  BY <1>3, <1>6, <1>7 DEF ItemsAt
<1>9. /\ DOMAIN Sections(fs, doc) = 1..Len(c)
      /\ Len(Sections(fs, doc)) = Len(c)
      /\ \A k \in 1..Len(c) :
           /\ Sections(fs, doc)[k].path = fs[c[k]].path
           /\ Sections(fs, doc)[k].lines = IF doc = DocDiagram THEN ExtractImports(fs[c[k]].lines)
                                                               ELSE fs[c[k]].lines
  BY <1>7, <1>8 DEF Sections
<1>10. \A k \in 1..Len(c) : ExtractImports(fs[c[k]].lines) = ItemsAt(fs[c[k]].lines, SpecLines(fs[c[k]].lines))
  BY <1>7, ImportsAreSpecs
<1>11. InOrder({i \in DOMAIN fs : doc \in fs[i].docs}, Len(fs)) = c
  BY <1>1, <1>4, <1>5
<1> QED
  BY <1>9, <1>10, <1>11 DEF SectionsRight

-----------------------------------------------------------------------------
\* File i of the slice comes before file k when the slice is sorted.
Sooner(fs, i, k) ==
    fs[i].tier < fs[k].tier \/ (fs[i].tier = fs[k].tier /\ i < k)

\* The place of a file is behind all those that come before it.
LEMMA PlaceFacts ==
  ASSUME NEW n \in Nat, NEW fs, DOMAIN fs = 1..n, \A i \in 1..n : fs[i].tier \in Nat
  PROVE  /\ \A i \in 1..n : Place(fs, i) \in 1..n
         /\ \A i, k \in 1..n : Sooner(fs, i, k) => Place(fs, i) < Place(fs, k)
<1> DEFINE Up(i) == {k \in 1..n : \/ fs[k].tier < fs[i].tier
                                  \/ fs[k].tier = fs[i].tier /\ k <= i}
<1>1. \A i \in 1..n : Place(fs, i) = Cardinality(Up(i))
  BY DEF Place
<1>2. IsFiniteSet(1..n) /\ Cardinality(1..n) = n
  BY FS_Interval
<1>3. \A i \in 1..n : Up(i) \in SUBSET (1..n) /\ i \in Up(i)
  OBVIOUS
<1>4. ASSUME NEW i \in 1..n, NEW k \in 1..n, Sooner(fs, i, k)
      PROVE  Up(i) \in SUBSET Up(k) /\ k \in Up(k) /\ k \notin Up(i)
  <2>1. \A m \in 1..n : fs[m].tier \in Nat
    OBVIOUS
  <2>2. ASSUME NEW m \in Up(i) PROVE m \in Up(k)
    BY <1>4, <2>1 DEF Sooner
  <2>3. k \in Up(k) /\ k \notin Up(i)
    BY <1>4, <2>1 DEF Sooner
  <2> QED
    BY <2>2, <2>3
<1> HIDE DEF Up
<1>5. \A i \in 1..n : IsFiniteSet(Up(i)) /\ Cardinality(Up(i)) <= n /\ Cardinality(Up(i)) \in Nat
  BY <1>2, <1>3, FS_Subset, FS_CardinalityType
<1>6. \A i \in 1..n : Cardinality(Up(i)) # 0
  BY <1>3, <1>5, FS_EmptySet
<1>7. ASSUME NEW i \in 1..n, NEW k \in 1..n, Sooner(fs, i, k)
      PROVE  Cardinality(Up(i)) < Cardinality(Up(k))
  <2>1. Up(i) \in SUBSET Up(k) /\ Up(i) # Up(k)
    BY <1>4, <1>7
  <2>2. Cardinality(Up(i)) <= Cardinality(Up(k)) /\ Cardinality(Up(k)) # Cardinality(Up(i))
    BY <1>5, <2>1, FS_Subset
  <2> QED
    BY <1>5, <2>2
<1>8. \A i \in 1..n : Place(fs, i) \in 1..n
  BY <1>1, <1>5, <1>6
<1> QED
  BY <1>1, <1>7, <1>8

\* ByTier lists each file once, the more important first and files of one tier
\* as they were.
LEMMA ByTierSorts ==
  ASSUME NEW n \in Nat, NEW fs, DOMAIN fs = 1..n, \A i \in 1..n : fs[i].tier \in Nat
  PROVE  \E from \in [1..n -> 1..n] :
           /\ ByTier(fs) = [k \in 1..n |-> fs[from[k]]]
           /\ \A i \in 1..n : \E k \in 1..n : from[k] = i
           /\ \A i, k \in 1..n : i < k => Sooner(fs, from[i], from[k])
<1> DEFINE place == [i \in 1..n |-> Place(fs, i)]
           from == [k \in 1..n |-> CHOOSE i \in 1..n : Place(fs, i) = k]
<1>1. \A i \in 1..n : Place(fs, i) \in 1..n
  BY PlaceFacts
<1>2. \A i, k \in 1..n : Sooner(fs, i, k) => Place(fs, i) < Place(fs, k)
  BY PlaceFacts
<1>3. \A i, k \in 1..n : i = k \/ Sooner(fs, i, k) \/ Sooner(fs, k, i)
  BY DEF Sooner
<1>4. \A i, k \in 1..n : Place(fs, i) = Place(fs, k) => i = k
  BY <1>1, <1>2, <1>3
<1>5. place \in Injection(1..n, 1..n)
  BY <1>1, <1>4 DEF Injection, IsInjective
<1>6. place \in Surjection(1..n, 1..n)
  <2>1. IsFiniteSet(1..n)
    BY FS_Interval
  <2> QED
    BY <1>5, <2>1, FS_Injection
<1>7. \A k \in 1..n : \E i \in 1..n : Place(fs, i) = k
  BY <1>6 DEF Surjection
<1>8. \A k \in 1..n : from[k] \in 1..n /\ Place(fs, from[k]) = k
  BY <1>7
<1>9. from \in [1..n -> 1..n]
  BY <1>8
<1>10. ByTier(fs) = [k \in 1..n |-> fs[from[k]]]
  BY DEF ByTier
<1> HIDE DEF from
<1>11. \A i \in 1..n : \E k \in 1..n : from[k] = i
  BY <1>1, <1>4, <1>8
<1>12. ASSUME NEW i \in 1..n, NEW k \in 1..n, i < k
       PROVE  Sooner(fs, from[i], from[k])
  BY <1>2, <1>3, <1>8, <1>12
<1> QED
  BY <1>9, <1>10, <1>11, <1>12, Zenon

-----------------------------------------------------------------------------
\* The rounds of SumsOf.
LEMMA SumsRun ==
  ASSUME NEW n \in Nat, NEW numbers, Len(numbers) = n
  PROVE  /\ SumsOf(numbers)[0] = 0
         /\ \A i \in 1..n : SumsOf(numbers)[i] = SumsOf(numbers)[i - 1] + numbers[i]
<1> DEFINE Round(s, i) == s + numbers[i]
           Run(f, k) == f = [i \in 0..k |-> IF i = 0 THEN 0 ELSE Round(f[i - 1], i)]
           T == {k \in 0..n : \E f : Run(f, k)}
<1> HIDE DEF Round
<1>1. \E f : Run(f, 0)
  <2>1. Run([i \in 0..0 |-> 0], 0)
    OBVIOUS
  <2> QED
    BY <2>1, Zenon
<1>2. ASSUME NEW k \in 1..n, NEW f, Run(f, k - 1)
      PROVE  \E g : Run(g, k)
  <2> DEFINE g == [i \in 0..k |-> IF i = k THEN Round(f[k - 1], k) ELSE f[i]]
  <2>1. Run(g, k)
    BY <1>2
  <2> QED
    BY <2>1, Zenon
<1> HIDE DEF Run
<1>3. \E f : Run(f, n)
  <2>1. 0 \in T /\ \A k \in 1..n : k - 1 \in T => k \in T
    BY <1>1, <1>2
  <2> HIDE DEF T
  <2>2. n \in T
    BY <2>1, LoopInduction
  <2> QED
    BY <2>2 DEF T
<1> DEFINE sums[i \in 0..n] == IF i = 0 THEN 0 ELSE sums[i - 1] + numbers[i]
<1>4. Run(sums, n)
  BY <1>3, Zenon DEF Run, Round
<1>5. SumsOf(numbers) = sums
  BY DEF SumsOf
<1> HIDE DEF sums
<1>6. sums[0] = 0 /\ \A i \in 1..n : sums[i] = Round(sums[i - 1], i)
  BY <1>4 DEF Run
<1> QED
  BY <1>5, <1>6, Zenon DEF Round

\* Sums of naturals are naturals, and grow.
LEMMA SumsGrow ==
  ASSUME NEW n \in Nat, NEW numbers, Len(numbers) = n, \A i \in 1..n : numbers[i] \in Nat
  PROVE  /\ \A i \in 0..n : SumsOf(numbers)[i] \in Nat
         /\ \A i \in 0..n, k \in 0..n : i <= k => SumsOf(numbers)[i] <= SumsOf(numbers)[k]
<1>0. PICK sums : sums = SumsOf(numbers)
  OBVIOUS
<1> DEFINE Good(i) == \A k \in 0..i : sums[k] \in Nat /\ sums[k] <= sums[i]
           T == {i \in 0..n : Good(i)}
<1>1. sums[0] = 0 /\ \A i \in 1..n : sums[i] = sums[i - 1] + numbers[i]
  BY <1>0, SumsRun
<1>2. 0 \in T
  BY <1>1
<1>3. ASSUME NEW i \in 1..n, Good(i - 1)
      PROVE  Good(i)
  <2>1. sums[i] = sums[i - 1] + numbers[i] /\ numbers[i] \in Nat /\ sums[i - 1] \in Nat
    BY <1>1, <1>3
  <2>2. \A k \in 0..(i - 1) : sums[k] \in Nat /\ sums[k] <= sums[i - 1]
    BY <1>3
  <2>3. \A k \in 0..i : k = i \/ k \in 0..(i - 1)
    OBVIOUS
  <2> QED
    BY <2>1, <2>2, <2>3
<1>4. \A i \in 0..n : Good(i)
  <2> HIDE DEF Good
  <2>1. \A i \in 1..n : i - 1 \in T => i \in T
    BY <1>3
  <2> HIDE DEF T
  <2>2. \A i \in 0..n : i \in T
    BY <1>2, <2>1, LoopInduction
  <2> QED
    BY <2>2 DEF T
<1> QED
  BY <1>0, <1>4

\* The rounds of FlattenSeq.
LEMMA FlattenRuns ==
  ASSUME NEW n \in Nat \ {0}, NEW seqs, Len(seqs) = n
  PROVE  \E flat : /\ flat[1] = seqs[1]
                   /\ \A i \in 2..n : flat[i] = flat[i - 1] \o seqs[i]
                   /\ FlattenSeq(seqs) = flat[n]
<1> DEFINE Round(s, i) == s \o seqs[i]
           Run(f, k) == f = [i \in 1..k |-> IF i = 1 THEN seqs[i] ELSE Round(f[i - 1], i)]
           T == {k \in 0..n : \E f : Run(f, k)}
<1> HIDE DEF Round
<1>1. \E f : Run(f, 0)
  <2>1. Run([i \in 1..0 |-> << >>], 0)
    OBVIOUS
  <2> QED
    BY <2>1, Zenon
<1>2. ASSUME NEW k \in 1..n, NEW f, Run(f, k - 1)
      PROVE  \E g : Run(g, k)
  <2> DEFINE g == [i \in 1..k |-> IF i = k THEN IF k = 1 THEN seqs[k] ELSE Round(f[k - 1], k)
                                           ELSE f[i]]
  <2>1. Run(g, k)
    BY <1>2
  <2> QED
    BY <2>1, Zenon
<1> HIDE DEF Run
<1>3. \E f : Run(f, n)
  <2>1. 0 \in T /\ \A k \in 1..n : k - 1 \in T => k \in T
    BY <1>1, <1>2
  <2> HIDE DEF T
  <2>2. n \in T
    BY <2>1, LoopInduction
  <2> QED
    BY <2>2 DEF T
<1> DEFINE flatten[i \in 1..n] == IF i = 1 THEN seqs[i] ELSE flatten[i - 1] \o seqs[i]
<1>4. Run(flatten, n)
  BY <1>3, Zenon DEF Run, Round
<1>5. FlattenSeq(seqs) = flatten[n]
  BY DEF FlattenSeq
<1> HIDE DEF flatten
<1>6. flatten[1] = seqs[1] /\ \A i \in 2..n : flatten[i] = Round(flatten[i - 1], i)
  BY <1>4 DEF Run
<1> QED
  BY <1>5, <1>6, Zenon DEF Round

-----------------------------------------------------------------------------
\* The rounds of BatchFiles.
Packing(packing, s, max) ==
    /\ packing[0] = StartPacking
    /\ \A i \in 1..Len(s) : packing[i] = Pack(packing[i - 1], s[i], max)

\* BatchFiles is a loop over the sorted files with a drain behind it.
LEMMA BatchesRuns ==
  ASSUME NEW fs, NEW max, NEW n \in Nat, Len(ByTier(fs)) = n
  PROVE  \E packing : Packing(packing, ByTier(fs), max) /\ Batches(fs, max) = Drain(packing[n])
<1>0. PICK s : s = ByTier(fs)
  OBVIOUS
<1> DEFINE Round(p, i) == Pack(p, s[i], max)
           Run(f, k) == f = [i \in 0..k |-> IF i = 0 THEN StartPacking ELSE Round(f[i - 1], i)]
           T == {k \in 0..n : \E f : Run(f, k)}
<1> HIDE DEF Round
<1>1. \E f : Run(f, 0)
  <2>1. Run([i \in 0..0 |-> StartPacking], 0)
    OBVIOUS
  <2> QED
    BY <2>1, Zenon
<1>2. ASSUME NEW k \in 1..n, NEW f, Run(f, k - 1)
      PROVE  \E g : Run(g, k)
  <2> DEFINE g == [i \in 0..k |-> IF i = k THEN Round(f[k - 1], k) ELSE f[i]]
  <2>1. Run(g, k)
    BY <1>2
  <2> QED
    BY <2>1, Zenon
<1> HIDE DEF Run
<1>3. \E f : Run(f, n)
  <2>1. 0 \in T /\ \A k \in 1..n : k - 1 \in T => k \in T
    BY <1>1, <1>2
  <2> HIDE DEF T
  <2>2. n \in T
    BY <2>1, LoopInduction
  <2> QED
    BY <2>2 DEF T
<1> DEFINE packing[i \in 0..n] == IF i = 0 THEN StartPacking ELSE Pack(packing[i - 1], s[i], max)
<1>4. Run(packing, n)
  BY <1>3, Zenon DEF Run, Round
<1>5. Batches(fs, max) = Drain(packing[n])
  BY <1>0 DEF Batches
<1> HIDE DEF packing
<1>6. packing[0] = StartPacking /\ \A i \in 1..n : packing[i] = Round(packing[i - 1], i)
  BY <1>4 DEF Run
<1>7. Packing(packing, s, max)
  BY <1>0, <1>6 DEF Packing, Round
<1> QED
  BY <1>0, <1>5, <1>7, Zenon

\* The files of s behind place from, up to place to, are one batch; sums[i] are
\* the tokens of the first i of s.
BatchIs(batch, from, to, s, sums, max) ==
    /\ batch.files = SubSeq(s, from + 1, to)
    /\ batch.tokens = sums[to] - sums[from]
    /\ batch.tokens <= max \/ to = from + 1

\* The first i files are in the batches of the result and the open batch; no
\* batch of the result has room for the file behind it.
PackedTo(packing, ends, i, s, sums, max) ==
    LET m == Len(packing.result)
    IN /\ ends[0] = 0
       /\ ends[m + 1] = i
       /\ \A b \in 0..(m + 1) : ends[b] \in 0..i
       /\ \A b \in 1..(m + 1) : ends[b - 1] < ends[b]
       /\ \A b \in 1..m : /\ BatchIs(packing.result[b], ends[b - 1], ends[b], s, sums, max)
                          /\ sums[ends[b] + 1] - sums[ends[b - 1]] > max
       /\ BatchIs(packing.current, ends[m], i, s, sums, max)

\* A stretch of a sequence grows at its end; a stretch of one is that item.
LEMMA SubSeqGrows ==
  ASSUME NEW F, NEW s \in Seq(F), NEW i \in Nat, NEW from \in 0..i, i + 1 \in 1..Len(s)
  PROVE  /\ Append(SubSeq(s, from + 1, i), s[i + 1]) = SubSeq(s, from + 1, i + 1)
         /\ SubSeq(s, i + 1, i + 1) = <<s[i + 1]>>
<1>1. \A k \in (from + 1)..(i + 1) : s[k] \in F
  OBVIOUS
<1>2. s[i + 1] \in F /\ SubSeq(s, from + 1, i) \in Seq(F)
  <2>1. \A k \in (from + 1)..i : s[k] \in F
    OBVIOUS
  <2> QED
    BY <1>1, <2>1, SubSeqProperties
<1>3. Append(SubSeq(s, from + 1, i), s[i + 1]) = SubSeq(s, from + 1, i) \o <<s[i + 1]>>
  BY <1>2, AppendIsConcat
<1>4. SubSeq(s, from + 1, i + 1) = SubSeq(s, from + 1, i) \o <<s[i + 1]>>
  <2>1. from + 1 \in 1..Len(s) /\ i + 1 \in (from + 1)..Len(s) /\ (i + 1) - 1 = i
    OBVIOUS
  <2> QED
    BY <2>1, SubSeqRecursiveSecond
<1>5. /\ Len(SubSeq(s, i + 1, i + 1)) = 1
      /\ SubSeq(s, i + 1, i + 1)[1] = s[i + 1]
      /\ SubSeq(s, i + 1, i + 1) \in Seq(F)
  <2>1. \A k \in (i + 1)..(i + 1) : s[k] \in F
    OBVIOUS
  <2>2. (i + 1) - (i + 1) + 1 = 1 /\ (i + 1) + 1 - 1 = i + 1
    OBVIOUS
  <2> QED
    BY <2>1, <2>2, SubSeqProperties
<1>6. SubSeq(s, i + 1, i + 1) = <<s[i + 1]>>
  <2>1. /\ <<s[i + 1]>> \in Seq(F) /\ Len(<<s[i + 1]>>) = 1 /\ <<s[i + 1]>>[1] = s[i + 1]
        /\ \A k \in 1..1 : k = 1
    BY <1>2
  <2> QED
    BY <1>5, <2>1, SeqEqual
<1> QED
  BY <1>3, <1>4, <1>6

\* A file that does not fit closes the open batch and begins the next.
LEMMA PackFull ==
  ASSUME NEW F, NEW s \in Seq(F), NEW max \in Nat, NEW sums,
         NEW i \in Nat, i > 0, i + 1 \in 1..Len(s),
         \A k \in 0..Len(s) : sums[k] \in Nat,
         sums[i + 1] = sums[i] + EstimateTokens(s[i + 1]),
         EstimateTokens(s[i + 1]) \in Nat,
         NEW B, NEW result \in Seq(B), NEW current \in B, NEW ends,
         PackedTo([result |-> result, current |-> current], ends, i, s, sums, max),
         current.tokens + EstimateTokens(s[i + 1]) > max
  PROVE  \E ends2 : PackedTo([result |-> Append(result, current),
                              current |-> [files |-> <<s[i + 1]>>,
                                           tokens |-> EstimateTokens(s[i + 1])]],
                             ends2, i + 1, s, sums, max)
<1>0. PICK m \in Nat : m = Len(result)
  OBVIOUS
<1>1. /\ ends[0] = 0
      /\ ends[m + 1] = i
      /\ \A b \in 0..(m + 1) : ends[b] \in 0..i
      /\ \A b \in 1..(m + 1) : ends[b - 1] < ends[b]
      /\ \A b \in 1..m : /\ BatchIs(result[b], ends[b - 1], ends[b], s, sums, max)
                         /\ sums[ends[b] + 1] - sums[ends[b - 1]] > max
      /\ BatchIs(current, ends[m], i, s, sums, max)
  BY <1>0 DEF PackedTo
<1> DEFINE ends2 == [b \in 0..(m + 2) |-> IF b = m + 2 THEN i + 1 ELSE ends[b]]
           result2 == Append(result, current)
           open == [files |-> <<s[i + 1]>>, tokens |-> EstimateTokens(s[i + 1])]
<1>2. /\ ends2[m + 2] = i + 1
      /\ \A b \in 0..(m + 1) : ends2[b] = ends[b]
  BY <1>0
<1>3. /\ Len(result2) = m + 1
      /\ \A b \in 1..m : result2[b] = result[b]
      /\ result2[m + 1] = current
  BY <1>0
<1>4. BatchIs(open, i, i + 1, s, sums, max)
  <2>1. SubSeq(s, i + 1, i + 1) = <<s[i + 1]>>
    BY SubSeqGrows
  <2>2. sums[i] \in Nat
    OBVIOUS
  <2> QED
    BY <2>1, <2>2 DEF BatchIs
<1>5. sums[i + 1] - sums[ends[m]] > max
  <2>1. current.tokens = sums[i] - sums[ends[m]]
    BY <1>1 DEF BatchIs
  <2>2. ends[m] \in 0..Len(s) /\ i \in 0..Len(s)
    BY <1>1
  <2>3. sums[i] \in Nat /\ sums[ends[m]] \in Nat
    BY <2>2
  <2> QED
    BY <2>1, <2>3
<1> HIDE DEF ends2, result2, open
<1>6. \A b \in 0..(m + 2) : b = m + 2 \/ b \in 0..(m + 1)
  OBVIOUS
<1>7. \A b \in 1..(m + 2) : (b = m + 2 /\ b - 1 = m + 1) \/ (b \in 1..(m + 1) /\ b - 1 \in 0..(m + 1) /\ b \in 0..(m + 1))
  OBVIOUS
<1>8. \A b \in 1..(m + 1) : /\ BatchIs(result2[b], ends2[b - 1], ends2[b], s, sums, max)
                            /\ sums[ends2[b] + 1] - sums[ends2[b - 1]] > max
  <2> SUFFICES ASSUME NEW b \in 1..(m + 1)
               PROVE  /\ BatchIs(result2[b], ends2[b - 1], ends2[b], s, sums, max)
                      /\ sums[ends2[b] + 1] - sums[ends2[b - 1]] > max
    OBVIOUS
  <2>1. ends2[b - 1] = ends[b - 1] /\ ends2[b] = ends[b]
    BY <1>2
  <2>2. CASE b = m + 1
    <3>1. b - 1 = m
      BY <2>2
    <3> QED
      BY <1>1, <1>3, <1>5, <2>1, <2>2, <3>1
  <2>3. CASE b \in 1..m
    BY <1>1, <1>3, <2>1, <2>3
  <2> QED
    BY <2>2, <2>3
<1>9. /\ ends2[0] = 0
      /\ \A b \in 0..(m + 2) : ends2[b] \in 0..(i + 1)
      /\ \A b \in 1..(m + 2) : ends2[b - 1] < ends2[b]
  <2>1. ends2[0] = 0
    BY <1>1, <1>2
  <2>2. \A b \in 0..(m + 1) : ends2[b] \in 0..(i + 1)
    <3>1. \A b \in 0..(m + 1) : ends[b] \in 0..i
      BY <1>1
    <3>2. 0..i \subseteq 0..(i + 1)
      OBVIOUS
    <3>3. \A b \in 0..(m + 1) : ends2[b] \in 0..i
      BY <1>2, <3>1
    <3> QED
      BY <3>2, <3>3
  <2>3. \A b \in 1..(m + 1) : ends2[b - 1] < ends2[b]
    BY <1>1, <1>2
  <2>4. ends2[m + 1] < ends2[m + 2]
    BY <1>1, <1>2
  <2> QED
    BY <1>2, <1>6, <1>7, <2>1, <2>2, <2>3, <2>4
<1>10. BatchIs(open, ends2[m + 1], i + 1, s, sums, max)
  BY <1>1, <1>2, <1>4
<1>11. (m + 1) + 1 = m + 2
  OBVIOUS
<1>12. PackedTo([result |-> result2, current |-> open], ends2, i + 1, s, sums, max)
  BY <1>2, <1>3, <1>8, <1>9, <1>10, <1>11 DEF PackedTo
<1> QED
  BY <1>12, Zenon DEF result2, open

\* A file that fits goes into the open batch.
LEMMA PackFits ==
  ASSUME NEW F, NEW s \in Seq(F), NEW max \in Nat, NEW sums,
         NEW i \in Nat, i > 0, i + 1 \in 1..Len(s),
         \A k \in 0..Len(s) : sums[k] \in Nat,
         sums[i + 1] = sums[i] + EstimateTokens(s[i + 1]),
         EstimateTokens(s[i + 1]) \in Nat,
         NEW B, NEW result \in Seq(B), NEW current \in B, NEW ends,
         PackedTo([result |-> result, current |-> current], ends, i, s, sums, max),
         current.tokens + EstimateTokens(s[i + 1]) <= max
  PROVE  \E ends2 : PackedTo([result |-> result,
                              current |-> [files |-> Append(current.files, s[i + 1]),
                                           tokens |-> current.tokens + EstimateTokens(s[i + 1])]],
                             ends2, i + 1, s, sums, max)
<1>0. PICK m \in Nat : m = Len(result)
  OBVIOUS
<1>1. /\ ends[0] = 0
      /\ ends[m + 1] = i
      /\ \A b \in 0..(m + 1) : ends[b] \in 0..i
      /\ \A b \in 1..(m + 1) : ends[b - 1] < ends[b]
      /\ \A b \in 1..m : /\ BatchIs(result[b], ends[b - 1], ends[b], s, sums, max)
                         /\ sums[ends[b] + 1] - sums[ends[b - 1]] > max
      /\ BatchIs(current, ends[m], i, s, sums, max)
  BY <1>0 DEF PackedTo
<1> DEFINE ends2 == [b \in 0..(m + 1) |-> IF b = m + 1 THEN i + 1 ELSE ends[b]]
           open == [files |-> Append(current.files, s[i + 1]),
                    tokens |-> current.tokens + EstimateTokens(s[i + 1])]
<1>2. /\ ends2[m + 1] = i + 1
      /\ \A b \in 0..m : ends2[b] = ends[b]
  BY <1>0
<1>4. BatchIs(open, ends[m], i + 1, s, sums, max)
  <2>1. ends[m] \in 0..i /\ sums[ends[m]] \in Nat /\ sums[i] \in Nat
    BY <1>1
  <2>2. current.files = SubSeq(s, ends[m] + 1, i) /\ current.tokens = sums[i] - sums[ends[m]]
    BY <1>1 DEF BatchIs
  <2>3. Append(SubSeq(s, ends[m] + 1, i), s[i + 1]) = SubSeq(s, ends[m] + 1, i + 1)
    BY <2>1, SubSeqGrows
  <2>4. open.files = SubSeq(s, ends[m] + 1, i + 1)
    BY <2>2, <2>3
  <2>5. open.tokens = sums[i + 1] - sums[ends[m]] /\ open.tokens <= max
    BY <2>1, <2>2
  <2> QED
    BY <2>4, <2>5 DEF BatchIs
<1> HIDE DEF ends2, open
<1>6. \A b \in 0..(m + 1) : b = m + 1 \/ b \in 0..m
  OBVIOUS
<1>8. \A b \in 1..m : /\ BatchIs(result[b], ends2[b - 1], ends2[b], s, sums, max)
                      /\ sums[ends2[b] + 1] - sums[ends2[b - 1]] > max
  <2> SUFFICES ASSUME NEW b \in 1..m
               PROVE  /\ BatchIs(result[b], ends2[b - 1], ends2[b], s, sums, max)
                      /\ sums[ends2[b] + 1] - sums[ends2[b - 1]] > max
    OBVIOUS
  <2>1. ends2[b - 1] = ends[b - 1] /\ ends2[b] = ends[b]
    BY <1>2
  <2> QED
    BY <1>1, <2>1
<1>9. /\ ends2[0] = 0
      /\ \A b \in 0..(m + 1) : ends2[b] \in 0..(i + 1)
      /\ \A b \in 1..(m + 1) : ends2[b - 1] < ends2[b]
  <2>1. ends2[0] = 0
    BY <1>1, <1>2
  <2>2. \A b \in 0..m : ends2[b] \in 0..(i + 1) /\ ends[b] \in 0..i
    BY <1>1, <1>2
  <2>3. \A b \in 1..m : ends2[b - 1] < ends2[b]
    BY <1>1, <1>2
  <2>4. ends2[m] < ends2[m + 1]
    <3>1. ends2[m] = ends[m] /\ ends[m] \in 0..i
      BY <1>1, <1>2
    <3> QED
      BY <1>2, <3>1
  <2>5. \A b \in 1..(m + 1) : (b = m + 1 /\ b - 1 = m) \/ b \in 1..m
    OBVIOUS
  <2>6. \A b \in 0..(m + 1) : ends2[b] \in 0..(i + 1)
    BY <1>2, <1>6, <2>2
  <2>7. \A b \in 1..(m + 1) : ends2[b - 1] < ends2[b]
    BY <2>3, <2>4, <2>5
  <2> QED
    BY <2>1, <2>6, <2>7
<1>10. BatchIs(open, ends2[m], i + 1, s, sums, max)
  BY <1>1, <1>2, <1>4
<1>12. PackedTo([result |-> result, current |-> open], ends2, i + 1, s, sums, max)
  BY <1>0, <1>2, <1>8, <1>9, <1>10 DEF PackedTo
<1> QED
  BY <1>12, Zenon DEF open

-----------------------------------------------------------------------------
\* What a batch and the state of BatchFiles are made of, for files in F.
BatchesOf(F) == [files : Seq(F), tokens : Nat]
PackingsOf(F) == [result : Seq(BatchesOf(F)), current : BatchesOf(F)]

\* The length of a stretch.
LEMMA SubSeqLen ==
  ASSUME NEW F, NEW s \in Seq(F), NEW from \in Nat, NEW to \in Nat, from < to, to <= Len(s)
  PROVE  /\ Len(SubSeq(s, from + 1, to)) = to - from
         /\ SubSeq(s, from + 1, to) # << >>
         /\ SubSeq(s, from + 1, to) \in Seq(F)
<1>1. \A k \in (from + 1)..to : s[k] \in F
  OBVIOUS
<1>2. Len(SubSeq(s, from + 1, to)) = to - (from + 1) + 1 /\ SubSeq(s, from + 1, to) \in Seq(F)
  BY <1>1, SubSeqProperties
<1>3. Len(SubSeq(s, from + 1, to)) = to - from
  BY <1>2
<1>4. Len(<< >>) = 0
  OBVIOUS
<1>5. SubSeq(s, from + 1, to) # << >>
  BY <1>3, <1>4
<1> QED
  BY <1>2, <1>3, <1>5

\* A round of BatchFiles behind the first.
LEMMA PackNext ==
  ASSUME NEW F, NEW s \in Seq(F), NEW max \in Nat, NEW sums,
         NEW i \in Nat, i > 0, i + 1 \in 1..Len(s),
         \A k \in 0..Len(s) : sums[k] \in Nat,
         sums[i + 1] = sums[i] + EstimateTokens(s[i + 1]),
         EstimateTokens(s[i + 1]) \in Nat,
         NEW packing \in PackingsOf(F), NEW ends,
         PackedTo(packing, ends, i, s, sums, max)
  PROVE  /\ Pack(packing, s[i + 1], max) \in PackingsOf(F)
         /\ \E ends2 : PackedTo(Pack(packing, s[i + 1], max), ends2, i + 1, s, sums, max)
<1> DEFINE B == BatchesOf(F)
<1>1. PICK result \in Seq(B), current \in B : packing = [result |-> result, current |-> current]
  BY DEF PackingsOf
<1>2. PICK t \in Nat : t = EstimateTokens(s[i + 1])
  OBVIOUS
<1>3. s[i + 1] \in F
  OBVIOUS
<1>4. current.files \in Seq(F) /\ current.tokens \in Nat /\ current = [files |-> current.files, tokens |-> current.tokens]
  BY <1>1 DEF BatchesOf
<1>5. current.files # << >>
  <2>1. PICK m \in Nat : m = Len(result)
    BY <1>1
  <2>2. /\ \A b \in 0..(m + 1) : ends[b] \in 0..i
        /\ \A b \in 1..(m + 1) : ends[b - 1] < ends[b]
        /\ ends[m + 1] = i
        /\ BatchIs(current, ends[m], i, s, sums, max)
    BY <1>1, <2>1 DEF PackedTo
  <2>3. ends[m] \in 0..i /\ ends[m] < i
    <3>1. m \in 0..(m + 1) /\ m + 1 \in 1..(m + 1) /\ (m + 1) - 1 = m
      BY <2>1
    <3> QED
      BY <2>2, <3>1
  <2>4. current.files = SubSeq(s, ends[m] + 1, i)
    BY <2>2 DEF BatchIs
  <2>5. PICK from \in Nat : from = ends[m] /\ from < i
    BY <2>3
  <2>6. SubSeq(s, from + 1, i) # << >>
    <3>1. i <= Len(s)
      OBVIOUS
    <3> QED
      BY <2>5, <3>1, SubSeqLen, Zenon
  <2> QED
    BY <2>4, <2>5, <2>6
<1>6. CASE current.tokens + t > max
  <2>1. Pack(packing, s[i + 1], max) =
          [result |-> Append(result, current), current |-> [files |-> <<s[i + 1]>>, tokens |-> t]]
    <3>1. StartsBatch(current, t, max)
      BY <1>5, <1>6 DEF StartsBatch
    <3>2. Append(<< >>, s[i + 1]) = <<s[i + 1]>> /\ 0 + t = t
      BY <1>3
    <3> QED
      BY <1>1, <1>2, <3>1, <3>2 DEF Pack, EmptyBatch
  <2>2. <<s[i + 1]>> \in Seq(F)
    BY <1>3
  <2>3. Append(result, current) \in Seq(B) /\ [files |-> <<s[i + 1]>>, tokens |-> t] \in B
    <3>1. [files |-> <<s[i + 1]>>, tokens |-> t] \in B
      BY <2>2 DEF BatchesOf
    <3> HIDE DEF B
    <3> QED
      BY <1>1, <3>1, AppendProperties
  <2>4. Pack(packing, s[i + 1], max) \in PackingsOf(F)
    BY <2>1, <2>3 DEF PackingsOf
  <2>5. \E ends2 : PackedTo([result |-> Append(result, current),
                             current |-> [files |-> <<s[i + 1]>>, tokens |-> t]],
                            ends2, i + 1, s, sums, max)
    <3> HIDE DEF B
    <3> QED
      BY <1>1, <1>2, <1>6, PackFull
  <2> QED
    BY <2>1, <2>4, <2>5
<1>7. CASE ~(current.tokens + t > max)
  <2>0. current.tokens + t <= max
    BY <1>4, <1>7
  <2>1. Pack(packing, s[i + 1], max) =
          [result |-> result,
           current |-> [files |-> Append(current.files, s[i + 1]), tokens |-> current.tokens + t]]
    <3>1. ~StartsBatch(current, t, max)
      BY <1>7 DEF StartsBatch
    <3> QED
      BY <1>1, <1>2, <3>1 DEF Pack
  <2>2. Append(current.files, s[i + 1]) \in Seq(F) /\ current.tokens + t \in Nat
    BY <1>3, <1>4, AppendProperties
  <2>3. [files |-> Append(current.files, s[i + 1]), tokens |-> current.tokens + t] \in B
    BY <2>2 DEF BatchesOf
  <2>4. Pack(packing, s[i + 1], max) \in PackingsOf(F)
    <3> HIDE DEF B
    <3>1. [result |-> result, current |-> [files |-> Append(current.files, s[i + 1]), tokens |-> current.tokens + t]]
            \in [result : Seq(B), current : B]
      BY <1>1, <2>3
    <3> QED
      BY <2>1, <3>1 DEF PackingsOf, B
  <2>5. \E ends2 : PackedTo([result |-> result,
                             current |-> [files |-> Append(current.files, s[i + 1]),
                                          tokens |-> current.tokens + t]],
                            ends2, i + 1, s, sums, max)
    <3> HIDE DEF B
    <3> QED
      BY <1>1, <1>2, <2>0, PackFits
  <2> QED
    BY <2>1, <2>4, <2>5
<1> QED
  BY <1>6, <1>7

\* The first round: no batch is closed, the open one takes the file.
LEMMA PackFirst ==
  ASSUME NEW F, NEW s \in Seq(F), 1 \in 1..Len(s), NEW max \in Nat, NEW sums,
         sums[0] = 0, sums[1] = sums[0] + EstimateTokens(s[1]),
         EstimateTokens(s[1]) \in Nat
  PROVE  /\ Pack(StartPacking, s[1], max) \in PackingsOf(F)
         /\ \E ends : PackedTo(Pack(StartPacking, s[1], max), ends, 1, s, sums, max)
<1> DEFINE open == [files |-> <<s[1]>>, tokens |-> EstimateTokens(s[1])]
           ends == [b \in 0..1 |-> b]
<1>1. s[1] \in F /\ <<s[1]>> \in Seq(F)
  OBVIOUS
<1>2. Pack(StartPacking, s[1], max) = [result |-> << >>, current |-> open]
  <2>1. Append(<< >>, s[1]) = <<s[1]>> /\ 0 + EstimateTokens(s[1]) = EstimateTokens(s[1])
    BY <1>1
  <2> QED
    BY <2>1 DEF Pack, StartPacking, EmptyBatch, StartsBatch
<1>3. [result |-> << >>, current |-> open] \in PackingsOf(F)
  BY <1>1 DEF PackingsOf, BatchesOf
<1>4. BatchIs(open, 0, 1, s, sums, max)
  <2>1. SubSeq(s, 0 + 1, 1) = <<s[1]>>
    <3>1. SubSeq(s, 0 + 1, 0 + 1) = <<s[0 + 1]>>
      <4>1. 0 \in 0..0 /\ 0 + 1 \in 1..Len(s)
        OBVIOUS
      <4> QED
        BY <4>1, SubSeqGrows
    <3> QED
      BY <3>1
  <2> QED
    BY <2>1 DEF BatchIs
<1>5. Len(<< >>) = 0
  OBVIOUS
<1>6. ends[0] = 0 /\ ends[1] = 1 /\ (\A b \in 0..1 : ends[b] \in 0..1) /\ \A b \in 1..1 : ends[b - 1] < ends[b]
  OBVIOUS
<1> HIDE DEF open, ends
<1>7. PackedTo([result |-> << >>, current |-> open], ends, 1, s, sums, max)
  BY <1>4, <1>5, <1>6 DEF PackedTo
<1> QED
  BY <1>2, <1>3, <1>7, Zenon

\* s, with n files, is cut into batches that end at these places; none of them
\* but the last has room for the file behind it.
CutInto(bs, ends, n, s, sums, max) ==
    /\ ends[0] = 0
    /\ ends[Len(bs)] = n
    /\ \A b \in 0..Len(bs) : ends[b] \in 0..n
    /\ \A b \in 1..Len(bs) : /\ ends[b - 1] < ends[b]
                             /\ BatchIs(bs[b], ends[b - 1], ends[b], s, sums, max)
    /\ \A b \in 1..(Len(bs) - 1) : sums[ends[b] + 1] - sums[ends[b - 1]] > max

\* With the open batch behind them the batches are a cut of all the files.
LEMMA DrainCuts ==
  ASSUME NEW F, NEW s \in Seq(F), NEW max \in Nat, NEW sums,
         NEW n \in Nat, n > 0, n = Len(s),
         NEW packing \in PackingsOf(F), NEW ends,
         PackedTo(packing, ends, n, s, sums, max)
  PROVE  /\ Drain(packing) \in Seq(BatchesOf(F))
         /\ Len(Drain(packing)) > 0
         /\ CutInto(Drain(packing), ends, n, s, sums, max)
<1> DEFINE B == BatchesOf(F)
<1>1. PICK result \in Seq(B), current \in B : packing = [result |-> result, current |-> current]
  BY DEF PackingsOf
<1>2. PICK m \in Nat : m = Len(result)
  BY <1>1
<1>3. /\ ends[0] = 0
      /\ ends[m + 1] = n
      /\ \A b \in 0..(m + 1) : ends[b] \in 0..n
      /\ \A b \in 1..(m + 1) : ends[b - 1] < ends[b]
      /\ \A b \in 1..m : /\ BatchIs(result[b], ends[b - 1], ends[b], s, sums, max)
                         /\ sums[ends[b] + 1] - sums[ends[b - 1]] > max
      /\ BatchIs(current, ends[m], n, s, sums, max)
  BY <1>1, <1>2 DEF PackedTo
<1>5. current.files # << >>
  <2>2. ends[m] < n /\ ends[m] \in 0..n /\ current.files = SubSeq(s, ends[m] + 1, n)
    BY <1>3 DEF BatchIs
  <2>5. PICK from \in Nat : from = ends[m] /\ from < n
    BY <2>2
  <2>6. SubSeq(s, from + 1, n) # << >>
    <3>1. n <= Len(s)
      OBVIOUS
    <3> QED
      BY <2>5, <3>1, SubSeqLen, Zenon
  <2> QED
    BY <2>2, <2>5, <2>6
<1>6. Drain(packing) = Append(result, current)
  BY <1>1, <1>5 DEF Drain
<1> DEFINE bs == Append(result, current)
<1>7. bs \in Seq(B) /\ Len(bs) = m + 1 /\ bs[m + 1] = current /\ \A b \in 1..m : bs[b] = result[b]
  <2> HIDE DEF B
  <2> QED
    BY <1>1, <1>2, AppendProperties
<1> HIDE DEF bs
<1>8. \A b \in 1..(m + 1) : BatchIs(bs[b], ends[b - 1], ends[b], s, sums, max)
  <2>1. \A b \in 1..(m + 1) : (b = m + 1 /\ b - 1 = m) \/ b \in 1..m
    OBVIOUS
  <2> QED
    BY <1>3, <1>7, <2>1
<1>9. CutInto(bs, ends, n, s, sums, max)
  BY <1>3, <1>7, <1>8 DEF CutInto
<1> QED
  BY <1>6, <1>7, <1>9 DEF bs

\* The tokens of the first files of s, for each number of them.
TokenSums(s, n) == SumsOf([i \in 1..n |-> EstimateTokens(s[i])])

\* BatchFiles packs the sorted files, none of them left out.
LEMMA BatchesCut ==
  ASSUME NEW F, NEW fs, NEW n \in Nat, NEW max \in Nat, NEW s \in Seq(F), s = ByTier(fs), n = Len(s),
         \A f \in F : EstimateTokens(f) \in Nat,
         NEW sums, sums = TokenSums(s, n)
  PROVE  /\ n = 0 => Batches(fs, max) = << >>
         /\ n > 0 => /\ Batches(fs, max) \in Seq(BatchesOf(F))
                     /\ Len(Batches(fs, max)) > 0
                     /\ \E ends : CutInto(Batches(fs, max), ends, n, s, sums, max)
<1>1. PICK packing : Packing(packing, s, max) /\ Batches(fs, max) = Drain(packing[n])
  BY BatchesRuns
<1>2. /\ packing[0] = StartPacking
      /\ \A i \in 1..n : packing[i] = Pack(packing[i - 1], s[i], max)
  BY <1>1 DEF Packing
<1>3. \A i \in 1..n : EstimateTokens(s[i]) \in Nat
  OBVIOUS
<1>4. PICK numbers : numbers = [i \in 1..n |-> EstimateTokens(s[i])]
  OBVIOUS
<1>5. Len(numbers) = n /\ sums = SumsOf(numbers) /\ \A i \in 1..n : numbers[i] = EstimateTokens(s[i])
  BY <1>4 DEF TokenSums
<1>6. sums[0] = 0 /\ \A i \in 1..n : sums[i] = sums[i - 1] + EstimateTokens(s[i])
  BY <1>5, SumsRun
<1>7. \A k \in 0..n : sums[k] \in Nat
  BY <1>3, <1>5, SumsGrow
<1>8. CASE n = 0
  BY <1>1, <1>2, <1>8 DEF Drain, StartPacking, EmptyBatch
<1>9. CASE n > 0
  <2> DEFINE Good(i) == packing[i] \in PackingsOf(F) /\ \E ends : PackedTo(packing[i], ends, i, s, sums, max)
             T == {i \in 0..n : i > 0 => Good(i)}
  <2>1. 0 \in T
    OBVIOUS
  <2>2. ASSUME NEW i \in 1..n, i - 1 > 0 => Good(i - 1)
        PROVE  Good(i)
    <3>1. CASE i = 1
      <4>1. packing[1] = Pack(StartPacking, s[1], max)
        BY <1>2, <3>1
      <4>2. sums[0] = 0 /\ sums[1] = sums[0] + EstimateTokens(s[1]) /\ EstimateTokens(s[1]) \in Nat /\ 1 \in 1..Len(s)
        BY <1>3, <1>6, <3>1
      <4>3. Pack(StartPacking, s[1], max) \in PackingsOf(F) /\ \E ends : PackedTo(Pack(StartPacking, s[1], max), ends, 1, s, sums, max)
        BY <4>2, PackFirst
      <4> QED
        BY <3>1, <4>1, <4>3
    <3>2. CASE i # 1
      <4>1. PICK k \in Nat : k = i - 1 /\ k > 0 /\ k + 1 = i
        BY <3>2
      <4>2. PICK ends : packing[k] \in PackingsOf(F) /\ PackedTo(packing[k], ends, k, s, sums, max)
        BY <2>2, <4>1
      <4>3. packing[k + 1] = Pack(packing[k], s[k + 1], max)
        BY <1>2, <4>1
      <4>4. /\ sums[k + 1] = sums[k] + EstimateTokens(s[k + 1])
            /\ EstimateTokens(s[k + 1]) \in Nat
            /\ k + 1 \in 1..Len(s)
            /\ \A j \in 0..Len(s) : sums[j] \in Nat
        BY <1>3, <1>6, <1>7, <4>1
      <4>5. /\ Pack(packing[k], s[k + 1], max) \in PackingsOf(F)
            /\ \E ends2 : PackedTo(Pack(packing[k], s[k + 1], max), ends2, k + 1, s, sums, max)
        BY <4>1, <4>2, <4>4, PackNext
      <4> QED
        BY <4>1, <4>3, <4>5
    <3> QED
      BY <3>1, <3>2
  <2> HIDE DEF Good
  <2>3. \A i \in 1..n : i - 1 \in T => i \in T
    BY <2>2
  <2>4. n \in T
    <3> HIDE DEF T
    <3>1. \A i \in 0..n : i \in T
      BY <2>1, <2>3, LoopInduction
    <3> QED
      BY <3>1
  <2>5. PICK ends : packing[n] \in PackingsOf(F) /\ PackedTo(packing[n], ends, n, s, sums, max)
    BY <1>9, <2>4 DEF Good
  <2>6. /\ Drain(packing[n]) \in Seq(BatchesOf(F))
        /\ Len(Drain(packing[n])) > 0
        /\ CutInto(Drain(packing[n]), ends, n, s, sums, max)
    BY <1>9, <2>5, DrainCuts
  <2>7. ~(n = 0)
    BY <1>9
  <2> QED
    BY <1>1, <1>9, <2>6, <2>7, Zenon
<1>10. n = 0 \/ n > 0
  OBVIOUS
<1> QED
  BY <1>8, <1>9, <1>10

\* The batches, one behind the other, are the sorted files.
LEMMA CutFlattens ==
  ASSUME NEW F, NEW s \in Seq(F), NEW n \in Nat, n = Len(s), NEW bs \in Seq(BatchesOf(F)), Len(bs) > 0,
         NEW ends, NEW sums, NEW max, CutInto(bs, ends, n, s, sums, max)
  PROVE  FlattenSeq([b \in DOMAIN bs |-> bs[b].files]) = s
<1>1. PICK m \in Nat \ {0} : m = Len(bs) /\ DOMAIN bs = 1..m
  OBVIOUS
<1> DEFINE seqs == [b \in 1..m |-> bs[b].files]
<1>2. Len(seqs) = m /\ \A b \in 1..m : seqs[b] = bs[b].files
  BY <1>1
<1> HIDE DEF seqs
<1>3. PICK flat : /\ flat[1] = seqs[1]
                  /\ \A i \in 2..m : flat[i] = flat[i - 1] \o seqs[i]
                  /\ FlattenSeq(seqs) = flat[m]
  BY <1>1, <1>2, FlattenRuns
<1>4. /\ ends[0] = 0
      /\ ends[m] = n
      /\ \A b \in 0..m : ends[b] \in 0..n
      /\ \A b \in 1..m : ends[b - 1] < ends[b] /\ seqs[b] = SubSeq(s, ends[b - 1] + 1, ends[b])
  BY <1>1, <1>2 DEF CutInto, BatchIs
<1> DEFINE T == {i \in 0..m : i > 0 => flat[i] = SubSeq(s, 1, ends[i])}
<1>5. 0 \in T
  OBVIOUS
<1>6. ASSUME NEW i \in 1..m, i - 1 \in T
      PROVE  i \in T
  <2>1. CASE i = 1
    <3>1. flat[1] = SubSeq(s, ends[1 - 1] + 1, ends[1])
      BY <1>1, <1>3, <1>4
    <3>2. ends[1 - 1] + 1 = 1
      BY <1>4
    <3> QED
      BY <2>1, <3>1, <3>2
  <2>2. CASE i # 1
    <3>1. i \in 2..m /\ i - 1 \in 0..m /\ i - 1 > 0
      BY <1>1, <2>2
    <3>2. flat[i] = SubSeq(s, 1, ends[i - 1]) \o SubSeq(s, ends[i - 1] + 1, ends[i])
      BY <1>3, <1>4, <1>6, <3>1
    <3>3. PICK k \in Nat, e \in Nat : k = ends[i - 1] /\ e = ends[i] /\ k < e /\ e <= n
      BY <1>1, <1>4, <3>1
    <3>4. SubSeq(s, 1, k) \o SubSeq(s, k + 1, e) = SubSeq(s, 1, e)
      <4>1. 1 \in 1..(Len(s) + 1) /\ k \in (1 - 1)..Len(s) /\ e \in k..Len(s)
        BY <3>3
      <4> QED
        BY <4>1, ConcatAdjacentSubSeq
    <3>5. flat[i] = SubSeq(s, 1, ends[i])
      BY <3>2, <3>3, <3>4
    <3> QED
      BY <3>5
  <2> QED
    BY <2>1, <2>2
<1>7. m \in T
  <2>1. \A i \in 1..m : i - 1 \in T => i \in T
    BY <1>6
  <2> HIDE DEF T
  <2>2. \A i \in 0..m : i \in T
    BY <1>1, <1>5, <2>1, LoopInduction
  <2> QED
    BY <1>1, <2>2
<1>8. FlattenSeq(seqs) = SubSeq(s, 1, Len(s))
  BY <1>1, <1>3, <1>4, <1>7
<1>9. FlattenSeq(seqs) = s
  BY <1>8, SubSeqFull
<1> QED
  BY <1>1, <1>9 DEF seqs

\* They end where the sums of their sizes say.
SizesOf(bs) == [b \in DOMAIN bs |-> Len(bs[b].files)]

\* None of them is empty, and they end where the sums of their sizes say.
LEMMA CutEnds ==
  ASSUME NEW F, NEW s \in Seq(F), NEW n \in Nat, n = Len(s), NEW bs \in Seq(BatchesOf(F)),
         NEW ends, NEW sums, NEW max, CutInto(bs, ends, n, s, sums, max)
  PROVE  /\ \A b \in 1..Len(bs) : SizesOf(bs)[b] > 0
         /\ \A b \in 0..Len(bs) : SumsOf(SizesOf(bs))[b] = ends[b]
<1>1. PICK m \in Nat : m = Len(bs) /\ DOMAIN bs = 1..m
  OBVIOUS
<1> DEFINE sizes == [b \in 1..m |-> Len(bs[b].files)]
<1>2. Len(sizes) = m /\ \A b \in 1..m : sizes[b] = Len(bs[b].files)
  BY <1>1
<1>3. /\ ends[0] = 0
      /\ \A b \in 0..m : ends[b] \in 0..n
      /\ \A b \in 1..m : ends[b - 1] < ends[b] /\ bs[b].files = SubSeq(s, ends[b - 1] + 1, ends[b])
  BY <1>1 DEF CutInto, BatchIs
<1>4. ASSUME NEW b \in 1..m
      PROVE  sizes[b] = ends[b] - ends[b - 1] /\ sizes[b] > 0
  <2>1. PICK k \in Nat, e \in Nat : k = ends[b - 1] /\ e = ends[b] /\ k < e /\ e <= Len(s)
    BY <1>1, <1>3
  <2>2. Len(SubSeq(s, k + 1, e)) = e - k
    BY <2>1, SubSeqLen, Zenon
  <2>3. sizes[b] = e - k
    BY <1>2, <1>3, <2>1, <2>2
  <2> HIDE DEF sizes
  <2> QED
    BY <2>1, <2>3
<1> HIDE DEF sizes
<1>5. PICK sums2 : sums2 = SumsOf(sizes)
  OBVIOUS
<1>6. sums2[0] = 0 /\ \A i \in 1..m : sums2[i] = sums2[i - 1] + sizes[i]
  BY <1>1, <1>2, <1>5, SumsRun
<1> DEFINE T == {i \in 0..m : sums2[i] = ends[i]}
<1>7. 0 \in T
  BY <1>1, <1>3, <1>6
<1>8. ASSUME NEW i \in 1..m, i - 1 \in T
      PROVE  i \in T
  <2>1. sums2[i] = ends[i - 1] + (ends[i] - ends[i - 1])
    BY <1>4, <1>6, <1>8
  <2>2. ends[i] \in Nat /\ ends[i - 1] \in Nat
    BY <1>1, <1>3
  <2> QED
    BY <1>1, <2>1, <2>2
<1>9. \A i \in 0..m : i \in T
  <2>1. \A i \in 1..m : i - 1 \in T => i \in T
    BY <1>8
  <2> HIDE DEF T
  <2> QED
    BY <1>1, <1>7, <2>1, LoopInduction
<1>10. \A b \in 0..m : sums2[b] = ends[b]
  BY <1>9
<1>11. SizesOf(bs) = sizes
  BY <1>1 DEF SizesOf, sizes
<1>12. \A b \in 0..m : SumsOf(SizesOf(bs))[b] = ends[b]
  BY <1>5, <1>10, <1>11
<1> QED
  BY <1>1, <1>4, <1>11, <1>12

\* Places that rise stay in order.
LEMMA EndsRise ==
  ASSUME NEW m \in Nat, NEW ends, \A b \in 0..m : ends[b] \in Nat,
         \A b \in 1..m : ends[b - 1] < ends[b]
  PROVE  \A b \in 0..m, c \in 0..m : b < c => ends[b] < ends[c]
<1> DEFINE Good(i) == \A b \in 0..i : b < i => ends[b] < ends[i]
           T == {i \in 0..m : Good(i)}
<1>1. 0 \in T
  OBVIOUS
<1>2. ASSUME NEW i \in 1..m, Good(i - 1)
      PROVE  Good(i)
  <2>1. \A b \in 0..i : b < i => b = i - 1 \/ (b \in 0..(i - 1) /\ b < i - 1)
    OBVIOUS
  <2>2. \A b \in 0..i : ends[b] \in Nat
    OBVIOUS
  <2>3. ends[i - 1] < ends[i] /\ i - 1 \in 0..i
    OBVIOUS
  <2> QED
    BY <1>2, <2>1, <2>2, <2>3
<1>3. \A i \in 0..m : Good(i)
  <2> HIDE DEF Good
  <2>1. \A i \in 1..m : i - 1 \in T => i \in T
    BY <1>2
  <2> HIDE DEF T
  <2>2. \A i \in 0..m : i \in T
    BY <1>1, <2>1, LoopInduction
  <2> QED
    BY <2>2 DEF T
<1> QED
  BY <1>3

\* A set of naturals that is not empty and has a bound has a greatest member.
LEMMA GreatestMember ==
  ASSUME NEW T \in SUBSET Nat, T # {}, NEW n \in Nat, \A x \in T : x <= n
  PROVE  \E x \in T : \A y \in T : y <= x
<1> DEFINE U == {n - x : x \in T}
<1>1. U \in SUBSET Nat /\ U # {}
  <2>1. \A x \in T : n - x \in Nat
    OBVIOUS
  <2>2. U \in SUBSET Nat
    BY <2>1
  <2>3. PICK x \in T : TRUE
    OBVIOUS
  <2>4. n - x \in U
    BY <2>3
  <2> QED
    BY <2>2, <2>4
<1> HIDE DEF U
<1>2. PICK u \in U : \A v \in U : u <= v
  BY <1>1, LeastMember
<1> USE DEF U
<1>3. PICK x \in T : u = n - x
  BY <1>2
<1>4. ASSUME NEW y \in T PROVE y <= x
  <2>1. n - y \in U
    OBVIOUS
  <2>2. u <= n - y
    BY <1>2, <2>1
  <2> QED
    BY <1>3, <2>2
<1> QED
  BY <1>3, <1>4

\* A cut of n files, of these sums of tokens, into batches in the budget: Legal
\* for any files.
LegalCut(cut, n, sums, max) ==
    \A from \in {1} \cup {e + 1 : e \in cut}, to \in cut \cup {n} :
        from < to /\ (\A e \in cut : e < from \/ e >= to)
            => sums[to] - sums[from - 1] <= max

\* The ends of m batches of n files.
EndsOf(ends, m, n) ==
    /\ ends[0] = 0
    /\ ends[m] = n
    /\ \A b \in 0..m : ends[b] \in 0..n
    /\ \A b \in 1..m : ends[b - 1] < ends[b]

\* Batches in the budget, or of one file, are a legal cut.
LEMMA OwnCutLegal ==
  ASSUME NEW m \in Nat \ {0}, NEW n \in Nat, NEW ends, EndsOf(ends, m, n), NEW sums, NEW max,
         \A b \in 1..m : sums[ends[b]] - sums[ends[b - 1]] <= max \/ ends[b] = ends[b - 1] + 1
  PROVE  LegalCut({ends[b] : b \in 1..(m - 1)}, n, sums, max)
<1> DEFINE cut == {ends[b] : b \in 1..(m - 1)}
<1>1. \A b \in 0..m : ends[b] \in Nat
  BY DEF EndsOf
<1>2. \A b, c \in 0..m : b < c => ends[b] < ends[c]
  BY <1>1, EndsRise DEF EndsOf
<1> SUFFICES ASSUME NEW from \in {1} \cup {e + 1 : e \in cut}, NEW to \in cut \cup {n},
                    from < to, \A e \in cut : e < from \/ e >= to
             PROVE  sums[to] - sums[from - 1] <= max
  BY DEF LegalCut
<1>3. PICK b \in 1..m : from = ends[b - 1] + 1
  <2>1. CASE from = 1
    <3>1. 1 \in 1..m /\ ends[1 - 1] + 1 = 1
      BY DEF EndsOf
    <3> QED
      BY <2>1, <3>1
  <2>2. CASE from # 1
    <3>1. PICK c \in 1..(m - 1) : from = ends[c] + 1
      BY <2>2
    <3>2. c + 1 \in 1..m /\ (c + 1) - 1 = c
      OBVIOUS
    <3> QED
      BY <3>1, <3>2
  <2> QED
    BY <2>1, <2>2
<1>4. PICK c \in 1..m : to = ends[c]
  <2>1. CASE to = n
    BY <2>1 DEF EndsOf
  <2>2. CASE to # n
    <3>1. PICK k \in 1..(m - 1) : to = ends[k]
      BY <2>2
    <3> QED
      BY <3>1
  <2> QED
    BY <2>1, <2>2
<1>5. b - 1 \in 0..m /\ b \in 0..m /\ c \in 0..m
  BY <1>3, <1>4
<1>6. ends[b - 1] \in Nat /\ ends[b] \in Nat /\ ends[c] \in Nat /\ from - 1 = ends[b - 1] /\ ends[b - 1] < ends[b]
  BY <1>1, <1>3, <1>5 DEF EndsOf
<1>7. b - 1 < c
  <2>1. c = b - 1 \/ c < b - 1 => FALSE
    BY <1>2, <1>3, <1>4, <1>5, <1>6
  <2> QED
    BY <1>5, <2>1
<1>8. ~(b < c)
  <2> SUFFICES ASSUME b < c PROVE FALSE
    OBVIOUS
  <2>1. ends[b] \in cut
    <3>1. b \in 1..(m - 1)
      BY <1>3, <1>4
    <3> QED
      BY <3>1
  <2>2. ends[b] < ends[c]
    BY <1>2, <1>5
  <2>3. ends[b] < from \/ ends[b] >= to
    BY <2>1
  <2> QED
    BY <1>3, <1>4, <1>6, <2>2, <2>3
<1>9. b = c
  BY <1>5, <1>7, <1>8
<1>10. ends[b] # ends[b - 1] + 1
  BY <1>3, <1>4, <1>6, <1>9
<1> QED
  BY <1>4, <1>6, <1>9, <1>10

\* Any cut in the budget has a member in the place of each batch that has no
\* room for the file behind it.
LEMMA CutMeetsBatch ==
  ASSUME NEW n \in Nat, NEW cut \in SUBSET (1..(n - 1)), NEW sums, NEW max \in Nat,
         \A k \in 0..n : sums[k] \in Nat,
         \A i \in 0..n, k \in 0..n : i <= k => sums[i] <= sums[k],
         LegalCut(cut, n, sums, max),
         NEW lo \in 0..n, NEW hi \in 0..n, lo < hi, hi < n,
         sums[hi + 1] - sums[lo] > max
  PROVE  \E e \in cut : lo < e /\ e <= hi
<1> SUFFICES ASSUME \A e \in cut : e <= lo \/ hi < e PROVE FALSE
  BY DEF LegalCut
<1>0. \A e \in cut : e \in Nat /\ e > 0 /\ e < n
  OBVIOUS
<1>1. PICK before \in {0} \cup cut : before <= lo /\ \A e \in cut : e <= lo => e <= before
  <2> DEFINE U == {e \in {0} \cup cut : e <= lo}
  <2>1. U \in SUBSET Nat /\ 0 \in U /\ \A x \in U : x <= lo
    <3>1. \A x \in U : x \in Nat /\ x <= lo
      BY <1>0
    <3>2. 0 <= lo
      OBVIOUS
    <3> QED
      BY <3>1, <3>2
  <2>2. PICK x \in U : \A y \in U : y <= x
    <3> HIDE DEF U
    <3>1. U # {} /\ lo \in Nat
      BY <2>1
    <3> QED
      BY <2>1, <3>1, GreatestMember
  <2> QED
    BY <2>2
<1>2. PICK behind \in {n} \cup cut : hi < behind /\ \A e \in cut : hi < e => behind <= e
  <2> DEFINE U == {e \in {n} \cup cut : hi < e}
  <2>1. U \in SUBSET Nat /\ n \in U
    BY <1>0
  <2>2. PICK x \in U : \A y \in U : x <= y
    <3> HIDE DEF U
    <3> QED
      BY <2>1, LeastMember
  <2> QED
    BY <2>2
<1>3. before \in 0..n /\ behind \in 0..n
  BY <1>0, <1>1, <1>2
<1>4. before + 1 \in {1} \cup {e + 1 : e \in cut} /\ behind \in cut \cup {n}
  BY <1>1, <1>2
<1>5. before + 1 < behind /\ (before + 1) - 1 = before
  BY <1>1, <1>2, <1>3
<1>6. \A e \in cut : e < before + 1 \/ e >= behind
  BY <1>0, <1>1, <1>2, <1>3
<1>7. sums[behind] - sums[before] <= max
  BY <1>4, <1>5, <1>6 DEF LegalCut
<1>8. sums[hi + 1] <= sums[behind] /\ sums[before] <= sums[lo]
  <2>1. hi + 1 \in 0..n /\ hi + 1 <= behind
    BY <1>2, <1>3
  <2> QED
    BY <1>1, <1>3, <2>1
<1>9. sums[hi + 1] \in Nat /\ sums[behind] \in Nat /\ sums[before] \in Nat /\ sums[lo] \in Nat
  BY <1>3
<1> QED
  BY <1>7, <1>8, <1>9

\* So it has as many batches.
LEMMA FewestBatches ==
  ASSUME NEW m \in Nat \ {0}, NEW n \in Nat, NEW ends, EndsOf(ends, m, n), NEW sums, NEW max \in Nat,
         \A k \in 0..n : sums[k] \in Nat,
         \A i \in 0..n, k \in 0..n : i <= k => sums[i] <= sums[k],
         \A b \in 1..(m - 1) : sums[ends[b] + 1] - sums[ends[b - 1]] > max,
         NEW cut \in SUBSET (1..(n - 1)), LegalCut(cut, n, sums, max)
  PROVE  Cardinality(cut) + 1 >= m
<1>1. \A b \in 0..m : ends[b] \in Nat /\ ends[b] \in 0..n
  BY DEF EndsOf
<1>2. \A b, c \in 0..m : b < c => ends[b] < ends[c]
  BY <1>1, EndsRise DEF EndsOf
<1>3. ASSUME NEW b \in 1..(m - 1)
      PROVE  \E e \in cut : ends[b - 1] < e /\ e <= ends[b]
  <2>1. PICK lo \in 0..n, hi \in 0..n : lo = ends[b - 1] /\ hi = ends[b]
    BY <1>1
  <2>2. lo < hi /\ hi < n /\ sums[hi + 1] - sums[lo] > max
    <3>1. b \in 0..m /\ b - 1 \in 0..m /\ m \in 0..m /\ b - 1 < b /\ b < m
      OBVIOUS
    <3>2. ends[m] = n
      BY DEF EndsOf
    <3> QED
      BY <1>2, <2>1, <3>1, <3>2
  <2>3. \E e \in cut : lo < e /\ e <= hi
    BY <2>2, CutMeetsBatch
  <2> QED
    BY <2>1, <2>3
<1> DEFINE member == [b \in 1..(m - 1) |-> CHOOSE e \in cut : ends[b - 1] < e /\ e <= ends[b]]
<1>4. \A b \in 1..(m - 1) : member[b] \in cut /\ ends[b - 1] < member[b] /\ member[b] <= ends[b]
  BY <1>3
<1>5. member \in [1..(m - 1) -> cut]
  BY <1>4
<1> HIDE DEF member
<1>6. ASSUME NEW b \in 1..(m - 1), NEW c \in 1..(m - 1), b < c
      PROVE  member[b] # member[c]
  <2>1. b \in 0..m /\ c - 1 \in 0..m /\ (b = c - 1 \/ b < c - 1)
    BY <1>6
  <2>2. ends[b] <= ends[c - 1] /\ ends[b] \in Nat /\ ends[c - 1] \in Nat
    BY <1>1, <1>2, <2>1
  <2>3. member[b] \in Nat /\ member[c] \in Nat
    <3>1. cut \subseteq Nat
      OBVIOUS
    <3>2. member[b] \in cut /\ member[c] \in cut
      BY <1>4
    <3> QED
      BY <3>1, <3>2
  <2> QED
    BY <1>4, <2>2, <2>3
<1>7. \A b, c \in 1..(m - 1) : member[b] = member[c] => b = c
  <2>1. \A b, c \in 1..(m - 1) : b = c \/ b < c \/ c < b
    OBVIOUS
  <2> QED
    BY <1>6, <2>1
<1>8. member \in Injection(1..(m - 1), cut)
  BY <1>5, <1>7 DEF Injection, IsInjective
<1>9. IsFiniteSet(cut)
  <2>1. IsFiniteSet(1..(n - 1))
    BY FS_Interval
  <2> QED
    BY <2>1, FS_Subset
<1>10. Cardinality(1..(m - 1)) <= Cardinality(cut) /\ Cardinality(cut) \in Nat
  BY <1>8, <1>9, FS_Injection, FS_CardinalityType
<1>11. Cardinality(1..(m - 1)) = m - 1
  <2>1. m - 1 \in Int /\ (IF 1 > m - 1 THEN 0 ELSE (m - 1) - 1 + 1) = m - 1
    OBVIOUS
  <2> QED
    BY <2>1, FS_Interval
<1> QED
  BY <1>10, <1>11

\* What BatchFiles returns for files of any size and tier.
LEMMA BatchesRight ==
  ASSUME NEW n \in Nat, NEW fs, DOMAIN fs = 1..n, NEW max \in Nat,
         \A i \in 1..n : fs[i].tier \in Nat /\ fs[i].bytes \in Nat
  PROVE  /\ n = 0 => Batches(fs, max) = << >>
         /\ n > 0 => \E F : \E s \in Seq(F) : \E ends :
              /\ s = ByTier(fs)
              /\ Len(s) = n
              /\ \A f \in F : EstimateTokens(f) \in Nat
              /\ Batches(fs, max) \in Seq(BatchesOf(F))
              /\ Len(Batches(fs, max)) > 0
              /\ CutInto(Batches(fs, max), ends, n, s, TokenSums(s, n), max)
<1>1. PICK F : F = {fs[i] : i \in 1..n}
  OBVIOUS
<1>3. \A f \in F : EstimateTokens(f) \in Nat
  <2>1. \A k \in Nat : k \div 4 \in Nat
    OBVIOUS
  <2> QED
    BY <1>1, <2>1 DEF EstimateTokens
<1>4. PICK from \in [1..n -> 1..n] :
           /\ ByTier(fs) = [k \in 1..n |-> fs[from[k]]]
           /\ \A i \in 1..n : \E k \in 1..n : from[k] = i
           /\ \A i, k \in 1..n : i < k => Sooner(fs, from[i], from[k])
  <2>1. \A i \in 1..n : fs[i].tier \in Nat
    OBVIOUS
  <2> QED
    BY <2>1, ByTierSorts, Zenon
<1>5. PICK s \in Seq(F) : s = ByTier(fs) /\ Len(s) = n
  <2>1. \A k \in 1..n : fs[from[k]] \in F
    BY <1>1, <1>4
  <2>2. ByTier(fs) \in [1..n -> F]
    BY <1>4, <2>1
  <2>3. \A s \in [1..n -> F] : s \in Seq(F) /\ Len(s) = n
    OBVIOUS
  <2> QED
    BY <2>2, <2>3
<1>6. PICK sums : sums = TokenSums(s, n)
  OBVIOUS
<1>7. /\ n = 0 => Batches(fs, max) = << >>
      /\ n > 0 => /\ Batches(fs, max) \in Seq(BatchesOf(F))
                  /\ Len(Batches(fs, max)) > 0
                  /\ \E ends : CutInto(Batches(fs, max), ends, n, s, sums, max)
  BY <1>3, <1>5, <1>6, BatchesCut, Zenon
<1> QED
  BY <1>3, <1>5, <1>6, <1>7, Zenon

=============================================================================
