------------------------- MODULE SessionListProofs -------------------------
(***************************************************************************)
(* What a client gets that reads page after page, and what a listed tree   *)
(* holds, for every archive and filter, every limit of a page and any      *)
(* number of passes, user actions and ticks between two pages.             *)
(* At the end, what the reports show of an archive: theorems about         *)
(* Dashboard, for every archive, window, zone and filter.                  *)
(***************************************************************************)
EXTENDS SessionList, Dashboard, FiniteSetTheorems, SequenceTheorems, WellFoundedInduction, TLAPS
USE DEF links

-----------------------------------------------------------------------------
(* Sorting.                                                                *)

(* "before" says of each element of a set which ones come before it.       *)
Orders(before, S) ==
    /\ before \in [S -> SUBSET S]
    /\ \A x \in S : x \notin before[x]
    /\ \A x, y \in S : x \in before[y] => before[x] \subseteq before[y]
    /\ \A x, y \in S : x # y => x \in before[y] \/ y \in before[x]

Sorts(seq, before, S) ==
    /\ seq \in Seq(S) /\ Len(seq) = Cardinality(S)
    /\ \A x \in S : \E i \in 1..Len(seq) : seq[i] = x
    /\ \A i, j \in 1..Len(seq) : i < j <=> seq[i] \in before[seq[j]]

LEMMA InOrderSorts ==
    ASSUME NEW S, IsFiniteSet(S), NEW before, Orders(before, S)
    PROVE  Sorts(InOrder(S, before), before, S)
<1> DEFINE n == Cardinality(S)
           rank == [x \in S |-> Cardinality(before[x]) + 1]
           seq == InOrder(S, before)
<1>1. n \in Nat /\ \A x \in S : IsFiniteSet(before[x]) /\ Cardinality(before[x]) \in Nat
  BY FS_CardinalityType, FS_Subset DEF Orders
<1>2. ASSUME NEW x \in S PROVE Cardinality(before[x]) < n
  <2>1. before[x] \in SUBSET S /\ before[x] # S
    BY DEF Orders
  <2> QED  BY <1>1, <2>1, FS_Subset
<1>3. ASSUME NEW x \in S, NEW y \in S, x \in before[y]
      PROVE  Cardinality(before[x]) < Cardinality(before[y])
  <2>1. before[x] \in SUBSET before[y] /\ before[x] # before[y]
    BY <1>3 DEF Orders
  <2> QED  BY <1>1, <2>1, FS_Subset
<1>4. rank \in Injection(S, 1..n)
  <2>1. rank \in [S -> 1..n]
    BY <1>1, <1>2
  <2>2. ASSUME NEW x \in S, NEW y \in S, x # y PROVE rank[x] # rank[y]
    <3>1. x \in before[y] \/ y \in before[x]
      BY <2>2 DEF Orders
    <3> QED  BY <1>1, <1>3, <3>1
  <2> QED  BY <2>1, <2>2 DEF Injection, IsInjective
<1>5. IsFiniteSet(1..n) /\ Cardinality(1..n) = n
  BY <1>1, FS_Interval
<1>6. rank \in Surjection(S, 1..n)
  BY <1>4, <1>5, FS_Injection
<1>7. ASSUME NEW i \in 1..n PROVE \E x \in S : Cardinality(before[x]) = i - 1
  <2>1. PICK x \in S : rank[x] = i
    BY <1>6 DEF Surjection
  <2> QED  BY <1>1, <2>1
<1>8. \A i \in 1..n : seq[i] \in S /\ Cardinality(before[seq[i]]) = i - 1
  BY <1>7 DEF InOrder
<1>9. seq = [i \in 1..n |-> seq[i]]
  BY DEF InOrder
<1> HIDE DEF seq
<1>10. seq \in Seq(S) /\ Len(seq) = n
  BY <1>1, <1>8, <1>9
<1>11. ASSUME NEW x \in S PROVE \E i \in 1..n : seq[i] = x
  <2>1. Cardinality(before[x]) + 1 \in 1..n
    BY <1>1, <1>2
  <2>2. PICK i \in 1..n : i = Cardinality(before[x]) + 1
    BY <2>1
  <2>3. rank[seq[i]] = rank[x] /\ seq[i] \in S
    BY <1>1, <1>8, <2>2
  <2> QED  BY <1>4, <2>3 DEF Injection, IsInjective
<1>12. ASSUME NEW i \in 1..n, NEW j \in 1..n PROVE i < j <=> seq[i] \in before[seq[j]]
  <2>1. seq[i] \in S /\ seq[j] \in S /\ Cardinality(before[seq[i]]) = i - 1
        /\ Cardinality(before[seq[j]]) = j - 1
    BY <1>8
  <2>2. seq[i] = seq[j] \/ seq[i] \in before[seq[j]] \/ seq[j] \in before[seq[i]]
    BY <2>1 DEF Orders
  <2>3. seq[i] \in before[seq[j]] => i - 1 < j - 1
    BY <1>3, <2>1
  <2>4. seq[j] \in before[seq[i]] => j - 1 < i - 1
    BY <1>3, <2>1
  <2>5. seq[i] = seq[j] => i - 1 = j - 1
    BY <2>1
  <2> QED  BY <2>2, <2>3, <2>4, <2>5
<1> QED  BY <1>10, <1>11, <1>12 DEF Sorts, seq

(* A page has what is sorted first, each once.                             *)
LEMMA FirstOfSorted ==
    ASSUME NEW S, NEW before, Orders(before, S), NEW seq, Sorts(seq, before, S)
    PROVE  LET shown == FirstPage(seq) IN
           /\ shown \in Seq(S) /\ Len(shown) = Shortest(Len(seq), PageSize)
           /\ \A i \in 1..Len(shown) : shown[i] = seq[i]
           /\ \A i, j \in 1..Len(shown) : i < j <=> shown[i] \in before[shown[j]]
           /\ Len(seq) <= PageSize => shown = seq
           /\ Len(shown) = 0 => S = {}
           /\ Len(shown) > 0 =>
                 \A x \in S : (\E i \in 1..Len(shown) : shown[i] = x) <=> shown[Len(shown)] \notin before[x]
<1> DEFINE shown == FirstPage(seq)
           m == Shortest(Len(seq), PageSize)
<1>1. seq \in Seq(S) /\ Len(seq) \in Nat /\ PageSize \in Nat /\ PageSize >= 1
  BY ListAssumption, LenProperties DEF Sorts
<1>2. m \in Nat /\ m <= Len(seq) /\ m <= PageSize /\ (m = Len(seq) \/ m = PageSize)
  BY <1>1 DEF Shortest
<1>3. shown \in Seq(S) /\ Len(shown) = m /\ \A i \in 1..m : shown[i] = seq[i]
  BY <1>1, <1>2 DEF FirstPage
<1> HIDE DEF shown
<1>4. \A i, j \in 1..m : i < j <=> shown[i] \in before[shown[j]]
  BY <1>1, <1>2, <1>3 DEF Sorts
<1>5. Len(seq) <= PageSize => shown = seq
  BY <1>1, <1>2, <1>3, SeqEqual
<1>6. m = 0 => S = {}
  BY <1>1, <1>2 DEF Sorts
<1>7. ASSUME m > 0, NEW x \in S
      PROVE  (\E i \in 1..m : shown[i] = x) <=> shown[m] \notin before[x]
  <2>1. PICK k \in 1..Len(seq) : seq[k] = x
    BY DEF Sorts
  <2>2. shown[m] \in before[x] <=> m < k
    BY <1>1, <1>2, <1>3, <1>7, <2>1 DEF Sorts
  <2>3. ASSUME NEW i \in 1..m, shown[i] = x PROVE i = k
    <3>1. seq[i] = seq[k] /\ i \in 1..Len(seq) /\ seq[i] \in S
      BY <1>1, <1>2, <1>3, <2>1, <2>3
    <3>2. seq[i] \notin before[seq[k]] /\ seq[k] \notin before[seq[i]]
      BY <3>1 DEF Orders
    <3> QED  BY <1>1, <3>1, <3>2 DEF Sorts
  <2> QED  BY <1>1, <1>2, <1>3, <1>7, <2>1, <2>2, <2>3
<1> QED  BY <1>1, <1>2, <1>3, <1>4, <1>5, <1>6, <1>7 DEF shown

-----------------------------------------------------------------------------
(* The tree of a filter.                                                   *)

LEMMA SmallestExists ==
    ASSUME NEW S \in SUBSET Nat, S # {}
    PROVE  \E m \in S : \A x \in S : m <= x
<1>1. PICK m \in S : \A u \in S : ~(<<u, m>> \in OpToRel(<, Nat))
  BY WFMin, NatLessThanWellFounded
<1>2. \A u \in S : ~(u < m)
  BY <1>1 DEF OpToRel
<1> QED  BY <1>2

Matched(f) == {s \in Sessions : RootMatch(f, s)}
Grown(above) == above \cup {s \in Sessions : Visible(rows[s]) /\ rows[s].parent \in above}
Size == Cardinality(Sessions)

(* The levels of a tree of n levels.                                       *)
Levels(level, f, n) ==
    level = [i \in 0..n |-> IF i = 0 THEN Matched(f) ELSE Grown(level[i - 1])]

LEMMA LevelsExist == ASSUME NEW f PROVE \E level : Levels(level, f, Size)
<1> DEFINE Bad == {n \in 0..Size : ~\E level : Levels(level, f, n)}
<1>1. Size \in Nat
  BY ListAssumption, FS_CardinalityType DEF Size
<1>2. ASSUME Bad # {} PROVE FALSE
  <2>1. Bad \in SUBSET Nat
    BY <1>1
  <2>2. PICK m \in Bad : \A x \in Bad : m <= x
    BY <1>2, <2>1, SmallestExists
  <2>3. m \in 0..Size /\ m \in Nat
    BY <1>1
  <2>4. ~\E level : Levels(level, f, m)
    OBVIOUS
  <2>5. m # 0
    <3>1. ASSUME m = 0 PROVE FALSE
      <4> DEFINE g == [i \in 0..m |-> Matched(f)]
      <4>1. Levels(g, f, m)
        BY <3>1 DEF Levels
      <4> QED  BY <2>4, <4>1
    <3> QED  BY <3>1
  <2>6. m - 1 \in 0..Size /\ m - 1 \notin Bad
    BY <1>1, <2>2, <2>3, <2>5
  <2>7. PICK h : Levels(h, f, m - 1)
    BY <2>6
  <2> DEFINE g == [i \in 0..m |-> IF i = m THEN Grown(h[m - 1]) ELSE h[i]]
  <2>8. \A i \in 0..(m - 1) : h[i] = IF i = 0 THEN Matched(f) ELSE Grown(h[i - 1])
    BY <2>7 DEF Levels
  <2>9. ASSUME NEW i \in 0..m PROVE g[i] = IF i = 0 THEN Matched(f) ELSE Grown(g[i - 1])
    <3>1. CASE i = m
      <4>1. i - 1 \in 0..m /\ i - 1 # m /\ i # 0
        BY <2>3, <2>5, <3>1
      <4>2. g[i] = Grown(h[m - 1]) /\ g[i - 1] = h[i - 1]
        BY <3>1, <4>1
      <4> QED  BY <3>1, <4>1, <4>2
    <3>2. CASE i # m
      <4>1. i \in 0..(m - 1) /\ (i # 0 => i - 1 \in 0..m /\ i - 1 # m)
        BY <2>3, <3>2
      <4>2. g[i] = h[i] /\ (i # 0 => g[i - 1] = h[i - 1])
        BY <3>2, <4>1
      <4> QED  BY <2>8, <4>1, <4>2
    <3> QED  BY <3>1, <3>2
  <2>10. g = [i \in 0..m |-> IF i = 0 THEN Matched(f) ELSE Grown(g[i - 1])]
    <3>1. g = [i \in 0..m |-> g[i]]
      OBVIOUS
    <3> HIDE DEF g
    <3> QED  BY <2>9, <3>1
  <2> QED  BY <2>4, <2>10 DEF Levels
<1>3. Size \in 0..Size
  BY <1>1
<1> QED  BY <1>2, <1>3

LEMMA TreeIsLast == ASSUME NEW f PROVE \E level : Levels(level, f, Size) /\ Tree(f) = level[Size]
<1> DEFINE level[n \in 0..Size] == IF n = 0 THEN Matched(f) ELSE Grown(level[n - 1])
<1>1. level = CHOOSE g : Levels(g, f, Size)
  BY DEF Levels
<1>2. Levels(level, f, Size)
  BY <1>1, LevelsExist
<1>3. Tree(f) = level[Size]
  BY DEF Tree, Size, Matched, Grown
<1> QED  BY <1>2, <1>3

(* What the levels are made of: each takes in the one before, and the last *)
(* one has nothing below it left, since there are not more levels that add *)
(* a session than sessions.                                                *)
LEMMA LevelsGrow ==
    ASSUME NEW f, NEW level, Levels(level, f, Size)
    PROVE  /\ Size \in Nat /\ level[0] = Matched(f)
           /\ \A n \in 0..Size : level[n] \subseteq Sessions /\ level[n] \subseteq level[Size]
           /\ \A n \in 1..Size : level[n] = Grown(level[n - 1])
           /\ Grown(level[Size]) = level[Size]
<1>1. Size \in Nat /\ IsFiniteSet(Sessions)
  BY ListAssumption, FS_CardinalityType DEF Size
<1>2. level[0] = Matched(f) /\ \A n \in 1..Size : level[n] = Grown(level[n - 1])
  <2>1. \A n \in 0..Size : level[n] = IF n = 0 THEN Matched(f) ELSE Grown(level[n - 1])
    BY DEF Levels
  <2> QED  BY <1>1, <2>1
<1>3. \A n \in 0..Size : level[n] \subseteq Sessions
  <2> DEFINE Bad == {n \in 0..Size : ~(level[n] \subseteq Sessions)}
  <2>1. ASSUME Bad # {} PROVE FALSE
    <3>0. Bad \in SUBSET Nat
      BY <1>1
    <3>1. PICK m \in Bad : \A x \in Bad : m <= x
      BY <3>0, <2>1, SmallestExists
    <3>2. m # 0
      BY <1>2, <3>1 DEF Matched
    <3>3. m \in 1..Size /\ m - 1 \in 0..Size /\ m - 1 \notin Bad
      BY <1>1, <3>1, <3>2
    <3>4. level[m - 1] \subseteq Sessions
      BY <3>3
    <3> QED  BY <1>2, <3>1, <3>3, <3>4 DEF Grown
  <2> QED  BY <2>1
<1>4. ASSUME NEW n \in 0..Size PROVE level[n] \subseteq level[Size]
  <2> DEFINE Bad == {d \in 0..Size : ~(level[Size - d] \subseteq level[Size])}
  <2>1. ASSUME Bad # {} PROVE FALSE
    <3>0. Bad \in SUBSET Nat
      BY <1>1
    <3>1. PICK d \in Bad : \A x \in Bad : d <= x
      BY <3>0, <2>1, SmallestExists
    <3>2. d # 0
      BY <1>1, <3>1
    <3>3. d - 1 \in 0..Size /\ d - 1 \notin Bad /\ Size - d + 1 \in 1..Size
          /\ (Size - d + 1) - 1 = Size - d /\ Size - (d - 1) = Size - d + 1
      BY <1>1, <3>1, <3>2
    <3>4. level[Size - (d - 1)] \subseteq level[Size]
      BY <3>3
    <3>5. level[Size - d] \subseteq level[Size - d + 1]
      BY <1>2, <3>3 DEF Grown
    <3> QED  BY <3>1, <3>3, <3>4, <3>5
  <2>2. Size - n \in 0..Size /\ Size - n \notin Bad /\ Size - (Size - n) = n
    BY <1>1, <2>1
  <2> QED  BY <2>2
<1>5. ASSUME Grown(level[Size]) # level[Size] PROVE FALSE
  <2> DEFINE Bad == {n \in 0..Size : ~(n <= Cardinality(level[n]))}
  <2>1. \A n \in 0..Size : IsFiniteSet(level[n]) /\ Cardinality(level[n]) \in Nat
    BY <1>1, <1>3, FS_Subset, FS_CardinalityType
  <2>2. ASSUME NEW n \in 1..Size, level[n] = level[n - 1] PROVE FALSE
    <3> DEFINE Moved == {k \in n..Size : level[k] # level[n]}
    <3>1. ASSUME Moved # {} PROVE FALSE
      <4>0. Moved \in SUBSET Nat
        BY <1>1
      <4>1. PICK k \in Moved : \A x \in Moved : k <= x
        BY <4>0, <3>1, SmallestExists
      <4>2. k # n
        BY <4>1
      <4>3. k \in 1..Size /\ k - 1 \in n..Size /\ k - 1 \notin Moved
        BY <1>1, <4>1, <4>2
      <4>4. level[k] = Grown(level[k - 1]) /\ level[k - 1] = level[n] /\ level[n] = Grown(level[n - 1])
        BY <1>2, <4>3
      <4> QED  BY <2>2, <4>1, <4>4
    <3>2. level[Size] = level[n]
      BY <1>1, <3>1
    <3>3. level[n] = Grown(level[n - 1])
      BY <1>2
    <3> QED  BY <1>5, <2>2, <3>2, <3>3
  <2>3. ASSUME Bad # {} PROVE FALSE
    <3>0. Bad \in SUBSET Nat
      BY <1>1
    <3>1. PICK m \in Bad : \A x \in Bad : m <= x
      BY <3>0, <2>3, SmallestExists
    <3>2. m \in 0..Size /\ ~(m <= Cardinality(level[m])) /\ m # 0
      BY <2>1, <3>1
    <3>3. m \in 1..Size /\ m - 1 \in 0..Size /\ m - 1 \notin Bad
      BY <1>1, <3>1, <3>2
    <3>4. m - 1 <= Cardinality(level[m - 1])
      BY <3>3
    <3>5. level[m - 1] \subseteq level[m] /\ level[m - 1] # level[m]
      BY <1>2, <2>2, <3>3 DEF Grown
    <3>6. Cardinality(level[m - 1]) <= Cardinality(level[m]) /\ Cardinality(level[m - 1]) # Cardinality(level[m])
      BY <2>1, <3>2, <3>5, FS_Subset
    <3> QED  BY <2>1, <3>2, <3>3, <3>4, <3>6
  <2>4. Size <= Cardinality(level[Size])
    BY <1>1, <2>3
  <2>5. level[Size] \in SUBSET Sessions
    BY <1>1, <1>3
  <2>6. level[Size] = Sessions
    <3>1. Cardinality(level[Size]) <= Size /\ (Size = Cardinality(level[Size]) => Sessions = level[Size])
      BY <1>1, <2>5, FS_Subset DEF Size
    <3> QED  BY <1>1, <2>1, <2>4, <3>1
  <2> QED  BY <1>5, <2>6 DEF Grown
<1> QED  BY <1>1, <1>2, <1>3, <1>4, <1>5

LEMMA TreeHolds == ASSUME NEW f PROVE Tree(f) \subseteq Sessions
<1>1. PICK level : Levels(level, f, Size) /\ Tree(f) = level[Size]
  BY TreeIsLast
<1>2. Size \in 0..Size
  BY ListAssumption, FS_CardinalityType DEF Size
<1> QED  BY <1>1, <1>2, LevelsGrow

LEMMA TreeHasRoots == ChildrenHaveRoots
<1> SUFFICES ASSUME NEW f \in Filters
             PROVE  LET tree == Tree(f)
                        roots == {s \in Sessions : RootMatch(f, s)}
                    IN  /\ roots \subseteq tree
                        /\ \A X \in SUBSET (tree \ roots) :
                              X # {} => \E s \in X : rows[s].parent \in tree \ X
                        /\ \A s \in Sessions : Visible(rows[s]) /\ rows[s].parent \in tree => s \in tree
  BY DEF ChildrenHaveRoots
<1>1. PICK level : Levels(level, f, Size) /\ Tree(f) = level[Size]
  BY TreeIsLast
<1>2. /\ Size \in Nat /\ level[0] = Matched(f)
      /\ \A n \in 0..Size : level[n] \subseteq Sessions /\ level[n] \subseteq level[Size]
      /\ \A n \in 1..Size : level[n] = Grown(level[n - 1])
      /\ Grown(level[Size]) = level[Size]
  BY <1>1, LevelsGrow
<1>3. Matched(f) \subseteq Tree(f)
  BY <1>1, <1>2
<1>4. ASSUME NEW X \in SUBSET (Tree(f) \ Matched(f)), X # {}
      PROVE  \E s \in X : rows[s].parent \in Tree(f) \ X
  <2> DEFINE Met == {n \in 0..Size : level[n] \cap X # {}}
  <2>1. Met \in SUBSET Nat /\ Met # {}
    <3>1. Size \in 0..Size /\ level[Size] \cap X # {}
      BY <1>1, <1>2, <1>4
    <3> QED  BY <1>2, <3>1
  <2>2. PICK m \in Met : \A x \in Met : m <= x
    BY <2>1, SmallestExists
  <2>3. m # 0
    BY <1>2, <1>4, <2>2
  <2>4. m \in 1..Size /\ m - 1 \in 0..Size /\ m - 1 \notin Met
    BY <1>2, <2>2, <2>3
  <2>5. PICK s \in level[m] : s \in X
    BY <2>2
  <2>6. level[m - 1] \cap X = {} /\ level[m] = Grown(level[m - 1]) /\ level[m - 1] \subseteq Tree(f)
    BY <1>1, <1>2, <2>4
  <2>7. rows[s].parent \in level[m - 1]
    BY <2>5, <2>6 DEF Grown
  <2> QED  BY <2>5, <2>6, <2>7
<1>5. ASSUME NEW s \in Sessions, Visible(rows[s]), rows[s].parent \in Tree(f) PROVE s \in Tree(f)
  BY <1>1, <1>2, <1>5 DEF Grown
<1> QED  BY <1>3, <1>4, <1>5 DEF Matched

-----------------------------------------------------------------------------
(* Types.                                                                  *)

Asked == Filters \cup {[NoFilter EXCEPT !.recency = recent] : recent \in BOOLEAN} \cup {NoFilter}
Reader == [kind : {"idle", "list", "search", "messages", "done"}, filter : Asked,
           cursor : [at : Nat, id : Sessions \cup {0}, total : Nat], offset : Nat,
           session : Sessions \cup {0}, expected : Nat, got : Seq(Nat), steady : SUBSET Nat]
Typed(r) == r \in Row /\ IsFiniteSet(r.ordinals)
TypeOK ==
    /\ rows \in [Sessions -> Row] /\ \A s \in Sessions : Typed(rows[s])
    /\ spawns \subseteq Sessions \X Sessions /\ fresh \subseteq Sessions /\ passing \in BOOLEAN
    /\ now \in Nat /\ writes \in Nat /\ reader \in Reader

LEMMA ActivityType == ASSUME NEW r \in Row PROVE Activity(r) \in Nat /\ EndOf(r) \in Nat
BY DEF Row, Activity, StartOf, EndOf, Coalesce

LEMMA MatchingHolds == ASSUME NEW f PROVE Matching(f) \subseteq Sessions
BY TreeHolds DEF Matching, buildSessionFilter, buildPGSessionFilter, pgTree

LEMMA SubsetIsFinite ==
    ASSUME NEW S \in SUBSET Sessions
    PROVE  IsFiniteSet(S) /\ Cardinality(S) \in Nat
BY ListAssumption, FS_Subset, FS_CardinalityType

-----------------------------------------------------------------------------
(* Pages of the list.                                                      *)

Newer(S) == [s \in S |-> {t \in S : Before(Key(s), Key(t))}]
Has(seq, x) == \E i \in DOMAIN seq : seq[i] = x
Once(seq, x) == \E i \in DOMAIN seq : seq[i] = x /\ \A j \in DOMAIN seq : seq[j] = x => j = i
At(c) == <<c.at, c.id>>

LEMMA BeforeIs ==
    ASSUME NEW a, NEW b, NEW s, NEW t
    PROVE  Before(<<a, s>>, <<b, t>>) <=> a < b \/ (a = b /\ s < t)
BY DEF Before

LEMMA KeyType ==
    ASSUME TypeOK, NEW s \in Sessions
    PROVE  Activity(rows[s]) \in Nat /\ s \in Nat /\ s # 0 /\ Key(s) = <<Activity(rows[s]), s>>
BY ListAssumption, ActivityType DEF TypeOK, Key

LEMMA NewerOrders == ASSUME TypeOK, NEW S \in SUBSET Sessions PROVE Orders(Newer(S), S)
<1>1. \A s \in S : Activity(rows[s]) \in Nat /\ s \in Nat
  BY KeyType
<1>2. \A s, t \in S : Before(Key(s), Key(t)) <=>
         \/ Activity(rows[s]) < Activity(rows[t])
         \/ Activity(rows[s]) = Activity(rows[t]) /\ s < t
  BY BeforeIs DEF Key
<1>3. Newer(S) \in [S -> SUBSET S]
  BY DEF Newer
<1>4. \A s \in S : s \notin Newer(S)[s]
  BY <1>1, <1>2 DEF Newer
<1>5. ASSUME NEW s \in S, NEW t \in S, s \in Newer(S)[t], NEW u \in Newer(S)[s] PROVE u \in Newer(S)[t]
  <2>1. u \in S /\ Before(Key(t), Key(s)) /\ Before(Key(s), Key(u))
    BY <1>5 DEF Newer
  <2>2. Before(Key(t), Key(u))
    BY <1>1, <1>2, <2>1
  <2> QED  BY <2>1, <2>2 DEF Newer
<1>6. ASSUME NEW s \in S, NEW t \in S, s # t PROVE s \in Newer(S)[t] \/ t \in Newer(S)[s]
  <2>1. Before(Key(t), Key(s)) \/ Before(Key(s), Key(t))
    BY <1>1, <1>2, <1>6
  <2> QED  BY <2>1 DEF Newer
<1> QED  BY <1>3, <1>4, <1>5, <1>6 DEF Orders

(* A page has what is below its cursor and not below the next one, each    *)
(* session once.                                                           *)
LEMMA PageIs ==
    ASSUME TypeOK, NEW matching \in SUBSET Sessions,
           NEW c \in [at : Nat, id : Sessions \cup {0}, total : Nat]
    PROVE  LET shown == PageOf(matching, c)
               S == Below(matching, c)
           IN  /\ shown.ids \in Seq(S)
               /\ shown.next \in [at : Nat, id : Sessions \cup {0}, total : Nat]
               /\ \A i, j \in DOMAIN shown.ids : shown.ids[i] = shown.ids[j] => i = j
               /\ shown.next = NoCursor => \A s \in S : Has(shown.ids, s)
               /\ shown.next # NoCursor =>
                     /\ shown.next.id # 0
                     /\ \A s \in S : Has(shown.ids, s) <=> ~Before(Key(s), At(shown.next))
                     /\ c.id # 0 => Before(At(shown.next), At(c))
<1> DEFINE S == Below(matching, c)
           found == NewestFirst(S)
           total == IF c.total > 0 THEN c.total ELSE Cardinality(matching)
           ids == FirstPage(found)
           next == IF Len(found) <= PageSize THEN NoCursor ELSE EncodeCursor(found[PageSize], total)
<1>1. PageOf(matching, c) = [ids |-> ids, next |-> next]
  BY DEF PageOf
<1>2. S \in SUBSET Sessions /\ IsFiniteSet(S) /\ total \in Nat
  BY SubsetIsFinite DEF Below
<1>3. Orders(Newer(S), S) /\ Sorts(found, Newer(S), S)
  BY <1>2, NewerOrders, InOrderSorts DEF NewestFirst, Newer
<1>4. /\ ids \in Seq(S) /\ Len(ids) = Shortest(Len(found), PageSize)
      /\ \A i \in 1..Len(ids) : ids[i] = found[i]
      /\ \A i, j \in 1..Len(ids) : i < j <=> ids[i] \in Newer(S)[ids[j]]
      /\ Len(found) <= PageSize => ids = found
      /\ Len(ids) > 0 =>
            \A x \in S : (\E i \in 1..Len(ids) : ids[i] = x) <=> ids[Len(ids)] \notin Newer(S)[x]
  BY <1>3, FirstOfSorted
<1>5. Len(found) \in Nat /\ PageSize \in Nat /\ PageSize >= 1 /\ found \in Seq(S)
  BY <1>3, ListAssumption, LenProperties DEF Sorts
<1> HIDE DEF found, S, ids, total
<1>6. DOMAIN ids = 1..Len(ids) /\ Len(ids) \in Nat
  BY <1>4, LenProperties
<1>7. ASSUME NEW i \in DOMAIN ids, NEW j \in DOMAIN ids, ids[i] = ids[j] PROVE i = j
  <2>1. ids[i] \in S /\ ids[i] \notin Newer(S)[ids[i]]
    BY <1>3, <1>4, <1>6 DEF Orders
  <2>2. ~(i < j) /\ ~(j < i)
    BY <1>4, <1>6, <1>7, <2>1
  <2> QED  BY <1>6, <2>2
<1>8. ASSUME Len(found) <= PageSize, NEW s \in S PROVE Has(ids, s)
  BY <1>3, <1>4, <1>6, <1>8 DEF Sorts, Has
<1>9. ASSUME ~(Len(found) <= PageSize)
      PROVE  /\ next = EncodeCursor(found[PageSize], total) /\ found[PageSize] \in S
             /\ Len(ids) = PageSize /\ ids[PageSize] = found[PageSize]
  BY <1>4, <1>5, <1>9 DEF Shortest
<1>10. ASSUME ~(Len(found) <= PageSize)
       PROVE  /\ next \in [at : Nat, id : Sessions \cup {0}, total : Nat] /\ next.id # 0
              /\ At(next) = Key(found[PageSize])
  BY <1>2, <1>9, <1>10, KeyType DEF EncodeCursor, At
<1>11. ASSUME ~(Len(found) <= PageSize), NEW s \in S
       PROVE  Has(ids, s) <=> ~Before(Key(s), At(next))
  <2>1. Has(ids, s) <=> found[PageSize] \notin Newer(S)[s]
    BY <1>4, <1>5, <1>6, <1>9, <1>11 DEF Has
  <2>2. found[PageSize] \in Newer(S)[s] <=> Before(Key(s), At(next))
    BY <1>9, <1>10, <1>11 DEF Newer
  <2> QED  BY <2>1, <2>2
<1>12. ASSUME ~(Len(found) <= PageSize), c.id # 0 PROVE Before(At(next), At(c))
  <2>1. found[PageSize] \in Below(matching, c)
    BY <1>9, <1>12 DEF S
  <2>2. Before(Key(found[PageSize]), <<c.at, c.id>>)
    BY <1>12, <2>1 DEF Below
  <2> QED  BY <1>10, <1>12, <2>2 DEF At
<1>13. NoCursor \in [at : Nat, id : Sessions \cup {0}, total : Nat] /\ NoCursor.id = 0
  BY DEF NoCursor
<1>14. (Len(found) <= PageSize => next = NoCursor) /\ (next # NoCursor => ~(Len(found) <= PageSize))
       /\ (~(Len(found) <= PageSize) => next # NoCursor)
  BY <1>10, <1>13
<1> HIDE DEF next
<1>15. /\ ids \in Seq(S) /\ next \in [at : Nat, id : Sessions \cup {0}, total : Nat]
       /\ \A i, j \in DOMAIN ids : ids[i] = ids[j] => i = j
       /\ next = NoCursor => \A s \in S : Has(ids, s)
       /\ next # NoCursor =>
             /\ next.id # 0
             /\ \A s \in S : Has(ids, s) <=> ~Before(Key(s), At(next))
             /\ c.id # 0 => Before(At(next), At(c))
  BY <1>4, <1>7, <1>8, <1>10, <1>11, <1>12, <1>13, <1>14
<1>16. PageOf(matching, c).ids = ids /\ PageOf(matching, c).next = next
  BY <1>1
<1> HIDE DEF ids
<1> QED  BY <1>15, <1>16 DEF S

-----------------------------------------------------------------------------
(* The inductive invariant.                                                *)

(* A reader of the list has each session that still matches and has not    *)
(* moved, unless it is below the cursor.                                   *)
Listing ==
    reader.kind = "list" =>
        /\ reader.session = 0 /\ reader.cursor.id # 0
        /\ \A f \in Asked : f = reader.filter => reader.steady \subseteq Matching(f)
        /\ \A s \in reader.steady : IF Before(Key(s), At(reader.cursor))
                                    THEN ~Has(reader.got, s) ELSE Once(reader.got, s)

(* A reader of a search has the first of the sessions found.               *)
Searching ==
    reader.kind = "search" =>
        /\ reader.session = 0
        /\ \A f \in Asked : f = reader.filter /\ reader.steady # {} =>
              /\ reader.steady = Found(f)
              /\ reader.offset <= Len(BestFirst(f))
              /\ reader.got = SubSeq(BestFirst(f), 1, reader.offset)

(* A reader of messages has those below its offset, in order.              *)
Increases(seq) == \A i, j \in DOMAIN seq : i < j <=> seq[i] < seq[j]
Reading ==
    /\ reader.kind = "messages" =>
          /\ reader.session # 0
          /\ reader.steady # {} => reader.steady = rows[reader.session].ordinals
    /\ reader.session # 0 => reader.kind \in {"messages", "done"}
    /\ reader.session # 0 /\ reader.steady # {} =>
          /\ IsFiniteSet(reader.steady) /\ Increases(reader.got)
          /\ \A i \in DOMAIN reader.got : reader.got[i] \in reader.steady
          /\ \A o \in reader.steady : o < reader.offset <=> Has(reader.got, o)
          /\ (reader.kind = "done" /\ \A o \in reader.steady : reader.expected > o) =>
                \A o \in reader.steady : Has(reader.got, o)

Finished ==
    /\ reader.kind = "idle" => reader.steady = {}
    /\ reader.kind = "done" /\ reader.session = 0 => \A s \in reader.steady : Once(reader.got, s)

ReaderInv == Listing /\ Searching /\ Reading /\ Finished
IInv == TypeOK /\ ReaderInv /\ SpawnedAreLinked

-----------------------------------------------------------------------------
(* Steps of the client.                                                    *)

LEMMA ReaderType ==
    ASSUME TypeOK
    PROVE  /\ reader \in Reader /\ reader.cursor \in [at : Nat, id : Sessions \cup {0}, total : Nat]
           /\ reader.cursor.at \in Nat /\ reader.cursor.id \in Sessions \cup {0} /\ reader.cursor.total \in Nat
           /\ reader.got \in Seq(Nat) /\ reader.steady \in SUBSET Nat /\ reader.offset \in Nat
           /\ reader.expected \in Nat /\ reader.session \in Sessions \cup {0} /\ reader.filter \in Asked
BY DEF TypeOK, Reader

LEMMA NoReaderType == NoReader \in Reader /\ NoReader.session = 0 /\ NoReader.got = <<>> /\ NoReader.steady = {}
                      /\ NoReader.kind = "idle" /\ NoReader.offset = 0
<1>1. NoCursor \in [at : Nat, id : Sessions \cup {0}, total : Nat]
  BY DEF NoCursor
<1>2. NoFilter \in Asked
  BY DEF Asked
<1> HIDE DEF NoCursor, NoFilter
<1> QED  BY <1>1, <1>2 DEF NoReader, Reader

(* What a step that only moves the reader has to show.                     *)
LEMMA ClientInv ==
    ASSUME IInv, UNCHANGED <<store, rows, links, passing, now, writes>>, reader' \in Reader, ReaderInv'
    PROVE  IInv'
BY DEF IInv, TypeOK, SpawnedAreLinked

LEMMA Appended ==
    ASSUME NEW p \in Seq(Nat), NEW q \in Seq(Nat), NEW x
    PROVE  /\ p \o q \in Seq(Nat)
           /\ Has(p \o q, x) <=> Has(p, x) \/ Has(q, x)
           /\ Once(p, x) /\ ~Has(q, x) => Once(p \o q, x)
           /\ ~Has(p, x) /\ Once(q, x) => Once(p \o q, x)
<1>1. p \o q \in Seq(Nat) /\ Len(p \o q) = Len(p) + Len(q) /\ Len(p) \in Nat /\ Len(q) \in Nat
      /\ DOMAIN p = 1..Len(p) /\ DOMAIN q = 1..Len(q) /\ DOMAIN (p \o q) = 1..(Len(p) + Len(q))
  BY ConcatProperties, LenProperties
<1>2. \A i \in 1..Len(p) : i \in DOMAIN (p \o q) /\ (p \o q)[i] = p[i]
  BY <1>1, ConcatProperties
<1>3. \A i \in 1..Len(q) : Len(p) + i \in DOMAIN (p \o q) /\ (p \o q)[Len(p) + i] = q[i]
  BY <1>1, ConcatProperties
<1>4. \A i \in DOMAIN (p \o q) : i \in 1..Len(p) \/ (i - Len(p) \in 1..Len(q) /\ Len(p) + (i - Len(p)) = i)
  BY <1>1
<1>5. Has(p \o q, x) <=> Has(p, x) \/ Has(q, x)
  <2>1. Has(p, x) => Has(p \o q, x)
    BY <1>1, <1>2 DEF Has
  <2>2. Has(q, x) => Has(p \o q, x)
    BY <1>1, <1>3 DEF Has
  <2>3. ASSUME NEW i \in DOMAIN (p \o q), (p \o q)[i] = x PROVE Has(p, x) \/ Has(q, x)
    <3>1. CASE i \in 1..Len(p)
      BY <1>1, <1>2, <2>3, <3>1 DEF Has
    <3>2. CASE i - Len(p) \in 1..Len(q) /\ Len(p) + (i - Len(p)) = i
      <4>1. q[i - Len(p)] = x
        BY <1>3, <2>3, <3>2
      <4> QED  BY <1>1, <3>2, <4>1 DEF Has
    <3> QED  BY <1>4, <3>1, <3>2
  <2> QED  BY <2>1, <2>2, <2>3 DEF Has
<1>6. ASSUME Once(p, x), ~Has(q, x) PROVE Once(p \o q, x)
  <2>1. PICK i \in 1..Len(p) : p[i] = x /\ \A j \in 1..Len(p) : p[j] = x => j = i
    BY <1>1, <1>6 DEF Once
  <2>2. ASSUME NEW j \in DOMAIN (p \o q), (p \o q)[j] = x PROVE j = i
    <3>1. CASE j \in 1..Len(p)
      BY <1>2, <2>1, <2>2, <3>1
    <3>2. CASE j - Len(p) \in 1..Len(q) /\ Len(p) + (j - Len(p)) = j
      <4>1. q[j - Len(p)] = x
        BY <1>3, <2>2, <3>2
      <4> QED  BY <1>1, <1>6, <3>2, <4>1 DEF Has
    <3> QED  BY <1>4, <3>1, <3>2
  <2> QED  BY <1>2, <2>1, <2>2 DEF Once
<1>7. ASSUME ~Has(p, x), Once(q, x) PROVE Once(p \o q, x)
  <2>1. PICK i \in 1..Len(q) : q[i] = x /\ \A j \in 1..Len(q) : q[j] = x => j = i
    BY <1>1, <1>7 DEF Once
  <2>2. ASSUME NEW j \in DOMAIN (p \o q), (p \o q)[j] = x PROVE j = Len(p) + i
    <3>1. CASE j \in 1..Len(p)
      BY <1>1, <1>2, <1>7, <2>2, <3>1 DEF Has
    <3>2. CASE j - Len(p) \in 1..Len(q) /\ Len(p) + (j - Len(p)) = j
      <4>1. q[j - Len(p)] = x
        BY <1>3, <2>2, <3>2
      <4> QED  BY <2>1, <3>2, <4>1
    <3> QED  BY <1>4, <3>1, <3>2
  <2> QED  BY <1>3, <2>1, <2>2 DEF Once
<1> QED  BY <1>1, <1>5, <1>6, <1>7

LEMMA ListIsPage == ASSUME NEW f, NEW c PROVE List(f, c) = PageOf(Matching(f), c)
BY DEF List, ListSessions, pgListSessions, Matching

LEMMA MatchingKept ==
    ASSUME UNCHANGED <<store, rows, now>>
    PROVE  /\ \A f : Matching(f)' = Matching(f)
           /\ \A s : Key(s)' = Key(s)
<1>1. store' = store /\ rows' = rows /\ now' = now
  OBVIOUS
<1>2. ASSUME NEW f PROVE Tree(f)' = Tree(f)
  BY <1>1, SMT DEF Tree, RootMatch, Root, Visible, IsChild, FilterPreds, OneShotPred,
     buildTerminationPredSQLite
<1>3. ASSUME NEW f PROVE \A s : RootMatch(f, s)' <=> RootMatch(f, s)
  BY <1>1 DEF RootMatch, Root, Visible, IsChild, FilterPreds, OneShotPred, buildTerminationPredSQLite
<1>4. ASSUME NEW f PROVE \A s : pgTerminationPred(f.states, rows[s])' <=> pgTerminationPred(f.states, rows[s])
  BY <1>1 DEF pgTerminationPred, buildTerminationPredSQLite
<1>5. ASSUME NEW f PROVE buildSessionFilter(f)' = buildSessionFilter(f)
  BY <1>2, <1>3 DEF buildSessionFilter
<1>6. ASSUME NEW f PROVE buildPGSessionFilter(f)' = buildPGSessionFilter(f)
  BY <1>2, <1>3, <1>4 DEF buildPGSessionFilter, pgTree
<1>7. ASSUME NEW f PROVE Matching(f)' = Matching(f)
  BY <1>1, <1>5, <1>6 DEF Matching
<1>8. \A s : Key(s)' = Key(s)
  BY <1>1 DEF Key
<1> QED  BY <1>7, <1>8

LEMMA CursorType ==
    ASSUME NEW c \in [at : Nat, id : Sessions \cup {0}, total : Nat]
    PROVE  At(c) = <<c.at, c.id>> /\ c.at \in Nat /\ c.id \in Nat
<1>1. c.at \in Nat /\ c.id \in Sessions \cup {0}
  OBVIOUS
<1>2. \A x \in Sessions \cup {0} : x \in Nat
  BY ListAssumption
<1>3. c.id \in Nat
  BY <1>1, <1>2
<1> QED  BY <1>1, <1>3 DEF At

LEMMA BeforeChain ==
    ASSUME TypeOK, NEW s \in Sessions,
           NEW c \in [at : Nat, id : Sessions \cup {0}, total : Nat],
           NEW d \in [at : Nat, id : Sessions \cup {0}, total : Nat],
           Before(Key(s), At(c)), Before(At(c), At(d))
    PROVE  Before(Key(s), At(d))
<1>1. Key(s) = <<Activity(rows[s]), s>> /\ Activity(rows[s]) \in Nat /\ s \in Nat
  BY KeyType
<1>2. At(c) = <<c.at, c.id>> /\ At(d) = <<d.at, d.id>> /\ {c.at, c.id, d.at, d.id} \subseteq Nat
  BY CursorType
<1> QED  BY <1>1, <1>2, BeforeIs

LEMMA OncePerPage ==
    ASSUME NEW q, NEW x, Has(q, x), \A i, j \in DOMAIN q : q[i] = q[j] => i = j
    PROVE  Once(q, x)
BY DEF Has, Once

LEMMA SubSeqType == ASSUME NEW S \in SUBSET Nat, NEW q \in Seq(S) PROVE q \in Seq(Nat)
<1>1. Len(q) \in Nat /\ q \in [1..Len(q) -> S]
  BY LenProperties
<1>2. q \in [1..Len(q) -> Nat]
  BY <1>1
<1> QED  BY <1>1, <1>2

LEMMA OpenListStep == ASSUME IInv, NEW f \in Filters, OpenList(f) PROVE IInv'
<1>1. TypeOK /\ UNCHANGED <<store, rows, links, passing, now, writes>>
  BY DEF IInv, OpenList
<1> DEFINE shown == List(f, NoCursor)
           S == Matching(f)
<1>2. NoCursor \in [at : Nat, id : Sessions \cup {0}, total : Nat] /\ NoCursor.id = 0
  BY DEF NoCursor
<1>3. S \in SUBSET Sessions /\ Below(S, NoCursor) = S /\ Sessions \subseteq Nat /\ 0 \notin Sessions
  BY <1>2, MatchingHolds, ListAssumption DEF Below
<1>4. /\ shown.ids \in Seq(S)
      /\ shown.next \in [at : Nat, id : Sessions \cup {0}, total : Nat]
      /\ \A i, j \in DOMAIN shown.ids : shown.ids[i] = shown.ids[j] => i = j
      /\ shown.next = NoCursor => \A s \in S : Has(shown.ids, s)
      /\ shown.next # NoCursor =>
            /\ shown.next.id # 0
            /\ \A s \in S : Has(shown.ids, s) <=> ~Before(Key(s), At(shown.next))
  <2>1. shown = PageOf(S, NoCursor)
    BY ListIsPage
  <2> HIDE DEF shown, S
  <2> QED  BY <1>1, <1>2, <1>3, <2>1, PageIs
<1>5. shown.ids \in Seq(Nat) /\ S \in SUBSET Nat
  BY <1>3, <1>4, SubSeqType
<1>6. reader' = [NoReader EXCEPT !.kind = IF shown.next = NoCursor THEN "done" ELSE "list",
                   !.filter = f, !.cursor = shown.next, !.got = shown.ids, !.steady = S]
  BY DEF OpenList
<1> HIDE DEF shown, S
<1>7. /\ reader' \in Reader /\ reader'.session = 0 /\ reader'.filter = f /\ reader'.cursor = shown.next
      /\ reader'.kind = IF shown.next = NoCursor THEN "done" ELSE "list"
      /\ reader'.got = shown.ids /\ reader'.steady = S
  BY <1>4, <1>5, <1>6, NoReaderType DEF Reader, Asked
<1>8. Matching(f)' = S /\ \A s \in S : Key(s)' = Key(s)
  BY <1>1, MatchingKept DEF S
<1>9. Listing' /\ Finished'
  <2>1. \A s \in S : Has(shown.ids, s) => Once(shown.ids, s)
    BY <1>4, OncePerPage
  <2>2. CASE shown.next = NoCursor
    BY <1>4, <1>7, <2>1, <2>2 DEF Listing, Finished
  <2>3. CASE shown.next # NoCursor
    <3>2. \A s \in S : IF Before(Key(s)', At(shown.next)) THEN ~Has(shown.ids, s) ELSE Once(shown.ids, s)
      BY <1>4, <1>8, <2>1, <2>3
    <3>3. Listing'
      BY <1>4, <1>7, <1>8, <2>3, <3>2 DEF Listing, At
    <3> QED  BY <1>7, <2>3, <3>3 DEF Finished
  <2> QED  BY <2>2, <2>3
<1>10. Searching' /\ Reading'
  BY <1>7 DEF Searching, Reading
<1> QED  BY <1>1, <1>7, <1>9, <1>10, ClientInv DEF ReaderInv

LEMMA NextListPageStep == ASSUME IInv, NEW signed, NextListPage(signed) PROVE IInv'
<1>1. TypeOK /\ UNCHANGED <<store, rows, links, passing, now, writes>> /\ reader.kind = "list" /\ Listing
  BY DEF IInv, ReaderInv, NextListPage
<1> DEFINE c == DecodeCursor(reader.cursor, signed)
           shown == List(reader.filter, c)
           M == Matching(reader.filter)
           S == Below(M, c)
<1>2. c \in [at : Nat, id : Sessions \cup {0}, total : Nat] /\ At(c) = At(reader.cursor) /\ c.id # 0
  BY <1>1, ReaderType DEF Listing, DecodeCursor, At
<1>3. M \in SUBSET Sessions /\ Sessions \subseteq Nat /\ S \in SUBSET Nat
      /\ S = {s \in M : Before(Key(s), At(reader.cursor))}
  BY <1>2, MatchingHolds, ListAssumption DEF Below, At
<1>4. /\ shown.ids \in Seq(S)
      /\ shown.next \in [at : Nat, id : Sessions \cup {0}, total : Nat]
      /\ \A i, j \in DOMAIN shown.ids : shown.ids[i] = shown.ids[j] => i = j
      /\ shown.next = NoCursor => \A s \in S : Has(shown.ids, s)
      /\ shown.next # NoCursor =>
            /\ shown.next.id # 0
            /\ \A s \in S : Has(shown.ids, s) <=> ~Before(Key(s), At(shown.next))
            /\ Before(At(shown.next), At(reader.cursor))
  BY <1>1, <1>2, <1>3, ListIsPage, PageIs
<1>5. shown.ids \in Seq(Nat) /\ reader.got \in Seq(Nat) /\ reader.got \o shown.ids \in Seq(Nat)
  BY <1>1, <1>3, <1>4, SubSeqType, Appended, ReaderType
<1>6. reader' = [reader EXCEPT !.kind = IF shown.next = NoCursor THEN "done" ELSE "list",
                   !.cursor = shown.next, !.got = @ \o shown.ids]
  BY DEF NextListPage
<1> HIDE DEF shown, S, M, c
<1>7. /\ reader' \in Reader /\ reader'.session = 0 /\ reader'.filter = reader.filter
      /\ reader'.cursor = shown.next
      /\ reader'.kind = IF shown.next = NoCursor THEN "done" ELSE "list"
      /\ reader'.got = reader.got \o shown.ids /\ reader'.steady = reader.steady
  BY <1>1, <1>4, <1>5, <1>6 DEF TypeOK, Reader, Listing
<1>8. (\A f : Matching(f)' = Matching(f)) /\ \A s : Key(s)' = Key(s)
  BY <1>1, MatchingKept
<1>10. reader.steady \subseteq M
  BY <1>1, ReaderType DEF Listing, M
<1>11. ASSUME NEW s \in reader.steady PROVE Has(shown.ids, s) => s \in S
  BY <1>4 DEF Has
<1>12. ASSUME NEW s \in reader.steady
       PROVE  /\ shown.next = NoCursor => Once(reader'.got, s)
              /\ shown.next # NoCursor =>
                    IF Before(Key(s), At(shown.next)) THEN ~Has(reader'.got, s) ELSE Once(reader'.got, s)
  <2>1. CASE Before(Key(s), At(reader.cursor))
    <3>1. s \in S /\ ~Has(reader.got, s)
      BY <1>1, <1>3, <1>10, <2>1 DEF Listing
    <3>2. Has(shown.ids, s) => Once(shown.ids, s)
      BY <1>4, OncePerPage
    <3>3. Has(shown.ids, s) => Once(reader'.got, s)
      BY <1>5, <1>7, <3>1, <3>2, Appended
    <3>4. ~Has(shown.ids, s) => ~Has(reader'.got, s)
      BY <1>5, <1>7, <3>1, Appended
    <3> QED  BY <1>4, <3>1, <3>3, <3>4
  <2>2. CASE ~Before(Key(s), At(reader.cursor))
    <3>1. s \notin S /\ Once(reader.got, s)
      BY <1>1, <1>3, <2>2 DEF Listing
    <3>2. Once(reader'.got, s)
      BY <1>5, <1>7, <1>11, <3>1, Appended
    <3>3. shown.next # NoCursor => ~Before(Key(s), At(shown.next))
      <4>1. s \in Sessions
        BY <1>3, <1>10
      <4> QED  BY <1>1, <1>4, <2>2, <4>1, BeforeChain, ReaderType
    <3> QED  BY <3>2, <3>3
  <2> QED  BY <2>1, <2>2
<1>13. Listing'
  <2>1. CASE shown.next = NoCursor
    BY <1>7, <2>1 DEF Listing
  <2>2. CASE shown.next # NoCursor
    <3>1. ASSUME NEW f \in Asked, f = reader'.filter PROVE reader'.steady \subseteq Matching(f)'
      BY <1>7, <1>8, <1>10, <3>1 DEF M
    <3>2. ASSUME NEW s \in reader'.steady
          PROVE  IF Before(Key(s)', At(shown.next)) THEN ~Has(reader'.got, s) ELSE Once(reader'.got, s)
      BY <1>7, <1>8, <1>12, <2>2
    <3> QED  BY <1>4, <1>7, <2>2, <3>1, <3>2 DEF Listing, At
  <2> QED  BY <2>1, <2>2
<1>14. Finished' /\ Searching' /\ Reading'
  BY <1>7, <1>12 DEF Finished, Searching, Reading
<1> QED  BY <1>1, <1>7, <1>13, <1>14, ClientInv DEF ReaderInv

-----------------------------------------------------------------------------
(* Pages of a search.                                                      *)

Preceding(f) == [s \in Found(f) |-> {t \in Found(f) : SearchOrder(f, t, s)}]

LEMMA SearchOrders ==
    ASSUME TypeOK, NEW f
    PROVE  Orders(Preceding(f), Found(f)) /\ Found(f) \subseteq Sessions
<1>1. Found(f) \subseteq Sessions
  BY DEF Found, Stored
<1>2. \A s \in Found(f) : Rank(s) \in Nat /\ EndOf(rows[s]) \in Nat /\ s \in Nat
  BY <1>1, ActivityType, ListAssumption DEF TypeOK, Row, Rank
<1>3. ASSUME NEW s, NEW t
      PROVE  SearchOrder(f, s, t) <=>
               LET newer == EndOf(rows[s]) > EndOf(rows[t]) \/ (EndOf(rows[s]) = EndOf(rows[t]) /\ s < t)
               IN  \/ f.recency /\ newer
                   \/ ~f.recency /\ (Rank(s) < Rank(t) \/ (Rank(s) = Rank(t) /\ newer))
  BY DEF SearchOrder
<1>4. Preceding(f) \in [Found(f) -> SUBSET Found(f)]
  BY DEF Preceding
<1>5. \A s \in Found(f) : s \notin Preceding(f)[s]
  BY <1>2, <1>3 DEF Preceding
<1>6. ASSUME NEW s \in Found(f), NEW t \in Found(f), s \in Preceding(f)[t], NEW u \in Preceding(f)[s]
      PROVE  u \in Preceding(f)[t]
  <2>1. u \in Found(f) /\ SearchOrder(f, s, t) /\ SearchOrder(f, u, s)
    BY <1>6 DEF Preceding
  <2>2. SearchOrder(f, u, t)
    BY <1>2, <1>3, <2>1
  <2> QED  BY <2>1, <2>2 DEF Preceding
<1>7. ASSUME NEW s \in Found(f), NEW t \in Found(f), s # t
      PROVE  s \in Preceding(f)[t] \/ t \in Preceding(f)[s]
  <2>1. SearchOrder(f, s, t) \/ SearchOrder(f, t, s)
    BY <1>2, <1>3, <1>7
  <2> QED  BY <2>1 DEF Preceding
<1> QED  BY <1>1, <1>4, <1>5, <1>6, <1>7 DEF Orders

LEMMA SearchSorts ==
    ASSUME TypeOK, NEW f
    PROVE  /\ BestFirst(f) \in Seq(Nat) /\ Len(BestFirst(f)) \in Nat
           /\ \A s \in Found(f) : Once(BestFirst(f), s)
<1>1. Orders(Preceding(f), Found(f)) /\ Found(f) \in SUBSET Sessions /\ IsFiniteSet(Found(f))
  BY SearchOrders, SubsetIsFinite
<1>2. Sorts(BestFirst(f), Preceding(f), Found(f))
  BY <1>1, InOrderSorts DEF BestFirst, Preceding
<1>3. BestFirst(f) \in Seq(Nat) /\ Len(BestFirst(f)) \in Nat
      /\ DOMAIN BestFirst(f) = 1..Len(BestFirst(f))
  BY <1>1, <1>2, SubSeqType, ListAssumption, LenProperties DEF Sorts
<1>4. ASSUME NEW i \in DOMAIN BestFirst(f), NEW j \in DOMAIN BestFirst(f), BestFirst(f)[i] = BestFirst(f)[j]
      PROVE  i = j
  <2>1. BestFirst(f)[i] \in Found(f) /\ BestFirst(f)[i] \notin Preceding(f)[BestFirst(f)[i]]
    BY <1>1, <1>2, <1>3 DEF Orders, Sorts
  <2>2. ~(i < j) /\ ~(j < i)
    BY <1>2, <1>3, <1>4, <2>1 DEF Sorts
  <2> QED  BY <1>3, <2>2
<1>5. ASSUME NEW s \in Found(f) PROVE Has(BestFirst(f), s)
  BY <1>2, <1>3 DEF Sorts, Has
<1> QED  BY <1>3, <1>4, <1>5, OncePerPage

LEMMA FoundKept ==
    ASSUME rows' = rows
    PROVE  \A f : Found(f)' = Found(f) /\ BestFirst(f)' = BestFirst(f)
<1>1. ASSUME NEW f PROVE Found(f)' = Found(f)
  BY DEF Found, Stored
<1>2. ASSUME NEW f PROVE \A s, t : SearchOrder(f, s, t)' <=> SearchOrder(f, s, t)
  BY DEF SearchOrder, EndOf, Rank
<1>3. ASSUME NEW f PROVE Preceding(f)' = Preceding(f)
  BY <1>1, <1>2 DEF Preceding
<1>4. ASSUME NEW f PROVE BestFirst(f)' = BestFirst(f)
  <2>1. BestFirst(f) = InOrder(Found(f), Preceding(f))
    BY DEF BestFirst, Preceding
  <2>2. BestFirst(f)' = InOrder(Found(f)', Preceding(f)')
    BY DEF BestFirst, Preceding
  <2> QED  BY <1>1, <1>3, <2>1, <2>2
<1> QED  BY <1>1, <1>4

(* The first n of a sequence and the page after them.                      *)
LEMMA NextFirst ==
    ASSUME NEW q \in Seq(Nat), NEW n \in Nat, n <= Len(q)
    PROVE  LET rest == SubSeq(q, n + 1, Len(q))
           IN  /\ rest \in Seq(Nat) /\ Len(rest) = Len(q) - n
               /\ SubSeq(q, 1, n) \o FirstPage(rest) = SubSeq(q, 1, n + Shortest(Len(rest), PageSize))
               /\ FirstPage(rest) \in Seq(Nat)
<1> DEFINE rest == SubSeq(q, n + 1, Len(q))
           m == Shortest(Len(rest), PageSize)
<1>1. Len(q) \in Nat /\ PageSize \in Nat /\ PageSize >= 1
  BY ListAssumption, LenProperties
<1>2. rest \in Seq(Nat) /\ Len(rest) = Len(q) - n /\ \A i \in 1..Len(rest) : rest[i] = q[n + i]
  BY <1>1, SubSeqProperties
<1> HIDE DEF rest
<1>3. m \in Nat /\ m <= Len(rest)
  BY <1>1, <1>2 DEF Shortest
<1> HIDE DEF m
<1>4. SubSeq(rest, 1, m) \in Seq(Nat) /\ Len(SubSeq(rest, 1, m)) = m
      /\ \A i \in 1..m : SubSeq(rest, 1, m)[i] = rest[i]
  BY <1>2, <1>3, SubSeqProperties
<1>5. SubSeq(q, 1, n) \in Seq(Nat) /\ Len(SubSeq(q, 1, n)) = n /\ \A i \in 1..n : SubSeq(q, 1, n)[i] = q[i]
  BY <1>1, SubSeqProperties
<1>6. SubSeq(q, 1, n + m) \in Seq(Nat) /\ Len(SubSeq(q, 1, n + m)) = n + m
      /\ \A i \in 1..(n + m) : SubSeq(q, 1, n + m)[i] = q[i]
  BY <1>1, <1>2, <1>3, SubSeqProperties
<1> DEFINE both == SubSeq(q, 1, n) \o SubSeq(rest, 1, m)
<1>7. both \in Seq(Nat) /\ Len(both) = n + m
      /\ (\A i \in 1..n : both[i] = q[i]) /\ \A i \in 1..m : both[n + i] = rest[i]
  BY <1>1, <1>3, <1>4, <1>5, ConcatProperties
<1>8. ASSUME NEW i \in 1..(n + m) PROVE both[i] = q[i]
  <2>1. CASE i \in 1..n
    BY <1>7, <2>1
  <2>2. CASE i \notin 1..n
    <3>1. i - n \in 1..m /\ n + (i - n) = i /\ i - n \in 1..Len(rest)
      BY <1>2, <1>3, <2>2
    <3> QED  BY <1>2, <1>7, <3>1
  <2> QED  BY <2>1, <2>2
<1> HIDE DEF both
<1>9. both = SubSeq(q, 1, n + m)
  BY <1>6, <1>7, <1>8, SeqEqual
<1> QED  BY <1>2, <1>4, <1>9 DEF both, rest, m, FirstPage

LEMMA OpenSearchStep ==
    ASSUME IInv, NEW recent \in BOOLEAN, OpenSearch([NoFilter EXCEPT !.recency = recent])
    PROVE  IInv'
<1>1. TypeOK /\ UNCHANGED <<store, rows, links, passing, now, writes>>
  BY DEF IInv, OpenSearch
<1>2. PICK f \in Asked : f = [NoFilter EXCEPT !.recency = recent]
  BY DEF Asked
<1>3. reader' = [NoReader EXCEPT !.kind = "search", !.filter = f, !.steady = Found(f)]
  BY <1>2 DEF OpenSearch
<1>4. Found(f) \in SUBSET Nat /\ BestFirst(f) \in Seq(Nat) /\ Len(BestFirst(f)) \in Nat
  BY <1>1, SearchOrders, SearchSorts, ListAssumption
<1>5. /\ reader' \in Reader /\ reader'.kind = "search" /\ reader'.session = 0 /\ reader'.filter = f
      /\ reader'.steady = Found(f) /\ reader'.offset = 0 /\ reader'.got = <<>>
  BY <1>3, <1>4, NoReaderType DEF Reader
<1>6. Found(f)' = Found(f) /\ BestFirst(f)' = BestFirst(f)
  BY <1>1, FoundKept
<1>7. SubSeq(BestFirst(f), 1, 0) = <<>>
  BY <1>4
<1>8. Searching'
  BY <1>4, <1>5, <1>6, <1>7 DEF Searching
<1>9. Listing' /\ Reading' /\ Finished'
  BY <1>5 DEF Listing, Reading, Finished
<1> QED  BY <1>1, <1>5, <1>8, <1>9, ClientInv DEF ReaderInv

LEMMA NextSearchPageStep == ASSUME IInv, NextSearchPage PROVE IInv'
<1>1. TypeOK /\ UNCHANGED <<store, rows, links, passing, now, writes>> /\ reader.kind = "search" /\ Searching
  BY DEF IInv, ReaderInv, NextSearchPage
<1>2. PICK f \in Asked : f = reader.filter
  BY <1>1, ReaderType
<1> DEFINE q == BestFirst(f)
           n == reader.offset
           rest == SubSeq(q, n + 1, Len(q))
           next == IF Len(rest) > PageSize THEN n + PageSize ELSE 0
<1>3. reader' = [reader EXCEPT !.kind = IF next = 0 THEN "done" ELSE "search",
                   !.offset = next, !.got = @ \o FirstPage(rest)]
  <2> DEFINE ids == FirstPage(rest)
  <2>1. Find(f, n) = [ids |-> ids, next |-> next]
    BY DEF Find, Search, pgSearch, PageFrom
  <2> HIDE DEF ids, next
  <2>2. Find(f, n).ids = ids /\ Find(f, n).next = next
    BY <2>1
  <2>3. reader' = [reader EXCEPT !.kind = IF next = 0 THEN "done" ELSE "search",
                     !.offset = next, !.got = @ \o ids]
    BY <1>2, <2>2 DEF NextSearchPage
  <2> QED  BY <2>3 DEF ids, next
<1>4. q \in Seq(Nat) /\ Len(q) \in Nat /\ n \in Nat /\ PageSize \in Nat /\ PageSize >= 1
      /\ reader.got \in Seq(Nat) /\ reader \in Reader
  BY <1>1, SearchSorts, ReaderType, ListAssumption
<1>5. /\ rest \in Seq(Nat) /\ Len(rest) \in Nat /\ FirstPage(rest) \in Seq(Nat) /\ next \in Nat
      /\ n <= Len(q) =>
           /\ Len(rest) = Len(q) - n
           /\ SubSeq(q, 1, n) \o FirstPage(rest) = SubSeq(q, 1, n + Shortest(Len(rest), PageSize))
  <2> HIDE DEF q
  <2>1. n <= Len(q) =>
           /\ rest \in Seq(Nat) /\ Len(rest) = Len(q) - n /\ FirstPage(rest) \in Seq(Nat)
           /\ SubSeq(q, 1, n) \o FirstPage(rest) = SubSeq(q, 1, n + Shortest(Len(rest), PageSize))
    BY <1>4, NextFirst
  <2>2. ASSUME ~(n <= Len(q)) PROVE rest \in Seq(Nat) /\ Len(rest) = 0 /\ FirstPage(rest) \in Seq(Nat)
    <3>1. rest = <<>>
      BY <1>4, <2>2
    <3> HIDE DEF rest
    <3>2. rest \in Seq(Nat) /\ Len(rest) = 0 /\ Shortest(Len(rest), PageSize) = 0
      BY <1>4, <3>1 DEF Shortest
    <3> QED  BY <3>2 DEF FirstPage
  <2> HIDE DEF rest
  <2>3. rest \in Seq(Nat) /\ Len(rest) \in Nat /\ FirstPage(rest) \in Seq(Nat)
    <3>1. CASE n <= Len(q)
      BY <1>4, <2>1, <3>1
    <3>2. CASE ~(n <= Len(q))
      BY <2>2, <3>2
    <3> QED  BY <3>1, <3>2
  <2>4. next \in Nat
    BY <1>4, <2>3
  <2> QED  BY <2>1, <2>3, <2>4
<1>6. /\ reader' \in Reader /\ reader'.session = 0 /\ reader'.filter = f /\ reader'.steady = reader.steady
      /\ reader'.kind = (IF next = 0 THEN "done" ELSE "search") /\ reader'.offset = next
      /\ reader'.got = reader.got \o FirstPage(rest)
  <2> HIDE DEF rest, next
  <2> QED  BY <1>1, <1>2, <1>3, <1>4, <1>5, Appended DEF Reader, Searching
<1>7. Found(f)' = Found(f) /\ BestFirst(f)' = BestFirst(f)
  BY <1>1, FoundKept
<1>8. ASSUME reader.steady # {}
      PROVE  /\ reader.steady = Found(f) /\ n <= Len(q)
             /\ reader'.got = SubSeq(q, 1, n + Shortest(Len(rest), PageSize)) /\ Len(rest) = Len(q) - n
  <2>1. reader.steady = Found(f) /\ n <= Len(q) /\ reader.got = SubSeq(q, 1, n)
    BY <1>1, <1>2, <1>8 DEF Searching
  <2> HIDE DEF q, rest
  <2> QED  BY <1>5, <1>6, <2>1
<1> HIDE DEF rest
<1>9. Searching'
  <2>1. CASE next = 0
    BY <1>6, <2>1 DEF Searching
  <2>2. CASE next # 0
    <3>1. next = n + PageSize /\ Len(rest) > PageSize
      BY <2>2
    <3>2. Shortest(Len(rest), PageSize) = PageSize
      BY <1>4, <1>5, <3>1 DEF Shortest
    <3>3. reader.steady # {} => next <= Len(q) /\ reader'.got = SubSeq(q, 1, next)
      BY <1>4, <1>8, <3>1, <3>2
    <3> HIDE DEF next
    <3> QED  BY <1>6, <1>7, <1>8, <3>3 DEF Searching
  <2> QED  BY <2>1, <2>2
<1>10. Finished'
  <2>1. ASSUME next = 0, NEW s \in reader.steady PROVE Once(reader'.got, s)
    <3>1. Len(rest) <= PageSize
      BY <1>4, <1>5, <2>1
    <3>2. Shortest(Len(rest), PageSize) = Len(rest)
      BY <1>4, <1>5, <3>1 DEF Shortest
    <3>3. reader'.got = SubSeq(q, 1, Len(q)) /\ s \in Found(f)
      BY <1>4, <1>5, <1>8, <2>1, <3>2
    <3>4. reader'.got = q
      BY <1>4, <3>3
    <3> QED  BY <1>1, <3>3, <3>4, SearchSorts
  <2> QED  BY <1>6, <2>1 DEF Finished
<1>11. Listing' /\ Reading'
  BY <1>6 DEF Listing, Reading
<1> QED  BY <1>1, <1>6, <1>9, <1>10, <1>11, ClientInv DEF ReaderInv

-----------------------------------------------------------------------------
(* Pages of messages.                                                      *)

Lower(W) == [o \in W |-> {p \in W : p < o}]

LEMMA LowerOrders == ASSUME NEW W \in SUBSET Nat PROVE Orders(Lower(W), W)
<1>1. Lower(W) \in [W -> SUBSET W]
  BY DEF Lower
<1>2. \A x, y \in W : x \in Lower(W)[y] <=> x < y
  BY DEF Lower
<1> HIDE DEF Lower
<1>3. \A x \in W : x \in Nat
  OBVIOUS
<1>4. ASSUME NEW x \in W, NEW y \in W, x \in Lower(W)[y], NEW z \in Lower(W)[x] PROVE z \in Lower(W)[y]
  <2>1. z \in W
    BY <1>1
  <2> QED  BY <1>2, <1>3, <1>4, <2>1
<1>5. (\A x \in W : x \notin Lower(W)[x]) /\ \A x, y \in W : x # y => x \in Lower(W)[y] \/ y \in Lower(W)[x]
  BY <1>2, <1>3
<1> QED  BY <1>1, <1>4, <1>5 DEF Orders

LEMMA MessagesPage ==
    ASSUME TypeOK, NEW s \in Sessions, NEW from \in Nat
    PROVE  LET shown == GetMessages(s, from, TRUE)
               W == {o \in rows[s].ordinals : o >= from}
           IN  /\ shown = pgGetMessages(s, from, TRUE)
               /\ shown \in Seq(W) /\ shown \in Seq(Nat) /\ Increases(shown)
               /\ shown = <<>> => W = {}
               /\ shown # <<>> => /\ Last(shown) \in W
                                 /\ \A o \in W : Has(shown, o) <=> o <= Last(shown)
               /\ Len(shown) < PageSize => \A o \in W : Has(shown, o)
<1> DEFINE W == {o \in rows[s].ordinals : o >= from}
           seq == InOrder(W, Lower(W))
           shown == FirstPage(seq)
<1>1. rows[s].ordinals \in SUBSET Nat /\ IsFiniteSet(rows[s].ordinals)
  BY DEF TypeOK, Typed, Row
<1>2. W \in SUBSET Nat /\ IsFiniteSet(W)
  BY <1>1, FS_Subset
<1>3. GetMessages(s, from, TRUE) = shown /\ pgGetMessages(s, from, TRUE) = shown
  BY DEF GetMessages, pgGetMessages, Lower
<1> HIDE DEF W, seq
<1>4. Orders(Lower(W), W) /\ Sorts(seq, Lower(W), W)
  BY <1>2, LowerOrders, InOrderSorts DEF seq
<1>5. /\ shown \in Seq(W) /\ Len(shown) = Shortest(Len(seq), PageSize)
      /\ \A i, j \in 1..Len(shown) : i < j <=> shown[i] \in Lower(W)[shown[j]]
      /\ Len(seq) <= PageSize => shown = seq
      /\ Len(shown) = 0 => W = {}
      /\ Len(shown) > 0 =>
            \A x \in W : (\E i \in 1..Len(shown) : shown[i] = x) <=> shown[Len(shown)] \notin Lower(W)[x]
  BY <1>4, FirstOfSorted
<1> HIDE DEF shown
<1>6. Len(shown) \in Nat /\ DOMAIN shown = 1..Len(shown) /\ \A i \in 1..Len(shown) : shown[i] \in W
  BY <1>5, LenProperties
<1>7. \A x, y \in W : x \in Lower(W)[y] <=> x < y
  BY DEF Lower
<1>8. Increases(shown)
  BY <1>5, <1>6, <1>7 DEF Increases
<1>9. shown = <<>> => W = {}
  BY <1>5
<1>10. ASSUME shown # <<>> PROVE Last(shown) \in W /\ \A o \in W : Has(shown, o) <=> o <= Last(shown)
  <2>1. Len(shown) > 0
    BY <1>5, <1>6, <1>10, EmptySeq
  <2>2. Last(shown) = shown[Len(shown)] /\ Last(shown) \in W
    BY <1>6, <2>1 DEF Last
  <2>3. ASSUME NEW o \in W PROVE Has(shown, o) <=> o <= Last(shown)
    <3>1. Has(shown, o) <=> Last(shown) \notin Lower(W)[o]
      BY <1>5, <1>6, <2>1, <2>2 DEF Has
    <3>2. Last(shown) \in Nat /\ o \in Nat
      BY <1>2, <2>2
    <3> QED  BY <1>7, <2>2, <3>1, <3>2
  <2> QED  BY <2>2, <2>3
<1>11. ASSUME Len(shown) < PageSize, NEW o \in W PROVE Has(shown, o)
  <2>1. Len(seq) \in Nat /\ PageSize \in Nat
    BY <1>4, ListAssumption, LenProperties DEF Sorts
  <2>2. shown = seq
    BY <1>5, <1>11, <2>1 DEF Shortest
  <2> QED  BY <1>4, <1>6, <2>2 DEF Sorts, Has
<1>12. shown \in Seq(Nat)
  BY <1>2, <1>5, SubSeqType
<1> QED  BY <1>3, <1>5, <1>8, <1>9, <1>10, <1>11, <1>12 DEF W

LEMMA IncreasesOn ==
    ASSUME NEW p \in Seq(Nat), NEW q \in Seq(Nat), Increases(p), Increases(q),
           \A i \in DOMAIN p, j \in DOMAIN q : p[i] < q[j]
    PROVE  Increases(p \o q)
<1>1. Len(p) \in Nat /\ Len(q) \in Nat /\ DOMAIN p = 1..Len(p) /\ DOMAIN q = 1..Len(q)
      /\ DOMAIN (p \o q) = 1..(Len(p) + Len(q))
      /\ (\A i \in 1..Len(p) : (p \o q)[i] = p[i] /\ p[i] \in Nat)
      /\ \A i \in 1..Len(q) : (p \o q)[Len(p) + i] = q[i] /\ q[i] \in Nat
  BY ConcatProperties, LenProperties
<1> DEFINE r == p \o q
<1> HIDE DEF r
<1>2. DOMAIN r = 1..(Len(p) + Len(q)) /\ (\A i \in 1..Len(p) : r[i] = p[i])
      /\ \A i \in 1..Len(q) : r[Len(p) + i] = q[i]
  BY <1>1 DEF r
<1>3. ASSUME NEW i \in DOMAIN r, NEW j \in DOMAIN r PROVE i < j <=> r[i] < r[j]
  <2>1. CASE i \in 1..Len(p) /\ j \in 1..Len(p)
    BY <1>1, <1>2, <2>1 DEF Increases
  <2>2. CASE i \in 1..Len(p) /\ j \notin 1..Len(p)
    <3>1. j - Len(p) \in 1..Len(q) /\ r[j] = q[j - Len(p)]
      <4>1. j - Len(p) \in 1..Len(q) /\ Len(p) + (j - Len(p)) = j
        BY <1>1, <1>2, <2>2
      <4> QED  BY <1>2, <4>1
    <3> QED  BY <1>1, <1>2, <2>2, <3>1
  <2>3. CASE i \notin 1..Len(p) /\ j \in 1..Len(p)
    <3>1. i - Len(p) \in 1..Len(q) /\ r[i] = q[i - Len(p)]
      <4>1. i - Len(p) \in 1..Len(q) /\ Len(p) + (i - Len(p)) = i
        BY <1>1, <1>2, <2>3
      <4> QED  BY <1>2, <4>1
    <3>2. r[j] = p[j] /\ p[j] < q[i - Len(p)] /\ p[j] \in Nat /\ q[i - Len(p)] \in Nat
      BY <1>1, <1>2, <2>3, <3>1
    <3> QED  BY <1>1, <1>2, <2>3, <3>1, <3>2
  <2>4. CASE i \notin 1..Len(p) /\ j \notin 1..Len(p)
    <3>1. i - Len(p) \in 1..Len(q) /\ r[i] = q[i - Len(p)] /\ j - Len(p) \in 1..Len(q) /\ r[j] = q[j - Len(p)]
      <4>1. i - Len(p) \in 1..Len(q) /\ Len(p) + (i - Len(p)) = i
            /\ j - Len(p) \in 1..Len(q) /\ Len(p) + (j - Len(p)) = j
        BY <1>1, <1>2, <2>4
      <4> QED  BY <1>2, <4>1
    <3>2. i - Len(p) < j - Len(p) <=> q[i - Len(p)] < q[j - Len(p)]
      BY <1>1, <3>1 DEF Increases
    <3> QED  BY <1>1, <1>2, <3>1, <3>2
  <2> QED  BY <2>1, <2>2, <2>3, <2>4
<1> QED  BY <1>3 DEF Increases, r

LEMMA OpenMessagesStep == ASSUME IInv, NEW s \in Sessions, OpenMessages(s) PROVE IInv'
<1>1. TypeOK /\ UNCHANGED <<store, rows, links, passing, now, writes>>
  BY DEF IInv, OpenMessages
<1>2. rows[s].count \in Nat /\ rows[s].ordinals \in SUBSET Nat /\ IsFiniteSet(rows[s].ordinals)
      /\ s # 0
  BY <1>1, ListAssumption DEF TypeOK, Typed, Row
<1>3. reader' = [NoReader EXCEPT !.kind = "messages", !.session = s,
                   !.expected = rows[s].count, !.steady = rows[s].ordinals]
  BY DEF OpenMessages
<1>4. /\ reader' \in Reader /\ reader'.kind = "messages" /\ reader'.session = s
      /\ reader'.steady = rows[s].ordinals /\ reader'.offset = 0 /\ reader'.got = <<>>
  BY <1>2, <1>3, NoReaderType DEF Reader
<1>5. Reading'
  BY <1>1, <1>2, <1>4 DEF Reading, Increases, Has
<1>6. Listing' /\ Searching' /\ Finished'
  BY <1>4 DEF Listing, Searching, Finished
<1> QED  BY <1>1, <1>4, <1>5, <1>6, ClientInv DEF ReaderInv

LEMMA NextMessagePageStep == ASSUME IInv, NextMessagePage PROVE IInv'
<1>1. TypeOK /\ UNCHANGED <<store, rows, links, passing, now, writes>> /\ reader.kind = "messages" /\ Reading
  BY DEF IInv, ReaderInv, NextMessagePage
<1>2. reader.session \in Sessions /\ reader.session # 0 /\ reader.offset \in Nat /\ reader.got \in Seq(Nat)
      /\ reader.expected \in Nat /\ reader \in Reader
  BY <1>1, ReaderType DEF Reading
<1> DEFINE shown == GetMessages(reader.session, reader.offset, TRUE)
           W == {o \in rows[reader.session].ordinals : o >= reader.offset}
<1>3. /\ shown = pgGetMessages(reader.session, reader.offset, TRUE)
      /\ shown \in Seq(W) /\ shown \in Seq(Nat) /\ Increases(shown)
      /\ shown = <<>> => W = {}
      /\ shown # <<>> => /\ Last(shown) \in W
                        /\ \A o \in W : Has(shown, o) <=> o <= Last(shown)
      /\ Len(shown) < PageSize => \A o \in W : Has(shown, o)
  BY <1>1, <1>2, MessagesPage
<1>4. reader' = IF shown = <<>> THEN [reader EXCEPT !.kind = "done"]
                ELSE [reader EXCEPT !.got = @ \o shown, !.offset = Last(shown) + 1,
                        !.kind = IF LoaderStops(shown, reader.expected) THEN "done" ELSE "messages"]
  BY <1>3 DEF NextMessagePage
<1>5. W \in SUBSET Nat /\ rows[reader.session].ordinals \in SUBSET Nat
  BY <1>1, <1>2 DEF TypeOK, Typed, Row
<1> HIDE DEF shown, W
<1>6. CASE shown = <<>>
  <2>1. /\ reader' \in Reader /\ reader'.kind = "done" /\ reader'.session = reader.session
        /\ reader'.got = reader.got /\ reader'.steady = reader.steady /\ reader'.offset = reader.offset
        /\ reader'.expected = reader.expected
    BY <1>2, <1>4, <1>6 DEF Reader
  <2>2. ASSUME reader.steady # {}, NEW o \in reader.steady PROVE Has(reader.got, o)
    <3>1. reader.steady = rows[reader.session].ordinals /\ o \notin W
      BY <1>1, <1>3, <1>6, <2>2 DEF Reading
    <3>2. o \in Nat /\ ~(o >= reader.offset)
      BY <1>5, <2>2, <3>1 DEF W
    <3> QED  BY <1>1, <1>2, <2>2, <3>2 DEF Reading
  <2>3. Reading'
    BY <1>1, <1>2, <2>1, <2>2 DEF Reading
  <2>4. Listing' /\ Searching' /\ Finished'
    BY <1>2, <2>1 DEF Listing, Searching, Finished
  <2> QED  BY <1>1, <2>1, <2>3, <2>4, ClientInv DEF ReaderInv
<1>7. CASE shown # <<>>
  <2>1. Last(shown) \in Nat /\ Last(shown) \in W /\ reader.got \o shown \in Seq(Nat)
    BY <1>2, <1>3, <1>5, <1>7, Appended
  <2>2. /\ reader' \in Reader /\ reader'.session = reader.session
        /\ reader'.kind = (IF LoaderStops(shown, reader.expected) THEN "done" ELSE "messages")
        /\ reader'.got = reader.got \o shown /\ reader'.steady = reader.steady
        /\ reader'.offset = Last(shown) + 1 /\ reader'.expected = reader.expected
    <3> DEFINE kind == IF LoaderStops(shown, reader.expected) THEN "done" ELSE "messages"
    <3>1. kind \in {"done", "messages"}
      OBVIOUS
    <3> HIDE DEF kind
    <3>2. reader' = [reader EXCEPT !.got = @ \o shown, !.offset = Last(shown) + 1, !.kind = kind]
      BY <1>4, <1>7 DEF kind
    <3>3. Last(shown) + 1 \in Nat
      BY <2>1
    <3>4. /\ reader' \in Reader /\ reader'.session = reader.session /\ reader'.kind = kind
          /\ reader'.got = reader.got \o shown /\ reader'.steady = reader.steady
          /\ reader'.offset = Last(shown) + 1 /\ reader'.expected = reader.expected
      BY <1>2, <2>1, <3>1, <3>2, <3>3 DEF Reader
    <3> QED  BY <3>4 DEF kind
  <2>3. \A x : Has(reader'.got, x) <=> Has(reader.got, x) \/ Has(shown, x)
    <3>1. ASSUME NEW x PROVE Has(reader.got \o shown, x) <=> Has(reader.got, x) \/ Has(shown, x)
      <4>1. reader.got \in Seq(Nat) /\ shown \in Seq(Nat)
        BY <1>2, <1>3
      <4> QED  BY <4>1, Appended, Zenon
    <3>2. reader'.got = reader.got \o shown
      BY <2>2
    <3> QED  BY <3>1, <3>2
  <2>4. ASSUME reader.steady # {}
        PROVE  /\ IsFiniteSet(reader.steady) /\ Increases(reader'.got)
               /\ \A i \in DOMAIN reader'.got : reader'.got[i] \in reader.steady
               /\ \A o \in reader.steady : o < reader'.offset <=> Has(reader'.got, o)
               /\ (reader'.kind = "done" /\ \A o \in reader.steady : reader.expected > o) =>
                     \A o \in reader.steady : Has(reader'.got, o)
    <3>1. /\ reader.steady = rows[reader.session].ordinals
          /\ IsFiniteSet(reader.steady) /\ Increases(reader.got)
          /\ \A i \in DOMAIN reader.got : reader.got[i] \in reader.steady
          /\ \A o \in reader.steady : o < reader.offset <=> Has(reader.got, o)
      BY <1>1, <1>2, <2>4 DEF Reading
    <3>2. W = {o \in reader.steady : o >= reader.offset} /\ reader.steady \in SUBSET Nat
      BY <1>5, <3>1 DEF W
    <3>3. \A i \in DOMAIN reader.got : reader.got[i] \in reader.steady /\ reader.got[i] < reader.offset
      BY <3>1 DEF Has
    <3>4. \A j \in DOMAIN shown : shown[j] \in W
      BY <1>3, LenProperties
    <3>5. Increases(reader'.got)
      <4>1. \A i \in DOMAIN reader.got, j \in DOMAIN shown : reader.got[i] < shown[j]
        BY <1>2, <3>2, <3>3, <3>4
      <4> QED  BY <1>2, <1>3, <2>2, <3>1, <4>1, IncreasesOn
    <3>6. ASSUME NEW i \in DOMAIN reader'.got PROVE reader'.got[i] \in reader.steady
      <4>1. Has(reader'.got, reader'.got[i])
        BY DEF Has
      <4>2. Has(reader.got, reader'.got[i]) \/ Has(shown, reader'.got[i])
        BY <2>3, <4>1
      <4> QED  BY <3>2, <3>3, <3>4, <4>2 DEF Has
    <3>7. ASSUME NEW o \in reader.steady PROVE Has(reader'.got, o) <=> o < Last(shown) + 1
      <4>1. Has(reader'.got, o) <=> Has(reader.got, o) \/ Has(shown, o)
        BY <2>3
      <4>2. o \in Nat /\ Last(shown) >= reader.offset
        BY <2>1, <3>2
      <4>3. CASE o < reader.offset
        BY <1>2, <2>1, <3>1, <4>1, <4>2, <4>3
      <4>4. CASE ~(o < reader.offset)
        <5>1. o \in W /\ ~Has(reader.got, o)
          BY <1>2, <3>1, <3>2, <4>2, <4>4
        <5>2. Has(shown, o) <=> o <= Last(shown)
          BY <1>3, <1>7, <5>1
        <5> QED  BY <2>1, <4>1, <4>2, <5>1, <5>2
      <4> QED  BY <4>3, <4>4
    <3>8. ASSUME reader'.kind = "done", \A o \in reader.steady : reader.expected > o, NEW o \in reader.steady
          PROVE  Has(reader'.got, o)
      <4>1. Last(shown) + 1 >= reader.expected \/ Len(shown) < PageSize
        BY <2>2, <3>8 DEF LoaderStops
      <4>2. CASE Last(shown) + 1 >= reader.expected
        <5>1. o < Last(shown) + 1
          BY <1>2, <2>1, <3>2, <3>8, <4>2
        <5> QED  BY <3>7, <5>1
      <4>3. CASE Len(shown) < PageSize
        <5>1. o \in W => Has(shown, o)
          BY <1>3, <4>3
        <5>2. o \notin W => Has(reader.got, o)
          BY <1>2, <3>1, <3>2
        <5> QED  BY <2>3, <5>1, <5>2
      <4> QED  BY <4>1, <4>2, <4>3
    <3> QED  BY <2>2, <3>1, <3>5, <3>6, <3>7, <3>8
  <2>5. Reading'
    BY <1>1, <1>2, <2>2, <2>4 DEF Reading
  <2>6. Listing' /\ Searching' /\ Finished'
    BY <1>2, <2>2 DEF Listing, Searching, Finished
  <2> QED  BY <1>1, <2>2, <2>5, <2>6, ClientInv DEF ReaderInv
<1> QED  BY <1>6, <1>7

LEMMA CloseReaderStep == ASSUME IInv, CloseReader PROVE IInv'
<1>1. UNCHANGED <<store, rows, links, passing, now, writes>> /\ reader' = NoReader
  BY DEF CloseReader
<1>2. ReaderInv'
  BY <1>1, NoReaderType DEF ReaderInv, Listing, Searching, Reading, Finished
<1> QED  BY <1>1, <1>2, NoReaderType, ClientInv

-----------------------------------------------------------------------------
(* Steps of the archive, under a client that reads.                        *)

(* What is left of the steady part is a part of it; nothing else moves.    *)
LEMMA ObserveKeeps ==
    ASSUME TypeOK, Observe
    PROVE  /\ reader' \in Reader /\ reader'.kind = reader.kind /\ reader'.filter = reader.filter
           /\ reader'.cursor = reader.cursor /\ reader'.offset = reader.offset
           /\ reader'.session = reader.session /\ reader'.expected = reader.expected
           /\ reader'.got = reader.got /\ reader'.steady \subseteq reader.steady
           /\ reader.kind = "list" =>
                 /\ \A s \in reader'.steady : Key(s)' = Key(s)
                 /\ \A f \in Asked : f = reader.filter => reader'.steady \subseteq Matching(f)'
           /\ reader.kind = "search" => rows' = rows \/ reader'.steady = {}
           /\ reader.kind = "search" /\ rows' = rows => reader'.steady = reader.steady
           /\ reader.kind = "messages" /\ rows'[reader.session] # rows[reader.session] =>
                 reader'.steady = {}
           /\ reader.kind = "messages" /\ rows'[reader.session] = rows[reader.session] =>
                 reader'.steady = reader.steady
           /\ reader.kind = "done" => reader'.steady = reader.steady
<1> DEFINE left(g) == CASE reader.kind = "list" -> {s \in reader.steady : Key(s)' = Key(s)} \cap Matching(g)'
                        [] reader.kind = "search" -> IF rows' = rows THEN reader.steady ELSE {}
                        [] reader.kind = "messages" ->
                             IF rows'[reader.session] = rows[reader.session] THEN reader.steady ELSE {}
                        [] OTHER -> reader.steady
<1>1. PICK g \in {reader.filter} : reader' = [reader EXCEPT !.steady = left(g)]
  BY DEF Observe
<1> DEFINE L == left(g)
<1>2. /\ reader.kind = "list" => L = {s \in reader.steady : Key(s)' = Key(s)} \cap Matching(g)'
      /\ reader.kind = "search" => L = IF rows' = rows THEN reader.steady ELSE {}
      /\ reader.kind = "messages" =>
            L = IF rows'[reader.session] = rows[reader.session] THEN reader.steady ELSE {}
      /\ reader.kind \notin {"list", "search", "messages"} => L = reader.steady
  OBVIOUS
<1>3. L \subseteq reader.steady
  BY <1>2
<1>4. reader' = [reader EXCEPT !.steady = L]
  BY <1>1
<1> HIDE DEF L, left
<1>5. /\ reader' \in Reader /\ reader'.kind = reader.kind /\ reader'.filter = reader.filter
      /\ reader'.cursor = reader.cursor /\ reader'.offset = reader.offset
      /\ reader'.session = reader.session /\ reader'.expected = reader.expected
      /\ reader'.got = reader.got /\ reader'.steady = L
  BY <1>3, <1>4 DEF TypeOK, Reader
<1>6. ASSUME reader.kind = "list", NEW f \in Asked, f = reader.filter
      PROVE  reader'.steady \subseteq Matching(f)'
  <2>1. f = g
    BY <1>1, <1>6
  <2>2. L \subseteq Matching(g)'
    BY <1>2, <1>6
  <2> QED  BY <1>5, <2>1, <2>2
<1> QED  BY <1>2, <1>3, <1>5, <1>6

LEMMA ObserveInv ==
    ASSUME TypeOK, ReaderInv, TypeOK', Observe
    PROVE  ReaderInv'
<1>1. Listing'
  <2>1. SUFFICES ASSUME reader'.kind = "list" PROVE Listing'
    BY DEF Listing
  <2>2. reader.kind = "list" /\ Listing
    BY <2>1, ObserveKeeps DEF ReaderInv
  <2>3. /\ reader'.session = 0 /\ reader'.cursor.id # 0
        /\ \A f \in Asked : f = reader'.filter => reader'.steady \subseteq Matching(f)'
    BY <2>2, ObserveKeeps DEF Listing
  <2>4. \A s \in reader'.steady : IF Before(Key(s)', At(reader'.cursor))
                                  THEN ~Has(reader'.got, s) ELSE Once(reader'.got, s)
    BY <2>2, ObserveKeeps DEF Listing
  <2> QED  BY <2>3, <2>4 DEF Listing, At
<1>2. Searching'
  <2>1. SUFFICES ASSUME reader'.kind = "search" PROVE Searching'
    BY DEF Searching
  <2>2. reader.kind = "search" /\ Searching
    BY <2>1, ObserveKeeps DEF ReaderInv
  <2>3. CASE rows' = rows
    <3>1. \A f : Found(f)' = Found(f) /\ BestFirst(f)' = BestFirst(f)
      BY <2>3, FoundKept
    <3>2. reader'.steady = reader.steady /\ reader'.session = 0 /\ reader'.filter = reader.filter
          /\ reader'.offset = reader.offset /\ reader'.got = reader.got
      BY <2>2, <2>3, ObserveKeeps DEF Searching
    <3> QED  BY <2>2, <3>1, <3>2 DEF Searching
  <2>4. CASE rows' # rows
    BY <2>2, <2>4, ObserveKeeps DEF Searching
  <2> QED  BY <2>3, <2>4
<1>3. Reading'
  <2>1. Reading
    BY DEF ReaderInv
  <2>2. CASE reader.session = 0
    BY <2>1, <2>2, ObserveKeeps DEF Reading
  <2>3. CASE reader.session # 0 /\ reader'.steady = {}
    BY <2>1, <2>3, ObserveKeeps DEF Reading
  <2>4. CASE reader.session # 0 /\ reader'.steady # {}
    <3>1. reader'.kind \in {"messages", "done"} /\ reader.steady # {}
      BY <2>1, <2>4, ObserveKeeps DEF Reading
    <3>2. reader'.steady = reader.steady
      BY <2>4, <3>1, ObserveKeeps
    <3>3. reader.kind = "messages" => rows'[reader.session] = rows[reader.session]
      BY <2>4, ObserveKeeps
    <3>4. /\ reader'.kind = reader.kind /\ reader'.session = reader.session
          /\ reader'.got = reader.got /\ reader'.offset = reader.offset
          /\ reader'.expected = reader.expected
      BY ObserveKeeps
    <3> QED  BY <2>1, <2>4, <3>1, <3>2, <3>3, <3>4 DEF Reading
  <2> QED  BY <2>2, <2>3, <2>4
<1>4. Finished'
  BY ObserveKeeps DEF ReaderInv, Finished
<1> QED  BY <1>1, <1>2, <1>3, <1>4 DEF ReaderInv

LEMMA PassStep == ASSUME IInv, BeginPass \/ EndPass PROVE IInv'
<1>1. UNCHANGED <<store, rows, links, now, writes, reader>> /\ passing' \in BOOLEAN
  BY DEF BeginPass, EndPass
<1>2. TypeOK'
  BY <1>1 DEF IInv, TypeOK
<1>3. /\ \A f : Matching(f)' = Matching(f) /\ Found(f)' = Found(f) /\ BestFirst(f)' = BestFirst(f)
      /\ \A s : Key(s)' = Key(s)
  BY <1>1, MatchingKept, FoundKept
<1>4. ReaderInv'
  BY <1>1, <1>3 DEF IInv, ReaderInv, Listing, Searching, Reading, Finished
<1> QED  BY <1>1, <1>2, <1>4 DEF IInv, SpawnedAreLinked

LEMMA UpsertSessionStep ==
    ASSUME IInv, NEW s \in Sessions, NEW r \in Rows, UpsertSession(s, r)
    PROVE  IInv'
<1> DEFINE q == [r EXCEPT !.stored = TRUE, !.ended = IF @ = 0 THEN 0 ELSE now]
<1>1. TypeOK /\ ReaderInv /\ Observe /\ passing /\ writes > 0 /\ UNCHANGED <<store, passing, now>>
      /\ rows' = [rows EXCEPT ![s] = q] /\ writes' = writes - 1
      /\ spawns' = {p \in spawns : p[1] # s} \cup ({s} \X r.calls)
      /\ fresh' = fresh \cup {s} \cup r.calls
  BY DEF IInv, UpsertSession
<1>2. Typed(q)
  <2>1. r \in Row /\ IsFiniteSet(r.ordinals) /\ now \in Nat
    BY <1>1, ListAssumption DEF TypeOK
  <2>2. q \in Row
    BY <2>1 DEF Row
  <2>3. q.ordinals = r.ordinals
    BY <2>1 DEF Row
  <2> QED  BY <2>1, <2>2, <2>3 DEF Typed
<1> HIDE DEF q
<1>3. TypeOK'
  <2>1. rows' \in [Sessions -> Row] /\ \A t \in Sessions : Typed(rows'[t])
    BY <1>1, <1>2 DEF TypeOK, Typed
  <2>2. spawns' \subseteq Sessions \X Sessions /\ fresh' \subseteq Sessions
    <3>1. r.calls \subseteq Sessions
      BY ListAssumption DEF Row
    <3> QED  BY <1>1, <3>1 DEF TypeOK
  <2>3. reader' \in Reader
    BY <1>1, ObserveKeeps
  <2> QED  BY <1>1, <2>1, <2>2, <2>3 DEF TypeOK
<1>4. ReaderInv'
  BY <1>1, <1>3, ObserveInv
<1>5. SpawnedAreLinked'
  <2>1. ASSUME NEW p \in spawns', p[2] \notin fresh', rows'[p[2]].stored PROVE rows'[p[2]].kind = "subagent"
    <3>1. p \in spawns /\ p[2] # s /\ p[2] \notin fresh
      BY <1>1, <2>1
    <3>2. p[2] \in Sessions
      BY <1>1, <3>1 DEF TypeOK
    <3>3. rows'[p[2]] = rows[p[2]]
      BY <1>1, <3>1, <3>2 DEF TypeOK
    <3> QED  BY <2>1, <3>1, <3>3 DEF IInv, SpawnedAreLinked
  <2> QED  BY <2>1 DEF SpawnedAreLinked
<1> QED  BY <1>3, <1>4, <1>5 DEF IInv

(* A link: every stored callee has become a subagent.                      *)
LEMMA LinkStep == ASSUME IInv, LinkSubagentSessions PROVE IInv'
<1>1. TypeOK /\ ReaderInv /\ Observe /\ UNCHANGED <<store, spawns, passing, now, writes>> /\ fresh' = {}
  BY DEF IInv, LinkSubagentSessions
<1>2. PICK caller \in [Sessions -> Sessions] :
        rows' = [s \in Sessions |-> IF rows[s].stored /\ Linked(s)
                   THEN [rows[s] EXCEPT !.kind = "subagent", !.parent = caller[s]] ELSE rows[s]]
  BY DEF LinkSubagentSessions
<1>3. ASSUME NEW s \in Sessions
      PROVE  /\ Typed(rows'[s])
             /\ rows'[s].stored /\ (\E p \in spawns : p[2] = s) => rows'[s].kind = "subagent"
  <2> DEFINE q == [rows[s] EXCEPT !.kind = "subagent", !.parent = caller[s]]
  <2>1. rows[s] \in Row /\ IsFiniteSet(rows[s].ordinals) /\ caller[s] \in Nat
    BY <1>1, ListAssumption DEF TypeOK, Typed
  <2>2. q \in Row /\ q.ordinals = rows[s].ordinals /\ q.kind = "subagent"
    BY <2>1 DEF Row, Kinds
  <2> HIDE DEF q
  <2>3. rows'[s] = IF rows[s].stored /\ Linked(s) THEN q ELSE rows[s]
    BY <1>2 DEF q
  <2>4. Linked(s) <=> rows[s].kind # "subagent" /\ \E p \in spawns : p[2] = s
    BY DEF Linked
  <2> QED  BY <2>1, <2>2, <2>3, <2>4 DEF Typed
<1>4. TypeOK'
  <2>1. rows' \in [Sessions -> Row]
    BY <1>2, <1>3 DEF Typed
  <2>2. reader' \in Reader
    BY <1>1, ObserveKeeps
  <2> QED  BY <1>1, <1>3, <2>1, <2>2 DEF TypeOK
<1>5. SpawnedAreLinked'
  <2>1. ASSUME NEW p \in spawns, rows'[p[2]].stored PROVE rows'[p[2]].kind = "subagent"
    <3>1. p[2] \in Sessions
      BY <1>1 DEF TypeOK
    <3> QED  BY <1>3, <2>1, <3>1
  <2> QED  BY <1>1, <2>1 DEF SpawnedAreLinked
<1>6. ReaderInv'
  BY <1>1, <1>4, ObserveInv
<1> QED  BY <1>4, <1>5, <1>6 DEF IInv

LEMMA TrashStep == ASSUME IInv, NEW s \in Sessions, Trash(s) PROVE IInv'
<1>1. TypeOK /\ ReaderInv /\ Observe /\ UNCHANGED <<store, links, passing, now>> /\ rows[s].stored
      /\ writes > 0 /\ writes' = writes - 1 /\ rows' = [rows EXCEPT ![s].deleted = ~@]
  BY DEF IInv, Trash
<1> DEFINE q == [rows[s] EXCEPT !.deleted = ~@]
<1>2. /\ q \in Row /\ q.ordinals = rows[s].ordinals /\ q.kind = rows[s].kind
      /\ q.stored = rows[s].stored /\ Typed(rows[s])
  BY <1>1 DEF TypeOK, Typed, Row
<1>3. rows' = [rows EXCEPT ![s] = q]
  BY <1>1
<1> HIDE DEF q
<1>4. rows' \in [Sessions -> Row]
      /\ \A t \in Sessions : /\ Typed(rows'[t]) /\ rows'[t].kind = rows[t].kind
                             /\ rows'[t].stored = rows[t].stored
  BY <1>1, <1>2, <1>3 DEF TypeOK, Typed
<1>5. TypeOK'
  <2>1. reader' \in Reader
    BY <1>1, ObserveKeeps
  <2> QED  BY <1>1, <1>4, <2>1 DEF TypeOK
<1>6. SpawnedAreLinked'
  <2>1. \A p \in spawns : p[2] \in Sessions
    BY <1>1 DEF TypeOK
  <2> QED  BY <1>1, <1>4, <2>1 DEF IInv, SpawnedAreLinked
<1>7. ReaderInv'
  BY <1>1, <1>5, ObserveInv
<1> QED  BY <1>5, <1>6, <1>7 DEF IInv

LEMMA TickStep == ASSUME IInv, Tick PROVE IInv'
<1>1. TypeOK /\ ReaderInv /\ Observe /\ UNCHANGED <<store, rows, links, passing, writes>>
      /\ now' = now + 1
  BY DEF IInv, Tick
<1>2. TypeOK'
  BY <1>1, ObserveKeeps DEF TypeOK
<1>3. ReaderInv'
  BY <1>1, <1>2, ObserveInv
<1> QED  BY <1>1, <1>2, <1>3 DEF IInv, SpawnedAreLinked

LEMMA StutterStep == ASSUME IInv, UNCHANGED vars PROVE IInv'
<1>1. UNCHANGED <<store, rows, links, passing, now, writes, reader>>
  BY DEF vars
<1>2. /\ \A f : Matching(f)' = Matching(f) /\ Found(f)' = Found(f) /\ BestFirst(f)' = BestFirst(f)
      /\ \A s : Key(s)' = Key(s)
  BY <1>1, MatchingKept, FoundKept
<1>3. ReaderInv'
  BY <1>1, <1>2 DEF IInv, ReaderInv, Listing, Searching, Reading, Finished
<1> QED  BY <1>1, <1>3 DEF IInv, TypeOK, SpawnedAreLinked

-----------------------------------------------------------------------------
LEMMA InitInv == Init => IInv
<1>1. SUFFICES ASSUME Init PROVE IInv
  OBVIOUS
<1>2. PICK a \in Archives : store = a.store /\ rows = a.rows
  BY <1>1 DEF Init
<1>3. rows \in [Sessions -> Row] /\ \A s \in Sessions : IsFiniteSet(rows[s].ordinals)
  BY <1>2, ListAssumption
<1>4. spawns = {p \in Sessions \X Sessions : p[2] \in rows[p[1]].calls}
      /\ fresh = Sessions /\ passing = FALSE /\ now = 1 /\ writes = MaxWrites /\ reader = NoReader
  BY <1>1 DEF Init
<1>5. TypeOK
  BY <1>3, <1>4, NoReaderType, ListAssumption DEF TypeOK, Typed
<1>6. SpawnedAreLinked
  <2>1. \A p \in spawns : p[2] \in fresh
    BY <1>4
  <2> QED  BY <2>1 DEF SpawnedAreLinked
<1>7. ReaderInv
  BY <1>4, NoReaderType DEF ReaderInv, Listing, Searching, Reading, Finished
<1> QED  BY <1>5, <1>6, <1>7 DEF IInv

LEMMA NextInv == IInv /\ [Next]_vars => IInv'
<1>1. SUFFICES ASSUME IInv, [Next]_vars PROVE IInv'
  OBVIOUS
<1>2. CASE Client
  <2>1. ASSUME NEW recent \in BOOLEAN, OpenSearch([NoFilter EXCEPT !.recency = recent]) PROVE IInv'
    BY <1>1, <2>1, OpenSearchStep DEF Asked
  <2>2. ASSUME NEW signed \in BOOLEAN, NextListPage(signed) PROVE IInv'
    BY <1>1, <2>2, NextListPageStep
  <2> QED  BY <1>1, <1>2, <2>1, <2>2, OpenListStep, OpenMessagesStep, NextSearchPageStep,
              NextMessagePageStep, CloseReaderStep DEF Client
<1>3. CASE Engine
  BY <1>1, <1>3, PassStep, UpsertSessionStep, LinkStep DEF Engine
<1>4. CASE Tick \/ \E s \in Sessions : Trash(s)
  BY <1>1, <1>4, TickStep, TrashStep
<1>5. CASE UNCHANGED vars
  BY <1>1, <1>5, StutterStep
<1> QED  BY <1>1, <1>2, <1>3, <1>4, <1>5 DEF Next

LEMMA Invariant == Spec => []IInv
<1> QED  BY InitInv, NextInv, PTL DEF Spec

-----------------------------------------------------------------------------
(* Everything is well formed.                                              *)
THEOREM TypeCorrect == Spec => []TypeOK
<1>1. IInv => TypeOK
  BY DEF IInv
<1> QED  BY <1>1, Invariant, PTL

LEMMA TimesOf ==
    ASSUME NEW s
    PROVE  /\ Once(reader.got, s) => Times(s) = 1
           /\ ~Has(reader.got, s) => Times(s) = 0
<1> DEFINE at == {i \in DOMAIN reader.got : reader.got[i] = s}
<1>1. ASSUME Once(reader.got, s) PROVE Cardinality(at) = 1
  <2>1. PICK i : at = {i}
    BY <1>1 DEF Once
  <2> QED  BY <2>1, FS_Singleton
<1>2. ASSUME ~Has(reader.got, s) PROVE Cardinality(at) = 0
  <2>1. at = {}
    BY <1>2 DEF Has
  <2> QED  BY <2>1, FS_EmptySet
<1> QED  BY <1>1, <1>2 DEF Times

(* A client that pages through a list gets every session that matched all  *)
(* the time and did not move exactly once, and never one of them twice,    *)
(* whatever passes, the user and the clock do between two pages.           *)
THEOREM ListsMissNothing == Spec => []PagesMissNothing
<1>1. ASSUME IInv PROVE PagesMissNothing
  <2>1. TypeOK /\ Listing /\ Searching /\ Reading /\ Finished
    BY <1>1 DEF IInv, ReaderInv
  <2>2. ASSUME NEW s \in reader.steady PROVE ~Has(reader.got, s) \/ Once(reader.got, s)
    <3>1. CASE reader.session # 0
      <4>1. Increases(reader.got) /\ reader.got \in Seq(Nat)
        BY <2>1, <2>2, <3>1, ReaderType DEF Reading
      <4>2. \A i \in DOMAIN reader.got : i \in Nat
        BY <4>1, LenProperties
      <4>3. \A i, j \in DOMAIN reader.got : reader.got[i] = reader.got[j] => i = j
        <5>1. \A i \in DOMAIN reader.got : reader.got[i] \in Nat
          BY <4>1, LenProperties
        <5> QED  BY <4>1, <4>2, <5>1 DEF Increases
      <4> QED  BY <4>3, OncePerPage
    <3>2. CASE reader.session = 0 /\ reader.kind = "list"
      BY <2>1, <2>2, <3>2 DEF Listing
    <3>3. CASE reader.session = 0 /\ reader.kind = "search"
      <4> DEFINE f == reader.filter
                 best == BestFirst(f)
      <4>1. f \in Asked /\ reader.offset \in Nat
        BY <2>1, ReaderType
      <4>2. s \in Found(f) /\ reader.offset <= Len(best) /\ reader.got = SubSeq(best, 1, reader.offset)
        BY <2>1, <2>2, <3>3, <4>1 DEF Searching
      <4>3. best \in Seq(Nat) /\ Len(best) \in Nat /\ Once(best, s)
        BY <2>1, <4>2, SearchSorts
      <4> HIDE DEF best
      <4>4. DOMAIN best = 1..Len(best) /\ DOMAIN reader.got = 1..reader.offset
            /\ \A i \in 1..reader.offset : reader.got[i] = best[i]
        BY <4>1, <4>2, <4>3, SubSeqProperties, LenProperties
      <4>5. \A i \in 1..reader.offset : i \in DOMAIN best
        BY <4>1, <4>2, <4>3, <4>4
      <4>6. PICK k \in DOMAIN best : best[k] = s /\ \A j \in DOMAIN best : best[j] = s => j = k
        BY <4>3 DEF Once
      <4>7. \A i \in 1..reader.offset : reader.got[i] = s <=> i = k
        BY <4>4, <4>5, <4>6
      <4>8. CASE k \in 1..reader.offset
        BY <4>4, <4>7, <4>8 DEF Once
      <4>9. CASE k \notin 1..reader.offset
        BY <4>4, <4>7, <4>9 DEF Has
      <4> QED  BY <4>8, <4>9
    <3>4. CASE reader.session = 0 /\ reader.kind \in {"idle", "done"}
      BY <2>1, <2>2, <3>4 DEF Finished
    <3>5. reader.kind \in {"idle", "list", "search", "messages", "done"}
      BY <2>1 DEF TypeOK, Reader
    <3>6. reader.kind = "messages" => reader.session # 0
      BY <2>1 DEF Reading
    <3> QED  BY <3>1, <3>2, <3>3, <3>4, <3>5, <3>6
  <2>3. \A s \in reader.steady : Times(s) <= 1
    BY <2>2, TimesOf
  <2>4. reader.kind = "done" /\ reader.session = 0 => \A s \in reader.steady : Times(s) = 1
    BY <2>1, TimesOf DEF Finished
  <2> QED  BY <2>3, <2>4 DEF PagesMissNothing
<1> QED  BY <1>1, Invariant, PTL

LEMMA LargestExists ==
    ASSUME NEW S \in SUBSET Nat, IsFiniteSet(S), S # {}
    PROVE  Max(S) \in S /\ \A y \in S : y <= Max(S)
<1> DEFINE seq == InOrder(S, Lower(S))
           n == Cardinality(S)
<1>1. Sorts(seq, Lower(S), S)
  BY LowerOrders, InOrderSorts
<1> HIDE DEF seq
<1>2. n \in Nat /\ n # 0 /\ Len(seq) = n
  BY <1>1, FS_CardinalityType, FS_EmptySet DEF Sorts
<1>3. n \in 1..n /\ seq[n] \in S
  BY <1>1, <1>2, LenProperties DEF Sorts
<1>4. ASSUME NEW y \in S PROVE seq[n] >= y
  <2>1. PICK i \in 1..n : seq[i] = y
    BY <1>1, <1>2 DEF Sorts
  <2>2. i < n => y \in Lower(S)[seq[n]]
    BY <1>1, <1>2, <1>3, <2>1 DEF Sorts
  <2>3. i < n => y < seq[n]
    BY <1>3, <2>2 DEF Lower
  <2>4. i = n => y = seq[n]
    BY <2>1
  <2>5. seq[n] \in Nat /\ y \in Nat
    BY <1>3
  <2> QED  BY <1>2, <2>1, <2>3, <2>4, <2>5
<1> DEFINE Largest(x) == x \in S /\ \A y \in S : x >= y
<1>5. \E x \in S : \A y \in S : x >= y
  BY <1>3, <1>4
<1>6. Max(S) \in S /\ \A y \in S : Max(S) >= y
  BY <1>5 DEF Max
<1> QED  BY <1>6

(* What the SDK reads of a session that does not change is a prefix of its *)
(* messages, in order, and the whole when the count covers the ordinals.   *)
THEOREM TranscriptsAreInOrder == Spec => []TranscriptIsAPrefix
<1>1. ASSUME IInv PROVE TranscriptIsAPrefix
  <2>1. SUFFICES ASSUME reader.session # 0, reader.steady # {} PROVE TranscriptIsAPrefix
    BY DEF TranscriptIsAPrefix
  <2>2. /\ IsFiniteSet(reader.steady) /\ Increases(reader.got)
        /\ \A i \in DOMAIN reader.got : reader.got[i] \in reader.steady
        /\ \A o \in reader.steady : o < reader.offset <=> Has(reader.got, o)
        /\ (reader.kind = "done" /\ \A o \in reader.steady : reader.expected > o) =>
              \A o \in reader.steady : Has(reader.got, o)
    BY <1>1, <2>1 DEF IInv, ReaderInv, Reading
  <2>3. reader.steady \in SUBSET Nat /\ reader.offset \in Nat /\ reader.expected \in Nat
    BY <1>1, ReaderType DEF IInv
  <2>4. \A o : Has(reader.got, o) <=> o \in Range(reader.got)
    BY DEF Has, Range
  <2>5. \A i, j \in DOMAIN reader.got : i < j => reader.got[i] < reader.got[j]
    BY <2>2 DEF Increases
  <2>6. ASSUME NEW o \in reader.steady, NEW i \in DOMAIN reader.got, o < reader.got[i]
        PROVE  o \in Range(reader.got)
    <3>1. reader.got[i] \in reader.steady /\ reader.got[i] < reader.offset
      BY <2>2 DEF Has
    <3>2. o < reader.offset
      BY <2>3, <2>6, <3>1
    <3> QED  BY <2>2, <2>4, <3>2
  <2>7. ASSUME reader.kind = "done", reader.expected > Max(reader.steady)
        PROVE  reader.steady \subseteq Range(reader.got)
    <3>1. Max(reader.steady) \in Nat /\ \A o \in reader.steady : o <= Max(reader.steady)
      BY <2>1, <2>2, <2>3, LargestExists
    <3>2. \A o \in reader.steady : reader.expected > o
      BY <2>3, <2>7, <3>1
    <3> QED  BY <2>2, <2>4, <2>7, <3>2
  <2> QED  BY <2>5, <2>6, <2>7 DEF TranscriptIsAPrefix
<1> QED  BY <1>1, Invariant, PTL

(* A listed tree hangs on listed roots and takes in everything visible     *)
(* below them.  However passes end, no session stands apart from its       *)
(* caller that was linked, unless it or its caller was written since.      *)
THEOREM ListedTreesAreWhole == Spec => []TreesAreWhole
<1>1. IInv => TreesAreWhole
  BY TreeHasRoots DEF IInv, TreesAreWhole
<1> QED  BY <1>1, Invariant, PTL

-----------------------------------------------------------------------------
(* The counts beside a list.                                               *)

(* One step of the sum of g over a set, and the sums of all parts of V.    *)
Sum(iter, g, u) ==
    IF u = {} THEN 0 ELSE g[CHOOSE x \in u : TRUE] + iter[u \ {CHOOSE x \in u : TRUE}]
Sums(iter, g, V) == iter = [u \in SUBSET V |-> Sum(iter, g, u)]

(* The parts of V that have at most n elements.                            *)
Upto(V, n) == {u \in SUBSET V : Cardinality(u) <= n}

LEMMA SumsExist ==
    ASSUME NEW V, IsFiniteSet(V), NEW g
    PROVE  \E iter : Sums(iter, g, V)
<1> DEFINE Partial(iter, n) == iter = [u \in Upto(V, n) |-> Sum(iter, g, u)]
           N == Cardinality(V)
           Bad == {n \in 0..N : ~\E iter : Partial(iter, n)}
<1>1. N \in Nat /\ \A u \in SUBSET V : IsFiniteSet(u) /\ Cardinality(u) \in Nat /\ Cardinality(u) <= N
  BY FS_CardinalityType, FS_Subset
<1>2. ASSUME NEW u \in SUBSET V, u # {}
      PROVE  LET rest == u \ {CHOOSE x \in u : TRUE}
             IN  rest \in SUBSET V /\ Cardinality(rest) = Cardinality(u) - 1 /\ Cardinality(u) # 0
  <2>1. (CHOOSE x \in u : TRUE) \in u
    BY <1>2
  <2> QED  BY <1>1, <1>2, <2>1, FS_RemoveElement, FS_EmptySet
<1>3. ASSUME Bad # {} PROVE FALSE
  <2>1. Bad \in SUBSET Nat
    BY <1>1
  <2>2. PICK m \in Bad : \A x \in Bad : m <= x
    BY <1>3, <2>1, SmallestExists
  <2>3. m \in 0..N /\ m \in Nat /\ ~\E iter : Partial(iter, m)
    BY <1>1
  <2>4. m # 0
    <3>1. ASSUME m = 0 PROVE FALSE
      <4> DEFINE f == [u \in Upto(V, m) |-> 0]
      <4>1. \A u \in Upto(V, m) : u = {}
        BY <1>1, <3>1, FS_EmptySet DEF Upto
      <4>2. \A u \in Upto(V, m) : f[u] = Sum(f, g, u)
        BY <4>1 DEF Sum
      <4>3. f = [u \in Upto(V, m) |-> f[u]]
        OBVIOUS
      <4> HIDE DEF f
      <4>4. Partial(f, m)
        BY <4>2, <4>3
      <4> QED  BY <2>3, <4>4
    <3> QED  BY <3>1
  <2>5. PICK h : Partial(h, m - 1)
    BY <1>1, <2>2, <2>3, <2>4
  <2>6. \A u \in Upto(V, m - 1) : h[u] = Sum(h, g, u)
    BY <2>5
  <2> DEFINE f == [u \in Upto(V, m) |-> Sum(h, g, u)]
  <2>7. \A u \in Upto(V, m - 1) : u \in Upto(V, m) /\ f[u] = h[u]
    BY <1>1, <2>3, <2>6 DEF Upto
  <2>8. f = [u \in Upto(V, m) |-> f[u]] /\ \A u \in Upto(V, m) : f[u] = Sum(h, g, u)
    OBVIOUS
  <2> HIDE DEF f
  <2>9. ASSUME NEW u \in Upto(V, m) PROVE f[u] = Sum(f, g, u)
    <3>1. CASE u = {}
      BY <2>8, <3>1 DEF Sum
    <3>2. CASE u # {}
      <4>1. u \ {CHOOSE x \in u : TRUE} \in Upto(V, m - 1)
        BY <1>1, <1>2, <2>3, <3>2 DEF Upto
      <4>2. Sum(f, g, u) = Sum(h, g, u)
        BY <2>7, <3>2, <4>1 DEF Sum
      <4> QED  BY <2>8, <4>2
    <3> QED  BY <2>8, <3>1, <3>2 DEF Sum
  <2>10. Partial(f, m)
    BY <2>9, <2>8
  <2> QED  BY <2>3, <2>10
<1>4. PICK iter : Partial(iter, N)
  BY <1>1, <1>3
<1>5. Upto(V, N) = SUBSET V
  BY <1>1 DEF Upto
<1> QED  BY <1>4, <1>5 DEF Sums


LEMMA SumIsLast ==
    ASSUME NEW V, IsFiniteSet(V), NEW g
    PROVE  \E iter : Sums(iter, g, V) /\ Summed(g, V) = iter[V]
<1> DEFINE iter[u \in SUBSET V] == Sum(iter, g, u)
<1>1. iter = CHOOSE h : Sums(h, g, V)
  BY DEF Sums
<1>2. Sums(iter, g, V)
  BY <1>1, SumsExist
<1>3. Summed(g, V) = iter[V]
  BY DEF Summed, MapThenSumSet, MapThenFoldSet, Sum
<1> QED  BY <1>2, <1>3

(* Strong induction over the parts of a finite set.                        *)
LEMMA PartsInduction ==
    ASSUME NEW V, IsFiniteSet(V), NEW Good,
           \A u \in SUBSET V : (\A w \in SUBSET u : w # u => w \in Good) => u \in Good
    PROVE  \A u \in SUBSET V : u \in Good
<1> DEFINE Bad == {u \in SUBSET V : u \notin Good}
           Sizes == {Cardinality(u) : u \in Bad}
<1>1. \A u \in SUBSET V : IsFiniteSet(u) /\ Cardinality(u) \in Nat
  BY FS_CardinalityType, FS_Subset
<1>2. ASSUME Bad # {} PROVE FALSE
  <2>1. Sizes \in SUBSET Nat /\ Sizes # {}
    BY <1>1, <1>2
  <2>2. PICK m \in Sizes : \A x \in Sizes : m <= x
    <3> HIDE DEF Sizes
    <3> QED  BY <2>1, SmallestExists
  <2>3. PICK u \in Bad : Cardinality(u) = m
    OBVIOUS
  <2>4. ASSUME NEW w \in SUBSET u, w # u PROVE w \in Good
    <3>1. IsFiniteSet(u) /\ Cardinality(u) \in Nat /\ Cardinality(w) \in Nat /\ w \in SUBSET V
      BY <1>1, <2>3
    <3>2. Cardinality(w) <= Cardinality(u) /\ Cardinality(w) # Cardinality(u)
      BY <2>4, <3>1, FS_Subset
    <3>3. w \in Bad => m <= Cardinality(w)
      BY <2>2
    <3>4. w \notin Bad
      BY <2>3, <3>1, <3>2, <3>3
    <3> QED  BY <3>1, <3>4
  <2> QED  BY <2>3, <2>4
<1> QED  BY <1>2

(* The sum over a part does not depend on the set it is a part of.         *)
LEMMA SumOfPart ==
    ASSUME NEW V, IsFiniteSet(V), NEW g, NEW iter, Sums(iter, g, V), NEW W \in SUBSET V
    PROVE  Summed(g, W) = iter[W]
<1>1. IsFiniteSet(W)
  BY FS_Subset
<1>2. PICK it : Sums(it, g, W) /\ Summed(g, W) = it[W]
  BY <1>1, SumIsLast
<1> DEFINE Good == {u \in SUBSET W : it[u] = iter[u]}
<1>3. ASSUME NEW u \in SUBSET W, \A w \in SUBSET u : w # u => w \in Good PROVE u \in Good
  <2>1. it[u] = Sum(it, g, u) /\ iter[u] = Sum(iter, g, u)
    BY <1>2 DEF Sums
  <2>2. CASE u = {}
    BY <2>1, <2>2 DEF Sum
  <2>3. CASE u # {}
    <3>1. u \ {CHOOSE x \in u : TRUE} \in SUBSET u /\ u \ {CHOOSE x \in u : TRUE} # u
      BY <2>3
    <3>2. it[u \ {CHOOSE x \in u : TRUE}] = iter[u \ {CHOOSE x \in u : TRUE}]
      BY <1>3, <3>1
    <3> QED  BY <2>1, <2>3, <3>2 DEF Sum
  <2> QED  BY <2>2, <2>3
<1> HIDE DEF Good
<1>4. W \in Good
  BY <1>1, <1>3, PartsInduction
<1> QED  BY <1>2, <1>4 DEF Good

(* Any element may be the last one added.                                  *)
LEMMA SumStep ==
    ASSUME NEW V, IsFiniteSet(V), NEW g, \A x \in V : g[x] \in Int
    PROVE  /\ Summed(g, {}) = 0
           /\ \A W \in SUBSET V : Summed(g, W) \in Int
           /\ \A W \in SUBSET V : \A y \in W : Summed(g, W) = g[y] + Summed(g, W \ {y})
<1>1. PICK iter : Sums(iter, g, V)
  BY SumsExist
<1>2. \A W \in SUBSET V : Summed(g, W) = iter[W]
  BY <1>1, SumOfPart
<1>3. \A u \in SUBSET V : iter[u] = Sum(iter, g, u)
  BY <1>1 DEF Sums
<1> DEFINE Good == {u \in SUBSET V : iter[u] \in Int /\ \A y \in u : iter[u] = g[y] + iter[u \ {y}]}
<1>4. ASSUME NEW u \in SUBSET V, \A w \in SUBSET u : w # u => w \in Good PROVE u \in Good
  <2>1. CASE u = {}
    <3>1. iter[u] = 0
      BY <1>3, <2>1 DEF Sum
    <3> QED  BY <2>1, <3>1
  <2>2. CASE u # {}
    <3> DEFINE x == CHOOSE y \in u : TRUE
    <3>1. x \in u /\ iter[u] = g[x] + iter[u \ {x}]
      BY <1>3, <2>2 DEF Sum
    <3> HIDE DEF x
    <3>2. u \ {x} \in SUBSET u /\ u \ {x} # u /\ x \in V
      BY <3>1
    <3>3. u \ {x} \in Good
      BY <1>4, <3>2
    <3>4. iter[u] \in Int /\ g[x] \in Int
      BY <3>1, <3>2, <3>3
    <3>5. ASSUME NEW y \in u PROVE iter[u] = g[y] + iter[u \ {y}]
      <4>1. CASE y = x
        BY <3>1, <4>1
      <4>2. CASE y # x
        <5>1. u \ {y} \in SUBSET u /\ u \ {y} # u /\ y \in V /\ y \in u \ {x} /\ x \in u \ {y}
          BY <3>1, <4>2
        <5>2. u \ {y} \in Good
          BY <1>4, <5>1
        <5>3. iter[u \ {x}] = g[y] + iter[(u \ {x}) \ {y}]
          BY <3>3, <5>1
        <5>4. iter[u \ {y}] = g[x] + iter[(u \ {y}) \ {x}]
          BY <5>1, <5>2
        <5>5. (u \ {x}) \ {y} = (u \ {y}) \ {x} /\ (u \ {x}) \ {y} \in SUBSET u /\ (u \ {x}) \ {y} # u
          BY <3>1
        <5>6. iter[(u \ {x}) \ {y}] \in Int /\ g[y] \in Int
          BY <1>4, <5>1, <5>5
        <5>7. iter[(u \ {y}) \ {x}] = iter[(u \ {x}) \ {y}]
          BY <5>5
        <5> QED  BY <3>1, <3>4, <5>3, <5>4, <5>6, <5>7
      <4> QED  BY <4>1, <4>2
    <3> QED  BY <3>4, <3>5
  <2> QED  BY <2>1, <2>2
<1> HIDE DEF Good
<1>5. \A u \in SUBSET V : u \in Good
  BY <1>4, PartsInduction
<1>6. iter[{}] = 0
  BY <1>3 DEF Sum
<1> QED  BY <1>2, <1>5, <1>6 DEF Good

(* Functions that agree have the same sum.                                 *)
LEMMA SameSum ==
    ASSUME NEW V, IsFiniteSet(V), NEW g, NEW h, \A x \in V : g[x] = h[x]
    PROVE  Summed(g, V) = Summed(h, V)
<1>1. PICK it : Sums(it, g, V) /\ Summed(g, V) = it[V]
  BY SumIsLast
<1>2. PICK iu : Sums(iu, h, V) /\ Summed(h, V) = iu[V]
  BY SumIsLast
<1> DEFINE Good == {u \in SUBSET V : it[u] = iu[u]}
<1>3. ASSUME NEW u \in SUBSET V, \A w \in SUBSET u : w # u => w \in Good PROVE u \in Good
  <2>1. it[u] = Sum(it, g, u) /\ iu[u] = Sum(iu, h, u)
    BY <1>1, <1>2 DEF Sums
  <2>2. CASE u = {}
    BY <2>1, <2>2 DEF Sum
  <2>3. CASE u # {}
    <3> DEFINE x == CHOOSE y \in u : TRUE
    <3>1. x \in u /\ it[u] = g[x] + it[u \ {x}] /\ iu[u] = h[x] + iu[u \ {x}]
      BY <2>1, <2>3 DEF Sum
    <3> HIDE DEF x
    <3>2. it[u \ {x}] = iu[u \ {x}] /\ g[x] = h[x]
      BY <1>3, <3>1
    <3> QED  BY <3>1, <3>2
  <2> QED  BY <2>2, <2>3
<1> HIDE DEF Good
<1>4. V \in Good
  BY <1>3, PartsInduction
<1> QED  BY <1>1, <1>2, <1>4 DEF Good

(* The sum over two disjoint sets.                                         *)
LEMMA SumOfUnion ==
    ASSUME NEW V, IsFiniteSet(V), NEW g, \A x \in V : g[x] \in Int,
           NEW A \in SUBSET V, NEW B \in SUBSET V, A \cap B = {}
    PROVE  Summed(g, A \cup B) = Summed(g, A) + Summed(g, B)
<1> DEFINE Good == {u \in SUBSET V : \A w \in SUBSET V :
                       u \cap w = {} => Summed(g, u \cup w) = Summed(g, u) + Summed(g, w)}
<1>1. /\ Summed(g, {}) = 0
      /\ \A W \in SUBSET V : Summed(g, W) \in Int
      /\ \A W \in SUBSET V : \A y \in W : Summed(g, W) = g[y] + Summed(g, W \ {y})
  BY SumStep
<1>2. ASSUME NEW u \in SUBSET V, \A w \in SUBSET u : w # u => w \in Good PROVE u \in Good
  <2> SUFFICES ASSUME NEW w \in SUBSET V, u \cap w = {}
               PROVE  Summed(g, u \cup w) = Summed(g, u) + Summed(g, w)
    OBVIOUS
  <2>1. CASE u = {}
    <3>1. u \cup w = w /\ Summed(g, w) \in Int
      BY <1>1, <2>1
    <3> QED  BY <1>1, <2>1, <3>1
  <2>2. CASE u # {}
    <3>1. PICK y \in u : TRUE
      BY <2>2
    <3>2. /\ (u \cup w) \ {y} = (u \ {y}) \cup w /\ u \cup w \in SUBSET V
          /\ u \ {y} \in SUBSET u /\ u \ {y} # u /\ (u \ {y}) \cap w = {}
      BY <3>1
    <3>3. Summed(g, (u \ {y}) \cup w) = Summed(g, u \ {y}) + Summed(g, w)
      BY <1>2, <3>2
    <3>4. /\ Summed(g, u \cup w) = g[y] + Summed(g, (u \cup w) \ {y})
          /\ Summed(g, u) = g[y] + Summed(g, u \ {y})
      BY <1>1, <3>2
    <3>5. g[y] \in Int /\ Summed(g, u \ {y}) \in Int /\ Summed(g, w) \in Int
      BY <1>1, <3>1
    <3>6. Summed(g, (u \cup w) \ {y}) = Summed(g, (u \ {y}) \cup w)
      BY <3>2
    <3> QED  BY <3>3, <3>4, <3>5, <3>6
  <2> QED  BY <2>1, <2>2
<1> HIDE DEF Good
<1>3. A \in Good
  BY <1>2, PartsInduction
<1> QED  BY <1>3 DEF Good

ClassOf(S, k, v) == {x \in S : k[x] = v}

(* A sum may be taken class by class.                                      *)
LEMMA GroupSums ==
    ASSUME NEW S, IsFiniteSet(S), NEW g, \A x \in S : g[x] \in Int,
           NEW V, IsFiniteSet(V), NEW k, \A x \in S : k[x] \in V,
           NEW h, \A v \in V : h[v] = Summed(g, ClassOf(S, k, v))
    PROVE  /\ \A v \in V : h[v] \in Int
           /\ Summed(h, V) = Summed(g, S) /\ Summed(g, S) \in Int
<1> DEFINE In(u) == {x \in S : k[x] \in u}
           Good == {u \in SUBSET V : Summed(h, u) = Summed(g, In(u))}
<1>1. /\ Summed(g, {}) = 0
      /\ \A W \in SUBSET S : Summed(g, W) \in Int
  BY SumStep
<1>2. \A v \in V : h[v] \in Int
  BY <1>1 DEF ClassOf
<1>3. /\ Summed(h, {}) = 0
      /\ \A W \in SUBSET V : \A y \in W : Summed(h, W) = h[y] + Summed(h, W \ {y})
  BY <1>2, SumStep
<1>4. ASSUME NEW u \in SUBSET V, \A w \in SUBSET u : w # u => w \in Good PROVE u \in Good
  <2>1. CASE u = {}
    <3>1. In(u) = {}
      BY <2>1
    <3> HIDE DEF In
    <3> QED  BY <1>1, <1>3, <2>1, <3>1
  <2>2. CASE u # {}
    <3>1. PICK y \in u : TRUE
      BY <2>2
    <3> DEFINE A == {x \in S : k[x] = y}
               B == In(u \ {y})
    <3>2. In(u) = A \cup B /\ A \cap B = {} /\ A \in SUBSET S /\ B \in SUBSET S
      BY <3>1
    <3>3. Summed(h, u \ {y}) = Summed(g, B)
      <4>1. u \ {y} \in SUBSET u /\ u \ {y} # u
        BY <3>1
      <4> HIDE DEF In
      <4> QED  BY <1>4, <4>1
    <3>4. h[y] = Summed(g, A)
      BY <3>1 DEF ClassOf
    <3> HIDE DEF A, B, In
    <3>5. Summed(g, A \cup B) = Summed(g, A) + Summed(g, B)
      BY <3>2, SumOfUnion
    <3>6. Summed(h, u) = h[y] + Summed(h, u \ {y})
      BY <1>3, <3>1
    <3> QED  BY <3>2, <3>3, <3>4, <3>5, <3>6
  <2> QED  BY <2>1, <2>2
<1>5. V \in Good
  <2> HIDE DEF Good
  <2> QED  BY <1>4, PartsInduction
<1>6. In(V) = S
  OBVIOUS
<1> HIDE DEF In
<1> QED  BY <1>1, <1>2, <1>5, <1>6

(* A set has as many elements as its classes together.                     *)
LEMMA SizeIsSum ==
    ASSUME NEW S, IsFiniteSet(S), NEW g, \A x \in S : g[x] = 1
    PROVE  Summed(g, S) = Cardinality(S)
<1> DEFINE Good == {u \in SUBSET S : Summed(g, u) = Cardinality(u)}
<1>1. /\ Summed(g, {}) = 0
      /\ \A W \in SUBSET S : \A y \in W : Summed(g, W) = g[y] + Summed(g, W \ {y})
  BY SumStep
<1>2. ASSUME NEW u \in SUBSET S, \A w \in SUBSET u : w # u => w \in Good PROVE u \in Good
  <2>1. CASE u = {}
    BY <1>1, <2>1, FS_EmptySet
  <2>2. CASE u # {}
    <3>1. PICK y \in u : TRUE
      BY <2>2
    <3>2. u \ {y} \in SUBSET u /\ u \ {y} # u
      BY <3>1
    <3>3. Summed(g, u \ {y}) = Cardinality(u \ {y})
      BY <1>2, <3>2
    <3>4. IsFiniteSet(u) /\ Cardinality(u) \in Nat /\ Cardinality(u \ {y}) = Cardinality(u) - 1
      BY <3>1, FS_Subset, FS_CardinalityType, FS_RemoveElement
    <3>5. Summed(g, u) = g[y] + Summed(g, u \ {y}) /\ g[y] = 1
      BY <1>1, <3>1
    <3> QED  BY <3>3, <3>4, <3>5
  <2> QED  BY <2>1, <2>2
<1> HIDE DEF Good
<1>3. S \in Good
  BY <1>2, PartsInduction
<1> QED  BY <1>3 DEF Good

(* So do the sizes of the classes.                                         *)
LEMMA GroupSizes ==
    ASSUME NEW S, IsFiniteSet(S), NEW V, IsFiniteSet(V), NEW k, \A x \in S : k[x] \in V,
           NEW h, \A v \in V : h[v] = Cardinality(ClassOf(S, k, v))
    PROVE  Summed(h, V) = Cardinality(S)
<1> DEFINE g == [x \in S |-> 1]
<1>1. ASSUME NEW W \in SUBSET S PROVE Summed(g, W) = Cardinality(W)
  <2>1. IsFiniteSet(W) /\ \A x \in W : g[x] = 1
    BY FS_Subset
  <2> HIDE DEF g
  <2> QED  BY <2>1, SizeIsSum
<1>2. \A x \in S : g[x] \in Int
  OBVIOUS
<1> HIDE DEF g
<1>3. \A v \in V : h[v] = Summed(g, ClassOf(S, k, v))
  BY <1>1 DEF ClassOf
<1>4. Summed(h, V) = Summed(g, S)
  BY <1>2, <1>3, GroupSums
<1> QED  BY <1>1, <1>4

LEMMA ImageIsFinite ==
    ASSUME NEW S, IsFiniteSet(S), NEW f PROVE IsFiniteSet({f[x] : x \in S})
<1> DEFINE T == {f[x] : x \in S}
           g == [x \in S |-> f[x]]
<1>1. g \in Surjection(S, T)
  BY DEF Surjection
<1> HIDE DEF T, g
<1>2. IsFiniteSet(T)
  BY <1>1, FS_Surjection
<1> QED  BY <1>2 DEF T

(* The counts of the classes of a finite set add up to its cardinality.    *)
LEMMA CountsAddUp ==
    ASSUME NEW S, IsFiniteSet(S), NEW k
    PROVE  LET V == {k[s] : s \in S}
               g == [v \in V |-> Cardinality({s \in S : k[s] = v})]
           IN  IsFiniteSet(V) /\ Summed(g, V) = Cardinality(S)
<1> DEFINE V == {k[s] : s \in S}
           g == [v \in V |-> Cardinality({s \in S : k[s] = v})]
<1>1. IsFiniteSet(V)
  BY ImageIsFinite
<1>2. \A s \in S : k[s] \in V
  OBVIOUS
<1>3. \A v \in V : g[v] = Cardinality(ClassOf(S, k, v))
  BY DEF ClassOf
<1> HIDE DEF V, g
<1>4. Summed(g, V) = Cardinality(S)
  BY <1>1, <1>2, <1>3, GroupSizes
<1> QED  BY <1>1, <1>4 DEF V, g

LEMMA ListedAreCountable ==
    ASSUME NEW one \in BOOLEAN, NEW auto \in BOOLEAN
    PROVE  Matching([NoFilter EXCEPT !.oneShots = one, !.automated = auto]) = Countable(one, auto)
<1> DEFINE f == [NoFilter EXCEPT !.oneShots = one, !.automated = auto]
<1>1. /\ f.oneShots = one /\ f.automated = auto /\ ~f.children /\ f.states = {}
      /\ f.project = "" /\ f.notProject = "" /\ f.machines = {} /\ f.agents = {}
      /\ f.from = 0 /\ f.to = 0 /\ f.since = 0 /\ f.min = 0 /\ f.max = 0 /\ f.minHumans = 0
      /\ f.outcomes = {} /\ f.grades = {} /\ f.failures = 0
  BY DEF NoFilter
<1> HIDE DEF f
<1>2. \A r : buildTerminationPredSQLite(f.states, r) /\ pgTerminationPred(f.states, r)
  BY <1>1 DEF buildTerminationPredSQLite, pgTerminationPred
<1>3. \A r : FilterPreds(f, r) <=> auto \/ ~r.automated
  BY <1>1, <1>2 DEF FilterPreds
<1>4. \A r : OneShotPred(f, r) <=> OneShotPred([oneShots |-> one, automated |-> auto], r)
  BY <1>1 DEF OneShotPred
<1>5. \A s : RootMatch(f, s) <=> /\ Root(rows[s])
                                 /\ OneShotPred([oneShots |-> one, automated |-> auto], rows[s])
                                 /\ auto \/ ~rows[s].automated
  BY <1>3, <1>4 DEF RootMatch
<1>6. Countable(one, auto) = {s \in Sessions : RootMatch(f, s)}
  BY <1>5 DEF Countable
<1>7. Matching(f) = {s \in Sessions : RootMatch(f, s)}
  BY <1>1, <1>2 DEF Matching, buildSessionFilter, buildPGSessionFilter
<1> QED  BY <1>6, <1>7 DEF f

(* The counts of a field add up to the sessions they count.                *)
LEMMA CountByAddsUp ==
    ASSUME NEW S, IsFiniteSet(S), NEW field
    PROVE  /\ Summed(CountBy(S, field), DOMAIN CountBy(S, field)) = Cardinality(S)
           /\ DOMAIN CountBy(S, field) = {rows[s][field] : s \in S}
<1> DEFINE k == [s \in S |-> rows[s][field]]
           V == {k[s] : s \in S}
           g == [v \in V |-> Cardinality({s \in S : k[s] = v})]
<1>1. V = {rows[s][field] : s \in S}
  OBVIOUS
<1>2. \A v : {s \in S : k[s] = v} = {s \in S : rows[s][field] = v}
  OBVIOUS
<1>3. CountBy(S, field) = g
  BY <1>1, <1>2 DEF CountBy
<1>4. Summed(g, V) = Cardinality(S)
  <2> HIDE DEF k
  <2> QED  BY CountsAddUp
<1>5. DOMAIN g = V
  OBVIOUS
<1> HIDE DEF g, V
<1> QED  BY <1>1, <1>3, <1>4, <1>5

LEMMA SidebarHolds == SidebarAgrees
<1> SUFFICES ASSUME NEW one \in BOOLEAN, NEW auto \in BOOLEAN
             PROVE  LET listed == Matching([NoFilter EXCEPT !.oneShots = one, !.automated = auto])
                        projects == IF store = "postgres" THEN pgGetProjects(one, auto)
                                    ELSE GetProjects(one, auto)
                        agents == IF store = "postgres" THEN pgGetAgents(one, auto)
                                  ELSE GetAgents(one, auto)
                        stats == IF store = "postgres" THEN pgGetStats(one, auto)
                                 ELSE GetStats(one, auto)
                        machines == IF store = "postgres" THEN pgGetMachines(one, auto)
                                    ELSE GetMachines(one, auto)
                    IN  /\ stats.sessions = Cardinality(listed)
                        /\ Summed(projects, DOMAIN projects) = stats.sessions
                        /\ Summed(agents, DOMAIN agents) =
                              Cardinality({s \in listed : rows[s].agent # ""})
                        /\ Cardinality(DOMAIN projects) = stats.projects
                        /\ stats.machines <= Cardinality(machines)
  BY DEF SidebarAgrees, Summed
<1> DEFINE C == Countable(one, auto)
           A == {s \in C : rows[s].agent # ""}
           stats == Totals(C)
<1>1. Matching([NoFilter EXCEPT !.oneShots = one, !.automated = auto]) = C
  BY ListedAreCountable
<1>2. C \in SUBSET Sessions /\ IsFiniteSet(C) /\ IsFiniteSet(A)
  BY ListAssumption, FS_Subset DEF Countable
<1>3. /\ pgGetStats(one, auto) = stats /\ GetStats(one, auto) = stats
      /\ pgGetProjects(one, auto) = CountBy(C, "project") /\ GetProjects(one, auto) = CountBy(C, "project")
      /\ pgGetAgents(one, auto) = CountBy(A, "agent") /\ GetAgents(one, auto) = CountBy(A, "agent")
      /\ pgGetMachines(one, auto) = GetMachines(one, auto)
  BY DEF pgGetStats, GetStats, pgGetProjects, GetProjects, pgGetAgents, GetAgents, pgGetMachines
<1>4. /\ stats.sessions = Cardinality(C)
      /\ stats.projects = Cardinality({rows[s].project : s \in C})
      /\ stats.machines = Cardinality({rows[s].machine : s \in C})
  BY DEF Totals
<1>5. Summed(CountBy(C, "project"), DOMAIN CountBy(C, "project")) = Cardinality(C)
      /\ DOMAIN CountBy(C, "project") = {rows[s].project : s \in C}
  BY <1>2, CountByAddsUp
<1>6. Summed(CountBy(A, "agent"), DOMAIN CountBy(A, "agent")) = Cardinality(A)
  BY <1>2, CountByAddsUp
<1>7. Cardinality({rows[s].machine : s \in C}) <= Cardinality(GetMachines(one, auto))
  <2> DEFINE all == {t \in Stored :
                        /\ ~rows[t].deleted
                        /\ OneShotPred([oneShots |-> one, automated |-> auto], rows[t])
                        /\ auto \/ ~rows[t].automated}
             few == {rows[s].machine : s \in C}
             many == {rows[s].machine : s \in all}
  <2>1. C \subseteq all /\ all \in SUBSET Sessions
    BY DEF Countable, Root, Visible, Stored
  <2>2. IsFiniteSet(all)
    BY <2>1, ListAssumption, FS_Subset
  <2>3. many = GetMachines(one, auto)
    BY DEF GetMachines
  <2>4. few \in SUBSET many
    BY <2>1
  <2>5. IsFiniteSet(many)
    <3> HIDE DEF all
    <3> DEFINE f == [s \in all |-> rows[s].machine]
    <3>1. f \in Surjection(all, many)
      BY DEF Surjection
    <3> QED  BY <2>2, <3>1, FS_Surjection
  <2> HIDE DEF few, many
  <2>6. Cardinality(few) <= Cardinality(many)
    BY <2>4, <2>5, FS_Subset
  <2> QED  BY <2>3, <2>6 DEF few
<1> HIDE DEF C, A, stats
<1>8. A = {s \in C : rows[s].agent # ""}
  BY DEF A
<1> QED  BY <1>1, <1>3, <1>4, <1>5, <1>6, <1>7, <1>8

(* The counts beside a list are those of the list, for all settings of the *)
(* two switches and whatever the rows hold: projects and agents add up to  *)
(* the sessions listed.                                                    *)
THEOREM CountsAgree == Spec => []SidebarAgrees
<1> QED  BY SidebarHolds, PTL

-----------------------------------------------------------------------------
(* The reports: Dashboard, whose archive holds the rows of SessionIds.     *)

(* Rows are as parsed or as the user marked them, and a page has a query.  *)
Reported ==
    /\ archive = [s \in SessionIds |-> archive[s]]
    /\ \A s \in SessionIds : archive[s].exists => IsRow(archive[s])
    /\ page \in Queries

LEMMA Redecided ==
    ASSUME NEW r, IsRow(r), NEW b PROVE IsRow([r EXCEPT !.deleted = b])
<1> DEFINE q == [r EXCEPT !.deleted = b]
<1>1. q = [k \in DOMAIN r |-> IF k = "deleted" THEN b ELSE r[k]]
  BY DEF IsRow
<1>2. q.msgs = r.msgs /\ q.started = r.started /\ q.created = r.created
  BY <1>1 DEF IsRow
<1>3. DOMAIN q = DOMAIN r /\ q = [k \in DOMAIN q |-> q[k]]
  BY <1>1
<1> HIDE DEF q
<1> QED  BY <1>2, <1>3 DEF IsRow

LEMMA InitReports ==
    ASSUME DashboardAssumption, InitDashboard PROVE Reported
<1>1. archive = [s \in SessionIds |-> Absent] /\ page \in Queries
  BY DEF InitDashboard
<1>2. ~Absent.exists
  BY DEF Absent
<1> QED  BY <1>1, <1>2 DEF Reported

LEMMA StepReports ==
    ASSUME DashboardAssumption, Reported, [NextDashboard]_dashboardVars PROVE Reported'
<1>1. ASSUME NEW s \in SessionIds, NEW r, archive' = [archive EXCEPT ![s] = r],
             IsRow(r), page' = page
      PROVE  Reported'
  BY <1>1 DEF Reported
<1>2. ASSUME NEW s \in SessionIds, NEW b, archive[s].exists, archive' = [archive EXCEPT ![s].deleted = b],
             page' = page
      PROVE  Reported'
  <2>1. IsRow([archive[s] EXCEPT !.deleted = b])
    BY <1>2, Redecided DEF Reported
  <2>2. archive' = [archive EXCEPT ![s] = [archive[s] EXCEPT !.deleted = b]]
    BY <1>2
  <2> QED  BY <1>1, <1>2, <2>1, <2>2
<1>3. ASSUME NEW s \in SessionIds, WriteSession(s) PROVE Reported'
  <2>1. PICK r \in Parsed(s) : archive' = [archive EXCEPT ![s] = r]
    BY <1>3 DEF WriteSession
  <2> QED  BY <1>1, <1>3, <2>1 DEF WriteSession, DashboardAssumption
<1>4. ASSUME NEW s \in SessionIds, SoftDeleteSession(s) PROVE Reported'
  BY <1>2, <1>4 DEF SoftDeleteSession
<1>5. ASSUME NEW s \in SessionIds, RestoreSession(s) PROVE Reported'
  BY <1>2, <1>5 DEF RestoreSession
<1>6. CASE OpenPage
  BY <1>6 DEF OpenPage, Reported
<1>7. CASE UNCHANGED dashboardVars
  BY <1>7 DEF dashboardVars, Reported
<1> QED  BY <1>3, <1>4, <1>5, <1>6, <1>7 DEF NextDashboard

-----------------------------------------------------------------------------
(* Windows.                                                                *)

LEMMA Scaled ==
    ASSUME NEW a \in Int, NEW b \in Int, NEW h \in Nat, a <= b
    PROVE  a * h <= b * h /\ a * h \in Int /\ b * h \in Int
<1>1. a * h \in Int /\ b * h \in Int
  OBVIOUS
<1>2. (b - a) * h >= 0
  OBVIOUS
<1>3. (b - a) * h = b * h - a * h
  OBVIOUS
<1> QED  BY <1>1, <1>2, <1>3

LEMMA Quotient ==
    ASSUME NEW x \in Int, NEW d \in Nat \ {0}
    PROVE  /\ x \div d \in Int
           /\ (x \div d) * d <= x /\ x < (x \div d) * d + d
  OBVIOUS

(* What has a date in the window is let through by the padded bounds.      *)
InZone(f) ==
    /\ f.from \in Int /\ f.to \in Int
    /\ f.zone.before \in -Pad..Pad /\ f.zone.after \in -Pad..Pad /\ f.zone.change \in Int

LEMMA RangeIsPadded ==
    ASSUME DashboardAssumption, NEW f, InZone(f), NEW t \in Int,
           inDateRange(localDate(t, f.zone), f)
    PROVE  utcRange(f, t)
<1> DEFINE off == IF t < f.zone.change THEN f.zone.before ELSE f.zone.after
           day == 24 * HourLength
           local == t + off * HourLength
           date == local \div day
<1>1. HourLength \in Nat \ {0} /\ Pad \in Nat /\ day \in Nat \ {0}
  BY DEF DashboardAssumption
<1>2. off \in Int /\ -Pad <= off /\ off <= Pad
  BY <1>1 DEF InZone
<1>3. off * HourLength <= Pad * HourLength /\ off * HourLength \in Int /\ Pad * HourLength \in Int
  BY <1>1, <1>2, Scaled
<1>4. (-Pad) * HourLength <= off * HourLength /\ (-Pad) * HourLength = -(Pad * HourLength)
  <2>1. -Pad \in Int
    BY <1>1
  <2>2. (-Pad) * HourLength <= off * HourLength
    BY <1>1, <1>2, <2>1, Scaled
  <2>3. (-Pad) * HourLength = -(Pad * HourLength)
    BY <1>1
  <2> QED  BY <2>2, <2>3
<1>5. local \in Int
  BY <1>3
<1>6. date = localDate(t, f.zone)
  BY DEF localDate, localTime, Offset, DayLength
<1> HIDE DEF off, day, local
<1>7. date \in Int /\ date * day <= local /\ local < date * day + day
  BY <1>1, <1>5, Quotient
<1> HIDE DEF date
<1>8. ASSUME f.from # -1 PROVE t >= f.from * day - Pad * HourLength
  <2>1. f.from \in Int /\ date >= f.from
    BY <1>6, <1>8 DEF inDateRange, None, InZone
  <2>2. f.from * day <= date * day /\ f.from * day \in Int /\ date * day \in Int
    BY <1>1, <1>7, <2>1, Scaled
  <2>3. local = t + off * HourLength
    BY DEF local
  <2> QED  BY <1>3, <1>5, <1>7, <2>2, <2>3
<1>9. ASSUME f.to # -1 PROVE t <= (f.to + 1) * day - 1 + Pad * HourLength
  <2>1. f.to \in Int /\ date <= f.to
    BY <1>6, <1>9 DEF inDateRange, None, InZone
  <2>2. date + 1 \in Int /\ f.to + 1 \in Int /\ date + 1 <= f.to + 1
    BY <1>7, <2>1
  <2>3. (date + 1) * day <= (f.to + 1) * day /\ (f.to + 1) * day \in Int
    BY <1>1, <2>2, Scaled
  <2>4. (date + 1) * day = date * day + day
    BY <1>1, <1>7
  <2>5. local = t + off * HourLength
    BY DEF local
  <2>6. date * day \in Int /\ day \in Int
    BY <1>1, <1>7
  <2> QED  BY <1>3, <1>4, <1>5, <1>7, <2>3, <2>4, <2>5, <2>6
<1>10. day = DayLength
  BY DEF day, DayLength
<1> QED  BY <1>8, <1>9, <1>10 DEF utcRange, LowerBound, UpperBound, None

(* The queries' filters.                                                   *)
LEMMA FiltersAreInZone ==
    ASSUME DashboardAssumption, Reported
    PROVE  /\ InZone(parseAnalyticsFilter(page))
           /\ InZone(parseUsageFilter(page))
           /\ parseAnalyticsFilter(page).machines = page.machines
           /\ parseUsageFilter(page).machines = page.machines
<1>1. IsQuery(page)
  BY DEF Reported, DashboardAssumption
<1>2. Today \in Int
  <2>1. DayLength \in Nat \ {0} /\ Now \in Int
    BY DEF DashboardAssumption, DayLength
  <2> QED  BY <2>1, Quotient DEF Today
<1>3. defaultDateRange(page).from \in Int /\ defaultDateRange(page).to \in Int
  BY <1>1, <1>2 DEF defaultDateRange, IsQuery, None
<1>4. InZone(parseAnalyticsFilter(page)) /\ parseAnalyticsFilter(page).machines = page.machines
  BY <1>1, <1>3 DEF parseAnalyticsFilter, InZone, IsQuery
<1>5. InZone(parseUsageFilter(page)) /\ parseUsageFilter(page).machines = page.machines
  BY <1>1, <1>3 DEF parseUsageFilter, InZone, IsQuery
<1> QED  BY <1>4, <1>5

LEMMA LiveRows ==
    ASSUME DashboardAssumption, Reported, NEW s \in Live(archive)
    PROVE  /\ s \in SessionIds /\ s \in Int /\ IsRow(archive[s])
           /\ StartOrCreated(archive[s]) \in Int
<1>1. s \in SessionIds /\ archive[s].exists
  BY DEF Live, Reported
<1>2. IsRow(archive[s])
  BY <1>1 DEF Reported
<1> QED  BY <1>1, <1>2 DEF DashboardAssumption, StartOrCreated, IsRow

LEMMA WindowCovers ==
    ASSUME DashboardAssumption, Reported PROVE WindowIsCovered(parseAnalyticsFilter(page))
<1> DEFINE f == parseAnalyticsFilter(page)
<1>1. InZone(f)
  BY FiltersAreInZone
<1> HIDE DEF f
<1>2. ASSUME NEW s \in Live(archive), inDateRange(DateOf(archive[s], f), f)
      PROVE  utcRange(f, StartOrCreated(archive[s]))
  BY <1>1, <1>2, LiveRows, RangeIsPadded DEF DateOf
<1>3. ASSUME NEW s \in Live(archive)
      PROVE  buildWhere(f, archive[s], "sqlite")
               <=> buildWhereWithDate(f, archive[s]) /\ utcRange(f, StartOrCreated(archive[s]))
  BY DEF buildWhere, Where
<1>4. WindowIsCovered(f)
  BY <1>2, <1>3 DEF WindowIsCovered, Selection, InWindow, filteredSessionIDs
<1> QED  BY <1>4 DEF f

LEMMA WindowsAreAdjacent ==
    ASSUME DashboardAssumption, Reported PROVE WindowsMeet(parseUsageFilter(page))
<1> DEFINE f == parseUsageFilter(page)
<1>1. f.from \in Int /\ f.to \in Int
  BY FiltersAreInZone DEF InZone
<1> HIDE DEF f
<1> DEFINE day == DayLength
<1>2. day \in Nat
  BY DEF DayLength, DashboardAssumption
<1> HIDE DEF day
<1> SUFFICES ASSUME NEW mid \in f.from .. f.to - 1
             PROVE  /\ StartedIn(f, f.from, mid) \cap StartedIn(f, mid + 1, f.to) = {}
                    /\ StartedIn(f, f.from, mid) \cup StartedIn(f, mid + 1, f.to)
                         = StartedIn(f, f.from, f.to)
  BY DEF WindowsMeet, f
<1>3. mid \in Int /\ f.from <= mid + 1 /\ mid + 1 <= f.to + 1
  BY <1>1
<1>4. /\ f.from * day <= (mid + 1) * day /\ (mid + 1) * day <= (f.to + 1) * day
      /\ f.from * day \in Int /\ (mid + 1) * day \in Int /\ (f.to + 1) * day \in Int
  BY <1>1, <1>2, <1>3, Scaled
<1> DEFINE Taken(s, from, to) ==
             StartOrCreated(archive[s]) >= from * day /\ StartOrCreated(archive[s]) < (to + 1) * day
           Others(s) ==
             /\ Len(archive[s].msgs) > 0 /\ archive[s].kind \notin {"subagent", "fork"}
             /\ ~archive[s].deleted /\ Picks(f.agents, archive[s].agent)
             /\ Picks(f.projects, archive[s].project) /\ archive[s].project \notin f.exProjects
<1>5. ASSUME NEW from, NEW to
      PROVE  StartedIn(f, from, to) = {s \in Live(archive) : Others(s) /\ Taken(s, from, to)}
  BY DEF StartedIn, loadSessionsInWindow, DayWindow, day
<1>6. ASSUME NEW s \in Live(archive)
      PROVE  /\ ~(Taken(s, f.from, mid) /\ Taken(s, mid + 1, f.to))
             /\ Taken(s, f.from, mid) \/ Taken(s, mid + 1, f.to) <=> Taken(s, f.from, f.to)
  <2>1. StartOrCreated(archive[s]) \in Int
    BY LiveRows
  <2> QED  BY <1>4, <2>1
<1> HIDE DEF Taken, Others
<1> QED  BY <1>5, <1>6

-----------------------------------------------------------------------------
(* Panels.  A report that groups rows by a key has one entry per key.      *)

ImageOf(S, k) == {k[x] : x \in S}

LEMMA GroupsAddUp ==
    ASSUME NEW S, IsFiniteSet(S), NEW k, NEW report, DOMAIN report = ImageOf(S, k), NEW field,
           NEW g, \A x \in S : g[x] \in Int,
           \A v \in ImageOf(S, k) : report[v][field] = Summed(g, ClassOf(S, k, v))
    PROVE  SumOf(report, field) = Summed(g, S)
<1> DEFINE V == ImageOf(S, k)
           h == [v \in V |-> report[v][field]]
<1>1. SumOf(report, field) = Summed(h, V)
  BY DEF SumOf
<1>2. IsFiniteSet(V) /\ \A x \in S : k[x] \in V
  BY ImageIsFinite DEF ImageOf
<1>3. \A v \in V : h[v] = Summed(g, ClassOf(S, k, v))
  OBVIOUS
<1> HIDE DEF h, V
<1>4. Summed(h, V) = Summed(g, S)
  BY <1>2, <1>3, GroupSums
<1> QED  BY <1>1, <1>4

LEMMA GroupsCountAll ==
    ASSUME NEW S, IsFiniteSet(S), NEW k, NEW report, DOMAIN report = ImageOf(S, k), NEW field,
           \A v \in ImageOf(S, k) : report[v][field] = Cardinality(ClassOf(S, k, v))
    PROVE  SumOf(report, field) = Cardinality(S)
<1> DEFINE V == ImageOf(S, k)
           h == [v \in V |-> report[v][field]]
<1>1. SumOf(report, field) = Summed(h, V)
  BY DEF SumOf
<1>2. IsFiniteSet(V) /\ \A x \in S : k[x] \in V
  BY ImageIsFinite DEF ImageOf
<1>3. \A v \in V : h[v] = Cardinality(ClassOf(S, k, v))
  OBVIOUS
<1> HIDE DEF h, V
<1>4. Summed(h, V) = Cardinality(S)
  BY <1>2, <1>3, GroupSizes
<1> QED  BY <1>1, <1>4

LEMMA BarsCountAll ==
    ASSUME NEW S, IsFiniteSet(S), NEW k, NEW bars, DOMAIN bars = ImageOf(S, k),
           \A v \in ImageOf(S, k) : bars[v] = Cardinality(ClassOf(S, k, v))
    PROVE  Total(bars) = Cardinality(S)
<1> DEFINE V == ImageOf(S, k)
<1>1. IsFiniteSet(V) /\ \A x \in S : k[x] \in V
  BY ImageIsFinite DEF ImageOf
<1> HIDE DEF V
<1>2. Summed(bars, V) = Cardinality(S)
  BY <1>1, GroupSizes DEF V
<1> QED  BY <1>2 DEF Total, V

LEMMA BarsAddUp ==
    ASSUME NEW S, IsFiniteSet(S), NEW k, NEW bars, DOMAIN bars = ImageOf(S, k),
           NEW g, \A x \in S : g[x] \in Int,
           \A v \in ImageOf(S, k) : bars[v] = Summed(g, ClassOf(S, k, v))
    PROVE  Total(bars) = Summed(g, S)
<1> DEFINE V == ImageOf(S, k)
<1>1. IsFiniteSet(V) /\ \A x \in S : k[x] \in V
  BY ImageIsFinite DEF ImageOf
<1> HIDE DEF V
<1>2. Summed(bars, V) = Summed(g, S)
  BY <1>1, GroupSums DEF V
<1> QED  BY <1>2 DEF Total, V

(* The messages and the calls of sessions.                                 *)
SizeIn == [s \in SessionIds |-> Len(archive[s].msgs)]
CallsIn == [s \in SessionIds |-> Calls(archive[s])]

LEMMA LiveIsFinite ==
    ASSUME DashboardAssumption, Reported, NEW S \in SUBSET Live(archive)
    PROVE  IsFiniteSet(S) /\ S \in SUBSET SessionIds
<1>1. Live(archive) \in SUBSET SessionIds /\ IsFiniteSet(SessionIds)
  BY LiveRows DEF DashboardAssumption
<1> QED  BY <1>1, FS_Subset

LEMMA MessagesOf ==
    ASSUME DashboardAssumption, Reported, NEW S \in SUBSET Live(archive)
    PROVE  /\ Messages(archive, S) = Summed(SizeIn, S)
           /\ \A s \in S : SizeIn[s] \in Int
<1> DEFINE here == [s \in S |-> Len(archive[s].msgs)]
<1>1. IsFiniteSet(S) /\ S \in SUBSET SessionIds
  BY LiveIsFinite
<1>2. \A s \in S : here[s] = SizeIn[s]
  BY <1>1 DEF SizeIn
<1>3. \A s \in S : SizeIn[s] \in Int
  BY <1>1, LiveRows DEF SizeIn, IsRow
<1>4. Messages(archive, S) = Summed(here, S)
  BY DEF Messages
<1> HIDE DEF here
<1>5. Summed(here, S) = Summed(SizeIn, S)
  BY <1>1, <1>2, SameSum
<1> QED  BY <1>3, <1>4, <1>5

(* The calls of one message, and of one session.                           *)
RowsAt(s, i, n) == {<<s, i, k>> : k \in 1..n}

LEMMA CallsOfMessage ==
    ASSUME NEW s, NEW i, NEW n \in Nat
    PROVE  IsFiniteSet(RowsAt(s, i, n)) /\ Cardinality(RowsAt(s, i, n)) = n
<1> DEFINE C == {<<s, i, k>> : k \in 1..n}
           f == [k \in 1..n |-> <<s, i, k>>]
<1>1. f \in [1..n -> C]
  OBVIOUS
<1>2. \A a, b \in 1..n : f[a] = f[b] => a = b
  OBVIOUS
<1>3. \A t \in C : \E k \in 1..n : f[k] = t
  OBVIOUS
<1> HIDE DEF C, f
<1>4. ExistsBijection(1..n, C)
  <2>1. f \in Bijection(1..n, C)
    BY <1>1, <1>2, <1>3, Zenon DEF Bijection, Injection, Surjection, IsInjective
  <2> QED  BY <2>1 DEF ExistsBijection
<1>5. IsFiniteSet(1..n) /\ Cardinality(1..n) = n
  BY FS_Interval
<1>6. IsFiniteSet(C) /\ Cardinality(C) = n
  BY <1>4, <1>5, FS_Bijection
<1> QED  BY <1>6 DEF C, RowsAt

RowsIn(s) == UNION {{<<s, i, k>> : k \in DOMAIN archive[s].msgs[i].tools} : i \in DOMAIN archive[s].msgs}

LEMMA CallsOfSession ==
    ASSUME DashboardAssumption, Reported, NEW s \in Live(archive)
    PROVE  /\ IsFiniteSet(RowsIn(s)) /\ Cardinality(RowsIn(s)) = Calls(archive[s])
           /\ Calls(archive[s]) \in Int
<1> DEFINE D == DOMAIN archive[s].msgs
           In(i) == {<<s, i, k>> : k \in DOMAIN archive[s].msgs[i].tools}
           of == [i \in D |-> In(i)]
           len == [i \in D |-> Len(archive[s].msgs[i].tools)]
           R == RowsIn(s)
           index == [x \in R |-> x[2]]
<1>1. IsRow(archive[s])
  BY LiveRows
<1>2. IsFiniteSet(D)
  <2>1. D = 1..Len(archive[s].msgs) /\ Len(archive[s].msgs) \in Int
    BY <1>1 DEF IsRow
  <2> QED  BY <2>1, FS_Interval
<1>3. ASSUME NEW i \in D
      PROVE  /\ IsFiniteSet(In(i)) /\ Cardinality(In(i)) = len[i] /\ len[i] \in Int
             /\ In(i) = ClassOf(R, index, i)
  <2>1. len[i] \in Nat /\ In(i) = RowsAt(s, i, len[i])
    BY <1>1 DEF IsRow, RowsAt
  <2>2. In(i) = ClassOf(R, index, i)
    BY DEF ClassOf, RowsIn
  <2>3. len[i] \in Int
    BY <2>1
  <2> HIDE DEF len
  <2>4. IsFiniteSet(RowsAt(s, i, len[i])) /\ Cardinality(RowsAt(s, i, len[i])) = len[i]
    BY <2>1, CallsOfMessage
  <2> QED  BY <2>1, <2>2, <2>3, <2>4
<1>4. IsFiniteSet(R)
  <2> DEFINE all == {of[i] : i \in D}
  <2>1. IsFiniteSet(all)
    <3> HIDE DEF of
    <3> QED  BY <1>2, ImageIsFinite
  <2>2. \A T \in all : IsFiniteSet(T)
    BY <1>3
  <2>3. R = UNION all
    BY DEF RowsIn
  <2> HIDE DEF all, R
  <2> QED  BY <2>1, <2>2, <2>3, FS_UNION
<1>5. \A x \in R : index[x] \in D
  BY DEF RowsIn
<1>6. \A i \in D : len[i] = Cardinality(ClassOf(R, index, i)) /\ len[i] \in Int
  BY <1>3
<1>7. Calls(archive[s]) = Summed(len, D)
  BY DEF Calls
<1> HIDE DEF R, index, len, D
<1>8. Summed(len, D) = Cardinality(R)
  BY <1>2, <1>4, <1>5, <1>6, GroupSizes
<1>9. Summed(len, D) \in Int
  BY <1>2, <1>6, SumStep
<1> QED  BY <1>4, <1>7, <1>8, <1>9 DEF R

LEMMA CallsOf ==
    ASSUME DashboardAssumption, Reported, NEW S \in SUBSET Live(archive)
    PROVE  /\ mergeActivityToolCalls(archive, S) = Summed(CallsIn, S)
           /\ \A s \in S : CallsIn[s] \in Int
           /\ IsFiniteSet(ToolRows(archive, S))
           /\ Cardinality(ToolRows(archive, S)) = Summed(CallsIn, S)
<1> DEFINE here == [s \in S |-> Calls(archive[s])]
           of == [s \in S |-> RowsIn(s)]
           all == {of[s] : s \in S}
           R == ToolRows(archive, S)
           session == [x \in R |-> x[1]]
<1>1. IsFiniteSet(S) /\ S \in SUBSET SessionIds
  BY LiveIsFinite
<1>2. \A s \in S : here[s] = CallsIn[s] /\ CallsIn[s] = Calls(archive[s])
  BY <1>1 DEF CallsIn
<1>3. \A s \in S : CallsIn[s] \in Int /\ IsFiniteSet(RowsIn(s)) /\ CallsIn[s] = Cardinality(RowsIn(s))
  BY <1>2, CallsOfSession
<1>4. mergeActivityToolCalls(archive, S) = Summed(here, S)
  BY DEF mergeActivityToolCalls
<1>5. R = UNION all
  BY DEF ToolRows, RowsIn
<1>6. IsFiniteSet(R)
  <2>1. IsFiniteSet(all)
    <3> HIDE DEF of
    <3> QED  BY <1>1, ImageIsFinite
  <2>2. \A T \in all : IsFiniteSet(T)
    BY <1>3
  <2> HIDE DEF all, R
  <2> QED  BY <1>5, <2>1, <2>2, FS_UNION
<1>7. \A s \in S : ClassOf(R, session, s) = RowsIn(s)
  BY DEF ClassOf, ToolRows, RowsIn
<1>8. \A x \in R : session[x] \in S
  BY DEF ToolRows
<1>9. \A s \in S : CallsIn[s] = Cardinality(ClassOf(R, session, s))
  BY <1>3, <1>7
<1> HIDE DEF here, R, session
<1>10. Summed(here, S) = Summed(CallsIn, S)
  BY <1>1, <1>2, SameSum
<1>11. Summed(CallsIn, S) = Cardinality(R)
  BY <1>1, <1>6, <1>8, <1>9, GroupSizes
<1> QED  BY <1>3, <1>4, <1>6, <1>10, <1>11 DEF R

(* The entries of the activity panel, each with the rows of its bucket.    *)
LEMMA ActivityRows ==
    ASSUME DashboardAssumption, Reported, NEW f, NEW S \in SUBSET Live(archive), NEW g, NEW asked
    PROVE  LET activity == ActivityOf(archive, f, S, g, asked)
               bucket == [s \in S |-> bucketDate(DateOf(archive[s], f), g)]
           IN  /\ DOMAIN activity = ImageOf(S, bucket)
               /\ \A b \in ImageOf(S, bucket) :
                    /\ activity[b]["sessions"] = Cardinality(ClassOf(S, bucket, b))
                    /\ activity[b]["messages"] = Summed(SizeIn, ClassOf(S, bucket, b))
                    /\ activity[b]["tools"] = Summed(CallsIn, ClassOf(S, bucket, b))
<1> DEFINE activity == ActivityOf(archive, f, S, g, asked)
           bucket == [s \in S |-> bucketDate(DateOf(archive[s], f), g)]
           In(b) == {s \in S : bucketDate(DateOf(archive[s], f), g) = b}
<1>1. DOMAIN activity = {bucketDate(DateOf(archive[s], f), g) : s \in S}
  BY DEF ActivityOf, Groups, Group
<1>2. ASSUME NEW b \in DOMAIN activity
      PROVE  /\ activity[b]["sessions"] = Cardinality(In(b))
             /\ activity[b]["messages"] = Messages(archive, In(b))
             /\ activity[b]["tools"] = mergeActivityToolCalls(archive, In(b))
  BY DEF ActivityOf, Groups, Group
<1>3. DOMAIN activity = ImageOf(S, bucket)
  BY <1>1 DEF ImageOf
<1>4. \A b : In(b) = ClassOf(S, bucket, b) /\ In(b) \in SUBSET Live(archive)
  BY DEF ClassOf
<1> HIDE DEF activity, bucket, In
<1>5. \A b : /\ Messages(archive, In(b)) = Summed(SizeIn, In(b))
             /\ mergeActivityToolCalls(archive, In(b)) = Summed(CallsIn, In(b))
  BY <1>4, MessagesOf, CallsOf
<1>6. \A b \in ImageOf(S, bucket) :
        /\ activity[b]["sessions"] = Cardinality(ClassOf(S, bucket, b))
        /\ activity[b]["messages"] = Summed(SizeIn, ClassOf(S, bucket, b))
        /\ activity[b]["tools"] = Summed(CallsIn, ClassOf(S, bucket, b))
  BY <1>2, <1>3, <1>4, <1>5
<1> QED  BY <1>3, <1>6 DEF activity, bucket

(* The totals every panel must come to.                                    *)
LEMMA WholeWindow ==
    ASSUME DashboardAssumption, Reported, NEW f, NEW S, S = Selection(archive, f, "sqlite")
    PROVE  /\ S \in SUBSET Live(archive) /\ IsFiniteSet(S)
           /\ \A s \in S : inDateRange(DateOf(archive[s], f), f)
           /\ GetAnalyticsSummary(archive, f).totalSessions = Cardinality(S)
           /\ GetAnalyticsSummary(archive, f).totalMessages = Summed(SizeIn, S)
           /\ GetAnalyticsTools(archive, f).total = Summed(CallsIn, S)
<1>1. S \in SUBSET Live(archive) /\ \A s \in S : inDateRange(DateOf(archive[s], f), f)
  BY DEF Selection, InWindow
<1>2. IsFiniteSet(S)
  BY <1>1, LiveIsFinite
<1>3. SummaryOf(archive, f, S).totalSessions = Cardinality(S)
      /\ SummaryOf(archive, f, S).totalMessages = Messages(archive, S)
  BY DEF SummaryOf, Groups, Group
<1>4. ToolsOf(archive, f, S).total = Cardinality(ToolRows(archive, S))
  BY DEF ToolsOf, Groups, Group
<1>5. Messages(archive, S) = Summed(SizeIn, S)
  BY <1>1, MessagesOf
<1>6. Cardinality(ToolRows(archive, S)) = Summed(CallsIn, S)
  BY <1>1, CallsOf
<1> QED  BY <1>1, <1>2, <1>3, <1>4, <1>5, <1>6 DEF GetAnalyticsSummary, GetAnalyticsTools

LEMMA ActivityIsWhole ==
    ASSUME DashboardAssumption, Reported, NEW f, NEW g
    PROVE  ActivityAddsUp(GetAnalyticsActivity(archive, f, g), GetAnalyticsSummary(archive, f),
                          GetAnalyticsTools(archive, f))
<1> DEFINE S == Selection(archive, f, "sqlite")
           asked == [s \in S |-> AskedIn(archive[s], "sqlite")]
           activity == ActivityOf(archive, f, S, g, asked)
           bucket == [s \in S |-> bucketDate(DateOf(archive[s], f), g)]
<1>1. GetAnalyticsActivity(archive, f, g) = activity
  BY DEF GetAnalyticsActivity, ActivityIn
<1> HIDE DEF S, asked
<1>2. /\ S \in SUBSET Live(archive) /\ IsFiniteSet(S)
      /\ GetAnalyticsSummary(archive, f).totalSessions = Cardinality(S)
      /\ GetAnalyticsSummary(archive, f).totalMessages = Summed(SizeIn, S)
      /\ GetAnalyticsTools(archive, f).total = Summed(CallsIn, S)
  BY WholeWindow DEF S
<1>3. /\ DOMAIN activity = ImageOf(S, bucket)
      /\ \A b \in ImageOf(S, bucket) :
           /\ activity[b]["sessions"] = Cardinality(ClassOf(S, bucket, b))
           /\ activity[b]["messages"] = Summed(SizeIn, ClassOf(S, bucket, b))
           /\ activity[b]["tools"] = Summed(CallsIn, ClassOf(S, bucket, b))
  BY <1>2, ActivityRows
<1>4. \A s \in S : SizeIn[s] \in Int /\ CallsIn[s] \in Int
  BY <1>2, MessagesOf, CallsOf
<1> HIDE DEF activity, bucket
<1>5. SumOf(activity, "sessions") = Cardinality(S)
  BY <1>2, <1>3, GroupsCountAll
<1>6. SumOf(activity, "messages") = Summed(SizeIn, S)
  BY <1>2, <1>3, <1>4, GroupsAddUp
<1>7. SumOf(activity, "tools") = Summed(CallsIn, S)
  BY <1>2, <1>3, <1>4, GroupsAddUp
<1> QED  BY <1>1, <1>2, <1>5, <1>6, <1>7 DEF ActivityAddsUp

LEMMA LevelIsShown ==
    ASSUME NEW v \in Int, NEW levels PROVE v > 0 <=> assignLevel(v, levels) > 0
<1> DEFINE C == {i \in 2 .. 4 : v <= levels[i]}
<1>1. IsFiniteSet(2 .. 4) /\ Cardinality(2 .. 4) = 3
  <2>1. 2 \in Int /\ 4 \in Int
    OBVIOUS
  <2>2. IsFiniteSet(2 .. 4) /\ Cardinality(2 .. 4) = IF 2 > 4 THEN 0 ELSE 4 - 2 + 1
    BY <2>1, FS_Interval, Zenon
  <2> QED  BY <2>2
<1>2. C \in SUBSET (2 .. 4)
  OBVIOUS
<1>3. assignLevel(v, levels) = IF v <= 0 THEN 0 ELSE 4 - Cardinality(C)
  BY DEF assignLevel
<1> HIDE DEF C
<1>4. Cardinality(C) \in Nat /\ Cardinality(C) <= 3
  BY <1>1, <1>2, FS_Subset, FS_CardinalityType
<1> QED  BY <1>3, <1>4

(* A window that is not open at either end.                                *)
Closed(f) == InZone(f) /\ f.from # None /\ f.to # None

LEMMA DateIsInt ==
    ASSUME DashboardAssumption, Reported, NEW f, InZone(f), NEW s \in Live(archive)
    PROVE  DateOf(archive[s], f) \in Int
<1> DEFINE t == StartOrCreated(archive[s])
           off == IF t < f.zone.change THEN f.zone.before ELSE f.zone.after
           day == 24 * HourLength
           local == t + off * HourLength
<1>1. HourLength \in Nat \ {0} /\ Pad \in Nat /\ day \in Nat \ {0}
  BY DEF DashboardAssumption
<1>2. t \in Int /\ off \in Int
  BY <1>1, LiveRows DEF InZone
<1>3. DateOf(archive[s], f) = local \div day
  BY DEF DateOf, localDate, localTime, Offset, DayLength
<1> HIDE DEF off, t, day
<1>4. off * HourLength \in Int
  BY <1>1, <1>2, Scaled
<1>5. local \in Int
  BY <1>2, <1>4
<1> HIDE DEF local
<1> QED  BY <1>1, <1>3, <1>5, Quotient

LEMMA FiltersAreClosed ==
    ASSUME DashboardAssumption, Reported
    PROVE  Closed(parseAnalyticsFilter(page)) /\ Closed(parseUsageFilter(page))
<1>1. page \in Queries /\ IsQuery(page)
  BY DEF Reported, DashboardAssumption
<1>2. None # defaultDateRange(page).from /\ None # defaultDateRange(page).to
  BY <1>1 DEF IsQuery
<1> QED  BY <1>2, FiltersAreInZone DEF Closed, parseAnalyticsFilter, parseUsageFilter

LEMMA HeatmapIsWhole ==
    ASSUME DashboardAssumption, Reported, NEW f, Closed(f)
    PROVE  HeatmapAddsUp(GetAnalyticsHeatmap(archive, f, "messages"), f, GetAnalyticsSummary(archive, f))
<1> DEFINE S == Selection(archive, f, "sqlite")
           date == [s \in S |-> DateOf(archive[s], f)]
           on == [d \in ImageOf(S, date) |-> Messages(archive, ClassOf(S, date, d))]
           from == clampFrom(f.from, f.to)
           Value(d) == IF d \in DOMAIN on THEN on[d] ELSE 0
           days == HeatmapOf(archive, f, S, "messages")
           value == [d \in from .. f.to |-> Value(d)]
<1>1. GetAnalyticsHeatmap(archive, f, "messages") = days
  BY DEF GetAnalyticsHeatmap
<1>2. PICK levels : days = [from |-> from, entries |-> [d \in from .. f.to |->
                       [value |-> Value(d), level |-> assignLevel(Value(d), levels)]]]
  <2> DEFINE source == [d \in {DateOf(archive[s], f) : s \in S} |->
                          Metric(archive, "messages", {s \in S : DateOf(archive[s], f) = d})]
             Shown(d) == IF d \in DOMAIN source THEN source[d] ELSE 0
  <2>1. \E levels : days = [from |-> from, entries |-> [d \in from .. f.to |->
                       [value |-> Shown(d), level |-> assignLevel(Shown(d), levels)]]]
    BY DEF HeatmapOf, Groups, Group
  <2>2. \A T : Metric(archive, "messages", T) = Messages(archive, T)
    BY DEF Metric
  <2>3. {DateOf(archive[s], f) : s \in S} = ImageOf(S, date)
    BY DEF ImageOf
  <2>4. \A d : {s \in S : DateOf(archive[s], f) = d} = ClassOf(S, date, d)
    BY DEF ClassOf
  <2>5. source = on
    BY <2>2, <2>3, <2>4
  <2> HIDE DEF source, on, S, days, from
  <2> QED  BY <2>1, <2>5
<1> HIDE DEF S
<1>3. /\ S \in SUBSET Live(archive) /\ IsFiniteSet(S)
      /\ \A s \in S : inDateRange(DateOf(archive[s], f), f)
      /\ GetAnalyticsSummary(archive, f).totalMessages = Summed(SizeIn, S)
  BY WholeWindow DEF S
<1>4. \A s \in S : SizeIn[s] \in Int
  BY <1>3, MessagesOf
<1>5. ASSUME NEW d PROVE Value(d) = Summed(SizeIn, ClassOf(S, date, d)) /\ Value(d) \in Int
  <2>1. ClassOf(S, date, d) \in SUBSET S
    BY DEF ClassOf
  <2>2. Messages(archive, ClassOf(S, date, d)) = Summed(SizeIn, ClassOf(S, date, d))
    BY <1>3, <2>1, MessagesOf
  <2>3. Summed(SizeIn, ClassOf(S, date, d)) \in Int /\ Summed(SizeIn, {}) = 0
    BY <1>3, <1>4, <2>1, SumStep
  <2>4. d \notin ImageOf(S, date) => ClassOf(S, date, d) = {}
    BY DEF ClassOf, ImageOf
  <2> QED  BY <2>2, <2>3, <2>4
<1>6. \A d \in DOMAIN days.entries : days.entries[d].value > 0 <=> days.entries[d].level > 0
  <2>1. ASSUME NEW d PROVE Value(d) > 0 <=> assignLevel(Value(d), levels) > 0
    BY <1>5, LevelIsShown
  <2> HIDE DEF Value, days
  <2> QED  BY <1>2, <2>1
<1>7. ASSUME days.from = f.from PROVE SumOf(days.entries, "value") = Summed(SizeIn, S)
  <2>1. from = f.from
    BY <1>2, <1>7
  <2>2. \A s \in S : date[s] \in from .. f.to
    <3>1. ASSUME NEW s \in S PROVE date[s] \in Int /\ date[s] >= f.from /\ date[s] <= f.to
      <4>1. DateOf(archive[s], f) >= f.from /\ DateOf(archive[s], f) <= f.to
        BY <1>3 DEF inDateRange, Closed
      <4>2. DateOf(archive[s], f) \in Int
        BY <1>3, DateIsInt DEF Closed
      <4> QED  BY <4>1, <4>2
    <3> QED  BY <2>1, <3>1 DEF Closed, InZone
  <2>3. IsFiniteSet(from .. f.to)
    BY <2>1, FS_Interval DEF Closed, InZone
  <2>4. \A d \in from .. f.to : value[d] = Summed(SizeIn, ClassOf(S, date, d))
    BY <1>5
  <2>5. SumOf(days.entries, "value") = Summed(value, from .. f.to)
    <3>1. DOMAIN days.entries = from .. f.to
          /\ \A d \in from .. f.to : days.entries[d]["value"] = Value(d)
      <4> HIDE DEF days, Value, from
      <4>1. days.entries = [d \in from .. f.to |->
                              [value |-> Value(d), level |-> assignLevel(Value(d), levels)]]
        BY <1>2
      <4> QED  BY <4>1
    <3>2. [d \in DOMAIN days.entries |-> days.entries[d]["value"]] = value
      BY <3>1
    <3> HIDE DEF value, days
    <3> QED  BY <3>1, <3>2 DEF SumOf
  <2> DEFINE window == from .. f.to
  <2> HIDE DEF value, date, from, days, window
  <2>6. \A s \in S : date[s] \in window
    BY <2>2 DEF window
  <2>7. IsFiniteSet(window) /\ \A d \in window : value[d] = Summed(SizeIn, ClassOf(S, date, d))
    BY <2>3, <2>4 DEF window
  <2>8. Summed(value, window) = Summed(SizeIn, S)
    BY <1>3, <1>4, <2>6, <2>7, GroupSums
  <2> QED  BY <2>5, <2>8 DEF window
<1> HIDE DEF days
<1> QED  BY <1>1, <1>3, <1>6, <1>7 DEF HeatmapAddsUp

LEMMA SummaryIsWhole ==
    ASSUME DashboardAssumption, Reported, NEW f
    PROVE  SummaryAddsUp(GetAnalyticsSummary(archive, f), GetAnalyticsSessionShape(archive, f),
                         GetAnalyticsSignals(archive, f), GetAnalyticsTools(archive, f),
                         GetAnalyticsProjects(archive, f))
<1> DEFINE S == Selection(archive, f, "sqlite")
           all == SummaryOf(archive, f, S)
           shape == SessionShapeOf(archive, S)
           signals == AggregateSignals(archive, f, S)
           tools == ToolsOf(archive, f, S)
           projects == ProjectsOf(archive, f, S)
<1>1. /\ GetAnalyticsSummary(archive, f) = all /\ GetAnalyticsSessionShape(archive, f) = shape
      /\ GetAnalyticsSignals(archive, f) = signals /\ GetAnalyticsTools(archive, f) = tools
      /\ GetAnalyticsProjects(archive, f) = projects
  BY DEF GetAnalyticsSummary, GetAnalyticsSessionShape, GetAnalyticsSignals, GetAnalyticsTools,
         GetAnalyticsProjects
<1> HIDE DEF S
<1>2. /\ S \in SUBSET Live(archive) /\ IsFiniteSet(S)
      /\ all.totalSessions = Cardinality(S) /\ all.totalMessages = Summed(SizeIn, S)
      /\ tools.total = Summed(CallsIn, S)
  <2> HIDE DEF all, tools
  <2> QED  BY <1>1, WholeWindow DEF S
<1>3. SumOf(projects, "sessions") = Cardinality(S)
  <2> DEFINE k == [s \in S |-> archive[s].project]
  <2>1. DOMAIN projects = {archive[s].project : s \in S}
        /\ \A v \in DOMAIN projects :
             projects[v]["sessions"] = Cardinality({s \in S : archive[s].project = v})
    BY DEF ProjectsOf, Groups, Group
  <2>2. ImageOf(S, k) = {archive[s].project : s \in S}
        /\ \A v : ClassOf(S, k, v) = {s \in S : archive[s].project = v}
    BY DEF ImageOf, ClassOf
  <2> HIDE DEF k, projects
  <2>3. DOMAIN projects = ImageOf(S, k)
        /\ \A v \in ImageOf(S, k) : projects[v]["sessions"] = Cardinality(ClassOf(S, k, v))
    BY <2>1, <2>2
  <2> QED  BY <1>2, <2>3, GroupsCountAll
<1>4. SumOf(all.agents, "messages") = Summed(SizeIn, S)
  <2> DEFINE k == [s \in S |-> archive[s].agent]
             agents == all.agents
  <2>1. DOMAIN agents = {archive[s].agent : s \in S}
        /\ \A v \in DOMAIN agents :
             agents[v]["messages"] = Messages(archive, {s \in S : archive[s].agent = v})
    BY DEF SummaryOf, Groups, Group
  <2>2. ImageOf(S, k) = {archive[s].agent : s \in S}
        /\ \A v : ClassOf(S, k, v) = {s \in S : archive[s].agent = v}
    BY DEF ImageOf, ClassOf
  <2>3. \A v : ClassOf(S, k, v) \in SUBSET S
    BY DEF ClassOf
  <2> HIDE DEF k, agents
  <2>4. \A v : Messages(archive, ClassOf(S, k, v)) = Summed(SizeIn, ClassOf(S, k, v))
    BY <1>2, <2>3, MessagesOf
  <2>5. DOMAIN agents = ImageOf(S, k)
        /\ \A v \in ImageOf(S, k) : agents[v]["messages"] = Summed(SizeIn, ClassOf(S, k, v))
    BY <2>1, <2>2, <2>4
  <2>6. \A s \in S : SizeIn[s] \in Int
    BY <1>2, MessagesOf
  <2>7. SumOf(agents, "messages") = Summed(SizeIn, S)
    BY <1>2, <2>5, <2>6, GroupsAddUp
  <2> QED  BY <2>7 DEF agents
<1>5. shape.count = Cardinality(S) /\ Total(shape.length) = Cardinality(S)
  <2> DEFINE k == [s \in S |-> lengthBucket(Len(archive[s].msgs))]
             bars == shape.length
  <2>1. shape.count = Cardinality(S)
    BY DEF SessionShapeOf
  <2>2. DOMAIN bars = {lengthBucket(Len(archive[s].msgs)) : s \in S}
        /\ \A v \in DOMAIN bars :
             bars[v] = Cardinality({s \in S : lengthBucket(Len(archive[s].msgs)) = v})
    BY DEF SessionShapeOf, Histogram, Groups, Group
  <2>3. ImageOf(S, k) = {lengthBucket(Len(archive[s].msgs)) : s \in S}
        /\ \A v : ClassOf(S, k, v) = {s \in S : lengthBucket(Len(archive[s].msgs)) = v}
    BY DEF ImageOf, ClassOf
  <2> HIDE DEF k, bars
  <2>4. DOMAIN bars = ImageOf(S, k) /\ \A v \in ImageOf(S, k) : bars[v] = Cardinality(ClassOf(S, k, v))
    BY <2>2, <2>3
  <2>5. Total(bars) = Cardinality(S)
    BY <1>2, <2>4, BarsCountAll
  <2> QED  BY <2>1, <2>5 DEF bars
<1>6. signals.scored + signals.unscored = Cardinality(S)
  <2> DEFINE A == {s \in S : archive[s].sig.score # None}
             B == {s \in S : archive[s].sig.score = None}
  <2>1. signals.scored = Cardinality(A) /\ signals.unscored = Cardinality(B)
    BY DEF AggregateSignals, Groups, Group
  <2>2. A \cup B = S /\ A \cap B = {} /\ A \in SUBSET S /\ B \in SUBSET S
    OBVIOUS
  <2> HIDE DEF A, B, signals
  <2>3. IsFiniteSet(A) /\ IsFiniteSet(B) /\ Cardinality(A) \in Nat /\ Cardinality(B) \in Nat
    BY <1>2, <2>2, FS_Subset, FS_CardinalityType
  <2>4. Cardinality(A \cup B) = Cardinality(A) + Cardinality(B) - Cardinality({})
    BY <2>2, <2>3, FS_Union
  <2> QED  BY <2>1, <2>2, <2>3, <2>4, FS_EmptySet
<1>7. SumOf(signals.trend, "count") = Cardinality(S)
  <2> DEFINE k == [s \in S |-> DateOf(archive[s], f)]
             trend == signals.trend
  <2>1. DOMAIN trend = {DateOf(archive[s], f) : s \in S}
        /\ \A v \in DOMAIN trend :
             trend[v] = SignalGroup(archive, {s \in S : DateOf(archive[s], f) = v})
    BY DEF AggregateSignals, Groups, Group
  <2>2. \A T : SignalGroup(archive, T)["count"] = Cardinality(T)
    BY DEF SignalGroup
  <2>3. ImageOf(S, k) = {DateOf(archive[s], f) : s \in S}
        /\ \A v : ClassOf(S, k, v) = {s \in S : DateOf(archive[s], f) = v}
    BY DEF ImageOf, ClassOf
  <2> HIDE DEF k, trend
  <2>4. DOMAIN trend = ImageOf(S, k)
        /\ \A v \in ImageOf(S, k) : trend[v]["count"] = Cardinality(ClassOf(S, k, v))
    BY <2>1, <2>2, <2>3
  <2>5. SumOf(trend, "count") = Cardinality(S)
    BY <1>2, <2>4, GroupsCountAll
  <2> QED  BY <2>5 DEF trend
<1>8. SumOf(tools.byCategory, "count") = Summed(CallsIn, S)
  <2> DEFINE R == ToolRows(archive, S)
             k == [x \in R |-> archive[x[1]].msgs[x[2]].tools[x[3]].cat]
             shares == tools.byCategory
  <2>1. DOMAIN shares = {archive[x[1]].msgs[x[2]].tools[x[3]].cat : x \in R}
        /\ \A v \in DOMAIN shares :
             shares[v]["count"] = Cardinality({x \in R : archive[x[1]].msgs[x[2]].tools[x[3]].cat = v})
    BY DEF ToolsOf, Groups, Group
  <2>2. ImageOf(R, k) = {archive[x[1]].msgs[x[2]].tools[x[3]].cat : x \in R}
        /\ \A v : ClassOf(R, k, v) = {x \in R : archive[x[1]].msgs[x[2]].tools[x[3]].cat = v}
    BY DEF ImageOf, ClassOf
  <2>3. IsFiniteSet(R) /\ Cardinality(R) = Summed(CallsIn, S)
    BY <1>2, CallsOf
  <2> HIDE DEF k, shares, R
  <2>4. DOMAIN shares = ImageOf(R, k)
        /\ \A v \in ImageOf(R, k) : shares[v]["count"] = Cardinality(ClassOf(R, k, v))
    BY <2>1, <2>2
  <2>5. SumOf(shares, "count") = Cardinality(R)
    BY <2>3, <2>4, GroupsCountAll
  <2> QED  BY <2>3, <2>5 DEF shares
<1> HIDE DEF all, shape, signals, tools, projects
<1> QED  BY <1>1, <1>2, <1>3, <1>4, <1>5, <1>6, <1>7, <1>8 DEF SummaryAddsUp

LEMMA SectionsAgreed ==
    ASSUME DashboardAssumption, Reported, NEW f, NEW w
    PROVE  SectionsAgree(GetSessionStats(archive, f, w))
<1> DEFINE S == loadSessionsInWindow(archive, f, w)
           stats == GetSessionStats(archive, f, w)
           totals == computeTotalsAndArchetypes(archive, S)
           bars == computeDistributions(archive, S).users.all.bars
           portfolio == computeAgentPortfolio(archive, S)
           tools == accumulateToolMix(archive, S)
<1>1. /\ stats.totals = totals /\ stats.distributions.users.all.bars = bars
      /\ stats.portfolio = portfolio /\ stats.tools = tools
  BY DEF GetSessionStats
<1>2. S \in SUBSET Live(archive) /\ IsFiniteSet(S)
  <2>1. S \in SUBSET Live(archive)
    BY DEF loadSessionsInWindow
  <2> QED  BY <2>1, LiveIsFinite
<1> HIDE DEF S
<1>3. totals.sessions = Cardinality(S) /\ totals.messages = Summed(SizeIn, S)
  <2>1. totals.sessions = Cardinality(S) /\ totals.messages = Messages(archive, S)
    BY DEF computeTotalsAndArchetypes
  <2> QED  BY <1>2, <2>1, MessagesOf
<1>4. Total(totals.archetypes) = Cardinality(S)
  <2> DEFINE k == [s \in S |-> Label(archive[s])]
             all == totals.archetypes
  <2>1. DOMAIN all = {Label(archive[s]) : s \in S}
        /\ \A v \in DOMAIN all : all[v] = Cardinality({s \in S : Label(archive[s]) = v})
    BY DEF computeTotalsAndArchetypes, Histogram, Groups, Group
  <2>2. ImageOf(S, k) = {Label(archive[s]) : s \in S}
        /\ \A v : ClassOf(S, k, v) = {s \in S : Label(archive[s]) = v}
    BY DEF ImageOf, ClassOf
  <2> HIDE DEF k, all
  <2>3. DOMAIN all = ImageOf(S, k) /\ \A v \in ImageOf(S, k) : all[v] = Cardinality(ClassOf(S, k, v))
    BY <2>1, <2>2
  <2>4. Total(all) = Cardinality(S)
    BY <1>2, <2>3, BarsCountAll
  <2> QED  BY <2>4 DEF all
<1>5. Total(bars) = Cardinality(S)
  <2> DEFINE k == [s \in S |-> Bar(<<2, 6, 16, 31, 51>>, archive[s].userMsgs)]
  <2>1. DOMAIN bars = {Bar(<<2, 6, 16, 31, 51>>, archive[s].userMsgs) : s \in S}
        /\ \A v \in DOMAIN bars :
             bars[v] = Cardinality({s \in S : Bar(<<2, 6, 16, 31, 51>>, archive[s].userMsgs) = v})
    BY DEF computeDistributions, Both, Scoped, Histogram, Groups, Group
  <2>2. ImageOf(S, k) = {Bar(<<2, 6, 16, 31, 51>>, archive[s].userMsgs) : s \in S}
        /\ \A v : ClassOf(S, k, v) = {s \in S : Bar(<<2, 6, 16, 31, 51>>, archive[s].userMsgs) = v}
    BY DEF ImageOf, ClassOf
  <2> HIDE DEF k, bars
  <2>3. DOMAIN bars = ImageOf(S, k) /\ \A v \in ImageOf(S, k) : bars[v] = Cardinality(ClassOf(S, k, v))
    BY <2>1, <2>2
  <2> QED  BY <1>2, <2>3, BarsCountAll
<1>6. Total(portfolio.all.sessions) = Cardinality(S) /\ Total(portfolio.all.messages) = Summed(SizeIn, S)
  <2> DEFINE k == [s \in S |-> archive[s].agent]
             agents == portfolio.all.sessions
             messages == portfolio.all.messages
  <2>1. DOMAIN agents = {archive[s].agent : s \in S}
        /\ \A v \in DOMAIN agents : agents[v] = Cardinality({s \in S : archive[s].agent = v})
    BY DEF computeAgentPortfolio, Histogram, Groups, Group
  <2>2. DOMAIN messages = {archive[s].agent : s \in S}
        /\ \A v \in DOMAIN messages :
             messages[v] = Messages(archive, {s \in S : archive[s].agent = v})
    BY DEF computeAgentPortfolio, Histogram, Groups, Group
  <2>3. ImageOf(S, k) = {archive[s].agent : s \in S}
        /\ \A v : ClassOf(S, k, v) = {s \in S : archive[s].agent = v}
    BY DEF ImageOf, ClassOf
  <2>4. \A v : ClassOf(S, k, v) \in SUBSET S
    BY DEF ClassOf
  <2> HIDE DEF k, agents, messages
  <2>5. \A v : Messages(archive, ClassOf(S, k, v)) = Summed(SizeIn, ClassOf(S, k, v))
    BY <1>2, <2>4, MessagesOf
  <2>6. DOMAIN agents = ImageOf(S, k)
        /\ \A v \in ImageOf(S, k) : agents[v] = Cardinality(ClassOf(S, k, v))
    BY <2>1, <2>3
  <2>7. DOMAIN messages = ImageOf(S, k)
        /\ \A v \in ImageOf(S, k) : messages[v] = Summed(SizeIn, ClassOf(S, k, v))
    BY <2>2, <2>3, <2>5
  <2>8. \A s \in S : SizeIn[s] \in Int
    BY <1>2, MessagesOf
  <2>9. Total(agents) = Cardinality(S)
    BY <1>2, <2>6, BarsCountAll
  <2>10. Total(messages) = Summed(SizeIn, S)
    BY <1>2, <2>7, <2>8, BarsAddUp
  <2> QED  BY <2>9, <2>10 DEF agents, messages
<1>7. Total(tools.byCategory) = tools.total
  <2> DEFINE R == ToolRows(archive, S)
             k == [x \in R |-> archive[x[1]].msgs[x[2]].tools[x[3]].cat]
             shares == tools.byCategory
  <2>1. DOMAIN shares = {archive[x[1]].msgs[x[2]].tools[x[3]].cat : x \in R}
        /\ \A v \in DOMAIN shares :
             shares[v] = Cardinality({x \in R : archive[x[1]].msgs[x[2]].tools[x[3]].cat = v})
    BY DEF accumulateToolMix, Histogram, Groups, Group
  <2>2. tools.total = Cardinality(R)
    BY DEF accumulateToolMix
  <2>3. ImageOf(R, k) = {archive[x[1]].msgs[x[2]].tools[x[3]].cat : x \in R}
        /\ \A v : ClassOf(R, k, v) = {x \in R : archive[x[1]].msgs[x[2]].tools[x[3]].cat = v}
    BY DEF ImageOf, ClassOf
  <2>4. IsFiniteSet(R)
    BY <1>2, CallsOf
  <2> HIDE DEF k, shares, R
  <2>5. DOMAIN shares = ImageOf(R, k)
        /\ \A v \in ImageOf(R, k) : shares[v] = Cardinality(ClassOf(R, k, v))
    BY <2>1, <2>3
  <2>6. Total(shares) = Cardinality(R)
    BY <2>4, <2>5, BarsCountAll
  <2> QED  BY <2>2, <2>6 DEF shares
<1> HIDE DEF totals, bars, portfolio, tools, stats
<1>8. SectionsAgree(stats)
  BY <1>1, <1>3, <1>4, <1>5, <1>6, <1>7 DEF SectionsAgree
<1> QED  BY <1>8 DEF stats

-----------------------------------------------------------------------------
(* Billing.                                                                *)

LEMMA RowsAreFinite ==
    ASSUME DashboardAssumption, Reported PROVE IsFiniteSet(MessageRows(archive))
<1> DEFINE of == [s \in Live(archive) |-> {s} \X DOMAIN archive[s].msgs]
           all == {of[s] : s \in Live(archive)}
<1>1. IsFiniteSet(Live(archive))
  <2>1. Live(archive) \in SUBSET SessionIds
    BY LiveRows
  <2>2. IsFiniteSet(SessionIds)
    BY DEF DashboardAssumption
  <2> QED  BY <2>1, <2>2, FS_Subset
<1>2. of \in Surjection(Live(archive), all)
  BY DEF Surjection
<1>3. IsFiniteSet(all)
  <2> HIDE DEF all, of
  <2> QED  BY <1>1, <1>2, FS_Surjection
<1>4. ASSUME NEW T \in all PROVE IsFiniteSet(T)
  <2>1. PICK s \in Live(archive) : T = {s} \X DOMAIN archive[s].msgs
    BY <1>4
  <2>2. IsFiniteSet({s})
    BY FS_Singleton
  <2>3. IsFiniteSet(DOMAIN archive[s].msgs)
    <3>1. DOMAIN archive[s].msgs = 1..Len(archive[s].msgs) /\ Len(archive[s].msgs) \in Int
      BY LiveRows DEF IsRow
    <3> QED  BY <3>1, FS_Interval
  <2> QED  BY <2>1, <2>2, <2>3, FS_Product
<1>5. MessageRows(archive) = UNION all
  BY DEF MessageRows
<1> HIDE DEF all
<1> QED  BY <1>3, <1>4, <1>5, FS_UNION

LEMMA RowFacts ==
    ASSUME DashboardAssumption, Reported, NEW x \in MessageRows(archive), NEW st
    PROVE  /\ x = <<x[1], x[2]>> /\ x[1] \in Live(archive) /\ x[1] \in Int /\ x[2] \in Int
           /\ Stamp(archive, x, st) \in Int
<1>1. PICK s \in Live(archive) : x \in {s} \X DOMAIN archive[s].msgs
  BY DEF MessageRows
<1>2. x = <<x[1], x[2]>> /\ x[1] = s /\ x[2] \in DOMAIN archive[s].msgs
  BY <1>1
<1>3. s \in Int /\ IsRow(archive[s])
  BY LiveRows
<1>4. x[2] \in Int /\ archive[s].msgs[x[2]].ts \in Int /\ archive[s].started \in Int
  BY <1>2, <1>3 DEF IsRow
<1> QED  BY <1>2, <1>3, <1>4 DEF Stamp, MessageRow

LEMMA EarlierOrders ==
    ASSUME DashboardAssumption, Reported, NEW S \in SUBSET MessageRows(archive), NEW st
    PROVE  Orders([x \in S |-> {y \in S : Earlier(archive, st, y, x)}], S)
<1>1. ASSUME NEW x \in S
      PROVE  /\ x = <<x[1], x[2]>> /\ x[1] \in Int /\ x[2] \in Int
             /\ Stamp(archive, x, st) \in Int
  BY RowFacts
<1>2. ASSUME NEW x \in S PROVE ~Earlier(archive, st, x, x)
  BY <1>1 DEF Earlier
<1>3. ASSUME NEW x \in S, NEW y \in S, NEW z \in S,
             Earlier(archive, st, x, y), Earlier(archive, st, y, z)
      PROVE  Earlier(archive, st, x, z)
  BY <1>1, <1>3 DEF Earlier
<1>4. ASSUME NEW x \in S, NEW y \in S, x # y
      PROVE  Earlier(archive, st, x, y) \/ Earlier(archive, st, y, x)
  <2>1. x[1] # y[1] \/ x[2] # y[2]
    BY <1>1, <1>4
  <2> QED  BY <1>1, <2>1 DEF Earlier
<1> QED  BY <1>2, <1>3, <1>4 DEF Orders

(* Of some rows one is the first.                                          *)
LEMMA FirstRow ==
    ASSUME DashboardAssumption, Reported, NEW S \in SUBSET MessageRows(archive), S # {}, NEW st
    PROVE  \E x \in S : \A y \in S : ~Earlier(archive, st, y, x)
<1> DEFINE before == [x \in S |-> {y \in S : Earlier(archive, st, y, x)}]
           seq == InOrder(S, before)
<1>1. IsFiniteSet(S) /\ Cardinality(S) \in Nat /\ Cardinality(S) # 0
  BY RowsAreFinite, FS_Subset, FS_CardinalityType, FS_EmptySet
<1>2. Orders(before, S)
  BY EarlierOrders
<1>3. \A x \in S, y \in S : y \in before[x] <=> Earlier(archive, st, y, x)
  OBVIOUS
<1> HIDE DEF before
<1>4. Sorts(seq, before, S)
  BY <1>1, <1>2, InOrderSorts
<1>5. 1 \in 1..Len(seq) /\ seq[1] \in S
  BY <1>1, <1>4 DEF Sorts
<1>6. ASSUME NEW y \in S PROVE y \notin before[seq[1]]
  <2>1. PICK j \in 1..Len(seq) : seq[j] = y
    BY <1>4 DEF Sorts
  <2>2. ~(j < 1)
    OBVIOUS
  <2>3. \A i, k \in 1..Len(seq) : i < k <=> seq[i] \in before[seq[k]]
    BY <1>4 DEF Sorts
  <2>4. j < 1 <=> seq[j] \in before[seq[1]]
    BY <1>5, <2>3
  <2> QED  BY <2>1, <2>2, <2>4
<1> HIDE DEF seq
<1> QED  BY <1>3, <1>5, <1>6

LEMMA RangeIsQueried ==
    ASSUME DashboardAssumption, Reported, NEW f, InZone(f), NEW st
    PROVE  InRange(archive, f, st) = DueRows(f, st)
<1>1. ASSUME NEW x \in MessageRows(archive), inDateRange(localDate(Stamp(archive, x, st), f.zone), f)
      PROVE  utcRange(f, Stamp(archive, x, st))
  BY <1>1, RowFacts, RangeIsPadded
<1> QED  BY <1>1 DEF InRange, Queried, DueRows

LEMMA BillsOnce ==
    ASSUME DashboardAssumption, Reported, NEW f, InZone(f), NEW st
    PROVE  BilledOnce(Dedup(archive, f, st), DueRows(f, st))
<1> DEFINE due == DueRows(f, st)
           billed == Dedup(archive, f, st)
           KeyOf(x) == MessageRow(archive, x).key
<1>1. due \in SUBSET MessageRows(archive) /\ InRange(archive, f, st) = due
  BY RangeIsQueried DEF DueRows
<1>2. billed = {x \in due : \/ KeyOf(x) = NoKey
                            \/ ~\E y \in due : KeyOf(y) = KeyOf(x) /\ Earlier(archive, st, y, x)}
  BY <1>1 DEF Dedup
<1> HIDE DEF due, billed
<1>3. ASSUME NEW x \in due PROVE \E z \in billed : KeyOf(z) = KeyOf(x)
  <2>1. CASE KeyOf(x) = NoKey
    BY <1>2, <2>1
  <2>2. CASE KeyOf(x) # NoKey
    <3> DEFINE same == {y \in due : KeyOf(y) = KeyOf(x)}
    <3>1. same \in SUBSET MessageRows(archive) /\ same # {}
      BY <1>1, <1>3
    <3>2. PICK z \in same : \A y \in same : ~Earlier(archive, st, y, z)
      <4> HIDE DEF same
      <4> QED  BY <3>1, FirstRow
    <3>3. z \in due /\ KeyOf(z) = KeyOf(x)
      BY <3>2
    <3>4. ~\E y \in due : KeyOf(y) = KeyOf(z) /\ Earlier(archive, st, y, z)
      BY <3>2, <3>3
    <3> QED  BY <1>2, <3>3, <3>4
  <2> QED  BY <2>1, <2>2
<1>4. KeysOf(billed) = KeysOf(due)
  <2>1. billed \subseteq due
    BY <1>2
  <2> QED  BY <1>3, <2>1 DEF KeysOf
<1>5. ASSUME NEW x \in billed, NEW y \in billed, KeyOf(x) = KeyOf(y), KeyOf(x) # NoKey, x # y PROVE FALSE
  <2>1. x \in due /\ y \in due
    BY <1>2
  <2>2. ~Earlier(archive, st, x, y) /\ ~Earlier(archive, st, y, x)
    BY <1>2, <1>5, <2>1
  <2> DEFINE before == [v \in due |-> {w \in due : Earlier(archive, st, w, v)}]
  <2>3. Orders(before, due)
    BY <1>1, EarlierOrders
  <2>4. x \notin before[y] /\ y \notin before[x]
    BY <2>1, <2>2
  <2> HIDE DEF before
  <2> QED  BY <1>5, <2>1, <2>3, <2>4 DEF Orders
<1> QED  BY <1>4, <1>5 DEF BilledOnce, due, billed

(* The costs of a total, of a slice of a day, of all days, of all slices.  *)
LEMMA TotalCost ==
    ASSUME NEW S, IsFiniteSet(S), NEW f, NEW c, \A x \in S : c[x] = f[x]["cost"]
    PROVE  TotalOf(f, S)["cost"] = Summed(c, S)
<1> DEFINE e == [x \in S |-> f[x]["cost"]]
<1>1. TotalOf(f, S)["cost"] = Summed(e, S)
  BY DEF TotalOf
<1>2. \A x \in S : e[x] = c[x]
  OBVIOUS
<1> HIDE DEF e
<1>3. Summed(e, S) = Summed(c, S)
  BY <1>2, SameSum
<1> QED  BY <1>1, <1>3

(* The costs of a report's keys, and the keys of a day.                    *)
Costed(accum, c) ==
    /\ IsFiniteSet(DOMAIN accum)
    /\ \A k \in DOMAIN accum : c[k] = accum[k]["cost"] /\ c[k] \in Int
KeysOn(accum, d) == {k \in DOMAIN accum : k.date = d}
DaysOf(accum) == {k.date : k \in DOMAIN accum}
ValuesOn(accum, d, by) == {k[by] : k \in KeysOn(accum, d)}
KeysWith(accum, d, by, v) == {k \in KeysOn(accum, d) : k[by] = v}

LEMMA SliceCost ==
    ASSUME NEW accum, NEW c, Costed(accum, c), NEW d, NEW by
    PROVE  /\ DOMAIN Slice(accum, d, by) = ValuesOn(accum, d, by)
           /\ \A v \in ValuesOn(accum, d, by) :
                Slice(accum, d, by)[v]["cost"] = Summed(c, KeysWith(accum, d, by, v))
<1>1. Slice(accum, d, by) =
        [v \in ValuesOn(accum, d, by) |-> TotalOf(accum, KeysWith(accum, d, by, v))]
  BY DEF Slice, KeysOn, ValuesOn, KeysWith
<1>2. ASSUME NEW v PROVE TotalOf(accum, KeysWith(accum, d, by, v))["cost"] = Summed(c, KeysWith(accum, d, by, v))
  <2> DEFINE W == KeysWith(accum, d, by, v)
  <2>1. W \in SUBSET DOMAIN accum
    BY DEF KeysWith, KeysOn
  <2> HIDE DEF W
  <2>2. IsFiniteSet(W) /\ \A x \in W : c[x] = accum[x]["cost"]
    BY <2>1, FS_Subset DEF Costed
  <2>3. TotalOf(accum, W)["cost"] = Summed(c, W)
    BY <2>2, TotalCost
  <2> QED  BY <2>3 DEF W
<1> QED  BY <1>1, <1>2

(* The days of a report add up to its keys.                                *)
LEMMA DaysAddUpToKeys ==
    ASSUME NEW accum, NEW c, Costed(accum, c), NEW saved, NEW breakdowns
    PROVE  DailyOf(accum, saved, breakdowns).totals["cost"] = Summed(c, DOMAIN accum)
<1> DEFINE K == DOMAIN accum
           D == DaysOf(accum)
           daily == [d \in {k.date : k \in DOMAIN accum} |-> Entry(accum, d, breakdowns)]
           sums == [d \in DOMAIN daily |-> daily[d].sum]
           costs == [d \in D |-> sums[d]["cost"]]
           date == [k \in K |-> k.date]
<1>1. DailyOf(accum, saved, breakdowns).totals = TotalOf(sums, D)
  BY DEF DailyOf, DaysOf
<1>2. IsFiniteSet(K) /\ \A k \in K : c[k] \in Int
  BY DEF Costed
<1>3. IsFiniteSet(D)
  <2>1. D = {date[k] : k \in K}
    BY DEF DaysOf
  <2> HIDE DEF date, K, D
  <2> QED  BY <1>2, <2>1, ImageIsFinite
<1>4. ASSUME NEW d \in D PROVE costs[d] = Summed(c, ClassOf(K, date, d))
  <2> DEFINE models == Slice(accum, d, "model")
             M == DOMAIN models
             day == KeysOn(accum, d)
             model == [k \in day |-> k["model"]]
             each == [m \in M |-> models[m]["cost"]]
  <2>1. d \in DOMAIN daily /\ sums[d] = Entry(accum, d, breakdowns).sum
    BY DEF DaysOf
  <2>2. Entry(accum, d, breakdowns).sum = TotalOf(models, M)
    BY DEF Entry
  <2>3. M = {model[k] : k \in day} /\ \A m \in M : models[m]["cost"] = Summed(c, ClassOf(day, model, m))
    <3>1. /\ M = ValuesOn(accum, d, "model")
          /\ \A m \in ValuesOn(accum, d, "model") :
               models[m]["cost"] = Summed(c, KeysWith(accum, d, "model", m))
      BY SliceCost
    <3>2. ValuesOn(accum, d, "model") = {model[k] : k \in day}
      BY DEF ValuesOn
    <3>3. \A m : KeysWith(accum, d, "model", m) = ClassOf(day, model, m)
      BY DEF KeysWith, ClassOf
    <3> QED  BY <3>1, <3>2, <3>3
  <2>4. day \in SUBSET K
    BY DEF KeysOn
  <2>5. IsFiniteSet(day) /\ \A k \in day : c[k] \in Int
    BY <1>2, <2>4, FS_Subset
  <2>6. ClassOf(K, date, d) = day
    BY DEF ClassOf, KeysOn
  <2>7. \A k \in day : model[k] \in M
    BY <2>3
  <2>8. \A m \in M : each[m] = models[m]["cost"]
    OBVIOUS
  <2>9. costs[d] = TotalOf(models, M)["cost"]
    BY <2>1, <2>2
  <2> HIDE DEF M, models, day, model, each, costs, sums, daily
  <2>10. IsFiniteSet(M)
    BY <2>3, <2>5, ImageIsFinite
  <2>11. TotalOf(models, M)["cost"] = Summed(each, M)
    BY <2>8, <2>10, TotalCost
  <2>12. \A m \in M : each[m] = Summed(c, ClassOf(day, model, m))
    BY <2>3, <2>8
  <2>13. Summed(each, M) = Summed(c, day)
    BY <2>5, <2>7, <2>10, <2>12, GroupSums
  <2> QED  BY <2>6, <2>9, <2>11, <2>13
<1>5. \A k \in K : date[k] \in D
  BY DEF DaysOf
<1>6. \A d \in D : costs[d] = sums[d]["cost"]
  OBVIOUS
<1> HIDE DEF costs, sums, daily, date, D, K
<1>7. TotalOf(sums, D)["cost"] = Summed(costs, D)
  BY <1>3, <1>6, TotalCost
<1>8. Summed(costs, D) = Summed(c, K)
  BY <1>2, <1>3, <1>4, <1>5, GroupSums
<1> QED  BY <1>1, <1>7, <1>8 DEF K

(* So do the slices of all days, whatever they are made by.                *)
LEMMA SlicesAddUpToKeys ==
    ASSUME NEW accum, NEW c, Costed(accum, c), NEW daily, NEW slice, NEW by,
           DOMAIN daily = DaysOf(accum),
           \A d \in DaysOf(accum) : daily[d][slice] = Slice(accum, d, by)
    PROVE  SumOf(Fold(daily, slice), "cost") = Summed(c, DOMAIN accum)
<1> DEFINE K == DOMAIN accum
           D == DaysOf(accum)
           On(v) == {d \in DOMAIN daily : v \in DOMAIN daily[d][slice]}
           names == UNION {DOMAIN daily[d][slice] : d \in DOMAIN daily}
           fold == Fold(daily, slice)
           value == [k \in K |-> k[by]]
           each == [v \in DOMAIN fold |-> fold[v]["cost"]]
<1>1. fold = [v \in names |-> TotalOf([d \in On(v) |-> daily[d][slice][v]], On(v))]
  BY DEF Fold
<1>2. IsFiniteSet(K) /\ \A k \in K : c[k] \in Int
  BY DEF Costed
<1>3. names = {value[k] : k \in K}
  <2>1. names = UNION {DOMAIN Slice(accum, d, by) : d \in D}
    OBVIOUS
  <2>2. \A d : DOMAIN Slice(accum, d, by) = ValuesOn(accum, d, by)
    BY SliceCost
  <2>3. names = UNION {ValuesOn(accum, d, by) : d \in D}
    BY <2>1, <2>2
  <2>4. ASSUME NEW v \in names PROVE v \in {value[k] : k \in K}
    <3>1. PICK d \in D : v \in ValuesOn(accum, d, by)
      BY <2>3
    <3>2. PICK k \in KeysOn(accum, d) : v = k[by]
      BY <3>1 DEF ValuesOn
    <3> QED  BY <3>2 DEF KeysOn
  <2>5. ASSUME NEW k \in K PROVE value[k] \in names
    <3>1. k \in KeysOn(accum, k.date) /\ k.date \in D
      BY DEF KeysOn, DaysOf
    <3>2. k[by] \in ValuesOn(accum, k.date, by)
      BY <3>1 DEF ValuesOn
    <3> QED  BY <2>3, <3>1, <3>2
  <2> HIDE DEF names, value
  <2> QED  BY <2>4, <2>5
<1>4. IsFiniteSet(names)
  <2> HIDE DEF names, value, K
  <2> QED  BY <1>2, <1>3, ImageIsFinite
<1>5. ASSUME NEW v \in names PROVE fold[v]["cost"] = Summed(c, ClassOf(K, value, v))
  <2> DEFINE Kv == ClassOf(K, value, v)
             Dv == On(v)
             parts == [d \in Dv |-> daily[d][slice][v]]
             costs == [d \in Dv |-> parts[d]["cost"]]
             date == [k \in Kv |-> k.date]
  <2>1. fold[v] = TotalOf(parts, Dv)
    BY <1>1
  <2>2. \A d \in D : DOMAIN Slice(accum, d, by) = ValuesOn(accum, d, by)
    BY SliceCost
  <2>3. Dv = {d \in D : v \in ValuesOn(accum, d, by)}
    BY <2>2
  <2>4. Kv = {k \in K : k[by] = v}
    BY DEF ClassOf
  <2>5. Dv = {date[k] : k \in Kv}
    BY <2>3, <2>4 DEF KeysOn, DaysOf, ValuesOn
  <2>6. IsFiniteSet(Kv) /\ \A k \in Kv : c[k] \in Int
    <3>1. Kv \in SUBSET K
      BY <2>4
    <3> QED  BY <1>2, <3>1, FS_Subset
  <2>7. ASSUME NEW d \in Dv PROVE costs[d] = Summed(c, ClassOf(Kv, date, d))
    <3>1. costs[d] = Slice(accum, d, by)[v]["cost"] /\ v \in DOMAIN Slice(accum, d, by)
      BY <2>2, <2>3
    <3>2. Slice(accum, d, by)[v]["cost"] = Summed(c, KeysWith(accum, d, by, v))
      BY <2>2, <3>1, SliceCost
    <3>3. KeysWith(accum, d, by, v) = ClassOf(Kv, date, d)
      BY <2>4 DEF KeysOn, KeysWith, ClassOf
    <3> QED  BY <3>1, <3>2, <3>3
  <2>8. \A d \in Dv : costs[d] = parts[d]["cost"]
    OBVIOUS
  <2>9. \A k \in Kv : date[k] \in Dv
    BY <2>5
  <2> HIDE DEF Kv, Dv, parts, costs, date
  <2>10. IsFiniteSet(Dv)
    BY <2>5, <2>6, ImageIsFinite
  <2>11. TotalOf(parts, Dv)["cost"] = Summed(costs, Dv)
    BY <2>8, <2>10, TotalCost
  <2>12. Summed(costs, Dv) = Summed(c, Kv)
    BY <2>6, <2>7, <2>9, <2>10, GroupSums
  <2> QED  BY <2>1, <2>11, <2>12 DEF Kv
<1>6. DOMAIN fold = names
  BY <1>1
<1>7. SumOf(fold, "cost") = Summed(each, names)
  <2>1. SumOf(fold, "cost") = Summed([x \in DOMAIN fold |-> fold[x]["cost"]], DOMAIN fold)
    BY DEF SumOf
  <2> QED  BY <1>6, <2>1
<1>8. \A v \in names : each[v] = Summed(c, ClassOf(K, value, v))
  BY <1>5, <1>6
<1>9. \A k \in K : value[k] \in names
  BY <1>3
<1> HIDE DEF each, names, value, K
<1>10. Summed(each, names) = Summed(c, K)
  BY <1>2, <1>4, <1>8, <1>9, GroupSums
<1> QED  BY <1>7, <1>10 DEF K

(* What was billed: each message's cost, and its key.                      *)
LEMMA BilledCosts ==
    ASSUME DashboardAssumption, Reported, NEW f, NEW st
    PROVE  LET accum == Accum(archive, f, st)
               c == [k \in DOMAIN accum |-> accum[k]["cost"]]
           IN  /\ Costed(accum, c)
               /\ Summed(c, DOMAIN accum) = AmountOf(archive, Dedup(archive, f, st))["cost"]
<1> DEFINE B == Dedup(archive, f, st)
           accum == Accum(archive, f, st)
           K == DOMAIN accum
           c == [k \in K |-> accum[k]["cost"]]
           amount == [x \in B |-> Amount(MessageRow(archive, x))]
           cost == [x \in B |-> amount[x]["cost"]]
           key == [x \in B |-> AccumKey(archive, f, st, x)]
<1>1. B \in SUBSET MessageRows(archive) /\ IsFiniteSet(B)
  <2>1. B \in SUBSET MessageRows(archive)
    BY DEF Dedup, InRange, Queried
  <2> QED  BY <2>1, RowsAreFinite, FS_Subset
<1>2. \A x \in B : cost[x] \in Int
  <2> SUFFICES ASSUME NEW x \in B PROVE Amount(MessageRow(archive, x)).cost \in Int
    OBVIOUS
  <2> DEFINE m == MessageRow(archive, x)
  <2>1. PICK s \in Live(archive) : x \in {s} \X DOMAIN archive[s].msgs
    BY <1>1 DEF MessageRows
  <2>2. m.tokens.fresh \in Int /\ m.tokens.cached \in Int
    BY <2>1, LiveRows DEF IsRow, MessageRow
  <2>3. Price(m.model).fresh \in Int /\ Price(m.model).cached \in Int
    BY DEF Price, DashboardAssumption
  <2> HIDE DEF m
  <2>4. Amount(m).cost = m.tokens.fresh * Price(m.model).fresh + m.tokens.cached * Price(m.model).cached
    BY DEF Amount
  <2>5. m.tokens.fresh * Price(m.model).fresh \in Int /\ m.tokens.cached * Price(m.model).cached \in Int
    BY <2>2, <2>3
  <2> QED  BY <2>4, <2>5 DEF m
<1>3. ASSUME NEW T \in SUBSET B PROVE AmountOf(archive, T)["cost"] = Summed(cost, T)
  <2> DEFINE part == [x \in T |-> Amount(MessageRow(archive, x))]
  <2>1. AmountOf(archive, T) = TotalOf(part, T)
    BY DEF AmountOf
  <2>2. IsFiniteSet(T) /\ \A x \in T : cost[x] = part[x]["cost"]
    BY <1>1, FS_Subset
  <2> HIDE DEF part, cost
  <2> QED  BY <2>1, <2>2, TotalCost
<1>4. K = ImageOf(B, key) /\ \A k \in K : accum[k] = AmountOf(archive, ClassOf(B, key, k))
  <2>1. K = {AccumKey(archive, f, st, x) : x \in B}
        /\ \A k \in K : accum[k] = AmountOf(archive, {x \in B : AccumKey(archive, f, st, x) = k})
    BY DEF Accum
  <2>2. ImageOf(B, key) = {AccumKey(archive, f, st, x) : x \in B}
        /\ \A k : ClassOf(B, key, k) = {x \in B : AccumKey(archive, f, st, x) = k}
    BY DEF ImageOf, ClassOf
  <2> HIDE DEF B, accum, key
  <2> QED  BY <2>1, <2>2
<1>5. \A k : ClassOf(B, key, k) \in SUBSET B
  BY DEF ClassOf
<1>6. \A k \in K : c[k] = accum[k]["cost"]
  OBVIOUS
<1>7. \A x \in B : key[x] \in ImageOf(B, key)
  BY DEF ImageOf
<1> HIDE DEF B, accum, K, c, cost, key
<1>8. IsFiniteSet(K)
  BY <1>1, <1>4, ImageIsFinite DEF ImageOf
<1>9. \A k \in K : c[k] = Summed(cost, ClassOf(B, key, k))
  BY <1>3, <1>4, <1>5, <1>6
<1>10. (\A k \in K : c[k] \in Int) /\ Summed(c, K) = Summed(cost, B)
  BY <1>1, <1>2, <1>4, <1>7, <1>8, <1>9, GroupSums
<1>11. AmountOf(archive, B)["cost"] = Summed(cost, B)
  BY <1>3
<1> QED  BY <1>6, <1>8, <1>10, <1>11 DEF Costed, B, K, accum, c

(* The sessions of what was billed, counted by a field of their own.       *)
LEMMA CountsOfAddUp ==
    ASSUME NEW S, IsFiniteSet(S)
    PROVE  /\ Total(CountsOf(archive, S).byProject) = CountsOf(archive, S).total
           /\ Total(CountsOf(archive, S).byAgent) = CountsOf(archive, S).total
<1> DEFINE project == [s \in S |-> archive[s].project]
           agent == [s \in S |-> archive[s].agent]
           byProject == CountsOf(archive, S).byProject
           byAgent == CountsOf(archive, S).byAgent
<1>1. CountsOf(archive, S).total = Cardinality(S)
  BY DEF CountsOf
<1>2. /\ DOMAIN byProject = {archive[s].project : s \in S}
      /\ \A v \in DOMAIN byProject : byProject[v] = Cardinality({s \in S : archive[s].project = v})
  BY DEF CountsOf
<1>3. /\ DOMAIN byAgent = {archive[s].agent : s \in S}
      /\ \A v \in DOMAIN byAgent : byAgent[v] = Cardinality({s \in S : archive[s].agent = v})
  BY DEF CountsOf
<1>4. ImageOf(S, project) = {archive[s].project : s \in S}
      /\ \A v : ClassOf(S, project, v) = {s \in S : archive[s].project = v}
  BY DEF ImageOf, ClassOf
<1>5. ImageOf(S, agent) = {archive[s].agent : s \in S}
      /\ \A v : ClassOf(S, agent, v) = {s \in S : archive[s].agent = v}
  BY DEF ImageOf, ClassOf
<1> HIDE DEF project, agent, byProject, byAgent
<1>6. DOMAIN byProject = ImageOf(S, project)
      /\ \A v \in ImageOf(S, project) : byProject[v] = Cardinality(ClassOf(S, project, v))
  BY <1>2, <1>4
<1>7. DOMAIN byAgent = ImageOf(S, agent)
      /\ \A v \in ImageOf(S, agent) : byAgent[v] = Cardinality(ClassOf(S, agent, v))
  BY <1>3, <1>5
<1>8. Total(byProject) = Cardinality(S) /\ Total(byAgent) = Cardinality(S)
  BY <1>6, <1>7, BarsCountAll
<1> QED  BY <1>1, <1>8 DEF byProject, byAgent

LEMMA BreakdownsAreWhole ==
    ASSUME DashboardAssumption, Reported, NEW f, NEW st
    PROVE  BreakdownsAddUp(GetDailyUsage(archive, f, st, FALSE), handleUsageSummary(archive, f, st),
                           AmountOf(archive, Dedup(archive, f, st)))
<1> DEFINE accum == Accum(archive, f, st)
           saved == TotalSavings(archive, Dedup(archive, f, st))
           c == [k \in DOMAIN accum |-> accum[k]["cost"]]
           D == DaysOf(accum)
           fast == GetDailyUsage(archive, f, st, FALSE)
           whole == GetDailyUsage(archive, f, st, TRUE)
           full == handleUsageSummary(archive, f, st)
           daily == whole.daily
           billed == AmountOf(archive, Dedup(archive, f, st))
           seen == {x[1] : x \in Dedup(archive, f, st)}
<1>1. /\ full.totals = whole.totals /\ full.saved = whole.saved
      /\ full.counts = CountsOf(archive, seen)
      /\ full["projects"] = Fold(daily, "projects")
      /\ full["models"] = Fold(daily, "models")
      /\ full["agents"] = Fold(daily, "agents")
  BY DEF handleUsageSummary, GetUsageSessionCounts
<1>2. fast = DailyOf(accum, saved, FALSE) /\ whole = DailyOf(accum, saved, TRUE)
  BY DEF GetDailyUsage
<1>3. Costed(accum, c) /\ Summed(c, DOMAIN accum) = billed["cost"]
  BY BilledCosts
<1>4. IsFiniteSet(seen)
  <2> DEFINE B == Dedup(archive, f, st)
             session == [x \in B |-> x[1]]
  <2>1. B \in SUBSET MessageRows(archive)
    BY DEF Dedup, InRange, Queried
  <2>2. IsFiniteSet(B)
    BY <2>1, RowsAreFinite, FS_Subset
  <2>3. seen = {session[x] : x \in B}
    OBVIOUS
  <2> HIDE DEF B, session, seen
  <2> QED  BY <2>2, <2>3, ImageIsFinite
<1> HIDE DEF accum, saved, c, seen, billed
<1>5. fast.totals = whole.totals /\ fast.saved = whole.saved
  <2>1. \A d : Entry(accum, d, FALSE).sum = Entry(accum, d, TRUE).sum
    BY DEF Entry
  <2> DEFINE sums(b) == [d \in D |-> Entry(accum, d, b).sum]
  <2>2. \A b \in BOOLEAN : DailyOf(accum, saved, b).totals = TotalOf(sums(b), D)
    BY DEF DailyOf, DaysOf
  <2>3. sums(FALSE) = sums(TRUE)
    BY <2>1
  <2>4. \A b \in BOOLEAN : DailyOf(accum, saved, b).saved = saved
    BY DEF DailyOf
  <2> HIDE DEF sums, fast, whole
  <2> QED  BY <1>2, <2>2, <2>3, <2>4
<1>6. whole.totals["cost"] = Summed(c, DOMAIN accum)
  <2> HIDE DEF whole
  <2> QED  BY <1>2, <1>3, DaysAddUpToKeys
<1>7. DOMAIN daily = D
      /\ \A d \in D : /\ daily[d]["projects"] = Slice(accum, d, "project")
                      /\ daily[d]["models"] = Slice(accum, d, "model")
                      /\ daily[d]["agents"] = Slice(accum, d, "agent")
  <2>1. daily = [d \in D |-> Entry(accum, d, TRUE)]
    <3> HIDE DEF whole
    <3> QED  BY <1>2 DEF DailyOf, DaysOf
  <2>2. \A d : /\ Entry(accum, d, TRUE)["projects"] = Slice(accum, d, "project")
               /\ Entry(accum, d, TRUE)["models"] = Slice(accum, d, "model")
               /\ Entry(accum, d, TRUE)["agents"] = Slice(accum, d, "agent")
    BY DEF Entry
  <2> HIDE DEF daily
  <2> QED  BY <2>1, <2>2
<1> HIDE DEF daily, D
<1>8. /\ SumOf(Fold(daily, "projects"), "cost") = Summed(c, DOMAIN accum)
      /\ SumOf(Fold(daily, "models"), "cost") = Summed(c, DOMAIN accum)
      /\ SumOf(Fold(daily, "agents"), "cost") = Summed(c, DOMAIN accum)
  BY <1>3, <1>7, SlicesAddUpToKeys DEF D
<1>9. Total(full.counts.byProject) = full.counts.total /\ Total(full.counts.byAgent) = full.counts.total
  BY <1>1, <1>4, CountsOfAddUp
<1> HIDE DEF fast, whole, full
<1>10. BreakdownsAddUp(fast, full, billed)
  BY <1>1, <1>3, <1>5, <1>6, <1>8, <1>9 DEF BreakdownsAddUp
<1> QED  BY <1>10 DEF fast, full, billed

-----------------------------------------------------------------------------
(* The ports.                                                              *)

LEMMA OneMachine ==
    ASSUME DashboardAssumption, Reported, Comparable
    PROVE  page.machines = {} \/ \E m : page.machines = {m}
<1>1. IsFiniteSet(page.machines)
  BY DEF Reported, DashboardAssumption, IsQuery
<1>2. Cardinality(page.machines) <= 1
  BY DEF Comparable
<1>3. Cardinality(page.machines) \in Nat
  BY <1>1, FS_CardinalityType
<1>4. Cardinality(page.machines) = 0 \/ Cardinality(page.machines) = 1
  BY <1>2, <1>3
<1>5. Cardinality(page.machines) = 0 => page.machines = {}
  BY <1>1, FS_EmptySet
<1>6. Cardinality(page.machines) = 1 => \E m : page.machines = {m}
  BY <1>1, FS_Singleton
<1> QED  BY <1>4, <1>5, <1>6

LEMMA PortsSelect ==
    ASSUME DashboardAssumption, Reported, Comparable, NEW f, f.machines = page.machines
    PROVE  /\ InWindow(archive, f, "sqlite") = InWindow(archive, f, "postgres")
           /\ Selection(archive, f, "sqlite") = Selection(archive, f, "postgres")
           /\ TrendMessages(archive, f, "sqlite") = TrendMessages(archive, f, "postgres")
           /\ \A m : Candidates(archive, f, "sqlite", m) = Candidates(archive, f, "postgres", m)
<1>1. ASSUME NEW r PROVE Where(f, r, "sqlite") <=> Where(f, r, "postgres")
  <2>1. f.machines = {} \/ \E m : f.machines = {m}
    BY OneMachine
  <2>2. Picks(f.machines, r.machine) <=> f.machines = {} \/ f.machines = {r.machine}
    BY <2>1 DEF Picks
  <2> QED  BY <2>2 DEF Where, buildWhereWithDate, pgWhereWithDate
<1>2. ASSUME NEW r PROVE buildWhere(f, r, "sqlite") <=> buildWhere(f, r, "postgres")
  BY <1>1 DEF buildWhere
<1>3. InWindow(archive, f, "sqlite") = InWindow(archive, f, "postgres")
  BY <1>2 DEF InWindow
<1>4. filteredSessionIDs(archive, f, "sqlite") = filteredSessionIDs(archive, f, "postgres")
  BY <1>2 DEF filteredSessionIDs
<1>5. Selection(archive, f, "sqlite") = Selection(archive, f, "postgres")
  BY <1>3, <1>4 DEF Selection
<1>6. {s \in Live(archive) : Where(f, archive[s], "sqlite")}
        = {s \in Live(archive) : Where(f, archive[s], "postgres")}
  BY <1>1
<1>7. TrendMessages(archive, f, "sqlite") = TrendMessages(archive, f, "postgres")
  BY <1>6 DEF TrendMessages
<1>8. ASSUME NEW m
      PROVE  Candidates(archive, f, "sqlite", m) = Candidates(archive, f, "postgres", m)
  BY <1>2 DEF Candidates
<1> QED  BY <1>3, <1>5, <1>7, <1>8

LEMMA Placed ==
    ASSUME NEW S, NEW before
    PROVE  InOrder(S, before) = [i \in 1..Cardinality(S) |-> InOrder(S, before)[i]]
<1> DEFINE q == InOrder(S, before)
<1>1. q = [i \in 1..Cardinality(S) |-> q[i]]
  BY DEF InOrder
<1> QED  BY <1>1 DEF q

(* SQLite scans fewer rows for the top list; here both scan all.           *)
LEMMA ScansAll ==
    ASSUME DashboardAssumption, Reported, Comparable, NEW f, NEW m, NEW n \in Nat, ScanLimit <= n
    PROVE  LET ranked == Ranked(archive, Candidates(archive, f, "sqlite", m), m)
           IN  First(ranked, n) = ranked
<1> DEFINE S == Candidates(archive, f, "sqlite", m)
           ranked == Ranked(archive, S, m)
<1>1. IsFiniteSet(Live(archive)) /\ Cardinality(Live(archive)) <= ScanLimit /\ ScanLimit \in Nat
  <2>1. Live(archive) \in SUBSET SessionIds
    BY LiveRows
  <2>2. IsFiniteSet(SessionIds)
    BY DEF DashboardAssumption
  <2> QED  BY <2>1, <2>2, FS_Subset DEF DashboardAssumption, Comparable
<1>2. IsFiniteSet(S) /\ Cardinality(S) \in Nat /\ Cardinality(S) <= n
  <2>1. S \in SUBSET Live(archive)
    BY DEF Candidates
  <2> HIDE DEF S
  <2>2. IsFiniteSet(S) /\ Cardinality(S) <= Cardinality(Live(archive))
    BY <1>1, <2>1, FS_Subset
  <2>3. Cardinality(S) \in Nat /\ Cardinality(Live(archive)) \in Nat
    BY <1>1, <2>2, FS_CardinalityType
  <2> QED  BY <1>1, <2>2, <2>3
<1> HIDE DEF S
<1>3. ranked = [i \in 1..Cardinality(S) |-> ranked[i]]
  <2>1. \A before : InOrder(S, before) = [i \in 1..Cardinality(S) |-> InOrder(S, before)[i]]
    BY Placed
  <2> QED  BY <2>1 DEF Ranked
<1> HIDE DEF ranked
<1>4. ranked \in Seq({ranked[i] : i \in 1..Cardinality(S)}) /\ Len(ranked) = Cardinality(S)
  BY <1>2, <1>3
<1>5. SubSeq(ranked, 1, Len(ranked)) = ranked
  BY <1>4, SubSeqFull
<1>6. (IF Len(ranked) < n THEN Len(ranked) ELSE n) = Len(ranked)
  BY <1>2, <1>4
<1>7. First(ranked, n) = ranked
  BY <1>5, <1>6 DEF First
<1> QED  BY <1>7 DEF ranked, S

LEMMA PortsBill ==
    ASSUME DashboardAssumption, Reported, Comparable, NEW f, InZone(f)
    PROVE  /\ Dedup(archive, f, "sqlite") = Dedup(archive, f, "postgres")
           /\ Accum(archive, f, "sqlite") = Accum(archive, f, "postgres")
<1>1. ASSUME NEW x \in MessageRows(archive)
      PROVE  Stamp(archive, x, "sqlite") = Stamp(archive, x, "postgres")
  <2>1. PICK s \in Live(archive) : x \in {s} \X DOMAIN archive[s].msgs
    BY DEF MessageRows
  <2>2. MessageRow(archive, x).ts # None
    BY <2>1 DEF Comparable, MessageRow
  <2> QED  BY <2>2 DEF Stamp
<1>2. ASSUME NEW x \in MessageRows(archive), NEW y \in MessageRows(archive)
      PROVE  Earlier(archive, "sqlite", x, y) <=> Earlier(archive, "postgres", x, y)
  BY <1>1 DEF Earlier
<1>3. InRange(archive, f, "sqlite") = InRange(archive, f, "postgres")
      /\ InRange(archive, f, "sqlite") \subseteq MessageRows(archive)
  BY <1>1 DEF InRange, Queried
<1>4. Dedup(archive, f, "sqlite") = Dedup(archive, f, "postgres")
      /\ Dedup(archive, f, "sqlite") \subseteq MessageRows(archive)
  BY <1>2, <1>3 DEF Dedup
<1> DEFINE billed == Dedup(archive, f, "sqlite")
<1>5. \A x \in billed : AccumKey(archive, f, "sqlite", x) = AccumKey(archive, f, "postgres", x)
  BY <1>1, <1>4 DEF AccumKey
<1>6. billed = Dedup(archive, f, "postgres")
  BY <1>4
<1> HIDE DEF billed
<1>7. {AccumKey(archive, f, "sqlite", x) : x \in billed}
        = {AccumKey(archive, f, "postgres", x) : x \in billed}
  BY <1>5
<1>8. \A k : {x \in billed : AccumKey(archive, f, "sqlite", x) = k}
               = {x \in billed : AccumKey(archive, f, "postgres", x) = k}
  BY <1>5
<1>9. Accum(archive, f, "sqlite") = Accum(archive, f, "postgres")
  BY <1>6, <1>7, <1>8 DEF Accum, billed
<1> QED  BY <1>4, <1>9

LEMMA PortsAgree ==
    ASSUME DashboardAssumption, Reported, Comparable,
           NEW f, f.machines = page.machines, NEW u, InZone(u)
    PROVE  ReportsAgree(f, u)
<1>1. /\ InWindow(archive, f, "sqlite") = InWindow(archive, f, "postgres")
      /\ Selection(archive, f, "sqlite") = Selection(archive, f, "postgres")
      /\ TrendMessages(archive, f, "sqlite") = TrendMessages(archive, f, "postgres")
      /\ \A m : Candidates(archive, f, "sqlite", m) = Candidates(archive, f, "postgres", m)
  BY PortsSelect
<1>2. /\ GetAnalyticsSummary(archive, f) = pgGetAnalyticsSummary(archive, f)
      /\ GetAnalyticsProjects(archive, f) = pgGetAnalyticsProjects(archive, f)
      /\ GetAnalyticsHourOfWeek(archive, f) = pgGetAnalyticsHourOfWeek(archive, f)
      /\ GetAnalyticsSessionShape(archive, f) = pgGetAnalyticsSessionShape(archive, f)
      /\ GetAnalyticsTools(archive, f) = pgGetAnalyticsTools(archive, f)
      /\ GetAnalyticsVelocity(archive, f) = pgGetAnalyticsVelocity(archive, f)
      /\ GetAnalyticsSignals(archive, f) = pgGetAnalyticsSignals(archive, f)
      /\ \A m : GetAnalyticsHeatmap(archive, f, m) = pgGetAnalyticsHeatmap(archive, f, m)
      /\ \A terms, g : GetTrendsTerms(archive, f, terms, g) = pgGetTrendsTerms(archive, f, terms, g)
  BY <1>1 DEF GetAnalyticsSummary, pgGetAnalyticsSummary, GetAnalyticsProjects,
              pgGetAnalyticsProjects, GetAnalyticsHourOfWeek, pgGetAnalyticsHourOfWeek,
              GetAnalyticsSessionShape, pgGetAnalyticsSessionShape, GetAnalyticsTools,
              pgGetAnalyticsTools, GetAnalyticsVelocity, pgGetAnalyticsVelocity,
              GetAnalyticsSignals, pgGetAnalyticsSignals, GetAnalyticsHeatmap,
              pgGetAnalyticsHeatmap, GetTrendsTerms, pgGetTrendsTerms
<1>3. ASSUME NEW g PROVE GetAnalyticsActivity(archive, f, g) = pgGetAnalyticsActivity(archive, f, g)
  <2> DEFINE S == Selection(archive, f, "sqlite")
  <2>1. \A s \in S : AskedIn(archive[s], "sqlite") = AskedIn(archive[s], "postgres")
    BY DEF AskedIn, Comparable, Selection, InWindow
  <2>2. S = Selection(archive, f, "postgres")
    BY <1>1
  <2> HIDE DEF S
  <2>3. [s \in S |-> AskedIn(archive[s], "sqlite")] = [s \in S |-> AskedIn(archive[s], "postgres")]
    BY <2>1
  <2> QED  BY <2>2, <2>3 DEF GetAnalyticsActivity, pgGetAnalyticsActivity, ActivityIn, S
<1>4. ASSUME NEW m
      PROVE  GetAnalyticsTopSessions(archive, f, m) = pgGetAnalyticsTopSessions(archive, f, m)
  <2> DEFINE ranked == Ranked(archive, Candidates(archive, f, "sqlite", m), m)
  <2>1. First(ranked, ScanLimit) = ranked /\ First(ranked, pgScanLimit) = ranked
    <3>1. ScanLimit \in Nat /\ pgScanLimit \in Nat /\ ScanLimit <= pgScanLimit
      BY DEF DashboardAssumption
    <3>2. ScanLimit <= ScanLimit
      BY <3>1
    <3> QED  BY <3>1, <3>2, ScansAll
  <2>2. ranked = Ranked(archive, Candidates(archive, f, "postgres", m), m)
    BY <1>1
  <2> HIDE DEF ranked
  <2> QED  BY <1>1, <2>1, <2>2 DEF GetAnalyticsTopSessions, pgGetAnalyticsTopSessions, ranked
<1>5. Dedup(archive, u, "sqlite") = Dedup(archive, u, "postgres")
      /\ Accum(archive, u, "sqlite") = Accum(archive, u, "postgres")
  BY PortsBill
<1>6. /\ GetDailyUsage(archive, u, "sqlite", TRUE) = pgGetDailyUsage(archive, u, TRUE)
      /\ GetTopSessionsByCost(archive, u, "sqlite", 0) = pgGetTopSessionsByCost(archive, u, 0)
      /\ GetUsageSessionCounts(archive, u, "sqlite") = pgGetUsageSessionCounts(archive, u)
  BY <1>5 DEF GetDailyUsage, pgGetDailyUsage, pgAccum, pgBilled, GetTopSessionsByCost,
              pgGetTopSessionsByCost, GetUsageSessionCounts, pgGetUsageSessionCounts
<1>7. ASSUME NEW s \in Live(archive)
      PROVE  /\ GetSessionTiming(archive, s) = pgGetSessionTiming(archive, s)
             /\ GetSessionActivity(archive, s) = pgGetSessionActivity(archive, s)
  <2> DEFINE r == archive[s]
  <2>1. Len(r.msgs) \in Nat /\ DOMAIN r.msgs = 1..Len(r.msgs)
    BY LiveRows DEF IsRow
  <2>2. \A i \in DOMAIN r.msgs : r.msgs[i].ts # None
    BY DEF Comparable
  <2> HIDE DEF r
  <2>3. ASSUME NEW i \in DOMAIN r.msgs PROVE NextTime(r, i, "sqlite") = NextTime(r, i, "postgres")
    <3>1. i < Len(r.msgs) => i + 1 \in DOMAIN r.msgs
      BY <2>1
    <3>2. i \in Nat /\ i <= Len(r.msgs)
      BY <2>1
    <3>3. CASE i = Len(r.msgs)
      BY <3>3 DEF NextTime
    <3>4. CASE i < Len(r.msgs)
      BY <2>2, <3>1, <3>4 DEF NextTime
    <3> QED  BY <2>1, <3>2, <3>3, <3>4
  <2>4. NextTimes(r, "sqlite") = NextTimes(r, "postgres")
    BY <2>3 DEF NextTimes
  <2> QED  BY <2>4 DEF GetSessionTiming, pgGetSessionTiming, GetSessionActivity,
                       pgGetSessionActivity, r
<1> QED  BY <1>2, <1>3, <1>4, <1>6, <1>7 DEF ReportsAgree

-----------------------------------------------------------------------------
(* Results about Dashboard.                                                *)

LEMMA ReportsStay ==
    ASSUME DashboardAssumption PROVE DashboardSpec => []Reported
<1>1. InitDashboard => Reported
  BY InitReports
<1>2. Reported /\ [NextDashboard]_dashboardVars => Reported'
  BY StepReports
<1> QED  BY <1>1, <1>2, PTL DEF DashboardSpec

(* Every panel covers its window and loses nothing of it, whatever the     *)
(* archive, the window and the zone: what the panels group by day, week,   *)
(* month, project, agent, size or category adds up to the sessions,        *)
(* messages and calls selected (internal/db/analytics.go:77-112), adjacent *)
(* windows of the statistics divide the sessions, and the sections of the  *)
(* statistics agree (internal/db/session_stats.go:385).                    *)
THEOREM WindowsAreCovered ==
    ASSUME DashboardAssumption PROVE DashboardSpec => []PanelsCoverTheWindow
<1>1. ASSUME Reported PROVE PanelsCoverTheWindow
  <2> DEFINE f == parseAnalyticsFilter(page)
  <2>1. Closed(f)
    BY <1>1, FiltersAreClosed
  <2>2. PanelsAddUp(f)
    <3> HIDE DEF f
    <3> QED  BY <1>1, <2>1, ActivityIsWhole, HeatmapIsWhole, SummaryIsWhole DEF PanelsAddUp
  <2> QED  BY <1>1, <2>2, WindowCovers, WindowsAreAdjacent, SectionsAgreed DEF PanelsCoverTheWindow
<1>2. Reported => PanelsCoverTheWindow
  BY <1>1
<1> QED  BY <1>2, ReportsStay, PTL

(* Of all the replays of a message one is billed, in either store, and no  *)
(* message of the window goes unbilled (internal/db/usage.go:417-463).     *)
(* What is billed is what every breakdown and every total comes to         *)
(* (internal/server/usage.go:143-238).                                     *)
THEOREM ReplaysAreBilledOnce ==
    ASSUME DashboardAssumption PROVE DashboardSpec => []UsageIsBilledOnce
<1>1. Reported => UsageIsBilledOnce
  BY FiltersAreInZone, BillsOnce, BreakdownsAreWhole DEF UsageIsBilledOnce
<1> QED  BY <1>1, ReportsStay, PTL

(* What PostgreSQL reports is what SQLite reports, for every archive that  *)
(* both can be asked about alike.                                          *)
THEOREM PortsShowTheSame ==
    ASSUME DashboardAssumption PROVE DashboardSpec => []StoresAgree
<1>1. Reported => StoresAgree
  BY FiltersAreInZone, PortsAgree DEF StoresAgree
<1> QED  BY <1>1, ReportsStay, PTL
=============================================================================
