--------------------------- MODULE BatchingProof ---------------------------
(***************************************************************************)
(* Batches for every set of records, every size of batch and every number  *)
(* of concurrent calls.                                                    *)
(*                                                                         *)
(* Facts about a whole tree are proved by Ascend, induction over the turns *)
(* of the loop in which a set takes the place of the formula.  Up halves a *)
(* level without repetition into one without repetition and can be undone  *)
(* (UpDistinct, UpInjective); two trees aligned at their roots that differ *)
(* at the lower end differ at every level above it (TreesApart).  What the *)
(* actions have to keep is BInv: every batch is in strict order, so its    *)
(* leaves are such a level.                                                *)
(***************************************************************************)
EXTENDS Batching, FiniteSetTheorems, SequenceTheorems, WellFoundedInduction, TLAPS

\* A set of numbers has a least one.
LEMMA LeastNumber ==
    ASSUME NEW P \in SUBSET Nat, P # {}
    PROVE  \E i \in P : \A j \in P : i <= j
<1>1. PICK i \in P : \A j \in P : ~ (<<j, i>> \in OpToRel(<, Nat))
  BY WFMin, NatLessThanWellFounded, Zenon
<1>2. \A j \in P : i <= j
  <2> TAKE j \in P
  <2>1. ~ (<<j, i>> \in OpToRel(<, Nat))
    BY <1>1
  <2>2. ~ (j < i)
    BY <2>1, Zenon DEF OpToRel
  <2> QED
    BY <2>2
<1> QED
  BY <1>2

\* Induction over an interval, for a set of numbers instead of a formula.
LEMMA Ascend ==
    ASSUME NEW S, NEW n \in Nat, 0 \in S, \A m \in 0 .. n - 1 : m \in S => m + 1 \in S
    PROVE  0 .. n \subseteq S
<1> SUFFICES ASSUME NEW k \in 0 .. n, k \notin S PROVE FALSE
  OBVIOUS
<1> DEFINE out == {m \in 0 .. n : m \notin S}
<1>1. out \in SUBSET Nat /\ out # {}
  OBVIOUS
<1> HIDE DEF out
<1>2. PICK m \in out : \A j \in out : m <= j
  BY <1>1, LeastNumber
<1>3. m \in 0 .. n /\ m \notin S /\ m # 0
  BY <1>2 DEF out
<1>4. m - 1 \in 0 .. n - 1 /\ m - 1 + 1 = m /\ m - 1 < m
  BY <1>3
<1>5. m - 1 \in S
  BY <1>2, <1>3, <1>4 DEF out
<1> QED
  BY <1>3, <1>4, <1>5

----------------------------------------------------------------------------
(***************************************************************************)
(* The recursive functions of Merkle exist, so they satisfy the equations  *)
(* that define them.                                                       *)
(***************************************************************************)
LEMMA LevelsAre ==
    ASSUME NEW ids, Len(ids) \in Nat
    PROVE  /\ Levels(ids)[0] = Leaves(ids)
           /\ \A n \in 1 .. Len(ids) : Levels(ids)[n] = Up(Levels(ids)[n - 1])
<1> DEFINE n == Len(ids)
           Is(f, m) == f = [k \in 0 .. m |-> IF k = 0 THEN Leaves(ids) ELSE Up(f[k - 1])]
           S == {m \in Nat : \E f : Is(f, m)}
           F == Levels(ids)
<1>1. 0 \in S
  <2> DEFINE f == [k \in 0 .. 0 |-> Leaves(ids)]
  <2>1. Is(f, 0)
    OBVIOUS
  <2> QED
    BY <2>1
<1>2. ASSUME NEW m \in 0 .. n - 1, m \in S PROVE m + 1 \in S
  <2>1. PICK f : Is(f, m)
    BY <1>2
  <2> DEFINE g == [k \in 0 .. m + 1 |-> IF k = m + 1 THEN Up(f[m]) ELSE f[k]]
  <2>2. \A j \in 0 .. m : f[j] = IF j = 0 THEN Leaves(ids) ELSE Up(f[j - 1])
    BY <2>1, Zenon
  <2>3. \A j \in 0 .. m : g[j] = f[j]
    <3> HIDE DEF Is
    <3> QED
      OBVIOUS
  <2>4. g[m + 1] = Up(f[m])
    OBVIOUS
  <2>5. ASSUME NEW k \in 0 .. m + 1
        PROVE  g[k] = IF k = 0 THEN Leaves(ids) ELSE Up(g[k - 1])
    <3> HIDE DEF g, Is
    <3>1. CASE k = m + 1
      BY <2>3, <2>4, <3>1
    <3>2. CASE k = 0
      BY <2>2, <2>3, <3>2
    <3>3. CASE k \in 1 .. m
      BY <2>2, <2>3, <3>3
    <3> QED
      BY <3>1, <3>2, <3>3
  <2>6. Is(g, m + 1)
    BY <2>5
  <2>7. m + 1 \in Nat
    OBVIOUS
  <2> HIDE DEF Is, g, n
  <2> QED
    BY <2>6, <2>7
<1>3. n \in S
  <2>1. n \in Nat /\ n \in 0 .. n
    OBVIOUS
  <2> HIDE DEF S, n
  <2>2. \A m \in 0 .. n - 1 : m \in S => m + 1 \in S
    BY <1>2
  <2>3. 0 .. n \subseteq S
    BY <1>1, <2>1, <2>2, Ascend, Zenon
  <2> QED
    BY <2>1, <2>3
<1>4. \E f : Is(f, n)
  BY <1>3
<1>5. Is(F, n)
  BY <1>4 DEF Levels
<1> HIDE DEF F
<1>6. \A k \in 0 .. n : F[k] = IF k = 0 THEN Leaves(ids) ELSE Up(F[k - 1])
  BY <1>5, Zenon
<1> QED
  BY <1>6 DEF F

LEMMA PositionsAre ==
    ASSUME NEW ids, NEW index, Len(ids) \in Nat
    PROVE  /\ Positions(ids, index)[0] = index
           /\ \A n \in 1 .. Len(ids) :
                Positions(ids, index)[n] = Positions(ids, index)[n - 1] \div 2
<1> DEFINE n == Len(ids)
           Is(f, m) == f = [k \in 0 .. m |-> IF k = 0 THEN index ELSE f[k - 1] \div 2]
           S == {m \in Nat : \E f : Is(f, m)}
           F == Positions(ids, index)
<1>1. 0 \in S
  <2> DEFINE f == [k \in 0 .. 0 |-> index]
  <2>1. Is(f, 0)
    OBVIOUS
  <2> QED
    BY <2>1
<1>2. ASSUME NEW m \in 0 .. n - 1, m \in S PROVE m + 1 \in S
  <2>1. PICK f : Is(f, m)
    BY <1>2
  <2> DEFINE g == [k \in 0 .. m + 1 |-> IF k = m + 1 THEN f[m] \div 2 ELSE f[k]]
  <2>2. \A j \in 0 .. m : f[j] = IF j = 0 THEN index ELSE f[j - 1] \div 2
    BY <2>1, Zenon
  <2>3. \A j \in 0 .. m : g[j] = f[j]
    <3> HIDE DEF Is
    <3> QED
      OBVIOUS
  <2>4. g[m + 1] = f[m] \div 2
    OBVIOUS
  <2>5. ASSUME NEW k \in 0 .. m + 1
        PROVE  g[k] = IF k = 0 THEN index ELSE g[k - 1] \div 2
    <3> HIDE DEF g, Is
    <3>1. CASE k = m + 1
      BY <2>3, <2>4, <3>1
    <3>2. CASE k = 0
      BY <2>2, <2>3, <3>2
    <3>3. CASE k \in 1 .. m
      BY <2>2, <2>3, <3>3
    <3> QED
      BY <3>1, <3>2, <3>3
  <2>6. Is(g, m + 1)
    BY <2>5
  <2>7. m + 1 \in Nat
    OBVIOUS
  <2> HIDE DEF Is, g, n
  <2> QED
    BY <2>6, <2>7
<1>3. n \in S
  <2>1. n \in Nat /\ n \in 0 .. n
    OBVIOUS
  <2> HIDE DEF S, n
  <2>2. \A m \in 0 .. n - 1 : m \in S => m + 1 \in S
    BY <1>2
  <2>3. 0 .. n \subseteq S
    BY <1>1, <2>1, <2>2, Ascend, Zenon
  <2> QED
    BY <2>1, <2>3
<1>4. \E f : Is(f, n)
  BY <1>3
<1>5. Is(F, n)
  BY <1>4 DEF Positions
<1> HIDE DEF F
<1>6. \A k \in 0 .. n : F[k] = IF k = 0 THEN index ELSE F[k - 1] \div 2
  BY <1>5, Zenon
<1> QED
  BY <1>6 DEF F

\* One step of verify_merkle_proof
Step(step, value) ==
    IF step.side = "left" THEN Parent(step.sibling, value) ELSE Parent(value, step.sibling)

LEMMA ClimbIs ==
    ASSUME NEW id, NEW path, Len(path) \in Nat
    PROVE  /\ Climb(id, path)[0] = Leaf(id)
           /\ \A n \in 1 .. Len(path) :
                Climb(id, path)[n] = Step(path[n], Climb(id, path)[n - 1])
<1> DEFINE n == Len(path)
           Is(f, m) == f = [k \in 0 .. m |-> IF k = 0 THEN Leaf(id) ELSE Step(path[k], f[k - 1])]
           S == {m \in Nat : \E f : Is(f, m)}
           F == Climb(id, path)
<1>1. 0 \in S
  <2> DEFINE f == [k \in 0 .. 0 |-> Leaf(id)]
  <2>1. Is(f, 0)
    OBVIOUS
  <2> QED
    BY <2>1
<1>2. ASSUME NEW m \in 0 .. n - 1, m \in S PROVE m + 1 \in S
  <2>1. PICK f : Is(f, m)
    BY <1>2
  <2> DEFINE g == [k \in 0 .. m + 1 |-> IF k = m + 1 THEN Step(path[k], f[m]) ELSE f[k]]
  <2>2. \A j \in 0 .. m : f[j] = IF j = 0 THEN Leaf(id) ELSE Step(path[j], f[j - 1])
    BY <2>1, Zenon
  <2>3. \A j \in 0 .. m : g[j] = f[j]
    <3> HIDE DEF Is
    <3> QED
      OBVIOUS
  <2>4. g[m + 1] = Step(path[m + 1], f[m])
    OBVIOUS
  <2>5. ASSUME NEW k \in 0 .. m + 1
        PROVE  g[k] = IF k = 0 THEN Leaf(id) ELSE Step(path[k], g[k - 1])
    <3> HIDE DEF g, Is
    <3>1. CASE k = m + 1
      BY <2>3, <2>4, <3>1
    <3>2. CASE k = 0
      BY <2>2, <2>3, <3>2
    <3>3. CASE k \in 1 .. m
      BY <2>2, <2>3, <3>3
    <3> QED
      BY <3>1, <3>2, <3>3
  <2>6. Is(g, m + 1)
    BY <2>5
  <2>7. m + 1 \in Nat
    OBVIOUS
  <2> HIDE DEF Is, g, n
  <2> QED
    BY <2>6, <2>7
<1>3. n \in S
  <2>1. n \in Nat /\ n \in 0 .. n
    OBVIOUS
  <2> HIDE DEF S, n
  <2>2. \A m \in 0 .. n - 1 : m \in S => m + 1 \in S
    BY <1>2
  <2>3. 0 .. n \subseteq S
    BY <1>1, <2>1, <2>2, Ascend, Zenon
  <2> QED
    BY <2>1, <2>3
<1>4. \E f : Is(f, n)
  BY <1>3
<1>5. Is(F, n)
  BY <1>4 DEF Climb, Step
<1> HIDE DEF F
<1>6. \A k \in 0 .. n : F[k] = IF k = 0 THEN Leaf(id) ELSE Step(path[k], F[k - 1])
  BY <1>5, Zenon
<1> QED
  BY <1>6 DEF F

----------------------------------------------------------------------------
(***************************************************************************)
(* One level.  Digests are any values; what matters of a level is that it  *)
(* is a function on an interval.                                           *)
(***************************************************************************)
IsLevel(level) ==
    /\ Len(level) \in Nat \ {0}
    /\ level = [i \in 1 .. Len(level) |-> level[i]]

Distinct(level) == \A i, j \in 1 .. Len(level) : level[i] = level[j] => i = j

LEMMA LevelIsSequence ==
    ASSUME NEW level, IsLevel(level)
    PROVE  level \in Seq({level[i] : i \in 1 .. Len(level)})
BY DEF IsLevel

\* The last digest of an odd level stands in for its missing neighbour.
LEMMA PaddedIs ==
    ASSUME NEW level, IsLevel(level)
    PROVE  /\ Len(Padded(level)) = IF Len(level) % 2 = 1 THEN Len(level) + 1 ELSE Len(level)
           /\ \A i \in 1 .. Len(level) : Padded(level)[i] = level[i]
           /\ Len(level) % 2 = 1 => Padded(level)[Len(level) + 1] = level[Len(level)]
<1> DEFINE T == {level[i] : i \in 1 .. Len(level)}
           n == Len(level)
<1>1. level \in Seq(T) /\ n \in Nat \ {0} /\ level[n] \in T
  BY LevelIsSequence DEF IsLevel
<1> HIDE DEF T
<1>2. /\ Len(Append(level, level[n])) = n + 1
      /\ \A i \in 1 .. n : Append(level, level[n])[i] = level[i]
      /\ Append(level, level[n])[n + 1] = level[n]
  BY <1>1, AppendProperties
<1> QED
  BY <1>1, <1>2 DEF Padded

\* The next level has half as many digests, each of two neighbours.
Half(n) == (n + 1) \div 2
Right(level, i) == IF 2 * i <= Len(level) THEN level[2 * i] ELSE level[2 * i - 1]

LEMMA HalfOf ==
    ASSUME NEW n \in Nat \ {0}
    PROVE  /\ Half(n) \in 1 .. n
           /\ n > 1 => Half(n) < n
           /\ \A i \in 1 .. Half(n) : 2 * i - 1 \in 1 .. n /\ (2 * i <= n \/ 2 * i = n + 1)
           /\ \A i \in 1 .. n : Half(i) \in 1 .. Half(n)
BY DEF Half

LEMMA UpIs ==
    ASSUME NEW level, IsLevel(level)
    PROVE  /\ Up(level) = [i \in 1 .. Half(Len(level)) |-> Parent(level[2 * i - 1], Right(level, i))]
           /\ Len(Up(level)) = Half(Len(level))
           /\ IsLevel(Up(level))
<1> DEFINE n == Len(level)
           full == Padded(level)
           up == [i \in 1 .. Half(n) |-> Parent(level[2 * i - 1], Right(level, i))]
<1>1. n \in Nat \ {0}
  BY DEF IsLevel
<1>2. /\ Len(full) = IF n % 2 = 1 THEN n + 1 ELSE n
      /\ \A i \in 1 .. n : full[i] = level[i]
      /\ n % 2 = 1 => full[n + 1] = level[n]
  BY PaddedIs
<1>3. Len(full) \div 2 = Half(n) /\ Half(n) \in Nat \ {0}
  <2> HIDE DEF full, n
  <2> QED
    BY <1>1, <1>2 DEF Half
<1>4. ASSUME NEW i \in 1 .. Half(n)
      PROVE  full[2 * i - 1] = level[2 * i - 1] /\ full[2 * i] = Right(level, i)
  <2>1. 2 * i - 1 \in 1 .. n /\ (2 * i <= n \/ (2 * i = n + 1 /\ n % 2 = 1)) /\ i \in Nat
    BY <1>1, HalfOf
  <2> HIDE DEF full
  <2>2. full[2 * i - 1] = level[2 * i - 1]
    BY <1>2, <2>1
  <2>3. CASE 2 * i <= n
    <3>1. 2 * i \in 1 .. n
      BY <1>1, <2>1, <2>3
    <3> QED
      BY <1>2, <2>2, <2>3, <3>1 DEF Right
  <2>4. CASE 2 * i = n + 1 /\ n % 2 = 1
    <3>1. ~ (2 * i <= n) /\ 2 * i - 1 = n
      BY <1>1, <2>1, <2>4
    <3> QED
      BY <1>2, <2>2, <2>4, <3>1 DEF Right
  <2> QED
    BY <2>1, <2>2, <2>3, <2>4
<1>5. Up(level) = up
  <2>1. Up(level) = [i \in 1 .. Half(n) |-> Parent(full[2 * i - 1], full[2 * i])]
    BY <1>3 DEF Up
  <2> HIDE DEF full, n
  <2> QED
    BY <1>4, <2>1
<1>6. Len(up) = Half(n) /\ DOMAIN up = 1 .. Half(n)
  <2> HIDE DEF n
  <2> QED
    BY <1>3
<1> HIDE DEF up
<1>7. IsLevel(up)
  <2>1. up = [i \in 1 .. Half(n) |-> up[i]]
    BY <1>6 DEF up
  <2> QED
    BY <1>3, <1>6, <2>1 DEF IsLevel
<1> QED
  BY <1>5, <1>6, <1>7 DEF up

\* Digests of different nodes of a level differ if the records do.
LEMMA UpDistinct ==
    ASSUME NEW level, IsLevel(level), Distinct(level)
    PROVE  Distinct(Up(level))
<1> DEFINE n == Len(level)
<1>1. n \in Nat \ {0}
  BY DEF IsLevel
<1>2. /\ Len(Up(level)) = Half(n)
      /\ \A i \in 1 .. Half(n) : Up(level)[i] = <<level[2 * i - 1], Right(level, i)>>
  BY UpIs DEF Parent
<1>3. \A i \in 1 .. Half(n) : 2 * i - 1 \in 1 .. n /\ i \in Int
  BY <1>1, HalfOf
<1> SUFFICES ASSUME NEW i \in 1 .. Half(n), NEW j \in 1 .. Half(n), Up(level)[i] = Up(level)[j]
             PROVE  i = j
  BY <1>2 DEF Distinct
<1>4. level[2 * i - 1] = level[2 * j - 1]
  BY <1>2
<1>5. 2 * i - 1 = 2 * j - 1
  BY <1>3, <1>4 DEF Distinct
<1> QED
  BY <1>3, <1>5

\* Padding alone could make two levels agree in what is above them; levels
\* without repetition cannot.
LEMMA UpInjective ==
    ASSUME NEW a, NEW b, IsLevel(a), IsLevel(b), Distinct(a), Distinct(b), Up(a) = Up(b)
    PROVE  a = b
<1> DEFINE m == Len(a)
           n == Len(b)
           h == Half(m)
<1>1. m \in Nat \ {0} /\ n \in Nat \ {0}
  BY DEF IsLevel
<1>2. /\ Half(m) = Half(n)
      /\ \A i \in 1 .. h : a[2 * i - 1] = b[2 * i - 1] /\ Right(a, i) = Right(b, i)
  <2>1. /\ Len(Up(a)) = Half(m) /\ Len(Up(b)) = Half(n)
        /\ \A i \in 1 .. Half(m) : Up(a)[i] = <<a[2 * i - 1], Right(a, i)>>
        /\ \A i \in 1 .. Half(n) : Up(b)[i] = <<b[2 * i - 1], Right(b, i)>>
    BY UpIs DEF Parent
  <2>2. Half(m) = Half(n)
    BY <2>1
  <2>3. ASSUME NEW i \in 1 .. h PROVE a[2 * i - 1] = b[2 * i - 1] /\ Right(a, i) = Right(b, i)
    <3>1. <<a[2 * i - 1], Right(a, i)>> = <<b[2 * i - 1], Right(b, i)>>
      BY <2>1, <2>2
    <3> QED
      BY <3>1
  <2> QED
    BY <2>2, <2>3
<1>3. h \in Nat \ {0} /\ h \in 1 .. h
  BY <1>1 DEF Half
<1>4. m = n
  <2>1. m \in {2 * h - 1, 2 * h} /\ n \in {2 * h - 1, 2 * h}
    <3>1. \A k \in Nat \ {0} : k = 2 * Half(k) - 1 \/ k = 2 * Half(k)
      BY DEF Half
    <3> QED
      BY <1>1, <1>2, <3>1
  <2>2. a[2 * h - 1] = b[2 * h - 1] /\ Right(a, h) = Right(b, h)
    BY <1>2, <1>3
  <2> HIDE DEF h
  <2>3. ASSUME m = 2 * h - 1, n = 2 * h PROVE FALSE
    <3>1. Right(a, h) = a[2 * h - 1] /\ Right(b, h) = b[2 * h]
      BY <1>3, <2>3 DEF Right
    <3>2. 2 * h \in 1 .. n /\ 2 * h - 1 \in 1 .. n
      BY <1>3, <2>3
    <3>3. b[2 * h] = b[2 * h - 1]
      BY <2>2, <3>1
    <3>4. 2 * h = 2 * h - 1
      BY <3>2, <3>3 DEF Distinct
    <3> QED
      BY <1>3, <3>4
  <2>4. ASSUME n = 2 * h - 1, m = 2 * h PROVE FALSE
    <3>1. Right(b, h) = b[2 * h - 1] /\ Right(a, h) = a[2 * h]
      BY <1>3, <2>4 DEF Right
    <3>2. 2 * h \in 1 .. m /\ 2 * h - 1 \in 1 .. m
      BY <1>3, <2>4
    <3>3. a[2 * h] = a[2 * h - 1]
      BY <2>2, <3>1
    <3>4. 2 * h = 2 * h - 1
      BY <3>2, <3>3 DEF Distinct
    <3> QED
      BY <1>3, <3>4
  <2> QED
    BY <2>1, <2>3, <2>4
<1>5. ASSUME NEW i \in 1 .. m PROVE a[i] = b[i]
  <2>1. PICK j \in 1 .. h : i = 2 * j - 1 \/ i = 2 * j
    <3>1. Half(i) \in 1 .. h /\ (i = 2 * Half(i) - 1 \/ i = 2 * Half(i))
      BY <1>1 DEF Half
    <3> QED
      BY <3>1
  <2>2. a[2 * j - 1] = b[2 * j - 1] /\ Right(a, j) = Right(b, j)
    BY <1>2
  <2>3. ASSUME i = 2 * j PROVE Right(a, j) = a[i] /\ Right(b, j) = b[i]
    <3>1. 2 * j <= m
      BY <2>3
    <3> QED
      BY <1>4, <2>3, <3>1 DEF Right
  <2> QED
    BY <2>1, <2>2, <2>3
<1> QED
  BY <1>1, <1>4, <1>5 DEF IsLevel

\* The sibling of a node leads from its digest to that of its parent.
LEMMA SiblingStep ==
    ASSUME NEW level, IsLevel(level), NEW p \in 0 .. Len(level) - 1
    PROVE  /\ p \div 2 \in 0 .. Len(Up(level)) - 1
           /\ Step(Sibling(level, p), level[p + 1]) = Up(level)[p \div 2 + 1]
<1> DEFINE n == Len(level)
           i == p \div 2 + 1
           s == Sibling(level, p)
<1>1. n \in Nat \ {0} /\ p \in Nat /\ p < n
  BY DEF IsLevel
<1>2. i \in 1 .. Half(n) /\ (p = 2 * i - 2 \/ p = 2 * i - 1) /\ i \in Nat
  <2> HIDE DEF n
  <2> QED
    BY <1>1 DEF Half
<1>3. /\ Len(Up(level)) = Half(n)
      /\ \A j \in 1 .. Half(n) : Up(level)[j] = Parent(level[2 * j - 1], Right(level, j))
  BY UpIs
<1>4. /\ Len(Padded(level)) = IF n % 2 = 1 THEN n + 1 ELSE n
      /\ \A j \in 1 .. n : Padded(level)[j] = level[j]
      /\ n % 2 = 1 => Padded(level)[n + 1] = level[n]
  BY PaddedIs
<1>5. Up(level)[i] = Parent(level[2 * i - 1], Right(level, i))
  BY <1>2, <1>3
<1>6. CASE p = 2 * i - 1
  <2>1. p % 2 = 1 /\ p - 1 < p /\ p - 1 + 1 = 2 * i - 1 /\ p + 1 = 2 * i
    <3> HIDE DEF i
    <3> QED
      BY <1>1, <1>2, <1>6
  <2>2. s.side = "left" /\ s.sibling = Padded(level)[p - 1 + 1]
    BY <2>1 DEF Sibling
  <2>3. Padded(level)[2 * i - 1] = level[2 * i - 1] /\ Right(level, i) = level[p + 1]
    <3> HIDE DEF i
    <3>1. 2 * i - 1 \in 1 .. n /\ 2 * i <= n
      BY <1>1, <1>2, <1>6
    <3> QED
      BY <1>4, <2>1, <3>1 DEF Right
  <2>4. s.sibling = level[2 * i - 1]
    <3> HIDE DEF i, s
    <3> QED
      BY <2>1, <2>2, <2>3
  <2> HIDE DEF i, s
  <2>5. Step(s, level[p + 1]) = Parent(level[2 * i - 1], Right(level, i))
    BY <2>2, <2>3, <2>4 DEF Step
  <2> QED
    BY <1>2, <1>3, <1>5, <2>5, <1>1 DEF s, i
<1>7. CASE p = 2 * i - 2
  <2>1. p % 2 # 1 /\ ~ (p + 1 < p) /\ p + 1 + 1 = 2 * i /\ p + 1 = 2 * i - 1
    <3> HIDE DEF i
    <3> QED
      BY <1>1, <1>2, <1>7
  <2>2. s.side = "right" /\ s.sibling = Padded(level)[p + 1 + 1]
    BY <2>1 DEF Sibling
  <2>3. Padded(level)[2 * i] = Right(level, i)
    <3> HIDE DEF i
    <3>1. CASE 2 * i <= n
      <4>1. 2 * i \in 1 .. n
        BY <1>1, <1>2, <3>1
      <4> QED
        BY <1>4, <3>1, <4>1 DEF Right
    <3>2. CASE ~ (2 * i <= n)
      <4>1. 2 * i = n + 1 /\ n % 2 = 1 /\ 2 * i - 1 = n
        BY <1>1, <1>2, <1>7, <3>2
      <4> QED
        BY <1>4, <3>2, <4>1 DEF Right
    <3> QED
      BY <3>1, <3>2
  <2>4. s.sibling = Right(level, i)
    <3> HIDE DEF i, s
    <3> QED
      BY <2>1, <2>2, <2>3
  <2> HIDE DEF i, s
  <2>5. Step(s, level[p + 1]) = Parent(level[2 * i - 1], Right(level, i))
    BY <2>1, <2>2, <2>4 DEF Step
  <2> QED
    BY <1>2, <1>3, <1>5, <2>5, <1>1 DEF s, i
<1> QED
  BY <1>2, <1>6, <1>7

----------------------------------------------------------------------------
(***************************************************************************)
(* The tree of a list of records, whatever its length.                     *)
(***************************************************************************)
\* Every level is one, and the levels shrink until one digest is left.
LEMMA TreeIs ==
    ASSUME NEW ids, IsLevel(ids)
    PROVE  \A n \in 0 .. Len(ids) :
             /\ IsLevel(Levels(ids)[n])
             /\ Len(Levels(ids)[n]) + n <= Len(ids) \/ Len(Levels(ids)[n]) = 1
<1> DEFINE L == Levels(ids)
           N == Len(ids)
           Good(n) == IsLevel(L[n]) /\ (Len(L[n]) + n <= N \/ Len(L[n]) = 1)
           S == {n \in 0 .. N : Good(n)}
<1>1. N \in Nat \ {0}
  BY DEF IsLevel
<1>2. L[0] = Leaves(ids) /\ \A n \in 1 .. N : L[n] = Up(L[n - 1])
  BY <1>1, LevelsAre
<1>3. Good(0)
  <2>1. Leaves(ids) = [i \in 1 .. N |-> Leaves(ids)[i]] /\ Len(Leaves(ids)) = N
    BY <1>1 DEF Leaves
  <2>2. IsLevel(Leaves(ids))
    BY <1>1, <2>1 DEF IsLevel
  <2> HIDE DEF L, N
  <2> QED
    BY <1>1, <1>2, <2>1, <2>2
<1>4. ASSUME NEW n \in 0 .. N - 1, Good(n) PROVE Good(n + 1)
  <2>1. L[n + 1] = Up(L[n]) /\ n \in Nat
    BY <1>1, <1>2
  <2>2. /\ IsLevel(L[n + 1]) /\ Len(L[n + 1]) = Half(Len(L[n]))
        /\ Len(L[n]) \in Nat \ {0} /\ Len(L[n + 1]) \in Nat \ {0}
    <3>1. IsLevel(L[n]) /\ IsLevel(L[n + 1]) /\ Len(L[n + 1]) = Half(Len(L[n]))
      <4> HIDE DEF L, N
      <4> QED
        BY <1>4, <2>1, UpIs
    <3> QED
      BY <3>1 DEF IsLevel
  <2>3. Len(L[n]) = 1 => Half(Len(L[n])) = 1
    BY DEF Half
  <2>4. Len(L[n]) > 1 => Half(Len(L[n])) < Len(L[n])
    <3> HIDE DEF L
    <3> QED
      BY <2>2, HalfOf
  <2>5. Len(L[n + 1]) + (n + 1) <= N \/ Len(L[n + 1]) = 1
    <3> DEFINE a == Len(L[n])
               b == Len(L[n + 1])
    <3>1. /\ a \in Nat \ {0} /\ b \in Nat \ {0} /\ n \in Nat
          /\ a = 1 => b = 1
          /\ a > 1 => b < a
          /\ a + n <= N \/ a = 1
      BY <1>4, <2>1, <2>2, <2>3, <2>4
    <3> HIDE DEF a, b, N
    <3>2. b + (n + 1) <= N \/ b = 1
      BY <1>1, <3>1
    <3> QED
      BY <3>2 DEF a, b
  <2> QED
    BY <2>2, <2>5
<1> HIDE DEF Good
<1>5. 0 .. N \subseteq S
  <2>1. 0 \in S /\ N \in Nat
    BY <1>1, <1>3
  <2>2. \A n \in 0 .. N - 1 : n \in S => n + 1 \in S
    BY <1>1, <1>4
  <2> HIDE DEF S, N
  <2> QED
    BY <2>1, <2>2, Ascend, Zenon
<1>6. \A n \in 0 .. N : Good(n)
  BY <1>5
<1> QED
  BY <1>6 DEF Good

\* The loop ends, at the first level of one digest.
LEMMA TurnsAre ==
    ASSUME NEW ids, IsLevel(ids)
    PROVE  /\ Turns(ids) \in 0 .. Len(ids)
           /\ Len(Levels(ids)[Turns(ids)]) = 1
           /\ \A m \in 0 .. Turns(ids) - 1 : Len(Levels(ids)[m]) > 1
<1> DEFINE L == Levels(ids)
           N == Len(ids)
           ends == {n \in 0 .. N : Len(L[n]) = 1}
<1>1. N \in Nat \ {0}
  BY DEF IsLevel
<1>2. \A n \in 0 .. N : /\ Len(L[n]) \in Nat \ {0}
                        /\ Len(L[n]) + n <= N \/ Len(L[n]) = 1
  BY TreeIs DEF IsLevel
<1> HIDE DEF L, N
<1>3. N \in ends
  BY <1>1, <1>2
<1>4. PICK n \in ends : \A m \in ends : n <= m
  <2>1. ends \in SUBSET Nat /\ ends # {}
    BY <1>1, <1>3
  <2> HIDE DEF ends
  <2> QED
    BY <2>1, LeastNumber
<1>5. /\ n \in 0 .. N /\ Len(L[n]) = 1
      /\ \A m \in 0 .. n - 1 : Len(L[m]) > 1
  <2>1. n \in 0 .. N /\ Len(L[n]) = 1
    BY <1>4
  <2>2. ASSUME NEW m \in 0 .. n - 1 PROVE Len(L[m]) > 1
    <3>1. m \in 0 .. N /\ m < n
      BY <1>1, <2>1
    <3>2. Len(L[m]) # 1
      <4> SUFFICES ASSUME Len(L[m]) = 1 PROVE FALSE
        OBVIOUS
      <4>1. m \in ends
        BY <3>1
      <4>2. n <= m /\ n \in Nat /\ m \in Nat
        BY <1>1, <1>4, <2>1, <3>1, <4>1
      <4> QED
        BY <3>1, <4>2
    <3>3. Len(L[m]) \in Nat \ {0}
      BY <1>2, <3>1
    <3>4. \A x \in Nat \ {0} : x # 1 => x > 1
      OBVIOUS
    <3> QED
      BY <3>2, <3>3, <3>4
  <2> QED
    BY <2>1, <2>2
<1>6. \E k \in 0 .. N : Len(L[k]) = 1 /\ \A m \in 0 .. k - 1 : Len(L[m]) > 1
  BY <1>5
<1>7. Turns(ids) = CHOOSE k \in 0 .. N : Len(L[k]) = 1 /\ \A m \in 0 .. k - 1 : Len(L[m]) > 1
  BY DEF Turns, L, N
<1>8. /\ Turns(ids) \in 0 .. N /\ Len(L[Turns(ids)]) = 1
      /\ \A m \in 0 .. Turns(ids) - 1 : Len(L[m]) > 1
  BY <1>6, <1>7, Zenon
<1> QED
  BY <1>8 DEF L, N

\* The path from a record climbs the nodes above it.
LEMMA ClimbsTheTree ==
    ASSUME NEW ids, IsLevel(ids), NEW i \in 1 .. Len(ids)
    PROVE  /\ Len(merkle_proof(ids, i - 1)) = Turns(ids)
           /\ Climb(ids[i], merkle_proof(ids, i - 1))[Turns(ids)] = merkle_root(ids)
<1> DEFINE L == Levels(ids)
           N == Len(ids)
           T == Turns(ids)
           P == Positions(ids, i - 1)
           path == merkle_proof(ids, i - 1)
           V == Climb(ids[i], path)
           Good(n) == P[n] \in 0 .. Len(L[n]) - 1 /\ V[n] = L[n][P[n] + 1]
           S == {n \in 0 .. T : Good(n)}
<1>1. N \in Nat \ {0} /\ ids # <<>>
  BY DEF IsLevel
<1>2. T \in 0 .. N /\ T \in Nat /\ Len(L[T]) = 1
  BY <1>1, TurnsAre
<1>3. L[0] = Leaves(ids) /\ \A n \in 1 .. N : L[n] = Up(L[n - 1])
  BY <1>1, LevelsAre
<1>4. P[0] = i - 1 /\ \A n \in 1 .. N : P[n] = P[n - 1] \div 2
  BY <1>1, PositionsAre
<1>5. path = [n \in 1 .. T |-> Sibling(L[n - 1], P[n - 1])]
  BY DEF merkle_proof
<1> HIDE DEF L, P, T, path
<1>6. Len(path) = T /\ \A n \in 1 .. T : path[n] = Sibling(L[n - 1], P[n - 1])
  BY <1>2, <1>5
<1>7. V[0] = Leaf(ids[i]) /\ \A n \in 1 .. T : V[n] = Step(path[n], V[n - 1])
  BY <1>2, <1>6, ClimbIs
<1> HIDE DEF V
<1>8. Good(0)
  <2>1. Len(Leaves(ids)) = N /\ Leaves(ids)[i] = Leaf(ids[i]) /\ i - 1 \in 0 .. N - 1 /\ i - 1 + 1 = i
    BY <1>1 DEF Leaves
  <2> HIDE DEF N
  <2> QED
    BY <1>3, <1>4, <1>7, <2>1
<1>9. ASSUME NEW n \in 0 .. T - 1, Good(n) PROVE Good(n + 1)
  <2>1. n \in 0 .. N /\ n + 1 \in 1 .. N /\ n + 1 \in 1 .. T /\ n + 1 - 1 = n
    BY <1>1, <1>2
  <2>2. IsLevel(L[n])
    BY <2>1, TreeIs DEF L
  <2> HIDE DEF N
  <2>3. /\ L[n + 1] = Up(L[n]) /\ P[n + 1] = P[n] \div 2
        /\ V[n + 1] = Step(Sibling(L[n], P[n]), L[n][P[n] + 1])
    BY <1>3, <1>4, <1>6, <1>7, <1>9, <2>1
  <2>4. /\ P[n] \div 2 \in 0 .. Len(Up(L[n])) - 1
        /\ Step(Sibling(L[n], P[n]), L[n][P[n] + 1]) = Up(L[n])[P[n] \div 2 + 1]
    BY <1>9, <2>2, SiblingStep
  <2> QED
    BY <2>3, <2>4
<1> HIDE DEF Good
<1>10. 0 .. T \subseteq S
  <2>1. 0 \in S
    BY <1>2, <1>8
  <2>2. \A n \in 0 .. T - 1 : n \in S => n + 1 \in S
    BY <1>2, <1>9
  <2> HIDE DEF S
  <2> QED
    BY <1>2, <2>1, <2>2, Ascend, Zenon
<1>11. Good(T)
  <2>1. T \in 0 .. T
    BY <1>2
  <2> QED
    BY <1>10, <2>1
<1>12. V[T] = L[T][1]
  <2>1. P[T] \in 0 .. 0 /\ V[T] = L[T][P[T] + 1]
    BY <1>2, <1>11 DEF Good
  <2> QED
    BY <2>1
<1>13. merkle_root(ids) = L[T][1]
  BY <1>1 DEF merkle_root, L, T
<1> QED
  BY <1>6, <1>12, <1>13 DEF V, path, T

\* Along one path different records stay different.
LEMMA ClimbsApart ==
    ASSUME NEW r, NEW s, r # s, NEW path, Len(path) \in Nat
    PROVE  Climb(r, path)[Len(path)] # Climb(s, path)[Len(path)]
<1> DEFINE N == Len(path)
           V == Climb(r, path)
           W == Climb(s, path)
           S == {n \in 0 .. N : V[n] # W[n]}
<1>1. V[0] = Leaf(r) /\ \A n \in 1 .. N : V[n] = Step(path[n], V[n - 1])
  BY ClimbIs
<1>2. W[0] = Leaf(s) /\ \A n \in 1 .. N : W[n] = Step(path[n], W[n - 1])
  BY ClimbIs
<1> HIDE DEF V, W
<1>3. 0 \in S
  BY <1>1, <1>2 DEF Leaf
<1>4. ASSUME NEW n \in 0 .. N - 1, n \in S PROVE n + 1 \in S
  <2>1. n + 1 \in 1 .. N /\ n + 1 - 1 = n /\ n + 1 \in 0 .. N
    OBVIOUS
  <2>2. V[n + 1] = Step(path[n + 1], V[n]) /\ W[n + 1] = Step(path[n + 1], W[n])
    BY <1>1, <1>2, <2>1
  <2>3. \A step, x, y : Step(step, x) = Step(step, y) => x = y
    BY DEF Step, Parent
  <2> QED
    BY <1>4, <2>1, <2>2, <2>3
<1>5. 0 .. N \subseteq S
  <2>1. N \in Nat
    OBVIOUS
  <2>2. \A n \in 0 .. N - 1 : n \in S => n + 1 \in S
    BY <1>4
  <2> HIDE DEF S, N
  <2> QED
    BY <1>3, <2>1, <2>2, Ascend, Zenon
<1>6. N \in S
  <2>1. N \in 0 .. N
    OBVIOUS
  <2> QED
    BY <1>5, <2>1
<1> QED
  BY <1>6 DEF V, W

\* No level repeats a digest if no record is repeated.
LEMMA TreeDistinct ==
    ASSUME NEW ids, IsLevel(ids), Distinct(ids)
    PROVE  \A n \in 0 .. Len(ids) : Distinct(Levels(ids)[n])
<1> DEFINE L == Levels(ids)
           N == Len(ids)
           S == {n \in 0 .. N : Distinct(L[n])}
<1>1. N \in Nat \ {0}
  BY DEF IsLevel
<1>2. L[0] = Leaves(ids) /\ \A n \in 1 .. N : L[n] = Up(L[n - 1])
  BY <1>1, LevelsAre
<1>3. \A n \in 0 .. N : IsLevel(L[n])
  BY TreeIs
<1> HIDE DEF L
<1>4. 0 \in S
  <2>1. Len(Leaves(ids)) = N /\ \A i \in 1 .. N : Leaves(ids)[i] = <<ids[i]>>
    BY <1>1 DEF Leaves, Leaf
  <2>2. Distinct(Leaves(ids))
    BY <2>1 DEF Distinct
  <2> QED
    BY <1>1, <1>2, <2>2
<1>5. \A n \in 0 .. N - 1 : n \in S => n + 1 \in S
  <2> SUFFICES ASSUME NEW n \in 0 .. N - 1, n \in S PROVE n + 1 \in S
    OBVIOUS
  <2>1. n + 1 \in 1 .. N /\ n + 1 - 1 = n /\ n \in 0 .. N /\ n + 1 \in 0 .. N
    BY <1>1
  <2>2. L[n + 1] = Up(L[n]) /\ IsLevel(L[n]) /\ Distinct(L[n])
    BY <1>2, <1>3, <2>1
  <2>3. Distinct(L[n + 1])
    BY <2>2, UpDistinct
  <2> QED
    BY <2>1, <2>3
<1>6. 0 .. N \subseteq S
  <2> HIDE DEF S, N
  <2> QED
    BY <1>1, <1>4, <1>5, Ascend
<1> QED
  BY <1>6 DEF L

\* Two lists of records have different roots: the lower tree is compared with
\* the levels of the other one that are as far below the root.
LEMMA TreesApart ==
    ASSUME NEW a, NEW b, IsLevel(a), IsLevel(b), Distinct(a), Distinct(b), a # b,
           Turns(a) <= Turns(b)
    PROVE  merkle_root(a) # merkle_root(b)
<1> DEFINE A == Levels(a)
           B == Levels(b)
           T == Turns(a)
           U == Turns(b)
           d == U - T
           S == {n \in 0 .. T : A[n] # B[n + d]}
<1>1. /\ Len(a) \in Nat \ {0} /\ a = [i \in 1 .. Len(a) |-> a[i]] /\ a # <<>>
      /\ Len(b) \in Nat \ {0} /\ b = [i \in 1 .. Len(b) |-> b[i]] /\ b # <<>>
  BY DEF IsLevel
<1>2. /\ T \in 0 .. Len(a) /\ U \in 0 .. Len(b)
      /\ Len(A[T]) = 1 /\ Len(B[U]) = 1
  BY TurnsAre
<1>3. /\ A[0] = Leaves(a) /\ \A n \in 1 .. Len(a) : A[n] = Up(A[n - 1])
      /\ B[0] = Leaves(b) /\ \A n \in 1 .. Len(b) : B[n] = Up(B[n - 1])
  BY <1>1, LevelsAre
<1>4. /\ \A n \in 0 .. Len(a) : IsLevel(A[n]) /\ Distinct(A[n])
      /\ \A n \in 0 .. Len(b) : IsLevel(B[n]) /\ Distinct(B[n])
  BY TreeIs, TreeDistinct
<1>5. merkle_root(a) = A[T][1] /\ merkle_root(b) = B[U][1]
  BY <1>1 DEF merkle_root
<1>6. T <= U
  OBVIOUS
<1> HIDE DEF A, B, T, U
<1>7. T \in Nat /\ U \in Nat /\ d \in Nat /\ d <= Len(b)
  BY <1>1, <1>2, <1>6
<1>8. A[0] # B[d]
  <2>1. Len(Leaves(a)) = Len(a) /\ Leaves(a)[1] = <<a[1]>> /\ \A i \in 1 .. Len(a) : Leaves(a)[i] = <<a[i]>>
    BY <1>1 DEF Leaves, Leaf
  <2>2. CASE d = 0
    <3>1. Len(Leaves(b)) = Len(b) /\ \A i \in 1 .. Len(b) : Leaves(b)[i] = <<b[i]>>
      BY <1>1 DEF Leaves, Leaf
    <3> SUFFICES ASSUME Leaves(a) = Leaves(b) PROVE FALSE
      BY <1>3, <2>2
    <3>2. Len(a) = Len(b)
      BY <2>1, <3>1
    <3>3. \A i \in 1 .. Len(a) : <<a[i]>> = <<b[i]>>
      BY <2>1, <3>1, <3>2
    <3>4. \A i \in 1 .. Len(a) : a[i] = b[i]
      BY <3>3
    <3>5. a = b
      BY <1>1, <3>2, <3>4
    <3> QED
      BY <3>5
  <2>3. CASE d # 0
    <3> HIDE DEF d
    <3>1. d \in 1 .. Len(b) /\ d - 1 \in 0 .. Len(b)
      BY <1>1, <1>7, <2>3
    <3>2. B[d] = Up(B[d - 1]) /\ IsLevel(B[d - 1])
      BY <1>3, <1>4, <3>1
    <3>3. Len(B[d - 1]) \in Nat \ {0}
      BY <3>2 DEF IsLevel
    <3>4. 1 \in 1 .. Half(Len(B[d - 1]))
      <4>1. \A k \in Nat \ {0} : 1 \in 1 .. Half(k)
        BY DEF Half
      <4> QED
        BY <3>3, <4>1
    <3>5. Up(B[d - 1])[1] = Parent(B[d - 1][2 * 1 - 1], Right(B[d - 1], 1))
      BY <3>2, <3>4, UpIs
    <3>6. \A x, y, z : <<x>> # <<y, z>>
      OBVIOUS
    <3> QED
      BY <1>3, <2>1, <3>2, <3>5, <3>6, SMTT(30) DEF Parent
  <2> QED
    BY <2>2, <2>3
<1>9. ASSUME NEW n \in 0 .. T - 1, A[n] # B[n + d] PROVE A[n + 1] # B[n + 1 + d]
  <2>1. /\ n \in 0 .. Len(a) /\ n + 1 \in 1 .. Len(a) /\ (n + 1) - 1 = n
        /\ n + d \in 0 .. Len(b) /\ n + 1 + d \in 1 .. Len(b) /\ (n + 1 + d) - 1 = n + d
    <3> DEFINE p == Len(a)
               q == Len(b)
    <3>1. /\ T + d = U /\ T <= p /\ U <= q
          /\ T \in Nat /\ U \in Nat /\ d \in Nat /\ p \in Nat /\ q \in Nat
      BY <1>1, <1>2, <1>7
    <3> HIDE DEF d, p, q
    <3>2. n \in 0 .. p /\ n + 1 \in 1 .. p /\ (n + 1) - 1 = n
      BY <3>1
    <3>3. n + d \in 0 .. q /\ n + 1 + d \in 1 .. q /\ (n + 1 + d) - 1 = n + d
      BY <3>1
    <3> QED
      BY <3>2, <3>3 DEF p, q
  <2>2. A[n + 1] = Up(A[n]) /\ B[n + 1 + d] = Up(B[n + d])
    <3> DEFINE i == n + 1
               k == n + 1 + d
    <3> HIDE DEF d
    <3>1. i \in 1 .. Len(a) /\ i - 1 = n /\ k \in 1 .. Len(b) /\ k - 1 = n + d
      BY <2>1, Zenon
    <3> HIDE DEF i, k
    <3>2. A[i] = Up(A[i - 1]) /\ B[k] = Up(B[k - 1])
      BY <1>3, <3>1, Zenon
    <3>3. A[i] = Up(A[n]) /\ B[k] = Up(B[n + d])
      BY <3>1, <3>2, Zenon
    <3> QED
      BY <3>3 DEF i, k
  <2>3. /\ IsLevel(A[n]) /\ Distinct(A[n])
        /\ IsLevel(B[n + d]) /\ Distinct(B[n + d])
    BY <1>4, <2>1
  <2> HIDE DEF d
  <2> QED
    BY <1>9, <2>2, <2>3, UpInjective
<1>10. 0 .. T \subseteq S
  <2>1. 0 \in S
    <3>1. 0 + d = d /\ 0 \in 0 .. T
      BY <1>7
    <3> QED
      BY <1>8, <3>1
  <2>2. \A n \in 0 .. T - 1 : n \in S => n + 1 \in S
    <3> TAKE n \in 0 .. T - 1
    <3>1. n + 1 \in 0 .. T
      BY <1>7
    <3> HIDE DEF d
    <3> QED
      BY <1>9, <3>1
  <2> HIDE DEF S
  <2> QED
    BY <1>7, <2>1, <2>2, Ascend, Zenon
<1>11. A[T] # B[U]
  <2>1. T \in 0 .. T /\ T + d = U
    BY <1>7
  <2> HIDE DEF d
  <2>2. A[T] # B[T + d]
    BY <1>10, <2>1
  <2> QED
    BY <2>1, <2>2
<1>12. IsLevel(A[T]) /\ IsLevel(B[U])
  BY <1>2, <1>4
<1>13. A[T] = [i \in 1 .. 1 |-> A[T][i]] /\ B[U] = [i \in 1 .. 1 |-> B[U][i]]
  BY <1>2, <1>12 DEF IsLevel
<1>14. A[T][1] # B[U][1]
  <2> SUFFICES ASSUME A[T][1] = B[U][1] PROVE FALSE
    OBVIOUS
  <2>1. \A i \in 1 .. 1 : A[T][i] = B[U][i]
    OBVIOUS
  <2>2. A[T] = B[U]
    BY <1>13, <2>1
  <2> QED
    BY <1>11, <2>2
<1> QED
  BY <1>5, <1>14

----------------------------------------------------------------------------
(***************************************************************************)
(* Sorting by rank.                                                        *)
(***************************************************************************)
LEMMA SortedIs ==
    ASSUME NEW S \in SUBSET Nat, IsFiniteSet(S)
    PROVE  /\ Sorted(S) \in Seq(S)
           /\ Len(Sorted(S)) = Cardinality(S)
           /\ \A i, j \in 1 .. Cardinality(S) : i < j => Sorted(S)[i] < Sorted(S)[j]
           /\ Range(Sorted(S)) = S
<1> DEFINE below(x) == {y \in S : y < x}
           n == Cardinality(S)
           rank == [x \in S |-> Cardinality(below(x))]
<1>1. n \in Nat
  BY FS_CardinalityType
<1>2. ASSUME NEW x \in S
      PROVE  /\ IsFiniteSet(below(x)) /\ Cardinality(below(x)) \in Nat
             /\ Cardinality(below(x)) < n
  <2>1. below(x) \in SUBSET S /\ x \notin below(x)
    OBVIOUS
  <2> HIDE DEF below
  <2>2. /\ IsFiniteSet(below(x)) /\ Cardinality(below(x)) <= n
        /\ (n = Cardinality(below(x)) => S = below(x))
    BY <2>1, FS_Subset
  <2>3. Cardinality(below(x)) \in Nat
    BY <2>2, FS_CardinalityType
  <2> QED
    BY <1>1, <2>1, <2>2, <2>3
<1>3. ASSUME NEW x \in S, NEW y \in S, x < y PROVE rank[x] < rank[y]
  <2>0. \A z \in S : z \in Nat
    OBVIOUS
  <2>1. below(x) \in SUBSET below(y) /\ x \in below(y) /\ x \notin below(x)
    <3>1. \A z \in S : z < x => z < y
      BY <1>3, <2>0
    <3>2. ~ (x < x)
      BY <2>0
    <3> QED
      BY <1>3, <3>1, <3>2
  <2>2. /\ IsFiniteSet(below(y)) /\ Cardinality(below(y)) \in Nat /\ Cardinality(below(x)) \in Nat
    BY <1>2
  <2> HIDE DEF below
  <2>3. Cardinality(below(x)) <= Cardinality(below(y)) /\ Cardinality(below(y)) # Cardinality(below(x))
    BY <2>1, <2>2, FS_Subset
  <2> QED
    BY <2>2, <2>3
<1>4. \A x \in S : rank[x] \in 0 .. n - 1
  <2> HIDE DEF below
  <2> QED
    BY <1>1, <1>2
<1> HIDE DEF below, n
<1>5. rank \in Injection(S, 0 .. n - 1)
  <2>1. rank \in [S -> 0 .. n - 1]
    BY <1>4
  <2>2. ASSUME NEW x \in S, NEW y \in S, rank[x] = rank[y] PROVE x = y
    <3>1. rank[x] \in Nat /\ rank[y] \in Nat
      BY <1>1, <1>4
    <3> HIDE DEF rank
    <3>2. ~ (x < y) /\ ~ (y < x)
      BY <1>3, <2>2, <3>1
    <3> QED
      BY <3>2
  <2> HIDE DEF rank
  <2> QED
    BY <2>1, <2>2 DEF Injection, IsInjective
<1>6. rank \in Surjection(S, 0 .. n - 1)
  <2>1. IsFiniteSet(0 .. n - 1) /\ Cardinality(0 .. n - 1) = n
    BY <1>1, FS_Interval
  <2> HIDE DEF rank
  <2> QED
    BY <1>5, <2>1, FS_Injection DEF n
<1>7. ASSUME NEW j \in 1 .. n PROVE Sorted(S)[j] \in S /\ rank[Sorted(S)[j]] = j - 1
  <2>1. j - 1 \in 0 .. n - 1
    BY <1>1
  <2>2. \E x \in S : rank[x] = j - 1
    <3> HIDE DEF rank
    <3> QED
      BY <1>6, <2>1, Zenon DEF Surjection
  <2>3. \E x \in S : Cardinality(below(x)) = j - 1
    BY <2>2
  <2>4. Sorted(S)[j] = CHOOSE x \in S : Cardinality(below(x)) = j - 1
    BY DEF Sorted, n, below
  <2> QED
    BY <2>3, <2>4
<1>8. DOMAIN Sorted(S) = 1 .. n /\ Len(Sorted(S)) = n /\ Sorted(S) \in Seq(S)
  <2>1. Sorted(S) = [j \in 1 .. n |-> Sorted(S)[j]]
    BY SMTT(30) DEF Sorted, n
  <2> DEFINE f == Sorted(S)
  <2>2. \A j \in 1 .. n : f[j] \in S
    BY <1>7
  <2>3. f = [j \in 1 .. n |-> f[j]]
    BY <2>1
  <2> HIDE DEF f
  <2>4. DOMAIN f = 1 .. n /\ Len(f) = n /\ f \in Seq(S)
    BY <1>1, <2>2, <2>3
  <2> QED
    BY <2>4 DEF f
<1>9. ASSUME NEW i \in 1 .. n, NEW j \in 1 .. n, i < j PROVE Sorted(S)[i] < Sorted(S)[j]
  <2> DEFINE x == Sorted(S)[i]
             y == Sorted(S)[j]
  <2>1. x \in S /\ y \in S /\ rank[x] = i - 1 /\ rank[y] = j - 1
    BY <1>7
  <2> HIDE DEF x, y, rank
  <2>2. x # y /\ ~ (y < x)
    <3>1. ~ (rank[y] < rank[x]) /\ rank[x] # rank[y]
      BY <1>1, <1>9, <2>1
    <3> QED
      BY <1>3, <2>1, <3>1
  <2>3. x < y
    BY <2>1, <2>2
  <2> QED
    BY <2>3 DEF x, y
<1>10. Range(Sorted(S)) = S
  <2>1. ASSUME NEW x \in S PROVE \E j \in 1 .. n : Sorted(S)[j] = x
    <3> DEFINE j == rank[x] + 1
    <3>1. j \in 1 .. n /\ j - 1 = rank[x]
      BY <1>1, <1>4
    <3> HIDE DEF rank, j
    <3>2. Sorted(S)[j] \in S /\ rank[Sorted(S)[j]] = rank[x]
      BY <1>7, <3>1
    <3>3. Sorted(S)[j] = x
      BY <1>5, <3>2 DEF Injection, IsInjective
    <3> QED
      BY <3>1, <3>3
  <2>2. \A j \in 1 .. n : Sorted(S)[j] \in S
    BY <1>7
  <2> QED
    BY <1>8, <2>1, <2>2, Zenon DEF Range
<1> QED
  BY <1>8, <1>9, <1>10 DEF n

----------------------------------------------------------------------------
(***************************************************************************)
(* The batches.  A call that has read its candidates writes them later, so *)
(* the invariant keeps that they are records of the node, none of them     *)
(* twice: the size of a package does not change when they are sorted.      *)
(***************************************************************************)
BInv ==
    /\ TypeOK
    /\ \A c \in Calls : IsInjective(chosen[c])
    /\ PackagesFit

LEMMA PresentType ==
    ASSUME stored \in 0 .. Len(Arrivals)
    PROVE  /\ Present \subseteq Records /\ Present \subseteq Nat
           /\ \A i \in 1 .. stored : i \in DOMAIN Arrivals /\ Arrivals[i] \in Present
<1>1. Arrivals \in Seq(Nat) /\ DOMAIN Arrivals = 1 .. Len(Arrivals) /\ Len(Arrivals) \in Nat
  BY BatchingAssumption
<1>2. \A i \in 1 .. stored : i \in DOMAIN Arrivals
  BY <1>1
<1>3. \A i \in DOMAIN Arrivals : Arrivals[i] \in Nat
  BY <1>1
<1>4. Present \subseteq Records
  BY <1>2, Zenon DEF Present, Records, Range
<1>5. Present \subseteq Nat
  BY <1>2, <1>3, Zenon DEF Present
<1>6. \A i \in 1 .. stored : Arrivals[i] \in Present
  BY Zenon DEF Present
<1> QED
  BY <1>2, <1>4, <1>5, <1>6

\* A set of numbers up to n has a greatest one.
LEMMA GreatestNumber ==
    ASSUME NEW n \in Nat, NEW P \in SUBSET (0 .. n), P # {}
    PROVE  Max(P) \in P
<1> DEFINE Q == {k \in 0 .. n : n - k \in P}
<1>1. Q \in SUBSET Nat /\ Q # {}
  <2>1. PICK x \in P : TRUE
    OBVIOUS
  <2>2. n - x \in 0 .. n /\ n - (n - x) = x
    OBVIOUS
  <2>3. n - x \in Q
    BY <2>1, <2>2
  <2> QED
    BY <2>3
<1> HIDE DEF Q
<1>2. PICK k \in Q : \A j \in Q : k <= j
  BY <1>1, LeastNumber
<1>3. n - k \in P /\ k \in 0 .. n
  BY <1>2 DEF Q
<1>4. ASSUME NEW y \in P PROVE n - k >= y
  <2>1. y \in 0 .. n /\ n - y \in 0 .. n /\ n - (n - y) = y
    OBVIOUS
  <2>2. n - y \in Q
    BY <2>1 DEF Q
  <2>3. k <= n - y
    BY <1>2, <2>2
  <2> QED
    BY <1>3, <2>1, <2>3
<1>5. \E x \in P : \A y \in P : x >= y
  BY <1>3, <1>4
<1> QED
  BY <1>5, Zenon DEF Max

\* Candidates are records of the node and are read once each.
LEMMA UnbatchedIs ==
    ASSUME stored \in 0 .. Len(Arrivals)
    PROVE  Unbatched \in Seq(Present) /\ IsInjective(Unbatched)
<1> DEFINE free == {i \in 1 .. stored : \A b \in batches : Arrivals[i] \notin Range(b.ids)}
           m == Min({Cardinality(free), Limit})
           order == Sorted(free)
<1>1. /\ Arrivals \in Seq(Nat) /\ IsInjective(Arrivals) /\ Limit \in Nat /\ Len(Arrivals) \in Nat
      /\ stored \in Nat
  BY BatchingAssumption
<1>2. free \in SUBSET Nat /\ free \subseteq 1 .. stored
  OBVIOUS
<1>3. IsFiniteSet(free) /\ Cardinality(free) \in Nat
  <2>1. IsFiniteSet(1 .. stored)
    BY <1>1, FS_Interval
  <2> HIDE DEF free
  <2> QED
    BY <1>2, <2>1, FS_Subset, FS_CardinalityType
<1>4. Unbatched = [j \in 1 .. m |-> Arrivals[order[j]]]
  BY DEF Unbatched
<1> HIDE DEF free
<1>5. m \in Nat /\ m <= Cardinality(free)
  <2> DEFINE k == Cardinality(free)
  <2>1. \E x \in {k, Limit} : \A y \in {k, Limit} : x <= y
    <3> HIDE DEF k
    <3>1. k \in Nat
      BY <1>3 DEF k
    <3>2. k <= Limit \/ Limit <= k
      BY <1>1, <3>1
    <3> QED
      BY <1>1, <3>1, <3>2
  <2>2. m \in {k, Limit} /\ \A y \in {k, Limit} : m <= y
    BY <2>1, Zenon DEF Min
  <2> HIDE DEF m
  <2> QED
    BY <1>1, <1>3, <2>2
<1>6. /\ order \in Seq(free) /\ Len(order) = Cardinality(free)
      /\ \A i, j \in 1 .. Cardinality(free) : i < j => order[i] < order[j]
  BY <1>2, <1>3, SortedIs
<1> HIDE DEF order, m
<1>7. \A j \in 1 .. m : order[j] \in free /\ j \in 1 .. Cardinality(free)
  BY <1>3, <1>5, <1>6
<1>8. \A j \in 1 .. m : order[j] \in 1 .. stored /\ order[j] \in Nat /\ order[j] \in DOMAIN Arrivals
  BY <1>2, <1>7, PresentType
<1>9. ASSUME NEW i \in 1 .. m, NEW j \in 1 .. m, Arrivals[order[i]] = Arrivals[order[j]]
      PROVE  i = j
  <2>1. order[i] = order[j]
    BY <1>1, <1>8, <1>9 DEF IsInjective
  <2>2. ~ (i < j) /\ ~ (j < i)
    BY <1>6, <1>7, <1>8, <2>1
  <2> QED
    BY <2>2, <1>5
<1>10. \A j \in 1 .. m : Arrivals[order[j]] \in Present
  BY <1>8, PresentType
<1>11. [j \in 1 .. m |-> Arrivals[order[j]]] \in Seq(Present)
  BY <1>5, <1>10
<1>12. IsInjective([j \in 1 .. m |-> Arrivals[order[j]]])
  BY <1>9 DEF IsInjective
<1> QED
  BY <1>4, <1>11, <1>12

\* What fits is none or makes a package within the limit.
LEMMA FittingIs ==
    ASSUME NEW T, NEW candidates \in Seq(T)
    PROVE  LET n == Fitting(candidates)
           IN  n # 0 => PackageBytes(SubSeq(candidates, 1, n)) <= MaxPackage
<1> DEFINE Reckoned(n) == EnvelopeGuess + Bytes(SubSeq(candidates, 1, n)) + n * PerRecordGuess
           Real(n) == PackageBytes(SubSeq(candidates, 1, n))
           first == {n \in 0 .. Len(candidates) : n = 0 \/ Reckoned(n) <= MaxPackage}
           guess == Max(first)
           second == {n \in 0 .. guess : n = 0 \/ Real(n) <= MaxPackage}
<1>1. Fitting(candidates) = Max(second)
  BY DEF Fitting
<1>2. guess \in Nat
  <2>1. Len(candidates) \in Nat
    OBVIOUS
  <2>2. first \in SUBSET (0 .. Len(candidates)) /\ 0 \in first
    <3> HIDE DEF Reckoned
    <3> QED
      BY <2>1
  <2> HIDE DEF first
  <2>3. guess \in first
    BY <2>1, <2>2, GreatestNumber
  <2>4. guess \in 0 .. Len(candidates)
    <3> HIDE DEF guess
    <3> QED
      BY <2>2, <2>3
  <2> HIDE DEF guess
  <2> QED
    BY <2>1, <2>4
<1> HIDE DEF Reckoned, Real, guess
<1>3. second \in SUBSET (0 .. guess) /\ 0 \in second
  BY <1>2
<1>4. Max(second) \in second
  <2> HIDE DEF second
  <2> QED
    BY <1>2, <1>3, GreatestNumber
<1>5. Max(second) # 0 => Real(Max(second)) <= MaxPackage
  BY <1>4
<1> HIDE DEF second
<1> QED
  BY <1>1, <1>5 DEF Real

\* A manifest of distinct candidates: valid, of the same records and size.
LEMMA ManifestIs ==
    ASSUME NEW T \in SUBSET Nat, NEW list \in Seq(T), IsInjective(list), list # <<>>
    PROVE  LET ids == Sorted(Range(list))
           IN  /\ ids \in Seq(T) /\ ValidIds(ids)
               /\ Range(ids) = Range(list) /\ Len(ids) = Len(list)
<1> DEFINE S == Range(list)
           ids == Sorted(S)
           n == Len(list)
<1>1. n \in Nat \ {0} /\ DOMAIN list = 1 .. n /\ \A i \in 1 .. n : list[i] \in T
  OBVIOUS
<1>2. S \in SUBSET T /\ S \in SUBSET Nat
  BY <1>1 DEF Range
<1>3. list \in Bijection(1 .. n, S)
  <2>1. list \in [1 .. n -> S] /\ \A x \in S : \E i \in 1 .. n : list[i] = x
    BY <1>1 DEF Range
  <2> HIDE DEF S, n
  <2> QED
    BY <1>1, <2>1, Zenon DEF Bijection, Injection, Surjection, IsInjective
<1>4. IsFiniteSet(S) /\ Cardinality(S) = n
  <2>1. IsFiniteSet(1 .. n) /\ Cardinality(1 .. n) = n
    BY <1>1, FS_Interval
  <2>2. ExistsBijection(1 .. n, S)
    BY <1>3 DEF ExistsBijection
  <2> HIDE DEF S, n
  <2> QED
    BY <2>1, <2>2, FS_Bijection
<1> HIDE DEF S, n
<1>5. /\ ids \in Seq(S) /\ Len(ids) = n /\ Range(ids) = S
      /\ \A i, j \in 1 .. n : i < j => ids[i] < ids[j]
  BY <1>2, <1>4, SortedIs
<1> HIDE DEF ids
<1>6. ids \in Seq(T)
  <2>1. ids = [i \in 1 .. n |-> ids[i]] /\ \A i \in 1 .. n : ids[i] \in S
    BY <1>5
  <2>2. \A i \in 1 .. n : ids[i] \in T
    BY <1>2, <2>1
  <2>3. ids \in [1 .. n -> T]
    BY <2>1, <2>2
  <2> QED
    BY <1>1, <2>3
<1>7. ids # <<>> /\ \A i \in 1 .. (Len(ids) - 1) : ids[i] < ids[i + 1]
  <2>1. ids # <<>>
    BY <1>1, <1>5
  <2>2. ASSUME NEW i \in 1 .. (n - 1) PROVE ids[i] < ids[i + 1]
    <3>1. i \in 1 .. n /\ i + 1 \in 1 .. n /\ i < i + 1
      BY <1>1
    <3> QED
      BY <1>5, <3>1
  <2> QED
    BY <1>5, <2>1, <2>2
<1> QED
  BY <1>5, <1>6, <1>7 DEF ValidIds, ids, S, n

----------------------------------------------------------------------------
\* The invariant, action by action.

LEMMA SeqWithin ==
    ASSUME NEW A, NEW B, NEW list \in Seq(A), Range(list) \subseteq B
    PROVE  list \in Seq(B)
<1>1. list \in [1 .. Len(list) -> A] /\ Len(list) \in Nat /\ DOMAIN list = 1 .. Len(list)
  OBVIOUS
<1>2. \A i \in 1 .. Len(list) : list[i] \in B
  BY <1>1, Zenon DEF Range
<1>3. list \in [1 .. Len(list) -> B]
  BY <1>1, <1>2
<1> QED
  BY <1>1, <1>3

LEMMA SeqGrows ==
    ASSUME NEW A, NEW B, A \subseteq B, NEW list \in Seq(A)
    PROVE  list \in Seq(B)
<1>1. list \in [1 .. Len(list) -> A] /\ Len(list) \in Nat
  OBVIOUS
<1>2. list \in [1 .. Len(list) -> B]
  BY <1>1
<1> QED
  BY <1>1, <1>2

\* What storing a batch leaves to be shown of it.
LEMMA AddBatch ==
    ASSUME BInv, NEW ids \in Seq(Present), ValidIds(ids), NEW at \in Times,
           Len(ids) > 1 /\ ids \notin Offers => PackageBytes(ids) <= MaxPackage,
           batches' = batches \cup {[ids |-> ids, at |-> at]}, stored' = stored
    PROVE  /\ batches' \subseteq [ids : Seq(Present'), at : Times]
           /\ \A b \in batches' : ValidIds(b.ids)
           /\ PackagesFit'
<1>1. Present' = Present
  BY DEF Present
<1>2. [ids |-> ids, at |-> at] \in [ids : Seq(Present), at : Times]
  OBVIOUS
<1>3. batches' \subseteq [ids : Seq(Present'), at : Times]
  BY <1>1, <1>2 DEF BInv, TypeOK
<1>4. \A b \in batches' : ValidIds(b.ids)
  BY DEF BInv, TypeOK
<1>5. PackagesFit'
  BY DEF BInv, PackagesFit, PackageBytes, Bytes
<1> QED
  BY <1>3, <1>4, <1>5

LEMMA BatchesStart == Init => BInv
<1> SUFFICES ASSUME Init PROVE BInv
  OBVIOUS
<1>1. stored = 0 /\ batches = {} /\ extras = 0 /\ chosen = [c \in Calls |-> <<>>]
  BY DEF Init
<1>2. stored \in 0 .. Len(Arrivals) /\ extras \in 0 .. MaxExtras
  BY <1>1, BatchingAssumption
<1>3. chosen \in [Calls -> Seq(Present)]
  BY <1>1
<1>4. TypeOK
  BY <1>1, <1>2, <1>3 DEF TypeOK
<1>5. \A c \in Calls : IsInjective(chosen[c])
  BY <1>1 DEF IsInjective
<1> QED
  BY <1>1, <1>4, <1>5 DEF BInv, PackagesFit

LEMMA SubmitKeeps == ASSUME BInv, Submit PROVE BInv'
<1>1. /\ stored \in 0 .. Len(Arrivals) /\ Len(Arrivals) \in Nat
      /\ stored < Len(Arrivals) /\ stored' = stored + 1
      /\ batches' = batches /\ chosen' = chosen /\ extras' = extras
  BY BatchingAssumption DEF BInv, TypeOK, Submit
<1>2. stored' \in 0 .. Len(Arrivals) /\ \A i \in 1 .. stored : i \in 1 .. stored'
  BY <1>1
<1>3. Present \subseteq Present'
  BY <1>2, Zenon DEF Present
<1>4. \A list \in Seq(Present) : list \in Seq(Present')
  BY <1>3, SeqGrows
<1>5. batches' \subseteq [ids : Seq(Present'), at : Times]
  <2> SUFFICES ASSUME NEW b \in batches PROVE b \in [ids : Seq(Present'), at : Times]
    BY <1>1
  <2>1. b \in [ids : Seq(Present), at : Times]
    BY DEF BInv, TypeOK
  <2>2. b.ids \in Seq(Present')
    BY <1>4, <2>1
  <2> QED
    BY <2>1, <2>2
<1>6. chosen' \in [Calls -> Seq(Present')]
  <2>1. chosen \in [Calls -> Seq(Present)]
    BY DEF BInv, TypeOK
  <2>2. \A c \in Calls : chosen[c] \in Seq(Present')
    BY <1>4, <2>1
  <2> QED
    BY <1>1, <2>1, <2>2
<1>7. TypeOK'
  BY <1>1, <1>2, <1>5, <1>6 DEF BInv, TypeOK
<1> QED
  BY <1>1, <1>7 DEF BInv, PackagesFit, PackageBytes, Bytes

LEMMA CreateBatchReadKeeps ==
    ASSUME BInv, NEW c \in Calls, CreateBatchRead(c) PROVE BInv'
<1>1. /\ chosen' = [chosen EXCEPT ![c] = Unbatched]
      /\ stored' = stored /\ batches' = batches /\ extras' = extras
  BY DEF CreateBatchRead
<1>2. Unbatched \in Seq(Present) /\ IsInjective(Unbatched)
  BY UnbatchedIs DEF BInv, TypeOK
<1>3. chosen \in [Calls -> Seq(Present)] /\ \A d \in Calls : IsInjective(chosen[d])
  BY DEF BInv, TypeOK
<1>4. Present' = Present
  BY <1>1 DEF Present
<1>5. chosen' \in [Calls -> Seq(Present')] /\ \A d \in Calls : IsInjective(chosen'[d])
  BY <1>1, <1>2, <1>3, <1>4
<1>6. TypeOK'
  BY <1>1, <1>4, <1>5 DEF BInv, TypeOK
<1> QED
  BY <1>1, <1>5, <1>6 DEF BInv, PackagesFit, PackageBytes, Bytes

LEMMA CreateBatchWriteKeeps ==
    ASSUME BInv, NEW c \in Calls, NEW at \in Times, CreateBatchWrite(c, at) PROVE BInv'
<1> DEFINE list == chosen[c]
           n == Fitting(list)
           taken == SubSeq(list, 1, n)
           ids == Sorted(Range(taken))
<1>1. /\ n \in 0 .. Len(list)
      /\ batches' = IF n = 0 THEN batches ELSE batches \cup {[ids |-> ids, at |-> at]}
      /\ chosen' = [chosen EXCEPT ![c] = <<>>]
      /\ stored' = stored /\ extras' = extras
  BY DEF CreateBatchWrite
<1>2. chosen \in [Calls -> Seq(Present)] /\ \A d \in Calls : IsInjective(chosen[d])
  BY DEF BInv, TypeOK
<1>3. list \in Seq(Present) /\ IsInjective(list) /\ Len(list) \in Nat
  BY <1>2
<1>4. Present' = Present /\ Present \in SUBSET Nat
  BY <1>1, PresentType DEF Present, BInv, TypeOK
<1>5. chosen' \in [Calls -> Seq(Present')] /\ \A d \in Calls : IsInjective(chosen'[d])
  <2>1. <<>> \in Seq(Present') /\ IsInjective(<<>>)
    BY DEF IsInjective
  <2>2. chosen \in [Calls -> Seq(Present')]
    BY <1>2, <1>4
  <2> QED
    BY <1>1, <1>2, <2>1, <2>2
<1>6. /\ batches' \subseteq [ids : Seq(Present'), at : Times]
      /\ \A b \in batches' : ValidIds(b.ids)
      /\ PackagesFit'
  <2>1. CASE n = 0
    BY <1>1, <1>4, <2>1 DEF BInv, TypeOK, PackagesFit, PackageBytes, Bytes
  <2>2. CASE n # 0
    <3>1. PackageBytes(taken) <= MaxPackage
      <4> HIDE DEF list
      <4> QED
        BY <1>3, <2>2, FittingIs
    <3> HIDE DEF n, list
    <3>2. /\ taken \in Seq(Present) /\ Len(taken) = n
          /\ \A i \in 1 .. n : taken[i] = list[i]
      BY <1>1, <1>3, <2>2, SubSeqProperties
    <3> HIDE DEF taken
    <3>3. taken # <<>> /\ DOMAIN taken = 1 .. n /\ n \in Nat
      BY <1>1, <1>3, <2>2, <3>2
    <3>4. IsInjective(taken)
      <4>1. \A i \in 1 .. n : i \in DOMAIN list
        BY <1>1, <1>3
      <4> QED
        BY <1>3, <3>2, <3>3, <4>1 DEF IsInjective
    <3>5. /\ ids \in Seq(Present) /\ ValidIds(ids)
          /\ Range(ids) = Range(taken) /\ Len(ids) = Len(taken)
      BY <1>4, <3>2, <3>3, <3>4, ManifestIs
    <3>6. PackageBytes(ids) = PackageBytes(taken)
      BY <3>5 DEF PackageBytes, Bytes
    <3>7. batches' = batches \cup {[ids |-> ids, at |-> at]} /\ stored' = stored
      BY <1>1, <2>2 DEF n, list, taken
    <3> HIDE DEF ids
    <3> QED
      BY <3>1, <3>5, <3>6, <3>7, AddBatch
  <2> QED
    BY <2>1, <2>2
<1>7. TypeOK'
  BY <1>1, <1>5, <1>6 DEF BInv, TypeOK
<1> QED
  BY <1>5, <1>6, <1>7 DEF BInv

\* A batch that comes with its identifiers in order: made of one record, or
\* sent by a peer.
LEMMA ExtraKeeps ==
    ASSUME BInv, NEW ids \in Seq(Present), ValidIds(ids), NEW at \in Times,
           ids \in Offers \/ Len(ids) = 1, extras < MaxExtras,
           batches' = batches \cup {[ids |-> ids, at |-> at]},
           extras' = extras + 1, stored' = stored, chosen' = chosen
    PROVE  BInv'
<1>1. ~ (Len(ids) > 1 /\ ids \notin Offers)
  <2>1. Len(ids) = 1 => ~ (Len(ids) > 1)
    <3> DEFINE l == Len(ids)
    <3>1. l = 1 => ~ (l > 1)
      <4> HIDE DEF l
      <4> QED
        OBVIOUS
    <3> QED
      BY <3>1
  <2> QED
    BY <2>1, Zenon
<1>2. /\ batches' \subseteq [ids : Seq(Present'), at : Times]
      /\ \A b \in batches' : ValidIds(b.ids)
      /\ PackagesFit'
  BY <1>1, AddBatch
<1>3. Present' = Present
  BY DEF Present
<1>4. extras' \in 0 .. MaxExtras
  BY BatchingAssumption DEF BInv, TypeOK
<1>5. TypeOK'
  BY <1>2, <1>3, <1>4 DEF BInv, TypeOK
<1> QED
  BY <1>2, <1>5 DEF BInv

LEMMA BatchesStep == BInv /\ [Next]_vars => BInv'
<1> SUFFICES ASSUME BInv, [Next]_vars PROVE BInv'
  OBVIOUS
<1>1. CASE Submit
  BY <1>1, SubmitKeeps
<1>2. ASSUME NEW c \in Calls, CreateBatch(c) PROVE BInv'
  BY <1>2, CreateBatchReadKeeps, CreateBatchWriteKeeps DEF CreateBatch
<1>3. ASSUME NEW r \in Records, NEW at \in Times, CreateDirectBatch(r, at) PROVE BInv'
  <2>1. /\ extras < MaxExtras /\ extras' = extras + 1 /\ stored' = stored /\ chosen' = chosen
        /\ batches' = batches \cup {[ids |-> <<r>>, at |-> at]} /\ r \in Present
    BY <1>3 DEF CreateDirectBatch
  <2>2. <<r>> \in Seq(Present) /\ Len(<<r>>) = 1 /\ ValidIds(<<r>>)
    BY <2>1 DEF ValidIds
  <2> QED
    BY <2>1, <2>2, ExtraKeeps
<1>4. ASSUME NEW o \in Offers, NEW at \in Times, ImportBatch(o, at) PROVE BInv'
  <2>1. /\ extras < MaxExtras /\ extras' = extras + 1 /\ stored' = stored /\ chosen' = chosen
        /\ batches' = batches \cup {[ids |-> o, at |-> at]}
        /\ ValidIds(o) /\ Range(o) \subseteq Present
    BY <1>4 DEF ImportBatch
  <2>2. o \in Seq(Records)
    BY BatchingAssumption
  <2>3. o \in Seq(Present)
    BY <2>1, <2>2, SeqWithin
  <2> QED
    BY <2>1, <2>3, ExtraKeeps
<1>5. CASE UNCHANGED vars
  <2>1. stored' = stored /\ batches' = batches /\ chosen' = chosen /\ extras' = extras
    BY <1>5 DEF vars
  <2>2. TypeOK'
    BY <2>1 DEF BInv, TypeOK, Present
  <2> QED
    BY <2>1, <2>2 DEF BInv, PackagesFit, PackageBytes, Bytes
<1> QED
  BY <1>1, <1>2, <1>3, <1>4, <1>5 DEF Next

LEMMA BatchesInvariance == Spec => []BInv
BY BatchesStart, BatchesStep, PTL DEF Spec

\* The identifiers of a batch are a level without repetition.
LEMMA BatchIsLevel ==
    ASSUME TypeOK, NEW b \in batches
    PROVE  IsLevel(b.ids) /\ Distinct(b.ids)
<1> DEFINE ids == b.ids
           n == Len(ids)
<1>1. b \in [ids : Seq(Present), at : Times] /\ ValidIds(ids) /\ Present \subseteq Nat
  BY PresentType DEF TypeOK
<1>2. ids \in Seq(Present) /\ ids # <<>> /\ \A i \in 1 .. (n - 1) : ids[i] < ids[i + 1]
  BY <1>1 DEF ValidIds
<1> HIDE DEF ids
<1>3. n \in Nat \ {0} /\ ids = [i \in 1 .. n |-> ids[i]] /\ \A i \in 1 .. n : ids[i] \in Nat
  BY <1>1, <1>2
<1>4. IsLevel(ids)
  BY <1>3 DEF IsLevel
<1>5. ASSUME NEW i \in 1 .. n, NEW j \in 1 .. n, i < j PROVE ids[i] < ids[j]
  <2> DEFINE S == {k \in 0 .. n - (i + 1) : ids[i] < ids[i + 1 + k]}
             m == n - (i + 1)
  <2>1. m \in Nat /\ i \in Nat /\ j \in Nat
    BY <1>3, <1>5
  <2>2. 0 \in S
    <3>1. i \in 1 .. (n - 1) /\ i + 1 + 0 = i + 1 /\ 0 \in 0 .. n - (i + 1)
      BY <1>3, <1>5
    <3> QED
      BY <1>2, <3>1
  <2>3. ASSUME NEW k \in 0 .. m - 1, k \in S PROVE k + 1 \in S
    <3> DEFINE x == i + 1 + k
    <3>1. x \in 1 .. (n - 1) /\ x + 1 = i + 1 + (k + 1) /\ k + 1 \in 0 .. n - (i + 1)
      <4>1. n \in Nat
        BY <1>3
      <4> HIDE DEF n
      <4> QED
        BY <4>1
    <3>2. ids[i] < ids[x]
      BY <2>3
    <3> HIDE DEF x
    <3>3. ids[x] < ids[x + 1] /\ x \in 1 .. n /\ x + 1 \in 1 .. n
      BY <1>2, <1>3, <3>1, SMTT(30)
    <3>4. ids[i] < ids[x + 1]
      BY <1>3, <3>2, <3>3
    <3> QED
      BY <3>1, <3>4
  <2>4. \A k \in 0 .. m - 1 : k \in S => k + 1 \in S
    BY <2>3
  <2>5. 0 .. m \subseteq S
    <3> HIDE DEF S, m
    <3> QED
      BY <2>1, <2>2, <2>4, Ascend, Zenon
  <2>6. j - (i + 1) \in 0 .. m /\ i + 1 + (j - (i + 1)) = j
    BY <1>3, <1>5
  <2>7. j - (i + 1) \in S
    <3> HIDE DEF S, m
    <3> QED
      BY <2>5, <2>6
  <2> QED
    BY <2>6, <2>7
<1>6. Distinct(ids)
  <2> SUFFICES ASSUME NEW i \in 1 .. n, NEW j \in 1 .. n, ids[i] = ids[j] PROVE i = j
    BY DEF Distinct
  <2>1. ~ (ids[i] < ids[j]) /\ ~ (ids[j] < ids[i])
    BY <1>3
  <2>2. ~ (i < j) /\ ~ (j < i)
    BY <1>5, <2>1
  <2> QED
    BY <1>3, <2>2
<1> QED
  BY <1>4, <1>6 DEF ids

----------------------------------------------------------------------------
(***************************************************************************)
(* Batches hold stored records only, in order and without repetition,      *)
(* whatever calls of create_batch overlap and whatever peers send.         *)
(***************************************************************************)
THEOREM BatchesTyped == Spec => []TypeOK
BY BatchesInvariance, PTL DEF BInv

(***************************************************************************)
(* create_batch never stores a batch whose package exceeds the limit,      *)
(* whatever the sizes of the records and the reckoning it starts from.     *)
(***************************************************************************)
THEOREM PackagesAlwaysFit == Spec => []PackagesFit
BY BatchesInvariance, PTL DEF BInv

(***************************************************************************)
(* merkle_proof and verify_merkle_proof agree, for batches of every length *)
(* and every position: the proof of a record verifies against the root,    *)
(* and for no other record.                                                *)
(***************************************************************************)
THEOREM ProofsAlwaysVerify == Spec => []ProofsVerify
<1>1. TypeOK => ProofsVerify
  <2> SUFFICES ASSUME TypeOK, NEW b \in batches, NEW i \in 1 .. Len(b.ids), NEW r \in Present
               PROVE  verify_merkle_proof(r, merkle_proof(b.ids, i - 1), merkle_root(b.ids))
                        <=> r = b.ids[i]
    BY DEF ProofsVerify
  <2> DEFINE ids == b.ids
             path == merkle_proof(ids, i - 1)
  <2>1. IsLevel(ids)
    BY BatchIsLevel
  <2>2. Len(path) = Turns(ids) /\ Climb(ids[i], path)[Turns(ids)] = merkle_root(ids)
    BY <2>1, ClimbsTheTree
  <2>3. Len(path) \in Nat
    BY <2>1, <2>2, TurnsAre DEF IsLevel
  <2> HIDE DEF path
  <2>4. r # ids[i] => Climb(r, path)[Len(path)] # Climb(ids[i], path)[Len(path)]
    BY <2>3, ClimbsApart
  <2>5. Climb(r, path)[Len(path)] = merkle_root(ids) <=> r = ids[i]
    BY <2>2, <2>4
  <2> QED
    BY <2>5 DEF verify_merkle_proof, path
<1> QED
  BY <1>1, BatchesTyped, PTL

(***************************************************************************)
(* A Merkle root commits to one list of records: no two batches of the     *)
(* node, of any lengths, have the same root unless they hold the same      *)
(* records, although the last digest of an odd level is repeated.          *)
(***************************************************************************)
THEOREM RootsAlwaysBind == Spec => []RootsBind
<1>1. TypeOK => RootsBind
  <2> SUFFICES ASSUME TypeOK, NEW a \in batches, NEW b \in batches, a.ids # b.ids
               PROVE  merkle_root(a.ids) # merkle_root(b.ids)
    BY DEF RootsBind
  <2>1. /\ IsLevel(a.ids) /\ Distinct(a.ids)
        /\ IsLevel(b.ids) /\ Distinct(b.ids)
    BY BatchIsLevel
  <2>2. Turns(a.ids) \in Int /\ Turns(b.ids) \in Int
    BY <2>1, TurnsAre DEF IsLevel
  <2>3. Turns(a.ids) <= Turns(b.ids) \/ Turns(b.ids) <= Turns(a.ids)
    BY <2>2
  <2> QED
    BY <2>1, <2>3, TreesApart
<1> QED
  BY <1>1, BatchesTyped, PTL
=============================================================================
