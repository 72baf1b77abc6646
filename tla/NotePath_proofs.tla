-------------------------- MODULE NotePath_proofs --------------------------
(***************************************************************************)
(* What path.Clean makes of a path, for paths of any length over any       *)
(* segments: the note a walk along the path ends at.                       *)
(*                                                                         *)
(* The theorems of the library on induction take a formula, which the      *)
(* provers cannot instantiate.  So the numbers that have a property are    *)
(* taken for a set, and one that lacks it for the least of its complement  *)
(* (SetInduction).                                                         *)
(***************************************************************************)
EXTENDS NotePath, Integers, WellFoundedInduction, FiniteSetTheorems, SequenceTheorems,
        TLAPS

\* A set that has 0 and, with any number, the next one has them all.
LEMMA SetInduction ==
    ASSUME NEW S, 0 \in S, \A n \in Nat : n \in S => n + 1 \in S
    PROVE  Nat \subseteq S
<1> DEFINE T == Nat \ S
           R == OpToRel(<, Nat)
<1>1. IsWellFoundedOn(R, Nat)
  BY NatLessThanWellFounded
<1>2. ASSUME T # {} PROVE FALSE
  <2>1. PICK x \in T : \A y \in T : ~(<<y, x>> \in R)
    <3>1. T \subseteq Nat
      OBVIOUS
    <3> HIDE DEF R, T
    <3>2. QED
      BY <1>1, <1>2, <3>1, WFMin, Zenon
  <2>2. \A y \in T : ~(y < x)
    BY <2>1, Zenon DEF OpToRel
  <2>3. x # 0 /\ x - 1 \in Nat /\ x - 1 < x
    OBVIOUS
  <2>4. x - 1 \in S
    BY <2>2, <2>3
  <2>5. (x - 1) + 1 \in S
    BY <2>4, <2>3
  <2>6. QED
    BY <2>5
<1>3. QED
  BY <1>2

-----------------------------------------------------------------------------
(* The fold *)

\* f folds the segments at any of the first m positions, the last one last.
Folds(f, input, m) ==
    f = [s \in SUBSET (1 .. m) |->
            IF s = {} THEN <<>>
            ELSE LET x == Max(s) IN CleanStep(f[s \ {x}], input[x])]

LEMMA CleanIsFold ==
    ASSUME NEW input, NEW n \in Nat, DOMAIN input = 1 .. n
    PROVE  Clean(input) = (CHOOSE f : Folds(f, input, n))[1 .. n]
BY Zenon DEF Clean, FoldLeft, MapThenFoldSet, Folds

\* The last of the first positions.
LEMMA LastIsMax ==
    ASSUME NEW m \in Nat, NEW s \in SUBSET (1 .. m + 1), m + 1 \in s
    PROVE  Max(s) = m + 1
<1>1. \A y \in s : m + 1 >= y
  OBVIOUS
<1>2. \A x \in s : (\A y \in s : x >= y) => x = m + 1
  OBVIOUS
<1>3. QED
  BY <1>1, <1>2 DEF Max

\* There is such a function: it takes one position more at a time.
LEMMA FoldExists ==
    ASSUME NEW input, NEW n \in Nat
    PROVE  \E f : Folds(f, input, n)
<1> DEFINE S == {m \in Nat : \E f : Folds(f, input, m)}
<1>1. 0 \in S
  <2> DEFINE f == [s \in SUBSET (1 .. 0) |-> <<>>]
  <2>1. 1 .. 0 = {}
    OBVIOUS
  <2>2. Folds(f, input, 0)
    BY <2>1 DEF Folds
  <2>3. QED
    BY <2>2
<1>2. ASSUME NEW m \in Nat, m \in S PROVE m + 1 \in S
  <2>1. PICK f : Folds(f, input, m)
    BY <1>2
  <2> DEFINE g == [s \in SUBSET (1 .. m + 1) |->
                      IF m + 1 \in s THEN CleanStep(f[s \ {m + 1}], input[m + 1])
                      ELSE f[s]]
             Value(s) == IF s = {} THEN <<>>
                         ELSE LET x == Max(s) IN CleanStep(g[s \ {x}], input[x])
  <2>2. ASSUME NEW s \in SUBSET (1 .. m + 1), m + 1 \in s PROVE g[s] = Value(s)
    <3>1. Max(s) = m + 1
      BY <2>2, LastIsMax
    <3>2. s \ {m + 1} \in SUBSET (1 .. m + 1) /\ m + 1 \notin s \ {m + 1}
      OBVIOUS
    <3>3. g[s \ {m + 1}] = f[s \ {m + 1}]
      BY <3>2
    <3>4. QED
      BY <2>2, <3>1, <3>3
  <2>3. ASSUME NEW s \in SUBSET (1 .. m + 1), m + 1 \notin s PROVE g[s] = Value(s)
    <3>1. s \in SUBSET (1 .. m)
      BY <2>3
    <3>2. g[s] = f[s]
      BY <2>3
    <3>3. f[s] = IF s = {} THEN <<>>
                 ELSE LET x == Max(s) IN CleanStep(f[s \ {x}], input[x])
      BY <2>1, <3>1 DEF Folds
    <3>4. g[s \ {Max(s)}] = f[s \ {Max(s)}]
      BY <2>3
    <3>5. QED
      BY <3>2, <3>3, <3>4
  <2>4. g = [s \in SUBSET (1 .. m + 1) |-> Value(s)]
    <3>1. \A s \in SUBSET (1 .. m + 1) : g[s] = Value(s)
      BY <2>2, <2>3
    <3>2. g = [s \in SUBSET (1 .. m + 1) |-> g[s]]
      OBVIOUS
    <3> HIDE DEF g
    <3>3. QED
      BY <3>1, <3>2
  <2>5. Folds(g, input, m + 1)
    BY <2>4 DEF Folds
  <2>6. QED
    BY <2>5
<1>3. Nat \subseteq S
  BY <1>1, <1>2, SetInduction
<1>4. QED
  BY <1>3

\* So path.Clean takes the segments one after the other.
LEMMA CleanBySteps ==
    ASSUME NEW input, NEW n \in Nat, DOMAIN input = 1 .. n
    PROVE  \E out : /\ out[0] = <<>> /\ out[n] = Clean(input)
                    /\ \A m \in 0 .. n - 1 : out[m + 1] = CleanStep(out[m], input[m + 1])
<1>1. PICK f : Folds(f, input, n) /\ Clean(input) = f[1 .. n]
  BY FoldExists, CleanIsFold
<1> DEFINE out == [m \in 0 .. n |-> f[1 .. m]]
<1>2. ASSUME NEW s \in SUBSET (1 .. n)
      PROVE  f[s] = IF s = {} THEN <<>>
                    ELSE LET x == Max(s) IN CleanStep(f[s \ {x}], input[x])
  BY <1>1 DEF Folds
<1>3. out[0] = <<>>
  <2>1. 1 .. 0 = {}
    OBVIOUS
  <2>2. f[1 .. 0] = <<>>
    BY <1>2, <2>1
  <2>3. QED
    BY <2>2
<1>4. ASSUME NEW m \in 0 .. n - 1
      PROVE  out[m + 1] = CleanStep(out[m], input[m + 1])
  <2>1. Max(1 .. m + 1) = m + 1
    BY LastIsMax
  <2>2. (1 .. m + 1) \ {m + 1} = 1 .. m /\ 1 .. m + 1 # {}
    OBVIOUS
  <2>3. 1 .. m + 1 \in SUBSET (1 .. n)
    OBVIOUS
  <2>4. f[1 .. m + 1] = CleanStep(f[1 .. m], input[m + 1])
    BY <1>2, <2>1, <2>2, <2>3
  <2>5. QED
    BY <2>4
<1>5. out[n] = Clean(input)
  BY <1>1
<1> HIDE DEF out
<1>6. QED
  BY <1>3, <1>4, <1>5
-----------------------------------------------------------------------------
(* The walk *)

Special == {"", ".", ".."}

\* How much higher a walk stands after the steps i to j.
Height(input, i, j) == Downs(input, i, j) - Ups(input, i, j)

\* One step more is counted.
LEMMA OneMore ==
    ASSUME NEW input, NEW i \in Nat, NEW j \in Nat, i <= j + 1, NEW segments
    PROVE  /\ Among(input, i, j, segments) \in Nat
           /\ Among(input, i, j + 1, segments) =
                 Among(input, i, j, segments) + (IF input[j + 1] \in segments THEN 1 ELSE 0)
<1> DEFINE K(m) == {k \in i .. m : input[k] \in segments}
<1>1. IsFiniteSet(i .. j) /\ K(j) \in SUBSET (i .. j)
  BY FS_Interval
<1>2. IsFiniteSet(K(j))
  BY <1>1, FS_Subset
<1>3. Cardinality(K(j)) \in Nat
  BY <1>2, FS_CardinalityType
<1>4. CASE input[j + 1] \in segments
  <2>1. K(j + 1) = K(j) \cup {j + 1} /\ j + 1 \notin K(j)
    BY <1>4
  <2>2. Cardinality(K(j + 1)) = Cardinality(K(j)) + 1
    BY <1>2, <2>1, FS_AddElement
  <2>3. QED
    BY <1>3, <1>4, <2>2 DEF Among
<1>5. CASE input[j + 1] \notin segments
  <2>1. K(j + 1) = K(j)
    BY <1>5
  <2>2. QED
    BY <1>3, <1>5, <2>1 DEF Among
<1>6. QED
  BY <1>4, <1>5

\* The step up.  (Special stays folded below: the empty string is not for SMT.)
LEMMA UpIsSpecial == ".." \in Special
BY Zenon DEF Special

\* What a step does to the height of the walk.
LEMMA HeightStep ==
    ASSUME NEW input, NEW i \in Nat, NEW j \in Nat, i <= j + 1
    PROVE  /\ Downs(input, i, j) \in Int /\ Ups(input, i, j) \in Int
           /\ Height(input, i, j) \in Int
           /\ Height(input, i, j + 1) = Height(input, i, j) +
                 (IF input[j + 1] = ".." THEN -1
                  ELSE IF input[j + 1] \in Special THEN 0 ELSE 1)
<1>1. \A segments :
         /\ Among(input, i, j, segments) \in Nat
         /\ Among(input, i, j + 1, segments) =
               Among(input, i, j, segments) + (IF input[j + 1] \in segments THEN 1 ELSE 0)
  BY OneMore
<1>2. PICK a, b :
         /\ Downs(input, i, j) = j + 1 - i - a
         /\ Downs(input, i, j + 1) = (j + 1) + 1 - i - b
         /\ a \in Nat /\ b = a + (IF input[j + 1] \in Special THEN 1 ELSE 0)
  BY <1>1, Zenon DEF Downs, Special
<1>3. PICK c, d :
         /\ Ups(input, i, j) = c /\ Ups(input, i, j + 1) = d
         /\ c \in Nat /\ d = c + (IF input[j + 1] \in {".."} THEN 1 ELSE 0)
  BY <1>1, Zenon DEF Ups
<1>4. Downs(input, i, j) \in Int /\ Ups(input, i, j) \in Int /\ Height(input, i, j) \in Int
  BY <1>2, <1>3 DEF Height
<1>5. CASE input[j + 1] = ".."
  <2>1. b = a + 1 /\ d = c + 1
    BY <1>2, <1>3, <1>5, UpIsSpecial
  <2>2. Height(input, i, j + 1) = Height(input, i, j) - 1
    BY <1>2, <1>3, <2>1 DEF Height
  <2>3. QED
    BY <1>4, <1>5, <2>2
<1>6. CASE input[j + 1] # ".." /\ input[j + 1] \in Special
  <2>1. b = a + 1 /\ d = c
    BY <1>2, <1>3, <1>6
  <2>2. Height(input, i, j + 1) = Height(input, i, j)
    BY <1>2, <1>3, <2>1 DEF Height
  <2>3. QED
    BY <1>4, <1>6, <2>2
<1>7. CASE input[j + 1] \notin Special
  <2>1. b = a /\ d = c /\ input[j + 1] # ".."
    BY <1>2, <1>3, <1>7, UpIsSpecial
  <2>2. Height(input, i, j + 1) = Height(input, i, j) + 1
    BY <1>2, <1>3, <2>1 DEF Height
  <2>3. QED
    BY <1>4, <1>7, <2>1, <2>2
<1>8. QED
  BY <1>5, <1>6, <1>7

\* A walk of no steps stands where it was.
LEMMA HeightOfNone ==
    ASSUME NEW input, NEW i \in Nat \ {0}
    PROVE  Height(input, i, i - 1) = 0
<1>1. i .. i - 1 = {}
  OBVIOUS
<1>2. \A segments : Among(input, i, i - 1, segments) = 0
  BY <1>1, FS_EmptySet DEF Among
<1>3. /\ Downs(input, i, i - 1) = (i - 1) + 1 - i - 0
      /\ Ups(input, i, i - 1) = 0
  BY <1>2, Zenon DEF Downs, Ups
<1>4. QED
  BY <1>3 DEF Height

\* The same of the first m steps as of the whole walk.
LeavesBy(input, m) == \E j \in 1 .. m : Height(input, 1, j) < 0
RemainsBy(input, i, m) ==
    input[i] \notin Special /\ \A j \in i + 1 .. m : Height(input, i + 1, j) >= 0

LEMMA AfterAll ==
    ASSUME NEW input, NEW n \in Nat, DOMAIN input = 1 .. n, Len(input) = n
    PROVE  /\ Leaves(input) <=> LeavesBy(input, n)
           /\ \A i \in 1 .. n : Remains(input, i) <=> RemainsBy(input, i, n)
<1>1. ASSUME NEW i \in 1 .. n + 1, NEW j \in i .. n
      PROVE  /\ Height(input, i, j) < 0 <=> Ups(input, i, j) > Downs(input, i, j)
             /\ Height(input, i, j) >= 0 <=> Ups(input, i, j) <= Downs(input, i, j)
  <2>1. i \in Nat /\ j \in Nat /\ i <= j + 1
    OBVIOUS
  <2>2. Downs(input, i, j) \in Int /\ Ups(input, i, j) \in Int
    BY <2>1, HeightStep
  <2>3. QED
    BY <2>2 DEF Height
<1>2. Leaves(input) <=> LeavesBy(input, n)
  BY <1>1 DEF Leaves, LeavesBy
<1>3. ASSUME NEW i \in 1 .. n PROVE Remains(input, i) <=> RemainsBy(input, i, n)
  <2>1. \A j \in i + 1 .. n :
           Height(input, i + 1, j) >= 0 <=> Ups(input, i + 1, j) <= Downs(input, i + 1, j)
    BY <1>1
  <2>2. QED
    BY <2>1 DEF Remains, RemainsBy, Special
<1>4. QED
  BY <1>2, <1>3

-----------------------------------------------------------------------------
(* The clean form of the first steps *)

\* The steps s[1], s[2], ... are those of the first m that remain, out is what stands
\* there, and the walk goes up again to right below s[k] at most.
Stacked(input, m, out, s) ==
    LET n == Len(out) IN
    /\ s \in [1 .. n -> 1 .. m]
    /\ \A j, k \in 1 .. n : j < k => s[j] < s[k]
    /\ \A k \in 1 .. n : out[k] = input[s[k]]
    /\ Height(input, 1, m) = n
    /\ \A k \in 1 .. n : Height(input, s[k] + 1, m) = n - k
    /\ \A i \in 1 .. m : RemainsBy(input, i, m) <=> \E k \in 1 .. n : s[k] = i

\* Once the walk leaves the vault, the clean form begins with .. for good.
CleanOK(input, m, out, T) ==
    /\ out \in Seq(T)
    /\ IF LeavesBy(input, m) THEN out # <<>> /\ out[1] = ".."
       ELSE \E s : Stacked(input, m, out, s)

\* What one more step does to those that remain.
LEMMA RemainsStep ==
    ASSUME NEW input, NEW m \in Nat
    PROVE  /\ LeavesBy(input, m + 1) <=>
                 LeavesBy(input, m) \/ Height(input, 1, m + 1) < 0
           /\ RemainsBy(input, m + 1, m + 1) <=> input[m + 1] \notin Special
           /\ \A i \in 1 .. m :
                 RemainsBy(input, i, m + 1) <=>
                    RemainsBy(input, i, m) /\ Height(input, i + 1, m + 1) >= 0
<1>1. \A j : j \in 1 .. m + 1 <=> j \in 1 .. m \/ j = m + 1
  OBVIOUS
<1>2. LeavesBy(input, m + 1) <=> LeavesBy(input, m) \/ Height(input, 1, m + 1) < 0
  BY <1>1 DEF LeavesBy
<1>3. RemainsBy(input, m + 1, m + 1) <=> input[m + 1] \notin Special
  BY DEF RemainsBy
<1>4. ASSUME NEW i \in 1 .. m
      PROVE  RemainsBy(input, i, m + 1) <=>
                RemainsBy(input, i, m) /\ Height(input, i + 1, m + 1) >= 0
  <2>1. \A j : j \in i + 1 .. m + 1 <=> j \in i + 1 .. m \/ j = m + 1
    OBVIOUS
  <2>2. QED
    BY <2>1 DEF RemainsBy
<1>5. QED
  BY <1>2, <1>3, <1>4

\* One segment of path.Clean: it is skipped, appended, or takes one away.
LEMMA OneSegment ==
    ASSUME NEW out, NEW c
    PROVE  /\ c \in Special /\ c # ".." => CleanStep(out, c) = out
           /\ c \notin Special => CleanStep(out, c) = Append(out, c)
           /\ c = ".." => CleanStep(out, c) =
                 IF out # <<>> /\ Last(out) # ".." THEN Front(out) ELSE Append(out, c)
BY Zenon DEF CleanStep, Special

\* A clean form that begins with .. keeps on beginning with it.
LEMMA StaysOutside ==
    ASSUME NEW T, NEW out \in Seq(T), NEW c \in T, out # <<>>, out[1] = ".."
    PROVE  LET new == CleanStep(out, c) IN new \in Seq(T) /\ new # <<>> /\ new[1] = ".."
<1>1. Len(out) \in Nat \ {0} /\ out \in [1 .. Len(out) -> T]
  BY EmptySeq, LenProperties
<1>2. /\ Append(out, c) \in Seq(T) /\ Append(out, c) # <<>>
      /\ Append(out, c)[1] = ".."
  BY <1>1, AppendProperties
<1>3. ASSUME Last(out) # ".."
      PROVE  Front(out) \in Seq(T) /\ Front(out) # <<>> /\ Front(out)[1] = ".."
  <2>1. Len(out) # 1
    BY <1>3 DEF Last
  <2>2. Len(out) - 1 \in 1 .. Len(out)
    BY <1>1, <2>1
  <2>3. /\ Front(out) \in Seq(T) /\ Len(Front(out)) = Len(out) - 1
        /\ Front(out)[1] = out[1]
    BY <1>1, <2>2 DEF Front
  <2>4. QED
    BY <2>1, <2>2, <2>3, <1>1
<1>4. QED
  BY <1>2, <1>3, OneSegment

\* The walk goes on from inside the vault and stays there.
LEMMA GoesOnInside ==
    ASSUME NEW T, NEW input \in Seq(T), NEW m \in 0 .. Len(input) - 1,
           NEW out \in Seq(T), NEW s, Stacked(input, m, out, s), ~LeavesBy(input, m),
           input[m + 1] = ".." => Len(out) > 0
    PROVE  CleanOK(input, m + 1, CleanStep(out, input[m + 1]), T)
<1> PICK c : c = input[m + 1]
  OBVIOUS
<1> PICK n : n = Len(out)
  OBVIOUS
<1>1. /\ n \in Nat /\ s \in [1 .. n -> 1 .. m]
      /\ \A j, k \in 1 .. n : j < k => s[j] < s[k]
      /\ \A k \in 1 .. n : out[k] = input[s[k]]
      /\ Height(input, 1, m) = n
      /\ \A k \in 1 .. n : Height(input, s[k] + 1, m) = n - k
      /\ \A i \in 1 .. m : RemainsBy(input, i, m) <=> \E k \in 1 .. n : s[k] = i
      /\ m \in Nat
  BY LenProperties DEF Stacked
<1>0. n \in Nat /\ m \in Nat
  BY <1>1
<1>2. /\ \A i \in 1 .. m + 1 : Height(input, i, m) \in Int
      /\ \A i \in 1 .. m + 1 :
            Height(input, i, m + 1) = Height(input, i, m) +
               (IF c = ".." THEN -1 ELSE IF c \in Special THEN 0 ELSE 1)
  <2>1. \A i \in 1 .. m + 1 : i \in Nat /\ i <= m + 1
    BY <1>0
  <2>2. QED
    BY <1>0, <2>1, HeightStep
<1>3. /\ LeavesBy(input, m + 1) <=>
            LeavesBy(input, m) \/ Height(input, 1, m + 1) < 0
      /\ RemainsBy(input, m + 1, m + 1) <=> c \notin Special
      /\ \A i \in 1 .. m :
            RemainsBy(input, i, m + 1) <=>
               RemainsBy(input, i, m) /\ Height(input, i + 1, m + 1) >= 0
  BY <1>1, RemainsStep
<1>4. 1 \in 1 .. m + 1 /\ \A k \in 1 .. n : s[k] \in 1 .. m /\ s[k] + 1 \in 1 .. m + 1
  <2>1. \A i \in 1 .. m : i + 1 \in 1 .. m + 1
    BY <1>0
  <2>2. 1 \in 1 .. m + 1
    BY <1>0
  <2>3. \A k \in 1 .. n : s[k] \in 1 .. m
    BY <1>1
  <2>4. QED
    BY <2>1, <2>2, <2>3
<1>5. ~LeavesBy(input, m + 1)
  BY <1>1, <1>2, <1>3, <1>4
<1>6. \A i \in 1 .. m + 1 : i \in 1 .. m \/ i = m + 1
  BY <1>1
<1>7. CASE c \in Special /\ c # ".."
  <2>1. CleanStep(out, c) = out
    BY <1>7, OneSegment
  <2>2. \A i \in 1 .. m + 1 : Height(input, i, m + 1) = Height(input, i, m)
    BY <1>2, <1>7
  <2>3. ASSUME NEW i \in 1 .. m + 1
        PROVE  RemainsBy(input, i, m + 1) <=> \E k \in 1 .. n : s[k] = i
    <3>1. CASE i = m + 1
      <4>1. \A k \in 1 .. n : s[k] # m + 1
        BY <1>0, <1>4
      <4>2. QED
        BY <1>3, <1>7, <3>1, <4>1
    <3>2. CASE i \in 1 .. m
      BY <1>1, <1>3, <1>4, <2>2, <3>2
    <3>3. QED
      BY <1>6, <3>1, <3>2
  <2>4. s \in [1 .. n -> 1 .. m + 1]
    BY <1>1, <1>4
  <2>5. \A k \in 1 .. n : Height(input, s[k] + 1, m + 1) = n - k
    BY <1>1, <1>4, <2>2
  <2>6. Height(input, 1, m + 1) = n
    BY <1>1, <1>4, <2>2
  <2>7. Stacked(input, m + 1, out, s)
    BY <1>1, <2>3, <2>4, <2>5, <2>6, Zenon DEF Stacked
  <2>8. QED
    BY <1>5, <2>1, <2>7 DEF CleanOK
<1>8. CASE c \notin Special
  <2>1. CleanStep(out, c) = Append(out, c)
    BY <1>8, OneSegment
  <2>2. \A i \in 1 .. m + 1 : Height(input, i, m + 1) = Height(input, i, m) + 1
    BY <1>2, <1>8, UpIsSpecial
  <2>3. Height(input, (m + 1) + 1, m + 1) = 0
    <3>1. (m + 1) + 1 \in Nat \ {0} /\ ((m + 1) + 1) - 1 = m + 1
      BY <1>1
    <3>2. QED
      BY <3>1, HeightOfNone
  <2>4. PICK r : /\ r \in [1 .. n + 1 -> 1 .. m + 1]
                 /\ r[n + 1] = m + 1 /\ \A k \in 1 .. n : r[k] = s[k]
    <3>1. ASSUME NEW k \in 1 .. n + 1
          PROVE  (IF k = n + 1 THEN m + 1 ELSE s[k]) \in 1 .. m + 1
      BY <1>0, <1>4
    <3>2. /\ [k \in 1 .. n + 1 |-> IF k = n + 1 THEN m + 1 ELSE s[k]]
                \in [1 .. n + 1 -> 1 .. m + 1]
          /\ n + 1 \in 1 .. n + 1 /\ \A k \in 1 .. n : k \in 1 .. n + 1 /\ k # n + 1
      BY <1>0, <3>1
    <3> DEFINE f == [k \in 1 .. n + 1 |-> IF k = n + 1 THEN m + 1 ELSE s[k]]
    <3>3. f[n + 1] = m + 1 /\ \A k \in 1 .. n : f[k] = s[k]
      BY <3>2
    <3>4. f \in [1 .. n + 1 -> 1 .. m + 1]
      BY <3>2
    <3> HIDE DEF f
    <3>5. QED
      BY <3>3, <3>4
  <2>5. ASSUME NEW i \in 1 .. m + 1
        PROVE  RemainsBy(input, i, m + 1) <=> \E k \in 1 .. n + 1 : r[k] = i
    <3>1. CASE i = m + 1
      BY <1>1, <1>3, <1>8, <2>4, <3>1
    <3>2. CASE i \in 1 .. m
      <4>1. \A k \in 1 .. n : Height(input, s[k] + 1, m + 1) >= 0
        BY <1>1, <1>4, <2>2
      <4>2. RemainsBy(input, i, m + 1) <=> \E k \in 1 .. n : s[k] = i
        BY <1>1, <1>3, <3>2, <4>1
      <4>3. \A k : k \in 1 .. n + 1 <=> k \in 1 .. n \/ k = n + 1
        BY <1>1
      <4>4. i # m + 1
        BY <1>1, <3>2
      <4>5. QED
        BY <2>4, <4>2, <4>3, <4>4, Zenon
    <3>3. QED
      BY <1>6, <3>1, <3>2
  <2>6. c \in T
    BY ElementOfSeq, <1>1
  <2>7. /\ Append(out, c) \in Seq(T) /\ Len(Append(out, c)) = n + 1
        /\ Append(out, c)[n + 1] = c
        /\ \A k \in 1 .. n : Append(out, c)[k] = out[k]
    BY <1>1, <2>6, AppendProperties
  <2>8. ASSUME NEW k \in 1 .. n + 1
        PROVE  /\ Append(out, c)[k] = input[r[k]]
               /\ Height(input, r[k] + 1, m + 1) = (n + 1) - k
    <3>1. CASE k = n + 1
      BY <1>1, <2>3, <2>4, <2>7, <3>1
    <3>2. CASE k \in 1 .. n
      <4>1. r[k] = s[k] /\ s[k] + 1 \in 1 .. m + 1 /\ Height(input, s[k] + 1, m) = n - k
        BY <1>1, <1>4, <2>4, <3>2
      <4>2. Height(input, s[k] + 1, m + 1) = (n - k) + 1
        BY <2>2, <4>1
      <4>3. QED
        BY <1>1, <2>7, <3>2, <4>1, <4>2
    <3>3. QED
      BY <1>1, <3>1, <3>2
  <2>9. ASSUME NEW j \in 1 .. n + 1, NEW k \in 1 .. n + 1, j < k PROVE r[j] < r[k]
    <3>1. CASE k = n + 1
      <4>1. j \in 1 .. n
        BY <1>1, <2>9, <3>1
      <4>2. s[j] < m + 1
        BY <1>1, <1>4, <4>1
      <4>3. QED
        BY <2>4, <3>1, <4>1, <4>2
    <3>2. CASE k # n + 1
      <4>1. j \in 1 .. n /\ k \in 1 .. n
        BY <1>0, <2>9, <3>2
      <4>2. QED
        BY <1>1, <2>4, <2>9, <4>1
    <3>3. QED
      BY <3>1, <3>2
  <2>10. Height(input, 1, m + 1) = n + 1
    BY <1>1, <1>4, <2>2
  <2>11. Stacked(input, m + 1, Append(out, c), r)
    BY <2>4, <2>5, <2>7, <2>8, <2>9, <2>10, Zenon DEF Stacked
  <2>12. QED
    BY <1>5, <2>1, <2>7, <2>11 DEF CleanOK
<1>9. CASE c = ".."
  <2>1. n \in Nat \ {0} /\ n \in 1 .. n /\ s[n] \in 1 .. m
    BY <1>1, <1>9
  <2>2. RemainsBy(input, s[n], m)
    BY <1>1, <2>1
  <2>3. out[n] # ".."
    BY <1>1, <2>1, <2>2, UpIsSpecial DEF RemainsBy
  <2>4. out # <<>> /\ Last(out) # ".."
    BY <2>1, <2>3, EmptySeq DEF Last
  <2>5. CleanStep(out, c) = Front(out)
    BY <1>9, <2>4, OneSegment
  <2>6. \A i \in 1 .. m + 1 : Height(input, i, m + 1) = Height(input, i, m) - 1
    BY <1>2, <1>9
  <2>7. PICK r : r \in [1 .. n - 1 -> 1 .. m + 1] /\ \A k \in 1 .. n - 1 : r[k] = s[k]
    <3>1. \A k \in 1 .. n - 1 : k \in 1 .. n /\ s[k] \in 1 .. m + 1
      BY <1>1, <1>4
    <3>2. [k \in 1 .. n - 1 |-> s[k]] \in [1 .. n - 1 -> 1 .. m + 1]
      BY <3>1
    <3> DEFINE f == [k \in 1 .. n - 1 |-> s[k]]
    <3>3. \A k \in 1 .. n - 1 : f[k] = s[k]
      OBVIOUS
    <3>4. f \in [1 .. n - 1 -> 1 .. m + 1]
      BY <3>2
    <3> HIDE DEF f
    <3>5. QED
      BY <3>3, <3>4
  <2>8. ASSUME NEW i \in 1 .. m + 1
        PROVE  RemainsBy(input, i, m + 1) <=> \E k \in 1 .. n - 1 : r[k] = i
    <3>1. CASE i = m + 1
      <4>1. \A k \in 1 .. n - 1 : r[k] # m + 1
        BY <1>1, <1>4, <2>7
      <4>2. QED
        BY <1>3, <1>9, <3>1, <4>1, UpIsSpecial
    <3>2. CASE i \in 1 .. m
      <4>1. \A k \in 1 .. n : Height(input, s[k] + 1, m + 1) >= 0 <=> k \in 1 .. n - 1
        <5>1. \A k \in 1 .. n : Height(input, s[k] + 1, m + 1) = (n - k) - 1
          BY <1>1, <1>4, <2>6
        <5>2. QED
          BY <1>1, <5>1
      <4>2. RemainsBy(input, i, m + 1) <=> \E k \in 1 .. n - 1 : s[k] = i
        BY <1>1, <1>3, <3>2, <4>1
      <4>3. QED
        BY <2>7, <4>2
    <3>3. QED
      BY <1>6, <3>1, <3>2
  <2>9. /\ Front(out) \in Seq(T) /\ Len(Front(out)) = n - 1
        /\ \A k \in 1 .. n - 1 : Front(out)[k] = out[k] /\ k \in 1 .. n
    <3>1. out \in [1 .. n -> T] /\ n - 1 \in Nat /\ n - 1 <= n
      BY <2>1, LenProperties
    <3>2. QED
      BY <2>1, <3>1 DEF Front
  <2>10. \A k \in 1 .. n - 1 : Height(input, r[k] + 1, m + 1) = (n - 1) - k
    <3> SUFFICES ASSUME NEW k \in 1 .. n - 1
                 PROVE  Height(input, r[k] + 1, m + 1) = (n - 1) - k
      OBVIOUS
    <3>1. r[k] = s[k] /\ s[k] + 1 \in 1 .. m + 1 /\ Height(input, s[k] + 1, m) = n - k
      BY <1>1, <1>4, <2>7, <2>9
    <3>2. Height(input, s[k] + 1, m + 1) = (n - k) - 1
      BY <2>6, <3>1
    <3>3. QED
      BY <1>1, <3>1, <3>2
  <2>11. \A j, k \in 1 .. n - 1 : j < k => r[j] < r[k]
    BY <1>1, <2>7, <2>9
  <2>12. Height(input, 1, m + 1) = n - 1
    BY <1>1, <1>4, <2>6
  <2>13. \A k \in 1 .. n - 1 : Front(out)[k] = input[r[k]]
    BY <1>1, <2>7, <2>9
  <2>14. Stacked(input, m + 1, Front(out), r)
    BY <2>7, <2>8, <2>9, <2>10, <2>11, <2>12, <2>13, Zenon DEF Stacked
  <2>15. QED
    BY <1>5, <2>5, <2>9, <2>14 DEF CleanOK
<1>10. QED
  BY <1>7, <1>8, <1>9

Climbs(segment) == segment = ".."

\* The walk leaves the vault.
LEMMA GoesOutside ==
    ASSUME NEW T, NEW input \in Seq(T), NEW m \in 0 .. Len(input) - 1,
           NEW out \in Seq(T), NEW s, Stacked(input, m, out, s),
           Climbs(input[m + 1]), Len(out) = 0
    PROVE  CleanOK(input, m + 1, CleanStep(out, input[m + 1]), T)
<1> PICK c : c = input[m + 1]
  OBVIOUS
<1>1. m \in Nat /\ m + 1 \in 1 .. Len(input)
  BY LenProperties
<1>2. Height(input, 1, m) = 0
  BY DEF Stacked
<1>3. Height(input, 1, m + 1) = -1
  <2>1. \A i \in 1 .. m + 1 : i \in Nat /\ i <= m + 1
    BY <1>1
  <2>2. \A i \in 1 .. m + 1 :
           Height(input, i, m + 1) = Height(input, i, m) +
              (IF c = ".." THEN -1 ELSE IF c \in Special THEN 0 ELSE 1)
    BY <1>1, <2>1, HeightStep
  <2>3. 1 \in 1 .. m + 1
    BY <1>1
  <2>4. QED
    BY <1>2, <2>2, <2>3 DEF Climbs
<1>4. LeavesBy(input, m + 1)
  BY <1>1, <1>3 DEF LeavesBy
<1>5. out = <<>>
  BY EmptySeq
<1>6. CleanStep(out, c) = Append(out, c)
  BY <1>5, OneSegment, Zenon DEF Climbs
<1>7. c \in T
  BY <1>1, ElementOfSeq
<1>8. Append(out, c) \in Seq(T) /\ Append(out, c) # <<>> /\ Append(out, c)[1] = c
  <2>1. Append(out, c)[Len(out) + 1] = c
    BY <1>7, AppendProperties
  <2>2. Len(out) + 1 = 1
    OBVIOUS
  <2>3. Append(out, c) \in Seq(T)
    BY <1>7, AppendProperties
  <2>4. Append(out, c) # <<>>
    <3>1. Len(Append(out, c)) = Len(out) + 1
      BY <1>7, AppendProperties
    <3>2. Len(<<>>) = 0
      BY EmptySeq
    <3>3. SUFFICES ASSUME Append(out, c) = <<>> PROVE FALSE
      OBVIOUS
    <3>4. Len(Append(out, c)) = 0
      BY <3>2, <3>3, Zenon
    <3>5. QED
      BY <2>2, <3>1, <3>4
  <2>5. QED
    BY <2>1, <2>2, <2>3, <2>4
<1>9. QED
  BY <1>4, <1>6, <1>8 DEF CleanOK, Climbs

LEMMA CleanGoesOn ==
    ASSUME NEW T, NEW input \in Seq(T), NEW m \in 0 .. Len(input) - 1,
           NEW out, CleanOK(input, m, out, T)
    PROVE  CleanOK(input, m + 1, CleanStep(out, input[m + 1]), T)
<1>1. m \in Nat /\ m + 1 \in 1 .. Len(input) /\ out \in Seq(T)
  BY LenProperties DEF CleanOK
<1>2. CASE LeavesBy(input, m)
  <2>1. LeavesBy(input, m + 1)
    BY <1>1, <1>2, RemainsStep
  <2>2. input[m + 1] \in T
    BY <1>1, ElementOfSeq
  <2>3. out # <<>> /\ out[1] = ".."
    BY <1>2 DEF CleanOK
  <2>4. QED
    BY <1>1, <2>1, <2>2, <2>3, StaysOutside DEF CleanOK
<1>3. CASE ~LeavesBy(input, m)
  <2>1. PICK s : Stacked(input, m, out, s)
    BY <1>3 DEF CleanOK
  <2>2. Len(out) \in Nat
    BY <1>1, LenProperties
  <2>3. CASE input[m + 1] = ".." /\ Len(out) = 0
    BY <1>1, <2>1, <2>3, GoesOutside DEF Climbs
  <2>4. CASE input[m + 1] = ".." => Len(out) > 0
    BY <1>1, <1>3, <2>1, <2>4, GoesOnInside
  <2>5. QED
    BY <2>2, <2>3, <2>4
<1>4. QED
  BY <1>2, <1>3

\* Before the first step nothing remains.
LEMMA CleanBegins ==
    ASSUME NEW T, NEW input \in Seq(T)
    PROVE  CleanOK(input, 0, <<>>, T)
<1>1. 1 .. 0 = {}
  OBVIOUS
<1>2. ~LeavesBy(input, 0)
  BY <1>1 DEF LeavesBy
<1>3. <<>> \in Seq(T) /\ Len(<<>>) = 0
  BY EmptySeq
<1>4. Height(input, 1, 0) = 0
  <2>1. 1 \in Nat \ {0} /\ 1 - 1 = 0
    OBVIOUS
  <2>2. QED
    BY <2>1, HeightOfNone
<1>5. PICK s : s \in [1 .. 0 -> 1 .. 0]
  <2>1. [k \in 1 .. 0 |-> k] \in [1 .. 0 -> 1 .. 0]
    BY <1>1
  <2>2. QED
    BY <2>1
<1>6. Stacked(input, 0, <<>>, s)
  BY <1>1, <1>3, <1>4, <1>5 DEF Stacked
<1>7. QED
  BY <1>2, <1>3, <1>6 DEF CleanOK

LEMMA CleanIsOK ==
    ASSUME NEW T, NEW input \in Seq(T)
    PROVE  CleanOK(input, Len(input), Clean(input), T)
<1> DEFINE n == Len(input)
<1>1. n \in Nat /\ DOMAIN input = 1 .. n
  BY LenProperties
<1>2. PICK out : /\ out[0] = <<>> /\ out[n] = Clean(input)
                 /\ \A m \in 0 .. n - 1 : out[m + 1] = CleanStep(out[m], input[m + 1])
  BY <1>1, CleanBySteps
<1> DEFINE S == {m \in Nat : m <= n => CleanOK(input, m, out[m], T)}
<1>3. 0 \in S
  BY <1>2, CleanBegins
<1>4. ASSUME NEW m \in Nat, m \in S PROVE m + 1 \in S
  <2>1. SUFFICES ASSUME m + 1 <= n PROVE CleanOK(input, m + 1, out[m + 1], T)
    OBVIOUS
  <2>2. m \in 0 .. n - 1 /\ m <= n
    BY <1>1, <2>1
  <2>3. CleanOK(input, m, out[m], T)
    BY <1>4, <2>2
  <2>4. CleanOK(input, m + 1, CleanStep(out[m], input[m + 1]), T)
    BY <2>2, <2>3, CleanGoesOn
  <2>5. QED
    BY <1>2, <2>2, <2>4
<1>5. Nat \subseteq S
  <2> HIDE DEF S
  <2>1. QED
    BY <1>3, <1>4, SetInduction
<1>6. CleanOK(input, n, out[n], T)
  BY <1>1, <1>5
<1>7. QED
  BY <1>2, <1>6

-----------------------------------------------------------------------------
(* The place *)

\* The steps s[1] to s[n], and those of them up to one.
Reached(s, n) == {s[k] : k \in 1 .. n}
UpTo(steps, i) == {j \in steps : j <= i}

\* The k-th of the steps is the one with k steps up to it.
LEMMA StepsUpTo ==
    ASSUME NEW n \in Nat, NEW m \in Nat, NEW s \in [1 .. n -> 1 .. m],
           \A j, k \in 1 .. n : j < k => s[j] < s[k]
    PROVE  /\ Cardinality(Reached(s, n)) = n
           /\ \A k \in 1 .. n : Cardinality(UpTo(Reached(s, n), s[k])) = k
<1> DEFINE First(k) == {s[l] : l \in 1 .. k}
           S == {k \in Nat : k <= n => IsFiniteSet(First(k)) /\ Cardinality(First(k)) = k}
<1>1. 0 \in S
  <2>1. First(0) = {}
    OBVIOUS
  <2>2. QED
    BY <2>1, FS_EmptySet
<1>2. ASSUME NEW k \in Nat, k \in S PROVE k + 1 \in S
  <2>1. SUFFICES ASSUME k + 1 <= n
                 PROVE  IsFiniteSet(First(k + 1)) /\ Cardinality(First(k + 1)) = k + 1
    OBVIOUS
  <2>2. IsFiniteSet(First(k)) /\ Cardinality(First(k)) = k
    BY <1>2, <2>1
  <2>3. \A l : l \in 1 .. k + 1 <=> l \in 1 .. k \/ l = k + 1
    OBVIOUS
  <2>4. First(k + 1) = First(k) \cup {s[k + 1]}
    BY <2>3
  <2>5. s[k + 1] \notin First(k)
    <3>1. \A l \in 1 .. k : s[l] < s[k + 1] /\ s[l] \in 1 .. m
      BY <2>1
    <3>2. s[k + 1] \in 1 .. m
      BY <2>1
    <3>3. QED
      BY <3>1, <3>2
  <2> HIDE DEF First
  <2>6. QED
    BY <2>2, <2>4, <2>5, FS_AddElement
<1>3. Nat \subseteq S
  <2> HIDE DEF S
  <2>1. QED
    BY <1>1, <1>2, SetInduction
<1>4. ASSUME NEW k \in 0 .. n PROVE Cardinality(First(k)) = k
  <2>1. k \in Nat /\ k <= n
    OBVIOUS
  <2>2. k \in S
    BY <1>3, <2>1
  <2>3. QED
    BY <2>1, <2>2
<1>5. ASSUME NEW k \in 1 .. n
      PROVE  {j \in First(n) : j <= s[k]} = First(k)
  <2>1. \A l \in 1 .. n : s[l] <= s[k] <=> l \in 1 .. k
    <3> SUFFICES ASSUME NEW l \in 1 .. n PROVE s[l] <= s[k] <=> l \in 1 .. k
      OBVIOUS
    <3>1. s[l] \in Int /\ s[k] \in Int
      OBVIOUS
    <3>2. l < k => s[l] < s[k]
      OBVIOUS
    <3>3. k < l => s[k] < s[l]
      OBVIOUS
    <3>4. QED
      BY <3>1, <3>2, <3>3
  <2>2. \A l \in 1 .. k : l \in 1 .. n
    OBVIOUS
  <2>3. QED
    BY <2>1, <2>2
<1>6. ASSUME NEW k \in 1 .. n
      PROVE  Cardinality(UpTo(Reached(s, n), s[k])) = k
  <2>1. k \in 0 .. n
    OBVIOUS
  <2>2. Cardinality(First(k)) = k
    BY <1>4, <2>1
  <2>3. QED
    BY <1>5, <2>2 DEF UpTo, Reached
<1>7. Cardinality(Reached(s, n)) = n
  <2>1. n \in 0 .. n
    OBVIOUS
  <2>2. QED
    BY <1>4, <2>1 DEF Reached
<1>8. QED
  BY <1>6, <1>7

LEMMA PlaceIsStacked ==
    ASSUME NEW T, NEW input \in Seq(T), NEW out \in Seq(T), NEW s,
           Stacked(input, Len(input), out, s)
    PROVE  Place(input) = out
<1> DEFINE steps == {i \in DOMAIN input : Remains(input, i)}
           nth(k) == CHOOSE i \in steps : Cardinality({j \in steps : j <= i}) = k
<1> PICK n : n = Len(out)
  OBVIOUS
<1> PICK m : m = Len(input)
  OBVIOUS
<1>1. /\ n \in Nat /\ m \in Nat /\ DOMAIN input = 1 .. m
      /\ out \in [1 .. n -> T]
  BY LenProperties
<1>2. /\ s \in [1 .. n -> 1 .. m]
      /\ \A j, k \in 1 .. n : j < k => s[j] < s[k]
      /\ \A k \in 1 .. n : out[k] = input[s[k]]
      /\ \A i \in 1 .. m : RemainsBy(input, i, m) <=> \E k \in 1 .. n : s[k] = i
  BY DEF Stacked
<1> HIDE DEF steps, nth
<1>3. \A i \in 1 .. m : Remains(input, i) <=> RemainsBy(input, i, m)
  BY <1>1, AfterAll
<1>4. steps = Reached(s, n)
  <2>1. \A i : i \in steps <=> i \in 1 .. m /\ \E k \in 1 .. n : s[k] = i
    BY <1>1, <1>2, <1>3 DEF steps
  <2>2. \A k \in 1 .. n : s[k] \in 1 .. m
    BY <1>2
  <2>3. QED
    BY <2>1, <2>2 DEF Reached
<1>5. /\ Cardinality(steps) = n
      /\ \A k \in 1 .. n : Cardinality(UpTo(steps, s[k])) = k
  BY <1>1, <1>2, <1>4, StepsUpTo
<1>6. ASSUME NEW k \in 1 .. n PROVE nth(k) = s[k]
  <2>1. s[k] \in steps
    BY <1>4 DEF Reached
  <2>2. \A i \in steps : Cardinality({j \in steps : j <= i}) = k => i = s[k]
    <3> SUFFICES ASSUME NEW i \in steps, Cardinality({j \in steps : j <= i}) = k
                 PROVE  i = s[k]
      OBVIOUS
    <3>1. PICK l \in 1 .. n : i = s[l]
      BY <1>4 DEF Reached
    <3>2. Cardinality({j \in steps : j <= i}) = l
      BY <1>5, <3>1 DEF UpTo
    <3>3. QED
      BY <3>1, <3>2
  <2>3. Cardinality({j \in steps : j <= s[k]}) = k
    BY <1>5 DEF UpTo
  <2>4. QED
    BY <2>1, <2>2, <2>3 DEF nth
<1>7. Place(input) = [k \in 1 .. Cardinality(steps) |-> input[nth(k)]]
  BY Zenon DEF Place, steps, nth
<1>8. \A k \in 1 .. n : input[nth(k)] = out[k]
  BY <1>2, <1>6
<1>9. Place(input) = [k \in 1 .. n |-> out[k]]
  BY <1>5, <1>7, <1>8
<1>10. QED
  BY <1>1, <1>9

-----------------------------------------------------------------------------
(* Theorem *)

\* Whatever the segments of a path: if it is accepted, a walk along it never leaves
\* the vault and ends at the note that path.Clean gives; and a path of a note, spelled
\* without .., is accepted.
THEOREM PathsMean ==
    ASSUME NEW T, NEW input \in Seq(T)
    PROVE  NamesItsPlace(input)
<1> PICK clean : clean = Clean(input)
  OBVIOUS
<1> PICK m : m = Len(input)
  OBVIOUS
<1>1. m \in Nat /\ DOMAIN input = 1 .. m
  BY LenProperties
<1>2. CleanOK(input, m, clean, T)
  BY CleanIsOK
<1>3. Leaves(input) <=> LeavesBy(input, m)
  BY <1>1, AfterAll
<1>4. clean \in Seq(T)
  BY <1>2 DEF CleanOK
<1>5. CASE LeavesBy(input, m)
  <2>1. clean # <<>> /\ clean[1] = ".."
    BY <1>2, <1>5 DEF CleanOK
  <2>2. Head(clean) = ".."
    BY <1>4, <2>1
  <2>3. ~Accepted(input)
    BY <2>1, <2>2, Zenon DEF Accepted
  <2>4. ValidateNotePath(input) = Invalid
    BY <2>3, Zenon DEF ValidateNotePath
  <2>5. QED
    BY <1>3, <1>5, <2>4, Zenon DEF NamesItsPlace
<1>6. CASE ~LeavesBy(input, m)
  <2>1. PICK s : Stacked(input, m, clean, s)
    BY <1>2, <1>6 DEF CleanOK
  <2>2. Place(input) = clean
    BY <1>4, <2>1, PlaceIsStacked
  <2>3. clean = <<>> \/ Head(clean) # ".."
    <3>1. SUFFICES ASSUME clean # <<>> PROVE Head(clean) # ".."
      OBVIOUS
    <3>2. Len(clean) \in Nat \ {0}
      BY <1>4, <3>1, EmptySeq
    <3>3. 1 \in 1 .. Len(clean)
      BY <3>2
    <3>4. s[1] \in 1 .. m /\ clean[1] = input[s[1]]
      BY <2>1, <3>3 DEF Stacked
    <3>5. RemainsBy(input, s[1], m)
      BY <2>1, <3>3, <3>4 DEF Stacked
    <3>6. clean[1] # ".."
      BY <3>4, <3>5, UpIsSpecial DEF RemainsBy
    <3>7. QED
      BY <1>4, <3>1, <3>6
  <2>4. Accepted(input) <=> Range(input) \cap Illegal = {} /\ ~IsAbs(input)
    BY <2>3, Zenon DEF Accepted
  <2>5. ~Leaves(input)
    BY <1>3, <1>6
  <2>6. QED
    BY <2>2, <2>4, <2>5, Zenon DEF NamesItsPlace, ValidateNotePath
<1>7. QED
  BY <1>5, <1>6
=============================================================================
