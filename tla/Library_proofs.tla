---------------------------- MODULE Library_proofs ---------------------------
(***************************************************************************)
(* Lemmas several proofs rest on: induction over numbers and finite sets,   *)
(* sums over finite sets, and the retention rule, for sequences of any      *)
(* length and any limit.                                                    *)
(***************************************************************************)
EXTENDS Retention, FiniteSetsExt, SequenceTheorems, FiniteSetTheorems,
        WellFoundedInduction, TLAPS

-----------------------------------------------------------------------------
(***************************************************************************)
(* Induction.  The property is given as the set of what has it: a theorem   *)
(* with an operator for a parameter could not be cited.                     *)
(***************************************************************************)

(* A set of numbers has a least one *)
LEMMA LeastNumber ==
    ASSUME NEW T, T \subseteq Nat, T # {}
    PROVE  \E n \in T : \A m \in T : n <= m
<1> DEFINE R == {ss \in Nat \X Nat : ss[1] < ss[2]}
<1>1. IsWellFoundedOn(R, Nat)
  BY NatLessThanWellFounded DEF OpToRel
<1>2. PICK n \in T : \A m \in T : <<m, n>> \notin R
  <2> HIDE DEF R
  <2> QED
    BY <1>1, WFMin, Zenon
<1>3. ASSUME NEW m \in T PROVE n <= m
  <2>1. <<m, n>> \in Nat \X Nat
    OBVIOUS
  <2>2. ~(m < n)
    BY <1>2, <2>1
  <2> QED
    BY <2>2
<1> QED
  BY <1>3

(* Induction over numbers *)
LEMMA NumbersInductively ==
    ASSUME NEW Good, 0 \in Good, \A n \in Nat : n \in Good => n + 1 \in Good
    PROVE  Nat \subseteq Good
<1> SUFFICES ASSUME NEW T, T = Nat \ Good, T # {} PROVE FALSE
  OBVIOUS
<1>1. PICK n \in T : \A m \in T : n <= m
  BY LeastNumber
<1>2. n # 0 /\ n - 1 \in Nat /\ n - 1 \notin T
  BY <1>1
<1> QED
  BY <1>2

(* A property of finite sets that holds of a set as soon as it holds of the
   set without any one of its elements holds of all of them. *)
LEMMA FiniteSetsInductively ==
    ASSUME NEW U, IsFiniteSet(U), NEW Good,
           \A S \in SUBSET U : (\A x \in S : S \ {x} \in Good) => S \in Good
    PROVE  SUBSET U \subseteq Good
<1> SUFFICES ASSUME NEW B \in SUBSET U, B \notin Good PROVE FALSE
  OBVIOUS
<1>1. \A S \in SUBSET U : IsFiniteSet(S) /\ Cardinality(S) \in Nat
  BY FS_Subset, FS_CardinalityType
<1>2. PICK T : T = {n \in Nat : \E S \in SUBSET U : Cardinality(S) = n /\ S \notin Good}
  OBVIOUS
<1>3. PICK n \in T : \A m \in T : n <= m
  <2>1. T \subseteq Nat /\ Cardinality(B) \in T
    BY <1>1, <1>2
  <2> QED
    BY <2>1, LeastNumber
<1>4. PICK S \in SUBSET U : Cardinality(S) = n /\ S \notin Good
  BY <1>2, <1>3
<1>5. ASSUME NEW x \in S PROVE S \ {x} \in Good
  <2>1. Cardinality(S \ {x}) = n - 1
    BY <1>1, <1>4, <1>5, FS_RemoveElement
  <2>2. n - 1 \in Nat /\ ~(n <= n - 1)
    BY <1>1, <1>4, <2>1
  <2>3. n - 1 \notin T
    BY <1>3, <2>2
  <2> QED
    BY <1>2, <2>1, <2>2, <2>3
<1> QED
  BY <1>4, <1>5

-----------------------------------------------------------------------------
(***************************************************************************)
(* Sums.  MapThenSumSet takes its terms in an order CHOOSE fixes; the sum   *)
(* does not depend on it.                                                   *)
(***************************************************************************)

(* The sum of a function over a set *)
SumOver(f, S) == MapThenSumSet(LAMBDA x : f[x], S)

(* The order the fold takes the elements in *)
FirstOf(s) == CHOOSE x \in s : TRUE

IsFold(g, f, U) ==
    g = [s \in SUBSET U |-> IF s = {} THEN 0 ELSE f[FirstOf(s)] + g[s \ {FirstOf(s)}]]

LEMMA SumUnfolds ==
    ASSUME NEW f, NEW S
    PROVE SumOver(f, S) = (CHOOSE g : IsFold(g, f, S))[S]
BY DEF SumOver, MapThenSumSet, MapThenFoldSet, IsFold, FirstOf

(* The recursive function that the fold is exists, so the fold obeys its
   equation; it is built up from the smaller subsets. *)
LEMMA FoldExists ==
    ASSUME NEW U, IsFiniteSet(U), NEW f
    PROVE  \E g : IsFold(g, f, U)
<1> DEFINE Small(n) == {s \in SUBSET U : Cardinality(s) <= n}
           Built(n, g) == g = [s \in Small(n) |-> IF s = {} THEN 0
                                  ELSE f[FirstOf(s)] + g[s \ {FirstOf(s)}]]
<1>1. PICK Good : Good = {n \in Nat : \E g : Built(n, g)}
  OBVIOUS
<1>2. \A s \in SUBSET U : IsFiniteSet(s) /\ Cardinality(s) \in Nat
  BY FS_Subset, FS_CardinalityType
<1>3. 0 \in Good
  <2>1. \A s \in SUBSET U : Cardinality(s) <= 0 => s = {}
    BY <1>2, FS_EmptySet
  <2>2. Built(0, [s \in Small(0) |-> 0])
    BY <2>1
  <2> QED
    BY <1>1, <2>2
<1>4. ASSUME NEW n \in Nat, n \in Good PROVE n + 1 \in Good
  <2>1. PICK g : Built(n, g)
    BY <1>1, <1>4
  <2>2. PICK h : h = [s \in Small(n + 1) |-> IF s = {} THEN 0
                         ELSE f[FirstOf(s)] + g[s \ {FirstOf(s)}]]
    OBVIOUS
  <2>3. ASSUME NEW s \in Small(n + 1), s # {}
        PROVE  s \ {FirstOf(s)} \in Small(n)
    <3>1. FirstOf(s) \in s
      BY <2>3 DEF FirstOf
    <3>2. Cardinality(s \ {FirstOf(s)}) = Cardinality(s) - 1
      BY <1>2, <3>1, FS_RemoveElement
    <3>3. Cardinality(s) \in Nat /\ Cardinality(s) <= n + 1
      BY <1>2
    <3> QED
      BY <3>2, <3>3
  <2>4. ASSUME NEW s \in Small(n) PROVE s \in Small(n + 1) /\ h[s] = g[s]
    <3>1. s \in Small(n + 1)
      BY <1>2
    <3> HIDE DEF Small
    <3> QED
      BY <2>1, <2>2, <3>1
  <2>5. h = [s \in Small(n + 1) |-> IF s = {} THEN 0
                 ELSE f[FirstOf(s)] + h[s \ {FirstOf(s)}]]
    <3> HIDE DEF Small
    <3> QED
      BY <2>2, <2>3, <2>4
  <2>6. \E k : Built(n + 1, k)
    BY <2>5
  <2> HIDE DEF Built
  <2> QED
    BY <1>1, <2>6
<1>5. PICK n \in Nat : n = Cardinality(U)
  BY FS_CardinalityType
<1>6. n \in Good
  <2> HIDE DEF Small, Built
  <2> QED
    BY <1>3, <1>4, NumbersInductively
<1>7. Small(n) = SUBSET U
  BY <1>2, <1>5, FS_Subset
<1>8. PICK g : Built(n, g)
  BY <1>1, <1>6
<1> QED
  BY <1>7, <1>8 DEF IsFold

(* What a fold gives for a set depends on the set alone *)
LEMMA FoldsAgree ==
    ASSUME NEW U, IsFiniteSet(U), NEW V \in SUBSET U, NEW f,
           NEW g, IsFold(g, f, U), NEW h, IsFold(h, f, V)
    PROVE  \A s \in SUBSET V : g[s] = h[s]
<1>1. PICK Good : Good = {s \in SUBSET V : g[s] = h[s]}
  OBVIOUS
<1>2. ASSUME NEW s \in SUBSET V, \A x \in s : s \ {x} \in Good
      PROVE  s \in Good
  <2>1. CASE s = {}
    BY <1>1, <2>1 DEF IsFold
  <2>2. CASE s # {}
    <3>1. FirstOf(s) \in s
      BY <2>2 DEF FirstOf
    <3>2. g[s \ {FirstOf(s)}] = h[s \ {FirstOf(s)}]
      BY <1>1, <1>2, <3>1
    <3>3. g[s] = f[FirstOf(s)] + g[s \ {FirstOf(s)}]
      BY <2>2 DEF IsFold
    <3>4. h[s] = f[FirstOf(s)] + h[s \ {FirstOf(s)}]
      BY <2>2 DEF IsFold
    <3> QED
      BY <1>1, <3>2, <3>3, <3>4
  <2> QED
    BY <2>1, <2>2
<1>3. IsFiniteSet(V)
  BY FS_Subset
<1>4. SUBSET V \subseteq Good
  BY <1>2, <1>3, FiniteSetsInductively
<1> QED
  BY <1>1, <1>4

(* The equation of the sum *)
LEMMA SumRecursion ==
    ASSUME NEW S, IsFiniteSet(S), NEW f
    PROVE  SumOver(f, S) = IF S = {} THEN 0
                           ELSE f[FirstOf(S)] + SumOver(f, S \ {FirstOf(S)})
<1>1. PICK g : IsFold(g, f, S) /\ SumOver(f, S) = g[S]
  <2>1. IsFold(CHOOSE g : IsFold(g, f, S), f, S)
    BY FoldExists
  <2> QED
    BY <2>1, SumUnfolds
<1>2. CASE S = {}
  BY <1>1, <1>2 DEF IsFold
<1>3. CASE S # {}
  <2>1. PICK V : V = S \ {FirstOf(S)}
    OBVIOUS
  <2>2. V \in SUBSET S /\ IsFiniteSet(V)
    BY <2>1, FS_Subset
  <2>3. PICK h : IsFold(h, f, V) /\ SumOver(f, V) = h[V]
    <3>1. IsFold(CHOOSE h : IsFold(h, f, V), f, V)
      BY <2>2, FoldExists
    <3> QED
      BY <3>1, SumUnfolds
  <2>4. g[V] = h[V]
    BY <1>1, <2>2, <2>3, FoldsAgree
  <2>5. g[S] = f[FirstOf(S)] + g[V]
    BY <1>1, <1>3, <2>1 DEF IsFold
  <2> QED
    BY <1>1, <1>3, <2>1, <2>3, <2>4, <2>5
<1> QED
  BY <1>2, <1>3

(* A sum of numbers is a number *)
LEMMA SumType ==
    ASSUME NEW S, IsFiniteSet(S), NEW f, \A x \in S : f[x] \in Nat
    PROVE  SumOver(f, S) \in Nat
<1>1. PICK Good : Good = {s \in SUBSET S : SumOver(f, s) \in Nat}
  OBVIOUS
<1>2. ASSUME NEW s \in SUBSET S, \A x \in s : s \ {x} \in Good
      PROVE  s \in Good
  <2>1. SumOver(f, s) = IF s = {} THEN 0
                        ELSE f[FirstOf(s)] + SumOver(f, s \ {FirstOf(s)})
    BY FS_Subset, SumRecursion
  <2>2. s # {} => FirstOf(s) \in s
    BY DEF FirstOf
  <2> QED
    BY <1>1, <1>2, <2>1, <2>2
<1>3. SUBSET S \subseteq Good
  BY <1>2, FiniteSetsInductively
<1>4. S \in Good
  BY <1>3
<1> QED
  BY <1>1, <1>4

(* A sum may be taken apart at any of its terms *)
LEMMA SumElement ==
    ASSUME NEW S, IsFiniteSet(S), NEW f, \A x \in S : f[x] \in Nat
    PROVE  \A x \in S : SumOver(f, S) = f[x] + SumOver(f, S \ {x})
<1>1. PICK Good : Good = {s \in SUBSET S :
                     \A x \in s : SumOver(f, s) = f[x] + SumOver(f, s \ {x})}
  OBVIOUS
<1>0. \A s \in SUBSET S : SumOver(f, s) \in Nat /\ IsFiniteSet(s)
  BY FS_Subset, SumType
<1>2. ASSUME NEW s \in SUBSET S, \A x \in s : s \ {x} \in Good
      PROVE  s \in Good
  <2> SUFFICES ASSUME NEW x \in s
               PROVE  SumOver(f, s) = f[x] + SumOver(f, s \ {x})
    BY <1>1
  <2>1. PICK c : c = FirstOf(s) /\ c \in s
    BY DEF FirstOf
  <2>2. SumOver(f, s) = f[c] + SumOver(f, s \ {c})
    BY <1>0, <2>1, SumRecursion
  <2>3. CASE x # c
    <3>1. SumOver(f, s \ {c}) = f[x] + SumOver(f, (s \ {c}) \ {x})
      BY <1>1, <1>2, <2>1, <2>3
    <3>2. SumOver(f, s \ {x}) = f[c] + SumOver(f, (s \ {x}) \ {c})
      BY <1>1, <1>2, <2>1, <2>3
    <3>3. (s \ {c}) \ {x} = (s \ {x}) \ {c}
      OBVIOUS
    <3>4. SumOver(f, (s \ {x}) \ {c}) \in Nat
      <4>1. (s \ {x}) \ {c} \in SUBSET S
        OBVIOUS
      <4> QED
        BY <1>0, <4>1
    <3>5. f[x] \in Nat /\ f[c] \in Nat
      BY <2>1
    <3> QED
      BY <2>2, <3>1, <3>2, <3>3, <3>4, <3>5
  <2> QED
    BY <2>2, <2>3
<1>3. SUBSET S \subseteq Good
  BY <1>2, FiniteSetsInductively
<1>4. S \in Good
  BY <1>3
<1> QED
  BY <1>1, <1>4

(* Equal terms, equal sums *)
LEMMA SumEqual ==
    ASSUME NEW S, IsFiniteSet(S), NEW f, NEW g, \A x \in S : f[x] = g[x]
    PROVE  SumOver(f, S) = SumOver(g, S)
<1>1. PICK Good : Good = {s \in SUBSET S : SumOver(f, s) = SumOver(g, s)}
  OBVIOUS
<1>2. ASSUME NEW s \in SUBSET S, \A x \in s : s \ {x} \in Good
      PROVE  s \in Good
  <2>1. IsFiniteSet(s)
    BY FS_Subset
  <2>2. SumOver(f, s) = IF s = {} THEN 0
                        ELSE f[FirstOf(s)] + SumOver(f, s \ {FirstOf(s)})
    BY <2>1, SumRecursion
  <2>3. SumOver(g, s) = IF s = {} THEN 0
                        ELSE g[FirstOf(s)] + SumOver(g, s \ {FirstOf(s)})
    BY <2>1, SumRecursion
  <2>4. s # {} => FirstOf(s) \in s
    BY DEF FirstOf
  <2> QED
    BY <1>1, <1>2, <2>2, <2>3, <2>4
<1>3. SUBSET S \subseteq Good
  BY <1>2, FiniteSetsInductively
<1>4. S \in Good
  BY <1>3
<1> QED
  BY <1>1, <1>4

(* Counting by class: every member is counted in one class *)
LEMMA SumOfClasses ==
    ASSUME NEW U, IsFiniteSet(U), NEW class, NEW f,
           \A v \in {class[u] : u \in U} :
               f[v] = Cardinality({u \in U : class[u] = v})
    PROVE  SumOver(f, {class[u] : u \in U}) = Cardinality(U)
<1>1. PICK I : I = {class[u] : u \in U}
  OBVIOUS
<1>2. IsFiniteSet(I)
  <2>1. [u \in U |-> class[u]] \in Surjection(U, I)
    BY <1>1 DEF Surjection
  <2> QED
    BY <2>1, FS_Surjection
<1> DEFINE In(s) == {u \in U : class[u] \in s}
<1>3. PICK Good : Good = {s \in SUBSET I : SumOver(f, s) = Cardinality(In(s))}
  OBVIOUS
<1>4. ASSUME NEW s \in SUBSET I, \A x \in s : s \ {x} \in Good
      PROVE  s \in Good
  <2>1. SumOver(f, s) = IF s = {} THEN 0
                        ELSE f[FirstOf(s)] + SumOver(f, s \ {FirstOf(s)})
    BY <1>2, FS_Subset, SumRecursion
  <2>2. CASE s = {}
    <3>1. In(s) = {}
      BY <2>2
    <3> QED
      BY <1>3, <2>1, <2>2, <3>1, FS_EmptySet
  <2>3. CASE s # {}
    <3>1. PICK v : v = FirstOf(s) /\ v \in s
      BY <2>3 DEF FirstOf
    <3>2. PICK A : A = {u \in U : class[u] = v}
      OBVIOUS
    <3>3. PICK B : B = In(s \ {v})
      OBVIOUS
    <3>4. In(s) = A \cup B /\ A \cap B = {}
      BY <3>1, <3>2, <3>3
    <3>5. IsFiniteSet(A) /\ IsFiniteSet(B)
      BY <3>2, <3>3, FS_Subset
    <3>6. Cardinality(In(s)) = Cardinality(A) + Cardinality(B)
      <4>1. Cardinality(A \cup B)
               = Cardinality(A) + Cardinality(B) - Cardinality(A \cap B)
        BY <3>5, FS_Union
      <4>2. Cardinality(A) \in Nat /\ Cardinality(B) \in Nat
        BY <3>5, FS_CardinalityType
      <4>4. Cardinality(A \cap B) = 0
        BY <3>4, FS_EmptySet, Zenon
      <4>3. Cardinality(A \cup B) = Cardinality(A) + Cardinality(B)
        BY <4>1, <4>2, <4>4
      <4> HIDE DEF In
      <4> QED
        BY <3>4, <4>3
    <3>7. SumOver(f, s \ {v}) = Cardinality(B)
      BY <1>3, <1>4, <3>1, <3>3
    <3>8. f[v] = Cardinality(A)
      BY <1>1, <3>1, <3>2
    <3> QED
      BY <1>3, <2>1, <2>3, <3>1, <3>6, <3>7, <3>8
  <2> QED
    BY <2>2, <2>3
<1>5. I \in Good
  <2> HIDE DEF In
  <2> QED
    BY <1>2, <1>4, FiniteSetsInductively
<1>6. In(I) = U
  BY <1>1
<1> QED
  BY <1>1, <1>3, <1>5, <1>6

-----------------------------------------------------------------------------
(***************************************************************************)
(* Retention.                                                               *)
(***************************************************************************)

(* How many elements retention drops, and dropping them *)
Excess(n, limit) == IF n > limit THEN n - limit ELSE 0
Drop(s, d) == SubSeq(s, d + 1, Len(s))

(* n is h without its first d elements *)
IsRest(n, h, d) == Len(n) + d = Len(h) /\ \A i \in 1..Len(n) : n[i] = h[i + d]

LEMMA ExcessBounds ==
    ASSUME NEW n \in Nat, NEW limit \in Nat
    PROVE  Excess(n, limit) \in Nat /\ Excess(n, limit) <= n
BY DEF Excess

LEMMA NewestIsDrop ==
    ASSUME NEW S, NEW h \in Seq(S), NEW limit \in Nat
    PROVE  Newest(h, limit) = Drop(h, Excess(Len(h), limit))
<1>1. CASE Len(h) > limit
  BY <1>1 DEF Newest, Drop, Excess
<1>2. CASE ~(Len(h) > limit)
  <2>1. SubSeq(h, 1, Len(h)) = h
    OBVIOUS
  <2> QED
    BY <1>2, <2>1 DEF Newest, Drop, Excess
<1> QED
  BY <1>1, <1>2

LEMMA DropElements ==
    ASSUME NEW S, NEW s \in Seq(S), NEW d \in Nat, d <= Len(s)
    PROVE  /\ Drop(s, d) \in Seq(S)
           /\ Len(Drop(s, d)) = Len(s) - d
           /\ \A i \in 1..Len(s) - d : Drop(s, d)[i] = s[i + d]
BY DEF Drop

LEMMA DropConcatDrop ==
    ASSUME NEW S, NEW h \in Seq(S), NEW x \in Seq(S), NEW n \in Seq(S),
           NEW d \in Nat, NEW e \in Nat, IsRest(n, h, d),
           e <= Len(n) + Len(x)
    PROVE  Drop(n \o x, e) = Drop(h \o x, d + e)
<1>1. /\ n \o x \in Seq(S) /\ Len(n \o x) = Len(n) + Len(x)
      /\ h \o x \in Seq(S) /\ Len(h \o x) = Len(h) + Len(x)
  BY ConcatProperties
<1>0. /\ Len(h) \in Nat /\ Len(n) \in Nat /\ Len(x) \in Nat
      /\ Len(n) + d = Len(h)
  BY LenProperties DEF IsRest
<1>2. /\ Drop(n \o x, e) \in Seq(S)
      /\ Len(Drop(n \o x, e)) = Len(n) + Len(x) - e
      /\ \A i \in 1..Len(n) + Len(x) - e : Drop(n \o x, e)[i] = (n \o x)[i + e]
  <2>1. e \in Nat /\ e <= Len(n \o x)
    BY <1>1
  <2>2. /\ Drop(n \o x, e) \in Seq(S)
        /\ Len(Drop(n \o x, e)) = Len(n \o x) - e
        /\ \A i \in 1..Len(n \o x) - e : Drop(n \o x, e)[i] = (n \o x)[i + e]
    BY <1>1, <2>1, DropElements
  <2> QED
    BY <1>1, <2>2
<1>3. /\ Drop(h \o x, d + e) \in Seq(S)
      /\ Len(Drop(h \o x, d + e)) = Len(n) + Len(x) - e
      /\ \A i \in 1..Len(n) + Len(x) - e :
            Drop(h \o x, d + e)[i] = (h \o x)[i + (d + e)]
  <2>1. d + e \in Nat /\ d + e <= Len(h \o x)
        /\ Len(h \o x) - (d + e) = Len(n) + Len(x) - e
    <3>1. /\ d + e \in Nat /\ d + e <= Len(h) + Len(x)
          /\ Len(h) + Len(x) - (d + e) = Len(n) + Len(x) - e
      BY <1>0
    <3> QED
      BY <1>1, <3>1
  <2>2. /\ Drop(h \o x, d + e) \in Seq(S)
        /\ Len(Drop(h \o x, d + e)) = Len(h \o x) - (d + e)
        /\ \A i \in 1..Len(h \o x) - (d + e) :
              Drop(h \o x, d + e)[i] = (h \o x)[i + (d + e)]
    BY <1>1, <2>1, DropElements
  <2> QED
    BY <2>1, <2>2
<1>a. \A i \in 1..Len(n) + Len(x) : (n \o x)[i] = (h \o x)[i + d]
  <2> SUFFICES ASSUME NEW i \in 1..Len(n) + Len(x)
               PROVE  (n \o x)[i] = (h \o x)[i + d]
    OBVIOUS
  <2>0. /\ Len(h) \in Nat /\ Len(n) \in Nat /\ Len(x) \in Nat /\ i \in Int
        /\ Len(n) + d = Len(h)
    BY LenProperties DEF IsRest
  <2>1. (n \o x)[i] = IF i <= Len(n) THEN n[i] ELSE x[i - Len(n)]
    BY ConcatProperties
  <2>2. (h \o x)[i + d] = IF i + d <= Len(h) THEN h[i + d] ELSE x[i + d - Len(h)]
    <3>1. i + d \in 1..Len(h) + Len(x)
      BY <2>0
    <3> QED
      BY <3>1, ConcatProperties
  <2>3. CASE i <= Len(n)
    <3>1. i \in 1..Len(n) /\ i + d <= Len(h)
      BY <2>0, <2>3
    <3> QED
      BY <2>1, <2>2, <2>3, <3>1 DEF IsRest
  <2>4. CASE ~(i <= Len(n))
    <3>1. i + d - Len(h) = i - Len(n) /\ ~(i + d <= Len(h))
      BY <2>0, <2>4
    <3> QED
      BY <2>1, <2>2, <2>4, <3>1
  <2> QED
    BY <2>3, <2>4
<1>4. ASSUME NEW i \in 1..Len(n) + Len(x) - e
      PROVE  (n \o x)[i + e] = (h \o x)[i + (d + e)]
  <2>1. i + e \in 1..Len(n) + Len(x) /\ i + (d + e) = (i + e) + d
    BY <1>0
  <2>2. PICK j \in 1..Len(n) + Len(x) : j = i + e
    BY <2>1
  <2>3. (n \o x)[j] = (h \o x)[j + d]
    BY <1>a
  <2> QED
    BY <2>1, <2>2, <2>3
<1> QED
  <2>1. PICK a \in Seq(S), b \in Seq(S) : a = Drop(n \o x, e) /\ b = Drop(h \o x, d + e)
    BY <1>2, <1>3
  <2>2. Len(a) = Len(b) /\ Len(a) = Len(n) + Len(x) - e
    BY <1>2, <1>3, <2>1
  <2>3. ASSUME NEW i \in 1..Len(n) + Len(x) - e PROVE a[i] = b[i]
    <3>1. a[i] = (n \o x)[i + e] /\ b[i] = (h \o x)[i + (d + e)]
      BY <1>2, <1>3, <2>1
    <3> QED
      BY <1>4, <3>1
  <2>4. a = b
    BY <2>2, <2>3, SeqEqual
  <2> QED
    BY <2>1, <2>4

(* Appending with retention is the same as retaining after appending: this
   is why the buffer may forget what it dropped. *)
LEMMA RetainIsNewest ==
    ASSUME NEW S, NEW h \in Seq(S), NEW x \in Seq(S), NEW limit \in Nat
    PROVE  Retain(Newest(h, limit), x, limit) = Newest(h \o x, limit)
<1>1. PICK n : n = Newest(h, limit)
  OBVIOUS
<1>0. Len(h) \in Nat /\ Len(x) \in Nat
  BY LenProperties
<1>2. PICK d \in Nat : d = Excess(Len(h), limit) /\ d <= Len(h)
  BY <1>0, ExcessBounds
<1>3. n = Drop(h, d)
  BY <1>1, <1>2, NewestIsDrop
<1>4. n \in Seq(S) /\ Len(n) + d = Len(h) /\ IsRest(n, h, d)
  <2>1. /\ n \in Seq(S) /\ Len(n) = Len(h) - d
        /\ \A i \in 1..Len(h) - d : n[i] = h[i + d]
    BY <1>2, <1>3, DropElements
  <2>2. Len(n) + d = Len(h) /\ Len(h) - d = Len(n)
    BY <1>0, <1>2, <2>1
  <2> QED
    BY <2>1, <2>2 DEF IsRest
<1>5. Len(n) \in Nat
  BY <1>4, LenProperties
<1>6. PICK e \in Nat : e = Excess(Len(n) + Len(x), limit) /\ e <= Len(n) + Len(x)
  <2>1. Len(n) + Len(x) \in Nat
    BY <1>0, <1>5
  <2> QED
    BY <2>1, ExcessBounds
<1>a. d + e = Excess(Len(h) + Len(x), limit)
  <2>1. PICK lh \in Nat : lh = Len(h)
    BY <1>0
  <2>2. PICK lx \in Nat : lx = Len(x)
    BY <1>0
  <2>3. PICK ln \in Nat : ln = Len(n)
    BY <1>5
  <2>4. d = Excess(lh, limit) /\ e = Excess(ln + lx, limit) /\ ln + d = lh
    BY <1>2, <1>4, <1>6, <2>1, <2>2, <2>3
  <2>5. d + e = Excess(lh + lx, limit)
    BY <2>4 DEF Excess
  <2> QED
    BY <2>1, <2>2, <2>5
<1>7. Newest(n \o x, limit) = Drop(n \o x, e)
  <2>1. n \o x \in Seq(S) /\ Len(n \o x) = Len(n) + Len(x)
    BY <1>4, ConcatProperties
  <2> QED
    BY <1>6, <2>1, NewestIsDrop
<1>8. Newest(h \o x, limit) = Drop(h \o x, d + e)
  <2>1. h \o x \in Seq(S) /\ Len(h \o x) = Len(h) + Len(x)
    BY ConcatProperties
  <2> QED
    BY <1>a, <2>1, NewestIsDrop
<1>9. Drop(n \o x, e) = Drop(h \o x, d + e)
  BY <1>4, <1>6, DropConcatDrop
<1>10. Retain(n, x, limit) = Newest(n \o x, limit)
  BY DEF Retain, Newest
<1> QED
  BY <1>1, <1>7, <1>8, <1>9, <1>10

(* The buffer never holds more than the limit, nor anything that was not
   appended, and is full as soon as enough was appended. *)
LEMMA NewestBounds ==
    ASSUME NEW S, NEW h \in Seq(S), NEW limit \in Nat
    PROVE  /\ Newest(h, limit) \in Seq(S)
           /\ Len(Newest(h, limit)) = IF Len(h) > limit THEN limit ELSE Len(h)
<1>1. Excess(Len(h), limit) \in Nat /\ Excess(Len(h), limit) <= Len(h)
  BY LenProperties DEF Excess
<1>2. /\ Newest(h, limit) \in Seq(S)
      /\ Len(Newest(h, limit)) = Len(h) - Excess(Len(h), limit)
  BY <1>1, NewestIsDrop, DropElements
<1> QED
  BY <1>2 DEF Excess
=============================================================================
