----------------------------- MODULE DataLemmas -----------------------------
(***************************************************************************)
(* Facts about numbers, finite sets, finite orders and sums that the proofs *)
(* of several components rest on.  The induction principles are stated for *)
(* sets of numbers and of sets, so that they can be cited by name.         *)
(***************************************************************************)
EXTENDS Integers, Functions, FiniteSetTheorems, WellFoundedInduction, TLAPS

\* A set of natural numbers that is not empty has a least element.
LEMMA NatLeast ==
    ASSUME NEW T \in SUBSET Nat, T # {}
    PROVE  \E x \in T : \A y \in T : x <= y
<1>1. IsWellFoundedOn({ss \in Nat \X Nat : ss[1] < ss[2]}, Nat)
  BY NatLessThanWellFounded DEF OpToRel
<1>2. PICK x \in T : \A y \in T : <<y, x>> \notin {ss \in Nat \X Nat : ss[1] < ss[2]}
  BY <1>1, WFMin
<1>3. \A y \in T : ~(y < x)
  BY <1>2
<1>4. QED
  BY <1>3

\* A set of natural numbers that has 0, and n + 1 with every n, has them all.
LEMMA NatSet ==
    ASSUME NEW T \in SUBSET Nat, 0 \in T, \A n \in T : n + 1 \in T
    PROVE  T = Nat
<1> SUFFICES ASSUME Nat \ T # {}
             PROVE  FALSE
  OBVIOUS
<1>1. PICK x \in Nat \ T : \A y \in Nat \ T : x <= y
  BY NatLeast
<1>2. x - 1 \in Nat /\ x - 1 \notin Nat \ T
  BY <1>1
<1>3. (x - 1) + 1 = x
  BY <1>1
<1>4. QED
  BY <1>1, <1>2, <1>3

\* A set that has a subset of P as soon as it has every s \ {x} has them all, when
\* P is finite.
LEMMA SubsetSet ==
    ASSUME NEW P, IsFiniteSet(P), NEW G,
           \A s \in SUBSET P : (\A x \in s : s \ {x} \in G) => s \in G
    PROVE  SUBSET P \subseteq G
<1> DEFINE T == {n \in Nat : \A s \in SUBSET P : Cardinality(s) = n => s \in G}
<1>1. 0 \in T
  <2>1. \A s \in SUBSET P : Cardinality(s) = 0 => s = {}
    BY FS_Subset, FS_EmptySet
  <2>2. {} \in G
    OBVIOUS
  <2>3. QED
    BY <2>1, <2>2
<1>2. ASSUME NEW n \in T
      PROVE  n + 1 \in T
  <2> SUFFICES ASSUME NEW s \in SUBSET P, Cardinality(s) = n + 1
               PROVE  s \in G
    OBVIOUS
  <2>1. n \in Nat /\ Cardinality(s) = n + 1 /\ IsFiniteSet(s)
    BY <1>2, FS_Subset
  <2>2. ASSUME NEW x \in s
        PROVE  s \ {x} \in G
    <3>1. Cardinality(s \ {x}) = n
      <4>1. Cardinality(s \ {x}) = Cardinality(s) - 1
        BY <2>1, FS_RemoveElement
      <4>2. QED
        BY <2>1, <4>1
    <3>2. QED
      BY <3>1
  <2>3. QED
    BY <2>2
<1>3. T = Nat
  <2> HIDE DEF T
  <2>1. T \in SUBSET Nat
    BY DEF T
  <2>2. QED
    BY <1>1, <1>2, <2>1, NatSet
<1>4. ASSUME NEW s \in SUBSET P
      PROVE  s \in G
  <2>1. Cardinality(s) \in Nat
    BY FS_Subset, FS_CardinalityType
  <2>2. Cardinality(s) \in T
    BY <1>3, <2>1
  <2>3. QED
    BY <2>2
<1>5. QED
  BY <1>4

\* A finite set that is not empty has a last element in a strict total order.
LEMMA LastExists ==
    ASSUME NEW S, IsFiniteSet(S), S # {}, NEW R,
           \A j, k \in S : <<j, k>> \in R <=> j # k /\ <<k, j>> \notin R,
           \A i, j, k \in S : <<i, j>> \in R /\ <<j, k>> \in R => <<i, k>> \in R
    PROVE  \E j \in S : \A i \in S \ {j} : <<i, j>> \in R
<1> DEFINE G == {s \in SUBSET S : s # {} => \E j \in s : \A i \in s \ {j} : <<i, j>> \in R}
<1>1. ASSUME NEW s \in SUBSET S, \A x \in s : s \ {x} \in G
      PROVE  s \in G
  <2> SUFFICES ASSUME NEW x \in s
               PROVE  \E j \in s : \A i \in s \ {j} : <<i, j>> \in R
    OBVIOUS
  <2>1. CASE s \ {x} = {}
    BY <2>1
  <2>2. CASE s \ {x} # {}
    <3>1. PICK j \in s \ {x} : \A i \in (s \ {x}) \ {j} : <<i, j>> \in R
      BY <1>1, <2>2
    <3>2. CASE <<x, j>> \in R
      <4>1. \A i \in s \ {j} : <<i, j>> \in R
        BY <3>1, <3>2
      <4>2. QED
        BY <4>1
    <3>3. CASE <<x, j>> \notin R
      <4>1. <<j, x>> \in R
        BY <3>3
      <4>2. \A i \in s \ {x} : <<i, x>> \in R
        BY <3>1, <4>1
      <4>3. QED
        BY <4>2
    <3>4. QED
      BY <3>2, <3>3
  <2>3. QED
    BY <2>1, <2>2
<1> HIDE DEF G
<1>2. SUBSET S \subseteq G
  BY <1>1, SubsetSet
<1>3. QED
  BY <1>2 DEF G

-----------------------------------------------------------------------------
(* Sums.                                                                   *)

\* The sum of the values of f on P, as the folds of the library form it: the
\* elements are taken one by one in an order that CHOOSE fixes.
SumOn(f, P) == FoldFunctionOnSet(+, 0, f, P)

\* The element of s that is taken first.
FirstOf(s) == CHOOSE x \in s : TRUE

\* g is the table of the sums on the subsets of P.
SumTable(g, f, P) ==
    g = [s \in SUBSET P |-> IF s = {} THEN 0 ELSE f[FirstOf(s)] + g[s \ {FirstOf(s)}]]

\* There is such a table for every finite P, built up by the size of the subsets.
LEMMA SumTableExists ==
    ASSUME NEW P, IsFiniteSet(P), NEW f
    PROVE  \E g : SumTable(g, f, P)
<1> DEFINE Small(n) == {s \in SUBSET P : Cardinality(s) <= n}
           Upto(n, g) == g = [s \in Small(n) |-> IF s = {} THEN 0
                                                 ELSE f[FirstOf(s)] + g[s \ {FirstOf(s)}]]
           T == {n \in Nat : \E g : Upto(n, g)}
<1>1. \A s \in SUBSET P : /\ IsFiniteSet(s) /\ Cardinality(s) \in Nat
                          /\ Cardinality(s) = 0 <=> s = {}
  BY FS_Subset, FS_CardinalityType, FS_EmptySet
<1>2. \A s \in SUBSET P : s # {} => /\ FirstOf(s) \in s /\ s \ {FirstOf(s)} \in SUBSET P
                                    /\ Cardinality(s \ {FirstOf(s)}) = Cardinality(s) - 1
  BY <1>1, FS_RemoveElement DEF FirstOf
<1>3. 0 \in T
  <2>1. Small(0) = {{}}
    BY <1>1
  <2> DEFINE g == [s \in {{}} |-> 0]
  <2>2. Upto(0, g)
    BY <2>1
  <2>3. QED
    BY <2>2
<1>4. ASSUME NEW n \in T
      PROVE  n + 1 \in T
  <2>1. PICK g : Upto(n, g)
    OBVIOUS
  <2> DEFINE h == [s \in Small(n + 1) |-> IF s \in Small(n) THEN g[s]
                                          ELSE f[FirstOf(s)] + g[s \ {FirstOf(s)}]]
  <2>2. \A s \in Small(n + 1) : s # {} => s \ {FirstOf(s)} \in Small(n)
    BY <1>1, <1>2
  <2>3. \A s \in Small(n) : s \in Small(n + 1)
    BY <1>1
  <2>4. {} \in Small(n)
    BY <1>1
  <2> HIDE DEF Small
  <2>5. \A s \in Small(n) : h[s] = g[s]
    BY <2>3
  <2>6. \A s \in Small(n) : g[s] = IF s = {} THEN 0 ELSE f[FirstOf(s)] + g[s \ {FirstOf(s)}]
    BY <2>1
  <2>7. \A s \in Small(n + 1) :
          h[s] = IF s = {} THEN 0 ELSE f[FirstOf(s)] + h[s \ {FirstOf(s)}]
    <3> SUFFICES ASSUME NEW s \in Small(n + 1)
                 PROVE  h[s] = IF s = {} THEN 0 ELSE f[FirstOf(s)] + h[s \ {FirstOf(s)}]
      OBVIOUS
    <3>1. CASE s = {}
      BY <2>4, <2>5, <2>6, <3>1
    <3>2. CASE s # {} /\ s \in Small(n)
      <4>1. h[s \ {FirstOf(s)}] = g[s \ {FirstOf(s)}] /\ h[s] = g[s]
        BY <2>2, <2>5, <3>2
      <4>2. QED
        BY <2>6, <3>2, <4>1
    <3>3. CASE s # {} /\ s \notin Small(n)
      <4>1. h[s \ {FirstOf(s)}] = g[s \ {FirstOf(s)}]
        BY <2>2, <2>5, <3>3
      <4>2. h[s] = f[FirstOf(s)] + g[s \ {FirstOf(s)}]
        BY <3>3
      <4>3. QED
        BY <3>3, <4>1, <4>2
    <3>4. QED
      BY <3>1, <3>2, <3>3
  <2>8. Upto(n + 1, h)
    BY <2>7
  <2>9. n + 1 \in Nat
    OBVIOUS
  <2> HIDE DEF Upto, h
  <2>10. QED
    BY <2>8, <2>9
<1>5. T = Nat
  <2> HIDE DEF T
  <2>1. T \in SUBSET Nat
    BY DEF T
  <2>2. QED
    BY <1>3, <1>4, <2>1, NatSet
<1>6. Cardinality(P) \in T
  <2>1. Cardinality(P) \in Nat
    BY FS_CardinalityType
  <2>2. QED
    BY <1>5, <2>1
<1>7. PICK g : Upto(Cardinality(P), g)
  BY <1>6
<1>8. Small(Cardinality(P)) = SUBSET P
  BY FS_Subset
<1>9. SumTable(g, f, P)
  BY <1>7, <1>8 DEF SumTable
<1>10. QED
  BY <1>9

\* The sum is what the table has for all of P.
LEMMA SumIsTable ==
    ASSUME NEW P, IsFiniteSet(P), NEW f
    PROVE  \E g : SumTable(g, f, P) /\ SumOn(f, P) = g[P]
<1> DEFINE iter == CHOOSE g : SumTable(g, f, P)
<1>1. SumTable(iter, f, P)
  BY SumTableExists
<1>2. SumOn(f, P) = iter[P]
  BY Zenon DEF SumOn, FoldFunctionOnSet, MapThenFoldSet, SumTable, FirstOf
<1>3. QED
  BY <1>1, <1>2

\* The sums of natural numbers are natural numbers.
LEMMA TableNat ==
    ASSUME NEW P, IsFiniteSet(P), NEW f, \A i \in P : f[i] \in Nat,
           NEW g, SumTable(g, f, P)
    PROVE  \A s \in SUBSET P : g[s] \in Nat
<1> DEFINE G == {s \in SUBSET P : g[s] \in Nat}
<1>1. ASSUME NEW s \in SUBSET P, \A x \in s : s \ {x} \in G
      PROVE  s \in G
  <2>1. CASE s = {}
    BY <2>1 DEF SumTable
  <2>2. CASE s # {}
    <3>1. FirstOf(s) \in s /\ g[s] = f[FirstOf(s)] + g[s \ {FirstOf(s)}]
      BY <2>2 DEF SumTable, FirstOf
    <3>2. g[s \ {FirstOf(s)}] \in Nat /\ f[FirstOf(s)] \in Nat
      BY <1>1, <3>1
    <3>3. QED
      BY <3>1, <3>2
  <2>3. QED
    BY <2>1, <2>2
<1> HIDE DEF G
<1>2. SUBSET P \subseteq G
  BY <1>1, SubsetSet
<1>3. QED
  BY <1>2 DEF G

\* Whichever element is taken out first, the sum is the same.
LEMMA AnyFirst ==
    ASSUME NEW P, IsFiniteSet(P), NEW f, \A i \in P : f[i] \in Nat,
           NEW g, SumTable(g, f, P)
    PROVE  \A s \in SUBSET P : \A x \in s : g[s] = f[x] + g[s \ {x}]
<1> DEFINE G == {s \in SUBSET P : \A x \in s : g[s] = f[x] + g[s \ {x}]}
<1>1. ASSUME NEW s \in SUBSET P, \A x \in s : s \ {x} \in G
      PROVE  s \in G
  <2> SUFFICES ASSUME NEW x \in s
               PROVE  g[s] = f[x] + g[s \ {x}]
    OBVIOUS
  <2> DEFINE c == FirstOf(s)
  <2>1. c \in s /\ g[s] = f[c] + g[s \ {c}]
    BY DEF SumTable, FirstOf
  <2> HIDE DEF c
  <2>2. CASE x = c
    BY <2>1, <2>2
  <2>3. CASE x # c
    <3>1. g[s \ {c}] = f[x] + g[(s \ {c}) \ {x}]
      BY <1>1, <2>1, <2>3
    <3>2. g[s \ {x}] = f[c] + g[(s \ {c}) \ {x}]
      <4>1. g[s \ {x}] = f[c] + g[(s \ {x}) \ {c}]
        BY <1>1, <2>1, <2>3
      <4>2. (s \ {c}) \ {x} = (s \ {x}) \ {c}
        OBVIOUS
      <4>3. QED
        BY <4>1, <4>2
    <3>3. f[x] \in Nat /\ f[c] \in Nat /\ g[(s \ {c}) \ {x}] \in Nat
      BY <2>1, TableNat
    <3>4. QED
      BY <2>1, <3>1, <3>2, <3>3
  <2>4. QED
    BY <2>2, <2>3
<1> HIDE DEF G
<1>2. SUBSET P \subseteq G
  BY <1>1, SubsetSet
<1>3. QED
  BY <1>2 DEF G

\* Tables of functions that agree agree.
LEMMA TablesAgree ==
    ASSUME NEW P, IsFiniteSet(P), NEW Q, P \subseteq Q, NEW f, NEW h,
           \A i \in P : f[i] = h[i],
           NEW g, SumTable(g, f, P), NEW k, SumTable(k, h, Q)
    PROVE  \A s \in SUBSET P : g[s] = k[s]
<1> DEFINE G == {s \in SUBSET P : g[s] = k[s]}
<1>1. ASSUME NEW s \in SUBSET P, \A x \in s : s \ {x} \in G
      PROVE  s \in G
  <2>0. s \in SUBSET Q
    OBVIOUS
  <2>1. CASE s = {}
    BY <2>0, <2>1 DEF SumTable
  <2>2. CASE s # {}
    <3>1. FirstOf(s) \in s
      BY <2>2 DEF FirstOf
    <3>2. g[s] = f[FirstOf(s)] + g[s \ {FirstOf(s)}]
      BY <2>2 DEF SumTable
    <3>3. k[s] = h[FirstOf(s)] + k[s \ {FirstOf(s)}]
      BY <2>0, <2>2 DEF SumTable
    <3>4. g[s \ {FirstOf(s)}] = k[s \ {FirstOf(s)}] /\ f[FirstOf(s)] = h[FirstOf(s)]
      BY <1>1, <3>1
    <3>5. QED
      BY <3>2, <3>3, <3>4
  <2>3. QED
    BY <2>1, <2>2
<1> HIDE DEF G
<1>2. SUBSET P \subseteq G
  BY <1>1, SubsetSet
<1>3. QED
  BY <1>2 DEF G

-----------------------------------------------------------------------------
(* What the components' proofs use of sums.                                *)

\* The sum of nothing, and the type of a sum.
LEMMA SumType ==
    ASSUME NEW P, IsFiniteSet(P), NEW f, \A i \in P : f[i] \in Nat
    PROVE  SumOn(f, P) \in Nat /\ (P = {} => SumOn(f, P) = 0)
<1>1. PICK g : SumTable(g, f, P) /\ SumOn(f, P) = g[P]
  BY SumIsTable
<1>2. g[P] \in Nat
  BY <1>1, TableNat
<1>3. P = {} => g[P] = 0
  BY <1>1 DEF SumTable
<1>4. QED
  BY <1>1, <1>2, <1>3

\* A sum depends on the values on P only.
LEMMA SumSame ==
    ASSUME NEW P, IsFiniteSet(P), NEW f, NEW h, \A i \in P : f[i] = h[i]
    PROVE  SumOn(f, P) = SumOn(h, P)
<1>1. PICK g : SumTable(g, f, P) /\ SumOn(f, P) = g[P]
  BY SumIsTable
<1>2. PICK k : SumTable(k, h, P) /\ SumOn(h, P) = k[P]
  BY SumIsTable
<1>3. \A s \in SUBSET P : g[s] = k[s]
  <2>1. P \subseteq P /\ SumTable(g, f, P) /\ SumTable(k, h, P)
    BY <1>1, <1>2
  <2>2. QED
    BY <2>1, TablesAgree
<1>4. QED
  BY <1>1, <1>2, <1>3

\* One element can be taken out of a sum.
LEMMA SumTake ==
    ASSUME NEW P, IsFiniteSet(P), NEW f, \A i \in P : f[i] \in Nat, NEW x \in P
    PROVE  SumOn(f, P) = f[x] + SumOn(f, P \ {x})
<1>1. PICK g : SumTable(g, f, P) /\ SumOn(f, P) = g[P]
  BY SumIsTable
<1>2. IsFiniteSet(P \ {x}) /\ P \ {x} \subseteq P
  BY FS_Subset
<1>3. PICK k : SumTable(k, f, P \ {x}) /\ SumOn(f, P \ {x}) = k[P \ {x}]
  BY <1>2, SumIsTable
<1>4. k[P \ {x}] = g[P \ {x}]
  BY <1>1, <1>2, <1>3, TablesAgree
<1>5. g[P] = f[x] + g[P \ {x}]
  BY <1>1, AnyFirst
<1>6. QED
  BY <1>1, <1>3, <1>4, <1>5

\* The sum after a change of one value.
LEMMA SumChange ==
    ASSUME NEW P, IsFiniteSet(P), NEW f, NEW h, NEW x \in P,
           \A i \in P : f[i] \in Nat /\ h[i] \in Nat, \A i \in P \ {x} : h[i] = f[i]
    PROVE  SumOn(h, P) + f[x] = SumOn(f, P) + h[x]
<1>1. IsFiniteSet(P \ {x})
  BY FS_Subset
<1>2. SumOn(f, P \ {x}) = SumOn(h, P \ {x}) /\ SumOn(f, P \ {x}) \in Nat
  BY <1>1, SumSame, SumType
<1>3. SumOn(f, P) = f[x] + SumOn(f, P \ {x}) /\ SumOn(h, P) = h[x] + SumOn(h, P \ {x})
  BY SumTake
<1>4. f[x] \in Nat /\ h[x] \in Nat
  OBVIOUS
<1>5. QED
  BY <1>2, <1>3, <1>4

\* A sum of zeros.
LEMMA SumZero ==
    ASSUME NEW P, IsFiniteSet(P), NEW f, \A i \in P : f[i] = 0
    PROVE  SumOn(f, P) = 0
<1>1. PICK g : SumTable(g, f, P) /\ SumOn(f, P) = g[P]
  BY SumIsTable
<1> DEFINE G == {s \in SUBSET P : g[s] = 0}
<1>2. ASSUME NEW s \in SUBSET P, \A x \in s : s \ {x} \in G
      PROVE  s \in G
  <2>1. CASE s = {}
    BY <1>1, <2>1 DEF SumTable
  <2>2. CASE s # {}
    <3>1. FirstOf(s) \in s /\ g[s] = f[FirstOf(s)] + g[s \ {FirstOf(s)}]
      BY <1>1, <2>2 DEF SumTable, FirstOf
    <3>2. g[s \ {FirstOf(s)}] = 0 /\ f[FirstOf(s)] = 0
      BY <1>2, <3>1
    <3>3. QED
      BY <3>1, <3>2
  <2>3. QED
    BY <2>1, <2>2
<1> HIDE DEF G
<1>3. SUBSET P \subseteq G
  BY <1>2, SubsetSet
<1>4. QED
  BY <1>1, <1>3 DEF G

\* The fold of a whole function is its sum on its domain.
LEMMA SumDomain ==
    ASSUME NEW f
    PROVE  FoldFunction(+, 0, f) = SumOn(f, DOMAIN f)
BY Zenon DEF FoldFunction, SumOn

\* The sum after one value has grown by 1.
LEMMA SumPlus ==
    ASSUME NEW P, IsFiniteSet(P), NEW f, NEW h, NEW x,
           \A i \in P : f[i] \in Nat /\ h[i] = f[i] + (IF i = x THEN 1 ELSE 0)
    PROVE  SumOn(h, P) = SumOn(f, P) + (IF x \in P THEN 1 ELSE 0)
<1>1. SumOn(f, P) \in Nat /\ SumOn(h, P) \in Nat
  <2>1. \A i \in P : f[i] \in Nat /\ h[i] \in Nat
    OBVIOUS
  <2>2. QED
    BY <2>1, SumType
<1>2. CASE x \in P
  <2>1. \A i \in P : f[i] \in Nat /\ h[i] \in Nat
    OBVIOUS
  <2>2. \A i \in P \ {x} : h[i] = f[i]
    OBVIOUS
  <2>3. SumOn(h, P) + f[x] = SumOn(f, P) + h[x]
    BY <1>2, <2>1, <2>2, SumChange
  <2>4. QED
    BY <1>1, <1>2, <2>3
<1>3. CASE x \notin P
  <2>1. \A i \in P : h[i] = f[i]
    BY <1>3
  <2>2. SumOn(h, P) = SumOn(f, P)
    BY <2>1, SumSame
  <2>3. QED
    BY <1>1, <1>3, <2>2
<1>4. QED
  BY <1>2, <1>3

\* A sum is the sum of those of the two parts of its set.
LEMMA SumSplit ==
    ASSUME NEW P, IsFiniteSet(P), NEW f, \A i \in P : f[i] \in Nat, NEW Q, Q \subseteq P
    PROVE  SumOn(f, P) = SumOn(f, Q) + SumOn(f, P \ Q)
<1> DEFINE G == {s \in SUBSET P : SumOn(f, s) = SumOn(f, s \cap Q) + SumOn(f, s \ Q)}
<1>0. \A s \in SUBSET P : /\ IsFiniteSet(s) /\ \A i \in s : f[i] \in Nat
                          /\ IsFiniteSet(s \cap Q) /\ IsFiniteSet(s \ Q)
                          /\ SumOn(f, s \cap Q) \in Nat /\ SumOn(f, s \ Q) \in Nat
  <2>1. \A s \in SUBSET P : IsFiniteSet(s) /\ \A i \in s : f[i] \in Nat
    BY FS_Subset
  <2>2. \A s \in SUBSET P : SumOn(f, s) \in Nat
    BY <2>1, SumType
  <2>3. \A s \in SUBSET P : s \cap Q \in SUBSET P /\ s \ Q \in SUBSET P
    OBVIOUS
  <2>4. QED
    BY <2>1, <2>2, <2>3
<1>1. ASSUME NEW s \in SUBSET P, \A x \in s : s \ {x} \in G
      PROVE  s \in G
  <2>1. CASE s = {}
    <3>1. s \cap Q = {} /\ s \ Q = {}
      BY <2>1
    <3>2. SumOn(f, {}) = 0
      BY <1>0, <2>1, SumType
    <3>3. QED
      BY <2>1, <3>1, <3>2
  <2>2. CASE s # {}
    <3>1. PICK x \in s : TRUE
      BY <2>2
    <3> DEFINE r == s \ {x}
    <3>2. SumOn(f, s) = f[x] + SumOn(f, r)
      BY <1>0, SumTake
    <3>3. SumOn(f, r) = SumOn(f, r \cap Q) + SumOn(f, r \ Q)
      BY <1>1
    <3>4. /\ f[x] \in Nat /\ r \in SUBSET P
          /\ SumOn(f, r \cap Q) \in Nat /\ SumOn(f, r \ Q) \in Nat
      BY <1>0
    <3>5. CASE x \in Q
      <4>1. r \cap Q = (s \cap Q) \ {x} /\ r \ Q = s \ Q /\ x \in s \cap Q
        BY <3>5
      <4>2. SumOn(f, s \cap Q) = f[x] + SumOn(f, (s \cap Q) \ {x})
        <5>1. IsFiniteSet(s \cap Q) /\ \A i \in s \cap Q : f[i] \in Nat
          BY <1>0
        <5>2. QED
          BY <4>1, <5>1, SumTake
      <4>3. /\ SumOn(f, s \cap Q) = f[x] + SumOn(f, r \cap Q)
            /\ SumOn(f, s \ Q) = SumOn(f, r \ Q)
        BY <4>1, <4>2, Zenon
      <4> HIDE DEF r
      <4>4. SumOn(f, s) = SumOn(f, s \cap Q) + SumOn(f, s \ Q)
        BY <3>2, <3>3, <3>4, <4>3
      <4>5. QED
        BY <4>4
    <3>6. CASE x \notin Q
      <4>1. r \cap Q = s \cap Q /\ r \ Q = (s \ Q) \ {x} /\ x \in s \ Q
        BY <3>6
      <4>2. SumOn(f, s \ Q) = f[x] + SumOn(f, (s \ Q) \ {x})
        <5>1. IsFiniteSet(s \ Q) /\ \A i \in s \ Q : f[i] \in Nat
          BY <1>0
        <5>2. QED
          BY <4>1, <5>1, SumTake
      <4>3. /\ SumOn(f, s \ Q) = f[x] + SumOn(f, r \ Q)
            /\ SumOn(f, s \cap Q) = SumOn(f, r \cap Q)
        BY <4>1, <4>2, Zenon
      <4> HIDE DEF r
      <4>4. SumOn(f, s) = SumOn(f, s \cap Q) + SumOn(f, s \ Q)
        BY <3>2, <3>3, <3>4, <4>3
      <4>5. QED
        BY <4>4
    <3>7. QED
      BY <3>5, <3>6
  <2>3. QED
    BY <2>1, <2>2
<1> HIDE DEF G
<1>2. SUBSET P \subseteq G
  BY <1>1, SubsetSet
<1>3. SumOn(f, P) = SumOn(f, P \cap Q) + SumOn(f, P \ Q)
  BY <1>2 DEF G
<1>4. P \cap Q = Q
  OBVIOUS
<1>5. QED
  BY <1>3, <1>4

\* A part sums to no more than the whole, and to the same if the rest is zeros.
LEMMA SumPart ==
    ASSUME NEW P, IsFiniteSet(P), NEW f, \A i \in P : f[i] \in Nat, NEW Q, Q \subseteq P
    PROVE  /\ SumOn(f, P) \in Nat /\ SumOn(f, Q) \in Nat /\ SumOn(f, Q) <= SumOn(f, P)
           /\ (\A i \in P \ Q : f[i] = 0) => SumOn(f, Q) = SumOn(f, P)
<1>1. IsFiniteSet(Q) /\ IsFiniteSet(P \ Q) /\ \A i \in Q : f[i] \in Nat
  BY FS_Subset
<1>2. SumOn(f, P) \in Nat /\ SumOn(f, Q) \in Nat /\ SumOn(f, P \ Q) \in Nat
  BY <1>1, SumType
<1>3. SumOn(f, P) = SumOn(f, Q) + SumOn(f, P \ Q)
  BY SumSplit
<1>4. (\A i \in P \ Q : f[i] = 0) => SumOn(f, P \ Q) = 0
  BY <1>1, SumZero
<1>5. QED
  BY <1>2, <1>3, <1>4

\* A finite set of integers that is not empty has a least and a greatest element.
LEMMA Extremes ==
    ASSUME NEW S \in SUBSET Int, IsFiniteSet(S), S # {}
    PROVE  /\ \E x \in S : \A y \in S : x <= y
           /\ \E x \in S : \A y \in S : x >= y
<1> DEFINE Over == {d \in S \X S : d[1] > d[2]}
           Under == {d \in S \X S : d[1] < d[2]}
<1>1. /\ \A j, k \in S : <<j, k>> \in Over <=> j > k
      /\ \A j, k \in S : <<j, k>> \in Under <=> j < k
  OBVIOUS
<1> HIDE DEF Over, Under
<1>2. /\ \A j, k \in S : <<j, k>> \in Over <=> j # k /\ <<k, j>> \notin Over
      /\ \A i, j, k \in S : <<i, j>> \in Over /\ <<j, k>> \in Over => <<i, k>> \in Over
  BY <1>1
<1>3. /\ \A j, k \in S : <<j, k>> \in Under <=> j # k /\ <<k, j>> \notin Under
      /\ \A i, j, k \in S : <<i, j>> \in Under /\ <<j, k>> \in Under => <<i, k>> \in Under
  BY <1>1
<1>4. \E j \in S : \A i \in S \ {j} : <<i, j>> \in Over
  BY <1>2, LastExists
<1>5. \E j \in S : \A i \in S \ {j} : <<i, j>> \in Under
  BY <1>3, LastExists
<1>6. \E j \in S : \A i \in S : j <= i
  <2>1. PICK j \in S : \A i \in S \ {j} : <<i, j>> \in Over
    BY <1>4
  <2>2. \A i \in S : i = j \/ i > j
    BY <1>1, <2>1
  <2>3. \A i \in S : j <= i
    BY <2>2
  <2>4. QED
    BY <2>3
<1>7. \E j \in S : \A i \in S : j >= i
  <2>1. PICK j \in S : \A i \in S \ {j} : <<i, j>> \in Under
    BY <1>5
  <2>2. \A i \in S : i = j \/ i < j
    BY <1>1, <2>1
  <2>3. \A i \in S : j >= i
    BY <2>2
  <2>4. QED
    BY <2>3
<1>8. QED
  BY <1>6, <1>7
=============================================================================
