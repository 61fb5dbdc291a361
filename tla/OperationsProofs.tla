--------------------------- MODULE OperationsProofs ---------------------------
(***************************************************************************)
(* Proofs about the operation of the system: the factor campaigns of the   *)
(* orchestrator, the driver of the MetaTrader tester, the Telegram         *)
(* operator, the authorities every entry has to pass, the meta layer with  *)
(* its allocation file, and the book a research run assembles.  Each is a  *)
(* specification of its own here, built from the component's own Init and  *)
(* Next; the operator's runs interleaved with the console's authorities,   *)
(* since both hold a kill switch.  Every result is for any constants that  *)
(* meet the named assumptions of the modules.                              *)
(*                                                                         *)
(*   campaigns    the stages on record are the first ones, and a run under *)
(*                way was accepted under the policy of the campaign, so    *)
(*                what a stage adds was earned under that policy           *)
(*   tester       a cleared place holds reports only of the run under way  *)
(*                or of runs whose terminals were not done when they were  *)
(*                judged, and a terminal still to write is one of those    *)
(*   operator     the update a batch hands out is the first one not yet    *)
(*                confirmed, so an update is passed over only when handled *)
(*   authorities  an entry on record is the answer of the whole chain to   *)
(*                what was asked, every step that changes an authority     *)
(*                takes the answer back, and the weights are whole         *)
(*                percents, so a weight's share bounds the risk            *)
(*   allocation   every decision of the meta layer is within its rules     *)
(*                and on record, and what a layer holds is what one        *)
(*                decision of its own configuration gave                   *)
(*   book         every turn keeps the selection within its limits and     *)
(*                leaves a reason beside whoever it passes over; a target  *)
(*                beyond a cap drops all, one within every cap drops       *)
(*                nobody                                                   *)
(***************************************************************************)
EXTENDS TelegramOperator, Campaigns, TesterRun, AllocationFile, ResearchBook,
        FiniteSetTheorems, SequenceTheorems, WellFoundedInduction, TLAPS

-----------------------------------------------------------------------------
(* Least elements, sums over finite sets, the lesser and the greater of two *)

\* Every non-empty set of naturals has a least element: induction without a predicate.
LEMMA LeastNumber == ASSUME NEW T \in SUBSET Nat, T # {} PROVE \E x \in T : \A y \in T : x <= y
<1> DEFINE R == {ss \in Nat \X Nat : ss[1] < ss[2]}
<1>1. IsWellFoundedOn(R, Nat)
  BY NatLessThanWellFounded DEF OpToRel
<1>2. \A x, y \in Nat : x < y => <<x, y>> \in R
  OBVIOUS
<1> HIDE DEF R
<1>3. PICK x \in T : \A y \in T : ~ (<<y, x>> \in R)
  BY <1>1, WFMin
<1>4. ASSUME NEW y \in T PROVE x <= y
  <2>1. x \in Nat /\ y \in Nat /\ ~(y < x)
    BY <1>2, <1>3
  <2> QED
    BY <2>1
<1> QED
  BY <1>4

\* What a table of sums is: nothing sums to 0, one element is set apart from the rest.
Element(T) == CHOOSE y \in T : TRUE
SumTable(f, S, sum) ==
    sum = [T \in SUBSET S |-> IF T = {} THEN 0 ELSE f[Element(T)] + sum[T \ {Element(T)}]]

\* The subsets of at most n elements.
UpToSize(S, n) == {T \in SUBSET S : Cardinality(T) <= n}

LEMMA WithoutElement ==
    ASSUME NEW S, IsFiniteSet(S), NEW T \in SUBSET S, T # {}
    PROVE  /\ Element(T) \in T /\ T \ {Element(T)} \in SUBSET S
           /\ Cardinality(T) \in Nat \ {0} /\ Cardinality(T \ {Element(T)}) = Cardinality(T) - 1
           /\ IsFiniteSet(T)
<1>1. Element(T) \in T
  BY Zenon DEF Element
<1>2. IsFiniteSet(T)
  BY FS_Subset
<1>3. Cardinality(T) \in Nat
  BY <1>2, FS_CardinalityType
<1>4. Cardinality(T) # 0
  BY <1>2, FS_EmptySet
<1>5. Cardinality(T \ {Element(T)}) = Cardinality(T) - 1
  BY <1>1, <1>2, FS_RemoveElement, Zenon
<1> QED BY <1>1, <1>2, <1>3, <1>4, <1>5

LEMMA SumTableExists ==
    ASSUME NEW S, IsFiniteSet(S), NEW f, \A x \in S : f[x] \in Int
    PROVE  \E sum : SumTable(f, S, sum)
<1> DEFINE upTo(n, g) == /\ g \in [UpToSize(S, n) -> Int]
                         /\ \A T \in UpToSize(S, n) :
                              g[T] = IF T = {} THEN 0 ELSE f[Element(T)] + g[T \ {Element(T)}]
           missing == {n \in Nat : ~\E g : upTo(n, g)}
<1>1. Cardinality(S) \in Nat /\ \A T \in SUBSET S : Cardinality(T) \in Nat /\ Cardinality(T) <= Cardinality(S)
  BY FS_Subset, FS_CardinalityType
<1>2. missing = {}
  <2>1. SUFFICES ASSUME missing # {} PROVE FALSE
    OBVIOUS
  <2>2. PICK n \in missing : \A m \in missing : n <= m
    BY <2>1, LeastNumber
  <2>3. n \in Nat /\ ~\E g : upTo(n, g)
    BY <2>2
  <2>4. CASE n = 0
    <3> DEFINE g == [T \in UpToSize(S, 0) |-> 0]
    <3>1. \A T \in UpToSize(S, 0) : T = {}
      <4> SUFFICES ASSUME NEW T \in SUBSET S, Cardinality(T) <= 0, T # {} PROVE FALSE
        BY DEF UpToSize
      <4>1. Cardinality(T) \in Nat \ {0}
        BY WithoutElement
      <4> QED BY <4>1
    <3>2. upTo(0, g)
      BY <3>1
    <3> QED BY <2>3, <2>4, <3>2
  <2>5. CASE n # 0
    <3> HIDE DEF missing
    <3>1. n - 1 \in Nat /\ n - 1 \notin missing
      BY <2>2, <2>3, <2>5
    <3> USE DEF missing
    <3>2. PICK g : upTo(n - 1, g)
      BY <3>1
    <3> DEFINE h == [T \in UpToSize(S, n) |->
                        IF T \in UpToSize(S, n - 1) THEN g[T] ELSE f[Element(T)] + g[T \ {Element(T)}]]
    <3>3. \A T \in UpToSize(S, n) : T # {} =>
             f[Element(T)] \in Int /\ T \ {Element(T)} \in UpToSize(S, n - 1)
      BY <2>3, WithoutElement DEF UpToSize
    <3>4. {} \in UpToSize(S, n - 1)
      BY <3>1, FS_EmptySet DEF UpToSize
    <3>5. UpToSize(S, n - 1) \subseteq UpToSize(S, n)
      BY <1>1, <2>3 DEF UpToSize
    <3> HIDE DEF missing
    <3>6. \A T \in UpToSize(S, n) : h[T] \in Int
      <4> SUFFICES ASSUME NEW T \in UpToSize(S, n) PROVE h[T] \in Int
        OBVIOUS
      <4>1. CASE T \in UpToSize(S, n - 1)
        BY <3>2, <4>1
      <4>2. CASE T \notin UpToSize(S, n - 1)
        <5>1. f[Element(T)] \in Int /\ T \ {Element(T)} \in UpToSize(S, n - 1)
          BY <3>3, <3>4, <4>2
        <5>2. g[T \ {Element(T)}] \in Int
          BY <3>2, <5>1
        <5>3. h[T] = f[Element(T)] + g[T \ {Element(T)}]
          BY <4>2
        <5> QED BY <5>1, <5>2, <5>3
      <4> QED BY <4>1, <4>2
    <3>7. \A T \in UpToSize(S, n) :
             h[T] = IF T = {} THEN 0 ELSE f[Element(T)] + h[T \ {Element(T)}]
      <4> SUFFICES ASSUME NEW T \in UpToSize(S, n)
                   PROVE  h[T] = IF T = {} THEN 0 ELSE f[Element(T)] + h[T \ {Element(T)}]
        OBVIOUS
      <4>1. CASE T = {}
        BY <4>1, <3>2, <3>4
      <4>2. CASE T # {}
        <5>1. T \ {Element(T)} \in UpToSize(S, n - 1) /\ T \ {Element(T)} \in UpToSize(S, n)
          BY <4>2, <3>3, <3>5
        <5>2. h[T \ {Element(T)}] = g[T \ {Element(T)}]
          BY <5>1
        <5>3. h[T] = f[Element(T)] + g[T \ {Element(T)}]
          BY <3>2, <4>2
        <5> QED BY <4>2, <5>2, <5>3
      <4> QED BY <4>1, <4>2
    <3>8. h \in [UpToSize(S, n) -> Int]
      BY <3>6
    <3>9. upTo(n, h)
      BY <3>7, <3>8
    <3> HIDE DEF h
    <3> QED BY <2>3, <3>9
  <2> QED BY <2>4, <2>5
<1>3. PICK g : upTo(Cardinality(S), g)
  BY <1>1, <1>2
<1>4. UpToSize(S, Cardinality(S)) = SUBSET S
  BY <1>1 DEF UpToSize
<1>5. g = [T \in SUBSET S |-> IF T = {} THEN 0 ELSE f[Element(T)] + g[T \ {Element(T)}]]
  BY <1>3, <1>4
<1> QED BY <1>5 DEF SumTable

LEMMA SumsIsTable ==
    ASSUME NEW S, IsFiniteSet(S), NEW f, \A x \in S : f[x] \in Int
    PROVE  SumTable(f, S, Sums(f, S))
<1>1. PICK g : SumTable(f, S, g)
  BY SumTableExists
<1>2. Sums(f, S) = CHOOSE g_ : SumTable(f, S, g_)
  BY DEF Sums, SumTable, Element
<1> QED BY <1>1, <1>2

\* Every subset sums to an integer, and to no less than any of its elements when none is negative.
LEMMA SumsAreInt ==
    ASSUME NEW S, IsFiniteSet(S), NEW f, \A x \in S : f[x] \in Int
    PROVE  \A T \in SUBSET S : Sums(f, S)[T] \in Int
<1> DEFINE sum == Sums(f, S)
           odd == {T \in SUBSET S : sum[T] \notin Int}
           sizes == {Cardinality(T) : T \in odd}
<1>1. SumTable(f, S, sum)
  BY SumsIsTable
<1>2. \A T \in SUBSET S : sum[T] = IF T = {} THEN 0 ELSE f[Element(T)] + sum[T \ {Element(T)}]
  BY <1>1 DEF SumTable
<1> HIDE DEF sum
<1>3. SUFFICES ASSUME odd # {} PROVE FALSE
  BY DEF sum
<1>4. sizes \in SUBSET Nat /\ sizes # {}
  BY <1>3, FS_Subset, FS_CardinalityType
<1>5. PICK n \in sizes : \A m \in sizes : n <= m
  BY <1>4, LeastNumber
<1>6. PICK T \in odd : Cardinality(T) = n
  BY <1>5
<1>7. T # {}
  <2>1. sum[{}] = 0
    BY <1>2
  <2> QED BY <1>6, <2>1
<1>8. /\ Element(T) \in T /\ T \ {Element(T)} \in SUBSET S
      /\ Cardinality(T) \in Nat \ {0} /\ Cardinality(T \ {Element(T)}) = Cardinality(T) - 1
  BY <1>6, <1>7, WithoutElement
<1>9. T \ {Element(T)} \notin odd
  <2>1. SUFFICES ASSUME T \ {Element(T)} \in odd PROVE FALSE
    OBVIOUS
  <2>2. Cardinality(T \ {Element(T)}) \in sizes
    BY <2>1
  <2> HIDE DEF sizes
  <2> QED BY <1>5, <1>6, <1>8, <2>2
<1>10. sum[T] = f[Element(T)] + sum[T \ {Element(T)}] /\ f[Element(T)] \in Int
  BY <1>2, <1>6, <1>7, <1>8
<1>11. sum[T \ {Element(T)}] \in Int
  BY <1>8, <1>9
<1> QED BY <1>6, <1>10, <1>11

LEMMA SumsAreNat ==
    ASSUME NEW S, IsFiniteSet(S), NEW f, \A x \in S : f[x] \in Nat
    PROVE  \A T \in SUBSET S : Sums(f, S)[T] \in Nat /\ \A x \in T : f[x] <= Sums(f, S)[T]
<1> DEFINE sum == Sums(f, S)
           odd == {T \in SUBSET S : ~(sum[T] \in Nat /\ \A x \in T : f[x] <= sum[T])}
           sizes == {Cardinality(T) : T \in odd}
<1>1. SumTable(f, S, sum)
  BY SumsIsTable
<1>2. \A T \in SUBSET S : sum[T] = IF T = {} THEN 0 ELSE f[Element(T)] + sum[T \ {Element(T)}]
  BY <1>1 DEF SumTable
<1> HIDE DEF sum
<1>3. SUFFICES ASSUME odd # {} PROVE FALSE
  BY DEF sum
<1>4. sizes \in SUBSET Nat /\ sizes # {}
  BY <1>3, FS_Subset, FS_CardinalityType
<1>5. PICK n \in sizes : \A m \in sizes : n <= m
  BY <1>4, LeastNumber
<1>6. PICK T \in odd : Cardinality(T) = n
  BY <1>5
<1>7. T # {}
  <2>1. sum[{}] = 0
    BY <1>2
  <2> QED BY <1>6, <2>1
<1>8. /\ Element(T) \in T /\ T \ {Element(T)} \in SUBSET S
      /\ Cardinality(T) \in Nat \ {0} /\ Cardinality(T \ {Element(T)}) = Cardinality(T) - 1
  BY <1>6, <1>7, WithoutElement
<1> DEFINE rest == T \ {Element(T)}
<1>9. rest \notin odd
  <2>1. SUFFICES ASSUME rest \in odd PROVE FALSE
    OBVIOUS
  <2>2. Cardinality(rest) \in sizes
    BY <2>1
  <2> HIDE DEF sizes
  <2> QED BY <1>5, <1>6, <1>8, <2>2
<1>10. sum[T] = f[Element(T)] + sum[rest] /\ f[Element(T)] \in Nat
  BY <1>2, <1>6, <1>7, <1>8
<1>11. sum[rest] \in Nat /\ \A x \in rest : f[x] <= sum[rest]
  BY <1>8, <1>9
<1>12. \A x \in T : x = Element(T) \/ x \in rest
  OBVIOUS
<1>13. \A x \in T : f[x] \in Nat
  BY <1>6
<1> HIDE DEF rest
<1>14. sum[T] \in Nat
  BY <1>10, <1>11
<1>15. \A x \in T : f[x] <= sum[T]
  BY <1>10, <1>11, <1>12, <1>13
<1> QED BY <1>6, <1>14, <1>15

\* Whichever element is set apart, the rest sums to the same.
LEMMA SumSplits ==
    ASSUME NEW S, IsFiniteSet(S), NEW f, \A x \in S : f[x] \in Int
    PROVE  \A T \in SUBSET S : \A x \in T : Sums(f, S)[T] = f[x] + Sums(f, S)[T \ {x}]
<1> DEFINE sum == Sums(f, S)
           odd == {T \in SUBSET S : ~\A x \in T : sum[T] = f[x] + sum[T \ {x}]}
           sizes == {Cardinality(T) : T \in odd}
<1>1. SumTable(f, S, sum) /\ \A T \in SUBSET S : sum[T] \in Int
  BY SumsIsTable, SumsAreInt
<1>2. \A T \in SUBSET S : sum[T] = IF T = {} THEN 0 ELSE f[Element(T)] + sum[T \ {Element(T)}]
  BY <1>1 DEF SumTable
<1> HIDE DEF sum
<1>3. SUFFICES ASSUME odd # {} PROVE FALSE
  BY DEF sum
<1>4. sizes \in SUBSET Nat /\ sizes # {}
  BY <1>3, FS_Subset, FS_CardinalityType
<1>5. PICK n \in sizes : \A m \in sizes : n <= m
  BY <1>4, LeastNumber
<1>6. PICK T \in odd : Cardinality(T) = n
  BY <1>5
<1>7. PICK x \in T : sum[T] # f[x] + sum[T \ {x}]
  BY <1>6
<1>8. T \in SUBSET S /\ T # {}
  BY <1>6, <1>7
<1> DEFINE e == Element(T)
<1>9. /\ e \in T /\ T \ {e} \in SUBSET S /\ IsFiniteSet(T)
      /\ Cardinality(T) \in Nat \ {0} /\ Cardinality(T \ {e}) = Cardinality(T) - 1
  BY <1>8, WithoutElement
<1>10. sum[T] = f[e] + sum[T \ {e}]
  BY <1>2, <1>8
<1> HIDE DEF e
<1>11. x # e
  BY <1>7, <1>10
<1>12. Cardinality(T \ {x}) = Cardinality(T) - 1 /\ T \ {x} \in SUBSET S
  BY <1>7, <1>8, <1>9, FS_RemoveElement
<1>13. ASSUME NEW U \in SUBSET S, Cardinality(U) = Cardinality(T) - 1 PROVE U \notin odd
  <2>1. SUFFICES ASSUME U \in odd PROVE FALSE
    OBVIOUS
  <2>2. Cardinality(U) \in sizes
    BY <2>1
  <2> HIDE DEF sizes
  <2> QED BY <1>5, <1>6, <1>9, <1>13, <2>2
<1>14. sum[T \ {e}] = f[x] + sum[(T \ {e}) \ {x}]
  BY <1>7, <1>9, <1>11, <1>13
<1>15. sum[T \ {x}] = f[e] + sum[(T \ {x}) \ {e}]
  BY <1>9, <1>11, <1>12, <1>13
<1>16. (T \ {e}) \ {x} = (T \ {x}) \ {e} /\ (T \ {e}) \ {x} \in SUBSET S
  BY <1>8
<1>17. f[e] \in Int /\ f[x] \in Int /\ sum[(T \ {e}) \ {x}] \in Int
  BY <1>1, <1>7, <1>8, <1>9, <1>16 DEF sum
<1> DEFINE both == sum[(T \ {e}) \ {x}]
<1>18. sum[T] = f[e] + (f[x] + both) /\ sum[T \ {x}] = f[e] + both
  BY <1>10, <1>14, <1>15, <1>16
<1>19. both \in Int
  BY <1>17
<1> HIDE DEF both
<1>20. f[e] + (f[x] + both) = f[x] + (f[e] + both)
  BY <1>17, <1>19
<1> QED BY <1>7, <1>18, <1>20

\* A part of what is not negative sums to no more than the whole.
LEMMA SumsGrow ==
    ASSUME NEW S, IsFiniteSet(S), NEW f, \A x \in S : f[x] \in Nat
    PROVE  \A U \in SUBSET S : \A T \in SUBSET U : Sums(f, S)[T] <= Sums(f, S)[U]
<1> DEFINE sum == Sums(f, S)
           odd == {U \in SUBSET S : ~\A T \in SUBSET U : sum[T] <= sum[U]}
           sizes == {Cardinality(U) : U \in odd}
<1>1. \A T \in SUBSET S : sum[T] \in Nat /\ \A x \in T : sum[T] = f[x] + sum[T \ {x}]
  BY SumsAreNat, SumSplits
<1> HIDE DEF sum
<1>3. SUFFICES ASSUME odd # {} PROVE FALSE
  BY DEF sum
<1>4. sizes \in SUBSET Nat /\ sizes # {}
  BY <1>3, FS_Subset, FS_CardinalityType
<1>5. PICK n \in sizes : \A m \in sizes : n <= m
  BY <1>4, LeastNumber
<1>6. PICK U \in odd : Cardinality(U) = n
  BY <1>5
<1>7. PICK T \in SUBSET U : ~(sum[T] <= sum[U])
  BY <1>6
<1>8. PICK x \in U : x \notin T
  <2>1. sum[U] \in Nat
    BY <1>1, <1>6
  <2>2. T # U
    BY <1>7, <2>1
  <2> QED BY <1>7, <2>2
<1>9. U \ {x} \in SUBSET S /\ T \in SUBSET (U \ {x}) /\ U \in SUBSET S
  BY <1>6, <1>7, <1>8
<1>10. /\ IsFiniteSet(U) /\ Cardinality(U) \in Nat
       /\ Cardinality(U \ {x}) = Cardinality(U) - 1
  BY <1>8, <1>9, FS_Subset, FS_CardinalityType, FS_RemoveElement
<1>11. U \ {x} \notin odd
  <2>1. SUFFICES ASSUME U \ {x} \in odd PROVE FALSE
    OBVIOUS
  <2>2. Cardinality(U \ {x}) \in sizes
    BY <2>1
  <2> HIDE DEF sizes
  <2> QED BY <1>5, <1>6, <1>10, <2>2
<1>12. sum[T] <= sum[U \ {x}]
  BY <1>9, <1>11
<1>13. sum[U] = f[x] + sum[U \ {x}] /\ f[x] \in Nat
  BY <1>1, <1>8, <1>9
<1>14. sum[T] \in Nat /\ sum[U \ {x}] \in Nat /\ sum[U] \in Nat
  <2>1. T \in SUBSET S
    BY <1>9
  <2> QED BY <1>1, <1>9, <2>1
<1> QED BY <1>7, <1>12, <1>13, <1>14

\* What is nowhere above a bound sums to no more than the bound, once for each.
LEMMA SumsAreUnder ==
    ASSUME NEW S, IsFiniteSet(S), NEW f, NEW most \in Int, \A x \in S : f[x] \in Int /\ f[x] <= most
    PROVE  Sums(f, S)[S] <= Cardinality(S) * most
<1> DEFINE sum == Sums(f, S)
           odd == {T \in SUBSET S : ~(sum[T] <= Cardinality(T) * most)}
           sizes == {Cardinality(T) : T \in odd}
<1>1. SumTable(f, S, sum) /\ \A T \in SUBSET S : sum[T] \in Int
  BY SumsIsTable, SumsAreInt
<1>2. \A T \in SUBSET S : sum[T] = IF T = {} THEN 0 ELSE f[Element(T)] + sum[T \ {Element(T)}]
  BY <1>1 DEF SumTable
<1> HIDE DEF sum
<1>3. SUFFICES ASSUME odd # {} PROVE FALSE
  BY DEF sum
<1>4. sizes \in SUBSET Nat /\ sizes # {}
  BY <1>3, FS_Subset, FS_CardinalityType
<1>5. PICK n \in sizes : \A m \in sizes : n <= m
  BY <1>4, LeastNumber
<1>6. PICK T \in odd : Cardinality(T) = n
  BY <1>5
<1>7. T # {}
  <2>1. sum[{}] = 0 /\ Cardinality({}) = 0
    BY <1>2, FS_EmptySet
  <2> QED BY <1>6, <2>1
<1>8. /\ Element(T) \in T /\ T \ {Element(T)} \in SUBSET S
      /\ Cardinality(T) \in Nat \ {0} /\ Cardinality(T \ {Element(T)}) = Cardinality(T) - 1
  BY <1>6, <1>7, WithoutElement
<1> DEFINE rest == T \ {Element(T)}
<1>9. rest \notin odd
  <2>1. SUFFICES ASSUME rest \in odd PROVE FALSE
    OBVIOUS
  <2>2. Cardinality(rest) \in sizes
    BY <2>1
  <2> HIDE DEF sizes
  <2> QED BY <1>5, <1>6, <1>8, <2>2
<1>10. sum[T] = f[Element(T)] + sum[rest] /\ f[Element(T)] \in Int /\ f[Element(T)] <= most
  BY <1>2, <1>6, <1>7, <1>8
<1>11. sum[rest] <= Cardinality(rest) * most /\ sum[rest] \in Int /\ sum[T] \in Int
  BY <1>1, <1>6, <1>8, <1>9 DEF sum
<1>12. Cardinality(rest) * most = Cardinality(T) * most - most
  <2>1. \A k \in Nat \ {0} : (k - 1) * most = k * most - most
    OBVIOUS
  <2> QED BY <1>8, <2>1
<1>13. Cardinality(T) * most \in Int
  BY <1>8
<1> HIDE DEF rest
<1>14. sum[T] <= Cardinality(T) * most
  BY <1>10, <1>11, <1>12, <1>13
<1> QED BY <1>6, <1>14

LEMMA TotalIsInt ==
    ASSUME NEW S, IsFiniteSet(S), NEW f, \A x \in S : f[x] \in Int
    PROVE  Total(f, S) \in Int
BY SumsAreInt DEF Total

LEMMA TotalIsNat ==
    ASSUME NEW S, IsFiniteSet(S), NEW f, \A x \in S : f[x] \in Nat
    PROVE  Total(f, S) \in Nat /\ \A x \in S : f[x] <= Total(f, S)
BY SumsAreNat DEF Total

LEMMA MinOfTwo ==
    ASSUME NEW a \in Int, NEW b \in Int
    PROVE  Min({a, b}) = IF a <= b THEN a ELSE b
<1>1. \E x \in {a, b} : \A y \in {a, b} : x <= y
  BY Z3
<1>2. Min({a, b}) \in {a, b} /\ \A y \in {a, b} : Min({a, b}) <= y
  BY <1>1 DEF Min
<1> QED BY <1>2

LEMMA MaxOfTwo ==
    ASSUME NEW a \in Int, NEW b \in Int
    PROVE  Max({a, b}) = IF a >= b THEN a ELSE b
<1>1. \E x \in {a, b} : \A y \in {a, b} : x >= y
  BY Z3
<1>2. Max({a, b}) \in {a, b} /\ \A y \in {a, b} : Max({a, b}) >= y
  BY <1>1 DEF Max
<1> QED BY <1>2

LEMMA ClipIsBetween ==
    ASSUME NEW x \in Int, NEW lo \in Int, NEW hi \in Int, lo <= hi
    PROVE  Clip(x, lo, hi) \in lo..hi
<1>1. Max({x, lo}) \in Int /\ Max({x, lo}) >= lo
  BY MaxOfTwo
<1>2. Min({Max({x, lo}), hi}) = IF Max({x, lo}) <= hi THEN Max({x, lo}) ELSE hi
  BY <1>1, MinOfTwo
<1> QED BY <1>1, <1>2 DEF Clip

-----------------------------------------------------------------------------
(* Campaigns                                                                *)

CampaignSpec == CampaignsInit /\ [][CampaignsNext]_campaignVars

\* The stages on record are the first ones, a run under way was accepted under
\* the policy of the campaign, and the dictionary has its keys.
CampaignInv ==
    /\ {"results", "policy"} \subseteq DOMAIN campaign /\ "policy" \in DOMAIN orch
    /\ \A t \in Done, s \in StageNumbers : s < t => s \in Done
    /\ Done \subseteq StageNumbers
    /\ running # {} => campaign.policy \in {"", orch.policy}

\* What a step may do to the stages on record.
Resumed ==
    /\ \A s \in Done : s \in DOMAIN campaign'.results /\ campaign'.results[s] = campaign.results[s]
    /\ \A s \in DOMAIN campaign'.results \ Done :
          campaign.policy # "" => campaign'.results[s].policy = campaign.policy
    /\ \A s, t \in DOMAIN campaign'.results : s < t /\ t \in Done => s \in Done

LEMMA CampaignStart == CampaignsInit => CampaignInv
<1> SUFFICES ASSUME CampaignsInit PROVE CampaignInv
  OBVIOUS
<1>1. {"results", "policy"} \subseteq DOMAIN campaign /\ "policy" \in DOMAIN orch
  BY DEF CampaignsInit, NewOrchestrator
<1>2. campaign.results = <<>> /\ running = {}
  BY DEF CampaignsInit
<1>3. Done = {}
  BY <1>2 DEF Done
<1> QED BY <1>1, <1>2, <1>3 DEF CampaignInv

\* A step that leaves the results alone.
LEMMA ResultsStay ==
    ASSUME CampaignInv, campaign'.results = campaign.results
    PROVE  Resumed
BY DEF CampaignInv, Resumed, Done

LEMMA StartResumes ==
    ASSUME CampaignInv, NEW o, "policy" \in DOMAIN o, NEW last, StartRun(o, last)
    PROVE  CampaignInv' /\ Resumed
<1>1. campaign' = campaign /\ orch' = o /\ campaign.policy \in {"", o.policy}
  BY DEF StartRun, Accepts
<1> QED BY <1>1, ResultsStay DEF CampaignInv, Done

LEMMA BuiltKeeps ==
    ASSUME NEW s, "policy" \in DOMAIN orch
    PROVE  Built(s).policy = orch.policy /\ "policy" \in DOMAIN Built(s)
BY DEF Built

\* The next stage is the first one missing; what it adds was earned under this run's policy.
LEMMA StageResumes ==
    ASSUME CampaignInv, NEW s \in StageNumbers, RunStage(s)
    PROVE  CampaignInv' /\ Resumed
<1>1. PICK survivors :
         campaign' = [campaign EXCEPT !.results =
                         With(@, s, [items |-> Filtered(Generated(s)), survivors |-> survivors,
                                     policy |-> orch.policy, dataset |-> orch.dataset])]
  BY DEF RunStage
<1>2. PICK x : x = [items |-> Filtered(Generated(s)), survivors |-> survivors,
                    policy |-> orch.policy, dataset |-> orch.dataset]
  OBVIOUS
<1>3. x.policy = orch.policy
  BY <1>2
<1>4. PICK f : f = With(campaign.results, s, x)
  OBVIOUS
<1>5. campaign' = [campaign EXCEPT !.results = f]
  BY <1>1, <1>2, <1>4
<1>6. DOMAIN campaign' = DOMAIN campaign /\ campaign'.results = f /\ campaign'.policy = campaign.policy
  BY <1>5 DEF CampaignInv
<1>7. /\ DOMAIN f = Done \cup {s} /\ f[s] = x
      /\ \A t \in Done : t # s => f[t] = campaign.results[t]
  BY <1>4 DEF With, Done
<1>8. /\ s \notin Done /\ \A t \in StageNumbers : t < s => t \in Done
      /\ running # {} /\ running' = running /\ orch' = Built(s)
  BY DEF RunStage, StageToRun, NextStages, StageNumbers
<1>9. campaign.policy \in {"", orch.policy} /\ "policy" \in DOMAIN orch
  BY <1>8 DEF CampaignInv
<1>10. orch'.policy = orch.policy /\ "policy" \in DOMAIN orch'
  BY <1>8, <1>9, BuiltKeeps
<1>11. CampaignInv'
  BY <1>6, <1>7, <1>8, <1>9, <1>10 DEF CampaignInv, Done
<1>12. Resumed
  BY <1>3, <1>6, <1>7, <1>8, <1>9 DEF CampaignInv, Resumed, Done
<1> QED BY <1>11, <1>12

LEMMA CampaignKeeps ==
    ASSUME CampaignInv, [CampaignsNext]_campaignVars
    PROVE  CampaignInv' /\ Resumed
<1>1. ASSUME NEW p \in Policies, NEW d \in Datasets, NEW last \in {2, 5}, StartRun(NewOrchestrator(p, d), last)
      PROVE  CampaignInv' /\ Resumed
  <2>1. "policy" \in DOMAIN NewOrchestrator(p, d)
    BY DEF NewOrchestrator
  <2> QED BY <1>1, <2>1, StartResumes
<1>2. CASE StartRun(orch, 5)
  BY <1>2, StartResumes DEF CampaignInv
<1>3. ASSUME NEW s \in StageNumbers, RunStage(s)
      PROVE  CampaignInv' /\ Resumed
  BY <1>3, StageResumes
<1>4. ASSUME NEW s \in StageNumbers, StageRaises(s)
      PROVE  CampaignInv' /\ Resumed
  <2>1. campaign' = campaign /\ running' = {} /\ "policy" \in DOMAIN orch'
    BY <1>4, BuiltKeeps DEF StageRaises, CampaignInv
  <2> QED BY <2>1, ResultsStay DEF CampaignInv, Done
<1>5. CASE FinishRun
  <2>1. campaign'.results = campaign.results /\ DOMAIN campaign' = DOMAIN campaign /\ running' = {} /\ orch' = orch
    BY <1>5 DEF FinishRun, CampaignInv
  <2> QED BY <2>1, ResultsStay DEF CampaignInv, Done
<1>6. CASE UNCHANGED campaignVars
  BY <1>6, ResultsStay DEF campaignVars, CampaignInv, Done
<1> QED BY <1>1, <1>2, <1>3, <1>4, <1>5, <1>6 DEF CampaignsNext

\* orchestrator.run_campaign: for any space, budget, number of runs and order of failing stages, a
\* completed stage is never run again or lost, stages complete in order, and once a run has finished
\* no stage earned under another policy joins the campaign.
THEOREM CampaignResumes == CampaignSpec => CampaignIsResumable
<1>1. CampaignInv /\ [CampaignsNext]_campaignVars =>
        [/\ \A s \in Done : s \in DOMAIN campaign'.results /\ campaign'.results[s] = campaign.results[s]
         /\ \A s \in DOMAIN campaign'.results \ Done :
               campaign.policy # "" => campaign'.results[s].policy = campaign.policy
         /\ \A s, t \in DOMAIN campaign'.results : s < t /\ t \in Done => s \in Done]_campaignVars
  BY CampaignKeeps DEF Resumed
<1> QED BY <1>1, CampaignStart, CampaignKeeps, PTL DEF CampaignSpec, CampaignIsResumable

-----------------------------------------------------------------------------
(* Tester runs                                                              *)

TesterSpec == TesterInit /\ [][TesterNext]_testerVars

Place == ToSet(Places)
Report == [of : Nat, part : {"empty", "rows", "whole"}]
ErrorText == {"", "refused", "timed_out", "report_gate", "report_not_found"}
Outcome == [ok : BOOLEAN, error : ErrorText, timedOut : BOOLEAN, at : SUBSET Place, report : SUBSET Report,
            dir : Nat, pending : BOOLEAN]
TerminalOf == [up : BOOLEAN, of : Nat, dir : Nat, writes : SUBSET Place, pieces : Nat]

TesterTypeOK ==
    /\ shelf \in [Place -> SUBSET Report]
    /\ terminal \in TerminalOf
    /\ late \in SUBSET TerminalOf
    /\ runner \in [pc : {"idle", "wait", "search"}]
    /\ outcomes \in Seq(Outcome)

\* A run of this number was judged while its terminal, started in this directory, had more to write.
Pending(n, dir) == n \in 1..Len(outcomes) /\ outcomes[n].pending /\ outcomes[n].dir = dir

\* While the runner waits or searches, a place it could clear holds nothing but what the terminal of
\* this run wrote, or a terminal that was still writing when its run was judged; in the run
\* directory, one that had the same.
Cleared ==
    runner.pc # "idle" =>
        /\ terminal.of = Len(outcomes) + 1 /\ terminal.dir # 0
        /\ \A p \in Place : p = OwnDir \/ p \notin Uncleanable =>
              \A r \in shelf[p] : \/ r.of = terminal.of
                                  \/ \E dir \in Nat : Pending(r.of, dir) /\ (p = OwnDir => dir = terminal.dir)

\* Whoever writes after the run it belongs to was pending when that run was judged.
LateArePending ==
    /\ \A t \in late : Pending(t.of, t.dir)
    /\ runner.pc = "idle" /\ terminal.writes # {} => Pending(terminal.of, terminal.dir)

Truthful(o, n) ==
    /\ o.ok <=> o.error = ""
    /\ o.ok => ~o.timedOut
    /\ o.ok => \E r \in o.report : r.part # "empty" /\ (r.of = n \/ Astray(o, r, n))

AllTruthful == \A n \in 1..Len(outcomes) : Truthful(outcomes[n], n)

TesterInv == TesterTypeOK /\ Cleared /\ LateArePending /\ AllTruthful

LEMMA OwnDirIsPlace == OwnDir \in Place
BY PlacesAssumption DEF OwnDir, Place, ToSet

LEMMA TesterStart == TesterInit => TesterInv
<1> SUFFICES ASSUME TesterInit PROVE TesterInv
  OBVIOUS
<1>1. outcomes = <<>> /\ outcomes \in Seq(Outcome)
  BY DEF TesterInit
<1>2. TesterTypeOK
  BY <1>1 DEF TesterInit, TesterTypeOK, NoTerminal, Place, TerminalOf
<1>3. terminal.writes = {} /\ late = {} /\ runner.pc = "idle"
  BY DEF TesterInit, NoTerminal
<1> QED BY <1>1, <1>2, <1>3 DEF TesterInv, Cleared, LateArePending, AllTruthful

\* A run ends with an outcome that is true of it; what was pending stays on record.
LEMMA Ended ==
    ASSUME TesterInv, NEW o \in Outcome, Truthful(o, Len(outcomes) + 1),
           outcomes' = Append(outcomes, o)
    PROVE  /\ outcomes' \in Seq(Outcome) /\ AllTruthful'
           /\ Len(outcomes') = Len(outcomes) + 1 /\ outcomes'[Len(outcomes) + 1] = o
           /\ \A n, dir : Pending(n, dir) => Pending(n, dir)'
<1>1. outcomes \in Seq(Outcome) /\ Len(outcomes) \in Nat
  BY DEF TesterInv, TesterTypeOK
<1>2. /\ outcomes' \in Seq(Outcome) /\ Len(outcomes') = Len(outcomes) + 1
      /\ outcomes'[Len(outcomes) + 1] = o
      /\ \A n \in 1..Len(outcomes) : outcomes'[n] = outcomes[n]
  BY <1>1
<1>3. ASSUME NEW n \in 1..(Len(outcomes) + 1), NEW r, NEW q, Astray(q, r, n) PROVE Astray(q, r, n)'
  <2>1. CASE q.at \cap Uncleanable # {}
    BY <2>1 DEF Astray
  <2>2. CASE r.of \in 1..(n - 1) /\ outcomes[r.of].pending /\ (q.at = {OwnDir} => outcomes[r.of].dir = q.dir)
    <3>1. outcomes'[r.of] = outcomes[r.of]
      BY <1>1, <1>2, <2>2
    <3> QED BY <2>2, <3>1 DEF Astray, OwnDir
  <2> QED BY <1>3, <2>1, <2>2 DEF Astray
<1>4. ASSUME NEW n \in 1..Len(outcomes') PROVE Truthful(outcomes[n], n)'
  <2>1. /\ n \in 1..(Len(outcomes) + 1)
        /\ Truthful(outcomes'[n], n)
    <3>1. CASE n \in 1..Len(outcomes)
      BY <1>2, <3>1 DEF TesterInv, AllTruthful
    <3>2. CASE n = Len(outcomes) + 1
      BY <1>2, <3>2
    <3> QED BY <1>1, <1>2, <3>1, <3>2
  <2>2. PICK q : q = outcomes'[n]
    OBVIOUS
  <2>3. Truthful(q, n)
    BY <2>1, <2>2
  <2>4. \A r : Astray(q, r, n) => Astray(q, r, n)'
    BY <1>3, <2>1
  <2>5. Truthful(q, n)'
    BY <2>3, <2>4 DEF Truthful
  <2> QED BY <2>2, <2>5 DEF Truthful, Astray
<1>5. ASSUME NEW n, NEW dir, Pending(n, dir) PROVE Pending(n, dir)'
  BY <1>1, <1>2, <1>5 DEF Pending
<1> QED BY <1>2, <1>4, <1>5 DEF AllTruthful

\* A step of the terminal or of the search that ends no run.
LEMMA NoneEnded ==
    ASSUME TesterInv, outcomes' = outcomes, TesterTypeOK', Cleared', LateArePending'
    PROVE  TesterInv'
BY DEF TesterInv, AllTruthful, Truthful, Astray

LEMMA LaunchClears ==
    ASSUME TesterInv, Launch
    PROVE  TesterInv'
<1>1. TesterTypeOK /\ LateArePending
  BY DEF TesterInv
<1>2. PICK place \in {{}} \cup {{p} : p \in ToSet(Places)}, dir \in Dirs :
         terminal' = [up |-> TRUE, of |-> Len(outcomes) + 1, dir |-> dir, writes |-> place, pieces |-> 0]
  BY DEF Launch, Starts
<1>3. place \in SUBSET Place /\ Len(outcomes) \in Nat /\ dir \in Nat /\ dir # 0
  <2>1. \A n \in 1..Len(outcomes) : outcomes[n].dir \in Nat
    <3>1. \A n \in 1..Len(outcomes) : outcomes[n] \in Outcome
      BY <1>1 DEF TesterTypeOK
    <3>2. \A o \in Outcome : o.dir \in Nat
      BY DEF Outcome
    <3> QED BY <3>1, <3>2
  <2>2. Len(outcomes) \in Nat /\ DOMAIN outcomes = 1..Len(outcomes)
    BY <1>1 DEF TesterTypeOK
  <2> QED BY <1>1, <1>2, <2>1, <2>2 DEF Place, Dirs
<1>4. shelf' = [p \in Place |-> IF p # OwnDir /\ p \in Uncleanable THEN shelf[p] ELSE {}]
  BY <1>1 DEF Launch, TesterTypeOK
<1>5. /\ outcomes' = outcomes /\ runner.pc = "idle" /\ runner' = [pc |-> "wait"]
      /\ late' = IF terminal.writes = {} THEN late ELSE late \cup {terminal}
  BY DEF Launch, Starts
<1>6. TesterTypeOK'
  <2>1. terminal' \in TerminalOf
    BY <1>2, <1>3 DEF TerminalOf
  <2>2. late' \in SUBSET TerminalOf
    BY <1>1, <1>5 DEF TesterTypeOK
  <2> QED BY <1>1, <1>4, <1>5, <2>1, <2>2 DEF TesterTypeOK
<1>7. Cleared'
  BY <1>2, <1>3, <1>4, <1>5 DEF Cleared
<1>8. LateArePending'
  <2>1. \A t \in late' : Pending(t.of, t.dir)
    BY <1>1, <1>5 DEF LateArePending
  <2>2. runner'.pc # "idle"
    BY <1>5
  <2> QED BY <1>5, <2>1, <2>2 DEF LateArePending, Pending
<1> QED BY <1>5, <1>6, <1>7, <1>8, NoneEnded

\* What terminal t writes: a report that is its own, where it has one to write.
LEMMA OneReport ==
    ASSUME TesterTypeOK, NEW t \in TerminalOf, Writes(t)
    PROVE  /\ \E place \in Place, r \in Report :
                 /\ r.of = t.of
                 /\ shelf' = IF place = OwnDir /\ t.dir # terminal.dir THEN shelf ELSE [shelf EXCEPT ![place] = {r}]
           /\ Rest(t) \in TerminalOf /\ Rest(t).of = t.of /\ Rest(t).dir = t.dir
           /\ Rest(t).writes # {} => t.writes # {}
           /\ shelf' \in [Place -> SUBSET Report]
           /\ runner' = runner /\ outcomes' = outcomes
<1>1. PICK place \in t.writes, x \in {"empty", "rows", "whole"} :
         shelf' = IF place = OwnDir /\ t.dir # terminal.dir THEN shelf
                  ELSE [shelf EXCEPT ![place] = {[of |-> t.of, part |-> x]}]
  BY DEF Writes
<1>2. place \in Place /\ [of |-> t.of, part |-> x] \in Report
  BY <1>1 DEF TerminalOf, Report
<1>3. PICK r \in Report : r = [of |-> t.of, part |-> x]
  BY <1>2
<1>4. r.of = t.of /\ shelf' = IF place = OwnDir /\ t.dir # terminal.dir THEN shelf ELSE [shelf EXCEPT ![place] = {r}]
  BY <1>1, <1>3
<1>5. /\ Rest(t) \in TerminalOf /\ Rest(t).of = t.of /\ Rest(t).dir = t.dir
      /\ Rest(t).writes # {} => t.writes # {}
  <2>1. PICK w : w = IF t.pieces = 1 THEN {} ELSE t.writes
    OBVIOUS
  <2>2. w \in SUBSET Place /\ (w # {} => t.writes # {})
    BY <2>1 DEF TerminalOf
  <2>3. PICK n \in Nat : n = t.pieces + 1
    BY DEF TerminalOf
  <2>4. Rest(t) = [t EXCEPT !.pieces = n, !.writes = w]
    BY <2>1, <2>3 DEF Rest
  <2> QED BY <2>2, <2>4 DEF TerminalOf
<1>6. shelf' \in [Place -> SUBSET Report]
  BY <1>2, <1>3, <1>4 DEF TesterTypeOK
<1> QED BY <1>2, <1>4, <1>5, <1>6 DEF Writes

LEMMA WriteClears ==
    ASSUME TesterInv, WritePiece
    PROVE  TesterInv'
<1>1. TesterTypeOK /\ Cleared /\ LateArePending /\ terminal \in TerminalOf /\ Writes(terminal)
  BY DEF TesterInv, TesterTypeOK, WritePiece
<1>2. PICK place \in Place, r \in Report :
         /\ r.of = terminal.of
         /\ shelf' = IF place = OwnDir /\ terminal.dir # terminal.dir THEN shelf ELSE [shelf EXCEPT ![place] = {r}]
  BY <1>1, OneReport
<1>3. shelf' = [shelf EXCEPT ![place] = {r}]
  BY <1>2
<1>4. /\ terminal' \in TerminalOf /\ terminal'.of = terminal.of /\ terminal'.dir = terminal.dir
      /\ terminal'.writes # {} => terminal.writes # {}
      /\ shelf' \in [Place -> SUBSET Report]
      /\ runner' = runner /\ outcomes' = outcomes /\ late' = late
  BY <1>1, OneReport DEF WritePiece
<1>5. TesterTypeOK'
  BY <1>1, <1>4 DEF TesterTypeOK
<1>6. Cleared'
  <2>1. shelf \in [Place -> SUBSET Report]
    BY <1>1 DEF TesterTypeOK
  <2> QED BY <1>1, <1>2, <1>3, <1>4, <2>1 DEF Cleared, Pending, OwnDir
<1>7. LateArePending'
  BY <1>1, <1>4 DEF LateArePending, Pending
<1> QED BY <1>4, <1>5, <1>6, <1>7, NoneEnded

\* What an earlier terminal writes late is of a run that was judged while it was still to come.
LEMMA LateClears ==
    ASSUME TesterInv, LateWrites
    PROVE  TesterInv'
<1>1. TesterTypeOK /\ Cleared /\ LateArePending
  BY DEF TesterInv
<1>2. PICK t \in late : Writes(t) /\ late' = (late \ {t}) \cup {r \in {Rest(t)} : r.writes # {}}
  BY DEF LateWrites
<1>3. t \in TerminalOf /\ Pending(t.of, t.dir) /\ t.dir \in Nat
  BY <1>1, <1>2 DEF TesterTypeOK, LateArePending, TerminalOf
<1>4. PICK place \in Place, r \in Report :
         /\ r.of = t.of
         /\ shelf' = IF place = OwnDir /\ t.dir # terminal.dir THEN shelf ELSE [shelf EXCEPT ![place] = {r}]
  BY <1>1, <1>2, <1>3, OneReport
<1>5. /\ Rest(t) \in TerminalOf /\ Rest(t).of = t.of /\ Rest(t).dir = t.dir
      /\ shelf' \in [Place -> SUBSET Report]
      /\ runner' = runner /\ outcomes' = outcomes
  BY <1>1, <1>2, <1>3, OneReport
<1>6. terminal' = terminal
  BY DEF LateWrites
<1>7. TesterTypeOK'
  BY <1>1, <1>2, <1>5, <1>6 DEF TesterTypeOK
<1>8. Cleared'
  <2>1. shelf \in [Place -> SUBSET Report]
    BY <1>1 DEF TesterTypeOK
  <2>2. CASE shelf' = shelf
    BY <1>1, <1>5, <1>6, <2>2 DEF Cleared, Pending, OwnDir
  <2>3. CASE shelf' = [shelf EXCEPT ![place] = {r}] /\ (place = OwnDir => t.dir = terminal.dir)
    BY <1>1, <1>3, <1>4, <1>5, <1>6, <2>1, <2>3 DEF Cleared, Pending, OwnDir
  <2> QED BY <1>4, <2>2, <2>3
<1>9. LateArePending'
  <2>1. \A s \in late' : Pending(s.of, s.dir)
    BY <1>1, <1>2, <1>3, <1>5 DEF LateArePending
  <2> QED BY <1>1, <1>5, <1>6, <2>1 DEF LateArePending, Pending
<1> QED BY <1>5, <1>7, <1>8, <1>9, NoneEnded

LEMMA TerminalStopsClears ==
    ASSUME TesterInv, TerminalExits \/ TerminalDies \/ SeeExit
    PROVE  TesterInv'
<1>1. TesterTypeOK /\ Cleared /\ LateArePending
  BY DEF TesterInv
<1>2. /\ terminal'.of = terminal.of /\ terminal'.dir = terminal.dir /\ terminal' \in TerminalOf
      /\ terminal'.writes # {} => terminal.writes # {}
      /\ outcomes' = outcomes /\ shelf' = shelf /\ late' = late
  BY <1>1 DEF TerminalExits, TerminalDies, SeeExit, TesterTypeOK, TerminalOf
<1>3. runner' \in [pc : {"idle", "wait", "search"}] /\ (runner'.pc # "idle" <=> runner.pc # "idle")
  BY <1>1 DEF TerminalExits, TerminalDies, SeeExit, TesterTypeOK
<1>4. TesterTypeOK' /\ Cleared' /\ LateArePending'
  BY <1>1, <1>2, <1>3 DEF TesterTypeOK, Cleared, LateArePending, Pending, OwnDir
<1> QED BY <1>2, <1>4, NoneEnded

\* A run that ends leaves its own terminal on record as pending if that has more to write.
LEMMA EndedPending ==
    ASSUME TesterInv, NEW o \in Outcome, outcomes' = Append(outcomes, o), Truthful(o, Len(outcomes) + 1),
           runner'.pc = "idle", late' = late, TesterTypeOK',
           terminal'.writes # {} => Pending(terminal'.of, terminal'.dir) \/
              (terminal'.of = Len(outcomes) + 1 /\ terminal'.dir = o.dir /\ o.pending)
    PROVE  TesterInv'
<1>1. TesterTypeOK /\ LateArePending /\ Len(outcomes) \in Nat
  BY DEF TesterInv, TesterTypeOK
<1>2. /\ AllTruthful' /\ Len(outcomes') = Len(outcomes) + 1 /\ outcomes'[Len(outcomes) + 1] = o
      /\ \A n, dir : Pending(n, dir) => Pending(n, dir)'
  BY Ended
<1>3. PICK n, dir : n = Len(outcomes) + 1 /\ dir = o.dir
  OBVIOUS
<1>4. o.pending => Pending(n, dir)'
  <2>1. n \in 1..Len(outcomes') /\ outcomes'[n] = o
    BY <1>1, <1>2, <1>3
  <2> QED BY <1>3, <2>1 DEF Pending
<1>5. Cleared'
  BY DEF Cleared
<1>6. LateArePending'
  <2>1. \A t \in late' : Pending(t.of, t.dir)'
    BY <1>1, <1>2 DEF LateArePending
  <2>2. ASSUME terminal'.writes # {} PROVE Pending(terminal.of, terminal.dir)'
    <3>1. PICK m, d : m = terminal'.of /\ d = terminal'.dir
      OBVIOUS
    <3>2. Pending(m, d) \/ (m = n /\ d = dir /\ o.pending)
      BY <1>3, <2>2, <3>1
    <3>3. Pending(m, d)'
      BY <1>2, <1>4, <3>2
    <3> QED BY <3>1, <3>3 DEF Pending
  <2> QED BY <2>1, <2>2 DEF LateArePending, Pending
<1> QED BY <1>2, <1>5, <1>6 DEF TesterInv

\* A run that ends badly: refused, timed out, or without a report.
LEMMA BadEndClears ==
    ASSUME TesterInv, RefuseLaunch \/ TimeOut \/ GraceLapses
    PROVE  TesterInv'
<1>1. TesterTypeOK /\ Cleared /\ LateArePending /\ terminal.dir \in Nat /\ terminal \in TerminalOf
  BY DEF TesterInv, TesterTypeOK, TerminalOf
<1>2. PICK error \in ErrorText, timedOut \in BOOLEAN, dir \in Nat :
        /\ error # "" /\ outcomes' = Append(outcomes, Ends(error, timedOut, dir))
        /\ \/ RefuseLaunch
           \/ TimeOut
           \/ GraceLapses /\ dir = terminal.dir /\ ~timedOut
  <2>1. CASE RefuseLaunch
    BY <2>1 DEF RefuseLaunch, ErrorText
  <2>2. CASE TimeOut
    BY <1>1, <2>2 DEF TimeOut, Finished, ErrorText
  <2>3. CASE GraceLapses
    BY <1>1, <2>3 DEF GraceLapses, Finished, ErrorText
  <2> QED BY <2>1, <2>2, <2>3
<1>3. PICK o : o = Ends(error, timedOut, dir)
  OBVIOUS
<1>4. /\ o \in Outcome /\ o.error # "" /\ ~o.ok /\ o.dir = dir
      /\ o.pending <=> dir # 0 /\ ~timedOut /\ terminal.writes # {}
  <2>1. PICK p \in BOOLEAN : p <=> (dir # 0 /\ ~timedOut /\ terminal.writes # {})
    OBVIOUS
  <2>2. o = [ok |-> FALSE, error |-> error, timedOut |-> timedOut, at |-> {}, report |-> {}, dir |-> dir, pending |-> p]
    BY <1>3, <2>1 DEF Ends
  <2> QED BY <1>2, <2>1, <2>2 DEF Outcome
<1>5. Truthful(o, Len(outcomes) + 1)
  BY <1>4 DEF Truthful
<1>6. outcomes' = Append(outcomes, o) /\ outcomes' \in Seq(Outcome)
  BY <1>2, <1>3, <1>4, <1>5, Ended
<1>7. /\ terminal' \in TerminalOf
      /\ runner' = [pc |-> "idle"] /\ shelf' = shelf /\ late' = late
  BY <1>1 DEF RefuseLaunch, TimeOut, GraceLapses, Finished, TesterTypeOK, TerminalOf
<1>8. TesterTypeOK'
  BY <1>1, <1>6, <1>7 DEF TesterTypeOK
<1>9. terminal'.writes # {} => \/ Pending(terminal'.of, terminal'.dir)
                               \/ terminal'.of = Len(outcomes) + 1 /\ terminal'.dir = o.dir /\ o.pending
  <2>1. CASE RefuseLaunch
    BY <1>1, <2>1 DEF RefuseLaunch, LateArePending
  <2>2. CASE TimeOut
    BY <1>1, <2>2 DEF TimeOut, TerminalOf
  <2>3. CASE GraceLapses /\ dir = terminal.dir /\ ~timedOut
    BY <1>1, <1>4, <2>3 DEF GraceLapses, Cleared
  <2> QED BY <1>2, <2>1, <2>2, <2>3
<1>10. runner'.pc = "idle"
  BY <1>7
<1> QED BY <1>4, <1>5, <1>6, <1>7, <1>8, <1>9, <1>10, EndedPending

\* A report that is found in a place that was cleared is this run's own, or of a run that was judged
\* before its terminal had done.
LEMMA FoundClears ==
    ASSUME TesterInv, Found
    PROVE  TesterInv'
<1>1. TesterTypeOK /\ Cleared /\ Len(outcomes) \in Nat /\ terminal \in TerminalOf /\ terminal.dir \in Nat
  BY DEF TesterInv, TesterTypeOK, TerminalOf
<1>2. PICK k \in Holding : \E report \in shelf[Places[k]] :
         LET passes == report.part # "empty"
         IN  /\ shelf' = [shelf EXCEPT ![OwnDir] = {report}]
             /\ Finished([Ends(IF passes THEN "" ELSE "report_gate", FALSE, terminal.dir) EXCEPT
                             !.ok = passes, !.at = {Places[k]}, !.report = {report}])
  BY DEF Found
<1>3. PICK report \in shelf[Places[k]] :
         LET passes == report.part # "empty"
         IN  /\ shelf' = [shelf EXCEPT ![OwnDir] = {report}]
             /\ Finished([Ends(IF passes THEN "" ELSE "report_gate", FALSE, terminal.dir) EXCEPT
                             !.ok = passes, !.at = {Places[k]}, !.report = {report}])
  BY <1>2
<1>4. Places[k] \in Place /\ report \in Report
  BY <1>1, <1>2, <1>3 DEF Holding, Place, ToSet, TesterTypeOK
<1>5. runner.pc = "search" /\ terminal' = terminal /\ late' = late
  BY DEF Found
<1>6. Places[k] = OwnDir \/ Places[k] \notin Uncleanable =>
         \/ report.of = Len(outcomes) + 1
         \/ Pending(report.of, terminal.dir)
         \/ Places[k] # OwnDir /\ \E dir \in Nat : Pending(report.of, dir)
  BY <1>1, <1>3, <1>4, <1>5 DEF Cleared
<1>7. PICK o : /\ o \in Outcome /\ outcomes' = Append(outcomes, o)
               /\ o.dir = terminal.dir /\ (o.pending <=> terminal.dir # 0 /\ terminal.writes # {})
               /\ o.at = {Places[k]} /\ o.report = {report} /\ ~o.timedOut
               /\ (o.ok <=> o.error = "") /\ (o.ok => report.part # "empty")
  <2>1. {Places[k]} \in SUBSET Place /\ {report} \in SUBSET Report
    BY <1>4
  <2>2. PICK p \in BOOLEAN : p <=> (terminal.dir # 0 /\ ~FALSE /\ terminal.writes # {})
    OBVIOUS
  <2>3. PICK passes \in BOOLEAN : passes <=> report.part # "empty"
    OBVIOUS
  <2>4. PICK error \in ErrorText : error = (IF report.part # "empty" THEN "" ELSE "report_gate")
    BY DEF ErrorText
  <2>5. PICK e : e = Ends(error, FALSE, terminal.dir)
    OBVIOUS
  <2>6. /\ e \in Outcome /\ e.dir = terminal.dir /\ (e.pending <=> terminal.dir # 0 /\ terminal.writes # {})
        /\ e.error = error /\ ~e.timedOut
    <3>1. e = [ok |-> FALSE, error |-> error, timedOut |-> FALSE, at |-> {}, report |-> {}, dir |-> terminal.dir, pending |-> p]
      BY <2>2, <2>5 DEF Ends
    <3> QED BY <1>1, <2>2, <2>4, <3>1 DEF Outcome
  <2>7. PICK o : o = [e EXCEPT !.ok = passes, !.at = {Places[k]}, !.report = {report}]
    OBVIOUS
  <2>8. /\ o \in Outcome /\ o.dir = e.dir /\ (o.pending <=> e.pending) /\ o.error = e.error
        /\ (o.timedOut <=> e.timedOut) /\ (o.ok <=> passes) /\ o.at = {Places[k]} /\ o.report = {report}
    BY <2>1, <2>3, <2>6, <2>7 DEF Outcome
  <2>9. outcomes' = Append(outcomes, o)
    BY <1>3, <2>3, <2>4, <2>5, <2>7 DEF Finished
  <2> QED BY <2>3, <2>4, <2>6, <2>8, <2>9
<1>8. Truthful(o, Len(outcomes) + 1)
  <2>1. report.of = Len(outcomes) + 1 \/ Astray(o, report, Len(outcomes) + 1)
    <3>1. CASE Places[k] # OwnDir /\ Places[k] \in Uncleanable
      BY <1>7, <3>1 DEF Astray
    <3>2. CASE Pending(report.of, terminal.dir)
      <4>1. report.of \in 1..(Len(outcomes) + 1 - 1)
        BY <1>1, <3>2 DEF Pending
      <4>2. outcomes[report.of].pending /\ outcomes[report.of].dir = o.dir
        BY <1>7, <3>2 DEF Pending
      <4> QED BY <4>1, <4>2 DEF Astray
    <3>3. CASE Places[k] # OwnDir /\ \E dir \in Nat : Pending(report.of, dir)
      <4>1. report.of \in 1..(Len(outcomes) + 1 - 1)
        BY <1>1, <3>3 DEF Pending
      <4>2. outcomes[report.of].pending /\ o.at # {OwnDir}
        BY <1>7, <3>3 DEF Pending
      <4> QED BY <4>1, <4>2 DEF Astray
    <3> QED BY <1>6, <3>1, <3>2, <3>3
  <2> QED BY <1>7, <2>1 DEF Truthful
<1>9. runner' = [pc |-> "idle"] /\ shelf' = [shelf EXCEPT ![OwnDir] = {report}]
  BY <1>3 DEF Finished
<1>10. TesterTypeOK'
  <2>1. outcomes' \in Seq(Outcome)
    BY <1>7, <1>8, Ended
  <2> QED BY <1>1, <1>4, <1>5, <1>9, <2>1 DEF TesterTypeOK
<1>11. terminal'.writes # {} => /\ terminal'.of = Len(outcomes) + 1 /\ terminal'.dir = o.dir /\ o.pending
  BY <1>1, <1>5, <1>7 DEF Cleared
<1>12. runner'.pc = "idle"
  BY <1>9
<1> QED BY <1>5, <1>7, <1>8, <1>10, <1>11, <1>12, EndedPending

\* mt5tester.run_backtest: for any places, any number of runs and terminals that exit, die, write late,
\* even during a later run, or not at all: an ok leg has a report with rows and a terminal that was not
\* killed; the report is the run's own unless it lay where nothing can be deleted or came from a terminal
\* that was still writing when its run was judged; a leg that is not ok says why.
THEOREM OutcomesAreTruthful == TesterSpec => []OutcomeIsTruthful
<1>1. TesterInv /\ [TesterNext]_testerVars => TesterInv'
  <2>1. TesterInv /\ UNCHANGED testerVars => TesterInv'
    <3> SUFFICES ASSUME TesterInv, UNCHANGED testerVars PROVE TesterInv'
      OBVIOUS
    <3>1. /\ shelf' = shelf /\ terminal' = terminal /\ late' = late /\ runner' = runner /\ outcomes' = outcomes
          /\ TesterTypeOK /\ Cleared /\ LateArePending
      BY DEF testerVars, TesterInv
    <3>2. TesterTypeOK'
      BY <3>1 DEF TesterTypeOK
    <3>3. Cleared'
      BY <3>1 DEF Cleared, Pending, OwnDir
    <3>4. LateArePending'
      BY <3>1 DEF LateArePending, Pending
    <3> QED BY <3>1, <3>2, <3>3, <3>4, NoneEnded
  <2> QED BY <2>1, LaunchClears, WriteClears, LateClears, TerminalStopsClears, BadEndClears, FoundClears DEF TesterNext
<1>2. TesterInv => OutcomeIsTruthful
  <2> SUFFICES ASSUME TesterInv, NEW n \in DOMAIN outcomes
               PROVE  /\ outcomes[n].ok = (outcomes[n].error = "")
                      /\ outcomes[n].ok => ~outcomes[n].timedOut
                      /\ outcomes[n].ok => \E r \in outcomes[n].report :
                            r.part # "empty" /\ (r.of = n \/ Astray(outcomes[n], r, n))
    BY DEF OutcomeIsTruthful
  <2>1. n \in 1..Len(outcomes) /\ outcomes[n] \in Outcome
    BY DEF TesterInv, TesterTypeOK
  <2>2. Truthful(outcomes[n], n)
    BY <2>1 DEF TesterInv, AllTruthful
  <2>3. outcomes[n].ok \in BOOLEAN
    BY <2>1 DEF Outcome
  <2> QED BY <2>2, <2>3 DEF Truthful
<1> QED BY <1>1, <1>2, TesterStart, PTL DEF TesterSpec

-----------------------------------------------------------------------------
(* The owner's phone, with the console and its authorities running beside it *)

OperatorNext == PhoneNext \/ (AuthorityNext /\ UNCHANGED phoneVars)
OperatorSpec == PhoneInit /\ AuthorityInit /\ [][OperatorNext]_<<phoneVars, authorityVars>>

IsStop(u) == u.allowed /\ u.word = "stop"

\* An update below the offset was handled; what comes before an update in hand
\* is below the offset or in hand too.
InboxInv ==
    /\ sent \in Nat /\ offset \in 0..sent + 1
    /\ \A u \in pending : u.id \in 1..sent
    /\ \A u, v \in pending : u.id = v.id => u = v
    /\ batch \subseteq pending
    /\ \A u \in pending : u.id < offset /\ IsStop(u) => u.id \in everApplied
    /\ \A u \in pending, v \in batch : u.id < v.id => u.id < offset \/ u \in batch

SwitchInv ==
    /\ DOMAIN switch = Processes
    /\ handled # {} => switch["phone"] = "EMERGENCY_HALT"

Kept == \A u \in pending \ pending' : IsStop(u) => u.id \in everApplied'

LEMMA OperatorStart == PhoneInit /\ AuthorityInit => InboxInv /\ SwitchInv
BY DEF PhoneInit, AuthorityInit, InboxInv, SwitchInv

LEMMA SendKeeps ==
    ASSUME InboxInv, NEW word, NEW allowed, OwnerSends(word, allowed)
    PROVE  InboxInv' /\ Kept
<1>1. PICK new : new = [id |-> sent + 1, word |-> word, allowed |-> allowed]
  OBVIOUS
<1>2. new.id = sent + 1
  BY <1>1
<1>3. /\ pending' = pending \cup {new} /\ sent' = sent + 1 /\ batch' = batch
      /\ offset' = offset /\ everApplied' = everApplied
  BY <1>1 DEF OwnerSends
<1>4. sent' \in Nat /\ offset' \in 0..sent' + 1 /\ (\A u \in pending' : u.id \in 1..sent')
      /\ (\A u, v \in pending' : u.id = v.id => u = v) /\ batch' \subseteq pending'
  BY <1>2, <1>3 DEF InboxInv
<1>5. \A u \in pending' : u.id < offset' => u \in pending
  BY <1>2, <1>3 DEF InboxInv
<1>6. \A u \in pending', v \in batch' : u.id < v.id => u \in pending
  BY <1>2, <1>3 DEF InboxInv
<1> QED BY <1>3, <1>4, <1>5, <1>6 DEF InboxInv, Kept

LEMMA GetKeeps ==
    ASSUME InboxInv, GetUpdates
    PROVE  InboxInv' /\ Kept
<1>1. /\ pending' = {u \in pending : u.id >= offset} /\ batch' = pending' /\ sent' = sent
      /\ offset' = offset /\ everApplied' = everApplied
  BY DEF GetUpdates, Unconfirmed
<1>2. Kept
  BY <1>1 DEF InboxInv, Kept
<1> QED BY <1>1, <1>2 DEF InboxInv

\* The earliest update in hand is handled, and with it everything up to it.
LEMMA HandleKeeps ==
    ASSUME InboxInv, SwitchInv, NEW u \in batch, NEW raises \in BOOLEAN, HandleUpdate(u, raises)
    PROVE  InboxInv' /\ SwitchInv' /\ Kept
<1>1. /\ u \in pending /\ u.id \in 1..sent /\ \A v \in batch : u.id <= v.id
      /\ pending' = pending /\ sent' = sent
  BY DEF HandleUpdate, First, InboxInv
<1>2. offset' = IF offset >= u.id + 1 THEN offset ELSE u.id + 1
  BY <1>1, MaxOfTwo DEF HandleUpdate, InboxInv
<1>3. everApplied \subseteq everApplied' /\ (IsStop(u) => u.id \in everApplied')
  BY DEF HandleUpdate, Answered, Commands, IsStop
<1>4. batch' \subseteq batch \ {u}
  BY DEF HandleUpdate
<1>5. \A v \in pending : v.id < offset' => v.id < offset \/ v = u
  BY <1>1, <1>2 DEF InboxInv
<1>6. \A v \in pending : v.id < offset' /\ IsStop(v) => v.id \in everApplied'
  BY <1>3, <1>5 DEF InboxInv
<1>7. batch' = {} \/ batch' = batch \ {u}
  BY DEF HandleUpdate
<1>8. \A v \in pending, w \in batch' : v.id < w.id => v.id < offset' \/ v \in batch'
  BY <1>1, <1>2, <1>7 DEF InboxInv
<1>9. InboxInv'
  BY <1>1, <1>2, <1>4, <1>6, <1>8 DEF InboxInv
<1>10. SwitchInv'
  BY DEF HandleUpdate, SetSwitch, SwitchInv, Processes
<1> QED BY <1>1, <1>9, <1>10 DEF Kept

LEMMA SwitchKeeps ==
    ASSUME SwitchInv, handled' = handled, NEW p \in Processes, NEW s, SetSwitch(p, s),
           p = "phone" /\ switch["phone"] = "EMERGENCY_HALT" => s = "EMERGENCY_HALT"
    PROVE  SwitchInv'
BY DEF SwitchInv, SetSwitch

LEMMA EvaluateKeeps ==
    ASSUME SwitchInv, handled' = handled, NEW p \in Processes, NEW t, Evaluate(p, t)
    PROVE  SwitchInv'
BY SwitchKeeps DEF Evaluate, Evaluated

LEMMA OperatorKeeps ==
    ASSUME InboxInv, SwitchInv, [OperatorNext]_<<phoneVars, authorityVars>>
    PROVE  InboxInv' /\ SwitchInv' /\ Kept
<1>1. ASSUME NEW w \in Words, NEW a \in BOOLEAN, OwnerSends(w, a), UNCHANGED authorityVars
      PROVE  InboxInv' /\ SwitchInv' /\ Kept
  BY <1>1, SendKeeps DEF OwnerSends, authorityVars, SwitchInv
<1>2. CASE GetUpdates /\ UNCHANGED authorityVars
  BY <1>2, GetKeeps DEF GetUpdates, authorityVars, SwitchInv
<1>3. ASSUME UNCHANGED <<pending, sent, offset, batch, handled, everApplied, switch>>
      PROVE  InboxInv' /\ SwitchInv' /\ Kept
  BY <1>3 DEF InboxInv, SwitchInv, Kept
<1>4. ASSUME NEW kinds, WatchdogCheck(kinds), UNCHANGED authorityVars
      PROVE  InboxInv' /\ SwitchInv' /\ Kept
  BY <1>3, <1>4 DEF WatchdogCheck, authorityVars
<1>5. CASE (Ticks \/ SendDigest \/ TradeEvent) /\ UNCHANGED authorityVars
  BY <1>3, <1>5 DEF Ticks, SendDigest, TradeEvent, authorityVars
<1>6. ASSUME NEW u \in batch, NEW raises \in BOOLEAN, HandleUpdate(u, raises)
      PROVE  InboxInv' /\ SwitchInv' /\ Kept
  BY <1>6, HandleKeeps
<1>7. CASE PhoneRestarts /\ RestartProcess("phone")
  BY <1>7 DEF PhoneRestarts, RestartProcess, SetSwitch, InboxInv, SwitchInv, Kept, Processes
<1>8. ASSUME UNCHANGED phoneVars, NEW p \in Processes, NEW t, Evaluate(p, t)
      PROVE  InboxInv' /\ SwitchInv' /\ Kept
  <2>1. SwitchInv'
    BY <1>8, EvaluateKeeps DEF phoneVars
  <2> QED BY <1>8, <2>1 DEF phoneVars, InboxInv, Kept
<1>9. CASE (KillswitchReset \/ RestartProcess("console")) /\ UNCHANGED phoneVars
  <2>1. SwitchInv'
    BY <1>9, SwitchKeeps DEF phoneVars, KillswitchReset, RestartProcess, Processes
  <2> QED BY <1>9, <2>1 DEF phoneVars, InboxInv, Kept
<1>10. CASE (BreakerReset \/ Rebalance \/ AskEntry) /\ UNCHANGED phoneVars
  BY <1>3, <1>10 DEF BreakerReset, Rebalance, AskEntry, phoneVars
<1>11. CASE UNCHANGED <<phoneVars, authorityVars>>
  BY <1>3, <1>11 DEF phoneVars, authorityVars
<1> QED BY <1>1, <1>2, <1>4, <1>5, <1>6, <1>7, <1>8, <1>9, <1>10, <1>11
        DEF OperatorNext, PhoneNext, AuthorityNext, Processes

\* telegram_ops.poll_forever and on_command: for any number of messages, failing replies, restarts of
\* the polling process and switches of the console in between, an owner's stop that Telegram no longer
\* holds was applied, and the process that applied it is halted.
THEOREM StopNotLost == OperatorSpec => StopIsNotLost
<1>1. SwitchInv => (handled # {} => switch["phone"] = "EMERGENCY_HALT")
  BY DEF SwitchInv
<1>2. InboxInv /\ SwitchInv /\ [OperatorNext]_<<phoneVars, authorityVars>> =>
        [\A u \in pending \ pending' : u.allowed /\ u.word = "stop" => u.id \in everApplied'
        ]_<<phoneVars, authorityVars>>
  BY OperatorKeeps DEF Kept, IsStop
<1> QED BY <1>1, <1>2, OperatorStart, OperatorKeeps, PTL DEF OperatorSpec, StopIsNotLost

-----------------------------------------------------------------------------
(* The authorities                                                          *)

AuthorityInv ==
    /\ DOMAIN switch = Processes
    /\ {"frozen", "cooldown", "lastSafe"} = DOMAIN breaker
    /\ entry = NoEntry \/ \E e : entry = GovernEntry(e)
    /\ DemotedIsZero

\* What a step of the authorities or of the phone may do to a freeze and to a halt.
Bound ==
    /\ breaker.frozen /\ rebalances' # rebalances /\ breaker.cooldown > 0 =>
          applied'.weights = breaker.lastSafe /\ breaker'.frozen
    /\ \A p \in Processes : switch[p] = "EMERGENCY_HALT" /\ switch'[p] # "EMERGENCY_HALT" =>
          KillswitchReset \/ RestartProcess(p)

LEMMA LeastOfNine ==
    ASSUME NEW S, S \subseteq 1..9, S # {}
    PROVE  \E x \in S : \A y \in S : x <= y
<1> SUFFICES ASSUME \A x \in S : \E y \in S : y < x PROVE FALSE
  OBVIOUS
<1>1. 1 \notin S
  OBVIOUS
<1>2. 2 \notin S
  BY <1>1
<1>3. 3 \notin S
  BY <1>1, <1>2
<1>4. 4 \notin S
  BY <1>1, <1>2, <1>3
<1>5. 5 \notin S
  BY <1>1, <1>2, <1>3, <1>4
<1>6. 6 \notin S
  BY <1>1, <1>2, <1>3, <1>4, <1>5
<1>7. 7 \notin S
  BY <1>1, <1>2, <1>3, <1>4, <1>5, <1>6
<1>8. 8 \notin S
  BY <1>1, <1>2, <1>3, <1>4, <1>5, <1>6, <1>7
<1>9. 9 \notin S
  BY <1>1, <1>2, <1>3, <1>4, <1>5, <1>6, <1>7, <1>8
<1>10. PICK x \in S : TRUE
  OBVIOUS
<1>11. x \in 1..9
  OBVIOUS
<1>12. \/ x = 1 \/ x = 2 \/ x = 3 \/ x = 4 \/ x = 5 \/ x = 6 \/ x = 7 \/ x = 8 \/ x = 9
  BY <1>11
<1> QED BY <1>1, <1>2, <1>3, <1>4, <1>5, <1>6, <1>7, <1>8, <1>9, <1>12

\* The first layer that vetoes owns the refusal; an allowed entry has no veto.
LEMMA NoVeto ==
    ASSUME NEW e, VetoOwner(e) = "none"
    PROVE  \A k \in 1..9 : Chain(e)[k][2]
<1> DEFINE veto == {k \in DOMAIN Chain(e) : ~Chain(e)[k][2]}
<1>1. DOMAIN Chain(e) = 1..9
  BY DEF Chain
<1>2. \A k \in 1..9 : Chain(e)[k][1] # "none"
  BY DEF Chain
<1>3. SUFFICES ASSUME veto # {} PROVE FALSE
  BY <1>1
<1>4. veto \subseteq 1..9
  BY <1>1
<1>5. \E x \in veto : \A y \in veto : x <= y
  BY <1>3, <1>4, LeastOfNine
<1>6. Min(veto) \in veto
  BY <1>5 DEF Min
<1>7. VetoOwner(e) = Chain(e)[Min(veto)][1]
  BY <1>3 DEF VetoOwner
<1> QED BY <1>2, <1>4, <1>6, <1>7

LEMMA AuthorityStart == AuthorityInit => AuthorityInv
<1> SUFFICES ASSUME AuthorityInit PROVE AuthorityInv
  OBVIOUS
<1>1. advice.weights = <<>>
  BY DEF AuthorityInit
<1>2. DemotedIsZero
  BY <1>1 DEF DemotedIsZero
<1> QED BY <1>2 DEF AuthorityInit, AuthorityInv, NoEntry

\* A step that asks for no allocation and no entry.
LEMMA AuthorityRest ==
    ASSUME AuthorityInv, advice' = advice, entry' = entry \/ entry' = NoEntry,
           DOMAIN breaker' = {"frozen", "cooldown", "lastSafe"}, DOMAIN switch' = Processes
    PROVE  AuthorityInv'
BY DEF AuthorityInv, DemotedIsZero, NoEntry

\* A strategy that is not eligible is at zero in the governor's answer.
LEMMA RebalanceBinds ==
    ASSUME AuthorityInv, Rebalance
    PROVE  AuthorityInv' /\ Bound
<1>1. PICK cands \in [GovIds -> Candidates], explosion \in {0, MaxCandidates + 1} :
        LET answer == Recommend(cands, switch["console"], breaker.frozen,
                                [i \in GovIds |-> Held(breaker.lastSafe, i)])
            after == Reviewed(answer.weights, answer.gross, advice.gross, explosion)
        IN  /\ advice' = [status |-> answer.status, weights |-> answer.weights, gross |-> answer.gross,
                          facts |-> cands]
            /\ breaker' = after
            /\ applied' = [status |-> IF after.frozen \/ breaker.cooldown > 0
                                      THEN "FROZEN_KEEP_LAST_SAFE" ELSE "APPLIED",
                           weights |-> IF after.frozen \/ breaker.cooldown > 0
                                       THEN breaker.lastSafe ELSE answer.weights]
  BY DEF Rebalance
<1>2. PICK answer : answer = Recommend(cands, switch["console"], breaker.frozen,
                                       [i \in GovIds |-> Held(breaker.lastSafe, i)])
  OBVIOUS
<1>3. PICK after : after = Reviewed(answer.weights, answer.gross, advice.gross, explosion)
  OBVIOUS
<1>4. /\ advice' = [status |-> answer.status, weights |-> answer.weights, gross |-> answer.gross,
                    facts |-> cands]
      /\ breaker' = after
      /\ applied'.weights = IF after.frozen \/ breaker.cooldown > 0 THEN breaker.lastSafe ELSE answer.weights
  BY <1>1, <1>2, <1>3
<1>5. DOMAIN breaker = {"frozen", "cooldown", "lastSafe"}
  BY DEF AuthorityInv
<1>6. DOMAIN after = {"frozen", "cooldown", "lastSafe"} /\ (breaker.cooldown > 0 => after.frozen = breaker.frozen)
  BY <1>3, <1>5 DEF Reviewed
<1>7. \A i \in DOMAIN answer.weights : ~Eligible(cands[i]) => answer.weights[i] = 0
  <2>1. PICK prev : prev = [i \in GovIds |-> Held(breaker.lastSafe, i)]
    OBVIOUS
  <2>2. PICK worth : worth = Worth(cands, switch["console"], breaker.frozen)
    OBVIOUS
  <2>3. \/ answer.weights = <<>>
        \/ answer.weights = [i \in GovIds |-> DeltaCapped(cands[i], worth[i], prev[i])]
    BY <1>2, <2>1, <2>2 DEF Recommend
  <2>4. CASE answer.weights = <<>>
    BY <2>4
  <2>5. CASE answer.weights = [i \in GovIds |-> DeltaCapped(cands[i], worth[i], prev[i])]
    BY <2>5 DEF DeltaCapped
  <2> QED BY <2>3, <2>4, <2>5
<1>8. DemotedIsZero'
  BY <1>4, <1>7 DEF DemotedIsZero
<1>9. entry' = NoEntry /\ switch' = switch
  BY DEF Rebalance, Forget
<1> QED BY <1>4, <1>6, <1>8, <1>9 DEF AuthorityInv, Bound

LEMMA EntryBinds ==
    ASSUME AuthorityInv, AskEntry
    PROVE  AuthorityInv' /\ Bound
<1>1. \E e : entry' = GovernEntry(e)
  BY DEF AskEntry
<1>2. UNCHANGED <<switch, breaker, advice, applied, rebalances>>
  BY DEF AskEntry
<1> QED BY <1>1, <1>2 DEF AuthorityInv, DemotedIsZero, Bound

\* A process's switch takes a new state; a halt stays unless somebody resets it.
LEMMA SwitchBinds ==
    ASSUME AuthorityInv, NEW p \in Processes, NEW s, SetSwitch(p, s),
           switch[p] = "EMERGENCY_HALT" /\ s # "EMERGENCY_HALT" => KillswitchReset \/ RestartProcess(p),
           advice' = advice, entry' = entry \/ entry' = NoEntry,
           DOMAIN breaker' = {"frozen", "cooldown", "lastSafe"}, rebalances' = rebalances
    PROVE  AuthorityInv' /\ Bound
<1>1. DOMAIN switch' = Processes /\ (\A q \in Processes : q # p => switch'[q] = switch[q]) /\ switch'[p] = s
  BY DEF SetSwitch, AuthorityInv
<1>2. \A q \in Processes : switch[q] = "EMERGENCY_HALT" /\ switch'[q] # "EMERGENCY_HALT" => q = p
  BY <1>1
<1>3. Bound
  BY <1>1, <1>2 DEF Bound
<1> QED BY <1>1, <1>3, AuthorityRest

LEMMA AuthorityBinds ==
    ASSUME AuthorityInv, [OperatorNext]_<<phoneVars, authorityVars>>
    PROVE  AuthorityInv' /\ (UNCHANGED authorityVars \/ Bound)
<1>1. ASSUME NEW p \in Processes, NEW t, Evaluate(p, t)
      PROVE  AuthorityInv' /\ Bound
  BY <1>1, SwitchBinds DEF Evaluate, Evaluated, Forget, AuthorityInv
<1>2. CASE KillswitchReset
  BY <1>2, SwitchBinds DEF KillswitchReset, Forget, AuthorityInv, Processes
<1>3. ASSUME NEW p \in Processes, RestartProcess(p)
      PROVE  AuthorityInv' /\ Bound
  <2>1. DOMAIN breaker' = {"frozen", "cooldown", "lastSafe"}
    BY <1>3 DEF RestartProcess, AuthorityInv
  <2> QED BY <1>3, <2>1, SwitchBinds DEF RestartProcess, Forget
<1>4. CASE BreakerReset
  <2>1. /\ DOMAIN breaker' = {"frozen", "cooldown", "lastSafe"} /\ switch' = switch /\ rebalances' = rebalances
        /\ advice' = advice /\ entry' = NoEntry
    BY <1>4 DEF BreakerReset, Forget, AuthorityInv
  <2> QED BY <2>1, AuthorityRest DEF Bound, AuthorityInv
<1>5. ASSUME NEW u \in batch, NEW raises \in BOOLEAN, HandleUpdate(u, raises),
             UNCHANGED <<breaker, advice, applied, entry, rebalances, signals>>
      PROVE  AuthorityInv' /\ Bound
  <2>1. PICK s : s = IF Answered(u) /\ u.word = "stop" THEN "EMERGENCY_HALT" ELSE switch["phone"]
    OBVIOUS
  <2>2. SetSwitch("phone", s)
    BY <1>5, <2>1 DEF HandleUpdate
  <2>3. switch["phone"] = "EMERGENCY_HALT" => s = "EMERGENCY_HALT"
    BY <2>1
  <2> QED BY <1>5, <2>2, <2>3, SwitchBinds DEF AuthorityInv, Processes
<1>6. CASE UNCHANGED authorityVars
  BY <1>6 DEF authorityVars, AuthorityInv, DemotedIsZero
<1> QED BY <1>1, <1>2, <1>3, <1>4, <1>5, <1>6, RebalanceBinds, EntryBinds
        DEF OperatorNext, PhoneNext, AuthorityNext, Processes

\* The weights in force are whole percents, and so is what an entry was asked on.
WholeWeights(w) == \A i \in DOMAIN w : w[i] \in Int
WeightsInv ==
    /\ WholeWeights(breaker.lastSafe) /\ WholeWeights(applied.weights)
    /\ entry = NoEntry \/ \E e : entry = GovernEntry(e) /\ e.weight \in Int /\ e.risk \in Int

LEMMA SummedIsInt ==
    ASSUME NEW S, IsFiniteSet(S), NEW f, \A x \in S : f[x] \in Int
    PROVE  Summed(f, S) \in Int
<1>1. Summed(f, S) = Total(f, S)
  BY DEF Summed, Total, Sums
<1> QED BY <1>1, TotalIsInt

LEMMA SummedIsNat ==
    ASSUME NEW S, IsFiniteSet(S), NEW f, \A x \in S : f[x] \in Nat
    PROVE  Summed(f, S) \in Nat
<1>1. Summed(f, S) = Total(f, S)
  BY DEF Summed, Total, Sums
<1> QED BY <1>1, TotalIsNat

LEMMA DecayIsBand ==
    ASSUME NEW c \in Candidates
    PROVE  Decay(c) \in 0..100
<1> DEFINE counts == [s \in c.signals |-> IF s \in {"expectancy", "drawdown"} THEN 2 ELSE 1]
<1>1. \A s \in c.signals : counts[s] \in Nat
  OBVIOUS
<1> HIDE DEF counts
<1>2. Summed(counts, c.signals) \in Nat
  BY <1>1, GovernorAssumption, SummedIsNat
<1>3. Penalties(c) \in Nat
  BY <1>2 DEF Penalties, counts
<1>4. Len(Bands) = 5 /\ \A k \in 1..5 : Bands[k] \in 0..100
  BY DEF Bands
<1>5. Min({Penalties(c), 4}) \in 0..4
  <2>1. Penalties(c) \in Int /\ 4 \in Int
    BY <1>3
  <2>2. Min({Penalties(c), 4}) = IF Penalties(c) <= 4 THEN Penalties(c) ELSE 4
    BY <2>1, MinOfTwo
  <2> QED BY <1>3, <2>2
<1>6. Decay(c) = IF c.breach THEN Bands[5] ELSE IF c.trades < 10 THEN Bands[1]
                 ELSE Bands[Min({Penalties(c), 4}) + 1]
  BY <1>4 DEF Decay
<1> QED BY <1>4, <1>5, <1>6

LEMMA RampIsStep ==
    ASSUME NEW c, NEW haltOn, NEW frozen
    PROVE  Ramp(c, haltOn, frozen) \in 0..100
<1> DEFINE qualified == {k \in DOMAIN RampSteps : c.trades >= RampSteps[k][2] /\ c.dd <= RampSteps[k][3]}
           factor == IF qualified = {} THEN 0 ELSE RampSteps[Max(qualified)][1]
<1>1. DOMAIN RampSteps = 1..5 /\ \A k \in 1..5 : RampSteps[k][1] \in 0..100
  BY DEF RampSteps
<1>2. qualified \subseteq 1..5
  BY <1>1
<1> HIDE DEF qualified
<1>3. qualified # {} => Max(qualified) \in qualified
  <2>1. SUFFICES ASSUME qualified # {} PROVE \E x \in qualified : \A y \in qualified : x >= y
    BY DEF Max
  <2> DEFINE mirror == {5 - k : k \in qualified}
  <2>2. mirror \in SUBSET Nat /\ mirror # {}
    <3>1. \A k \in qualified : 5 - k \in Nat
      BY <1>2
    <3>2. PICK k \in qualified : TRUE
      BY <2>1
    <3>3. 5 - k \in mirror
      BY <3>2
    <3> QED BY <3>1, <3>3
  <2>3. PICK m \in mirror : \A n \in mirror : m <= n
    BY <2>2, LeastNumber
  <2>4. PICK x \in qualified : m = 5 - x
    BY <2>3
  <2>5. \A y \in qualified : 5 - x <= 5 - y
    BY <2>3, <2>4
  <2>6. \A y \in qualified : x >= y
    BY <1>2, <2>5
  <2> QED BY <2>6
<1>4. factor \in 0..100
  <2>1. CASE qualified = {}
    BY <2>1
  <2>2. CASE qualified # {}
    <3>1. Max(qualified) \in 1..5
      BY <1>2, <1>3, <2>2
    <3> HIDE DEF qualified
    <3>2. RampSteps[Max(qualified)][1] \in 0..100
      BY <1>1, <3>1
    <3> QED BY <2>2, <3>2
  <2> QED BY <2>1, <2>2
<1>5. Ramp(c, haltOn, frozen) = IF haltOn \/ frozen THEN 0 ELSE IF c.degraded THEN factor \div 2 ELSE factor
  BY DEF Ramp, qualified
<1> HIDE DEF factor
<1> QED BY <1>4, <1>5

LEMMA WorthIsInt ==
    ASSUME NEW cands \in [GovIds -> Candidates], NEW state, NEW frozen
    PROVE  \A i \in GovIds : Worth(cands, state, frozen)[i] \in Int
<1> DEFINE mult == [i \in GovIds |-> (Decay(cands[i]) * Ramp(cands[i], state # "NORMAL", frozen)) \div 100]
           raw == [i \in GovIds |->
                     IF Eligible(cands[i]) THEN (Max({cands[i].score, 0}) * mult[i]) \div 100 ELSE 0]
           share == [i \in GovIds |-> IF GrossOf(raw) > 0 THEN (raw[i] * GrossTarget) \div GrossOf(raw) ELSE 0]
<1>1. Worth(cands, state, frozen) = [i \in GovIds |-> Min({(share[i] * mult[i]) \div 100, GrossTarget})]
  BY DEF Worth
<1>2. GrossTarget \in Int /\ IsFiniteSet(GovIds) /\ \A c \in Candidates : c.score \in Int
  BY GovernorAssumption
<1>3. ASSUME NEW i \in GovIds PROVE mult[i] \in Int
  <2>1. Decay(cands[i]) \in Int
    BY DecayIsBand
  <2>2. Ramp(cands[i], state # "NORMAL", frozen) \in Int
    BY RampIsStep
  <2>3. Decay(cands[i]) * Ramp(cands[i], state # "NORMAL", frozen) \in Int
    BY <2>1, <2>2
  <2> QED BY <2>3
<1> HIDE DEF mult
<1>4. ASSUME NEW i \in GovIds PROVE raw[i] \in Int
  <2>1. cands[i].score \in Int /\ 0 \in Int
    BY <1>2
  <2> DEFINE m == Max({cands[i].score, 0})
  <2>2. m \in Int
    BY <2>1, MaxOfTwo
  <2> HIDE DEF m
  <2>3. m * mult[i] \in Int
    BY <1>3, <2>2
  <2>4. (m * mult[i]) \div 100 \in Int
    BY <2>3
  <2> QED BY <2>4 DEF m
<1> HIDE DEF raw
<1>5. GrossOf(raw) \in Int
  BY <1>2, <1>4, SummedIsInt DEF GrossOf
<1>6. ASSUME NEW i \in GovIds PROVE share[i] \in Int
  <2>1. raw[i] * GrossTarget \in Int
    BY <1>2, <1>4
  <2> QED BY <1>5, <2>1
<1> HIDE DEF share
<1>7. ASSUME NEW i \in GovIds PROVE Min({(share[i] * mult[i]) \div 100, GrossTarget}) \in Int
  <2>1. share[i] * mult[i] \in Int
    BY <1>3, <1>6
  <2>2. (share[i] * mult[i]) \div 100 \in Int
    BY <2>1
  <2> QED BY <1>2, <2>2, MinOfTwo
<1> QED BY <1>1, <1>7

LEMMA RebalanceIsWhole ==
    ASSUME AuthorityInv, WeightsInv, Rebalance
    PROVE  WeightsInv'
<1>1. PICK cands \in [GovIds -> Candidates], explosion \in {0, MaxCandidates + 1} :
        LET answer == Recommend(cands, switch["console"], breaker.frozen,
                                [i \in GovIds |-> Held(breaker.lastSafe, i)])
            after == Reviewed(answer.weights, answer.gross, advice.gross, explosion)
        IN  /\ breaker' = after
            /\ applied' = [status |-> IF after.frozen \/ breaker.cooldown > 0
                                      THEN "FROZEN_KEEP_LAST_SAFE" ELSE "APPLIED",
                           weights |-> IF after.frozen \/ breaker.cooldown > 0
                                       THEN breaker.lastSafe ELSE answer.weights]
  BY DEF Rebalance
<1>2. PICK prev : prev = [i \in GovIds |-> Held(breaker.lastSafe, i)]
  OBVIOUS
<1>3. PICK answer : answer = Recommend(cands, switch["console"], breaker.frozen, prev)
  OBVIOUS
<1>4. PICK after : after = Reviewed(answer.weights, answer.gross, advice.gross, explosion)
  OBVIOUS
<1>5. /\ breaker' = after
      /\ applied'.weights = IF after.frozen \/ breaker.cooldown > 0 THEN breaker.lastSafe ELSE answer.weights
  BY <1>1, <1>2, <1>3, <1>4
<1>6. \A i \in GovIds : prev[i] \in Int
  BY <1>2 DEF WeightsInv, WholeWeights, Held
<1>7. WholeWeights(answer.weights)
  <2>1. PICK worth : worth = Worth(cands, switch["console"], breaker.frozen)
    OBVIOUS
  <2>2. \A i \in GovIds : worth[i] \in Int
    BY <2>1, WorthIsInt
  <2>3. \/ answer.weights = <<>>
        \/ answer.weights = [i \in GovIds |-> DeltaCapped(cands[i], worth[i], prev[i])]
    BY <1>3, <2>1 DEF Recommend
  <2>4. \A i \in GovIds : DeltaCapped(cands[i], worth[i], prev[i]) \in Int
    BY <1>6, <2>2, GovernorAssumption DEF DeltaCapped
  <2> QED BY <2>3, <2>4 DEF WholeWeights
<1>8. DOMAIN breaker = {"frozen", "cooldown", "lastSafe"}
  BY DEF AuthorityInv
<1>9. after.lastSafe \in {breaker.lastSafe, answer.weights}
  BY <1>4, <1>8 DEF Reviewed
<1>10. WholeWeights(breaker'.lastSafe) /\ WholeWeights(applied'.weights)
  BY <1>5, <1>7, <1>9 DEF WeightsInv
<1>11. entry' = NoEntry
  BY DEF Rebalance, Forget
<1> QED BY <1>10, <1>11 DEF WeightsInv, WholeWeights

LEMMA EntryIsWhole ==
    ASSUME WeightsInv, AskEntry
    PROVE  WeightsInv'
<1>1. \E e : entry' = GovernEntry(e) /\ e.weight \in Int /\ e.risk \in Int
  <2>1. PICK i \in GovIds, c \in Candidates, missing \in {"none", "origin", "data", "regime", "portfolio", "risk"} :
          entry' = GovernEntry([origin |-> IF missing = "origin" THEN "llm" ELSE "strategy",
                                data |-> missing # "data", facts |-> c, regime |-> missing # "regime",
                                weight |-> Held(applied.weights, i), portfolio |-> missing # "portfolio",
                                risk |-> IF missing = "risk" THEN 0 ELSE 5,
                                frozen |-> breaker.frozen, state |-> switch["console"]])
    BY DEF AskEntry
  <2> DEFINE e == [origin |-> IF missing = "origin" THEN "llm" ELSE "strategy",
                   data |-> missing # "data", facts |-> c, regime |-> missing # "regime",
                   weight |-> Held(applied.weights, i), portfolio |-> missing # "portfolio",
                   risk |-> IF missing = "risk" THEN 0 ELSE 5,
                   frozen |-> breaker.frozen, state |-> switch["console"]]
  <2>2. e.weight = Held(applied.weights, i) /\ e.risk \in {0, 5}
    OBVIOUS
  <2>3. Held(applied.weights, i) \in Int
    BY DEF WeightsInv, WholeWeights, Held
  <2>4. entry' = GovernEntry(e)
    BY <2>1
  <2> HIDE DEF e
  <2> QED BY <2>2, <2>3, <2>4
<1>2. breaker' = breaker /\ applied' = applied
  BY DEF AskEntry
<1> QED BY <1>1, <1>2 DEF WeightsInv, WholeWeights

\* Every other step forgets the entry and leaves the weights, or leaves both.
LEMMA WeightsRest ==
    ASSUME WeightsInv, applied' = applied, entry' = entry \/ entry' = NoEntry,
           breaker'.lastSafe = breaker.lastSafe \/ breaker'.lastSafe = <<>>
    PROVE  WeightsInv'
<1>1. WholeWeights(breaker'.lastSafe) /\ WholeWeights(applied'.weights)
  BY DEF WeightsInv, WholeWeights
<1> QED BY <1>1 DEF WeightsInv, WholeWeights

LEMMA WeightsKeep ==
    ASSUME AuthorityInv, WeightsInv, [OperatorNext]_<<phoneVars, authorityVars>>
    PROVE  WeightsInv'
<1>1. ASSUME NEW p, NEW t, Evaluate(p, t) PROVE WeightsInv'
  BY <1>1, WeightsRest DEF Evaluate, Forget
<1>2. CASE KillswitchReset
  BY <1>2, WeightsRest DEF KillswitchReset, Forget
<1>3. ASSUME NEW p, RestartProcess(p) PROVE WeightsInv'
  <2>1. breaker'.lastSafe = breaker.lastSafe \/ breaker'.lastSafe = <<>>
    BY <1>3 DEF RestartProcess
  <2> QED BY <1>3, <2>1, WeightsRest DEF RestartProcess, Forget
<1>4. CASE BreakerReset
  <2>1. breaker'.lastSafe = breaker.lastSafe
    BY <1>4 DEF BreakerReset, AuthorityInv
  <2> QED BY <1>4, <2>1, WeightsRest DEF BreakerReset, Forget
<1>5. CASE UNCHANGED <<breaker, applied, entry>>
  BY <1>5, WeightsRest
<1>6. CASE UNCHANGED authorityVars
  BY <1>6, WeightsRest DEF authorityVars
<1> QED BY <1>1, <1>2, <1>3, <1>4, <1>5, <1>6, RebalanceIsWhole, EntryIsWhole
        DEF OperatorNext, PhoneNext, AuthorityNext

LEMMA WeightsStart == AuthorityInit => WeightsInv
<1> SUFFICES ASSUME AuthorityInit PROVE WeightsInv
  OBVIOUS
<1>1. breaker.lastSafe = <<>> /\ applied.weights = <<>> /\ entry = NoEntry
  BY DEF AuthorityInit
<1> QED BY <1>1 DEF WeightsInv, WholeWeights

LEMMA RiskIsWithinShare == WeightsInv => RiskWithinShare
<1> SUFFICES ASSUME WeightsInv, entry.allowed PROVE entry.risk <= entry.asked.weight * RiskBudget
  BY DEF RiskWithinShare
<1>1. entry # NoEntry
  <2>1. NoEntry.allowed = FALSE
    BY DEF NoEntry
  <2> QED BY <2>1, Zenon
<1>2. PICK e : entry = GovernEntry(e) /\ e.weight \in Int /\ e.risk \in Int
  BY <1>1 DEF WeightsInv
<1>3. PICK o, r, a : /\ o = VetoOwner(e) /\ a = (o = "none")
                     /\ r = (IF o \in {"none", "circuit-breaker", "kill-switch"} THEN ApprovedRisk(e) ELSE 0)
                     /\ entry = [asked |-> e, allowed |-> a, owner |-> o, risk |-> r]
  BY <1>2 DEF GovernEntry
<1>4. entry.asked = e /\ entry.allowed = a /\ entry.risk = r
  BY <1>3
<1>5. o = "none"
  BY <1>3, <1>4, Zenon
<1>6. r = ApprovedRisk(e)
  BY <1>3, <1>5
<1>7. 100 * e.risk \in Int /\ e.weight * RiskBudget \in Int
  BY <1>2, GovernorAssumption
<1> DEFINE x == 100 * e.risk
           y == e.weight * RiskBudget
<1>8. ApprovedRisk(e) = Min({x, y})
  BY DEF ApprovedRisk
<1> HIDE DEF x, y
<1>9. Min({x, y}) = IF x <= y THEN x ELSE y
  BY <1>7, MinOfTwo DEF x, y
<1>10. r <= y
  BY <1>6, <1>7, <1>8, <1>9 DEF x, y
<1> QED BY <1>4, <1>10 DEF y

\* safety.KillSwitch, governor.recommend, AllocationCircuitBreaker.review, entry_chain.govern_entry:
\* for any strategies, policies, triggers and order of events of console and phone: an allowed entry
\* has every authority behind it and its risk is within its weight's share of the budget, a strategy
\* that is not eligible is at zero in the next answer, a breaker that cools down keeps the last safe
\* weights, and a halt of a running process ends by a reset.
THEOREM AuthoritiesHold == OperatorSpec => AuthoritySound
<1>1. AuthorityInv => EntryNeedsEveryAuthority /\ DemotedIsZero
  <2> SUFFICES ASSUME AuthorityInv, entry.allowed
               PROVE  /\ entry.asked.state = "NORMAL" /\ ~entry.asked.frozen
                      /\ Eligible(entry.asked.facts) /\ entry.asked.origin = "strategy"
    BY DEF EntryNeedsEveryAuthority, AuthorityInv
  <2>1. PICK e : entry = GovernEntry(e)
    <3>1. NoEntry.allowed = FALSE
      BY DEF NoEntry
    <3>2. entry # NoEntry
      BY <3>1, Zenon
    <3> QED BY <3>2, Zenon DEF AuthorityInv
  <2>2. entry.asked = e /\ VetoOwner(e) = "none"
    <3>1. PICK o, r, a : o = VetoOwner(e) /\ a = (o = "none")
                         /\ entry = [asked |-> e, allowed |-> a, owner |-> o, risk |-> r]
      BY <2>1 DEF GovernEntry
    <3>2. entry.asked = e /\ entry.allowed = a
      BY <3>1
    <3>3. o = "none"
      BY <3>1, <3>2, Zenon
    <3> QED BY <3>1, <3>2, <3>3, Zenon
  <2>3. \A k \in 1..9 : Chain(e)[k][2]
    BY <2>2, NoVeto
  <2>4. Chain(e)[1][2] /\ Chain(e)[3][2] /\ Chain(e)[8][2] /\ Chain(e)[9][2]
    BY <2>3
  <2>5. /\ Chain(e)[1][2] <=> e.origin = "strategy"
        /\ Chain(e)[3][2] <=> Eligible(e.facts)
        /\ Chain(e)[8][2] <=> ~e.frozen
        /\ Chain(e)[9][2] <=> e.state = "NORMAL"
    BY DEF Chain
  <2> QED BY <2>2, <2>4, <2>5
<1>2. AuthorityInv /\ [OperatorNext]_<<phoneVars, authorityVars>> =>
        [breaker.frozen /\ rebalances' # rebalances /\ breaker.cooldown > 0 =>
            applied'.weights = breaker.lastSafe /\ breaker'.frozen]_authorityVars
  BY AuthorityBinds DEF Bound
<1>3. AuthorityInv /\ [OperatorNext]_<<phoneVars, authorityVars>> =>
        [\A p \in Processes : switch[p] = "EMERGENCY_HALT" /\ switch'[p] # "EMERGENCY_HALT" =>
            KillswitchReset \/ RestartProcess(p)]_authorityVars
  BY AuthorityBinds DEF Bound
<1>4. AuthorityInv /\ WeightsInv /\ [OperatorNext]_<<phoneVars, authorityVars>> => WeightsInv'
  BY WeightsKeep
<1> QED BY <1>1, <1>2, <1>3, <1>4, AuthorityStart, AuthorityBinds, WeightsStart, RiskIsWithinShare, PTL
        DEF OperatorSpec, AuthoritySound, FrozenKeepsLastSafe, HaltNeedsReset

-----------------------------------------------------------------------------
(* The meta layer and its allocation                                        *)

\* A pass of the redistribution keeps every share between nothing and the cap.
Assignment(pre, cap, s) ==
    /\ s = [assigned |-> s.assigned, capped |-> s.capped, moving |-> s.moving]
    /\ s.assigned \in [DOMAIN pre -> 0..cap]
    /\ s.capped \subseteq DOMAIN pre

LEMMA RedistributeKeeps ==
    ASSUME NEW pre, IsFiniteSet(DOMAIN pre), \A i \in DOMAIN pre : pre[i] \in Nat,
           NEW cap \in Nat, NEW s, Assignment(pre, cap, s)
    PROVE  Assignment(pre, cap, Redistribute(pre, cap, s))
<1> DEFINE open == DOMAIN pre \ s.capped
           lost == [i \in s.capped |-> pre[i] - s.assigned[i]]
           mass == Total(lost, s.capped)
           base == Total(pre, open)
           add(i) == IF base > 0 THEN (mass * pre[i]) \div base ELSE mass \div Cardinality(open)
           take(i) == Max({Min({add(i), cap - s.assigned[i]}), 0})
           assigned == [i \in DOMAIN pre |-> IF i \in open THEN s.assigned[i] + take(i) ELSE s.assigned[i]]
           capped == s.capped \cup {i \in open : assigned[i] >= cap}
           moving == \E i \in open : take(i) > 0
<1>1. \/ Redistribute(pre, cap, s) = [s EXCEPT !.moving = FALSE]
      \/ open # {} /\ Redistribute(pre, cap, s) = [assigned |-> assigned, capped |-> capped, moving |-> moving]
  BY DEF Redistribute
<1>2. IsFiniteSet(open) /\ IsFiniteSet(s.capped)
  BY FS_Subset DEF Assignment
<1>3. \A i \in s.capped : lost[i] \in Int
  BY DEF Assignment
<1>4. mass \in Int
  <2> HIDE DEF lost
  <2> QED BY <1>2, <1>3, TotalIsInt
<1>5. base \in Int
  BY <1>2, TotalIsInt
<1>6. open # {} => Cardinality(open) \in Nat \ {0}
  BY <1>2, FS_EmptySet, FS_CardinalityType
<1> HIDE DEF lost, mass, base, open
<1>7. ASSUME open # {}, NEW i \in DOMAIN pre PROVE add(i) \in Int
  <2>1. pre[i] \in Nat
    BY <1>7
  <2>2. mass * pre[i] \in Int
    BY <2>1, <1>4
  <2>3. CASE base > 0
    BY <2>2, <2>3, <1>5
  <2>4. CASE ~(base > 0)
    BY <2>4, <1>4, <1>6, <1>7
  <2> QED BY <2>3, <2>4
<1> HIDE DEF add
<1>8. ASSUME open # {}, NEW i \in DOMAIN pre PROVE s.assigned[i] + take(i) \in 0..cap
  <2>1. s.assigned[i] \in 0..cap
    BY <1>8 DEF Assignment
  <2>2. add(i) \in Int /\ cap - s.assigned[i] \in Int
    BY <1>7, <1>8, <2>1
  <2>3. Min({add(i), cap - s.assigned[i]}) \in Int /\ Min({add(i), cap - s.assigned[i]}) <= cap - s.assigned[i]
    BY <2>2, MinOfTwo
  <2>4. take(i) = IF Min({add(i), cap - s.assigned[i]}) >= 0 THEN Min({add(i), cap - s.assigned[i]}) ELSE 0
    BY <2>3, MaxOfTwo
  <2>5. take(i) \in 0..(cap - s.assigned[i])
    BY <2>1, <2>3, <2>4
  <2> QED BY <2>1, <2>5
<1> HIDE DEF take
<1>9. open # {} => assigned \in [DOMAIN pre -> 0..cap]
  BY <1>8 DEF Assignment
<1>10. open # {} => capped \subseteq DOMAIN pre
  BY DEF Assignment, open
<1> HIDE DEF assigned, capped, moving
<1>11. CASE Redistribute(pre, cap, s) = [s EXCEPT !.moving = FALSE]
  BY <1>11 DEF Assignment
<1>12. CASE open # {} /\ Redistribute(pre, cap, s) = [assigned |-> assigned, capped |-> capped, moving |-> moving]
  BY <1>9, <1>10, <1>12 DEF Assignment
<1> QED BY <1>1, <1>11, <1>12

\* The passes one after the other: the first state and what each makes of the one before.
FirstPass(pre, cap) ==
    [assigned |-> CutOff(pre, cap), moving |-> TRUE, capped |-> {i \in DOMAIN pre : CutOff(pre, cap)[i] < pre[i]}]
NextPass(pre, cap, s) == IF s.moving THEN Redistribute(pre, cap, s) ELSE s
PassTable(pre, cap, last, pass) ==
    pass = [n \in 0..last |-> IF n = 0 THEN FirstPass(pre, cap) ELSE NextPass(pre, cap, pass[n - 1])]

LEMMA PassTableExists ==
    ASSUME NEW pre, NEW cap, NEW last \in Nat
    PROVE  \E pass : PassTable(pre, cap, last, pass)
<1> DEFINE missing == {n \in Nat : ~\E pass : PassTable(pre, cap, n, pass)}
<1>1. SUFFICES ASSUME missing # {} PROVE FALSE
  OBVIOUS
<1>2. PICK n \in missing : \A m \in missing : n <= m
  BY <1>1, LeastNumber
<1>3. n \in Nat /\ ~\E pass : PassTable(pre, cap, n, pass)
  BY <1>2
<1>4. CASE n = 0
  <2> DEFINE g == [k \in 0..0 |-> FirstPass(pre, cap)]
  <2>1. g = [k \in 0..0 |-> IF k = 0 THEN FirstPass(pre, cap) ELSE NextPass(pre, cap, g[k - 1])]
    OBVIOUS
  <2> HIDE DEF g
  <2> QED BY <1>3, <1>4, <2>1 DEF PassTable
<1>5. CASE n # 0
  <2> HIDE DEF missing
  <2>1. n - 1 \in Nat /\ n - 1 \notin missing
    BY <1>2, <1>3, <1>5
  <2> USE DEF missing
  <2>2. PICK g : PassTable(pre, cap, n - 1, g)
    BY <2>1
  <2> DEFINE h == [k \in 0..n |-> IF k = n THEN NextPass(pre, cap, g[n - 1]) ELSE g[k]]
             step == [k \in 0..n |-> IF k = 0 THEN FirstPass(pre, cap) ELSE NextPass(pre, cap, h[k - 1])]
  <2>3. \A k \in 0..(n - 1) : g[k] = IF k = 0 THEN FirstPass(pre, cap) ELSE NextPass(pre, cap, g[k - 1])
    BY <2>2 DEF PassTable
  <2>4. \A k \in 0..(n - 1) : h[k] = g[k]
    BY <1>3
  <2>5. ASSUME NEW k \in 0..n PROVE h[k] = step[k]
    <3>1. CASE k = n
      <4>1. h[n - 1] = g[n - 1]
        BY <1>3, <1>5, <2>1, <2>4
      <4>2. h[n] = NextPass(pre, cap, g[n - 1])
        BY <1>3
      <4>3. step[n] = NextPass(pre, cap, h[n - 1])
        BY <1>3, <1>5
      <4> QED BY <3>1, <4>1, <4>2, <4>3
    <3>2. CASE k = 0
      BY <1>5, <2>1, <2>3, <3>2
    <3>3. CASE k # n /\ k # 0
      <4>1. k \in 0..(n - 1) /\ k - 1 \in 0..(n - 1)
        BY <1>3, <3>3
      <4>2. h[k] = NextPass(pre, cap, g[k - 1])
        BY <2>3, <2>4, <3>3, <4>1
      <4>3. h[k - 1] = g[k - 1]
        BY <2>4, <4>1
      <4>4. step[k] = NextPass(pre, cap, h[k - 1])
        BY <3>3
      <4> QED BY <4>2, <4>3, <4>4
    <3> QED BY <3>1, <3>2, <3>3
  <2>6. h = step
    BY <2>5
  <2> HIDE DEF h
  <2> QED BY <1>3, <2>6 DEF PassTable
<1> QED BY <1>4, <1>5

LEMMA PassesIsTable ==
    ASSUME NEW pre, NEW cap, Redistributions \in Nat
    PROVE  PassTable(pre, cap, Redistributions, Passes(pre, cap))
<1>1. PICK g : PassTable(pre, cap, Redistributions, g)
  BY PassTableExists
<1>2. Passes(pre, cap) = CHOOSE g_ : PassTable(pre, cap, Redistributions, g_)
  BY DEF Passes, PassTable, FirstPass, NextPass
<1> QED BY <1>1, <1>2

LEMMA CappedBounds ==
    ASSUME NEW pre, IsFiniteSet(DOMAIN pre), pre = [i \in DOMAIN pre |-> pre[i]],
           \A i \in DOMAIN pre : pre[i] \in Nat, NEW cap \in Nat, Redistributions \in Nat
    PROVE  Capped(pre, cap) \in [DOMAIN pre -> 0..cap]
<1>1. ASSUME NEW i \in DOMAIN pre PROVE Min({pre[i], cap}) \in 0..cap
  BY MinOfTwo
<1>2. CutOff(pre, cap) \in [DOMAIN pre -> 0..cap]
  BY <1>1 DEF CutOff
<1>3. Assignment(pre, cap, FirstPass(pre, cap))
  BY <1>2 DEF Assignment, FirstPass
<1> DEFINE pass == Passes(pre, cap)
           bad == {n \in 0..Redistributions : ~Assignment(pre, cap, pass[n])}
<1>4. PassTable(pre, cap, Redistributions, pass)
  BY PassesIsTable
<1> HIDE DEF pass
<1>5. \A n \in 0..Redistributions : pass[n] = IF n = 0 THEN FirstPass(pre, cap) ELSE NextPass(pre, cap, pass[n - 1])
  BY <1>4 DEF PassTable
<1>6. bad = {}
  <2>1. SUFFICES ASSUME bad # {} PROVE FALSE
    OBVIOUS
  <2> bad \in SUBSET Nat
    OBVIOUS
  <2>2. PICK n \in bad : \A m \in bad : n <= m
    BY <2>1, LeastNumber
  <2>3. n \in 0..Redistributions /\ ~Assignment(pre, cap, pass[n])
    BY <2>2
  <2>4. n # 0
    BY <1>3, <1>5, <2>3
  <2> HIDE DEF bad
  <2>5. n - 1 \in 0..Redistributions /\ n - 1 \notin bad
    BY <2>2, <2>3, <2>4
  <2>6. Assignment(pre, cap, pass[n - 1])
    BY <2>5 DEF bad
  <2>7. Assignment(pre, cap, Redistribute(pre, cap, pass[n - 1]))
    BY <2>6, RedistributeKeeps
  <2>8. pass[n] = NextPass(pre, cap, pass[n - 1])
    BY <1>5, <2>3, <2>4
  <2> QED BY <2>3, <2>6, <2>7, <2>8 DEF NextPass
<1>7. Assignment(pre, cap, pass[Redistributions])
  BY <1>6
<1>8. CASE CutOff(pre, cap) = pre
  BY <1>2, <1>8 DEF Capped
<1>9. CASE CutOff(pre, cap) # pre
  BY <1>7, <1>9 DEF Capped, Assignment, pass
<1> QED BY <1>8, <1>9

\* A part of a whole, in parts of ONE.
LEMMA PartOfPart ==
    ASSUME NEW a \in Nat, NEW g \in Nat, NEW n \in Nat \ {0}, a <= n
    PROVE  (a * g) \div n \in 0..g
<1> DEFINE q == (a * g) \div n
<1>1. a * g \in Nat /\ a * g <= n * g
  OBVIOUS
<1>2. q \in Int /\ q >= 0 /\ n * q <= a * g
  BY <1>1
<1> HIDE DEF q
<1>3. q <= g
  <2>1. SUFFICES ASSUME q >= g + 1 PROVE FALSE
    BY <1>2
  <2>2. n * q >= n * (g + 1)
    BY <1>2, <2>1
  <2>3. n * (g + 1) = n * g + n
    OBVIOUS
  <2>4. n * g \in Nat /\ n * q \in Int
    BY <1>2
  <2> QED BY <1>1, <1>2, <2>2, <2>3, <2>4
<1>4. q \in 0..g
  BY <1>2, <1>3
<1> QED BY <1>4 DEF q

\* A weight of the decision: a share of the whole and why it is zero.
WeightOK(w) == w = [weight |-> w.weight, zero |-> w.zero] /\ w.weight \in 0..ONE

LEMMA BudgetBounds ==
    ASSUME NEW pre, IsFiniteSet(DOMAIN pre), pre = [i \in DOMAIN pre |-> pre[i]],
           \A i \in DOMAIN pre : pre[i] \in Nat, Redistributions \in Nat, ONE \in Nat \ {0},
           NEW cfg, cfg.cap \in 1..ONE, cfg.gross \in 1..ONE
    PROVE  /\ DOMAIN ApplyBudget(cfg, pre) = DOMAIN pre
           /\ \A i \in DOMAIN pre : WeightOK(ApplyBudget(cfg, pre)[i])
<1> DEFINE w == [i \in DOMAIN pre |-> (Capped(pre, cfg.cap)[i] * cfg.gross) \div ONE]
<1>1. cfg.cap \in Nat /\ Capped(pre, cfg.cap) \in [DOMAIN pre -> 0..cfg.cap]
  BY CappedBounds
<1>2. ASSUME NEW i \in DOMAIN pre PROVE w[i] \in 0..ONE
  <2>1. Capped(pre, cfg.cap)[i] \in Nat /\ Capped(pre, cfg.cap)[i] <= ONE /\ cfg.gross \in Nat
    BY <1>1
  <2>2. (Capped(pre, cfg.cap)[i] * cfg.gross) \div ONE \in 0..cfg.gross
    BY <2>1, PartOfPart
  <2> QED BY <2>2
<1>3. /\ DOMAIN ApplyBudget(cfg, pre) = DOMAIN pre
      /\ \A i \in DOMAIN pre : \/ ApplyBudget(cfg, pre)[i] = [weight |-> w[i], zero |-> "none"]
                                 \/ ApplyBudget(cfg, pre)[i] = Zero("MAX_POSITIONS")
  BY DEF ApplyBudget
<1> HIDE DEF w
<1>4. WeightOK(Zero("MAX_POSITIONS"))
  BY DEF WeightOK, Zero
<1>5. ASSUME NEW i \in DOMAIN pre PROVE WeightOK([weight |-> w[i], zero |-> "none"])
  BY <1>2 DEF WeightOK
<1> QED BY <1>3, <1>4, <1>5

\* What the change limit and the modes leave of a weight.
Moderate(cfg, prev, i, w) ==
    \/ w.zero # "none" /\ w.weight = 0
    \/ i \notin DOMAIN prev
    \/ w.weight - prev[i] \in -cfg.change .. cfg.change

LEMMA LimitedIsModerate ==
    ASSUME ONE \in Nat \ {0}, NEW cfg, cfg.change \in 1..ONE, NEW prev, NEW i,
           i \in DOMAIN prev => prev[i] \in 0..ONE, NEW w, WeightOK(w)
    PROVE  WeightOK(Limited(cfg, prev, i, w)) /\ Moderate(cfg, prev, i, Limited(cfg, prev, i, w))
<1> DEFINE lo == Max({prev[i] - cfg.change, 0})
           hi == Min({prev[i] + cfg.change, ONE})
<1>1. CASE w.weight = 0 /\ w.zero # "none"
  BY <1>1 DEF Limited, Moderate
<1>2. CASE ~(w.weight = 0 /\ w.zero # "none") /\ i \in DOMAIN prev /\ cfg.change < ONE
  <2>1. Limited(cfg, prev, i, w) = [w EXCEPT !.weight = Clip(w.weight, lo, hi)]
    BY <1>2 DEF Limited
  <2>2. prev[i] \in 0..ONE /\ w.weight \in 0..ONE
    BY <1>2 DEF WeightOK
  <2>3. lo = IF prev[i] - cfg.change >= 0 THEN prev[i] - cfg.change ELSE 0
    BY <2>2, MaxOfTwo
  <2>4. hi = IF prev[i] + cfg.change <= ONE THEN prev[i] + cfg.change ELSE ONE
    BY <2>2, MinOfTwo
  <2> HIDE DEF lo, hi
  <2>5. lo \in Int /\ hi \in Int /\ lo <= hi
    BY <2>2, <2>3, <2>4
  <2>6. Clip(w.weight, lo, hi) \in lo..hi
    <3>1. w.weight \in Int
      BY <2>2
    <3> QED BY <2>5, <3>1, ClipIsBetween
  <2> DEFINE c == Clip(w.weight, lo, hi)
  <2> HIDE DEF c
  <2>7. c \in 0..ONE /\ c - prev[i] \in -cfg.change .. cfg.change
    BY <2>2, <2>3, <2>4, <2>5, <2>6 DEF c
  <2>8. Limited(cfg, prev, i, w) = [weight |-> c, zero |-> w.zero]
    BY <2>1 DEF WeightOK, c
  <2> QED BY <2>7, <2>8 DEF WeightOK, Moderate
<1>3. CASE ~(w.weight = 0 /\ w.zero # "none") /\ ~(i \in DOMAIN prev /\ cfg.change < ONE)
  <2>1. Limited(cfg, prev, i, w) = w
    BY <1>3 DEF Limited
  <2>2. CASE i \notin DOMAIN prev
    BY <2>1, <2>2 DEF Moderate
  <2>3. CASE i \in DOMAIN prev
    <3>1. cfg.change = ONE
      BY <1>3, <2>3
    <3>2. w.weight \in 0..ONE /\ prev[i] \in 0..ONE
      BY <2>3 DEF WeightOK
    <3>3. w.weight - prev[i] \in -cfg.change .. cfg.change
      BY <3>1, <3>2
    <3> QED BY <2>1, <3>3 DEF Moderate
  <2> QED BY <2>2, <2>3
<1> QED BY <1>1, <1>2, <1>3

LEMMA ModesAreModerate ==
    ASSUME ONE \in Nat \ {0}, NEW cfg, cfg.change \in 1..ONE, cfg.cap \in 1..ONE, cfg.gross \in 1..ONE,
           NEW prev, \A i \in DOMAIN prev : prev[i] \in 0..ONE,
           NEW w, \A i \in DOMAIN w : WeightOK(w[i]), NEW raw
    PROVE  /\ DOMAIN ApplyModes(cfg, w, raw, prev) = DOMAIN w
           /\ \A i \in DOMAIN w : /\ WeightOK(ApplyModes(cfg, w, raw, prev)[i])
                                  /\ Moderate(cfg, prev, i, ApplyModes(cfg, w, raw, prev)[i])
<1>1. (cfg.cap * cfg.gross) \div ONE \in 0..ONE
  <2>1. cfg.cap \in Nat /\ cfg.gross \in Nat /\ cfg.cap <= ONE
    OBVIOUS
  <2>2. (cfg.cap * cfg.gross) \div ONE \in 0..cfg.gross
    BY <2>1, PartOfPart
  <2> QED BY <2>2
<1> DEFINE most == (cfg.cap * cfg.gross) \div ONE
<1>2. /\ DOMAIN BestOfRegime(cfg, w, raw) = DOMAIN w
      /\ \A i \in DOMAIN w : \/ BestOfRegime(cfg, w, raw)[i] = [weight |-> most, zero |-> "none"]
                               \/ BestOfRegime(cfg, w, raw)[i] = Zero("BEST_OF_REGIME_LOSER")
  BY DEF BestOfRegime
<1> HIDE DEF most
<1>3. WeightOK([weight |-> most, zero |-> "none"]) /\ WeightOK(Zero("BEST_OF_REGIME_LOSER"))
  BY <1>1 DEF WeightOK, Zero, most
<1>4. \E chosen : /\ DOMAIN chosen = DOMAIN w /\ \A i \in DOMAIN w : WeightOK(chosen[i])
                  /\ ApplyModes(cfg, w, raw, prev) = [i \in DOMAIN w |-> Limited(cfg, prev, i, chosen[i])]
  <2>1. CASE cfg.mode = "best_of_regime" /\ DOMAIN raw # {}
    <3>1. ApplyModes(cfg, w, raw, prev)
            = [i \in DOMAIN w |-> Limited(cfg, prev, i, BestOfRegime(cfg, w, raw)[i])]
      BY <2>1 DEF ApplyModes
    <3> QED BY <1>2, <1>3, <3>1
  <2>2. CASE ~(cfg.mode = "best_of_regime" /\ DOMAIN raw # {})
    <3>1. ApplyModes(cfg, w, raw, prev) = [i \in DOMAIN w |-> Limited(cfg, prev, i, w[i])]
      BY <2>2 DEF ApplyModes
    <3> QED BY <3>1
  <2> QED BY <2>1, <2>2
<1>5. PICK chosen : /\ DOMAIN chosen = DOMAIN w /\ \A i \in DOMAIN w : WeightOK(chosen[i])
                    /\ ApplyModes(cfg, w, raw, prev) = [i \in DOMAIN w |-> Limited(cfg, prev, i, chosen[i])]
  BY <1>4
<1>6. ASSUME NEW i \in DOMAIN w
      PROVE  /\ WeightOK(Limited(cfg, prev, i, chosen[i]))
             /\ Moderate(cfg, prev, i, Limited(cfg, prev, i, chosen[i]))
  BY <1>5, LimitedIsModerate
<1> QED BY <1>5, <1>6

\* A strategy that no block hits has a drift below the block and one of the certificates in force.
LEMMA EligibleIsClean ==
    ASSUME NEW v, NEW today, Reason(v, today) = "ELIGIBLE"
    PROVE  /\ v.drift \subseteq 0..100 /\ \A d \in v.drift : d < DriftBlock
           /\ v.cert \in DOMAIN GateWeight
<1> DEFINE hit(k) == Blocks(v, today)[k][1]
           first == {k \in 1..12 : /\ \A j \in 1..(k - 1) : ~hit(j)
                                   /\ hit(k)}
<1>1. Reason(v, today) = IF first = {} THEN "ELIGIBLE" ELSE Blocks(v, today)[CHOOSE k \in first : TRUE][2]
  BY DEF Reason
<1>2. \A k \in 1..12 : Blocks(v, today)[k][2] # "ELIGIBLE"
  BY DEF Blocks
<1>3. first = {}
  <2>1. SUFFICES ASSUME first # {} PROVE FALSE
    OBVIOUS
  <2>2. (CHOOSE k \in first : TRUE) \in first
    BY <2>1, Zenon
  <2>3. (CHOOSE k \in first : TRUE) \in 1..12
    BY <2>2
  <2> QED BY <1>1, <1>2, <2>1, <2>3
<1>4. \A k \in 1..12 : ~hit(k)
  <2> DEFINE hits == {k \in 1..12 : hit(k)}
  <2>1. SUFFICES ASSUME hits # {} PROVE FALSE
    OBVIOUS
  <2>2. hits \in SUBSET Nat
    OBVIOUS
  <2>3. PICK k \in hits : \A j \in hits : k <= j
    BY <2>1, <2>2, LeastNumber
  <2>4. \A j \in 1..(k - 1) : j \notin hits /\ j \in 1..12
    BY <2>3
  <2>5. k \in first
    BY <2>3, <2>4
  <2> QED BY <1>3, <2>5
<1>5. /\ hit(4) <=> v.drift \ 0..100 # {}
      /\ hit(7) <=> v.cert \notin DOMAIN GateWeight
      /\ hit(12) <=> \E d \in v.drift : d >= DriftBlock
  BY DEF Blocks
<1>6. ~hit(4) /\ ~hit(7) /\ ~hit(12)
  BY <1>4
<1> HIDE DEF hit
<1>7. v.drift \subseteq 0..100 /\ (\A d \in v.drift : ~(d >= DriftBlock)) /\ v.cert \in DOMAIN GateWeight
  BY <1>5, <1>6
<1> QED BY <1>7 DEF DriftBlock

LEMMA PerformanceBounds ==
    ASSUME NEW v, v.trades \in Nat, v.mean \in Int
    PROVE  Performance(v) \in 10..100
<1> DEFINE c == Clip(v.mean, -20, 20)
           p == (500 + (5 * v.trades * c) \div (v.trades + 20)) \div 10
<1>1. CASE v.trades = 0
  BY <1>1 DEF Performance
<1>2. CASE v.trades # 0
  <2>1. c \in -20..20
    <3>1. v.mean \in Int /\ -20 \in Int /\ 20 \in Int /\ -20 <= 20
      OBVIOUS
    <3> QED BY <3>1, ClipIsBetween
  <2> HIDE DEF c
  <2>2. 5 * v.trades * c \in Int /\ v.trades + 20 \in Nat \ {0}
    BY <2>1
  <2>3. (5 * v.trades * c) \div (v.trades + 20) \in Int
    BY <2>2
  <2>4. p \in Int
    BY <2>3
  <2> HIDE DEF p
  <2>5. Clip(p, 10, 100) \in 10..100
    <3>1. p \in Int /\ 10 \in Int /\ 100 \in Int /\ 10 <= 100
      BY <2>4
    <3> QED BY <3>1, ClipIsBetween
  <2> QED BY <1>2, <2>5 DEF Performance, p, c
<1> QED BY <1>1, <1>2

LEMMA DriftBounds ==
    ASSUME NEW v, v.drift \subseteq 0..100, \A d \in v.drift : d < DriftBlock
    PROVE  Drift(v) \in 50..100
<1> DEFINE d == CHOOSE x \in v.drift : TRUE
<1>1. CASE v.drift = {}
  BY <1>1 DEF Drift
<1>2. CASE v.drift # {}
  <2>1. d \in v.drift
    BY <1>2
  <2>2. d \in 0..49
    BY <2>1 DEF DriftBlock
  <2>3. Drift(v) = IF d < DriftMild THEN 100 ELSE 100 - ((d - DriftMild) * 50) \div (DriftBlock - DriftMild)
    BY <1>2 DEF Drift
  <2> HIDE DEF d
  <2>4. d >= 10 => ((d - 10) * 50) \div 40 \in 0..50
    BY <2>2
  <2> QED BY <2>2, <2>3, <2>4 DEF DriftMild, DriftBlock
<1> QED BY <1>1, <1>2

LEMMA GreatestOfPercents ==
    ASSUME NEW C, C = {} \/ \E c \in -100..100 : C = {c}
    PROVE  Max(C \cup {0}) \in Int
<1>1. CASE C = {}
  <2>1. C \cup {0} = {0, 0}
    BY <1>1
  <2> QED BY <2>1, MaxOfTwo
<1>2. ASSUME NEW c \in -100..100, C = {c} PROVE Max(C \cup {0}) \in Int
  <2>1. C \cup {0} = {c, 0}
    BY <1>2
  <2>2. c \in Int /\ 0 \in Int
    OBVIOUS
  <2>3. Max({c, 0}) = IF c >= 0 THEN c ELSE 0
    BY <2>2, MaxOfTwo
  <2> QED BY <2>1, <2>2, <2>3
<1> QED BY <1>1, <1>2

\* What the code's validation lets into a decision.
Correlations(corr) == \A p \in DOMAIN corr : corr[p] = {} \/ \E c \in -100..100 : corr[p] = {c}
Persisted(prev) == DOMAIN prev \subseteq MetaIds /\ \A i \in DOMAIN prev : prev[i] \in 0..ONE

LEMMA PenaltyBounds ==
    ASSUME ONE \in Nat \ {0}, NEW corr, Correlations(corr), NEW prev, Persisted(prev),
           NEW ids, IsFiniteSet(ids), NEW a \in ids
    PROVE  Penalty(corr, ids, prev, a) \in Nat \ {0}
<1> DEFINE held == {i \in ids : i \in DOMAIN prev}
           mass == Total(prev, held)
           prior(i) == IF held = ids /\ mass > 0 THEN <<prev[i], mass>> ELSE <<1, Cardinality(ids)>>
           others == {b \in ids : ValidPair(corr, ids, a, b)}
           drop(b) == (prior(b)[1] * Max(corr[{a, b}] \cup {0})) \div (10 * prior(b)[2])
           drops == [b \in others |-> drop(b)]
<1>1. IsFiniteSet(held) /\ IsFiniteSet(others) /\ Cardinality(ids) \in Nat \ {0}
  BY FS_Subset, FS_CardinalityType, FS_EmptySet
<1>2. \A i \in held : prev[i] \in Int
  BY DEF Persisted
<1>3. mass \in Int
  BY <1>1, <1>2, TotalIsInt
<1>4. ASSUME NEW b \in others PROVE drop(b) \in Int
  <2>1. corr[{a, b}] = {} \/ \E c \in -100..100 : corr[{a, b}] = {c}
    BY <1>4 DEF ValidPair, Correlations
  <2> DEFINE m == Max(corr[{a, b}] \cup {0})
  <2>2. m \in Int
    BY <2>1, GreatestOfPercents
  <2> HIDE DEF m
  <2>3. PICK x, y : x = prior(b)[1] /\ y = prior(b)[2]
    OBVIOUS
  <2>4. x \in Int /\ y \in Nat \ {0}
    <3>1. CASE held = ids /\ mass > 0
      <4>1. x = prev[b] /\ y = mass
        BY <2>3, <3>1
      <4>2. b \in held
        BY <3>1
      <4> HIDE DEF mass, held, prior
      <4>3. prev[b] \in Int
        BY <1>2, <4>2
      <4> QED BY <4>1, <4>3, <1>3, <3>1
    <3>2. CASE ~(held = ids /\ mass > 0)
      <4>1. x = 1 /\ y = Cardinality(ids)
        BY <2>3, <3>2
      <4> QED BY <4>1, <1>1
    <3> QED BY <3>1, <3>2
  <2>5. drop(b) = (x * m) \div (10 * y)
    BY <2>3 DEF m
  <2> HIDE DEF drop, prior
  <2>6. x * m \in Int /\ 10 * y \in Nat \ {0}
    BY <2>2, <2>4
  <2>7. (x * m) \div (10 * y) \in Int
    BY <2>6
  <2> QED BY <2>5, <2>7
<1> HIDE DEF drop, prior, mass, held
<1>5. \A b \in others : drops[b] \in Int
  BY <1>4
<1> HIDE DEF drops, others
<1>6. Total(drops, others) \in Int
  BY <1>1, <1>5, TotalIsInt
<1> DEFINE left == 10 - Total(drops, others)
<1>7. left \in Int /\ 1 \in Int
  BY <1>6
<1>8. Penalty(corr, ids, prev, a) = Max({left, 1})
  BY DEF Penalty, left, drops, others, drop, prior, mass, held
<1> HIDE DEF left
<1>9. Max({left, 1}) = IF left >= 1 THEN left ELSE 1
  BY <1>7, MaxOfTwo
<1> QED BY <1>7, <1>8, <1>9

LEMMA ScoreIsPositive ==
    ASSUME ONE \in Nat \ {0}, NEW corr, Correlations(corr), NEW prev, Persisted(prev),
           NEW ids, IsFiniteSet(ids), NEW i \in ids, NEW view, NEW today,
           view[i].trades \in Nat, view[i].mean \in Int, Reason(view[i], today) = "ELIGIBLE", NEW cfg
    PROVE  RawScore(cfg, view, corr, ids, prev, i) \in Nat \ {0}
<1>1. CASE cfg.policy = "equal_weight"
  BY <1>1 DEF RawScore
<1>2. CASE cfg.policy # "equal_weight"
  <2> DEFINE v == view[i]
  <2>1. /\ v.drift \subseteq 0..100 /\ (\A d \in v.drift : d < DriftBlock)
        /\ v.cert \in DOMAIN GateWeight
    BY EligibleIsClean
  <2>2. Performance(v) \in 10..100
    BY PerformanceBounds
  <2>3. Drift(v) \in 50..100
    BY <2>1, DriftBounds
  <2>4. GateWeight[v.cert] \in {1, 2}
    BY <2>1 DEF GateWeight
  <2>5. Penalty(corr, ids, prev, i) \in Nat \ {0}
    BY PenaltyBounds
  <2>6. PICK g, p, q, d : /\ g = GateWeight[v.cert] /\ p = Performance(v)
                          /\ q = Penalty(corr, ids, prev, i) /\ d = Drift(v)
    OBVIOUS
  <2>7. g \in Nat \ {0} /\ p \in Nat \ {0} /\ q \in Nat \ {0} /\ d \in Nat \ {0}
    BY <2>2, <2>3, <2>4, <2>5, <2>6
  <2>8. RawScore(cfg, view, corr, ids, prev, i) = g * p * q * d
    BY <1>2, <2>6 DEF RawScore
  <2> HIDE DEF v
  <2>9. g * p \in Nat \ {0}
    BY <2>7
  <2>10. g * p * q \in Nat \ {0}
    BY <2>7, <2>9
  <2>11. g * p * q * d \in Nat \ {0}
    BY <2>7, <2>10
  <2> QED BY <2>8, <2>11
<1> QED BY <1>1, <1>2

LEMMA SharesAreNat ==
    ASSUME ONE \in Nat \ {0}, NEW corr, Correlations(corr), NEW prev, Persisted(prev),
           NEW ids, IsFiniteSet(ids), ids # {}, NEW view, NEW today, NEW cfg,
           \A i \in ids : /\ view[i].trades \in Nat /\ view[i].mean \in Int
                          /\ Reason(view[i], today) = "ELIGIBLE"
    PROVE  Shares(cfg, view, corr, ids, prev) \in [ids -> Nat]
<1> DEFINE raw == [i \in ids |-> RawScore(cfg, view, corr, ids, prev, i)]
<1>1. Cardinality(ids) \in Nat \ {0}
  BY FS_CardinalityType, FS_EmptySet
<1>2. ASSUME NEW i \in ids PROVE RawScore(cfg, view, corr, ids, prev, i) \in Nat \ {0}
  BY ScoreIsPositive
<1>3. \A i \in ids : raw[i] \in Nat /\ raw[i] > 0
  BY <1>2
<1> HIDE DEF raw
<1>4. Total(raw, ids) \in Nat /\ \A i \in ids : raw[i] <= Total(raw, ids)
  BY <1>3, TotalIsNat
<1>5. Total(raw, ids) \in Nat \ {0}
  BY <1>3, <1>4
<1>6. \/ Shares(cfg, view, corr, ids, prev) = [i \in ids |-> ONE \div Cardinality(ids)]
      \/ Shares(cfg, view, corr, ids, prev) = [i \in ids |-> (ONE * raw[i]) \div Total(raw, ids)]
  BY DEF Shares, raw
<1>7. ONE \div Cardinality(ids) \in Nat
  BY <1>1
<1>8. ASSUME NEW i \in ids PROVE (ONE * raw[i]) \div Total(raw, ids) \in Nat
  <2>1. ONE * raw[i] \in Nat
    BY <1>3
  <2> QED BY <1>5, <2>1
<1> QED BY <1>6, <1>7, <1>8

LEMMA ReasonIsNamed ==
    ASSUME NEW v, NEW today
    PROVE  Reason(v, today) # "none"
<1> DEFINE hit(k) == Blocks(v, today)[k][1]
           first == {k \in 1..12 : /\ \A j \in 1..(k - 1) : ~hit(j)
                                   /\ hit(k)}
<1>1. Reason(v, today) = IF first = {} THEN "ELIGIBLE" ELSE Blocks(v, today)[CHOOSE k \in first : TRUE][2]
  BY DEF Reason
<1>2. \A k \in 1..12 : Blocks(v, today)[k][2] # "none"
  BY DEF Blocks
<1>3. CASE first = {}
  BY <1>1, <1>3
<1>4. CASE first # {}
  <2>1. (CHOOSE k \in first : TRUE) \in first
    BY <1>4, Zenon
  <2>2. (CHOOSE k \in first : TRUE) \in 1..12
    BY <2>1
  <2> QED BY <1>1, <1>2, <1>4, <2>2
<1> QED BY <1>3, <1>4

\* What every decision is, whatever it was told.
Ruled(cfg, d) ==
    /\ d.kind \notin {"never", "failure_safe"}
    /\ DOMAIN d.weights = MetaIds
    /\ \A i \in MetaIds : WeightOK(d.weights[i]) /\ Moderate(cfg, d.prev, i, d.weights[i])
    /\ \A i \in MetaIds \ d.eligible : d.weights[i].weight = 0
    /\ d.book.legs \subseteq d.eligible
    /\ \A s \in DOMAIN d.book.vote : d.book.vote[s] # 0 => \E i \in d.book.legs : SymbolOf[i] = s

\* A symbol without a leg has no vote: both sides are the sum of nothing.
LEMMA NoLegNoVote ==
    ASSUME NEW cfg, NEW w, NEW view, NEW s, \A i \in Legs(w, view) : SymbolOf[i] # s
    PROVE  Vote(cfg, w, view, s) = 0
<1> DEFINE side(d) == {i \in Legs(w, view) : SymbolOf[i] = s /\ view[i].signal = d}
<1>1. side(1) = side(-1)
  OBVIOUS
<1>2. /\ Mass(w, view, s, 1) = Total([i \in side(1) |-> w[i].weight], side(1))
      /\ Mass(w, view, s, -1) = Total([i \in side(-1) |-> w[i].weight], side(-1))
  BY DEF Mass
<1> HIDE DEF side
<1>3. Mass(w, view, s, 1) = Mass(w, view, s, -1)
  BY <1>1, <1>2
<1> QED BY <1>3 DEF Vote

LEMMA DecidedIsRuled ==
    ASSUME NEW cfg \in MetaConfigs, NEW activation, NEW prev, Persisted(prev),
           NEW view \in Views, NEW corr \in CorrViews, NEW today
    PROVE  /\ Ruled(cfg, Decided(cfg, activation, prev, view, corr, today))
           /\ Decided(cfg, activation, prev, view, corr, today).prev = prev
<1> DEFINE ids == {i \in DOMAIN view : Reason(view[i], today) = "ELIGIBLE"}
           pre == Shares(cfg, view, corr, ids, prev)
           counted == ~(cfg.policy = "meta" /\ GlobalFailure(view, corr, ids) # "none")
           raw == [i \in (IF counted THEN ids ELSE {}) |-> RawScore(cfg, view, corr, ids, prev, i)]
           chosen == IF ids = {} THEN <<>> ELSE ApplyModes(cfg, ApplyBudget(cfg, pre), raw, prev)
           w == [i \in DOMAIN view |-> IF i \in ids THEN chosen[i] ELSE Zero(Reason(view[i], today))]
           kind == IF ids = {} THEN "none_eligible" ELSE IF counted THEN "scored" ELSE "equal_weight"
           shown == IF ids = {} THEN <<>> ELSE pre
           d == [kind |-> kind, activation |-> activation, day |-> today, weights |-> w, pre |-> shown,
                 eligible |-> ids, prev |-> prev, book |-> BuildBook(cfg, w, view)]
<1>1. Decided(cfg, activation, prev, view, corr, today) = d
  BY DEF Decided
<1>2. /\ cfg.cap \in 1..ONE /\ cfg.gross \in 1..ONE /\ cfg.change \in 1..ONE
      /\ DOMAIN view = MetaIds /\ Correlations(corr)
      /\ \A i \in MetaIds : view[i].trades \in Nat /\ view[i].mean \in Int
  BY MetaInputs DEF Correlations
<1>3. IsFiniteSet(ids) /\ ids \subseteq MetaIds /\ ONE \in Nat \ {0} /\ Redistributions \in Nat
  BY <1>2, MetaAssumption, FS_Subset
<1>4. \A i \in ids : /\ view[i].trades \in Nat /\ view[i].mean \in Int
                     /\ Reason(view[i], today) = "ELIGIBLE"
  BY <1>2
<1>5. kind \notin {"never", "failure_safe"}
  OBVIOUS
<1> HIDE DEF ids, kind, shown, raw
<1>6. ids # {} => pre \in [ids -> Nat]
  BY <1>2, <1>3, <1>4, SharesAreNat
<1> HIDE DEF pre
<1>7. ASSUME ids # {}, NEW i \in ids
      PROVE  WeightOK(chosen[i]) /\ Moderate(cfg, prev, i, chosen[i])
  <2>1. DOMAIN pre = ids /\ pre = [j \in DOMAIN pre |-> pre[j]] /\ \A j \in DOMAIN pre : pre[j] \in Nat
    BY <1>6, <1>7
  <2>2. IsFiniteSet(DOMAIN pre)
    BY <2>1, <1>3
  <2>3. /\ DOMAIN ApplyBudget(cfg, pre) = DOMAIN pre
        /\ \A j \in DOMAIN pre : WeightOK(ApplyBudget(cfg, pre)[j])
    BY <1>2, <1>3, <2>1, <2>2, BudgetBounds
  <2>4. \A j \in DOMAIN prev : prev[j] \in 0..ONE
    BY DEF Persisted
  <2> DEFINE b == ApplyBudget(cfg, pre)
  <2> HIDE DEF b
  <2>5. \A j \in DOMAIN b : WeightOK(b[j])
    BY <2>3 DEF b
  <2>6. /\ DOMAIN ApplyModes(cfg, b, raw, prev) = DOMAIN b
        /\ \A j \in DOMAIN b : /\ WeightOK(ApplyModes(cfg, b, raw, prev)[j])
                               /\ Moderate(cfg, prev, j, ApplyModes(cfg, b, raw, prev)[j])
    BY <1>2, <1>3, <2>4, <2>5, ModesAreModerate
  <2>7. chosen = ApplyModes(cfg, b, raw, prev) /\ i \in DOMAIN b
    BY <1>7, <2>1, <2>3 DEF b
  <2> QED BY <2>6, <2>7
<1> HIDE DEF chosen
<1>8. ASSUME NEW i \in MetaIds \ ids
      PROVE  w[i].weight = 0 /\ WeightOK(w[i]) /\ Moderate(cfg, prev, i, w[i])
  <2>1. w[i] = Zero(Reason(view[i], today))
    BY <1>2
  <2>2. Reason(view[i], today) # "none"
    BY ReasonIsNamed
  <2> QED BY <1>3, <2>1, <2>2 DEF Zero, WeightOK, Moderate
<1>9. DOMAIN w = MetaIds /\ \A i \in ids : w[i] = chosen[i]
  BY <1>2, <1>3
<1> HIDE DEF w
<1>10. \A i \in MetaIds : WeightOK(w[i]) /\ Moderate(cfg, prev, i, w[i])
  BY <1>7, <1>8, <1>9
<1>11. Legs(w, view) \subseteq ids
  <2>1. SUFFICES ASSUME NEW i \in Legs(w, view), i \notin ids PROVE FALSE
    OBVIOUS
  <2>2. i \in MetaIds /\ w[i].weight > 0
    BY <1>9 DEF Legs
  <2> QED BY <1>8, <2>1, <2>2
<1> DEFINE legBook == BuildBook(cfg, w, view)
<1>12. legBook.legs = Legs(w, view) /\ \A s \in DOMAIN legBook.vote : legBook.vote[s] = Vote(cfg, w, view, s)
  BY DEF BuildBook
<1> HIDE DEF legBook
<1>13. \A s \in DOMAIN legBook.vote : legBook.vote[s] # 0 => \E i \in legBook.legs : SymbolOf[i] = s
  BY <1>12, NoLegNoVote
<1>14. /\ d.kind = kind /\ d.weights = w /\ d.eligible = ids /\ d.prev = prev /\ d.book = legBook
  BY DEF legBook
<1> HIDE DEF d
<1> QED BY <1>1, <1>5, <1>8, <1>9, <1>10, <1>11, <1>12, <1>13, <1>14 DEF Ruled

AllocationSpec == MetaInit /\ AllocationInit /\ [][AllocationNext]_<<metaVars, allocationVars>>

\* What a decision on record is: its own weights in bounds, and moderate from an earlier one of the
\* same configuration.
Weights(d) == [i \in DOMAIN d.weights |-> d.weights[i].weight]
After(trail, n) == IF n = 0 THEN <<>> ELSE Weights(trail[n])
Recorded(trail, n) ==
    /\ DOMAIN trail[n].weights = MetaIds /\ trail[n].from \in 0..(n - 1)
    /\ trail[n].from # 0 => trail[trail[n].from].config = trail[n].config
    /\ \A i \in MetaIds : /\ WeightOK(trail[n].weights[i])
                          /\ Moderate(trail[n].config, After(trail, trail[n].from), i, trail[n].weights[i])

\* A state is what one decision on record left, under that decision's configuration, or nothing.
LeftBy(trail, n, cfg, weights, rung) ==
    /\ n \in 0..Len(trail) /\ weights = After(trail, n)
    /\ n # 0 => trail[n].config = cfg /\ trail[n].activation = rung

LayerFields == {"up", "activation", "weights", "recorded", "after"}

AllocationInv ==
    /\ config \in MetaConfigs /\ past \in Seq(Range(past))
    /\ \A n \in 1..Len(past) : Recorded(past, n)
    /\ DOMAIN layer = LayerFields /\ LeftBy(past, layer.after, config, layer.weights, layer.recorded)
    /\ stateFile.kind \in {"none", "broken", "state"}
    /\ stateFile.kind = "state" =>
          LeftBy(past, stateFile.after, stateFile.hash, stateFile.weights, stateFile.activation)
    /\ decision.kind \in {"never", "failure_safe"} \/ Ruled(config, decision)

LEMMA AllocationInvIsSound == AllocationInv => AllocationSound
<1> SUFFICES ASSUME AllocationInv PROVE AllocationSound
  OBVIOUS
<1>1. NoWayAround
  BY DEF NoWayAround, Ruled, AllocationInv
<1>2. \A n : WeightsAfter(n) = After(past, n)
  BY DEF WeightsAfter, After, Weights
<1>3. DOMAIN past = 1..Len(past)
  BY DEF AllocationInv
<1>4. ASSUME NEW n \in DOMAIN past
      PROVE  /\ past[n].from # 0 => past[past[n].from].config = past[n].config
             /\ \A i \in DOMAIN past[n].weights :
                   LET w == past[n].weights[i]
                       was == After(past, past[n].from)
                   IN  \/ w.zero # "none" /\ w.weight = 0
                       \/ i \notin DOMAIN was
                       \/ w.weight - was[i] \in -past[n].config.change .. past[n].config.change
  <2>1. Recorded(past, n)
    BY <1>3, <1>4 DEF AllocationInv
  <2> QED BY <2>1 DEF Recorded, Moderate
<1>5. ChangeIsLimited
  BY <1>2, <1>4 DEF ChangeIsLimited
<1>6. RunsOnOwnState
  BY <1>2 DEF RunsOnOwnState, AllocationInv, LeftBy
<1> QED BY <1>1, <1>5, <1>6 DEF AllocationSound

\* What a decision on record left is fit to decide from.
LEMMA AfterIsPersisted ==
    ASSUME NEW trail, NEW n \in 0..Len(trail), Len(trail) \in Nat, \A k \in 1..Len(trail) : Recorded(trail, k)
    PROVE  Persisted(After(trail, n))
<1>1. CASE n = 0
  BY <1>1 DEF After, Persisted
<1>2. CASE n # 0
  <2>1. n \in 1..Len(trail)
    BY <1>2
  <2>2. DOMAIN trail[n].weights = MetaIds /\ \A i \in MetaIds : WeightOK(trail[n].weights[i])
    BY <2>1 DEF Recorded
  <2> QED BY <1>2, <2>2 DEF After, Weights, Persisted, WeightOK
<1> QED BY <1>1, <1>2

\* What was on record stays so when another decision is.
Grew(trail, longer, d) ==
    /\ longer \in Seq(Range(longer)) /\ Len(trail) \in Nat /\ Len(longer) = Len(trail) + 1
    /\ longer[Len(trail) + 1] = d
    /\ \A n \in 0..Len(trail) : After(longer, n) = After(trail, n)
    /\ \A n \in 1..Len(trail) : longer[n] = trail[n]

LEMMA RecordGrows ==
    ASSUME NEW trail, trail \in Seq(Range(trail)), NEW d, NEW longer, longer = Append(trail, d)
    PROVE  Grew(trail, longer, d)
<1>1. trail \in Seq(Range(trail) \cup {d})
  <2>1. /\ Len(trail) \in Nat /\ trail = [n \in 1..Len(trail) |-> trail[n]]
        /\ \A n \in 1..Len(trail) : trail[n] \in Range(trail) \cup {d}
    OBVIOUS
  <2> QED BY <2>1, IsASeq
<1>2. /\ longer \in Seq(Range(trail) \cup {d}) /\ Len(longer) = Len(trail) + 1 /\ Len(trail) \in Nat
      /\ longer[Len(trail) + 1] = d /\ \A n \in 1..Len(trail) : longer[n] = trail[n]
  BY <1>1
<1>3. longer \in Seq(Range(longer))
  <2>1. \A n \in 1..Len(longer) : longer[n] \in Range(longer)
    BY <1>2 DEF Range
  <2>2. longer = [n \in 1..Len(longer) |-> longer[n]]
    BY <1>2, LenProperties
  <2> QED BY <1>2, <2>1, <2>2, IsASeq
<1>4. \A n \in 0..Len(trail) : n = 0 \/ n \in 1..Len(trail)
  BY <1>2
<1>5. \A n \in 0..Len(trail) : After(longer, n) = After(trail, n)
  BY <1>2, <1>4 DEF After, Weights
<1> QED BY <1>2, <1>3, <1>5 DEF Grew

LEMMA FreshIsOfNone ==
    ASSUME NEW a, NEW cfg, NEW trail, Len(trail) \in Nat
    PROVE  /\ DOMAIN FreshLayer(a) = LayerFields
           /\ LeftBy(trail, FreshLayer(a).after, cfg, FreshLayer(a).weights, FreshLayer(a).recorded)
BY DEF FreshLayer, LeftBy, After, LayerFields

LEMMA AllocationStart == MetaInit => AllocationInv
<1> SUFFICES ASSUME MetaInit PROVE AllocationInv
  OBVIOUS
<1>1. decision.kind = "never" /\ stateFile.kind = "none" /\ config \in MetaConfigs /\ past = <<>>
  BY DEF MetaInit, NoDecision
<1>2. layer = FreshLayer("DISABLED")
  BY DEF MetaInit
<1>3. Len(past) = 0 /\ past \in Seq(Range(past))
  BY <1>1
<1> QED BY <1>1, <1>2, <1>3, FreshIsOfNone DEF AllocationInv

LEMMA DecideKeeps ==
    ASSUME AllocationInv, NEW today, Decide(today)
    PROVE  AllocationInv'
<1>1. PICK view \in Views, corr \in CorrViews :
         decision' = Decided(config, layer.activation, layer.weights, view, corr, today)
  BY DEF Decide
<1> DEFINE d == [config |-> config, activation |-> layer.activation,
                 weights |-> decision'.weights, from |-> layer.after]
           last == Len(past) + 1
<1>2. /\ layer' = [layer EXCEPT !.weights = Weights(decision'), !.recorded = layer.activation, !.after = last]
      /\ config' = config /\ stateFile' = stateFile /\ past' = Append(past, d)
  BY DEF Decide, Weights
<1>3. /\ DOMAIN layer = LayerFields /\ past \in Seq(Range(past))
      /\ LeftBy(past, layer.after, config, layer.weights, layer.recorded)
      /\ \A n \in 1..Len(past) : Recorded(past, n)
  BY DEF AllocationInv
<1>4. Len(past) \in Nat
  BY <1>3
<1>5. Persisted(layer.weights) /\ layer.after \in 0..Len(past) /\ layer.weights = After(past, layer.after)
  BY <1>3, <1>4, AfterIsPersisted DEF LeftBy
<1>6. Ruled(config, decision') /\ decision'.prev = layer.weights
  <2>1. Ruled(config, decision')
    BY <1>1, <1>5, DecidedIsRuled DEF AllocationInv
  <2>2. decision'.prev = layer.weights
    BY <1>1 DEF Decided
  <2> QED BY <2>1, <2>2
<1>7. /\ DOMAIN d.weights = MetaIds
      /\ \A i \in MetaIds : WeightOK(d.weights[i]) /\ Moderate(config, layer.weights, i, d.weights[i])
  BY <1>6 DEF Ruled
<1>8. d.config = config /\ d.activation = layer.activation /\ d.from = layer.after
  OBVIOUS
<1>9. Weights(d) = Weights(decision')
  BY DEF Weights
<1> HIDE DEF d
<1>20. PICK longer : longer = Append(past, d)
  OBVIOUS
<1>10. /\ longer \in Seq(Range(longer)) /\ Len(longer) = Len(past) + 1
       /\ longer[last] = d
       /\ \A n \in 0..Len(past) : After(longer, n) = After(past, n)
       /\ \A n \in 1..Len(past) : longer[n] = past[n]
  <2>1. past \in Seq(Range(past))
    BY <1>3
  <2>2. PICK trail, made : trail = past /\ made = d
    OBVIOUS
  <2>3. trail \in Seq(Range(trail)) /\ longer = Append(trail, made)
    BY <1>20, <2>1, <2>2
  <2>4. Grew(trail, longer, made)
    BY <2>3, RecordGrows, Zenon
  <2> QED BY <2>2, <2>4 DEF Grew
<1>11. ASSUME NEW n \in 1..Len(past) PROVE Recorded(longer, n)
  <2>1. Recorded(past, n) /\ longer[n] = past[n]
    BY <1>3, <1>10, <1>11
  <2>2. past[n].from \in 0..(n - 1)
    BY <2>1 DEF Recorded
  <2>3. past[n].from \in 0..Len(past) /\ (past[n].from # 0 => past[n].from \in 1..Len(past))
    BY <1>4, <1>11, <2>2
  <2>4. /\ After(longer, past[n].from) = After(past, past[n].from)
        /\ past[n].from # 0 => longer[past[n].from] = past[past[n].from]
    BY <1>10, <2>3
  <2> QED BY <2>1, <2>4 DEF Recorded
<1>12. Recorded(longer, last)
  <2>1. layer.after \in 0..(last - 1) /\ (layer.after # 0 => layer.after \in 1..Len(past))
    BY <1>4, <1>5
  <2>2. /\ After(longer, layer.after) = layer.weights
        /\ layer.after # 0 => longer[layer.after].config = config
    BY <1>3, <1>5, <1>10, <2>1 DEF LeftBy
  <2> QED BY <1>7, <1>8, <1>10, <2>1, <2>2 DEF Recorded
<1>13. \A n \in 1..Len(longer) : Recorded(longer, n)
  <2>1. \A n \in 1..(Len(past) + 1) : n \in 1..Len(past) \/ n = last
    BY <1>4
  <2> QED BY <1>10, <1>11, <1>12, <2>1
<1>14. LeftBy(longer, last, config, Weights(decision'), layer.activation)
  <2>1. last # 0 /\ last \in 0..Len(longer)
    BY <1>4, <1>10
  <2>2. After(longer, last) = Weights(decision')
    BY <1>9, <1>10, <2>1 DEF After
  <2> QED BY <1>8, <1>10, <2>1, <2>2 DEF LeftBy
<1>15. stateFile.kind = "state" =>
          LeftBy(longer, stateFile.after, stateFile.hash, stateFile.weights, stateFile.activation)
  <2>1. SUFFICES ASSUME stateFile.kind = "state"
                 PROVE  LeftBy(longer, stateFile.after, stateFile.hash, stateFile.weights, stateFile.activation)
    OBVIOUS
  <2>2. LeftBy(past, stateFile.after, stateFile.hash, stateFile.weights, stateFile.activation)
    BY <2>1 DEF AllocationInv
  <2>3. /\ stateFile.after \in 0..Len(past) /\ stateFile.after \in 0..Len(longer)
        /\ stateFile.after # 0 => stateFile.after \in 1..Len(past)
    BY <1>4, <1>10, <2>2 DEF LeftBy
  <2> QED BY <1>10, <2>2, <2>3 DEF LeftBy
<1> HIDE DEF last
<1>16. /\ DOMAIN layer' = LayerFields /\ layer'.weights = Weights(decision') /\ layer'.after = last
       /\ layer'.recorded = layer.activation
  BY <1>2, <1>3 DEF LayerFields
<1>17. past' = longer /\ config' = config /\ stateFile' = stateFile
  BY <1>2, <1>20 DEF d
<1>18. (Ruled(config, decision))'
  BY <1>6, <1>17 DEF Ruled, WeightOK, Moderate
<1>19. config' \in MetaConfigs /\ stateFile'.kind \in {"none", "broken", "state"}
  BY <1>17 DEF AllocationInv
<1> QED BY <1>10, <1>13, <1>14, <1>15, <1>16, <1>17, <1>18, <1>19 DEF AllocationInv

\* A restart runs on the state of its own configuration, on none, or not at all.
LEMMA RestoredIsLeftBy ==
    ASSUME NEW cfg, NEW f, NEW trail, Len(trail) \in Nat, f.kind \in {"none", "broken", "state"},
           f.kind = "state" => LeftBy(trail, f.after, f.hash, f.weights, f.activation)
    PROVE  /\ DOMAIN Restored(cfg, f) = LayerFields
           /\ LeftBy(trail, Restored(cfg, f).after, cfg, Restored(cfg, f).weights, Restored(cfg, f).recorded)
<1> DEFINE fresh == FreshLayer("DISABLED")
           rung == IF f.activation = "none" THEN "DISABLED" ELSE f.activation
           whole == [up |-> TRUE, weights |-> f.weights, recorded |-> f.activation, after |-> f.after,
                     activation |-> rung]
<1>1. DOMAIN fresh = LayerFields /\ LeftBy(trail, fresh.after, cfg, fresh.weights, fresh.recorded)
  BY FreshIsOfNone
<1>2. \/ Restored(cfg, f) = fresh
      \/ Restored(cfg, f) = [fresh EXCEPT !.up = FALSE]
      \/ f.kind = "state" /\ f.hash = cfg /\ Restored(cfg, f) = whole
  BY DEF Restored, Loadable
<1> HIDE DEF rung, fresh
<1>3. CASE Restored(cfg, f) = fresh
  BY <1>1, <1>3
<1>4. CASE Restored(cfg, f) = [fresh EXCEPT !.up = FALSE]
  <2>1. /\ DOMAIN Restored(cfg, f) = DOMAIN fresh /\ Restored(cfg, f).weights = fresh.weights
        /\ Restored(cfg, f).after = fresh.after /\ Restored(cfg, f).recorded = fresh.recorded
    BY <1>1, <1>4 DEF LayerFields
  <2> QED BY <1>1, <2>1
<1>5. CASE f.kind = "state" /\ f.hash = cfg /\ Restored(cfg, f) = whole
  <2>1. /\ DOMAIN Restored(cfg, f) = LayerFields /\ Restored(cfg, f).weights = f.weights
        /\ Restored(cfg, f).after = f.after /\ Restored(cfg, f).recorded = f.activation
    BY <1>5 DEF LayerFields
  <2> QED BY <1>5, <2>1
<1> QED BY <1>2, <1>3, <1>4, <1>5

\* A step that decides nothing and after which the layer and the file are what some decision left.
LEMMA NothingDecidedKeeps ==
    ASSUME AllocationInv, past' = past, config' \in MetaConfigs,
           DOMAIN layer' = LayerFields, LeftBy(past, layer'.after, config', layer'.weights, layer'.recorded),
           stateFile'.kind \in {"none", "broken", "state"},
           stateFile'.kind = "state" =>
              LeftBy(past, stateFile'.after, stateFile'.hash, stateFile'.weights, stateFile'.activation),
           decision'.kind \in {"never", "failure_safe"} \/ (decision' = decision /\ config' = config)
    PROVE  AllocationInv'
<1>1. CASE decision'.kind \in {"never", "failure_safe"}
  BY <1>1 DEF AllocationInv, LeftBy, After, Weights, Recorded, WeightOK, Moderate
<1>2. CASE decision'.kind \notin {"never", "failure_safe"} /\ decision' = decision /\ config' = config
  <2>1. Ruled(config, decision)
    BY <1>2 DEF AllocationInv
  <2>2. (Ruled(config, decision))'
    BY <1>2, <2>1 DEF Ruled, WeightOK, Moderate
  <2> QED BY <1>2, <2>2 DEF AllocationInv, LeftBy, After, Weights, Recorded, WeightOK, Moderate
<1> QED BY <1>1, <1>2

LEMMA AllocationKeeps ==
    ASSUME AllocationInv, [AllocationNext]_<<metaVars, allocationVars>>
    PROVE  AllocationInv'
<1>0. /\ config \in MetaConfigs /\ stateFile.kind \in {"none", "broken", "state"}
      /\ stateFile.kind = "state" =>
            LeftBy(past, stateFile.after, stateFile.hash, stateFile.weights, stateFile.activation)
      /\ DOMAIN layer = LayerFields /\ LeftBy(past, layer.after, config, layer.weights, layer.recorded)
      /\ Len(past) \in Nat
  BY DEF AllocationInv
<1>1. CASE Decide(day)
  BY <1>1, DecideKeeps
<1>2. CASE SafeHold(day)
  <2>1. decision'.kind = "failure_safe" /\ UNCHANGED <<config, layer, stateFile, past>>
    BY <1>2 DEF SafeHold, FailureSafe
  <2> QED BY <1>0, <2>1, NothingDecidedKeeps
<1>3. ASSUME NEW a, Transition(a) PROVE AllocationInv'
  <2>1. layer' = [layer EXCEPT !.activation = a] /\ UNCHANGED <<config, decision, stateFile, past>>
    BY <1>3 DEF Transition
  <2>2. /\ DOMAIN layer' = DOMAIN layer /\ layer'.weights = layer.weights
        /\ layer'.after = layer.after /\ layer'.recorded = layer.recorded
    BY <2>1
  <2> QED BY <1>0, <2>1, <2>2, NothingDecidedKeeps
<1>4. CASE SaveState
  <2>1. /\ stateFile'.kind = "state" /\ stateFile'.weights = layer.weights /\ stateFile'.after = layer.after
        /\ stateFile'.hash = config /\ stateFile'.activation = layer.recorded
        /\ UNCHANGED <<config, layer, decision, past>>
    BY <1>4 DEF SaveState
  <2> QED BY <1>0, <2>1, NothingDecidedKeeps
<1>5. CASE CorruptState
  <2>1. stateFile'.kind = "broken" /\ UNCHANGED <<config, layer, decision, past>>
    BY <1>5 DEF CorruptState
  <2> QED BY <1>0, <2>1, NothingDecidedKeeps
<1>6. ASSUME NEW cfg \in MetaConfigs, RestartLayer(cfg) PROVE AllocationInv'
  <2>1. /\ config' = cfg /\ layer' = Restored(cfg, stateFile) /\ stateFile' = stateFile
        /\ decision'.kind = "never" /\ past' = past
    BY <1>6 DEF RestartLayer, NoDecision
  <2>2. /\ DOMAIN Restored(cfg, stateFile) = LayerFields
        /\ LeftBy(past, Restored(cfg, stateFile).after, cfg, Restored(cfg, stateFile).weights,
                  Restored(cfg, stateFile).recorded)
    BY <1>0, RestoredIsLeftBy
  <2> QED BY <1>0, <2>1, <2>2, NothingDecidedKeeps
<1>7. CASE UNCHANGED metaVars
  BY <1>0, <1>7, NothingDecidedKeeps DEF metaVars
<1>8. \/ MetaNext(day) \/ UNCHANGED metaVars
  BY DEF AllocationNext
<1> QED BY <1>1, <1>2, <1>3, <1>4, <1>5, <1>6, <1>7, <1>8 DEF MetaNext

\* MetaLayer.decide, _apply_budget, _apply_modes, __init__ and deserialize: for any strategies,
\* certificates, correlations and configurations the code accepts, over any decisions, restarts
\* under any configuration and state files that are old, damaged or missing: a strategy that is not
\* eligible has no weight, no leg and no vote; every decision moves a weight by no more than the
\* change limit from what an earlier decision of the same configuration gave it, unless a named
\* reason makes it zero; and a layer that runs holds what one such decision left.
THEOREM AllocationHolds == AllocationSpec => []AllocationSound
BY AllocationInvIsSound, AllocationStart, AllocationKeeps, PTL DEF AllocationSpec

-----------------------------------------------------------------------------
(* The book                                                                 *)

BookSpec == BookInit /\ [][BookNext]_bookVars

\* A part of the candidates weighs no more than the whole, nobody weighs nothing.
LEMMA WeightGrows ==
    /\ Weight({}) = 0
    /\ \A U \in SUBSET Ids : Weight(U) \in Nat /\ \A T \in SUBSET U : Weight(T) <= Weight(U)
<1> DEFINE w == [i \in Ids |-> Entries[i].weight]
<1>1. IsFiniteSet(Ids) /\ \A i \in Ids : w[i] \in Nat /\ w[i] \in Int
  BY BookAssumption DEF Ids
<1> HIDE DEF w
<1>2. SumTable(w, Ids, Sums(w, Ids))
  BY <1>1, SumsIsTable
<1>3. Sums(w, Ids)[{}] = 0
  BY <1>2 DEF SumTable
<1>4. \A U \in SUBSET Ids : Sums(w, Ids)[U] \in Nat /\ \A T \in SUBSET U : Sums(w, Ids)[T] <= Sums(w, Ids)[U]
  BY <1>1, SumsAreNat, SumsGrow
<1>5. \A U : Weight(U) = Sums(w, Ids)[U]
  BY DEF Weight, Tally, Sums, w
<1> QED BY <1>3, <1>4, <1>5

\* Multiplication of naturals keeps the order.
LEMMA ProductGrows ==
    \A a, b, t, c \in Nat : a <= b /\ t <= c => a * t <= c * b
<1> SUFFICES ASSUME NEW a \in Nat, NEW b \in Nat, NEW t \in Nat, NEW c \in Nat, a <= b, t <= c
             PROVE  a * t <= c * b
  OBVIOUS
<1>1. PICK d \in Nat : b = a + d
  <2>1. b - a \in Nat /\ b = a + (b - a)
    OBVIOUS
  <2> QED BY <2>1
<1>2. PICK e \in Nat : c = t + e
  <2>1. c - t \in Nat /\ c = t + (c - t)
    OBVIOUS
  <2> QED BY <2>1
<1>3. c * b = a * t + (t * d + e * a + e * d)
  BY <1>1, <1>2
<1>4. t * d \in Nat /\ e * a \in Nat /\ e * d \in Nat /\ a * t \in Nat
  OBVIOUS
<1> QED BY <1>3, <1>4

\* Every cap is at least the target.
Wide(target) == \A cap \in Caps : target <= cap

LEMMA CapsAreNat == Caps \subseteq Nat
BY BookAssumption DEF Caps

\* Within a target no cap is exceeded, whoever is in the selection and whoever is alike.
LEMMA WideAdmits ==
    ASSUME NEW sel \in Seq(Ids), NEW i \in Ids, NEW target \in Nat, Wide(target)
    PROVE  WithinCaps(i, sel, target)
<1>1. Range(sel) \in SUBSET Ids
  BY DEF Range
<1> DEFINE w == Entries[i].weight
           all == Weight(Range(sel))
<1>2. w \in Nat /\ all \in Nat
  BY <1>1, WeightGrows, BookAssumption DEF Ids
<1>3. ASSUME NEW alike, NEW cap \in Caps PROVE ~Exceeds(i, sel, target, cap, alike)
  <2> DEFINE base == Weight(Range(sel) \cap alike)
  <2>0. Range(sel) \cap alike \in SUBSET Range(sel) /\ Range(sel) \cap alike \in SUBSET Ids
    BY <1>1
  <2>1. base \in Nat /\ base <= all
    BY <1>1, <2>0, WeightGrows
  <2>2. cap \in Nat /\ target <= cap
    BY <1>3, CapsAreNat DEF Wide
  <2>3. Exceeds(i, sel, target, cap, alike) <=> (base + w) * target > cap * (all + w)
    BY DEF Exceeds, WeightOf
  <2> HIDE DEF base, w, all
  <2>4. base + w \in Nat /\ all + w \in Nat /\ base + w <= all + w
    BY <1>2, <2>1
  <2>5. (base + w) * target <= cap * (all + w)
    BY <2>2, <2>4, ProductGrows
  <2>6. (base + w) * target \in Nat /\ cap * (all + w) \in Nat
    BY <2>2, <2>4
  <2> QED BY <2>3, <2>5, <2>6
<1>4. /\ Limits.strategy \in Caps /\ Limits.symbol \in Caps
      /\ Limits.direction \in Caps /\ Limits.class \in Caps
  BY DEF Caps
<1> QED BY <1>3, <1>4 DEF WithinCaps

\* Beyond a cap the first candidate is refused already: it is all there is.
LEMMA FirstIsWide ==
    ASSUME NEW i \in Ids, NEW target \in Nat, Admitted(i, <<>>, target)
    PROVE  Wide(target)
<1> DEFINE w == Entries[i].weight
<1>1. Range(<<>>) = {} /\ \A alike : {} \cap alike = {}
  BY DEF Range
<1>2. WeightOf(<<>>) = 0 /\ \A alike : Weight(Range(<<>>) \cap alike) = 0
  BY <1>1, WeightGrows DEF WeightOf
<1>3. w \in Nat /\ 0 + w > 0
  BY <1>2, BookAssumption DEF Admitted, Ids
<1>4. ASSUME NEW alike, NEW cap \in Caps, ~Exceeds(i, <<>>, target, cap, alike) PROVE target <= cap
  <2>1. ~((0 + w) * target > cap * (0 + w))
    BY <1>2, <1>4 DEF Exceeds
  <2>2. cap \in Nat
    BY <1>4, CapsAreNat
  <2>3. SUFFICES ASSUME ~(target <= cap) PROVE FALSE
    OBVIOUS
  <2>4. PICK d \in Nat : target = cap + 1 + d
    <3>1. target - (cap + 1) \in Nat /\ target = cap + 1 + (target - (cap + 1))
      BY <2>2, <2>3
    <3> QED BY <3>1
  <2> HIDE DEF w
  <2>5. w * target = w * cap + w + w * d /\ w * d \in Nat /\ w * cap \in Nat
    BY <1>3, <2>2, <2>4
  <2>6. (0 + w) * target = w * target /\ cap * (0 + w) = w * cap
    BY <1>3, <2>2
  <2> QED BY <1>3, <2>1, <2>5, <2>6
<1>5. WithinCaps(i, <<>>, target)
  BY DEF Admitted
<1>6. /\ Limits.strategy \in Caps /\ Limits.symbol \in Caps
      /\ Limits.direction \in Caps /\ Limits.class \in Caps
      /\ \A cap \in Caps : cap \in {Limits.strategy, Limits.symbol, Limits.direction, Limits.class}
  BY DEF Caps
<1> HIDE DEF w
<1>7. /\ target <= Limits.strategy /\ target <= Limits.symbol
      /\ target <= Limits.direction /\ target <= Limits.class
  BY <1>4, <1>5, <1>6 DEF WithinCaps
<1> QED BY <1>6, <1>7 DEF Wide

\* Within a target what is held is within the caps: nobody has to fall out.
LEMMA WideIsRealized ==
    ASSUME NEW sel \in Seq(Ids), NEW target \in Nat, sel # <<>> => Wide(target)
    PROVE  RealizedOk(sel, target)
<1>1. Range(sel) \in SUBSET Ids
  BY DEF Range
<1>2. SUFFICES ASSUME NEW b \in Buckets(sel) PROVE Weight(b[1]) * target <= b[2] * WeightOf(sel)
  BY DEF RealizedOk
<1>3. b[1] \in SUBSET Range(sel) /\ b[2] \in Caps /\ Range(sel) # {}
  <2> DEFINE like(i, f) == {j \in Range(sel) : f[j] = f[i]}
  <2>1. PICK i \in Range(sel) :
           \/ b = <<{i}, Limits.strategy>>
           \/ \E f : b = <<like(i, f), Limits.symbol>>
           \/ \E f : b = <<like(i, f), Limits.direction>>
           \/ \E f : b = <<like(i, f), Limits.class>>
    BY Zenon DEF Buckets
  <2>2. \A f : like(i, f) \in SUBSET Range(sel)
    OBVIOUS
  <2>3. {i} \in SUBSET Range(sel)
    OBVIOUS
  <2> HIDE DEF like
  <2> QED BY <2>1, <2>2, <2>3 DEF Caps
<1>4. sel # <<>>
  BY <1>3 DEF Range
<1>5. Weight(b[1]) \in Nat /\ WeightOf(sel) \in Nat /\ Weight(b[1]) <= WeightOf(sel)
  <2>1. b[1] \in SUBSET Ids
    BY <1>1, <1>3
  <2> QED BY <1>1, <1>3, <2>1, WeightGrows DEF WeightOf
<1>6. b[2] \in Nat /\ target <= b[2]
  BY <1>3, <1>4, CapsAreNat DEF Wide
<1> QED BY <1>5, <1>6, ProductGrows

LEMMA EntriesAreNat ==
    /\ \A i \in Ids : Entries[i].score \in 0..100 /\ Entries[i].score \in Int /\ Entries[i].weight \in Nat
    /\ MinScore \in Int /\ Limits.strength \in Nat /\ Limits.redundant \in Nat
BY BookAssumption DEF Ids

\* A known correlation is the one element of its set.
LEMMA KnownCorrelation ==
    ASSUME NEW i \in Ids, NEW j \in Ids
    PROVE  /\ Corr[<<i, j>>] = Corr[<<j, i>>]
           /\ \A c \in Corr[<<i, j>>] : c \in 0..100 /\ c = Rho(i, j)
           /\ Corr[<<i, j>>] # {} => Rho(i, j) \in Corr[<<i, j>>]
<1>1. /\ Corr[<<i, j>>] = Corr[<<j, i>>]
      /\ Corr[<<i, j>>] = {} \/ \E c \in 0..100 : Corr[<<i, j>>] = {c}
  BY BookAssumption DEF Ids
<1>2. CASE Corr[<<i, j>>] = {}
  BY <1>1, <1>2
<1>3. ASSUME NEW c \in 0..100, Corr[<<i, j>>] = {c}
      PROVE  Rho(i, j) = c
  BY <1>3 DEF Rho
<1> QED BY <1>1, <1>2, <1>3

\* A penalty that takes the score below the minimum is due to one of those it is averaged over.
LEMMA PenalizedByOne ==
    ASSUME NEW i \in Ids, NEW sel \in Seq(Ids), Penalized(i, sel)
    PROVE  \E j \in Comparable(i, sel) : Limits.strength * Rho(i, j) > 100 * (Entries[i].score - MinScore)
<1> DEFINE asked == Comparable(i, sel)
           f == [j \in asked |-> Limits.strength * Rho(i, j)]
           most == 100 * (Entries[i].score - MinScore)
<1>1. SUFFICES ASSUME \A j \in asked : ~(Limits.strength * Rho(i, j) > most) PROVE FALSE
  OBVIOUS
<1>2. asked \in SUBSET Ids /\ IsFiniteSet(asked)
  <2>1. asked \in SUBSET Ids
    BY DEF Comparable, Range
  <2> QED BY <2>1, BookAssumption, FS_Subset DEF Ids
<1>3. most \in Int /\ Entries[i].score - MinScore \in Int
  BY EntriesAreNat
<1>4. ASSUME NEW j \in asked PROVE f[j] \in Int /\ f[j] <= most
  <2>1. j \in Ids /\ Corr[<<i, j>>] # {}
    BY <1>2, <1>4 DEF Comparable
  <2>5. Rho(i, j) \in Corr[<<i, j>>] /\ (\A c \in Corr[<<i, j>>] : c \in 0..100)
    BY ONLY <2>1, i \in Ids, KnownCorrelation
  <2>6. PICK rho : rho = Rho(i, j)
    OBVIOUS
  <2>7. rho \in 0..100
    BY ONLY <2>5, <2>6
  <2>8. rho \in Int
    BY ONLY <2>7
  <2>2. Rho(i, j) \in Int
    BY <2>6, <2>8
  <2>3. Limits.strength \in Nat
    BY EntriesAreNat
  <2> DEFINE v == Limits.strength * Rho(i, j)
  <2>4. v \in Int /\ f[j] = v /\ ~(v > most)
    BY <1>1, <2>2, <2>3
  <2> HIDE DEF v, most, f
  <2> QED BY <1>3, <2>4
<1>5. Penalized(i, sel) <=> Tally(f, asked)[asked] > 100 * Cardinality(asked) * (Entries[i].score - MinScore)
  BY DEF Penalized
<1>6. Tally(f, asked)[asked] = Sums(f, asked)[asked]
  BY DEF Tally, Sums
<1> HIDE DEF f, asked
<1>7. Sums(f, asked)[asked] <= Cardinality(asked) * most
  BY <1>2, <1>3, <1>4, SumsAreUnder
<1>8. Sums(f, asked)[asked] \in Int /\ Cardinality(asked) \in Nat
  BY <1>2, <1>4, SumsAreInt, FS_CardinalityType
<1>9. 100 * Cardinality(asked) * (Entries[i].score - MinScore) = Cardinality(asked) * most
  <2>1. \A n, k \in Int : 100 * n * k = n * (100 * k)
    OBVIOUS
  <2> QED BY <1>3, <1>8, <2>1
<1>10. Cardinality(asked) * most \in Int
  BY <1>3, <1>8
<1> HIDE DEF most
<1> QED BY <1>5, <1>6, <1>7, <1>8, <1>9, <1>10

\* The candidates in turn: nobody yet, and what each turn makes of the one before.
Ranked(ids) == {i \in ids : Entries[i].score >= MinScore}
FirstTurn(ids) == [left |-> Ranked(ids), sel |-> <<>>]
NextTurn(s, target) ==
    [left |-> s.left \ {Best(s.left)},
     sel |-> IF Admitted(Best(s.left), s.sel, target) THEN Append(s.sel, Best(s.left)) ELSE s.sel]
TurnTable(ids, target, last, turn) ==
    turn = [n \in 0..last |-> IF n = 0 THEN FirstTurn(ids) ELSE NextTurn(turn[n - 1], target)]

LEMMA TurnTableExists ==
    ASSUME NEW ids, NEW target, NEW last \in Nat
    PROVE  \E turn : TurnTable(ids, target, last, turn)
<1> DEFINE missing == {n \in Nat : ~\E turn : TurnTable(ids, target, n, turn)}
<1>1. SUFFICES ASSUME missing # {} PROVE FALSE
  OBVIOUS
<1>2. PICK n \in missing : \A m \in missing : n <= m
  BY <1>1, LeastNumber
<1>3. n \in Nat /\ ~\E turn : TurnTable(ids, target, n, turn)
  BY <1>2
<1>4. CASE n = 0
  <2> DEFINE g == [k \in 0..0 |-> FirstTurn(ids)]
  <2>1. g = [k \in 0..0 |-> IF k = 0 THEN FirstTurn(ids) ELSE NextTurn(g[k - 1], target)]
    OBVIOUS
  <2> HIDE DEF g
  <2> QED BY <1>3, <1>4, <2>1 DEF TurnTable
<1>5. CASE n # 0
  <2> HIDE DEF missing
  <2>1. n - 1 \in Nat /\ n - 1 \notin missing
    BY <1>2, <1>3, <1>5
  <2> USE DEF missing
  <2>2. PICK g : TurnTable(ids, target, n - 1, g)
    BY <2>1
  <2> DEFINE h == [k \in 0..n |-> IF k = n THEN NextTurn(g[n - 1], target) ELSE g[k]]
             step == [k \in 0..n |-> IF k = 0 THEN FirstTurn(ids) ELSE NextTurn(h[k - 1], target)]
  <2>3. \A k \in 0..(n - 1) : g[k] = IF k = 0 THEN FirstTurn(ids) ELSE NextTurn(g[k - 1], target)
    BY <2>2 DEF TurnTable
  <2>4. \A k \in 0..(n - 1) : h[k] = g[k]
    BY <1>3
  <2>5. ASSUME NEW k \in 0..n PROVE h[k] = step[k]
    <3>1. CASE k = n
      <4>1. h[n - 1] = g[n - 1]
        BY <1>3, <1>5, <2>1, <2>4
      <4>2. h[n] = NextTurn(g[n - 1], target)
        BY <1>3
      <4>3. step[n] = NextTurn(h[n - 1], target)
        BY <1>3, <1>5
      <4> QED BY <3>1, <4>1, <4>2, <4>3
    <3>2. CASE k = 0
      BY <1>5, <2>1, <2>3, <3>2
    <3>3. CASE k # n /\ k # 0
      <4>1. k \in 0..(n - 1) /\ k - 1 \in 0..(n - 1)
        BY <1>3, <3>3
      <4>2. h[k] = NextTurn(g[k - 1], target)
        BY <2>3, <2>4, <3>3, <4>1
      <4>3. h[k - 1] = g[k - 1]
        BY <2>4, <4>1
      <4>4. step[k] = NextTurn(h[k - 1], target)
        BY <3>3
      <4> QED BY <4>2, <4>3, <4>4
    <3> QED BY <3>1, <3>2, <3>3
  <2>6. h = step
    BY <2>5
  <2> HIDE DEF h
  <2> QED BY <1>3, <2>6 DEF TurnTable
<1> QED BY <1>4, <1>5

LEMMA RankedIsFinite ==
    ASSUME NEW ids \in SUBSET Ids
    PROVE  Ranked(ids) \in SUBSET Ids /\ IsFiniteSet(Ranked(ids)) /\ Cardinality(Ranked(ids)) \in Nat
<1>1. Ranked(ids) \in SUBSET Ids
  BY DEF Ranked
<1>2. IsFiniteSet(Ranked(ids))
  BY <1>1, BookAssumption, FS_Subset DEF Ids
<1> QED BY <1>1, <1>2, FS_CardinalityType

LEMMA TurnsIsTable ==
    ASSUME NEW ids \in SUBSET Ids, NEW target
    PROVE  TurnTable(ids, target, Cardinality(Ranked(ids)), Turns(ids, target))
<1>0. Cardinality(Ranked(ids)) \in Nat
  BY RankedIsFinite
<1>1. PICK g : TurnTable(ids, target, Cardinality(Ranked(ids)), g)
  BY <1>0, TurnTableExists
<1>2. Turns(ids, target) = CHOOSE g_ : TurnTable(ids, target, Cardinality(Ranked(ids)), g_)
  BY DEF Turns, TurnTable, FirstTurn, NextTurn, Ranked
<1> QED BY <1>1, <1>2

\* Among candidates on offer there is a best one.
LEMMA BestIsOffered ==
    ASSUME NEW ids \in SUBSET Ids, ids # {}
    PROVE  Best(ids) \in ids
<1> DEFINE short == {100 - Entries[i].score : i \in ids}
<1>1. \A i \in ids : Entries[i].score \in 0..100
  BY BookAssumption DEF Ids
<1>2. short \in SUBSET Nat /\ short # {}
  BY <1>1
<1>3. PICK x \in short : \A y \in short : x <= y
  BY <1>2, LeastNumber
<1>4. PICK i \in ids : x = 100 - Entries[i].score
  BY <1>3
<1>5. ASSUME NEW j \in ids PROVE Entries[j].score <= Entries[i].score
  <2>1. 100 - Entries[i].score <= 100 - Entries[j].score
    BY <1>3, <1>4
  <2>2. Entries[i].score \in 0..100 /\ Entries[j].score \in 0..100
    BY <1>1
  <2>3. \A p, q \in 0..100 : 100 - p <= 100 - q => q <= p
    OBVIOUS
  <2> QED BY <2>1, <2>2, <2>3, Zenon
<1> QED BY <1>5 DEF Best

\* What a selection is: ids in some order, no two of them known near-duplicates.
Apart(ids) == \A i, j \in ids : i # j => \A c \in Corr[<<i, j>>] : c < Limits.redundant
Selection(sel) == sel \in Seq(Ids) /\ Apart(Range(sel)) /\ Len(sel) <= MaxPositions

\* Why a candidate is left out, in terms of the selection alone.
Excused(i, sel, target) ==
    \/ ~Wide(target)
    \/ Len(sel) = MaxPositions
    \/ \E j \in Range(sel) : \E c \in Corr[<<i, j>>] :
          \/ c >= Limits.redundant
          \/ Limits.strength * c > 100 * (Entries[i].score - MinScore)

LEMMA AppendAddsOne ==
    ASSUME NEW S, NEW sel \in Seq(S), NEW i \in S
    PROVE  /\ Append(sel, i) \in Seq(S) /\ Range(Append(sel, i)) = Range(sel) \cup {i}
           /\ Len(Append(sel, i)) = Len(sel) + 1 /\ Len(sel) \in Nat
<1>1. /\ Append(sel, i) \in Seq(S) /\ Len(sel) \in Nat
      /\ DOMAIN Append(sel, i) = 1..(Len(sel) + 1) /\ DOMAIN sel = 1..Len(sel)
      /\ \A k \in 1..Len(sel) : Append(sel, i)[k] = sel[k]
      /\ Append(sel, i)[Len(sel) + 1] = i /\ Len(Append(sel, i)) = Len(sel) + 1
  OBVIOUS
<1>2. Range(Append(sel, i)) \subseteq Range(sel) \cup {i}
  BY <1>1 DEF Range
<1>3. i \in Range(Append(sel, i))
  BY <1>1 DEF Range
<1>4. Range(sel) \subseteq Range(Append(sel, i))
  BY <1>1 DEF Range
<1> QED BY <1>1, <1>2, <1>3, <1>4

LEMMA AdmittedStaysApart ==
    ASSUME NEW sel, Selection(sel), NEW i \in Ids, NEW target, Admitted(i, sel, target)
    PROVE  Selection(Append(sel, i))
<1>1. \A j \in Range(sel) : j \in Ids
  BY DEF Selection, Range
<1>2. ASSUME NEW j \in Range(sel), NEW c \in Corr[<<i, j>>] PROVE c < Limits.redundant
  <2>1. j \in Comparable(i, sel) /\ c = Rho(i, j) /\ c \in 0..100
    BY <1>1, <1>2, KnownCorrelation DEF Comparable
  <2>2. ~(Rho(i, j) >= Limits.redundant)
    BY <2>1 DEF Admitted, Redundant
  <2>3. Limits.redundant \in Nat
    BY BookAssumption
  <2> QED BY <2>1, <2>2, <2>3
<1>3. \A j \in Range(sel) : Corr[<<j, i>>] = Corr[<<i, j>>]
  BY <1>1, KnownCorrelation
<1>4. /\ Append(sel, i) \in Seq(Ids) /\ Range(Append(sel, i)) = Range(sel) \cup {i}
      /\ Len(Append(sel, i)) = Len(sel) + 1 /\ Len(sel) \in Nat
  BY AppendAddsOne DEF Selection
<1>5. Apart(Range(sel) \cup {i})
  BY <1>2, <1>3 DEF Selection, Apart
<1>6. Len(sel) < MaxPositions /\ MaxPositions \in Nat
  BY BookAssumption DEF Admitted
<1>7. Len(Append(sel, i)) <= MaxPositions
  BY <1>4, <1>6
<1> QED BY <1>4, <1>5, <1>7 DEF Selection

\* Who is refused has an excuse at that moment, and it stays one when others join.
LEMMA RefusedIsExcused ==
    ASSUME NEW sel, Selection(sel), NEW i \in Ids, NEW target \in Nat, Entries[i].weight > 0,
           ~Admitted(i, sel, target)
    PROVE  Excused(i, sel, target)
<1>1. sel \in Seq(Ids) /\ Len(sel) <= MaxPositions /\ Len(sel) \in Nat /\ MaxPositions \in Nat
  BY BookAssumption DEF Selection
<1>2. WeightOf(sel) + Entries[i].weight > 0
  <2>1. Range(sel) \in SUBSET Ids
    BY <1>1 DEF Range
  <2>2. WeightOf(sel) \in Nat /\ Entries[i].weight \in Nat
    BY <2>1, WeightGrows, BookAssumption DEF WeightOf, Ids
  <2> QED BY <2>2
<1>3. CASE ~Wide(target)
  BY <1>3 DEF Excused
<1>4. CASE ~(Len(sel) < MaxPositions)
  <2>1. Len(sel) = MaxPositions
    BY <1>1, <1>4
  <2> QED BY <2>1 DEF Excused
<1>5. CASE Redundant(i, sel)
  <2>1. PICK j \in Comparable(i, sel) : Rho(i, j) >= Limits.redundant
    BY <1>5 DEF Redundant
  <2>2. j \in Range(sel) /\ Corr[<<i, j>>] # {}
    BY <2>1 DEF Comparable
  <2>3. j \in Ids
    BY <1>1, <2>2 DEF Range
  <2>4. Rho(i, j) \in Corr[<<i, j>>]
    BY <2>2, <2>3, KnownCorrelation
  <2> QED BY <2>1, <2>2, <2>4 DEF Excused
<1>6. CASE Penalized(i, sel)
  <2>1. PICK j \in Comparable(i, sel) : Limits.strength * Rho(i, j) > 100 * (Entries[i].score - MinScore)
    BY <1>1, <1>6, PenalizedByOne
  <2>2. j \in Range(sel) /\ Corr[<<i, j>>] # {}
    BY <2>1 DEF Comparable
  <2>3. j \in Ids
    BY <1>1, <2>2 DEF Range
  <2>4. Rho(i, j) \in Corr[<<i, j>>]
    BY <2>2, <2>3, KnownCorrelation
  <2> QED BY <2>1, <2>2, <2>4 DEF Excused
<1>7. Wide(target) => WithinCaps(i, sel, target)
  BY <1>1, WideAdmits
<1> QED BY <1>2, <1>3, <1>4, <1>5, <1>6, <1>7 DEF Admitted

LEMMA ExcuseStays ==
    ASSUME NEW sel, Selection(sel), NEW i, NEW k \in Ids, NEW target, Admitted(k, sel, target),
           Excused(i, sel, target)
    PROVE  Excused(i, Append(sel, k), target)
<1>1. Range(Append(sel, k)) = Range(sel) \cup {k}
  BY AppendAddsOne DEF Selection
<1>2. Len(sel) # MaxPositions
  BY BookAssumption DEF Admitted, Selection
<1> QED BY <1>1, <1>2 DEF Excused

\* A turn: a selection, as many candidates left as turns are left, an excuse for who was left out.
Turn(s, ids, target, left) ==
    /\ s.left \in SUBSET Ranked(ids) /\ IsFiniteSet(s.left) /\ Cardinality(s.left) = left
    /\ Selection(s.sel) /\ (s.sel # <<>> => Wide(target))
    /\ \A i \in Ranked(ids) \ (s.left \cup Range(s.sel)) :
          Entries[i].weight > 0 => Excused(i, s.sel, target)

LEMMA TurnKeeps ==
    ASSUME NEW ids \in SUBSET Ids, NEW target \in Nat, NEW s, NEW left \in Nat \ {0},
           Turn(s, ids, target, left)
    PROVE  Turn(NextTurn(s, target), ids, target, left - 1)
<1> DEFINE i == Best(s.left)
           next == NextTurn(s, target)
<1>1. s.left # {} /\ s.left \in SUBSET Ids /\ s.left \in SUBSET Ranked(ids)
  BY FS_EmptySet, RankedIsFinite DEF Turn
<1>2. i \in s.left /\ i \in Ids /\ i \in Ranked(ids)
  BY <1>1, BestIsOffered
<1> HIDE DEF i
<1>3. /\ s.left \ {i} \in SUBSET Ranked(ids) /\ IsFiniteSet(s.left \ {i})
      /\ Cardinality(s.left \ {i}) = left - 1
  <2>1. IsFiniteSet(s.left) /\ Cardinality(s.left) = left
    BY DEF Turn
  <2>2. IsFiniteSet(s.left \ {i}) /\ Cardinality(s.left \ {i}) = Cardinality(s.left) - 1
    BY <1>2, <2>1, FS_RemoveElement
  <2> QED BY <1>1, <2>1, <2>2
<1>4. /\ next.left = s.left \ {i}
      /\ next.sel = IF Admitted(i, s.sel, target) THEN Append(s.sel, i) ELSE s.sel
  BY DEF NextTurn, i
<1>5. Selection(s.sel) /\ (s.sel # <<>> => Wide(target))
  BY DEF Turn
<1>6. \A j \in Ranked(ids) \ (s.left \cup Range(s.sel)) :
         Entries[j].weight > 0 => Excused(j, s.sel, target)
  BY DEF Turn
<1> HIDE DEF next
<1>7. ASSUME Admitted(i, s.sel, target) PROVE Turn(next, ids, target, left - 1)
  <2>1. next.sel = Append(s.sel, i) /\ Selection(next.sel)
    BY <1>2, <1>4, <1>5, <1>7, AdmittedStaysApart
  <2>2. Range(next.sel) = Range(s.sel) \cup {i}
    BY <1>2, <1>5, <2>1, AppendAddsOne DEF Selection
  <2>3. Wide(target)
    <3>1. CASE s.sel = <<>>
      BY <1>2, <1>7, <3>1, FirstIsWide
    <3> QED BY <1>5, <3>1
  <2>4. ASSUME NEW j \in Ranked(ids) \ (next.left \cup Range(next.sel)), Entries[j].weight > 0
        PROVE  Excused(j, next.sel, target)
    <3>1. j \in Ranked(ids) \ (s.left \cup Range(s.sel))
      BY <1>4, <2>2, <2>4
    <3>2. Excused(j, s.sel, target)
      BY <1>6, <2>4, <3>1
    <3> QED BY <1>2, <1>5, <1>7, <2>1, <3>2, ExcuseStays
  <2> QED BY <1>3, <1>4, <2>1, <2>3, <2>4 DEF Turn
<1>8. ASSUME ~Admitted(i, s.sel, target) PROVE Turn(next, ids, target, left - 1)
  <2>1. next.sel = s.sel
    BY <1>4, <1>8
  <2>2. ASSUME NEW j \in Ranked(ids) \ (next.left \cup Range(next.sel)), Entries[j].weight > 0
        PROVE  Excused(j, next.sel, target)
    <3>1. CASE j = i
      BY <1>2, <1>5, <1>8, <2>1, <2>2, <3>1, RefusedIsExcused
    <3>2. CASE j # i
      <4>1. j \in Ranked(ids) \ (s.left \cup Range(s.sel))
        BY <1>4, <2>1, <2>2, <3>2
      <4> QED BY <1>6, <2>1, <2>2, <4>1
    <3> QED BY <3>1, <3>2
  <2> QED BY <1>3, <1>4, <1>5, <2>1, <2>2 DEF Turn
<1> QED BY <1>7, <1>8 DEF next

LEMMA SelectedIsTurn ==
    ASSUME NEW ids \in SUBSET Ids, NEW target \in Nat
    PROVE  \E s : s.sel = Selected(ids, target) /\ Turn(s, ids, target, 0)
<1> DEFINE last == Cardinality(Ranked(ids))
           turn == Turns(ids, target)
           bad == {n \in 0..last : ~Turn(turn[n], ids, target, last - n)}
<1>1. last \in Nat
  BY RankedIsFinite
<1>2. TurnTable(ids, target, last, turn)
  BY TurnsIsTable
<1>3. Turn(FirstTurn(ids), ids, target, last)
  <2>1. <<>> \in Seq(Ids) /\ Range(<<>>) = {} /\ Len(<<>>) = 0 /\ MaxPositions \in Nat
    BY BookAssumption DEF Range
  <2> QED BY <2>1, RankedIsFinite DEF Turn, FirstTurn, Selection, Apart
<1> HIDE DEF turn, last
<1>4. \A n \in 0..last : turn[n] = IF n = 0 THEN FirstTurn(ids) ELSE NextTurn(turn[n - 1], target)
  BY <1>2 DEF TurnTable
<1>5. bad = {}
  <2>1. SUFFICES ASSUME bad # {} PROVE FALSE
    OBVIOUS
  <2> bad \in SUBSET Nat
    BY <1>1
  <2>2. PICK n \in bad : \A m \in bad : n <= m
    BY <2>1, LeastNumber
  <2>3. n \in 0..last /\ ~Turn(turn[n], ids, target, last - n)
    BY <2>2
  <2>4. n # 0
    <3>1. turn[0] = FirstTurn(ids) /\ last - 0 = last
      BY <1>1, <1>4
    <3> QED BY <1>3, <2>3, <3>1
  <2> HIDE DEF bad
  <2>5. n - 1 \in 0..last /\ n - 1 \notin bad
    BY <1>1, <2>2, <2>3, <2>4
  <2>6. Turn(turn[n - 1], ids, target, last - (n - 1))
    BY <2>5 DEF bad
  <2>7. last - (n - 1) \in Nat \ {0} /\ (last - (n - 1)) - 1 = last - n
    BY <1>1, <2>3, <2>4
  <2>8. Turn(NextTurn(turn[n - 1], target), ids, target, (last - (n - 1)) - 1)
    BY <2>6, <2>7, TurnKeeps
  <2>9. turn[n] = NextTurn(turn[n - 1], target)
    BY <1>4, <2>3, <2>4
  <2> QED BY <2>3, <2>7, <2>8, <2>9
<1>6. Turn(turn[last], ids, target, last - last) /\ last - last = 0
  BY <1>1, <1>5
<1>7. Selected(ids, target) = turn[last].sel
  BY DEF Selected, turn, last, Ranked
<1> QED BY <1>6, <1>7

\* What falls out one after the other.
NextFall(before, target) ==
    IF before = <<>> \/ RealizedOk(before, target) THEN before ELSE RemoveAt(before, LowestScore(before))
FallTable(sel, target, last, fall) ==
    fall = [n \in 0..last |-> IF n = 0 THEN sel ELSE NextFall(fall[n - 1], target)]

LEMMA FallTableExists ==
    ASSUME NEW sel, NEW target, NEW last \in Nat
    PROVE  \E fall : FallTable(sel, target, last, fall)
<1> DEFINE missing == {n \in Nat : ~\E fall : FallTable(sel, target, n, fall)}
<1>1. SUFFICES ASSUME missing # {} PROVE FALSE
  OBVIOUS
<1>2. PICK n \in missing : \A m \in missing : n <= m
  BY <1>1, LeastNumber
<1>3. n \in Nat /\ ~\E fall : FallTable(sel, target, n, fall)
  BY <1>2
<1>4. CASE n = 0
  <2> DEFINE g == [k \in 0..0 |-> sel]
  <2>1. g = [k \in 0..0 |-> IF k = 0 THEN sel ELSE NextFall(g[k - 1], target)]
    OBVIOUS
  <2> HIDE DEF g
  <2> QED BY <1>3, <1>4, <2>1 DEF FallTable
<1>5. CASE n # 0
  <2> HIDE DEF missing
  <2>1. n - 1 \in Nat /\ n - 1 \notin missing
    BY <1>2, <1>3, <1>5
  <2> USE DEF missing
  <2>2. PICK g : FallTable(sel, target, n - 1, g)
    BY <2>1
  <2> DEFINE h == [k \in 0..n |-> IF k = n THEN NextFall(g[n - 1], target) ELSE g[k]]
             step == [k \in 0..n |-> IF k = 0 THEN sel ELSE NextFall(h[k - 1], target)]
  <2>3. \A k \in 0..(n - 1) : g[k] = IF k = 0 THEN sel ELSE NextFall(g[k - 1], target)
    BY <2>2 DEF FallTable
  <2>4. \A k \in 0..(n - 1) : h[k] = g[k]
    BY <1>3
  <2>5. ASSUME NEW k \in 0..n PROVE h[k] = step[k]
    <3>1. CASE k = n
      <4>1. h[n - 1] = g[n - 1]
        BY <1>3, <1>5, <2>1, <2>4
      <4>2. h[n] = NextFall(g[n - 1], target)
        BY <1>3
      <4>3. step[n] = NextFall(h[n - 1], target)
        BY <1>3, <1>5
      <4> QED BY <3>1, <4>1, <4>2, <4>3
    <3>2. CASE k = 0
      BY <1>5, <2>1, <2>3, <3>2
    <3>3. CASE k # n /\ k # 0
      <4>1. k \in 0..(n - 1) /\ k - 1 \in 0..(n - 1)
        BY <1>3, <3>3
      <4>2. h[k] = NextFall(g[k - 1], target)
        BY <2>3, <2>4, <3>3, <4>1
      <4>3. h[k - 1] = g[k - 1]
        BY <2>4, <4>1
      <4>4. step[k] = NextFall(h[k - 1], target)
        BY <3>3
      <4> QED BY <4>2, <4>3, <4>4
    <3> QED BY <3>1, <3>2, <3>3
  <2>6. h = step
    BY <2>5
  <2> HIDE DEF h
  <2> QED BY <1>3, <2>6 DEF FallTable
<1> QED BY <1>4, <1>5

LEMMA FallsIsTable ==
    ASSUME NEW sel \in Seq(Ids), NEW target
    PROVE  FallTable(sel, target, Len(sel), Falls(sel, target))
<1>0. Len(sel) \in Nat
  OBVIOUS
<1>1. PICK g : FallTable(sel, target, Len(sel), g)
  BY <1>0, FallTableExists
<1>2. Falls(sel, target) = CHOOSE g_ : FallTable(sel, target, Len(sel), g_)
  BY DEF Falls, FallTable, NextFall
<1> QED BY <1>1, <1>2

\* Where the caps hold nobody falls out.
LEMMA NobodyFalls ==
    ASSUME NEW sel \in Seq(Ids), NEW target, RealizedOk(sel, target)
    PROVE  Shrunk(sel, target) = sel
<1> DEFINE last == Len(sel)
           fall == Falls(sel, target)
           bad == {n \in 0..last : fall[n] # sel}
<1>1. last \in Nat
  OBVIOUS
<1>2. FallTable(sel, target, last, fall)
  BY FallsIsTable
<1> HIDE DEF fall
<1>3. \A n \in 0..last : fall[n] = IF n = 0 THEN sel ELSE NextFall(fall[n - 1], target)
  BY <1>2 DEF FallTable
<1>4. NextFall(sel, target) = sel
  BY DEF NextFall
<1>5. bad = {}
  <2>1. SUFFICES ASSUME bad # {} PROVE FALSE
    OBVIOUS
  <2> bad \in SUBSET Nat
    BY <1>1
  <2>2. PICK n \in bad : \A m \in bad : n <= m
    BY <2>1, LeastNumber
  <2>3. n \in 0..last /\ fall[n] # sel /\ n # 0
    BY <1>1, <1>3, <2>2
  <2> HIDE DEF bad
  <2>4. n - 1 \in 0..last /\ n - 1 \notin bad
    BY <1>1, <2>2, <2>3
  <2>5. fall[n - 1] = sel
    BY <2>4 DEF bad
  <2>6. fall[n] = NextFall(fall[n - 1], target)
    BY <1>3, <2>3
  <2> QED BY <1>4, <2>3, <2>5, <2>6
<1>6. fall[last] = sel
  BY <1>1, <1>5
<1> QED BY <1>6 DEF Shrunk, fall

\* What is built: a selection, within every cap, and an excuse for everybody left out.
LEMMA BuiltIsSound ==
    ASSUME NEW ids \in SUBSET Ids, NEW target \in Nat, NEW built, built = BuildPortfolio(ids, target)
    PROVE  /\ RealizedOk(built, target) /\ Apart(Range(built)) /\ (built # <<>> => Wide(target))
           /\ \A i \in ids \ Range(built) :
                 Entries[i].score >= MinScore /\ Entries[i].weight > 0 => Excused(i, built, target)
<1>1. PICK s : s.sel = Selected(ids, target) /\ Turn(s, ids, target, 0)
  BY SelectedIsTurn
<1>2. /\ s.left = {} /\ Selection(s.sel) /\ (s.sel # <<>> => Wide(target))
      /\ \A i \in Ranked(ids) \ (s.left \cup Range(s.sel)) :
            Entries[i].weight > 0 => Excused(i, s.sel, target)
  BY <1>1, FS_EmptySet DEF Turn
<1>3. RealizedOk(s.sel, target)
  BY <1>2, WideIsRealized DEF Selection
<1>4. built = s.sel
  BY <1>1, <1>2, <1>3, NobodyFalls DEF BuildPortfolio, Selection
<1>5. ASSUME NEW i \in ids \ Range(built), Entries[i].score >= MinScore, Entries[i].weight > 0
      PROVE  Excused(i, built, target)
  <2>1. i \in Ranked(ids) \ (s.left \cup Range(s.sel))
    BY <1>2, <1>4, <1>5 DEF Ranked
  <2> QED BY <1>2, <1>4, <1>5, <2>1
<1> QED BY <1>2, <1>3, <1>4, <1>5 DEF Selection

-----------------------------------------------------------------------------
(* The score                                                                *)

LEMMA ClippedIs ==
    ASSUME NEW x \in Int
    PROVE  Clipped(x) = IF x <= 0 THEN 0 ELSE IF x <= 100 THEN x ELSE 100
<1>1. Min({100, x}) = IF 100 <= x THEN 100 ELSE x
  BY MinOfTwo
<1>2. Min({100, x}) \in Int
  BY <1>1
<1>3. Max({0, Min({100, x})}) = IF 0 >= Min({100, x}) THEN 0 ELSE Min({100, x})
  BY <1>2, MaxOfTwo
<1> QED BY <1>1, <1>2, <1>3 DEF Clipped

\* The normalizers: a higher share, profit factor and number of trades is better, a lower drawdown.
LEMMA NormalizedIs ==
    ASSUME NEW x \in Int
    PROVE  /\ Normalized("oos", x) = Clipped((x * 100) \div 100)
           /\ Normalized("pf", x) = Clipped(((x - 100) * 100) \div 100)
           /\ Normalized("dd", x) = Clipped(((30 - x) * 100) \div 25)
           /\ Normalized("trades", x) = Clipped(((x - 100) * 100) \div 900)
<1>1. /\ Normalizers["oos"][1] = 0 /\ Normalizers["oos"][2] = 100
      /\ Normalizers["pf"][1] = 100 /\ Normalizers["pf"][2] = 200
      /\ Normalizers["dd"][1] = 30 /\ Normalizers["dd"][2] = 5
      /\ Normalizers["trades"][1] = 100 /\ Normalizers["trades"][2] = 1000
  BY DEF Normalizers
<1>2. -(x - 30) = 30 - x /\ -(5 - 30) = 25 /\ x - 0 = x
  <2>1. \A p, q \in Int : -(p - q) = q - p
    OBVIOUS
  <2>2. 30 - 5 = 25 /\ 5 \in Int /\ 30 \in Int /\ x - 0 = x
    OBVIOUS
  <2> QED BY <2>1, <2>2
<1>3. Normalized("oos", x) = Clipped((x * 100) \div 100)
  BY <1>1 DEF Normalized
<1>4. Normalized("pf", x) = Clipped(((x - 100) * 100) \div 100)
  BY <1>1 DEF Normalized
<1>5. Normalized("dd", x) = Clipped(((30 - x) * 100) \div 25)
  BY <1>1, <1>2 DEF Normalized
<1>6. Normalized("trades", x) = Clipped(((x - 100) * 100) \div 900)
  BY <1>1 DEF Normalized
<1> QED BY <1>3, <1>4, <1>5, <1>6

LEMMA ClippedRises ==
    ASSUME NEW x \in Int, NEW y \in Int, x <= y
    PROVE  Clipped(x) <= Clipped(y) /\ Clipped(x) \in 0..100
BY ClippedIs

LEMMA NormalizedRises ==
    ASSUME NEW x \in Int, NEW y \in Int, x <= y
    PROVE  /\ Normalized("oos", x) <= Normalized("oos", y) /\ Normalized("pf", x) <= Normalized("pf", y)
           /\ Normalized("trades", x) <= Normalized("trades", y)
           /\ Normalized("dd", y) <= Normalized("dd", x)
<1>1. (x * 100) \div 100 \in Int /\ (y * 100) \div 100 \in Int /\ (x * 100) \div 100 <= (y * 100) \div 100
  OBVIOUS
<1>2. /\ ((x - 100) * 100) \div 100 \in Int /\ ((y - 100) * 100) \div 100 \in Int
      /\ ((x - 100) * 100) \div 100 <= ((y - 100) * 100) \div 100
  OBVIOUS
<1>3. /\ ((x - 100) * 100) \div 900 \in Int /\ ((y - 100) * 100) \div 900 \in Int
      /\ ((x - 100) * 100) \div 900 <= ((y - 100) * 100) \div 900
  <2>1. (x - 100) * 100 \in Int /\ (y - 100) * 100 \in Int /\ (x - 100) * 100 <= (y - 100) * 100
    OBVIOUS
  <2>2. \A p, q \in Int : p <= q => p \div 900 \in Int /\ q \div 900 \in Int /\ p \div 900 <= q \div 900
    OBVIOUS
  <2> QED BY <2>1, <2>2
<1>4. /\ ((30 - x) * 100) \div 25 \in Int /\ ((30 - y) * 100) \div 25 \in Int
      /\ ((30 - y) * 100) \div 25 <= ((30 - x) * 100) \div 25
  <2>1. (30 - x) * 100 \in Int /\ (30 - y) * 100 \in Int /\ (30 - y) * 100 <= (30 - x) * 100
    OBVIOUS
  <2>2. \A p, q \in Int : p <= q => p \div 25 \in Int /\ q \div 25 \in Int /\ p \div 25 <= q \div 25
    OBVIOUS
  <2> QED BY <2>1, <2>2
<1>5. Normalized("oos", x) <= Normalized("oos", y)
  BY <1>1, NormalizedIs, ClippedRises
<1>6. Normalized("pf", x) <= Normalized("pf", y)
  BY <1>2, NormalizedIs, ClippedRises
<1>7. Normalized("trades", x) <= Normalized("trades", y)
  BY <1>3, NormalizedIs, ClippedRises
<1>8. Normalized("dd", y) <= Normalized("dd", x)
  BY <1>4, NormalizedIs, ClippedRises
<1> QED BY <1>5, <1>6, <1>7, <1>8

LEMMA NormalizedIsPercent ==
    ASSUME NEW x \in Int
    PROVE  /\ Normalized("oos", x) \in 0..100 /\ Normalized("pf", x) \in 0..100
           /\ Normalized("trades", x) \in 0..100 /\ Normalized("dd", x) \in 0..100
<1>1. /\ (x * 100) \div 100 \in Int /\ ((x - 100) * 100) \div 100 \in Int
      /\ ((x - 100) * 100) \div 900 \in Int /\ ((30 - x) * 100) \div 25 \in Int
  OBVIOUS
<1>2. \A z \in Int : Clipped(z) \in 0..100
  BY ClippedRises
<1>3. Normalized("oos", x) \in 0..100 /\ Normalized("pf", x) \in 0..100
  BY <1>1, <1>2, NormalizedIs
<1>4. Normalized("trades", x) \in 0..100 /\ Normalized("dd", x) \in 0..100
  BY <1>1, <1>2, NormalizedIs
<1> QED BY <1>3, <1>4

\* Evidence is one number or none.
Evidence(e) == (\A x \in e : x \in Int) /\ \A x, y \in e : x = y

LEMMA ContributionIs ==
    ASSUME NEW c, NEW e, Evidence(e)
    PROVE  /\ e = {} => Contribution(c, e) = 0
           /\ \A x \in e : Contribution(c, e) = ScoreWeights[c] * Normalized(c, x)
<1>1. ASSUME NEW x \in e PROVE Contribution(c, e) = ScoreWeights[c] * Normalized(c, x)
  <2>1. (CHOOSE y \in e : TRUE) \in e
    OBVIOUS
  <2>2. (CHOOSE y \in e : TRUE) = x
    BY <2>1 DEF Evidence
  <2>3. e # {}
    OBVIOUS
  <2> QED BY <2>2, <2>3 DEF Contribution
<1> QED BY <1>1 DEF Contribution

LEMMA ContributionRises ==
    ASSUME NEW c \in {"oos", "pf", "trades", "dd"},
           NEW worse, Evidence(worse), NEW better, Evidence(better),
           \A x \in worse : \E y \in better : IF c = "dd" THEN y <= x ELSE x <= y
    PROVE  /\ Contribution(c, worse) \in Int /\ Contribution(c, better) \in Int
           /\ Contribution(c, worse) <= Contribution(c, better)
<1>1. ScoreWeights[c] \in {6, 8, 12}
  BY DEF ScoreWeights
<1>2. \A x \in Int : Normalized(c, x) \in 0..100
  BY NormalizedIsPercent
<1>3. \A w \in {6, 8, 12}, n \in 0..100 : w * n \in Int /\ w * n >= 0
  OBVIOUS
<1>4. \A w \in {6, 8, 12}, m, n \in 0..100 : m <= n => w * m <= w * n
  OBVIOUS
<1>5. CASE worse = {} /\ better = {}
  BY <1>5, ContributionIs
<1>6. CASE worse = {} /\ better # {}
  <2>1. PICK y \in better : TRUE
    BY <1>6
  <2>2. /\ Contribution(c, better) = ScoreWeights[c] * Normalized(c, y) /\ Contribution(c, worse) = 0
        /\ y \in Int
    BY <1>6, ContributionIs DEF Evidence
  <2>3. ScoreWeights[c] * Normalized(c, y) \in Int /\ ScoreWeights[c] * Normalized(c, y) >= 0
    BY <1>1, <1>2, <1>3, <2>2
  <2> QED BY <2>2, <2>3
<1>7. CASE worse # {}
  <2>1. PICK x \in worse : TRUE
    BY <1>7
  <2>2. PICK y \in better : IF c = "dd" THEN y <= x ELSE x <= y
    BY <2>1
  <2>3. x \in Int /\ y \in Int
    BY DEF Evidence
  <2>4. /\ Contribution(c, worse) = ScoreWeights[c] * Normalized(c, x)
        /\ Contribution(c, better) = ScoreWeights[c] * Normalized(c, y)
    BY ContributionIs
  <2>5. Normalized(c, x) <= Normalized(c, y)
    <3>1. CASE c = "oos"
      BY <2>2, <2>3, <3>1, NormalizedRises
    <3>2. CASE c = "pf"
      BY <2>2, <2>3, <3>2, NormalizedRises
    <3>3. CASE c = "trades"
      BY <2>2, <2>3, <3>3, NormalizedRises
    <3>4. CASE c = "dd"
      BY <2>2, <2>3, <3>4, NormalizedRises
    <3> QED BY <3>1, <3>2, <3>3, <3>4
  <2>6. Normalized(c, x) \in 0..100 /\ Normalized(c, y) \in 0..100
    BY <1>2, <2>3
  <2>7. /\ ScoreWeights[c] * Normalized(c, x) <= ScoreWeights[c] * Normalized(c, y)
        /\ ScoreWeights[c] * Normalized(c, x) \in Int /\ ScoreWeights[c] * Normalized(c, y) \in Int
    BY <1>1, <1>3, <1>4, <2>5, <2>6
  <2> QED BY <2>4, <2>7
<1> QED BY <1>5, <1>6, <1>7

\* What is measured of the overfitting share is some integer part of the score, the same for equal shares.
LEMMA OverfittingCounts ==
    ASSUME NEW e, Evidence(e)
    PROVE  Contribution("pbo", e) \in Int
<1>1. ScoreWeights["pbo"] = 7 /\ Normalizers["pbo"][1] = 50 /\ Normalizers["pbo"][2] = 0
  BY DEF ScoreWeights, Normalizers
<1>2. ASSUME NEW x \in Int PROVE Normalized("pbo", x) \in 0..100
  <2>1. ((50 - x) * 100) \div 50 \in Int
    <3>1. \A p \in Int : p \div 50 \in Int
      OBVIOUS
    <3>2. (50 - x) * 100 \in Int
      OBVIOUS
    <3> QED BY <3>1, <3>2
  <2>2. -(x - 50) = 50 - x /\ -(0 - 50) = 50
    <3>1. \A p, q \in Int : -(p - q) = q - p
      OBVIOUS
    <3>2. 50 - 0 = 50 /\ 50 \in Int /\ 0 \in Int
      OBVIOUS
    <3> QED BY <3>1, <3>2
  <2>3. Normalized("pbo", x) = Clipped(((50 - x) * 100) \div 50)
    BY <1>1, <2>2 DEF Normalized
  <2> QED BY <2>1, <2>3, ClippedRises
<1>3. CASE e = {}
  BY <1>3, ContributionIs
<1>4. CASE e # {}
  <2>1. PICK x \in e : TRUE
    BY <1>4
  <2>2. x \in Int /\ Contribution("pbo", e) = 7 * Normalized("pbo", x)
    BY <1>1, ContributionIs DEF Evidence
  <2>3. Normalized("pbo", x) \in 0..100
    BY <1>2, <2>2
  <2> QED BY <2>2, <2>3
<1> QED BY <1>3, <1>4

LEMMA BetterIsHigher ==
    ASSUME NEW a \in Measurements, NEW b \in Measurements, a.pbo = b.pbo,
           \A x \in b.oos : \E y \in a.oos : y >= x, \A x \in b.pf : \E y \in a.pf : y >= x,
           \A x \in b.trades : \E y \in a.trades : y >= x, \A x \in b.dd : \E y \in a.dd : y <= x
    PROVE  ComputeScore(a) >= ComputeScore(b)
<1>1. /\ Evidence(a.oos) /\ Evidence(a.pf) /\ Evidence(a.dd) /\ Evidence(a.trades) /\ Evidence(a.pbo)
      /\ Evidence(b.oos) /\ Evidence(b.pf) /\ Evidence(b.dd) /\ Evidence(b.trades) /\ Evidence(b.pbo)
  BY MeasurementAssumption, Zenon DEF Evidence
<1> DEFINE capped(e) == {Min({x, 300}) : x \in e}
           survival(e) == {100 - x : x \in e}
<1>2. \A x \in Int : Min({x, 300}) = IF x <= 300 THEN x ELSE 300
  BY MinOfTwo
<1>3. ASSUME NEW e, Evidence(e) PROVE Evidence(capped(e)) /\ Evidence(survival(e))
  <2>1. \A x \in e : x \in Int /\ Min({x, 300}) \in Int /\ 100 - x \in Int
    BY <1>2, <1>3 DEF Evidence
  <2>2. \A x, y \in e : x = y
    BY <1>3 DEF Evidence
  <2>3. (\A z \in capped(e) : z \in Int) /\ \A z \in survival(e) : z \in Int
    BY <2>1
  <2>4. \A z, v \in capped(e) : z = v
    BY <2>2
  <2>5. \A z, v \in survival(e) : z = v
    BY <2>2
  <2> HIDE DEF capped, survival
  <2> QED BY <2>3, <2>4, <2>5 DEF Evidence
<1>4. ASSUME NEW z \in capped(b.pf) PROVE \E v \in capped(a.pf) : z <= v
  <2>1. PICK x \in b.pf : z = Min({x, 300})
    OBVIOUS
  <2>2. PICK y \in a.pf : y >= x
    OBVIOUS
  <2>3. x \in Int /\ y \in Int
    BY <1>1 DEF Evidence
  <2>4. z <= Min({y, 300})
    BY <1>2, <2>1, <2>2, <2>3
  <2>5. Min({y, 300}) \in capped(a.pf)
    OBVIOUS
  <2> QED BY <2>4, <2>5
<1>5. /\ Evidence(capped(a.pf)) /\ Evidence(capped(b.pf)) /\ Evidence(survival(a.pbo))
  BY <1>1, <1>3
<1> HIDE DEF capped, survival
<1>6. /\ Contribution("oos", b.oos) \in Int /\ Contribution("oos", a.oos) \in Int
      /\ Contribution("oos", b.oos) <= Contribution("oos", a.oos)
  <2>1. \A x \in b.oos : \E y \in a.oos : IF "oos" = "dd" THEN y <= x ELSE x <= y
    BY <1>1 DEF Evidence
  <2> QED BY <1>1, <2>1, ContributionRises
<1>7. /\ Contribution("pf", capped(b.pf)) \in Int /\ Contribution("pf", capped(a.pf)) \in Int
      /\ Contribution("pf", capped(b.pf)) <= Contribution("pf", capped(a.pf))
  <2>1. \A x \in capped(b.pf) : \E y \in capped(a.pf) : IF "pf" = "dd" THEN y <= x ELSE x <= y
    BY <1>4
  <2> QED BY <1>5, <2>1, ContributionRises
<1>8. /\ Contribution("dd", b.dd) \in Int /\ Contribution("dd", a.dd) \in Int
      /\ Contribution("dd", b.dd) <= Contribution("dd", a.dd)
  <2>1. \A x \in b.dd : \E y \in a.dd : IF "dd" = "dd" THEN y <= x ELSE x <= y
    OBVIOUS
  <2> QED BY <1>1, <2>1, ContributionRises
<1>9. /\ Contribution("trades", b.trades) \in Int /\ Contribution("trades", a.trades) \in Int
      /\ Contribution("trades", b.trades) <= Contribution("trades", a.trades)
  <2>1. \A x \in b.trades : \E y \in a.trades : IF "trades" = "dd" THEN y <= x ELSE x <= y
    BY <1>1 DEF Evidence
  <2> QED BY <1>1, <2>1, ContributionRises
<1>10. Contribution("pbo", survival(a.pbo)) \in Int
  BY <1>5, OverfittingCounts
<1>11. ASSUME NEW m
       PROVE  ComputeScore(m) = Contribution("oos", m.oos) + Contribution("pf", capped(m.pf))
                                + Contribution("dd", m.dd) + Contribution("trades", m.trades)
                                + Contribution("pbo", survival(m.pbo))
  BY DEF ComputeScore, Measured, capped, survival
<1> HIDE DEF ComputeScore
<1>12. survival(b.pbo) = survival(a.pbo)
  OBVIOUS
<1> DEFINE ao == Contribution("oos", a.oos)
           ap == Contribution("pf", capped(a.pf))
           ad == Contribution("dd", a.dd)
           at == Contribution("trades", a.trades)
           bo == Contribution("oos", b.oos)
           bp == Contribution("pf", capped(b.pf))
           bd == Contribution("dd", b.dd)
           bt == Contribution("trades", b.trades)
           same == Contribution("pbo", survival(a.pbo))
<1>13. ComputeScore(a) = ao + ap + ad + at + same
  BY <1>11
<1>14. ComputeScore(b) = bo + bp + bd + bt + same
  BY <1>11, <1>12
<1>15. /\ bo \in Int /\ ao \in Int /\ bo <= ao /\ bp \in Int /\ ap \in Int /\ bp <= ap
       /\ bd \in Int /\ ad \in Int /\ bd <= ad /\ bt \in Int /\ at \in Int /\ bt <= at /\ same \in Int
  BY <1>6, <1>7, <1>8, <1>9, <1>10
<1> HIDE DEF ao, ap, ad, at, bo, bp, bd, bt, same
<1> QED BY <1>13, <1>14, <1>15

-----------------------------------------------------------------------------
(* The invariant of the book                                                *)

\* What is held was built within the limits, and what is scored was measured.
BookInv == BookWithinLimits /\ LeftOutForAReason /\ scored \subseteq Measurements

LEMMA BookStart == BookInit => BookInv
<1> SUFFICES ASSUME BookInit PROVE BookInv
  OBVIOUS
<1>1. book = [offered |-> {}, positions |-> <<>>, target |-> 0] /\ scored = {}
  BY DEF BookInit
<1>2. InBook = {}
  BY <1>1 DEF InBook, Range
<1>3. RealizedOk(<<>>, 0)
  <2>1. <<>> \in Seq(Ids) /\ 0 \in Nat
    OBVIOUS
  <2> QED BY <2>1, WideIsRealized
<1> QED BY <1>1, <1>2, <1>3 DEF BookInv, BookWithinLimits, LeftOutForAReason

LEMMA BookKeeps == BookInv /\ [BookNext]_bookVars => BookInv'
<1> SUFFICES ASSUME BookInv, [BookNext]_bookVars PROVE BookInv'
  OBVIOUS
<1>1. ASSUME NEW m \in Measurements, ScoreRun(m) PROVE BookInv'
  BY <1>1 DEF ScoreRun, BookInv, BookWithinLimits, LeftOutForAReason, InBook
<1>2. ASSUME NEW ids \in SUBSET Ids, NEW t \in Targets, Assemble(ids, t) PROVE BookInv'
  <2> DEFINE built == BuildPortfolio(ids, t)
  <2>1. book'.positions = built /\ book'.target = t /\ book'.offered = ids /\ scored' = scored
    BY <1>2 DEF Assemble
  <2>2. t \in Nat
    BY BookAssumption
  <2>3. /\ RealizedOk(built, t) /\ Apart(Range(built)) /\ (built # <<>> => Wide(t))
        /\ \A i \in ids \ Range(built) :
              Entries[i].score >= MinScore /\ Entries[i].weight > 0 => Excused(i, built, t)
    BY <2>2, BuiltIsSound
  <2> HIDE DEF built
  <2>4. InBook' = Range(built)
    BY <2>1 DEF InBook
  <2>5. BookWithinLimits'
    BY <2>1, <2>3, <2>4 DEF BookWithinLimits, Apart, Wide
  <2>6. ASSUME NEW i \in ids \ Range(built), Entries[i].score >= MinScore, Entries[i].weight > 0
        PROVE  \/ \E cap \in Caps : t > cap
               \/ Len(built) = MaxPositions
               \/ \E j \in Range(built) : \E c \in Corr[<<i, j>>] :
                     \/ c >= Limits.redundant
                     \/ Limits.strength * c > 100 * (Entries[i].score - MinScore)
    <3>1. Excused(i, built, t)
      BY <2>3, <2>6
    <3>2. ~Wide(t) => \E cap \in Caps : t > cap
      BY <2>2, CapsAreNat DEF Wide
    <3> QED BY <3>1, <3>2 DEF Excused
  <2>7. LeftOutForAReason'
    BY <2>1, <2>4, <2>6 DEF LeftOutForAReason
  <2> QED BY <2>1, <2>5, <2>7 DEF BookInv
<1>3. CASE UNCHANGED bookVars
  BY <1>3 DEF bookVars, BookInv, BookWithinLimits, LeftOutForAReason, InBook
<1> QED BY <1>1, <1>2, <1>3 DEF BookNext

LEMMA BookInvIsSound == BookInv => BookIsSound
<1> SUFFICES ASSUME BookInv PROVE BookIsSound
  OBVIOUS
<1>1. BetterScoresHigher
  BY BetterIsHigher DEF BookInv, BetterScoresHigher
<1> QED BY <1>1 DEF BookInv, BookIsSound

\* portfolio.build_portfolio and score.compute_score: for any candidates with scores, weights and
\* symmetric correlations, known or not, any caps, target and number of positions: whatever is
\* offered, no two known near-duplicates are held, the caps hold without anybody falling out, whoever
\* is left out is so for the target, the positions or one that is held; and evidence at least as good
\* in each component scores at least as high, whatever is missing of the worse.
THEOREM BookHolds == BookSpec => []BookIsSound
BY BookStart, BookKeeps, BookInvIsSound, PTL DEF BookSpec
=============================================================================
