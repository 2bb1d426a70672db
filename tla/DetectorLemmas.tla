--------------------------- MODULE DetectorLemmas ---------------------------
(***************************************************************************)
(* The lemmas that the proofs about the two detectors share: what Min and  *)
(* Max of the community modules return, where a pixel's offset is, and how *)
(* a sum over a set changes with its terms.                                *)
(***************************************************************************)
EXTENDS Integers, FiniteSets, FiniteSetsExt, Functions, FiniteSetTheorems,
        WellFoundedInduction, TLAPS

(* Every set of naturals that is not empty has a least element.            *)
LEMMA NatMin ==
  ASSUME NEW S, S \subseteq Nat, S # {}
  PROVE  Min(S) \in S /\ \A y \in S : Min(S) <= y
<1>1. \E m \in S : \A y \in S : ~ (<<y, m>> \in OpToRel(<, Nat))
  BY NatLessThanWellFounded, WFMin
<1>2. PICK m \in S : \A y \in S : ~ (<<y, m>> \in OpToRel(<, Nat))
  BY <1>1
<1>3. ASSUME NEW y \in S PROVE m <= y
  <2>1. ~ (y < m)
    BY <1>2 DEF OpToRel
  <2>2. QED
    BY <2>1
<1>4. QED
  BY <1>3 DEF Min

(* The least of two numbers.                                               *)
LEMMA MinOfTwo ==
  ASSUME NEW a \in Int, NEW b \in Int
  PROVE  Min({a, b}) = IF a <= b THEN a ELSE b
<1> DEFINE m == IF a <= b THEN a ELSE b
<1>1. m \in {a, b} /\ \A y \in {a, b} : m <= y
  OBVIOUS
<1>2. ASSUME NEW x \in {a, b}, \A y \in {a, b} : x <= y PROVE x = m
  BY <1>2
<1>3. QED
  BY <1>1, <1>2 DEF Min

(* The greatest of two numbers.                                            *)
LEMMA MaxOfTwo ==
  ASSUME NEW a \in Int, NEW b \in Int
  PROVE  Max({a, b}) = IF a >= b THEN a ELSE b
<1> DEFINE m == IF a >= b THEN a ELSE b
<1>1. m \in {a, b} /\ \A y \in {a, b} : m >= y
  OBVIOUS
<1>2. ASSUME NEW x \in {a, b}, \A y \in {a, b} : x >= y PROVE x = m
  BY <1>2
<1>3. QED
  BY <1>1, <1>2 DEF Max

(* A bounded set of naturals that is not empty has a greatest element.     *)
LEMMA NatMax ==
  ASSUME NEW S, NEW n \in Nat, S \subseteq 0 .. n, S # {}
  PROVE  Max(S) \in S /\ \A y \in S : y <= Max(S)
<1> DEFINE T == {n - y : y \in S}
<1>1. T \subseteq Nat /\ T # {}
  <2>1. \A y \in S : n - y \in Nat
    OBVIOUS
  <2>2. QED
    BY <2>1
<1>2. Min(T) \in T /\ \A z \in T : Min(T) <= z
  BY <1>1, NatMin
<1>3. PICK m \in S : Min(T) = n - m
  BY <1>2
<1>4. ASSUME NEW y \in S PROVE m >= y
  <2>1. n - m <= n - y
    BY <1>2, <1>3
  <2>2. m \in Int /\ y \in Int
    OBVIOUS
  <2>3. QED
    BY <2>1, <2>2
<1>5. \E x \in S : \A y \in S : x >= y
  BY <1>4
<1>6. Max(S) \in S /\ \A y \in S : Max(S) >= y
  BY <1>5 DEF Max
<1>7. \A y \in S : y <= Max(S)
  BY <1>6
<1>8. QED
  BY <1>6, <1>7

(* The offset of a pixel of an image of width w and height h.              *)
LEMMA OffsetInside ==
  ASSUME NEW w \in Nat, NEW h \in Nat, NEW x \in Int, NEW y \in Int,
         0 <= x, x < w, 0 <= y, y < h
  PROVE  y * w + x \in 0 .. w * h - 1
<1>1. PICK z : z = h - 1 - y
  OBVIOUS
<1>2. z \in Nat /\ y \in Nat
  BY <1>1
<1>3. y * w \in Nat /\ w * z \in Nat
  BY <1>2
<1>4. w * h = w * z + y * w + w
  BY <1>1
<1>5. PICK p, q, t : p = y * w /\ q = w * z /\ t = w * h
  OBVIOUS
<1>6. p + x \in 0 .. t - 1
  BY <1>3, <1>4, <1>5
<1>7. QED
  BY <1>5, <1>6

------------------------------------------------------------------------------
(* SumFunctionOnSet: a sum over a set may be taken in any order.  The      *)
(* function it defines by recursion exists for every finite set, and what  *)
(* it gives a part of the set does not depend on the rest.                 *)
Picked(s) == CHOOSE x \in s : TRUE

SumAt(f, g, s) == IF s = {} THEN 0 ELSE f[Picked(s)] + g[s \ {Picked(s)}]

Sums(f, S, g) == g = [s \in SUBSET S |-> SumAt(f, g, s)]

(* The same of the subsets with at most n elements.                        *)
UpTo(f, S, n, g) ==
  \A s \in SUBSET S : Cardinality(s) <= n => g[s] = SumAt(f, g, s)

(* What a set is without the element the recursion takes.                  *)
LEMMA PickedOf ==
  ASSUME NEW S, IsFiniteSet(S), NEW s \in SUBSET S, s # {}
  PROVE  /\ Picked(s) \in s /\ s \ {Picked(s)} \in SUBSET S
         /\ IsFiniteSet(s)
         /\ Cardinality(s) \in Nat /\ Cardinality(s \ {Picked(s)}) \in Nat
         /\ Cardinality(s \ {Picked(s)}) = Cardinality(s) - 1
<1>1. Picked(s) \in s
  BY DEF Picked
<1>2. IsFiniteSet(s) /\ Cardinality(s) \in Nat
  BY FS_Subset, FS_CardinalityType
<1>3. PICK c, t : c = Picked(s) /\ t = s \ {c}
  OBVIOUS
<1>4. IsFiniteSet(t) /\ Cardinality(t) = Cardinality(s) - 1
  BY <1>1, <1>2, <1>3, FS_RemoveElement
<1>5. Cardinality(t) \in Nat
  BY <1>4, FS_CardinalityType
<1>6. QED
  BY <1>1, <1>2, <1>3, <1>4, <1>5

(* A property of the parts of a finite set that a part has when every      *)
(* smaller part has it holds of all: there is no smallest part without it. *)
LEMMA NoSmallest ==
  ASSUME NEW S, IsFiniteSet(S), NEW Bad, Bad \subseteq SUBSET S,
         \A s \in Bad : \E t \in Bad : Cardinality(t) < Cardinality(s)
  PROVE  Bad = {}
<1>1. PICK N : N = {Cardinality(s) : s \in Bad}
  OBVIOUS
<1>2. \A s \in SUBSET S : Cardinality(s) \in Nat
  BY FS_Subset, FS_CardinalityType
<1>3. SUFFICES ASSUME Bad # {} PROVE FALSE
  OBVIOUS
<1>4. N \subseteq Nat /\ N # {}
  BY <1>1, <1>2, <1>3
<1>5. Min(N) \in N /\ \A m \in N : Min(N) <= m
  BY <1>4, NatMin
<1>6. PICK s \in Bad : Cardinality(s) = Min(N)
  BY <1>1, <1>5
<1>7. PICK t \in Bad : Cardinality(t) < Min(N)
  BY <1>6
<1>8. Cardinality(t) \in N /\ Cardinality(t) \in Nat
  BY <1>1, <1>2
<1>9. Min(N) <= Cardinality(t) /\ Min(N) \in Nat
  BY <1>4, <1>5, <1>8
<1>10. QED
  BY <1>7, <1>8, <1>9

(* The sums of the parts of up to n elements, for every n.                 *)
LEMMA SumsUpTo ==
  ASSUME NEW f, NEW S, IsFiniteSet(S), NEW n \in Nat
  PROVE  \E g : UpTo(f, S, n, g)
<1> USE DEF UpTo
<1> DEFINE Bad == {m \in Nat : ~ \E g : UpTo(f, S, m, g)}
<1>1. \A s \in SUBSET S : IsFiniteSet(s) /\ Cardinality(s) \in Nat
  BY FS_Subset, FS_CardinalityType
<1>2. 0 \notin Bad
  <2>1. PICK g : g = [s \in SUBSET S |-> 0]
    OBVIOUS
  <2>2. \A s \in SUBSET S : Cardinality(s) <= 0 => s = {}
    BY <1>1, FS_EmptySet
  <2>3. UpTo(f, S, 0, g)
    BY <2>1, <2>2 DEF SumAt
  <2>4. QED
    BY <2>3
<1>3. ASSUME NEW m \in Nat, m \notin Bad PROVE m + 1 \notin Bad
  <2>1. PICK g : UpTo(f, S, m, g)
    BY <1>3
  <2>2. PICK h : h = [s \in SUBSET S |-> IF Cardinality(s) <= m THEN g[s]
                                         ELSE SumAt(f, g, s)]
    OBVIOUS
  <2>3. ASSUME NEW s \in SUBSET S, Cardinality(s) <= m + 1
        PROVE  h[s] = SumAt(f, h, s)
    <3>1. h[s] = SumAt(f, g, s)
      BY <2>1, <2>2
    <3>2. CASE s = {}
      BY <3>1, <3>2 DEF SumAt
    <3>3. CASE s # {}
      <4>1. PICK t : t = s \ {Picked(s)}
        OBVIOUS
      <4>2. /\ t \in SUBSET S /\ Cardinality(t) = Cardinality(s) - 1
            /\ Cardinality(s) \in Nat
        BY <3>3, <4>1, PickedOf
      <4>3. Cardinality(t) <= m
        BY <2>3, <4>2
      <4>4. h[t] = g[t]
        BY <2>2, <4>2, <4>3
      <4>5. QED
        BY <3>1, <3>3, <4>1, <4>4 DEF SumAt
    <3>4. QED
      BY <3>2, <3>3
  <2>4. UpTo(f, S, m + 1, h)
    BY <2>3
  <2>5. QED
    BY <2>4
<1>4. SUFFICES ASSUME n \in Bad PROVE FALSE
  OBVIOUS
<1>5. Bad \subseteq Nat /\ Bad # {}
  BY <1>4
<1>6. PICK m \in Bad : \A k \in Bad : m <= k
  BY <1>5, NatMin
<1>7. m \in Nat /\ m # 0
  BY <1>2, <1>6
<1>8. m - 1 \in Nat /\ m - 1 + 1 = m /\ ~(m <= m - 1)
  BY <1>7
<1>9. m - 1 \notin Bad
  BY <1>6, <1>8
<1> HIDE DEF Bad
<1>10. m - 1 + 1 \notin Bad
  BY <1>3, <1>8, <1>9
<1>11. QED
  BY <1>6, <1>8, <1>10

(* The recursion has a solution on the parts of a finite set.              *)
LEMMA SumsExist ==
  ASSUME NEW f, NEW S, IsFiniteSet(S)
  PROVE  \E g : Sums(f, S, g)
<1>1. Cardinality(S) \in Nat
  BY FS_CardinalityType
<1>2. PICK n \in Nat : n = Cardinality(S)
  BY <1>1
<1>3. \A s \in SUBSET S : Cardinality(s) <= n
  BY <1>2, FS_Subset
<1>4. PICK g : UpTo(f, S, n, g)
  BY <1>2, SumsUpTo
<1>5. PICK h : h = [s \in SUBSET S |-> g[s]]
  OBVIOUS
<1>6. ASSUME NEW s \in SUBSET S PROVE h[s] = SumAt(f, h, s)
  <2>1. g[s] = SumAt(f, g, s) /\ h[s] = g[s]
    BY <1>3, <1>4, <1>5 DEF UpTo
  <2>2. s # {} => s \ {Picked(s)} \in SUBSET S
    OBVIOUS
  <2>3. s # {} => h[s \ {Picked(s)}] = g[s \ {Picked(s)}]
    BY <1>5, <2>2
  <2>4. QED
    BY <2>1, <2>3 DEF SumAt
<1>7. h = [s \in SUBSET S |-> SumAt(f, h, s)]
  BY <1>5, <1>6
<1>8. QED
  BY <1>7 DEF Sums

(* SumFunctionOnSet is the value of such a solution.                       *)
LEMMA SumIs ==
  ASSUME NEW f, NEW S, IsFiniteSet(S)
  PROVE  \E g : Sums(f, S, g) /\ SumFunctionOnSet(f, S) = g[S]
<1>1. PICK g : g = CHOOSE h : Sums(f, S, h)
  OBVIOUS
<1>2. Sums(f, S, g)
  BY <1>1, SumsExist
<1>3. SumFunctionOnSet(f, S) = g[S]
  BY <1>1 DEF SumFunctionOnSet, FoldFunctionOnSet, MapThenFoldSet, Sums, SumAt,
     Picked
<1>4. QED
  BY <1>2, <1>3

(* Two functions with the same values on a part give it the same sum.      *)
LEMMA SumsAgree ==
  ASSUME NEW f, NEW S, IsFiniteSet(S), NEW g, Sums(f, S, g),
         NEW e, NEW T, NEW h, Sums(e, T, h), T \subseteq S,
         \A x \in T : f[x] = e[x]
  PROVE  \A s \in SUBSET T : g[s] = h[s]
<1>1. PICK Bad : Bad = {s \in SUBSET T : g[s] # h[s]}
  OBVIOUS
<1>2. ASSUME NEW s \in Bad
      PROVE  \E t \in Bad : Cardinality(t) < Cardinality(s)
  <2>1. s \in SUBSET T /\ s \in SUBSET S /\ g[s] # h[s]
    BY <1>1
  <2>2. g[s] = SumAt(f, g, s) /\ h[s] = SumAt(e, h, s)
    BY <2>1 DEF Sums
  <2>3. s # {}
    BY <2>1, <2>2 DEF SumAt
  <2>4. PICK c, t : c = Picked(s) /\ t = s \ {c}
    OBVIOUS
  <2>5. /\ c \in s /\ t \in SUBSET T
        /\ Cardinality(s) \in Nat /\ Cardinality(t) = Cardinality(s) - 1
    BY <2>1, <2>3, <2>4, PickedOf
  <2>6. g[s] = f[c] + g[t] /\ h[s] = e[c] + h[t] /\ f[c] = e[c]
    BY <2>1, <2>2, <2>3, <2>4, <2>5 DEF SumAt
  <2>7. g[t] # h[t]
    BY <2>1, <2>6
  <2>8. Cardinality(t) < Cardinality(s)
    BY <2>5
  <2>9. QED
    BY <1>1, <2>5, <2>7, <2>8
<1>3. IsFiniteSet(T) /\ Bad \subseteq SUBSET T
  BY <1>1, FS_Subset
<1>4. Bad = {}
  BY <1>2, <1>3, NoSmallest
<1>5. QED
  BY <1>1, <1>4

(* The lemmas about sums that the proofs cite.                             *)
LEMMA SumEmpty ==
  ASSUME NEW f
  PROVE  SumFunctionOnSet(f, {}) = 0
<1>1. IsFiniteSet({})
  BY FS_EmptySet
<1>2. PICK g : Sums(f, {}, g) /\ SumFunctionOnSet(f, {}) = g[{}]
  BY <1>1, SumIs
<1>3. QED
  BY <1>2 DEF Sums, SumAt

(* Only the values on the set count.                                       *)
LEMMA SumSame ==
  ASSUME NEW S, IsFiniteSet(S), NEW f, NEW e, \A x \in S : f[x] = e[x]
  PROVE  SumFunctionOnSet(f, S) = SumFunctionOnSet(e, S)
<1>1. PICK g : Sums(f, S, g) /\ SumFunctionOnSet(f, S) = g[S]
  BY SumIs
<1>2. PICK h : Sums(e, S, h) /\ SumFunctionOnSet(e, S) = h[S]
  BY SumIs
<1>3. \A s \in SUBSET S : g[s] = h[s]
  BY <1>1, <1>2, SumsAgree
<1>4. QED
  BY <1>1, <1>2, <1>3

(* The sum without the element the recursion takes.                        *)
LEMMA SumWithoutPicked ==
  ASSUME NEW S, IsFiniteSet(S), NEW f, S # {}
  PROVE  SumFunctionOnSet(f, S)
           = f[Picked(S)] + SumFunctionOnSet(f, S \ {Picked(S)})
<1>1. PICK c, t : c = Picked(S) /\ t = S \ {c}
  OBVIOUS
<1>2. IsFiniteSet(t) /\ t \subseteq S
  BY <1>1, FS_Subset
<1>3. PICK g : Sums(f, S, g) /\ SumFunctionOnSet(f, S) = g[S]
  BY SumIs
<1>4. PICK h : Sums(f, t, h) /\ SumFunctionOnSet(f, t) = h[t]
  BY <1>2, SumIs
<1>5. \A s \in SUBSET t : g[s] = h[s]
  BY <1>2, <1>3, <1>4, SumsAgree
<1>6. g[S] = f[c] + g[t]
  BY <1>1, <1>3 DEF Sums, SumAt
<1>7. QED
  BY <1>1, <1>3, <1>4, <1>5, <1>6

(* A sum of natural numbers is one.                                        *)
LEMMA SumTyped ==
  ASSUME NEW S, IsFiniteSet(S), NEW f, \A x \in S : f[x] \in Nat
  PROVE  SumFunctionOnSet(f, S) \in Nat
<1>1. PICK Bad : Bad = {s \in SUBSET S : SumFunctionOnSet(f, s) \notin Nat}
  OBVIOUS
<1>2. ASSUME NEW s \in Bad
      PROVE  \E t \in Bad : Cardinality(t) < Cardinality(s)
  <2>1. s \in SUBSET S /\ SumFunctionOnSet(f, s) \notin Nat
    BY <1>1
  <2>2. s # {}
    BY <2>1, SumEmpty
  <2>3. PICK c, t : c = Picked(s) /\ t = s \ {c}
    OBVIOUS
  <2>4. /\ c \in s /\ t \in SUBSET S /\ IsFiniteSet(s)
        /\ Cardinality(s) \in Nat /\ Cardinality(t) = Cardinality(s) - 1
    BY <2>1, <2>2, <2>3, PickedOf
  <2>5. SumFunctionOnSet(f, s) = f[c] + SumFunctionOnSet(f, t)
    BY <2>2, <2>3, <2>4, SumWithoutPicked
  <2>6. SumFunctionOnSet(f, t) \notin Nat
    BY <2>1, <2>4, <2>5
  <2>7. Cardinality(t) < Cardinality(s)
    BY <2>4
  <2>8. QED
    BY <1>1, <2>4, <2>6, <2>7
<1>3. Bad = {}
  BY <1>1, <1>2, NoSmallest
<1>4. QED
  BY <1>1, <1>3

(* The sum without any of its elements.                                    *)
LEMMA SumWithout ==
  ASSUME NEW S, IsFiniteSet(S), NEW f, \A y \in S : f[y] \in Nat, NEW x \in S
  PROVE  /\ SumFunctionOnSet(f, S) = f[x] + SumFunctionOnSet(f, S \ {x})
         /\ SumFunctionOnSet(f, S \ {x}) \in Nat
<1> DEFINE Right(s, y) ==
             SumFunctionOnSet(f, s) = f[y] + SumFunctionOnSet(f, s \ {y})
<1>1. PICK Bad : Bad = {s \in SUBSET S : \E y \in s : ~Right(s, y)}
  OBVIOUS
<1>2. \A s \in SUBSET S : SumFunctionOnSet(f, s) \in Nat
  BY FS_Subset, SumTyped
<1>3. ASSUME NEW s \in Bad
      PROVE  \E t \in Bad : Cardinality(t) < Cardinality(s)
  <2>1. s \in SUBSET S
    BY <1>1
  <2>2. PICK y \in s : ~Right(s, y)
    BY <1>1
  <2>3. PICK c, t, u, v : /\ c = Picked(s) /\ t = s \ {c} /\ u = s \ {y}
                          /\ v = t \ {y}
    OBVIOUS
  <2>4. /\ c \in s /\ t \in SUBSET S /\ IsFiniteSet(s)
        /\ Cardinality(s) \in Nat /\ Cardinality(t) = Cardinality(s) - 1
    BY <2>1, <2>2, <2>3, PickedOf
  <2>5. SumFunctionOnSet(f, s) = f[c] + SumFunctionOnSet(f, t)
    BY <2>2, <2>3, <2>4, SumWithoutPicked
  <2>6. y # c
    BY <2>2, <2>3, <2>5
  <2>7. /\ y \in t /\ c \in u /\ v = u \ {c} /\ v \in SUBSET S /\ u \in SUBSET S
    BY <2>1, <2>2, <2>3, <2>4, <2>6
  <2>8. Cardinality(u) = Cardinality(s) - 1
    BY <2>2, <2>3, <2>4, FS_RemoveElement
  <2>9. Cardinality(t) < Cardinality(s) /\ Cardinality(u) < Cardinality(s)
    BY <2>4, <2>8
  <2>10. SUFFICES ASSUME t \notin Bad, u \notin Bad PROVE FALSE
    BY <2>9
  <2>11. Right(t, y) /\ Right(u, c)
    BY <1>1, <2>4, <2>7, <2>10
  <2>12. PICK st, su, sv, ss :
           /\ st = SumFunctionOnSet(f, t) /\ su = SumFunctionOnSet(f, u)
           /\ sv = SumFunctionOnSet(f, v) /\ ss = SumFunctionOnSet(f, s)
    OBVIOUS
  <2>13. /\ st = f[y] + sv /\ su = f[c] + sv /\ ss = f[c] + st
    BY <2>3, <2>5, <2>7, <2>11, <2>12
  <2>14. f[y] \in Nat /\ f[c] \in Nat /\ sv \in Nat
    BY <1>2, <2>1, <2>2, <2>4, <2>7, <2>12
  <2>15. ss = f[y] + su
    BY <2>13, <2>14
  <2>16. QED
    BY <2>2, <2>3, <2>12, <2>15
<1>4. Bad = {}
  BY <1>1, <1>3, NoSmallest
<1>5. Right(S, x) /\ S \ {x} \in SUBSET S
  BY <1>1, <1>4
<1>6. QED
  BY <1>2, <1>5

(* A term that grows, a term more, and two that change places.             *)
LEMMA SumGains ==
  ASSUME NEW S, IsFiniteSet(S), NEW x \in S, NEW d \in Nat,
         NEW f, \A y \in S : f[y] \in Nat,
         NEW e, e[x] = f[x] + d, \A y \in S : y # x => e[y] = f[y]
  PROVE  SumFunctionOnSet(e, S) = SumFunctionOnSet(f, S) + d
<1>1. PICK t : t = S \ {x}
  OBVIOUS
<1>2. IsFiniteSet(t) /\ \A y \in t : e[y] = f[y]
  BY <1>1, FS_Subset
<1>3. \A y \in S : e[y] \in Nat
  OBVIOUS
<1>4. /\ SumFunctionOnSet(f, S) = f[x] + SumFunctionOnSet(f, t)
      /\ SumFunctionOnSet(f, t) \in Nat
  BY <1>1, SumWithout
<1>5. SumFunctionOnSet(e, S) = e[x] + SumFunctionOnSet(e, t)
  BY <1>1, <1>3, SumWithout
<1>6. SumFunctionOnSet(e, t) = SumFunctionOnSet(f, t)
  BY <1>2, SumSame
<1>7. f[x] \in Nat
  OBVIOUS
<1>8. QED
  BY <1>4, <1>5, <1>6, <1>7

(* A sum over one element more is larger by that element.                  *)
LEMMA SumAdds ==
  ASSUME NEW S, IsFiniteSet(S), NEW x, x \notin S,
         NEW T, x \in T, S \subseteq T, \A y \in T : y \in S \/ y = x,
         NEW f, \A y \in S : f[y] \in Nat,
         NEW e, e[x] \in Nat, \A y \in S : e[y] = f[y]
  PROVE  SumFunctionOnSet(e, T) = SumFunctionOnSet(f, S) + e[x]
<1>1. IsFiniteSet(T) /\ x \in T /\ S = T \ {x} /\ \A y \in T : e[y] \in Nat
  <2>1. T = S \cup {x}
    OBVIOUS
  <2>2. QED
    BY <2>1, FS_AddElement
<1>2. SumFunctionOnSet(e, T) = e[x] + SumFunctionOnSet(e, S)
  BY <1>1, SumWithout
<1>3. SumFunctionOnSet(e, S) = SumFunctionOnSet(f, S)
  BY SumSame
<1>4. SumFunctionOnSet(f, S) \in Nat
  BY SumTyped
<1>5. QED
  BY <1>1, <1>2, <1>3, <1>4

(* A sum stays when two of its elements share theirs differently.          *)
LEMMA SumMoved ==
  ASSUME NEW S, IsFiniteSet(S), NEW f, \A z \in S : f[z] \in Nat,
         NEW x \in S, NEW y \in S, x # y,
         NEW e, \A z \in S : e[z] \in Nat, e[x] + e[y] = f[x] + f[y],
         \A z \in S : z # x /\ z # y => e[z] = f[z]
  PROVE  SumFunctionOnSet(e, S) = SumFunctionOnSet(f, S)
<1>1. PICK t, u : t = S \ {x} /\ u = t \ {y}
  OBVIOUS
<1>2. IsFiniteSet(t) /\ IsFiniteSet(u) /\ y \in t /\ t \subseteq S
  BY <1>1, FS_Subset
<1>3. /\ SumFunctionOnSet(f, S) = f[x] + SumFunctionOnSet(f, t)
      /\ SumFunctionOnSet(e, S) = e[x] + SumFunctionOnSet(e, t)
  BY <1>1, SumWithout
<1>4. /\ SumFunctionOnSet(f, t) = f[y] + SumFunctionOnSet(f, u)
      /\ SumFunctionOnSet(f, u) \in Nat
  BY <1>1, <1>2, SumWithout
<1>5. SumFunctionOnSet(e, t) = e[y] + SumFunctionOnSet(e, u)
  BY <1>1, <1>2, SumWithout
<1>6. \A z \in u : e[z] = f[z]
  BY <1>1
<1>7. SumFunctionOnSet(e, u) = SumFunctionOnSet(f, u)
  BY <1>2, <1>6, SumSame
<1>8. e[x] \in Nat /\ e[y] \in Nat /\ f[x] \in Nat /\ f[y] \in Nat
  OBVIOUS
<1>9. QED
  BY <1>3, <1>4, <1>5, <1>7, <1>8
=============================================================================
