------------------------- MODULE StripeFilter_proofs -------------------------
(***************************************************************************)
(* Proofs about StripeFilter, for every size of the image, any lines and   *)
(* limits.                                                                 *)
(*                                                                         *)
(* The gradients of a line alternate because between two columns at which  *)
(* the threshold state changes it does not change.  A centre stays among   *)
(* the gradients because its sums do: count times the least coordinate is  *)
(* at most the sum.  A feature is golden because the clusters it was made  *)
(* of have not moved since, and none is missed because the search has left *)
(* nothing out of the clusters behind it.                                  *)
(***************************************************************************)
EXTENDS StripeFilter, DetectorLemmas, FiniteSetTheorems, SequenceTheorems, TLAPS

Gradient == [type : Types, x : Columns, y : Rows]
Cluster == [type : Types, count : Nat \ {0}, x : Columns, y : Rows,
            x_sum : Nat, y_sum : Nat]
FeatureInfo == [x_min : Columns, x_max : Columns, x_width : Nat,
                x_center : Columns, y_center : Rows]

ConstantsTyped ==
  /\ Width \in Nat \ {0} /\ Height \in Nat \ {0}
  /\ Lines \subseteq [Columns -> 0 .. 255]
  /\ MaxGradients \in Nat \ {0} /\ MaxClusters \in Nat \ {0}
  /\ MaxFeatures \in Nat \ {0}
  /\ MinCount \in Nat /\ DeltaY \in Nat \ {0}
  /\ MinStripe \in Nat \ {0} /\ MaxStripe \in Nat /\ MinStripe <= MaxStripe
  /\ MaxStripe <= 100
  /\ TextSize \in Nat /\ TextSize >= 11

(* The assumptions of the model, a fact for each constant.                 *)
LEMMA ConstantsAssumed == ConstantsTyped
  BY SizeAssumption, LinesAssumption, LimitsAssumption DEF ConstantsTyped

(* Where the elements of the lists are. *)
LEMMA ListsTyped ==
  /\ \A g \in Gradient : /\ g.x \in Nat /\ g.x < Width /\ g.x \in Columns
                        /\ g.y \in Nat /\ g.y < Height /\ g.y \in Rows
                        /\ g.type \in Types
  /\ \A c \in Cluster : /\ c.x \in Nat /\ c.x < Width /\ c.x \in Columns
                       /\ c.y \in Nat /\ c.y < Height /\ c.y \in Rows
                       /\ c.type \in Types /\ c.count \in Nat \ {0}
                       /\ c.x_sum \in Nat /\ c.y_sum \in Nat
  /\ \A f \in FeatureInfo : /\ f.x_min \in Nat /\ f.x_min < Width
                           /\ f.x_max \in Nat /\ f.x_max < Width
                           /\ f.y_center \in Nat /\ f.y_center < Height
                           /\ f.x_width \in Nat
<1>1. \A x \in Columns : x \in Nat /\ x < Width
  BY ConstantsAssumed DEF Columns, ConstantsTyped
<1>2. \A y \in Rows : y \in Nat /\ y < Height
  BY ConstantsAssumed DEF Rows, ConstantsTyped
<1>3. QED
  BY <1>1, <1>2 DEF Gradient, Cluster, FeatureInfo

------------------------------------------------------------------------------
(* The inductive invariant, a part for each list.                          *)
PhaseInv ==
  /\ pc \in {"scan", "cluster", "features", "paint", "text", "records", "done"}
  /\ line \in 0 .. Height /\ k \in Nat \ {0}
  /\ pc = "scan" => clusters = <<>>
  /\ pc \in {"scan", "cluster"} => features = <<>>

GradInv ==
  /\ grads \in Seq(Gradient) /\ Len(grads) < MaxGradients
  /\ pc = "scan" => \A n \in DOMAIN grads : grads[n].y < line
  /\ GradientsAlternate

(* The coordinates of the gradients of a type. *)
Xs(t) == {grads[n].x : n \in {m \in DOMAIN grads : grads[m].type = t}}
Ys(t) == {grads[n].y : n \in {m \in DOMAIN grads : grads[m].type = t}}

Between(S, n, sum) == n * Min(S) <= sum /\ sum <= n * Max(S)

SumsAmong(c) ==
  /\ Xs(c.type) # {} /\ Ys(c.type) # {}
  /\ Between(Xs(c.type), c.count, c.x_sum)
  /\ Between(Ys(c.type), c.count, c.y_sum)
  /\ c.x = c.x_sum \div c.count /\ c.y = c.y_sum \div c.count

ClusterInv ==
  /\ clusters \in Seq(Cluster) /\ Len(clusters) < MaxClusters
  /\ \A c \in DOMAIN clusters : SumsAmong(clusters[c])

(* What sf_find_features looks for at a cluster. *)
FoundAt(base) ==
  LET second == Neighbour(base)
      third == Neighbour(second)
      c1 == clusters[base]
      c2 == clusters[second]
      c3 == clusters[third]
  IN  /\ second # First /\ third # First
      /\ \A c \in {c1, c2, c3} : c.count >= MinCount
      /\ Stripe(c2.x - c1.x) /\ Stripe(c3.x - c2.x)
      /\ Golden(c2.x - c1.x, c3.x - c2.x)

FeatureAt(base) ==
  Feature(clusters[base], clusters[Neighbour(base)],
          clusters[Neighbour(Neighbour(base))])

(* The clusters that sf_find_features has been at. *)
Searched ==
  IF pc \in {"scan", "cluster"} THEN {}
  ELSE IF pc = "features" THEN {c \in DOMAIN clusters : c < k}
  ELSE DOMAIN clusters

FeatureInv ==
  /\ features \in Seq(FeatureInfo) /\ Len(features) < MaxFeatures
  /\ FeaturesAreGolden
  /\ \A n \in DOMAIN features :
       features[n].x_width = features[n].x_max - features[n].x_min
  /\ Len(features) < MaxFeatures - 1 =>
       \A c \in Searched :
         FoundAt(c) => \E n \in DOMAIN features : features[n] = FeatureAt(c)

TextInv ==
  /\ text \in [length : Nat, records : Nat, terminator : Nat]
  /\ pc \in {"paint", "text"} => k = 1
  /\ pc \notin {"records", "done"} => text = NoText
  /\ pc = "records" =>
       /\ k = text.records + 1 /\ text.records <= Len(features)
       /\ text.length = Taken(text.records) /\ text.length <= TextSize
  /\ TextHoldsFeatures

LostInv == (pc = "cluster" => k <= Len(grads) + 1) /\ NothingLost

StripeInv ==
  /\ PhaseInv /\ GradInv /\ ClusterInv /\ LostInv /\ FeatureInv /\ TextInv
  /\ PaintsInsideImage

------------------------------------------------------------------------------
(* The place of an element among those of a finite set of numbers.         *)
Rank(S, x) == Cardinality({z \in S : z < x})

(* An element has fewer below it than there are.                           *)
LEMMA RankOf ==
  ASSUME NEW S, IsFiniteSet(S), S \subseteq Nat, NEW x \in S
  PROVE  Rank(S, x) \in Nat /\ Rank(S, x) < Cardinality(S)
<1> DEFINE below == {z \in S : z < x}
<1>1. below \subseteq S /\ x \notin below
  OBVIOUS
<1>2. IsFiniteSet(below) /\ Cardinality(below) <= Cardinality(S)
  BY <1>1, FS_Subset
<1>3. IsFiniteSet(below \cup {x})
      /\ Cardinality(below \cup {x}) = Cardinality(below) + 1
  BY <1>1, <1>2, FS_AddElement
<1>4. below \cup {x} \subseteq S
  BY <1>1
<1>5. Cardinality(below \cup {x}) <= Cardinality(S)
  BY <1>4, FS_Subset
<1>6. Cardinality(below) \in Nat /\ Cardinality(S) \in Nat
  BY <1>2, FS_CardinalityType
<1>7. QED
  BY <1>3, <1>5, <1>6 DEF Rank

(* A greater element has more below it.                                    *)
LEMMA RankGrows ==
  ASSUME NEW S, IsFiniteSet(S), S \subseteq Nat,
         NEW x \in S, NEW y \in S, x < y
  PROVE  Rank(S, x) < Rank(S, y)
<1> DEFINE T == {z \in S : z < y}
<1>1. T \subseteq S /\ T \subseteq Nat /\ x \in T
  OBVIOUS
<1>2. IsFiniteSet(T)
  BY <1>1, FS_Subset
<1>3. {z \in T : z < x} = {z \in S : z < x}
  <2>1. ASSUME NEW z \in S, z < x PROVE z \in T
    BY <2>1
  <2>2. QED
    BY <2>1
<1>4. Rank(T, x) = Rank(S, x) /\ Rank(S, y) = Cardinality(T)
  BY <1>3 DEF Rank
<1> HIDE DEF T
<1>5. /\ Rank(T, x) \in Nat /\ Rank(T, x) < Cardinality(T)
      /\ Cardinality(T) \in Nat
  BY <1>1, <1>2, RankOf, FS_CardinalityType
<1>6. QED
  BY <1>4, <1>5

(* Every place is taken, so InOrder lists the elements, each once and from *)
(* the least to the greatest, and leaves none out between two.             *)
LEMMA RankTaken ==
  ASSUME NEW S, IsFiniteSet(S), S \subseteq Nat,
         NEW n \in 1 .. Cardinality(S)
  PROVE  \E x \in S : Rank(S, x) = n - 1
<1>1. PICK m : m = Cardinality(S)
  OBVIOUS
<1>2. m \in Nat
  BY <1>1, FS_CardinalityType
<1>3. PICK f : f = [x \in S |-> Rank(S, x) + 1]
  OBVIOUS
<1>4. \A x \in S : Rank(S, x) \in Nat /\ Rank(S, x) < m
  BY <1>1, RankOf
<1>5. f \in [S -> 1 .. m]
  <2>1. \A x \in S : Rank(S, x) + 1 \in 1 .. m
    BY <1>2, <1>4
  <2>2. QED
    BY <1>3, <2>1
<1>6. ASSUME NEW x \in S, NEW y \in S, f[x] = f[y] PROVE x = y
  <2>1. /\ Rank(S, x) \in Int /\ Rank(S, y) \in Int
        /\ Rank(S, x) + 1 = Rank(S, y) + 1
    BY <1>3, <1>4, <1>6
  <2>2. Rank(S, x) = Rank(S, y)
    BY <2>1
  <2>3. ASSUME NEW u \in S, NEW v \in S, Rank(S, u) = Rank(S, v),
               Rank(S, u) \in Int
        PROVE  ~(u < v)
    <3>1. u < v => Rank(S, u) < Rank(S, v)
      BY RankGrows
    <3>2. QED
      BY <2>3, <3>1
  <2>4. ~(x < y) /\ ~(y < x)
    BY <2>1, <2>2, <2>3
  <2>5. x \in Int /\ y \in Int
    OBVIOUS
  <2>6. QED
    BY <2>4, <2>5
<1>7. f \in Injection(S, 1 .. m)
  BY <1>5, <1>6 DEF Injection, IsInjective
<1>8. IsFiniteSet(1 .. m) /\ Cardinality(1 .. m) = m
  BY <1>2, FS_Interval
<1>9. f \in Surjection(S, 1 .. m)
  BY <1>1, <1>7, <1>8, FS_Injection
<1>10. PICK x \in S : f[x] = n
  BY <1>1, <1>9 DEF Surjection
<1>11. Rank(S, x) + 1 = n /\ Rank(S, x) \in Int
  BY <1>3, <1>4, <1>10
<1>12. QED
  BY <1>11

(* InOrder lists the elements by rank.                                     *)
LEMMA Ordered ==
  ASSUME NEW S, IsFiniteSet(S), S \subseteq Nat, NEW s, s = InOrder(S)
  PROVE  /\ Cardinality(S) \in Nat /\ DOMAIN s = 1 .. Cardinality(S)
         /\ \A n \in DOMAIN s : s[n] \in S /\ Rank(S, s[n]) = n - 1
<1>1. DOMAIN s = 1 .. Cardinality(S) /\ Cardinality(S) \in Nat
  BY FS_CardinalityType DEF InOrder
<1>2. ASSUME NEW n \in 1 .. Cardinality(S)
      PROVE  s[n] \in S /\ Rank(S, s[n]) = n - 1
  <2>1. s[n] = CHOOSE x \in S : Rank(S, x) = n - 1
    BY DEF InOrder, Rank
  <2>2. QED
    BY <2>1, RankTaken
<1>3. QED
  BY <1>1, <1>2

(* Its first is the least.                                                 *)
LEMMA OrderedFirst ==
  ASSUME NEW S, IsFiniteSet(S), S \subseteq Nat, NEW s, s = InOrder(S),
         1 \in DOMAIN s, NEW z \in S
  PROVE  s[1] <= z
<1>1. PICK a : a = s[1]
  OBVIOUS
<1>2. \A n \in DOMAIN s : s[n] \in S /\ Rank(S, s[n]) = n - 1
  BY Ordered, Zenon
<1>3. a \in S /\ Rank(S, a) = 0
  BY <1>1, <1>2
<1>4. Rank(S, z) \in Nat
  BY RankOf, Zenon
<1>5. z < a => Rank(S, z) < Rank(S, a)
  BY <1>3, RankGrows, Zenon
<1>6. ~(z < a) /\ z \in Nat /\ a \in Nat
  BY <1>3, <1>4, <1>5
<1>7. QED
  BY <1>1, <1>6

(* Two neighbours in the list have no element between them.                *)
LEMMA OrderedNext ==
  ASSUME NEW S, IsFiniteSet(S), S \subseteq Nat, NEW s, s = InOrder(S),
         NEW n \in DOMAIN s, n # 1
  PROVE  /\ n - 1 \in DOMAIN s /\ s[n - 1] < s[n]
         /\ \A z \in S : ~(s[n - 1] < z /\ z < s[n])
<1>1. PICK m : m = Cardinality(S)
  OBVIOUS
<1>2. /\ m \in Nat /\ DOMAIN s = 1 .. m
      /\ \A j \in DOMAIN s : s[j] \in S /\ Rank(S, s[j]) = j - 1
  BY <1>1, Ordered, Zenon
<1>3. n \in Int /\ n - 1 \in DOMAIN s
  BY <1>2
<1>4. PICK a, b : a = s[n - 1] /\ b = s[n]
  OBVIOUS
<1>5. a \in S /\ b \in S /\ Rank(S, a) = n - 2 /\ Rank(S, b) = n - 1
  BY <1>2, <1>3, <1>4
<1>6. b < a => Rank(S, b) < Rank(S, a)
  BY <1>5, RankGrows, Zenon
<1>7. a < b
  <2>1. ~(b < a) /\ a # b
    BY <1>3, <1>5, <1>6
  <2>2. a \in Nat /\ b \in Nat
    BY <1>5
  <2>3. QED
    BY <2>1, <2>2
<1>8. ASSUME NEW z \in S, a < z, z < b PROVE FALSE
  <2>1. Rank(S, a) < Rank(S, z) /\ Rank(S, z) < Rank(S, b)
    BY <1>5, <1>8, RankGrows, Zenon
  <2>2. Rank(S, z) \in Nat
    BY RankOf, Zenon
  <2>3. QED
    BY <1>3, <1>5, <2>1, <2>2
<1>9. QED
  BY <1>3, <1>4, <1>7, <1>8

------------------------------------------------------------------------------
(* Where the threshold state does not change it stays what it was.         *)
LEMMA StateStays ==
  ASSUME NEW p, NEW a \in Int, NEW b \in Int,
         FilterElems - 1 <= a, a <= b, b < Width,
         \A x \in a + 1 .. b : x \notin Changes(p)
  PROVE  b \in Above(p) <=> a \in Above(p)
<1> DEFINE S == {x \in a .. b : ~(x \in Above(p) <=> a \in Above(p))}
<1>1. SUFFICES ASSUME b \in S PROVE FALSE
  OBVIOUS
<1>2. S \subseteq Nat /\ S # {}
  BY <1>1 DEF FilterElems
<1>3. PICK m : m \in S /\ \A y \in S : m <= y
  BY <1>2, NatMin
<1>4. m \in a .. b /\ m # a /\ m \in Int
  BY <1>3
<1>5. m - 1 \in a .. b /\ m \in a + 1 .. b /\ m \in FilterElems .. Width - 1
  BY <1>4, ConstantsAssumed DEF FilterElems, ConstantsTyped
<1>6. ~(m <= m - 1)
  BY <1>4
<1>7. m - 1 \notin S
  BY <1>3, <1>6
<1>8. ~(m \in Above(p) <=> m - 1 \in Above(p))
  BY <1>3, <1>5, <1>7
<1>9. m \in Changes(p)
  BY <1>5, <1>8 DEF Changes
<1>10. QED
  BY <1>5, <1>9

(* A line has finitely many changes, all of them columns.                  *)
LEMMA ChangesCounted ==
  ASSUME NEW p
  PROVE  /\ IsFiniteSet(Changes(p)) /\ Changes(p) \subseteq Nat
         /\ Changes(p) \subseteq Columns
         /\ \A x \in Changes(p) : FilterElems <= x /\ x < Width
<1>1. Width \in Nat
  BY ConstantsAssumed DEF ConstantsTyped
<1>2. /\ Changes(p) \subseteq FilterElems .. Width - 1
      /\ FilterElems .. Width - 1 \subseteq Nat
      /\ FilterElems .. Width - 1 \subseteq Columns
  BY <1>1 DEF Changes, FilterElems, Columns
<1>3. IsFiniteSet(FilterElems .. Width - 1)
  BY <1>1, FS_Interval DEF FilterElems
<1>4. IsFiniteSet(Changes(p))
  BY <1>2, <1>3, FS_Subset
<1>5. \A x \in Changes(p) : FilterElems <= x /\ x < Width
  BY <1>1, <1>2 DEF FilterElems
<1>6. QED
  BY <1>2, <1>4, <1>5

(* The first change of a line is a rise, and the one after a rise is a     *)
(* fall, after a fall a rise.                                              *)
LEMMA FirstChangeRises ==
  ASSUME NEW p, NEW s, s = InOrder(Changes(p)), 1 \in DOMAIN s
  PROVE  s[1] \in Above(p)
<1>1. PICK a : a = s[1]
  OBVIOUS
<1>2. a \in Changes(p)
  BY <1>1, ChangesCounted, Ordered, Zenon
<1>3. /\ \A z \in Changes(p) : a <= z
      /\ a \in Nat /\ FilterElems <= a /\ a < Width
  BY <1>1, <1>2, ChangesCounted, OrderedFirst
<1>4. \A x \in 2 .. a - 1 : x \notin Changes(p)
  BY <1>3
<1>5. a - 1 \in Int /\ 1 <= a - 1 /\ a - 1 < Width /\ FilterElems - 1 = 1
  BY <1>3, ConstantsAssumed DEF FilterElems, ConstantsTyped
<1>6. \A x \in 1 + 1 .. a - 1 : x \notin Changes(p)
  BY <1>4
<1>7. a - 1 \in Above(p) <=> 1 \in Above(p)
  BY <1>5, <1>6, StateStays
<1>8. 1 \notin Above(p)
  BY DEF Above, FilterElems
<1>9. ~(a \in Above(p) <=> a - 1 \in Above(p))
  BY <1>2 DEF Changes
<1>10. QED
  BY <1>1, <1>7, <1>8, <1>9

(* A change and the one before it go opposite ways.                        *)
LEMMA NextChangeOpposite ==
  ASSUME NEW p, NEW s, s = InOrder(Changes(p)), NEW n \in DOMAIN s, n # 1
  PROVE  /\ n - 1 \in DOMAIN s /\ s[n - 1] < s[n]
         /\ ~(s[n] \in Above(p) <=> s[n - 1] \in Above(p))
<1>1. PICK a, b : a = s[n - 1] /\ b = s[n]
  OBVIOUS
<1>2. /\ n - 1 \in DOMAIN s /\ a < b
      /\ \A z \in Changes(p) : ~(a < z /\ z < b)
  BY <1>1, ChangesCounted, OrderedNext
<1>3. a \in Changes(p) /\ b \in Changes(p)
  BY <1>1, <1>2, ChangesCounted, Ordered, Zenon
<1>4. /\ a \in Nat /\ b \in Nat /\ FilterElems <= a /\ b < Width
  BY <1>3, ChangesCounted
<1>5. \A x \in a + 1 .. b - 1 : x \notin Changes(p)
  BY <1>2, <1>4
<1>6. b - 1 \in Int /\ FilterElems - 1 <= a /\ a <= b - 1 /\ b - 1 < Width
  BY <1>2, <1>4, ConstantsAssumed DEF FilterElems, ConstantsTyped
<1>7. b - 1 \in Above(p) <=> a \in Above(p)
  BY <1>4, <1>5, <1>6, StateStays
<1>8. ~(b \in Above(p) <=> b - 1 \in Above(p))
  BY <1>3 DEF Changes
<1>9. QED
  BY <1>1, <1>2, <1>7, <1>8

(* The gradients of a line.                                                *)
LEMMA GradientsOfLine ==
  ASSUME NEW p, NEW y \in Rows, NEW g, g = Gradients(p, y)
  PROVE  /\ g \in Seq(Gradient)
         /\ \A n \in 1 .. Len(g) :
              /\ g[n].y = y
              /\ n = 1 => g[n].type = "positive"
              /\ n # 1 => /\ n - 1 \in 1 .. Len(g)
                          /\ g[n - 1].x < g[n].x
                          /\ g[n - 1].type # g[n].type
<1>1. PICK s, m : s = InOrder(Changes(p)) /\ m = Cardinality(Changes(p))
  OBVIOUS
<1>2. /\ m \in Nat /\ DOMAIN s = 1 .. m
      /\ \A n \in DOMAIN s : s[n] \in Changes(p)
  BY <1>1, ChangesCounted, Ordered, Zenon
<1>3. g = [n \in 1 .. m |->
             [type |-> IF s[n] \in Above(p) THEN "positive" ELSE "negative",
              x |-> s[n], y |-> y]]
  BY <1>1, <1>2 DEF Gradients
<1>4. \A n \in 1 .. m : s[n] \in Columns
  BY <1>2, ChangesCounted
<1>5. \A n \in 1 .. m :
        [type |-> IF s[n] \in Above(p) THEN "positive" ELSE "negative",
         x |-> s[n], y |-> y] \in Gradient
  BY <1>4 DEF Gradient, Types
<1>6. g \in [1 .. m -> Gradient]
  BY <1>3, <1>5
<1>7. g \in Seq(Gradient) /\ Len(g) = m
  BY <1>2, <1>6
<1>8. ASSUME NEW n \in 1 .. m
      PROVE  /\ g[n].y = y /\ g[n].x = s[n]
             /\ s[n] \in Above(p) => g[n].type = "positive"
             /\ s[n] \notin Above(p) => g[n].type = "negative"
  BY <1>3
<1>9. ASSUME 1 \in 1 .. m PROVE g[1].type = "positive"
  BY <1>1, <1>2, <1>8, <1>9, FirstChangeRises
<1>10. ASSUME NEW n \in 1 .. m, n # 1
       PROVE  /\ n - 1 \in 1 .. m /\ g[n - 1].x < g[n].x
              /\ g[n - 1].type # g[n].type
  <2>1. /\ n - 1 \in DOMAIN s /\ s[n - 1] < s[n]
        /\ ~(s[n] \in Above(p) <=> s[n - 1] \in Above(p))
    BY <1>1, <1>2, <1>10, NextChangeOpposite
  <2>2. n - 1 \in 1 .. m
    BY <1>2, <2>1
  <2>3. /\ g[n - 1].x = s[n - 1] /\ g[n].x = s[n]
        /\ g[n - 1].type # g[n].type
    BY <1>8, <2>1, <2>2
  <2>4. QED
    BY <2>1, <2>2, <2>3
<1>11. QED
  BY <1>7, <1>8, <1>9, <1>10

------------------------------------------------------------------------------
(* A list keeps its first elements when it is full.                        *)
LEMMA AtMostOf ==
  ASSUME NEW T, NEW s \in Seq(T), NEW max \in Nat \ {0}, NEW a,
         a = AtMost(s, max)
  PROVE  /\ a \in Seq(T) /\ Len(a) \in Nat /\ Len(a) < max
         /\ Len(a) <= Len(s)
         /\ \A n \in 1 .. Len(a) : a[n] = s[n]
         /\ Len(a) = Len(s) \/ Len(a) = max - 1
<1>1. PICK m : m = Min({Len(s), max - 1})
  OBVIOUS
<1>2. Len(s) \in Nat
  OBVIOUS
<1>3. m = (IF Len(s) <= max - 1 THEN Len(s) ELSE max - 1)
  BY <1>1, <1>2, MinOfTwo
<1>4. m \in Nat /\ m <= Len(s) /\ m < max /\ (m = Len(s) \/ m = max - 1)
  BY <1>2, <1>3
<1>5. a = SubSeq(s, 1, m)
  BY <1>1 DEF AtMost
<1>6. a = [n \in 1 .. m |-> s[n]]
  BY <1>4, <1>5
<1>7. \A n \in 1 .. m : s[n] \in T
  BY <1>2, <1>4
<1>8. a \in [1 .. m -> T]
  BY <1>6, <1>7
<1>9. a \in Seq(T) /\ Len(a) = m
  BY <1>4, <1>8
<1>10. QED
  BY <1>4, <1>6, <1>9

(* GradientsAlternate of any list. *)
Alternate(s) ==
  \A n \in 1 .. Len(s) :
    IF n = 1 \/ s[n - 1].y < s[n].y THEN s[n].type = "positive"
    ELSE /\ s[n - 1].y = s[n].y /\ s[n - 1].x < s[n].x
         /\ s[n - 1].type # s[n].type

(* Joined at i: the first Len(s) elements are those of s, then those of g. *)
LEMMA JoinedList ==
  ASSUME NEW T, NEW s \in Seq(T), NEW g \in Seq(T), NEW c, c = s \o g
  PROVE  /\ c \in Seq(T) /\ Len(c) = Len(s) + Len(g)
         /\ Len(s) \in Nat /\ Len(g) \in Nat
         /\ \A n \in 1 .. Len(s) : c[n] = s[n]
         /\ \A n \in 1 .. Len(g) : c[Len(s) + n] = g[n]
  OBVIOUS

(* Lists of alternating gradients may be joined, line after line.          *)
LEMMA JoinAlternates ==
  ASSUME NEW s \in Seq(Gradient), Alternate(s), NEW y \in Int,
         \A n \in 1 .. Len(s) : s[n].y < y,
         NEW g \in Seq(Gradient),
         \A n \in 1 .. Len(g) :
           /\ g[n].y = y
           /\ n = 1 => g[n].type = "positive"
           /\ n # 1 => /\ n - 1 \in 1 .. Len(g)
                       /\ g[n - 1].x < g[n].x
                       /\ g[n - 1].type # g[n].type,
         NEW c, c = s \o g
  PROVE  Alternate(c) /\ \A n \in 1 .. Len(c) : c[n].y <= y
<1>1. PICK m, l : m = Len(s) /\ l = Len(g)
  OBVIOUS
<1>2. /\ c \in Seq(Gradient) /\ Len(c) = m + l /\ m \in Nat /\ l \in Nat
      /\ \A n \in 1 .. m : c[n] = s[n]
      /\ \A n \in 1 .. l : c[m + n] = g[n]
  BY <1>1, JoinedList
<1>3. \A n \in 1 .. m : s[n].y \in Int
  <2>1. \A n \in 1 .. m : s[n] \in Gradient
    BY <1>1
  <2>2. \A r \in Gradient : r.y \in Int
    BY ListsTyped
  <2>3. QED
    BY <2>1, <2>2
<1>4. ASSUME NEW n \in 1 .. m + l, n > m
      PROVE  \E j \in 1 .. l : /\ n = m + j /\ c[n] = g[j]
                               /\ j # 1 => c[n - 1] = g[j - 1]
                               /\ j = 1 => n - 1 = m
  <2>1. PICK j : j = n - m
    OBVIOUS
  <2>2. j \in 1 .. l /\ n = m + j
    BY <1>2, <1>4, <2>1
  <2>3. /\ j # 1 => j - 1 \in 1 .. l /\ n - 1 = m + (j - 1)
        /\ j = 1 => n - 1 = m
    BY <1>2, <2>2
  <2>4. c[n] = g[j] /\ (j # 1 => c[n - 1] = g[j - 1])
    BY <1>2, <2>2, <2>3
  <2>5. QED
    BY <2>2, <2>3, <2>4, Zenon
<1>5. ASSUME NEW n \in 1 .. m + l PROVE c[n].y <= y
  <2>1. CASE n <= m
    <3>1. n \in 1 .. m
      BY <1>2, <2>1
    <3>2. QED
      BY <1>1, <1>2, <1>3, <3>1
  <2>2. CASE n > m
    <3>1. PICK j \in 1 .. l : c[n] = g[j]
      BY <1>4, <2>2
    <3>2. g[j].y = y
      BY <1>1
    <3>3. QED
      BY <3>1, <3>2
  <2>3. QED
    BY <1>2, <2>1, <2>2
<1>6. ASSUME NEW n \in 1 .. m + l
      PROVE  IF n = 1 \/ c[n - 1].y < c[n].y THEN c[n].type = "positive"
             ELSE /\ c[n - 1].y = c[n].y /\ c[n - 1].x < c[n].x
                  /\ c[n - 1].type # c[n].type
  <2>1. CASE n <= m
    <3>1. n \in 1 .. m /\ (n # 1 => n - 1 \in 1 .. m)
      BY <1>2, <2>1
    <3>2. c[n] = s[n] /\ (n # 1 => c[n - 1] = s[n - 1])
      BY <1>2, <3>1
    <3>3. IF n = 1 \/ s[n - 1].y < s[n].y THEN s[n].type = "positive"
          ELSE /\ s[n - 1].y = s[n].y /\ s[n - 1].x < s[n].x
               /\ s[n - 1].type # s[n].type
      BY <1>1, <3>1 DEF Alternate
    <3>4. CASE n = 1
      BY <3>2, <3>3, <3>4
    <3>5. CASE n # 1
      BY <3>2, <3>3, <3>5
    <3>6. QED
      BY <3>4, <3>5
  <2>2. CASE n > m
    <3>1. PICK j \in 1 .. l : /\ n = m + j /\ c[n] = g[j]
                              /\ j # 1 => c[n - 1] = g[j - 1]
                              /\ j = 1 => n - 1 = m
      BY <1>4, <2>2
    <3>2. CASE j = 1
      <4>1. c[n].type = "positive" /\ c[n].y = y
        BY <1>1, <3>1, <3>2
      <4>2. n # 1 => c[n - 1].y < y
        <5>1. SUFFICES ASSUME n # 1 PROVE c[m].y < y
          BY <3>1, <3>2
        <5>2. m \in 1 .. m
          BY <1>2, <3>1, <3>2, <5>1
        <5>3. QED
          BY <1>1, <1>2, <5>2
      <4>3. QED
        BY <4>1, <4>2
    <3>3. CASE j # 1
      <4>1. /\ j - 1 \in 1 .. l /\ g[j - 1].x < g[j].x
            /\ g[j - 1].type # g[j].type
            /\ g[j].y = y /\ g[j - 1].y = y
        BY <1>1, <3>1, <3>3
      <4>2. n # 1 /\ ~(y < y)
        BY <1>2, <3>1, <3>3
      <4>3. c[n] = g[j] /\ c[n - 1] = g[j - 1]
        BY <3>1, <3>3
      <4>4. QED
        BY <4>1, <4>2, <4>3
    <3>4. QED
      BY <3>2, <3>3
  <2>3. n <= m \/ n > m
    BY <1>2
  <2>4. QED
    BY <2>1, <2>2, <2>3, Zenon
<1>7. QED
  BY <1>2, <1>5, <1>6 DEF Alternate

(* Nor does a full list lose its order.                                    *)
LEMMA CutAlternates ==
  ASSUME NEW s \in Seq(Gradient), Alternate(s), NEW a \in Seq(Gradient),
         Len(a) <= Len(s), \A n \in 1 .. Len(a) : a[n] = s[n]
  PROVE  Alternate(a)
<1>1. ASSUME NEW n \in 1 .. Len(a)
      PROVE  IF n = 1 \/ a[n - 1].y < a[n].y THEN a[n].type = "positive"
             ELSE /\ a[n - 1].y = a[n].y /\ a[n - 1].x < a[n].x
                  /\ a[n - 1].type # a[n].type
  <2>1. /\ n \in 1 .. Len(s) /\ a[n] = s[n]
        /\ n # 1 => n - 1 \in 1 .. Len(a)
    OBVIOUS
  <2>2. n # 1 => a[n - 1] = s[n - 1]
    BY <2>1
  <2>3. IF n = 1 \/ s[n - 1].y < s[n].y THEN s[n].type = "positive"
        ELSE /\ s[n - 1].y = s[n].y /\ s[n - 1].x < s[n].x
             /\ s[n - 1].type # s[n].type
    BY <2>1 DEF Alternate
  <2>4. CASE n = 1
    BY <2>1, <2>3, <2>4
  <2>5. CASE n # 1
    BY <2>1, <2>2, <2>3, <2>5
  <2>6. QED
    BY <2>4, <2>5
<1>2. QED
  BY <1>1 DEF Alternate

------------------------------------------------------------------------------
(* What keeps the phase of an image and the place in it.                   *)
LEMMA PhaseKept ==
  ASSUME StripeInv, [Next]_vars
  PROVE  PhaseInv'
<1> USE DEF StripeInv, PhaseInv
<1>1. line \in Int /\ k \in Nat \ {0} /\ k + 1 \in Nat \ {0} /\ Height \in Nat
  BY ConstantsAssumed DEF ConstantsTyped
<1>2. CASE ScanLine
  <2>1. line' \in 0 .. Height
    BY <1>1, <1>2 DEF ScanLine
  <2>2. QED
    BY <1>2, <2>1 DEF ScanLine
<1>3. CASE ImageScanned \/ Clustered \/ FeaturesFound
  BY <1>3 DEF ImageScanned, Clustered, FeaturesFound
<1>4. CASE ClusterGradient \/ FindFeature \/ WriteRecord
  BY <1>1, <1>4 DEF ClusterGradient, FindFeature, WriteRecord
<1>5. CASE Paint \/ NoDetectImage \/ NoFeatures \/ WriteCount \/ EndText
  BY <1>5 DEF Paint, NoDetectImage, NoFeatures, WriteCount, EndText
<1>6. CASE NextImage
  BY <1>1, <1>6 DEF NextImage
<1>7. CASE UNCHANGED vars
  BY <1>7 DEF vars
<1>8. QED
  BY <1>2, <1>3, <1>4, <1>5, <1>6, <1>7 DEF Next

(* Alternate says of a list what the property says of grads.               *)
LEMMA AlternateGrads ==
  ASSUME grads \in Seq(Gradient)
  PROVE  GradientsAlternate <=> Alternate(grads)
<1>1. DOMAIN grads = 1 .. Len(grads)
  OBVIOUS
<1>2. QED
  BY <1>1 DEF GradientsAlternate, Alternate

(* The steps after the image was scanned change no gradient.               *)
LEMMA SameGrads ==
  ASSUME StripeInv, [Next]_vars, ~ScanLine, ~NextImage
  PROVE  grads' = grads /\ (pc' = "scan" => pc = "scan" /\ line' = line)
<1>1. CASE ImageScanned \/ ClusterGradient \/ Clustered \/ FindFeature
           \/ FeaturesFound \/ Paint \/ NoDetectImage \/ NoFeatures
           \/ WriteCount \/ WriteRecord \/ EndText
  BY <1>1 DEF ImageScanned, ClusterGradient, Clustered, FindFeature,
     FeaturesFound, Paint, NoDetectImage, NoFeatures, WriteCount,
     WriteRecord, EndText
<1>2. CASE UNCHANGED vars
  BY <1>2 DEF vars
<1>3. QED
  BY <1>1, <1>2 DEF Next

(* Every step keeps the gradients in order.                                *)
LEMMA GradKept ==
  ASSUME StripeInv, [Next]_vars
  PROVE  GradInv'
<1>1. CASE ScanLine
  <2>1. PICK p : grads' = AtMost(grads \o Gradients(p, line), MaxGradients)
    BY <1>1 DEF ScanLine
  <2>2. /\ pc = "scan" /\ line \in Rows /\ line \in Int /\ line' = line + 1
        /\ MaxGradients \in Nat \ {0}
    BY <1>1, ConstantsAssumed
    DEF ScanLine, StripeInv, PhaseInv, Rows, ConstantsTyped
  <2>3. PICK g, c, a : /\ g = Gradients(p, line) /\ c = grads \o g
                       /\ a = AtMost(c, MaxGradients)
    OBVIOUS
  <2>4. /\ grads \in Seq(Gradient)
        /\ \A n \in 1 .. Len(grads) : grads[n].y < line
        /\ Alternate(grads)
    BY <2>2, AlternateGrads DEF StripeInv, GradInv
  <2>15. line \in Rows /\ g = Gradients(p, line)
    BY <2>2, <2>3
  <2>5. /\ g \in Seq(Gradient)
        /\ \A n \in 1 .. Len(g) :
             /\ g[n].y = line
             /\ n = 1 => g[n].type = "positive"
             /\ n # 1 => /\ n - 1 \in 1 .. Len(g)
                         /\ g[n - 1].x < g[n].x
                         /\ g[n - 1].type # g[n].type
    BY <2>15, GradientsOfLine
  <2>6. c \in Seq(Gradient)
    BY <2>3, <2>4, <2>5, JoinedList
  <2>16. MaxGradients \in Nat \ {0} /\ a = AtMost(c, MaxGradients)
    BY <2>2, <2>3
  <2>7. Alternate(c) /\ \A n \in 1 .. Len(c) : c[n].y <= line
    BY <2>2, <2>3, <2>4, <2>5, JoinAlternates
  <2>8. /\ a \in Seq(Gradient) /\ Len(a) \in Nat /\ Len(a) < MaxGradients
        /\ Len(a) <= Len(c) /\ \A n \in 1 .. Len(a) : a[n] = c[n]
    BY <2>6, <2>16, AtMostOf
  <2>9. Alternate(a)
    BY <2>6, <2>7, <2>8, CutAlternates
  <2>10. ASSUME NEW n \in 1 .. Len(a) PROVE a[n].y < line + 1
    <3>1. n \in 1 .. Len(c) /\ a[n] = c[n] /\ c[n].y \in Int
      BY <2>6, <2>8, ListsTyped
    <3>2. QED
      BY <2>2, <2>7, <3>1
  <2>11. grads' = a
    BY <2>1, <2>3
  <2>12. DOMAIN a = 1 .. Len(a)
    BY <2>8
  <2>13. GradientsAlternate'
    BY <2>9, <2>11, <2>12 DEF GradientsAlternate, Alternate
  <2>14. QED
    BY <2>2, <2>8, <2>10, <2>11, <2>12, <2>13 DEF GradInv
<1>2. CASE NextImage
  <2>1. grads' = <<>>
    BY <1>2 DEF NextImage
  <2>2. QED
    BY <2>1, ConstantsAssumed DEF GradInv, GradientsAlternate, ConstantsTyped
<1>3. CASE ~ScanLine /\ ~NextImage
  BY <1>3, SameGrads DEF StripeInv, GradInv, GradientsAlternate
<1>4. QED
  BY <1>1, <1>2, <1>3

------------------------------------------------------------------------------
(* A sum of n numbers of a set is between n times its least and n times    *)
(* its greatest; so the mean, rounded down, is between the two.            *)
LEMMA BetweenTyped ==
  ASSUME NEW S, NEW m \in Nat, S \subseteq 0 .. m, S # {}
  PROVE  /\ Min(S) \in S /\ Max(S) \in S
         /\ \A x \in S : Min(S) <= x /\ x <= Max(S)
         /\ Min(S) \in Nat /\ Max(S) \in Nat
         /\ Min(S) <= m /\ Max(S) <= m
<1>1. S \subseteq Nat
  OBVIOUS
<1>2. Min(S) \in S /\ \A x \in S : Min(S) <= x
  BY <1>1, NatMin
<1>3. Max(S) \in S /\ \A x \in S : x <= Max(S)
  BY NatMax
<1>4. \A x \in S : x \in Nat /\ x <= m
  OBVIOUS
<1>5. /\ Min(S) \in Nat /\ Max(S) \in Nat
      /\ Min(S) <= m /\ Max(S) <= m
  BY <1>2, <1>3, <1>4, Zenon
<1>6. QED
  BY <1>2, <1>3, <1>5

(* A sum stays between the bounds when an element is added.                *)
LEMMA BetweenGrows ==
  ASSUME NEW S, NEW m \in Nat, S \subseteq 0 .. m, S # {}, NEW x \in S,
         NEW n \in Nat, NEW sum \in Nat, Between(S, n, sum)
  PROVE  Between(S, n + 1, sum + x)
<1>1. PICK lo, hi : lo = Min(S) /\ hi = Max(S)
  OBVIOUS
<1>2. lo \in Nat /\ hi \in Nat /\ lo <= x /\ x <= hi /\ x \in Nat
  <2>1. lo \in Nat /\ hi \in Nat /\ lo <= x /\ x <= hi
    BY <1>1, BetweenTyped, Zenon
  <2>2. QED
    BY <2>1
<1>3. n * lo <= sum /\ sum <= n * hi
  BY <1>1 DEF Between
<1>4. (n + 1) * lo = n * lo + lo /\ (n + 1) * hi = n * hi + hi
  BY <1>2
<1>5. PICK a, b : a = n * lo /\ b = n * hi
  OBVIOUS
<1>6. a \in Nat /\ b \in Nat
  BY <1>2, <1>5
<1>7. (n + 1) * lo <= sum + x /\ sum + x <= (n + 1) * hi
  BY <1>2, <1>3, <1>4, <1>5, <1>6
<1>8. QED
  BY <1>1, <1>7 DEF Between

(* One element is between the bounds.                                      *)
LEMMA BetweenOne ==
  ASSUME NEW S, NEW m \in Nat, S \subseteq 0 .. m, S # {}, NEW x \in S
  PROVE  Between(S, 1, x)
<1>1. PICK lo, hi : lo = Min(S) /\ hi = Max(S)
  OBVIOUS
<1>2. lo \in Nat /\ hi \in Nat /\ lo <= x /\ x <= hi
  BY <1>1, BetweenTyped
<1>3. QED
  BY <1>1, <1>2 DEF Between

(* So is the mean, rounded down.                                           *)
LEMMA MeanBetween ==
  ASSUME NEW S, NEW m \in Nat, S \subseteq 0 .. m, S # {},
         NEW n \in Nat \ {0}, NEW sum \in Nat, Between(S, n, sum)
  PROVE  /\ sum \div n \in Min(S) .. Max(S) /\ sum \div n \in 0 .. m
<1>1. PICK lo, hi, q : lo = Min(S) /\ hi = Max(S) /\ q = sum \div n
  OBVIOUS
<1>2. lo \in Nat /\ hi \in Nat /\ hi <= m
  BY <1>1, BetweenTyped
<1>3. n * lo <= sum /\ sum <= n * hi
  BY <1>1 DEF Between
<1>4. q \in Int /\ n * q <= sum /\ sum < n * (q + 1)
  BY <1>1
<1>5. lo <= q
  <2>1. SUFFICES ASSUME q + 1 <= lo PROVE FALSE
    BY <1>2, <1>4
  <2>2. n * (q + 1) <= n * lo
    BY <1>2, <1>4, <2>1
  <2>3. QED
    BY <1>2, <1>3, <1>4, <2>2
<1>6. q <= hi
  <2>1. SUFFICES ASSUME hi + 1 <= q PROVE FALSE
    BY <1>2, <1>4
  <2>2. n * (hi + 1) <= n * q
    BY <1>2, <1>4, <2>1
  <2>3. n * (hi + 1) = n * hi + n
    BY <1>2
  <2>4. QED
    BY <1>2, <1>3, <1>4, <2>2, <2>3
<1>7. QED
  BY <1>1, <1>2, <1>4, <1>5, <1>6

------------------------------------------------------------------------------
(* The coordinates of the gradients of a type are of the image.            *)
LEMMA CoordinatesBounded ==
  ASSUME grads \in Seq(Gradient)
  PROVE  /\ \A t : Xs(t) \subseteq 0 .. Width - 1 /\ Ys(t) \subseteq 0 .. Height - 1
         /\ Width - 1 \in Nat /\ Height - 1 \in Nat
         /\ \A n \in 1 .. Len(grads) : /\ grads[n] \in Gradient
                                       /\ grads[n].x \in Xs(grads[n].type)
                                       /\ grads[n].y \in Ys(grads[n].type)
<1>1. /\ Width - 1 \in Nat /\ Height - 1 \in Nat
      /\ Width \in Int /\ Height \in Int
  BY ConstantsAssumed DEF ConstantsTyped
<1>2. DOMAIN grads = 1 .. Len(grads) /\ \A n \in DOMAIN grads : grads[n] \in Gradient
  OBVIOUS
<1>3. \A n \in DOMAIN grads : /\ grads[n].x \in 0 .. Width - 1
                              /\ grads[n].y \in 0 .. Height - 1
  BY <1>1, <1>2, ListsTyped
<1>4. QED
  BY <1>1, <1>2, <1>3 DEF Xs, Ys

(* A cluster made of a gradient, or grown by one, has its mean among the   *)
(* gradients (sf_create_cluster_from_grad, sf_add_gradient_to_cluster).    *)
LEMMA AloneAmong ==
  ASSUME grads \in Seq(Gradient), NEW n \in 1 .. Len(grads),
         NEW c, c = Alone(grads[n])
  PROVE  c \in Cluster /\ SumsAmong(c)
<1>1. PICK g, t : g = grads[n] /\ t = g.type
  OBVIOUS
<1>2. /\ g \in Gradient /\ g.x \in Xs(t) /\ g.y \in Ys(t)
      /\ Xs(t) \subseteq 0 .. Width - 1 /\ Ys(t) \subseteq 0 .. Height - 1
      /\ Width - 1 \in Nat /\ Height - 1 \in Nat
  BY <1>1, CoordinatesBounded
<1>3. Between(Xs(t), 1, g.x) /\ Between(Ys(t), 1, g.y)
  BY <1>2, BetweenOne
<1>4. c = [type |-> t, count |-> 1, x_sum |-> g.x, y_sum |-> g.y,
           x |-> g.x, y |-> g.y]
  BY <1>1 DEF Alone
<1>5. /\ g.x \in Nat /\ g.y \in Nat /\ g.x \in Columns /\ g.y \in Rows
      /\ t \in Types
  BY <1>1, <1>2, ListsTyped
<1>6. g.x = g.x \div 1 /\ g.y = g.y \div 1
  BY <1>5
<1>7. c \in Cluster
  BY <1>4, <1>5 DEF Cluster
<1>8. SumsAmong(c)
  BY <1>2, <1>3, <1>4, <1>6 DEF SumsAmong
<1>9. QED
  BY <1>7, <1>8

(* A cluster that takes a gradient stays among those of its type.          *)
LEMMA GrownAmong ==
  ASSUME grads \in Seq(Gradient), NEW n \in 1 .. Len(grads),
         NEW o \in Cluster, SumsAmong(o), o.type = grads[n].type,
         NEW c, c = Grown(o, grads[n])
  PROVE  c \in Cluster /\ SumsAmong(c)
<1>1. PICK g, t, X, Y : g = grads[n] /\ t = g.type /\ X = Xs(t) /\ Y = Ys(t)
  OBVIOUS
<1>2. /\ g \in Gradient /\ g.x \in X /\ g.y \in Y
      /\ X \subseteq 0 .. Width - 1 /\ Y \subseteq 0 .. Height - 1
      /\ X # {} /\ Y # {} /\ Width - 1 \in Nat /\ Height - 1 \in Nat
  BY <1>1, CoordinatesBounded
<1>3. PICK m, xs, ys : m = o.count + 1 /\ xs = o.x_sum + g.x
                       /\ ys = o.y_sum + g.y
  OBVIOUS
<1>4. /\ o.count \in Nat \ {0} /\ o.x_sum \in Nat /\ o.y_sum \in Nat
      /\ g.x \in Nat /\ g.y \in Nat /\ t \in Types
  BY <1>1, <1>2, ListsTyped
<1>5. m \in Nat \ {0} /\ xs \in Nat /\ ys \in Nat
  <2>1. PICK oc, ox, oy, gx, gy : /\ oc = o.count /\ ox = o.x_sum
                                  /\ oy = o.y_sum /\ gx = g.x /\ gy = g.y
    OBVIOUS
  <2>2. /\ oc \in Nat \ {0} /\ ox \in Nat /\ oy \in Nat
        /\ gx \in Nat /\ gy \in Nat
    BY <1>4, <2>1
  <2>3. m = oc + 1 /\ xs = ox + gx /\ ys = oy + gy
    BY <1>3, <2>1
  <2>4. QED
    BY <2>2, <2>3
<1>6. Between(X, o.count, o.x_sum) /\ Between(Y, o.count, o.y_sum)
  BY <1>1 DEF SumsAmong
<1>7. Between(X, m, xs)
  BY <1>2, <1>3, <1>4, <1>6, BetweenGrows
<1>8. Between(Y, m, ys)
  BY <1>2, <1>3, <1>4, <1>6, BetweenGrows
<1>9. xs \div m \in 0 .. Width - 1 /\ ys \div m \in 0 .. Height - 1
  BY <1>2, <1>5, <1>7, <1>8, MeanBetween
<1>10. c = [type |-> t, count |-> m, x_sum |-> xs, y_sum |-> ys,
            x |-> xs \div m, y |-> ys \div m]
  BY <1>1, <1>3 DEF Grown
<1>11. c \in Cluster
  BY <1>4, <1>5, <1>9, <1>10 DEF Cluster, Columns, Rows
<1>12. SumsAmong(c)
  BY <1>1, <1>2, <1>7, <1>8, <1>10 DEF SumsAmong
<1>13. QED
  BY <1>11, <1>12

(* The first cluster that is near is one of the list.                      *)
LEMMA NearFound ==
  ASSUME clusters \in Seq(Cluster), NEW g, Near(g) # {}
  PROVE  /\ Min(Near(g)) \in 1 .. Len(clusters)
         /\ clusters[Min(Near(g))].type = g.type
<1>1. DOMAIN clusters = 1 .. Len(clusters)
  OBVIOUS
<1>2. Near(g) \subseteq Nat
  BY <1>1 DEF Near
<1>3. Min(Near(g)) \in Near(g)
  BY <1>2, NatMin
<1>4. QED
  BY <1>1, <1>3 DEF Near

(* The steps that change no cluster, and no gradient after the scan.       *)
LEMMA SameClusters ==
  ASSUME StripeInv, [Next]_vars, ~ClusterGradient, ~NextImage
  PROVE  /\ clusters' = clusters
         /\ clusters # <<>> => grads' = grads
<1>1. CASE ScanLine
  BY <1>1 DEF ScanLine, StripeInv, PhaseInv
<1>2. CASE ImageScanned \/ Clustered \/ FindFeature
           \/ FeaturesFound \/ Paint \/ NoDetectImage \/ NoFeatures
           \/ WriteCount \/ WriteRecord \/ EndText
  BY <1>2 DEF ImageScanned, Clustered, FindFeature,
     FeaturesFound, Paint, NoDetectImage, NoFeatures, WriteCount,
     WriteRecord, EndText
<1>3. CASE UNCHANGED vars
  BY <1>3 DEF vars
<1>4. QED
  BY <1>1, <1>2, <1>3 DEF Next

(* Every step keeps the clusters among their gradients.                    *)
LEMMA ClusterKept ==
  ASSUME StripeInv, [Next]_vars
  PROVE  ClusterInv'
<1>1. clusters \in Seq(Cluster) /\ grads \in Seq(Gradient)
      /\ Len(clusters) < MaxClusters
      /\ \A c \in 1 .. Len(clusters) : SumsAmong(clusters[c])
  BY DEF StripeInv, ClusterInv, GradInv
<1>2. CASE ClusterGradient
  <2>1. PICK g : g = grads[k]
    OBVIOUS
  <2>2. k \in 1 .. Len(grads) /\ grads' = grads
    BY <1>1, <1>2 DEF ClusterGradient, StripeInv, PhaseInv
  <2>3. \A c : SumsAmong(c)' <=> SumsAmong(c)
    BY <2>2 DEF SumsAmong, Xs, Ys, Between
  <2>4. CASE Near(g) # {}
    <3>1. PICK s, o, c : /\ s = Min(Near(g)) /\ o = clusters[s]
                         /\ c = Grown(o, g)
      OBVIOUS
    <3>2. s \in 1 .. Len(clusters) /\ o \in Cluster /\ o.type = g.type
          /\ SumsAmong(o)
      BY <1>1, <2>4, <3>1, NearFound
    <3>3. c \in Cluster /\ SumsAmong(c)
      BY <1>1, <2>1, <2>2, <3>1, <3>2, GrownAmong
    <3>4. clusters' = [clusters EXCEPT ![s] = c]
      BY <1>1, <1>2, <2>1, <2>4, <3>1, <3>2 DEF ClusterGradient
    <3>5. /\ clusters' \in Seq(Cluster) /\ Len(clusters') = Len(clusters)
          /\ clusters'[s] = c
          /\ \A u \in 1 .. Len(clusters) : u # s => clusters'[u] = clusters[u]
      BY <1>1, <3>2, <3>3, <3>4
    <3>6. \A u \in 1 .. Len(clusters) : SumsAmong(clusters'[u])
      BY <1>1, <3>3, <3>5
    <3>7. QED
      BY <1>1, <2>3, <3>5, <3>6 DEF ClusterInv
  <2>5. CASE Near(g) = {}
    <3>1. PICK c, s, a : /\ c = Alone(g) /\ s = Append(clusters, c)
                         /\ a = AtMost(s, MaxClusters)
      OBVIOUS
    <3>2. c \in Cluster /\ SumsAmong(c)
      BY <1>1, <2>1, <2>2, <3>1, AloneAmong
    <3>3. /\ s \in Seq(Cluster) /\ Len(s) = Len(clusters) + 1
          /\ s[Len(clusters) + 1] = c
          /\ \A u \in 1 .. Len(clusters) : s[u] = clusters[u]
      BY <1>1, <3>1, <3>2
    <3>4. \A u \in 1 .. Len(s) : SumsAmong(s[u])
      <4>1. ASSUME NEW u \in 1 .. Len(s) PROVE SumsAmong(s[u])
        <5>1. u \in 1 .. Len(clusters) \/ u = Len(clusters) + 1
          BY <1>1, <3>3
        <5>2. QED
          BY <1>1, <3>2, <3>3, <5>1
      <4>2. QED
        BY <4>1
    <3>5. MaxClusters \in Nat \ {0} /\ a = AtMost(s, MaxClusters)
      BY <3>1, ConstantsAssumed DEF ConstantsTyped
    <3>6. /\ a \in Seq(Cluster) /\ Len(a) \in Nat /\ Len(a) < MaxClusters
          /\ Len(a) <= Len(s) /\ \A u \in 1 .. Len(a) : a[u] = s[u]
      BY <3>3, <3>5, AtMostOf
    <3>7. \A u \in 1 .. Len(a) : SumsAmong(a[u])
      <4>1. Len(s) \in Nat
        BY <3>3
      <4>2. ASSUME NEW u \in 1 .. Len(a) PROVE SumsAmong(a[u])
        <5>1. u \in 1 .. Len(s) /\ a[u] = s[u]
          BY <3>6, <4>1
        <5>2. QED
          BY <3>4, <5>1
      <4>3. QED
        BY <4>2
    <3>8. clusters' = a
      BY <1>2, <2>1, <2>5, <3>1 DEF ClusterGradient
    <3>9. DOMAIN a = 1 .. Len(a)
      BY <3>6
    <3>10. QED
      BY <2>3, <3>6, <3>7, <3>8, <3>9 DEF ClusterInv
  <2>6. QED
    BY <2>4, <2>5
<1>3. CASE NextImage
  <2>1. clusters' = <<>>
    BY <1>3 DEF NextImage
  <2>2. QED
    BY <2>1, ConstantsAssumed DEF ClusterInv, ConstantsTyped
<1>4. CASE ~ClusterGradient /\ ~NextImage
  <2>1. clusters' = clusters /\ (clusters # <<>> => grads' = grads)
    BY <1>4, SameClusters
  <2>2. ASSUME NEW c \in DOMAIN clusters PROVE SumsAmong(clusters[c])'
    <3>1. clusters # <<>>
      BY <2>2
    <3>2. SumsAmong(clusters[c])
      BY <2>2 DEF StripeInv, ClusterInv
    <3>3. QED
      BY <2>1, <3>1, <3>2 DEF SumsAmong, Xs, Ys, Between
  <2>3. QED
    BY <2>1, <2>2 DEF StripeInv, ClusterInv
<1>5. QED
  BY <1>2, <1>3, <1>4

------------------------------------------------------------------------------
(* The terms of NothingLost: the clusters of a type, and its gradients     *)
(* among the first n.                                                      *)
OfType(s, t) == {c \in DOMAIN s : s[c].type = t}
Seen(s, n, t) == {m \in 1 .. n : s[m].type = t}

(* One gradient more is one more of its type, and its coordinates.         *)
LEMMA SeenGrows ==
  ASSUME NEW s \in Seq(Gradient), NEW n \in 1 .. Len(s), NEW t,
         NEW old, old = Seen(s, n - 1, t), NEW new, new = Seen(s, n, t)
  PROVE  /\ s[n].type # t => new = old
         /\ s[n].type = t =>
              /\ Cardinality(new) = Cardinality(old) + 1
              /\ SumFunction([m \in new |-> s[m].x])
                   = SumFunction([m \in old |-> s[m].x]) + s[n].x
              /\ SumFunction([m \in new |-> s[m].y])
                   = SumFunction([m \in old |-> s[m].y]) + s[n].y
<1>1. Len(s) \in Nat /\ n \in Nat /\ 1 .. n = (1 .. n - 1) \cup {n}
      /\ n - 1 \in Int
  OBVIOUS
<1>2. ASSUME s[n].type # t PROVE new = old
  BY <1>1, <1>2 DEF Seen
<1>3. ASSUME s[n].type = t
      PROVE  /\ Cardinality(new) = Cardinality(old) + 1
             /\ SumFunction([m \in new |-> s[m].x])
                  = SumFunction([m \in old |-> s[m].x]) + s[n].x
             /\ SumFunction([m \in new |-> s[m].y])
                  = SumFunction([m \in old |-> s[m].y]) + s[n].y
  <2>1. new = old \cup {n} /\ n \notin old
    BY <1>1, <1>3 DEF Seen
  <2>2. IsFiniteSet(1 .. n - 1)
    BY <1>1, FS_Interval
  <2>3. old \subseteq 1 .. n - 1
    BY DEF Seen
  <2>4. IsFiniteSet(old)
    BY <2>2, <2>3, FS_Subset
  <2>5. Cardinality(new) = Cardinality(old) + 1
    BY <2>1, <2>4, FS_AddElement
  <2>6. \A m \in new : s[m].x \in Nat /\ s[m].y \in Nat
    BY <1>1, ListsTyped DEF Seen
  <2>7. PICK l : l = n
    OBVIOUS
  <2>8. PICK f, e : /\ f = [m \in old |-> s[m].x]
                    /\ e = [m \in new |-> s[m].x]
    OBVIOUS
  <2>9. /\ l \notin old /\ IsFiniteSet(old)
        /\ l \in new /\ old \subseteq new
        /\ \A m \in new : m \in old \/ m = l
    BY <2>1, <2>4, <2>7
  <2>10. /\ \A m \in old : f[m] \in Nat
         /\ e[l] \in Nat /\ \A m \in old : e[m] = f[m]
    BY <2>1, <2>6, <2>7, <2>8
  <2>11. SumFunctionOnSet(e, new) = SumFunctionOnSet(f, old) + e[l]
    BY <2>9, <2>10, SumAdds
  <2>12. PICK p, q : /\ p = [m \in old |-> s[m].y]
                     /\ q = [m \in new |-> s[m].y]
    OBVIOUS
  <2>13. /\ \A m \in old : p[m] \in Nat
         /\ q[l] \in Nat /\ \A m \in old : q[m] = p[m]
    BY <2>1, <2>6, <2>7, <2>12
  <2>14. SumFunctionOnSet(q, new) = SumFunctionOnSet(p, old) + q[l]
    BY <2>9, <2>13, SumAdds
  <2>15. /\ e[l] = s[n].x /\ DOMAIN f = old /\ DOMAIN e = new
         /\ q[l] = s[n].y /\ DOMAIN p = old /\ DOMAIN q = new
    BY <2>1, <2>7, <2>8, <2>12
  <2>16. QED
    BY <2>5, <2>8, <2>11, <2>12, <2>14, <2>15 DEF SumFunction
<1>4. QED
  BY <1>2, <1>3

(* The clusters of a type hold one gradient more.                          *)
OneMore(r, s, t, g) ==
  LET new == OfType(r, t)
      old == OfType(s, t)
  IN  /\ SumFunction([c \in new |-> r[c].count])
           = SumFunction([c \in old |-> s[c].count]) + 1
      /\ SumFunction([c \in new |-> r[c].x_sum])
           = SumFunction([c \in old |-> s[c].x_sum]) + g.x
      /\ SumFunction([c \in new |-> r[c].y_sum])
           = SumFunction([c \in old |-> s[c].y_sum]) + g.y

AsMany(r, s, t) ==
  LET new == OfType(r, t)
      old == OfType(s, t)
  IN  /\ SumFunction([c \in new |-> r[c].count])
           = SumFunction([c \in old |-> s[c].count])
      /\ SumFunction([c \in new |-> r[c].x_sum])
           = SumFunction([c \in old |-> s[c].x_sum])
      /\ SumFunction([c \in new |-> r[c].y_sum])
           = SumFunction([c \in old |-> s[c].y_sum])

(* The sums over the clusters of a type are over finitely many numbers.    *)
LEMMA ClustersFinite ==
  ASSUME NEW s \in Seq(Cluster), NEW t
  PROVE  /\ IsFiniteSet(OfType(s, t)) /\ OfType(s, t) \subseteq 1 .. Len(s)
         /\ \A c \in OfType(s, t) : /\ s[c].count \in Nat /\ s[c].x_sum \in Nat
                                     /\ s[c].y_sum \in Nat
<1>1. DOMAIN s = 1 .. Len(s) /\ Len(s) \in Nat
  OBVIOUS
<1>2. OfType(s, t) \subseteq 1 .. Len(s)
  BY <1>1 DEF OfType
<1>3. IsFiniteSet(1 .. Len(s))
  BY <1>1, FS_Interval
<1>4. \A c \in 1 .. Len(s) : s[c] \in Cluster
  BY <1>1
<1>5. QED
  BY <1>2, <1>3, <1>4, FS_Subset, ListsTyped

(* A cluster that grows by one gradient holds it, and no other does.       *)
LEMMA GrownTally ==
  ASSUME NEW s \in Seq(Cluster), NEW g \in Gradient, NEW m \in 1 .. Len(s),
         s[m].type = g.type,
         NEW r \in Seq(Cluster), Len(r) = Len(s), r[m] = Grown(s[m], g),
         \A c \in 1 .. Len(s) : c # m => r[c] = s[c],
         NEW t
  PROVE  IF g.type = t THEN OneMore(r, s, t, g) ELSE AsMany(r, s, t)
<1>1. /\ DOMAIN s = 1 .. Len(s) /\ DOMAIN r = DOMAIN s
      /\ s[m] \in Cluster
  OBVIOUS
<1>2. PICK o, n : o = s[m] /\ n = r[m]
  OBVIOUS
<1>3. /\ n.type = g.type /\ o.type = g.type
      /\ n.count = o.count + 1 /\ n.x_sum = o.x_sum + g.x
      /\ n.y_sum = o.y_sum + g.y
  BY <1>2 DEF Grown
<1>4. PICK S : S = OfType(s, t)
  OBVIOUS
<1>5. OfType(r, t) = S
  BY <1>1, <1>2, <1>3, <1>4 DEF OfType
<1>6. /\ IsFiniteSet(S) /\ S \subseteq 1 .. Len(s)
      /\ \A c \in S : /\ s[c].count \in Nat /\ s[c].x_sum \in Nat
                       /\ s[c].y_sum \in Nat
  BY <1>4, ClustersFinite
<1>7. CASE g.type = t
  <2>1. m \in S
    BY <1>1, <1>2, <1>3, <1>4, <1>7 DEF OfType
  <2>2. \A c \in S : c # m => r[c] = s[c]
    BY <1>6
  <2>3. 1 \in Nat /\ g.x \in Nat /\ g.y \in Nat
    BY ListsTyped
  <2>5. SumFunction([c \in S |-> r[c].count])
          = SumFunction([c \in S |-> s[c].count]) + 1
    <3>1. PICK e, f : /\ e = [c \in S |-> r[c].count]
                      /\ f = [c \in S |-> s[c].count]
      OBVIOUS
    <3>2. PICK d : d = 1
      OBVIOUS
    <3>3. /\ IsFiniteSet(S) /\ m \in S /\ d \in Nat
          /\ \A c \in S : f[c] \in Nat
          /\ e[m] = f[m] + d /\ \A c \in S : c # m => e[c] = f[c]
      BY <1>2, <1>3, <1>6, <2>1, <2>2, <2>3, <3>1, <3>2
    <3>4. SumFunctionOnSet(e, S) = SumFunctionOnSet(f, S) + d
      BY <3>3, SumGains
    <3>5. DOMAIN e = S /\ DOMAIN f = S
      BY <3>1
    <3>6. QED
      BY <3>1, <3>2, <3>4, <3>5 DEF SumFunction
  <2>6. SumFunction([c \in S |-> r[c].x_sum])
          = SumFunction([c \in S |-> s[c].x_sum]) + g.x
    <3>1. PICK e, f : /\ e = [c \in S |-> r[c].x_sum]
                      /\ f = [c \in S |-> s[c].x_sum]
      OBVIOUS
    <3>2. PICK d : d = g.x
      OBVIOUS
    <3>3. /\ IsFiniteSet(S) /\ m \in S /\ d \in Nat
          /\ \A c \in S : f[c] \in Nat
          /\ e[m] = f[m] + d /\ \A c \in S : c # m => e[c] = f[c]
      BY <1>2, <1>3, <1>6, <2>1, <2>2, <2>3, <3>1, <3>2
    <3>4. SumFunctionOnSet(e, S) = SumFunctionOnSet(f, S) + d
      BY <3>3, SumGains
    <3>5. DOMAIN e = S /\ DOMAIN f = S
      BY <3>1
    <3>6. QED
      BY <3>1, <3>2, <3>4, <3>5 DEF SumFunction
  <2>7. SumFunction([c \in S |-> r[c].y_sum])
          = SumFunction([c \in S |-> s[c].y_sum]) + g.y
    <3>1. PICK e, f : /\ e = [c \in S |-> r[c].y_sum]
                      /\ f = [c \in S |-> s[c].y_sum]
      OBVIOUS
    <3>2. PICK d : d = g.y
      OBVIOUS
    <3>3. /\ IsFiniteSet(S) /\ m \in S /\ d \in Nat
          /\ \A c \in S : f[c] \in Nat
          /\ e[m] = f[m] + d /\ \A c \in S : c # m => e[c] = f[c]
      BY <1>2, <1>3, <1>6, <2>1, <2>2, <2>3, <3>1, <3>2
    <3>4. SumFunctionOnSet(e, S) = SumFunctionOnSet(f, S) + d
      BY <3>3, SumGains
    <3>5. DOMAIN e = S /\ DOMAIN f = S
      BY <3>1
    <3>6. QED
      BY <3>1, <3>2, <3>4, <3>5 DEF SumFunction
  <2>8. QED
    BY <1>4, <1>5, <1>7, <2>5, <2>6, <2>7 DEF OneMore
<1>8. CASE g.type # t
  <2>1. \A c \in S : r[c] = s[c]
    BY <1>1, <1>2, <1>3, <1>4, <1>6, <1>8 DEF OfType
  <2>2. /\ [c \in S |-> r[c].count] = [c \in S |-> s[c].count]
        /\ [c \in S |-> r[c].x_sum] = [c \in S |-> s[c].x_sum]
        /\ [c \in S |-> r[c].y_sum] = [c \in S |-> s[c].y_sum]
    BY <2>1
  <2>3. QED
    BY <1>4, <1>5, <1>8, <2>2 DEF AsMany
<1>9. QED
  BY <1>7, <1>8

(* And so does a cluster that it starts.                                   *)
LEMMA AloneTally ==
  ASSUME NEW s \in Seq(Cluster), NEW g \in Gradient,
         NEW r \in Seq(Cluster), Len(r) = Len(s) + 1,
         r[Len(s) + 1] = Alone(g),
         \A c \in 1 .. Len(s) : r[c] = s[c],
         NEW t
  PROVE  IF g.type = t THEN OneMore(r, s, t, g) ELSE AsMany(r, s, t)
<1>1. PICK m, n : m = Len(s) + 1 /\ n = r[m]
  OBVIOUS
<1>2. /\ DOMAIN s = 1 .. Len(s) /\ Len(s) \in Nat
      /\ DOMAIN r = (1 .. Len(s)) \cup {m} /\ m \notin 1 .. Len(s)
  BY <1>1
<1>3. n.type = g.type /\ n.count = 1 /\ n.x_sum = g.x /\ n.y_sum = g.y
  BY <1>1 DEF Alone
<1>4. PICK S, T : S = OfType(s, t) /\ T = OfType(r, t)
  OBVIOUS
<1>5. /\ IsFiniteSet(S) /\ S \subseteq 1 .. Len(s)
      /\ \A c \in S : /\ s[c].count \in Nat /\ s[c].x_sum \in Nat
                       /\ s[c].y_sum \in Nat
  BY <1>4, ClustersFinite
<1>6. \A c \in S : r[c] = s[c]
  BY <1>5
<1>7. CASE g.type = t
  <2>1. T = S \cup {m} /\ m \notin S
    BY <1>1, <1>2, <1>3, <1>4, <1>5, <1>7 DEF OfType
  <2>2. g.x \in Nat /\ g.y \in Nat
    BY ListsTyped
  <2>4. SumFunction([c \in T |-> r[c].count])
          = SumFunction([c \in S |-> s[c].count]) + 1
    <3>1. PICK e, f : /\ e = [c \in T |-> r[c].count]
                      /\ f = [c \in S |-> s[c].count]
      OBVIOUS
    <3>2. /\ IsFiniteSet(S) /\ m \notin S /\ m \in T /\ S \subseteq T
          /\ \A c \in T : c \in S \/ c = m
          /\ \A c \in S : f[c] \in Nat
          /\ e[m] \in Nat /\ \A c \in S : e[c] = f[c]
      BY <1>1, <1>3, <1>5, <1>6, <2>1, <3>1
    <3>3. SumFunctionOnSet(e, T) = SumFunctionOnSet(f, S) + e[m]
      BY <3>2, SumAdds
    <3>4. e[m] = 1 /\ DOMAIN e = T /\ DOMAIN f = S
      BY <1>1, <1>3, <2>1, <3>1
    <3>5. QED
      BY <3>1, <3>3, <3>4 DEF SumFunction
  <2>5. SumFunction([c \in T |-> r[c].x_sum])
          = SumFunction([c \in S |-> s[c].x_sum]) + g.x
    <3>1. PICK e, f : /\ e = [c \in T |-> r[c].x_sum]
                      /\ f = [c \in S |-> s[c].x_sum]
      OBVIOUS
    <3>2. /\ IsFiniteSet(S) /\ m \notin S /\ m \in T /\ S \subseteq T
          /\ \A c \in T : c \in S \/ c = m
          /\ \A c \in S : f[c] \in Nat
          /\ e[m] \in Nat /\ \A c \in S : e[c] = f[c]
      BY <1>1, <1>3, <1>5, <1>6, <2>1, <2>2, <3>1
    <3>3. SumFunctionOnSet(e, T) = SumFunctionOnSet(f, S) + e[m]
      BY <3>2, SumAdds
    <3>4. e[m] = g.x /\ DOMAIN e = T /\ DOMAIN f = S
      BY <1>1, <1>3, <2>1, <3>1
    <3>5. QED
      BY <3>1, <3>3, <3>4 DEF SumFunction
  <2>6. SumFunction([c \in T |-> r[c].y_sum])
          = SumFunction([c \in S |-> s[c].y_sum]) + g.y
    <3>1. PICK e, f : /\ e = [c \in T |-> r[c].y_sum]
                      /\ f = [c \in S |-> s[c].y_sum]
      OBVIOUS
    <3>2. /\ IsFiniteSet(S) /\ m \notin S /\ m \in T /\ S \subseteq T
          /\ \A c \in T : c \in S \/ c = m
          /\ \A c \in S : f[c] \in Nat
          /\ e[m] \in Nat /\ \A c \in S : e[c] = f[c]
      BY <1>1, <1>3, <1>5, <1>6, <2>1, <2>2, <3>1
    <3>3. SumFunctionOnSet(e, T) = SumFunctionOnSet(f, S) + e[m]
      BY <3>2, SumAdds
    <3>4. e[m] = g.y /\ DOMAIN e = T /\ DOMAIN f = S
      BY <1>1, <1>3, <2>1, <3>1
    <3>5. QED
      BY <3>1, <3>3, <3>4 DEF SumFunction
  <2>7. QED
    BY <1>4, <1>7, <2>4, <2>5, <2>6 DEF OneMore
<1>8. CASE g.type # t
  <2>1. T = S
    BY <1>1, <1>2, <1>3, <1>4, <1>5, <1>8 DEF OfType
  <2>2. /\ [c \in S |-> r[c].count] = [c \in S |-> s[c].count]
        /\ [c \in S |-> r[c].x_sum] = [c \in S |-> s[c].x_sum]
        /\ [c \in S |-> r[c].y_sum] = [c \in S |-> s[c].y_sum]
    BY <1>6
  <2>3. QED
    BY <1>4, <1>8, <2>1, <2>2 DEF AsMany
<1>9. QED
  BY <1>7, <1>8

(* NothingLost of one type, of any list of clusters.                       *)
Tallied(s, r, n, t) ==
  LET cs == OfType(s, t)
      gs == Seen(r, n, t)
  IN  /\ SumFunction([c \in cs |-> s[c].count]) = Cardinality(gs)
      /\ SumFunction([c \in cs |-> s[c].x_sum])
           = SumFunction([m \in gs |-> r[m].x])
      /\ SumFunction([c \in cs |-> s[c].y_sum])
           = SumFunction([m \in gs |-> r[m].y])

(* Before the first gradient there is nothing to lose.                     *)
LEMMA TalliedAtFirst ==
  ASSUME NEW r, NEW t
  PROVE  Tallied(<<>>, r, 0, t)
<1>1. OfType(<<>>, t) = {} /\ Seen(r, 0, t) = {}
  BY DEF OfType, Seen
<1>2. \A f : DOMAIN f = {} => SumFunction(f) = 0
  BY SumEmpty DEF SumFunction
<1>3. Cardinality({}) = 0
  BY FS_EmptySet
<1>4. PICK e, f, g, p, q : /\ e = [c \in {} |-> <<>>[c].count]
                           /\ f = [c \in {} |-> <<>>[c].x_sum]
                           /\ g = [c \in {} |-> <<>>[c].y_sum]
                           /\ p = [m \in {} |-> r[m].x]
                           /\ q = [m \in {} |-> r[m].y]
  OBVIOUS
<1>5. /\ DOMAIN e = {} /\ DOMAIN f = {} /\ DOMAIN g = {}
      /\ DOMAIN p = {} /\ DOMAIN q = {}
  BY <1>4
<1>6. /\ SumFunction(e) = 0 /\ SumFunction(f) = 0 /\ SumFunction(g) = 0
      /\ SumFunction(p) = 0 /\ SumFunction(q) = 0
  BY <1>2, <1>5
<1>7. QED
  BY <1>1, <1>3, <1>4, <1>6 DEF Tallied

(* A gradient that one cluster takes is one more on both sides.            *)
LEMMA TalliedNext ==
  ASSUME NEW s, NEW r, NEW l \in Seq(Gradient), NEW n \in 1 .. Len(l), NEW t,
         IF l[n].type = t THEN OneMore(r, s, t, l[n]) ELSE AsMany(r, s, t),
         Tallied(s, l, n - 1, t)
  PROVE  Tallied(r, l, n, t)
<1>1. PICK old, new : old = Seen(l, n - 1, t) /\ new = Seen(l, n, t)
  OBVIOUS
<1>2. /\ l[n].type # t => new = old
      /\ l[n].type = t =>
           /\ Cardinality(new) = Cardinality(old) + 1
           /\ SumFunction([m \in new |-> l[m].x])
                = SumFunction([m \in old |-> l[m].x]) + l[n].x
           /\ SumFunction([m \in new |-> l[m].y])
                = SumFunction([m \in old |-> l[m].y]) + l[n].y
  BY <1>1, SeenGrows
<1>3. QED
  BY <1>1, <1>2 DEF Tallied, OneMore, AsMany

(* The invariant in terms of Tallied.                                      *)
LEMMA LostMeans ==
  NothingLost <=> (pc = "cluster" /\ Len(clusters) < MaxClusters - 1 =>
                     \A t \in Types : Tallied(clusters, grads, k - 1, t))
BY DEF NothingLost, Tallied, OfType, Seen

(* The same after a step.                                                  *)
LEMMA LostMeansNext ==
  NothingLost' <=> (pc' = "cluster" /\ Len(clusters') < MaxClusters - 1 =>
                      \A t \in Types : Tallied(clusters', grads', k' - 1, t))
BY DEF NothingLost, Tallied, OfType, Seen

(* Until the list of clusters is full, each gradient ends in one of them.  *)
LEMMA LostKept ==
  ASSUME StripeInv, [Next]_vars
  PROVE  LostInv'
<1>1. /\ clusters \in Seq(Cluster) /\ grads \in Seq(Gradient)
      /\ Len(clusters) < MaxClusters /\ k \in Nat \ {0}
      /\ pc = "scan" => clusters = <<>>
      /\ pc = "cluster" => k <= Len(grads) + 1
  BY DEF StripeInv, ClusterInv, GradInv, PhaseInv, LostInv
<1>2. CASE ClusterGradient
  <2>1. PICK g : g = grads[k]
    OBVIOUS
  <2>2. /\ k \in 1 .. Len(grads) /\ grads' = grads /\ g \in Gradient
        /\ pc = "cluster" /\ pc' = "cluster" /\ k' = k + 1
    BY <1>1, <1>2, <2>1 DEF ClusterGradient
  <2>3. ASSUME Len(clusters') < MaxClusters - 1
        PROVE  /\ Len(clusters) < MaxClusters - 1
               /\ \A t \in Types :
                    IF g.type = t THEN OneMore(clusters', clusters, t, g)
                    ELSE AsMany(clusters', clusters, t)
    <3>1. CASE Near(g) # {}
      <4>1. PICK m, o, c : /\ m = Min(Near(g)) /\ o = clusters[m]
                           /\ c = Grown(o, g)
        OBVIOUS
      <4>2. m \in 1 .. Len(clusters) /\ o \in Cluster /\ o.type = g.type
            /\ SumsAmong(o)
        BY <1>1, <3>1, <4>1, NearFound DEF StripeInv, ClusterInv
      <4>3. c \in Cluster
        BY <1>1, <2>1, <2>2, <4>1, <4>2, GrownAmong
      <4>4. clusters' = [clusters EXCEPT ![m] = c]
        BY <1>1, <1>2, <2>1, <3>1, <4>1, <4>2 DEF ClusterGradient
      <4>5. /\ clusters' \in Seq(Cluster) /\ Len(clusters') = Len(clusters)
            /\ clusters'[m] = c
            /\ \A u \in 1 .. Len(clusters) : u # m => clusters'[u] = clusters[u]
        BY <1>1, <4>2, <4>3, <4>4
      <4>6. \A t : IF g.type = t THEN OneMore(clusters', clusters, t, g)
                   ELSE AsMany(clusters', clusters, t)
        <5>1. PICK s, r : s = clusters /\ r = clusters'
          OBVIOUS
        <5>2. /\ s \in Seq(Cluster) /\ g \in Gradient /\ m \in 1 .. Len(s)
              /\ s[m].type = g.type /\ r \in Seq(Cluster) /\ Len(r) = Len(s)
              /\ r[m] = Grown(s[m], g)
              /\ \A u \in 1 .. Len(s) : u # m => r[u] = s[u]
          BY <1>1, <2>2, <4>1, <4>2, <4>5, <5>1
        <5>3. \A t : IF g.type = t THEN OneMore(r, s, t, g) ELSE AsMany(r, s, t)
          BY <5>2, GrownTally
        <5>4. QED
          BY <5>1, <5>3
      <4>7. QED
        BY <2>3, <4>5, <4>6
    <3>2. CASE Near(g) = {}
      <4>1. PICK c, s, max : /\ c = Alone(g) /\ s = Append(clusters, c)
                             /\ max = MaxClusters
        OBVIOUS
      <4>2. c \in Cluster /\ max \in Nat \ {0}
        BY <1>1, <2>1, <2>2, <4>1, AloneAmong, ConstantsAssumed
        DEF ConstantsTyped
      <4>3. /\ s \in Seq(Cluster) /\ Len(s) = Len(clusters) + 1
            /\ s[Len(clusters) + 1] = c
            /\ \A u \in 1 .. Len(clusters) : s[u] = clusters[u]
        BY <1>1, <4>1, <4>2
      <4>4. clusters' = AtMost(s, max)
        BY <1>2, <2>1, <3>2, <4>1 DEF ClusterGradient
      <4>5. Len(s) <= max - 1
        <5>1. Len(s) \in Nat /\ Len(s) = Len(clusters) + 1
          BY <1>1, <4>3
        <5>2. Len(clusters') = Min({Len(s), max - 1})
          BY <4>2, <4>3, <4>4, <5>1, MinOfTwo DEF AtMost
        <5>3. QED
          BY <2>3, <4>1, <4>2, <5>1, <5>2, MinOfTwo
      <4>6. clusters' = s
        BY <4>2, <4>3, <4>4, <4>5, MinOfTwo DEF AtMost
      <4>7. \A t : IF g.type = t THEN OneMore(clusters', clusters, t, g)
                   ELSE AsMany(clusters', clusters, t)
        BY <1>1, <2>2, <4>1, <4>3, <4>6, AloneTally
      <4>8. Len(clusters) < MaxClusters - 1
        BY <1>1, <4>1, <4>2, <4>3, <4>5
      <4>9. QED
        BY <4>7, <4>8
    <3>3. QED
      BY <3>1, <3>2
  <2>4. ASSUME Len(clusters') < MaxClusters - 1, NEW t \in Types
        PROVE  Tallied(clusters', grads, k, t)
    <3>1. Tallied(clusters, grads, k - 1, t)
      BY <2>2, <2>3, <2>4, LostMeans DEF StripeInv, LostInv
    <3>2. PICK s, r, l, n : /\ s = clusters /\ r = clusters'
                            /\ l = grads /\ n = k
      OBVIOUS
    <3>3. /\ l \in Seq(Gradient) /\ n \in 1 .. Len(l)
          /\ IF l[n].type = t THEN OneMore(r, s, t, l[n]) ELSE AsMany(r, s, t)
          /\ Tallied(s, l, n - 1, t)
      BY <1>1, <2>1, <2>2, <2>3, <2>4, <3>1, <3>2
    <3>4. Tallied(r, l, n, t)
      BY <3>3, TalliedNext
    <3>5. QED
      BY <3>2, <3>4
  <2>5. k' - 1 = k /\ k' <= Len(grads') + 1
    BY <1>1, <2>2
  <2>6. QED
    BY <2>2, <2>4, <2>5, LostMeansNext DEF LostInv
<1>3. CASE ImageScanned
  <2>1. /\ clusters' = <<>> /\ k' = 1 /\ k' - 1 = 0 /\ grads' = grads
    BY <1>1, <1>3 DEF ImageScanned
  <2>2. k' <= Len(grads') + 1
    BY <1>1, <2>1
  <2>3. \A t : Tallied(clusters', grads', k' - 1, t)
    BY <2>1, TalliedAtFirst
  <2>4. QED
    BY <2>2, <2>3, LostMeansNext DEF LostInv
<1>4. CASE pc' # "cluster"
  BY <1>4 DEF LostInv, NothingLost
<1>5. CASE UNCHANGED vars
  <2>1. pc' = pc /\ clusters' = clusters /\ grads' = grads /\ k' = k
    BY <1>5 DEF vars
  <2>2. NothingLost'
    BY <2>1, LostMeans, LostMeansNext DEF StripeInv, LostInv
  <2>3. QED
    BY <1>1, <2>1, <2>2 DEF LostInv
<1>6. ClusterGradient \/ ImageScanned \/ pc' # "cluster" \/ UNCHANGED vars
  BY DEF Next, ScanLine, Clustered, FindFeature, FeaturesFound, Paint,
     NoDetectImage, NoFeatures, WriteCount, WriteRecord, EndText, NextImage
<1>7. QED
  BY <1>2, <1>3, <1>4, <1>5, <1>6

------------------------------------------------------------------------------
(* The neighbour is the leftmost cluster of the box, if there is one.      *)
LEMMA NeighbourFound ==
  ASSUME clusters \in Seq(Cluster), NEW b, Neighbour(b) # First
  PROVE  /\ Neighbour(b) \in 1 .. Len(clusters)
         /\ InBox(b, Neighbour(b))
<1>1. PICK box : box = {c \in DOMAIN clusters : InBox(b, c)}
  OBVIOUS
<1>2. PICK T : T = {c \in box : \A d \in box : clusters[c].x <= clusters[d].x}
  OBVIOUS
<1>3. box # {} /\ Neighbour(b) = Min(T)
  BY <1>1, <1>2 DEF Neighbour
<1>4. DOMAIN clusters = 1 .. Len(clusters) /\ box \subseteq 1 .. Len(clusters)
  BY <1>1
<1>5. \A c \in box : clusters[c].x \in Nat
  BY <1>4, ListsTyped
<1>6. PICK X : X = {clusters[c].x : c \in box}
  OBVIOUS
<1>7. X \subseteq Nat /\ X # {}
  BY <1>3, <1>5, <1>6
<1>8. Min(X) \in X /\ \A y \in X : Min(X) <= y
  BY <1>7, NatMin
<1>9. PICK c \in box : clusters[c].x = Min(X)
  BY <1>6, <1>8
<1>10. c \in T
  BY <1>2, <1>6, <1>8, <1>9
<1>11. T \subseteq Nat /\ T # {}
  BY <1>2, <1>4, <1>10
<1>12. Min(T) \in T
  BY <1>11, NatMin
<1>13. QED
  BY <1>1, <1>2, <1>3, <1>4, <1>12

(* A cluster left of all others in the box is the neighbour.               *)
LEMMA NeighbourIs ==
  ASSUME clusters \in Seq(Cluster), NEW b, NEW c \in DOMAIN clusters,
         InBox(b, c),
         \A d \in DOMAIN clusters :
           InBox(b, d) => d = c \/ clusters[c].x < clusters[d].x
  PROVE  Neighbour(b) = c
<1>1. PICK box : box = {d \in DOMAIN clusters : InBox(b, d)}
  OBVIOUS
<1>2. DOMAIN clusters = 1 .. Len(clusters) /\ c \in box
  BY <1>1
<1>3. \A d \in box : clusters[d].x \in Nat
  BY <1>1, <1>2, ListsTyped
<1>4. \A d \in box : d = c \/ clusters[c].x < clusters[d].x
  BY <1>1
<1>5. {u \in box : \A d \in box : clusters[u].x <= clusters[d].x} = {c}
  BY <1>2, <1>3, <1>4
<1>6. {c} \subseteq Nat /\ {c} # {}
  BY <1>2
<1>7. Min({c}) = c
  BY <1>6, NatMin
<1>8. QED
  BY <1>1, <1>2, <1>5, <1>7 DEF Neighbour

(* A cluster in the box of another is to the right of it and about as high.*)
LEMMA BoxBounds ==
  ASSUME clusters \in Seq(Cluster), NEW b \in 1 .. Len(clusters),
         NEW c \in 1 .. Len(clusters)
  PROVE  InBox(b, c) <=>
           /\ c # b
           /\ clusters[c].x > clusters[b].x + MinStripe
           /\ clusters[c].x <= clusters[b].x + MinStripe + MaxStripe
           /\ clusters[c].y > 0
           /\ clusters[c].y > clusters[b].y - DeltaY
           /\ clusters[c].y < clusters[b].y + DeltaY
<1>1. /\ clusters[b].y \in Nat /\ clusters[c].y \in Nat /\ DeltaY \in Nat
  BY ListsTyped, ConstantsAssumed DEF ConstantsTyped
<1>2. PICK y, d : y = clusters[b].y /\ d = y - DeltaY
  OBVIOUS
<1>3. 0 \in Int /\ d \in Int
  BY <1>1, <1>2
<1>4. Max({0, d}) = IF 0 >= d THEN 0 ELSE d
  BY <1>3, MaxOfTwo
<1>5. clusters[c].y > Max({0, d}) <=> clusters[c].y > 0 /\ clusters[c].y > d
  BY <1>1, <1>3, <1>4
<1>6. QED
  BY <1>2, <1>5 DEF InBox

(* The golden ratio within the code's 0.10, as fractions.                  *)
LEMMA GoldenWidths ==
  ASSUME NEW l \in Nat \ {0}, NEW r \in Nat \ {0}, Golden(l, r)
  PROVE  /\ 2 * Max({l, r}) > 3 * Min({l, r})
         /\ 4 * Max({l, r}) < 7 * Min({l, r})
<1>1. PICK a, b : a = Max({l, r}) /\ b = Min({l, r})
  OBVIOUS
<1>2. a \in Nat \ {0} /\ b \in Nat \ {0}
  BY <1>1, MinOfTwo, MaxOfTwo
<1>3. 1000 * a - 1618 * b \in 1 - 100 * b .. 100 * b - 1
  BY <1>1 DEF Golden
<1>4. 1 - 100 * b <= 1000 * a - 1618 * b /\ 1000 * a - 1618 * b <= 100 * b - 1
  BY <1>2, <1>3
<1>5. QED
  BY <1>1, <1>2, <1>4

(* What sf_find_features finds is golden.                                  *)
LEMMA FoundIsGolden ==
  ASSUME clusters \in Seq(Cluster), NEW base \in 1 .. Len(clusters),
         FoundAt(base), NEW f, f = FeatureAt(base)
  PROVE  /\ f \in FeatureInfo /\ f.x_width = f.x_max - f.x_min
         /\ IsGolden(f)
<1>1. PICK n2, n3 : n2 = Neighbour(base) /\ n3 = Neighbour(n2)
  OBVIOUS
<1>2. PICK c1, c2, c3 : /\ c1 = clusters[base] /\ c2 = clusters[n2]
                        /\ c3 = clusters[n3]
  OBVIOUS
<1>3. /\ n2 # First /\ n3 # First
      /\ \A c \in {c1, c2, c3} : c.count >= MinCount
      /\ Stripe(c2.x - c1.x) /\ Stripe(c3.x - c2.x)
      /\ Golden(c2.x - c1.x, c3.x - c2.x)
      /\ f = Feature(c1, c2, c3)
  BY <1>1, <1>2 DEF FoundAt, FeatureAt
<1>4. /\ n2 \in 1 .. Len(clusters) /\ InBox(base, n2)
      /\ n3 \in 1 .. Len(clusters) /\ InBox(n2, n3)
  BY <1>1, <1>3, NeighbourFound
<1>5. c1 \in Cluster /\ c2 \in Cluster /\ c3 \in Cluster
  BY <1>2, <1>4
<1>6. PICK x1, x2, x3, y1, y2, y3 :
        /\ x1 = c1.x /\ x2 = c2.x /\ x3 = c3.x
        /\ y1 = c1.y /\ y2 = c2.y /\ y3 = c3.y
  OBVIOUS
<1>7. /\ x1 \in Nat /\ x2 \in Nat /\ x3 \in Nat /\ x3 < Width
      /\ y1 \in Nat /\ y2 \in Nat /\ y3 \in Nat
      /\ y2 \in Rows /\ x1 \in Columns /\ x3 \in Columns
  BY <1>5, <1>6, ListsTyped
<1>8. /\ x2 > x1 + MinStripe /\ y2 > y1 - DeltaY /\ y2 < y1 + DeltaY
      /\ x3 > x2 + MinStripe /\ y3 > y2 - DeltaY /\ y3 < y2 + DeltaY
  <2>1. /\ c2.x > c1.x + MinStripe
        /\ c2.y > c1.y - DeltaY /\ c2.y < c1.y + DeltaY
    BY <1>2, <1>4, BoxBounds
  <2>2. /\ c3.x > c2.x + MinStripe
        /\ c3.y > c2.y - DeltaY /\ c3.y < c2.y + DeltaY
    BY <1>2, <1>4, BoxBounds
  <2>3. QED
    BY <1>6, <2>1, <2>2
<1>9. PICK l, r, w, xc : /\ l = x2 - x1 /\ r = x3 - x2 /\ w = x3 - x1
                         /\ xc = x1 + w \div 2
  OBVIOUS
<1>10. /\ MinStripe \in Nat \ {0} /\ MaxStripe \in Nat /\ DeltaY \in Nat \ {0}
       /\ Width \in Nat
  BY ConstantsAssumed DEF ConstantsTyped
<1>11. /\ Stripe(l) /\ Stripe(r) /\ Golden(l, r)
  BY <1>3, <1>6, <1>9
<1>12. /\ l \in Nat \ {0} /\ r \in Nat \ {0} /\ l > MinStripe /\ r > MinStripe
       /\ l <= MaxStripe /\ r <= MaxStripe
  BY <1>7, <1>8, <1>9, <1>10, <1>11 DEF Stripe
<1>13. w = l + r /\ w \in Nat
  BY <1>7, <1>9, <1>12
<1>14. w \div 2 \in Nat /\ 2 * (w \div 2) <= w /\ w < 2 * (w \div 2) + 2
  BY <1>13
<1>15. /\ xc \in Nat /\ xc < Width
       /\ l > r => xc < x2
       /\ l < r => xc >= x2
  BY <1>7, <1>9, <1>10, <1>12, <1>13, <1>14
<1>16. f = [x_min |-> x1, x_max |-> x3, x_width |-> w,
            x_center |-> xc, y_center |-> y2]
  BY <1>3, <1>6, <1>9 DEF Feature
<1>17. xc \in Columns
  BY <1>10, <1>15 DEF Columns
<1>18. f \in FeatureInfo
  BY <1>7, <1>13, <1>16, <1>17 DEF FeatureInfo
<1>19. /\ 2 * Max({l, r}) > 3 * Min({l, r})
       /\ 4 * Max({l, r}) < 7 * Min({l, r})
  BY <1>11, <1>12, GoldenWidths
<1>20. Min({l, r}) > MinStripe /\ Max({l, r}) <= MaxStripe
  BY <1>10, <1>12, MinOfTwo, MaxOfTwo
<1>21. /\ y1 - y2 \in 1 - DeltaY .. DeltaY - 1
       /\ y2 - y2 \in 1 - DeltaY .. DeltaY - 1
       /\ y3 - y2 \in 1 - DeltaY .. DeltaY - 1
  BY <1>7, <1>8, <1>10
<1>22. IsGolden(f)
  <2>1. base \in DOMAIN clusters /\ n2 \in DOMAIN clusters /\ n3 \in DOMAIN clusters
    BY <1>4
  <2>2. /\ f.x_min = clusters[base].x /\ f.x_max = clusters[n3].x
        /\ f.y_center = y2
        /\ clusters[n2].x - f.x_min = l /\ f.x_max - clusters[n2].x = r
        /\ l > r => f.x_center < clusters[n2].x
        /\ l < r => f.x_center >= clusters[n2].x
    BY <1>2, <1>6, <1>9, <1>15, <1>16
  <2>3. \A c \in {base, n2, n3} :
          /\ clusters[c].count >= MinCount
          /\ clusters[c].y - f.y_center \in 1 - DeltaY .. DeltaY - 1
    BY <1>2, <1>3, <1>6, <1>21, <2>2
  <2>4. QED
    BY <1>19, <1>20, <2>1, <2>2, <2>3, Zenon DEF IsGolden
<1>23. f.x_width = f.x_max - f.x_min
  BY <1>9, <1>16
<1>24. QED
  BY <1>18, <1>22, <1>23

(* Nothing of this changes while the clusters do not.                      *)
LEMMA SameFeatures ==
  ASSUME clusters' = clusters
  PROVE  /\ \A c : FoundAt(c)' <=> FoundAt(c)
         /\ \A c : FeatureAt(c)' = FeatureAt(c)
         /\ \A f : IsGolden(f)' <=> IsGolden(f)
<1>1. \A c : Neighbour(c)' = Neighbour(c)
  BY DEF Neighbour, InBox
<1>2. \A c : /\ FoundAt(c)' <=> FoundAt(c)
             /\ FeatureAt(c)' = FeatureAt(c)
  BY <1>1 DEF FoundAt, FeatureAt
<1>3. \A f : IsGolden(f)' <=> IsGolden(f)
  BY DEF IsGolden
<1>4. QED
  BY <1>1, <1>2, <1>3

(* FeatureInv of any list and any part of the clusters.                    *)
FeatureListInv(list, S) ==
  /\ \A n \in 1 .. Len(list) :
       IsGolden(list[n]) /\ list[n].x_width = list[n].x_max - list[n].x_min
  /\ Len(list) < MaxFeatures - 1 =>
       \A c \in S :
         FoundAt(c) => \E n \in 1 .. Len(list) : list[n] = FeatureAt(c)

(* The feature part of the invariant, of any list of features.             *)
LEMMA FeatureLists ==
  FeatureInv <=> /\ features \in Seq(FeatureInfo)
                 /\ Len(features) < MaxFeatures
                 /\ FeatureListInv(features, Searched)
<1>1. features \in Seq(FeatureInfo) => DOMAIN features = 1 .. Len(features)
  OBVIOUS
<1>2. QED
  BY <1>1 DEF FeatureInv, FeaturesAreGolden, FeatureListInv

(* sf_find_features adds what it finds at a cluster while there is room.   *)
LEMMA FeatureAdded ==
  ASSUME clusters \in Seq(Cluster), NEW base \in 1 .. Len(clusters),
         FoundAt(base), NEW S, features \in Seq(FeatureInfo),
         FeatureListInv(features, S),
         NEW a, a = AtMost(Append(features, FeatureAt(base)), MaxFeatures)
  PROVE  /\ a \in Seq(FeatureInfo) /\ Len(a) < MaxFeatures
         /\ FeatureListInv(a, S \cup {base})
<1>1. PICK f, s, m : /\ f = FeatureAt(base) /\ s = Append(features, f)
                     /\ m = Len(features)
  OBVIOUS
<1>2. /\ f \in FeatureInfo /\ f.x_width = f.x_max - f.x_min /\ IsGolden(f)
  BY <1>1, FoundIsGolden
<1>3. /\ s \in Seq(FeatureInfo) /\ Len(s) = m + 1 /\ m \in Nat
      /\ s[m + 1] = f /\ \A u \in 1 .. m : s[u] = features[u]
  BY <1>1, <1>2
<1>4. MaxFeatures \in Nat \ {0} /\ a = AtMost(s, MaxFeatures)
  BY <1>1, ConstantsAssumed DEF ConstantsTyped
<1>5. /\ a \in Seq(FeatureInfo) /\ Len(a) \in Nat /\ Len(a) < MaxFeatures
      /\ Len(a) <= Len(s) /\ \A u \in 1 .. Len(a) : a[u] = s[u]
      /\ Len(a) = Len(s) \/ Len(a) = MaxFeatures - 1
  BY <1>3, <1>4, AtMostOf
<1>6. ASSUME NEW u \in 1 .. Len(a)
      PROVE  IsGolden(a[u]) /\ a[u].x_width = a[u].x_max - a[u].x_min
  <2>1. a[u] = s[u] /\ (u \in 1 .. m \/ u = m + 1)
    BY <1>3, <1>5
  <2>2. CASE u \in 1 .. m
    <3>1. a[u] = features[u]
      BY <1>3, <2>1, <2>2
    <3>2. QED
      BY <1>1, <2>2, <3>1 DEF FeatureListInv
  <2>3. CASE u = m + 1
    BY <1>2, <1>3, <2>1, <2>3
  <2>4. QED
    BY <2>1, <2>2, <2>3
<1>7. ASSUME Len(a) < MaxFeatures - 1, NEW c \in S \cup {base}, FoundAt(c)
      PROVE  \E n \in 1 .. Len(a) : a[n] = FeatureAt(c)
  <2>1. Len(a) = m + 1 /\ m < MaxFeatures - 1
    BY <1>3, <1>4, <1>5, <1>7
  <2>2. CASE c \in S
    <3>1. PICK n \in 1 .. m : features[n] = FeatureAt(c)
      BY <1>1, <1>7, <2>1, <2>2 DEF FeatureListInv
    <3>2. n \in 1 .. Len(a) /\ a[n] = features[n]
      BY <1>3, <1>5, <2>1
    <3>3. QED
      BY <3>1, <3>2
  <2>3. CASE c = base
    <3>1. m + 1 \in 1 .. Len(a) /\ a[m + 1] = f
      BY <1>3, <1>5, <2>1
    <3>2. QED
      BY <1>1, <2>3, <3>1
  <2>4. QED
    BY <2>2, <2>3
<1>8. QED
  BY <1>5, <1>6, <1>7 DEF FeatureListInv

(* Every step keeps the features golden and complete.                      *)
LEMMA FeatureKept ==
  ASSUME StripeInv, [Next]_vars
  PROVE  FeatureInv'
<1>1. /\ clusters \in Seq(Cluster) /\ features \in Seq(FeatureInfo)
      /\ Len(features) < MaxFeatures /\ FeatureListInv(features, Searched)
      /\ MaxFeatures \in Nat \ {0} /\ DOMAIN clusters = 1 .. Len(clusters)
  BY FeatureLists, ConstantsAssumed DEF StripeInv, ClusterInv, ConstantsTyped
<1>2. CASE FindFeature
  <2>1. /\ pc = "features" /\ pc' = "features" /\ k \in 1 .. Len(clusters)
        /\ k' = k + 1 /\ clusters' = clusters /\ k \in Nat
    BY <1>1, <1>2 DEF FindFeature, StripeInv, PhaseInv
  <2>2. features' = IF FoundAt(k)
                    THEN AtMost(Append(features, FeatureAt(k)), MaxFeatures)
                    ELSE features
    BY <1>2 DEF FindFeature, FoundAt, FeatureAt
  <2>3. Searched' = Searched \cup {k}
    BY <1>1, <2>1 DEF Searched
  <2>4. /\ features' \in Seq(FeatureInfo) /\ Len(features') < MaxFeatures
        /\ FeatureListInv(features', Searched \cup {k})
    <3>1. CASE FoundAt(k)
      BY <1>1, <2>1, <2>2, <3>1, FeatureAdded
    <3>2. CASE ~FoundAt(k)
      BY <1>1, <2>2, <3>2 DEF FeatureListInv
    <3>3. QED
      BY <3>1, <3>2
  <2>5. FeatureListInv(features, Searched)'
    BY <2>1, <2>3, <2>4, SameFeatures DEF FeatureListInv
  <2>6. QED
    BY <2>4, <2>5 DEF FeatureListInv, FeatureInv, FeaturesAreGolden
<1>3. CASE features' = <<>> /\ Searched' = {}
  BY <1>1, <1>3 DEF FeatureInv, FeaturesAreGolden
<1>4. CASE features' = features /\ clusters' = clusters /\ Searched' = Searched
  <2>1. FeatureListInv(features, Searched)'
    BY <1>1, <1>4, SameFeatures DEF FeatureListInv
  <2>2. /\ features' \in Seq(FeatureInfo) /\ Len(features') < MaxFeatures
        /\ DOMAIN features' = 1 .. Len(features')
    BY <1>1, <1>4
  <2>3. QED
    BY <2>1, <2>2 DEF FeatureListInv, FeatureInv, FeaturesAreGolden
<1>5. CASE ScanLine \/ ImageScanned \/ ClusterGradient \/ Clustered \/ NextImage
  <2>1. features' = <<>>
    BY <1>5 DEF ScanLine, ImageScanned, ClusterGradient, Clustered, NextImage,
       StripeInv, PhaseInv
  <2>2. Searched' = {}
    <3>1. CASE Clustered
      <4>1. pc' = "features" /\ k' = 1 /\ DOMAIN clusters' = DOMAIN clusters
        BY <3>1 DEF Clustered
      <4>2. QED
        BY <1>1, <4>1 DEF Searched
    <3>2. CASE ScanLine \/ ImageScanned \/ ClusterGradient \/ NextImage
      BY <3>2 DEF ScanLine, ImageScanned, ClusterGradient, NextImage, Searched
    <3>3. QED
      BY <1>5, <3>1, <3>2
  <2>3. QED
    BY <1>3, <2>1, <2>2
<1>6. CASE FeaturesFound
  <2>1. /\ pc = "features" /\ pc' = "paint" /\ k > Len(clusters)
        /\ features' = features /\ clusters' = clusters /\ k \in Nat
    BY <1>6 DEF FeaturesFound, StripeInv, PhaseInv
  <2>2. Searched' = Searched
    BY <1>1, <2>1 DEF Searched
  <2>3. QED
    BY <1>4, <2>1, <2>2
<1>7. CASE Paint \/ NoDetectImage \/ NoFeatures \/ WriteCount
           \/ WriteRecord \/ EndText
  <2>1. /\ features' = features /\ clusters' = clusters
        /\ pc \in {"paint", "text", "records"}
        /\ pc' \in {"text", "records", "done"}
    BY <1>7 DEF Paint, NoDetectImage, NoFeatures, WriteCount, WriteRecord,
       EndText
  <2>2. Searched' = Searched
    BY <2>1 DEF Searched
  <2>3. QED
    BY <1>4, <2>1, <2>2
<1>8. CASE UNCHANGED vars
  BY <1>4, <1>8 DEF vars, Searched
<1>9. QED
  BY <1>2, <1>5, <1>6, <1>7, <1>8 DEF Next

------------------------------------------------------------------------------
(* Ten digits are enough for any number of %d of an int's range.           *)
LEMMA DigitsBounded ==
  ASSUME NEW n
  PROVE  Digits(n) \in Nat /\ 1 <= Digits(n) /\ Digits(n) <= 10
<1> DEFINE f == <<10, 100, 1000, 10000, 100000, 1000000, 10000000,
                  100000000, 1000000000>>
<1>1. PICK m : m = 9
  OBVIOUS
<1>2. f \in [1 .. m -> PowersOfTen]
  BY <1>1 DEF PowersOfTen
<1>3. ASSUME NEW p \in PowersOfTen PROVE \E u \in 1 .. m : f[u] = p
  BY <1>1 DEF PowersOfTen
<1>4. f \in Surjection(1 .. m, PowersOfTen)
  BY <1>2, <1>3 DEF Surjection
<1> HIDE DEF f
<1>5. IsFiniteSet(1 .. m) /\ Cardinality(1 .. m) = m
  <2>1. m \in Nat
    BY <1>1
  <2>2. QED
    BY <2>1, FS_Interval
<1>6. IsFiniteSet(PowersOfTen) /\ Cardinality(PowersOfTen) <= 9
  BY <1>1, <1>4, <1>5, FS_Surjection
<1>7. PICK S : S = {p \in PowersOfTen : p <= n}
  OBVIOUS
<1>8. /\ IsFiniteSet(S) /\ Cardinality(S) <= Cardinality(PowersOfTen)
      /\ Cardinality(S) \in Nat /\ Cardinality(PowersOfTen) \in Nat
  BY <1>6, <1>7, FS_Subset, FS_CardinalityType
<1>9. Digits(n) = 1 + Cardinality(S)
  BY <1>7 DEF Digits
<1>10. QED
  BY <1>6, <1>8, <1>9

(* A record has a length.                                                  *)
LEMMA RecordTyped == \A n : RecordLength(n) \in Nat
<1>1. ASSUME NEW n PROVE RecordLength(n) \in Nat
  <2>1. PICK a, b, c, d, e, f :
          /\ a = Digits(n - 1) /\ b = Digits(features[n].x_min)
          /\ c = Digits(features[n].x_max) /\ d = Digits(features[n].y_center)
          /\ e = Digits(1) /\ f = Digits(features[n].x_width)
    OBVIOUS
  <2>2. /\ a \in Nat /\ b \in Nat /\ c \in Nat /\ d \in Nat /\ e \in Nat
        /\ f \in Nat
    BY <2>1, DigitsBounded
  <2>3. RecordLength(n) = 7 + a + b + c + 2 * d + e + f
    BY <2>1 DEF RecordLength
  <2>4. QED
    BY <2>2, <2>3
<1>2. QED
  BY <1>1

(* The characters of the records, one record after the other.              *)
LEMMA TakenGrows ==
  /\ Taken(0) = Digits(Len(features))
  /\ \A n \in Nat : Taken(n) \in Nat /\ Taken(n + 1) = Taken(n) + RecordLength(n + 1)
<1>1. Digits(Len(features)) \in Nat
  BY DigitsBounded
<1>2. PICK d : d = Digits(Len(features))
  OBVIOUS
<1>3. Taken(0) = d
  <2>1. 1 .. 0 = {}
    OBVIOUS
  <2>2. PICK f : f = [m \in 1 .. 0 |-> RecordLength(m)]
    OBVIOUS
  <2>3. SumFunctionOnSet(f, DOMAIN f) = 0
    BY <2>1, <2>2, SumEmpty
  <2>4. QED
    BY <1>1, <1>2, <2>2, <2>3 DEF Taken, SumFunction
<1>4. ASSUME NEW n \in Nat
      PROVE  Taken(n) \in Nat /\ Taken(n + 1) = Taken(n) + RecordLength(n + 1)
  <2>1. PICK S, T : S = 1 .. n /\ T = 1 .. n + 1
    OBVIOUS
  <2>2. PICK f, e : /\ f = [m \in 1 .. n |-> RecordLength(m)]
                    /\ e = [m \in 1 .. n + 1 |-> RecordLength(m)]
    OBVIOUS
  <2>3. /\ IsFiniteSet(S) /\ n + 1 \notin S /\ n + 1 \in T /\ S \subseteq T
        /\ \A y \in T : y \in S \/ y = n + 1
    BY <2>1, FS_Interval
  <2>4. /\ \A y \in S : f[y] = RecordLength(y) /\ e[y] = f[y]
        /\ e[n + 1] = RecordLength(n + 1)
        /\ DOMAIN f = S /\ DOMAIN e = T
    BY <2>1, <2>2
  <2>5. (\A y \in S : f[y] \in Nat) /\ e[n + 1] \in Nat
    BY <2>4, RecordTyped
  <2>6. SumFunctionOnSet(e, T) = SumFunctionOnSet(f, S) + e[n + 1]
    BY <2>3, <2>4, <2>5, SumAdds
  <2>7. SumFunctionOnSet(f, S) \in Nat
    BY <2>3, <2>5, SumTyped
  <2>8. PICK u, v : u = SumFunctionOnSet(f, S) /\ v = SumFunctionOnSet(e, T)
    OBVIOUS
  <2>9. Taken(n) = d + u /\ Taken(n + 1) = d + v
    BY <1>2, <2>2, <2>4, <2>8 DEF Taken, SumFunction
  <2>10. d \in Nat /\ u \in Nat /\ v = u + RecordLength(n + 1)
    BY <1>1, <1>2, <2>4, <2>6, <2>7, <2>8
  <2>11. PICK l : l = RecordLength(n + 1)
    OBVIOUS
  <2>12. l \in Nat
    BY <2>11, RecordTyped
  <2>13. QED
    BY <2>9, <2>10, <2>11, <2>12
<1>5. QED
  BY <1>2, <1>3, <1>4

(* The characters of the records are those of the same features later.     *)
LEMMA TakenSame ==
  ASSUME features' = features
  PROVE  \A n : Taken(n)' = Taken(n)
  BY DEF Taken, RecordLength

(* sf_get_feature_list_data_string counts its characters and its complete  *)
(* records with the room that remains and the loop variable.               *)
LEMMA TextKept ==
  ASSUME StripeInv, [Next]_vars
  PROVE  TextInv'
<1>1. /\ text \in [length : Nat, records : Nat, terminator : Nat]
      /\ TextSize \in Nat /\ TextSize >= 11
      /\ features \in Seq(FeatureInfo) /\ Len(features) \in Nat
      /\ k \in Nat \ {0}
      /\ pc \notin {"records", "done"} => text = NoText
      /\ pc = "records" =>
           /\ k = text.records + 1 /\ text.records <= Len(features)
           /\ text.length = Taken(text.records) /\ text.length <= TextSize
      /\ pc \in {"paint", "text"} => k = 1
  BY ConstantsAssumed DEF StripeInv, PhaseInv, FeatureInv, TextInv,
     ConstantsTyped
<1>2. PICK len, rec : len = text.length /\ rec = text.records
  OBVIOUS
<1>3. /\ len \in Nat /\ rec \in Nat
      /\ pc = "records" =>
           /\ k = rec + 1 /\ rec <= Len(features)
           /\ len = Taken(rec) /\ len <= TextSize
  BY <1>1, <1>2
<1>4. NoText \in [length : Nat, records : Nat, terminator : Nat]
  BY DEF NoText
<1>5. ASSUME NEW n \in Nat, NEW r \in Nat
      PROVE  /\ Text(n, r) \in [length : Nat, records : Nat, terminator : Nat]
             /\ Text(n, r).length = n /\ Text(n, r).records = r
  BY DEF Text
<1>6. CASE ScanLine \/ ImageScanned \/ ClusterGradient \/ Clustered
           \/ FindFeature \/ FeaturesFound \/ Paint \/ NoDetectImage
           \/ NextImage
  <2>1. /\ text' = NoText /\ pc' \notin {"records", "done"}
        /\ pc' \in {"paint", "text"} => k' = 1
    BY <1>1, <1>6 DEF ScanLine, ImageScanned, ClusterGradient, Clustered,
       FindFeature, FeaturesFound, Paint, NoDetectImage, NextImage
  <2>2. QED
    BY <1>4, <2>1 DEF TextInv, TextHoldsFeatures
<1>7. CASE NoFeatures
  <2>1. /\ text' = NoText /\ pc' = "done" /\ features' = <<>>
    BY <1>1, <1>7 DEF NoFeatures
  <2>2. QED
    BY <1>4, <2>1 DEF TextInv, TextHoldsFeatures
<1>8. CASE WriteCount
  <2>1. PICK d : d = Digits(Len(features))
    OBVIOUS
  <2>2. /\ pc' = "records" /\ features' = features
        /\ k' = 1 /\ text' = Text(d, 0)
    BY <1>1, <1>8, <2>1 DEF WriteCount
  <2>3. d \in Nat /\ d <= TextSize
    BY <1>1, <2>1, DigitsBounded
  <2>4. /\ text' \in [length : Nat, records : Nat, terminator : Nat]
        /\ text'.length = d /\ text'.records = 0
    BY <1>5, <2>2, <2>3
  <2>5. Taken(0)' = d
    BY <2>1, <2>2, TakenSame, TakenGrows
  <2>6. QED
    BY <1>1, <2>2, <2>3, <2>4, <2>5 DEF TextInv, TextHoldsFeatures
<1>9. CASE WriteRecord
  <2>1. PICK l : l = RecordLength(k)
    OBVIOUS
  <2>2. /\ pc = "records" /\ pc' = "records" /\ features' = features
        /\ k <= Len(features) /\ k = rec + 1 /\ k' = k + 1
        /\ text' = Text(len + l, rec + 1)
        /\ l <= TextSize - len
    BY <1>1, <1>2, <1>9, <2>1 DEF WriteRecord, Fits
  <2>3. l \in Nat
    BY <2>1, RecordTyped
  <2>4. /\ len + l \in Nat /\ len + l <= TextSize
        /\ rec + 1 \in Nat /\ rec + 1 <= Len(features)
    BY <1>1, <1>3, <2>2, <2>3
  <2>5. /\ text' \in [length : Nat, records : Nat, terminator : Nat]
        /\ text'.length = len + l /\ text'.records = rec + 1
    BY <1>5, <2>2, <2>4
  <2>6. Taken(rec + 1)' = len + l
    BY <1>3, <2>1, <2>2, TakenSame, TakenGrows
  <2>7. k' = rec + 1 + 1
    BY <2>2
  <2>8. QED
    BY <2>2, <2>4, <2>5, <2>6, <2>7 DEF TextInv, TextHoldsFeatures
<1>10. CASE EndText
  <2>1. PICK l : l = RecordLength(k)
    OBVIOUS
  <2>2. /\ pc = "records" /\ pc' = "done" /\ features' = features
        /\ k <= Len(features) => ~(l <= TextSize - len)
        /\ text' = IF len < TextSize THEN Text(len + 1, rec) ELSE text
    BY <1>1, <1>2, <1>10, <2>1 DEF EndText, Fits
  <2>3. l \in Nat
    BY <2>1, RecordTyped
  <2>4. PICK m : m = IF len < TextSize THEN len + 1 ELSE len
    OBVIOUS
  <2>5. /\ text' \in [length : Nat, records : Nat, terminator : Nat]
        /\ text'.length = m /\ text'.records = rec
    <3>1. CASE len < TextSize
      <4>1. len + 1 \in Nat /\ m = len + 1 /\ text' = Text(len + 1, rec)
        BY <1>3, <2>2, <2>4, <3>1
      <4>2. QED
        BY <1>3, <1>5, <4>1
    <3>2. CASE ~(len < TextSize)
      <4>1. m = len /\ text' = text
        BY <2>2, <2>4, <3>2
      <4>2. QED
        BY <1>1, <1>2, <4>1
    <3>3. QED
      BY <3>1, <3>2
  <2>6. m = Min({len + 1, TextSize})
    BY <1>1, <1>3, <2>2, <2>4, MinOfTwo
  <2>7. Taken(rec)' = len
    BY <1>3, <2>2, TakenSame
  <2>8. rec < Len(features) => Taken(rec + 1) > TextSize
    <3>1. Taken(rec + 1) = len + RecordLength(rec + 1)
      BY <1>3, <2>2, TakenGrows
    <3>2. Taken(rec + 1) = len + l
      BY <1>3, <2>1, <2>2, <3>1
    <3>3. QED
      BY <1>1, <1>3, <2>2, <2>3, <3>2
  <2>9. Taken(rec + 1)' = Taken(rec + 1)
    BY <2>2, TakenSame
  <2>10. PICK t : t = Taken(rec + 1)'
    OBVIOUS
  <2>11. rec < Len(features) => t > TextSize
    BY <2>8, <2>9, <2>10
  <2>12. QED
    BY <1>3, <2>2, <2>5, <2>6, <2>7, <2>10, <2>11 DEF TextInv, TextHoldsFeatures
<1>11. CASE UNCHANGED vars
  <2>1. /\ pc' = pc /\ k' = k /\ text' = text /\ features' = features
    BY <1>11 DEF vars
  <2>2. \A n : Taken(n)' = Taken(n)
    BY <2>1, TakenSame
  <2>3. QED
    BY <2>1, <2>2 DEF StripeInv, TextInv, TextHoldsFeatures
<1>12. QED
  BY <1>6, <1>7, <1>8, <1>9, <1>10, <1>11 DEF Next

------------------------------------------------------------------------------
(* What sf_write_image paints for a gradient, a cluster and a feature.     *)
LEMMA DotsInside ==
  ASSUME NEW x \in Nat, x < Width, NEW y \in Nat, y < Height
  PROVE  Offset(x, y) \in 0 .. Width * Height - 1
<1>1. Width \in Nat /\ Height \in Nat /\ 0 <= x /\ 0 <= y
  BY ConstantsAssumed DEF ConstantsTyped
<1>2. QED
  BY <1>1, OffsetInside DEF Offset

(* The dots of a gradient are inside the image.                            *)
LEMMA GradientInside ==
  ASSUME NEW g \in Gradient
  PROVE  GradientDots(g) \subseteq 0 .. Width * Height - 1
<1>1. /\ g.x \in Nat /\ g.x < Width /\ g.y \in Nat /\ g.y < Height
      /\ Height \in Nat
  BY ListsTyped, ConstantsAssumed DEF ConstantsTyped
<1>2. PICK x, y : x = g.x /\ y = g.y
  OBVIOUS
<1>3. \A u \in {y} \cup (IF y > 0 THEN {y - 1} ELSE {})
              \cup (IF y < Height - 1 THEN {y + 1} ELSE {}) :
        u \in Nat /\ u < Height
  BY <1>1, <1>2
<1>4. QED
  BY <1>1, <1>2, <1>3, DotsInside DEF GradientDots

(* The line of a feature is inside the image.                              *)
LEMMA LineInside ==
  ASSUME NEW f \in FeatureInfo, f.x_width = f.x_max - f.x_min
  PROVE  FeatureLine(f) \subseteq 0 .. Width * Height - 1
<1>1. PICK l, w, y : l = f.x_min /\ w = f.x_width /\ y = f.y_center
  OBVIOUS
<1>2. /\ l \in Nat /\ w \in Nat /\ l + w < Width /\ y \in Nat /\ y < Height
      /\ Width \in Nat
  <2>1. PICK m : m = f.x_max
    OBVIOUS
  <2>2. /\ l \in Nat /\ w \in Nat /\ y \in Nat /\ y < Height /\ m \in Nat
        /\ m < Width /\ w = m - l /\ Width \in Nat
    BY <1>1, <2>1, ListsTyped, ConstantsAssumed DEF ConstantsTyped
  <2>3. QED
    BY <2>2
<1>3. PICK start : start = Offset(l, y)
  OBVIOUS
<1>4. PICK p : p = y * Width
  OBVIOUS
<1>5. p \in Nat /\ start = p + l
  BY <1>2, <1>3, <1>4 DEF Offset
<1>6. ASSUME NEW n \in 0 .. w PROVE start + n \in 0 .. Width * Height - 1
  <2>1. l + n \in Nat /\ l + n < Width
    BY <1>2
  <2>2. Offset(l + n, y) \in 0 .. Width * Height - 1
    BY <1>2, <2>1, DotsInside
  <2>3. Offset(l + n, y) = p + (l + n)
    BY <1>4 DEF Offset
  <2>4. start + n = p + (l + n)
    BY <1>2, <1>5
  <2>5. QED
    BY <2>2, <2>3, <2>4
<1>7. w \div 2 \in 0 .. w
  BY <1>2
<1>8. ASSUME NEW o \in start .. start + w - 1
      PROVE  o \in 0 .. Width * Height - 1
  <2>1. o - start \in 0 .. w /\ o = start + (o - start)
    BY <1>2, <1>5
  <2>2. QED
    BY <1>6, <2>1
<1>9. FeatureLine(f) = (start .. start + w - 1) \cup {start + w \div 2}
  BY <1>1, <1>3 DEF FeatureLine
<1>10. QED
  BY <1>6, <1>7, <1>8, <1>9

(* Every step paints inside the image.                                     *)
LEMMA PaintKept ==
  ASSUME StripeInv, [Next]_vars
  PROVE  PaintsInsideImage'
<1>1. CASE Paint
  <2>1. /\ \A n \in DOMAIN grads : grads[n] \in Gradient
        /\ \A n \in DOMAIN clusters : clusters[n] \in Cluster
        /\ \A n \in DOMAIN features :
             /\ features[n] \in FeatureInfo
             /\ features[n].x_width = features[n].x_max - features[n].x_min
    BY DEF StripeInv, GradInv, ClusterInv, FeatureInv
  <2>2. \A n \in DOMAIN grads :
          GradientDots(grads[n]) \subseteq 0 .. Width * Height - 1
    BY <2>1, GradientInside
  <2>3. \A n \in DOMAIN clusters :
          Offset(clusters[n].x, clusters[n].y) \in 0 .. Width * Height - 1
    BY <2>1, ListsTyped, DotsInside
  <2>4. \A n \in DOMAIN features :
          FeatureLine(features[n]) \subseteq 0 .. Width * Height - 1
    BY <2>1, LineInside
  <2>5. painted' =
          (UNION {GradientDots(grads[n]) : n \in DOMAIN grads})
            \cup {Offset(clusters[n].x, clusters[n].y) : n \in DOMAIN clusters}
            \cup (UNION {FeatureLine(features[n]) : n \in DOMAIN features})
    BY <1>1 DEF Paint
  <2>6. SUFFICES ASSUME NEW o \in painted'
                 PROVE  o \in 0 .. Width * Height - 1
    BY DEF PaintsInsideImage
  <2>7. \/ \E n \in DOMAIN grads : o \in GradientDots(grads[n])
        \/ \E n \in DOMAIN clusters : o = Offset(clusters[n].x, clusters[n].y)
        \/ \E n \in DOMAIN features : o \in FeatureLine(features[n])
    BY <2>5, <2>6
  <2>8. QED
    BY <2>2, <2>3, <2>4, <2>7
<1>2. CASE NextImage
  BY <1>2 DEF NextImage, PaintsInsideImage
<1>3. CASE ~Paint /\ ~NextImage
  <2>1. painted' = painted
    BY <1>3 DEF Next, vars, ScanLine, ImageScanned, ClusterGradient, Clustered,
       FindFeature, FeaturesFound, NoDetectImage, NoFeatures, WriteCount,
       WriteRecord, EndText
  <2>2. QED
    BY <2>1 DEF StripeInv, PaintsInsideImage
<1>4. QED
  BY <1>1, <1>2, <1>3

------------------------------------------------------------------------------
(* The invariant holds before the first line.                              *)
LEMMA StripeInvInitially == Init => StripeInv
<1>1. SUFFICES ASSUME Init PROVE StripeInv
  OBVIOUS
<1>2. /\ pc = "scan" /\ line = 0 /\ k = 1 /\ text = NoText
      /\ grads = <<>> /\ clusters = <<>> /\ features = <<>> /\ painted = {}
  BY <1>1 DEF Init
<1>3. PhaseInv
  BY <1>2, ConstantsAssumed DEF PhaseInv, ConstantsTyped
<1>4. GradInv
  BY <1>2, ConstantsAssumed DEF GradInv, GradientsAlternate, ConstantsTyped
<1>5. ClusterInv
  BY <1>2, ConstantsAssumed DEF ClusterInv, ConstantsTyped
<1>6. FeatureInv
  BY <1>2, ConstantsAssumed DEF FeatureInv, FeaturesAreGolden, Searched,
     ConstantsTyped
<1>7. TextInv
  BY <1>2, ConstantsAssumed DEF TextInv, TextHoldsFeatures, NoText,
     ConstantsTyped
<1>8. PaintsInsideImage
  BY <1>2 DEF PaintsInsideImage
<1>9. LostInv
  BY <1>2 DEF LostInv, NothingLost
<1>10. QED
  BY <1>3, <1>4, <1>5, <1>6, <1>7, <1>8, <1>9 DEF StripeInv

(* The invariant holds of every image and stays through the next.          *)
THEOREM StripeInvHolds == Spec => []StripeInv
<1>1. StripeInv /\ [Next]_vars => StripeInv'
  BY PhaseKept, GradKept, ClusterKept, LostKept, FeatureKept, TextKept,
     PaintKept
  DEF StripeInv
<1>2. QED
  BY StripeInvInitially, <1>1, PTL DEF Spec

(* The lists of compress_yuyv_to_jpeg hold what their types say and never  *)
(* more than one element less than their limits.                           *)
THEOREM StripeTypeCorrect == Spec => []TypeOK
<1>1. StripeInv => TypeOK
  <2>1. SUFFICES ASSUME StripeInv PROVE TypeOK
    OBVIOUS
  <2>2. painted \subseteq Int
    BY <2>1 DEF StripeInv, PaintsInsideImage
  <2>3. QED
    BY <2>1, <2>2 DEF StripeInv, PhaseInv, GradInv, ClusterInv, FeatureInv,
       TextInv, TypeOK, Gradient, Cluster, FeatureInfo
<1>2. QED
  BY StripeInvHolds, <1>1, PTL

(* sf_find_gradients: the gradients of a line alternate, a rise first, and *)
(* the list is in reading order, full or not.                              *)
THEOREM GradientsAlternateHolds == Spec => []GradientsAlternate
<1>1. StripeInv => GradientsAlternate
  BY DEF StripeInv, GradInv
<1>2. QED
  BY StripeInvHolds, <1>1, PTL

(* sf_cluster_gradients: until the list of clusters is full, every gradient *)
(* is counted and summed in exactly one cluster, of its own type.          *)
THEOREM NothingLostHolds == Spec => []NothingLost
<1>1. StripeInv => NothingLost
  BY DEF StripeInv, LostInv
<1>2. QED
  BY StripeInvHolds, <1>1, PTL

(* sf_cluster_gradients: a centre never leaves the gradients of its type.  *)
THEOREM CentresAmongGradientsHolds == Spec => []CentresAmongGradients
<1>1. StripeInv => CentresAmongGradients
  <2>1. SUFFICES ASSUME StripeInv, NEW c \in DOMAIN clusters
                 PROVE  /\ {n \in DOMAIN grads :
                              grads[n].type = clusters[c].type} # {}
                        /\ clusters[c].x \in Min(Xs(clusters[c].type))
                                               .. Max(Xs(clusters[c].type))
                        /\ clusters[c].y \in Min(Ys(clusters[c].type))
                                               .. Max(Ys(clusters[c].type))
    BY DEF CentresAmongGradients, Xs, Ys
  <2>2. PICK b, t, X, Y : /\ b = clusters[c] /\ t = b.type
                          /\ X = Xs(t) /\ Y = Ys(t)
    OBVIOUS
  <2>3. b \in Cluster /\ SumsAmong(b) /\ grads \in Seq(Gradient)
    BY <2>1, <2>2 DEF StripeInv, ClusterInv, GradInv
  <2>4. /\ X # {} /\ Y # {} /\ X \subseteq 0 .. Width - 1
        /\ Y \subseteq 0 .. Height - 1
        /\ Width - 1 \in Nat /\ Height - 1 \in Nat
    BY <2>2, <2>3, CoordinatesBounded DEF SumsAmong
  <2>5. /\ b.count \in Nat \ {0} /\ b.x_sum \in Nat /\ b.y_sum \in Nat
    BY <2>3, ListsTyped
  <2>6. Between(X, b.count, b.x_sum) /\ Between(Y, b.count, b.y_sum)
    BY <2>2, <2>3 DEF SumsAmong
  <2>7. b.x_sum \div b.count \in Min(X) .. Max(X)
    BY <2>4, <2>5, <2>6, MeanBetween
  <2>8. b.y_sum \div b.count \in Min(Y) .. Max(Y)
    BY <2>4, <2>5, <2>6, MeanBetween
  <2>9. b.x = b.x_sum \div b.count /\ b.y = b.y_sum \div b.count
    BY <2>3 DEF SumsAmong
  <2>10. {n \in DOMAIN grads : grads[n].type = t} # {}
    BY <2>2, <2>4 DEF Xs
  <2>11. QED
    BY <2>2, <2>7, <2>8, <2>9, <2>10
<1>2. QED
  BY StripeInvHolds, <1>1, PTL

(* sf_find_features: every feature is two stripes in the golden ratio,     *)
(* between clusters that are still where they were.                        *)
THEOREM FeaturesAreGoldenHolds == Spec => []FeaturesAreGolden
<1>1. StripeInv => FeaturesAreGolden
  BY DEF StripeInv, FeatureInv
<1>2. QED
  BY StripeInvHolds, <1>1, PTL

(* sf_write_image writes inside the image.                                 *)
THEOREM StripesPaintInside == Spec => []PaintsInsideImage
<1>1. StripeInv => PaintsInsideImage
  BY DEF StripeInv
<1>2. QED
  BY StripeInvHolds, <1>1, PTL

(* The text is the longest run of records, from the first, whose           *)
(* characters have room: no record is cut, left out or written twice.  What*)
(* it does not have is room for the terminator (TextFitsArray, refuted).   *)
THEOREM TextHoldsFeaturesHolds == Spec => []TextHoldsFeatures
<1>1. StripeInv => TextHoldsFeatures
  BY DEF StripeInv, TextInv
<1>2. QED
  BY StripeInvHolds, <1>1, PTL

(* Three large clusters alone at their height, with golden widths, are a   *)
(* feature: the neighbour of the first can only be the second, its         *)
(* neighbour only the third, and the search has been at the first.         *)
THEOREM GoldenStripesFoundHolds == Spec => []GoldenStripesFound
<1>1. StripeInv => GoldenStripesFound
  <2>1. SUFFICES
          ASSUME StripeInv, pc \in {"paint", "text", "records", "done"},
                 Len(features) < MaxFeatures - 1,
                 NEW n1 \in DOMAIN clusters, NEW n2 \in DOMAIN clusters,
                 NEW n3 \in DOMAIN clusters,
                 First \notin {n2, n3},
                 \A n \in {n1, n2, n3} : clusters[n].y = clusters[n1].y
                                         /\ clusters[n].y > 0,
                 \A n \in {n1, n2, n3} : clusters[n].count >= MinCount,
                 \A n \in DOMAIN clusters \ {n1, n2, n3} :
                   clusters[n].y - clusters[n1].y \notin 1 - DeltaY .. DeltaY - 1,
                 {clusters[n2].x - clusters[n1].x, clusters[n3].x - clusters[n2].x}
                   \subseteq MinStripe + 1 .. MaxStripe,
                 Golden(clusters[n2].x - clusters[n1].x,
                        clusters[n3].x - clusters[n2].x)
          PROVE  \E n \in DOMAIN features :
                   /\ features[n].x_min = clusters[n1].x
                   /\ features[n].x_max = clusters[n3].x
                   /\ features[n].y_center = clusters[n2].y
    BY DEF GoldenStripesFound
  <2>2. clusters \in Seq(Cluster) /\ DOMAIN clusters = 1 .. Len(clusters)
    BY <2>1 DEF StripeInv, ClusterInv
  <2>3. /\ MinStripe \in Nat \ {0} /\ MaxStripe \in Nat /\ DeltaY \in Nat \ {0}
        /\ MinStripe <= MaxStripe
    BY ConstantsAssumed DEF ConstantsTyped
  <2>4. PICK x1, x2, x3, y : /\ x1 = clusters[n1].x /\ x2 = clusters[n2].x
                             /\ x3 = clusters[n3].x /\ y = clusters[n1].y
    OBVIOUS
  <2>5. /\ x1 \in Nat /\ x2 \in Nat /\ x3 \in Nat /\ y \in Nat /\ y > 0
        /\ clusters[n2].y = y /\ clusters[n3].y = y
    BY <2>1, <2>2, <2>4, ListsTyped
  <2>6. /\ x2 > x1 + MinStripe /\ x2 <= x1 + MaxStripe
        /\ x3 > x2 + MinStripe /\ x3 <= x2 + MaxStripe
    <3>1. /\ x2 - x1 \in MinStripe + 1 .. MaxStripe
          /\ x3 - x2 \in MinStripe + 1 .. MaxStripe
      BY <2>1, <2>4
    <3>2. QED
      BY <2>3, <2>5, <3>1
  <2>7. ASSUME NEW b \in {n1, n2}, NEW d \in DOMAIN clusters, InBox(b, d)
        PROVE  d \in {n1, n2, n3}
    <3>1. PICK yd : yd = clusters[d].y
      OBVIOUS
    <3>2. clusters[b].y = y /\ yd \in Nat
      BY <2>2, <2>4, <2>5, <2>7, <3>1, ListsTyped
    <3>3. yd > y - DeltaY /\ yd < y + DeltaY
      BY <2>1, <2>2, <2>7, <3>1, <3>2, BoxBounds
    <3>4. yd - y \in 1 - DeltaY .. DeltaY - 1
      BY <2>3, <2>5, <3>2, <3>3
    <3>5. QED
      BY <2>1, <2>4, <3>1, <3>4
  <2>8. Neighbour(n1) = n2
    <3>1. InBox(n1, n2)
      <4>1. /\ n2 # n1 /\ x2 <= x1 + MinStripe + MaxStripe
            /\ y > y - DeltaY /\ y < y + DeltaY
        BY <2>3, <2>4, <2>5, <2>6
      <4>2. QED
        BY <2>2, <2>4, <2>5, <2>6, <4>1, BoxBounds
    <3>2. ASSUME NEW d \in DOMAIN clusters, InBox(n1, d)
          PROVE  d = n2 \/ clusters[n2].x < clusters[d].x
      <4>1. d \in {n1, n2, n3} /\ d # n1
        BY <2>7, <3>2 DEF InBox
      <4>2. x2 < x3
        BY <2>3, <2>5, <2>6
      <4>3. QED
        BY <2>4, <4>1, <4>2
    <3>3. QED
      BY <2>2, <3>1, <3>2, NeighbourIs
  <2>9. Neighbour(n2) = n3
    <3>1. InBox(n2, n3)
      <4>1. /\ n3 # n2 /\ x3 <= x2 + MinStripe + MaxStripe
            /\ y > y - DeltaY /\ y < y + DeltaY
        BY <2>3, <2>4, <2>5, <2>6
      <4>2. QED
        BY <2>2, <2>4, <2>5, <2>6, <4>1, BoxBounds
    <3>2. ASSUME NEW d \in DOMAIN clusters, InBox(n2, d)
          PROVE  d = n3 \/ clusters[n3].x < clusters[d].x
      <4>1. d \in {n1, n2, n3} /\ d # n2
        BY <2>7, <3>2 DEF InBox
      <4>2. d # n1
        <5>1. clusters[d].x > x2 + MinStripe
          BY <2>2, <2>4, <3>2, BoxBounds
        <5>2. ~(x1 > x2 + MinStripe)
          BY <2>3, <2>5, <2>6
        <5>3. QED
          BY <2>4, <5>1, <5>2
      <4>3. QED
        BY <4>1, <4>2
    <3>3. QED
      BY <2>2, <3>1, <3>2, NeighbourIs
  <2>10. FoundAt(n1)
    <3>1. Stripe(x2 - x1) /\ Stripe(x3 - x2)
      BY <2>3, <2>5, <2>6 DEF Stripe
    <3>2. QED
      BY <2>1, <2>4, <2>8, <2>9, <3>1 DEF FoundAt
  <2>11. n1 \in Searched
    BY <2>1 DEF Searched
  <2>12. PICK n \in DOMAIN features : features[n] = FeatureAt(n1)
    BY <2>1, <2>10, <2>11 DEF StripeInv, FeatureInv
  <2>13. features[n] = Feature(clusters[n1], clusters[n2], clusters[n3])
    BY <2>8, <2>9, <2>12 DEF FeatureAt
  <2>14. QED
    BY <2>13 DEF Feature
<1>2. QED
  BY StripeInvHolds, <1>1, PTL
==============================================================================
