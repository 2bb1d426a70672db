---------------------------- MODULE StripeFilter ----------------------------
(***************************************************************************)
(* stripe_filter.c, as compress_yuyv_to_jpeg drives it over one image: the *)
(* strong gradients of every line, their clusters, the features (two       *)
(* adjoining stripes whose widths are in the golden ratio), the debug      *)
(* image they are painted into, and the text that goes into the JPEG's     *)
(* comment.                                                                *)
(*                                                                         *)
(* A line is any of Lines.  Lengths, list limits and percentages are       *)
(* parameters; the float arithmetic of the code is written with integers,  *)
(* which agrees with it for every pixel, every coordinate below 10000 and  *)
(* every pair of stripe widths up to 100.  Lists are 1-based here: entry n *)
(* is the code's element n - 1, coordinates are the code's own.            *)
(***************************************************************************)
EXTENDS Integers, Sequences, FiniteSets, FiniteSetsExt

CONSTANTS
  Width, Height,            \* the size of the image
  Lines,                    \* the gray lines an image may have
  MaxGradients,             \* SF_MAX_GRADIENTS
  MaxClusters,              \* SF_MAX_GRADIENT_CLUSTERS
  MaxFeatures,              \* SF_MAX_FEATURES
  GradThreshold,            \* SF_FILTER_GRAD_THRESHOLD, in percent
  PercentX, PercentY,       \* SF_CLUSTER_PERCENT_X and _Y, in percent
  MinCount,                 \* SF_CLUSTER_MIN_GRADIENT_COUNT
  MinStripe, MaxStripe,     \* SF_MIN_STRIPE_WIDTH, SF_MAX_STRIPE_WIDTH
  DeltaY,                   \* SF_NEAREST_NEIGHBOR_DELTA_Y
  TextSize                  \* FEATURE_LIST_STRING_MAX_LENGTH

FilterElems == 2            \* SF_FILTER_NUM_ELEM
Types == {"positive", "negative"}
Columns == 0 .. Width - 1
Rows == 0 .. Height - 1

ASSUME SizeAssumption == Width \in 1 .. 9999 /\ Height \in 1 .. 9999
ASSUME LinesAssumption ==
  Lines # {} /\ Lines \subseteq [Columns -> 0 .. 255]
ASSUME LimitsAssumption ==
  /\ {MaxGradients, MaxClusters, MaxFeatures} \subseteq Nat \ {0}
  /\ {GradThreshold, PercentX, PercentY} \subseteq 0 .. 100
  /\ MinCount \in Nat /\ DeltaY \in Nat \ {0}
  /\ MinStripe \in 1 .. MaxStripe /\ MaxStripe \in 1 .. 100
  /\ TextSize \in Nat /\ TextSize >= 11    \* room for any %d and its NUL

VARIABLES
  pc,         \* the call compress_yuyv_to_jpeg is in
  line,       \* the next line of the image
  grads,      \* grad_list
  clusters,   \* cluster_list
  features,   \* feature_list
  k,          \* the loop variable of the call
  painted,    \* the offsets of the gray image written by sf_write_image
  text        \* feature_list_string: its length, its complete records, and the
              \* offset its terminator was written at (the code's own, from 0)

vars == <<pc, line, grads, clusters, features, k, painted, text>>

NoText == [length |-> 0, records |-> 0, terminator |-> 0]

Init ==
  /\ pc = "scan" /\ line = 0
  /\ grads = <<>> /\ clusters = <<>> /\ features = <<>>
  /\ k = 1 /\ painted = {} /\ text = NoText

-----------------------------------------------------------------------------
(* sf_find_gradients: a pixel is compared with the mean of the two before  *)
(* it; only a change of the threshold state is a gradient.                 *)
Mean(p, x) == (p[x - 2] + p[x - 1]) \div FilterElems
Level(p, x) == (GradThreshold * Mean(p, x)) \div 100
Rises(p, x) == p[x] > Mean(p, x) + Level(p, x)
Falls(p, x) == p[x] < Mean(p, x) - Level(p, x)

(* The columns at which the threshold state is high: since the last rise   *)
(* nothing fell.                                                           *)
Above(p) ==
  {x \in Columns : \E y \in FilterElems .. x :
     Rises(p, y) /\ \A z \in y + 1 .. x : ~Falls(p, z)}

Changes(p) ==
  {x \in FilterElems .. Width - 1 : (x \in Above(p)) # (x - 1 \in Above(p))}

(* The elements of a finite set of numbers from the least to the greatest. *)
InOrder(S) ==
  [n \in 1 .. Cardinality(S) |->
     CHOOSE x \in S : Cardinality({z \in S : z < x}) = n - 1]

(* Mutant: every strong pixel is a gradient, whatever the threshold state. *)
GradientsEveryPixel(p, y) ==
  LET xs == InOrder({x \in FilterElems .. Width - 1 :
                       Rises(p, x) \/ Falls(p, x)})
  IN  [n \in DOMAIN xs |->
         [type |-> IF Rises(p, xs[n]) THEN "positive" ELSE "negative",
          x |-> xs[n], y |-> y]]

Gradients(p, y) ==
  LET xs == InOrder(Changes(p))
  IN  [n \in DOMAIN xs |->
         [type |-> IF xs[n] \in Above(p) THEN "positive" ELSE "negative",
          x |-> xs[n], y |-> y]]

(* Mutant: the limit tested is the size of the list.                       *)
AtMostAll(list, max) == SubSeq(list, 1, Min({Len(list), max}))

(* sf_add_gradient, sf_create_cluster_from_grad and sf_add_feature leave   *)
(* the last element of their list unused.                                  *)
AtMost(list, max) == SubSeq(list, 1, Min({Len(list), max - 1}))

ScanLine ==
  /\ pc = "scan" /\ line < Height
  /\ \E p \in Lines :
       grads' = AtMost(grads \o Gradients(p, line), MaxGradients)
  /\ line' = line + 1
  /\ UNCHANGED <<pc, clusters, features, k, painted, text>>

ImageScanned ==
  /\ pc = "scan" /\ line = Height
  /\ pc' = "cluster" /\ k' = 1
  /\ UNCHANGED <<line, grads, clusters, features, painted, text>>

-----------------------------------------------------------------------------
(* sf_cluster_gradients: the first cluster of the gradient's type that it  *)
(* is near takes it; one that is near none starts a cluster, unless the    *)
(* list is full.                                                           *)
InRange(base, percent, value) ==
  LET delta == (base * percent) \div 100
  IN  value \in base - delta .. base + delta

(* Mutant: a rise may join a cluster of falls.                             *)
NearOfAnyType(g) ==
  {c \in DOMAIN clusters : /\ InRange(clusters[c].x, PercentX, g.x)
                           /\ InRange(clusters[c].y, PercentY, g.y)}

Near(g) ==
  {c \in DOMAIN clusters :
     /\ InRange(clusters[c].x, PercentX, g.x)
     /\ InRange(clusters[c].y, PercentY, g.y)
     /\ clusters[c].type = g.type}

(* Mutant: the sums are divided by the count before it is incremented.     *)
GrownOldCount(c, g) ==
  [type |-> c.type, count |-> c.count + 1,
   x_sum |-> c.x_sum + g.x, y_sum |-> c.y_sum + g.y,
   x |-> (c.x_sum + g.x) \div c.count, y |-> (c.y_sum + g.y) \div c.count]

Grown(c, g) ==
  LET xs == c.x_sum + g.x
      ys == c.y_sum + g.y
      n == c.count + 1
  IN  [type |-> c.type, count |-> n, x_sum |-> xs, y_sum |-> ys,
       x |-> xs \div n, y |-> ys \div n]

Alone(g) ==
  [type |-> g.type, count |-> 1, x_sum |-> g.x, y_sum |-> g.y,
   x |-> g.x, y |-> g.y]

ClusterGradient ==
  /\ pc = "cluster" /\ k <= Len(grads)
  /\ LET g == grads[k]
     IN  \/ /\ Near(g) # {}
            /\ clusters' = [clusters EXCEPT ![Min(Near(g))] = Grown(@, g)]
         \/ /\ Near(g) = {}
            /\ clusters' = AtMost(Append(clusters, Alone(g)), MaxClusters)
  /\ k' = k + 1
  /\ UNCHANGED <<pc, line, grads, features, painted, text>>

Clustered ==
  /\ pc = "cluster" /\ k > Len(grads)
  /\ pc' = "features" /\ k' = 1
  /\ UNCHANGED <<line, grads, clusters, features, painted, text>>

-----------------------------------------------------------------------------
(* sf_find_nearest_neighbor_in_box: the leftmost cluster in the box to the *)
(* right of cluster base.  Index 0 of the code (1 here) also stands for    *)
(* "none", so the first cluster is never anybody's neighbour.              *)
First == 1

InBox(base, c) ==
  LET b == clusters[base]
  IN  /\ c # base
      /\ clusters[c].x > b.x + MinStripe
      /\ clusters[c].x <= b.x + MinStripe + MaxStripe
      /\ clusters[c].y > Max({0, b.y - DeltaY})
      /\ clusters[c].y < b.y + DeltaY

(* Mutant: the comparison with min_x turned round.                         *)
NeighbourFarthest(base) ==
  LET box == {c \in DOMAIN clusters : InBox(base, c)}
  IN  IF box = {} THEN First
      ELSE Min({c \in box : \A d \in box : clusters[c].x >= clusters[d].x})

Neighbour(base) ==
  LET box == {c \in DOMAIN clusters : InBox(base, c)}
  IN  IF box = {} THEN First
      ELSE Min({c \in box : \A d \in box : clusters[c].x <= clusters[d].x})

(* Mutant: only a / b is tested, and without fabs.                         *)
GoldenUnsigned(w1, w2) ==
  1000 * Max({w1, w2}) - 1618 * Min({w1, w2}) < 100 * Min({w1, w2})

(* sf_find_features: 1.618 within 0.10, both ways of the golden ratio.     *)
Golden(w1, w2) ==
  LET a == Max({w1, w2})
      b == Min({w1, w2})
      Off(num, den) == 1000 * num - 1618 * den
  IN  /\ Off(a, b) \in 1 - 100 * b .. 100 * b - 1
      /\ Off(a + b, a) \in 1 - 100 * a .. 100 * a - 1

Stripe(w) == w \in MinStripe .. MaxStripe

Feature(c1, c2, c3) ==
  LET width == c3.x - c1.x
  IN  [x_min |-> c1.x, x_max |-> c3.x, x_width |-> width,
       x_center |-> c1.x + width \div 2, y_center |-> c2.y]

FindFeature ==
  /\ pc = "features" /\ k <= Len(clusters)
  /\ LET second == Neighbour(k)
         third == Neighbour(second)
         c1 == clusters[k]
         c2 == clusters[second]
         c3 == clusters[third]
         found == /\ second # First /\ third # First
                  /\ \A c \in {c1, c2, c3} : c.count >= MinCount
                  /\ Stripe(c2.x - c1.x) /\ Stripe(c3.x - c2.x)
                  /\ Golden(c2.x - c1.x, c3.x - c2.x)
     IN  features' = IF found
                     THEN AtMost(Append(features, Feature(c1, c2, c3)),
                                 MaxFeatures)
                     ELSE features
  /\ k' = k + 1
  /\ UNCHANGED <<pc, line, grads, clusters, painted, text>>

FeaturesFound ==
  /\ pc = "features" /\ k > Len(clusters)
  /\ pc' = "paint" /\ k' = 1
  /\ UNCHANGED <<line, grads, clusters, features, painted, text>>

-----------------------------------------------------------------------------
(* sf_write_image, when the detect image is asked for: a gradient is three *)
(* pixels high, a cluster a dot, a feature a line as long as it is wide.   *)
Offset(x, y) == y * Width + x

(* Mutant: the last row is not treated apart.                              *)
GradientDotsBelow(g) ==
  {Offset(g.x, y) : y \in {g.y, g.y + 1} \cup (IF g.y > 0 THEN {g.y - 1} ELSE {})}

GradientDots(g) ==
  {Offset(g.x, y) : y \in {g.y} \cup (IF g.y > 0 THEN {g.y - 1} ELSE {})
                     \cup (IF g.y < Height - 1 THEN {g.y + 1} ELSE {})}

FeatureLine(f) ==
  LET start == Offset(f.x_min, f.y_center)
  IN  (start .. start + f.x_width - 1) \cup {start + f.x_width \div 2}

Paint ==
  /\ pc = "paint"
  /\ painted' =
       (UNION {GradientDots(grads[n]) : n \in DOMAIN grads})
         \cup {Offset(clusters[n].x, clusters[n].y) : n \in DOMAIN clusters}
         \cup (UNION {FeatureLine(features[n]) : n \in DOMAIN features})
  /\ pc' = "text"
  /\ UNCHANGED <<line, grads, clusters, features, k, text>>

NoDetectImage ==
  /\ pc = "paint" /\ pc' = "text"
  /\ UNCHANGED <<line, grads, clusters, features, k, painted, text>>

-----------------------------------------------------------------------------
(* sf_get_feature_list_data_string: the number of features, then a record  *)
(* of seven fields for each while it fits, then a line feed if one fits.   *)
(* The room is counted in characters: snprintf and strcat write a NUL more.*)
PowersOfTen == {10, 100, 1000, 10000, 100000, 1000000, 10000000, 100000000,
                1000000000}

Digits(n) == 1 + Cardinality({p \in PowersOfTen : p <= n})

RecordLength(n) ==
  LET f == features[n]
  IN  7 + Digits(n - 1) + Digits(f.x_min) + Digits(f.x_max)
        + 2 * Digits(f.y_center) + Digits(1) + Digits(f.x_width)

(* Mutant: the room is that of the empty array.                            *)
FitsEmpty(n) == RecordLength(n) <= TextSize

Fits(n) == RecordLength(n) <= TextSize - text.length

(* The text after snprintf or strcat: n characters and the NUL after them. *)
Text(n, records) == [length |-> n, records |-> records, terminator |-> n]

NoFeatures ==
  /\ pc = "text" /\ features = <<>>
  /\ pc' = "done"
  /\ UNCHANGED <<line, grads, clusters, features, k, painted, text>>

WriteCount ==
  /\ pc = "text" /\ features # <<>>
  /\ text' = Text(Digits(Len(features)), 0)
  /\ pc' = "records"
  /\ UNCHANGED <<line, grads, clusters, features, k, painted>>

WriteRecord ==
  /\ pc = "records" /\ k <= Len(features) /\ Fits(k)
  /\ text' = Text(text.length + RecordLength(k), text.records + 1)
  /\ k' = k + 1
  /\ UNCHANGED <<pc, line, grads, clusters, features, painted>>

EndText ==
  /\ pc = "records"
  /\ k <= Len(features) => ~Fits(k)
  /\ text' = IF text.length < TextSize
             THEN Text(text.length + 1, text.records) ELSE text
  /\ pc' = "done"
  /\ UNCHANGED <<line, grads, clusters, features, k, painted>>

(* The lists are locals of compress_yuyv_to_jpeg, empty for each image.    *)
NextImage ==
  /\ pc = "done"
  /\ pc' = "scan" /\ line' = 0
  /\ grads' = <<>> /\ clusters' = <<>> /\ features' = <<>>
  /\ k' = 1 /\ painted' = {} /\ text' = NoText

Next ==
  \/ ScanLine \/ ImageScanned
  \/ ClusterGradient \/ Clustered
  \/ FindFeature \/ FeaturesFound
  \/ Paint \/ NoDetectImage
  \/ NoFeatures \/ WriteCount \/ WriteRecord \/ EndText
  \/ NextImage

Spec == Init /\ [][Next]_vars

-----------------------------------------------------------------------------
TypeOK ==
  /\ pc \in {"scan", "cluster", "features", "paint", "text", "records", "done"}
  /\ line \in 0 .. Height
  /\ grads \in Seq([type : Types, x : Columns, y : Rows])
  /\ clusters \in Seq([type : Types, count : Nat \ {0}, x : Columns, y : Rows,
                       x_sum : Nat, y_sum : Nat])
  /\ features \in Seq([x_min : Columns, x_max : Columns, x_width : Nat,
                       x_center : Columns, y_center : Rows])
  /\ Len(grads) < MaxGradients
  /\ Len(clusters) < MaxClusters
  /\ Len(features) < MaxFeatures
  /\ k \in Nat \ {0}
  /\ painted \subseteq Int
  /\ text \in [length : Nat, records : Nat, terminator : Nat]

(* The list holds the gradients in reading order, and within a line they   *)
(* alternate, a rise first (the threshold state of sf_find_gradients), so  *)
(* that every stripe edge has its opposite; a full list cuts off the end.  *)
GradientsAlternate ==
  \A n \in DOMAIN grads :
    LET Starts == n = 1 \/ grads[n - 1].y < grads[n].y
    IN  IF Starts THEN grads[n].type = "positive"
        ELSE /\ grads[n - 1].y = grads[n].y
             /\ grads[n - 1].x < grads[n].x
             /\ grads[n - 1].type # grads[n].type

(* sf_cluster_gradients puts every gradient into exactly one cluster, of   *)
(* its own type: until the list is full, the counts and coordinate sums of *)
(* the clusters of a type are those of its gradients so far.               *)
NothingLost ==
  pc = "cluster" /\ Len(clusters) < MaxClusters - 1 =>
    \A t \in Types :
      LET cs == {c \in DOMAIN clusters : clusters[c].type = t}
          gs == {n \in 1 .. k - 1 : grads[n].type = t}
      IN  /\ SumFunction([c \in cs |-> clusters[c].count]) = Cardinality(gs)
          /\ SumFunction([c \in cs |-> clusters[c].x_sum])
               = SumFunction([n \in gs |-> grads[n].x])
          /\ SumFunction([c \in cs |-> clusters[c].y_sum])
               = SumFunction([n \in gs |-> grads[n].y])

(* However a centre drifts as its cluster grows, it stays between the      *)
(* outermost gradients of its type.                                        *)
CentresAmongGradients ==
  \A c \in DOMAIN clusters :
    LET gs == {n \in DOMAIN grads : grads[n].type = clusters[c].type}
        xs == {grads[n].x : n \in gs}
        ys == {grads[n].y : n \in gs}
    IN  /\ gs # {}
        /\ clusters[c].x \in Min(xs) .. Max(xs)
        /\ clusters[c].y \in Min(ys) .. Max(ys)

(* Two adjoining stripes between three clusters large enough, from left to *)
(* right and at about one height, the wide one 1.5 to 1.75 times the       *)
(* narrow one; the centre is in the wide one.                              *)
IsGolden(f) ==
  \E c1, c2, c3 \in DOMAIN clusters :
    LET left == clusters[c2].x - f.x_min
        right == f.x_max - clusters[c2].x
        wide == Max({left, right})
        narrow == Min({left, right})
    IN  /\ f.x_min = clusters[c1].x /\ f.x_max = clusters[c3].x
        /\ \A c \in {c1, c2, c3} :
             /\ clusters[c].count >= MinCount
             /\ clusters[c].y - f.y_center \in 1 - DeltaY .. DeltaY - 1
        /\ narrow > MinStripe /\ wide <= MaxStripe
        /\ 2 * wide > 3 * narrow /\ 4 * wide < 7 * narrow
        /\ left > right => f.x_center < clusters[c2].x
        /\ left < right => f.x_center >= clusters[c2].x

(* Every feature of sf_find_features is a pair of golden stripes.          *)
FeaturesAreGolden == \A n \in DOMAIN features : IsGolden(features[n])

(* And none is missed: three large clusters in a row, with golden widths   *)
(* and no other cluster near their height, are a feature, unless the list  *)
(* is full, or they are in the image's top row, which is outside every     *)
(* box, or one of the last two is the list's first, whose index the search *)
(* returns for "none".                                                     *)
GoldenStripesFound ==
  pc \in {"paint", "text", "records", "done"}
      /\ Len(features) < MaxFeatures - 1 =>
    \A c1, c2, c3 \in DOMAIN clusters :
      LET c(n) == clusters[n]
          row == {c1, c2, c3}
          left == c(c2).x - c(c1).x
          right == c(c3).x - c(c2).x
      IN  /\ First \notin {c2, c3}
          /\ \A n \in row : c(n).y = c(c1).y /\ c(n).y > 0
          /\ \A n \in row : c(n).count >= MinCount
          /\ \A n \in DOMAIN clusters \ row :
               c(n).y - c(c1).y \notin 1 - DeltaY .. DeltaY - 1
          /\ {left, right} \subseteq MinStripe + 1 .. MaxStripe
          /\ Golden(left, right)
          => \E n \in DOMAIN features :
               /\ features[n].x_min = c(c1).x
               /\ features[n].x_max = c(c3).x
               /\ features[n].y_center = c(c2).y

(* sf_write_image checks no offset against image_data_len: what the scan,  *)
(* the clusters and the features hold keeps it inside the image.           *)
PaintsInsideImage == painted \subseteq 0 .. Width * Height - 1

(* The characters of the count and of the first n records.                *)
Taken(n) ==
  Digits(Len(features)) + SumFunction([m \in 1 .. n |-> RecordLength(m)])

(* The text that sf_get_feature_list_data_string returns holds the longest *)
(* run of records, from the first on, that leaves its characters within    *)
(* the array, and a line feed where one more character does.               *)
TextHoldsFeatures ==
  pc = "done" /\ features # <<>> =>
    LET n == text.records
    IN  /\ n <= Len(features) /\ Taken(n) <= TextSize
        /\ n < Len(features) => Taken(n + 1) > TextSize
        /\ text.length = Min({Taken(n) + 1, TextSize})

(* "ensure room to append in p_line_buf" (stripe_filter.c:555): all that   *)
(* snprintf and strcat write is inside feature_list_string, the terminator *)
(* too.  It is not: the test is remaining < feat_string_len (556), and the *)
(* line feed's is remaining > 0 (566), which leave no room for the NUL.    *)
TextFitsArray == text.terminator < TextSize
=============================================================================
