-------------------------- MODULE BlobDetect_proofs --------------------------
(***************************************************************************)
(* Proofs about BlobDetect, for every size of the image, any rows, detect  *)
(* colours and limits, and any number of slots.                            *)
(*                                                                         *)
(* That the pixels of a blob fit its box cannot be seen from the boxes:    *)
(* two boxes that are combined may overlap, and the sum of their areas may *)
(* exceed the area of the box around both.  So the invariant says that     *)
(* there are sets of cells, one for each slot and disjoint, that the       *)
(* pixels were counted from; every step that moves pixels from one slot to *)
(* another moves their cells.                                              *)
(***************************************************************************)
EXTENDS BlobDetect, DetectorLemmas, FiniteSetTheorems, TLAPS

Run == [min : Columns, max : Columns, color : Colors]

Blob == [valid : BOOLEAN, complete : BOOLEAN,
         color : Colors \cup {Free.color}, pixels : Nat,
         x_min : Columns, x_max : Columns, y_min : Rows, y_max : Rows]

ConstantsTyped ==
  /\ Width \in Nat \ {0} /\ Height \in Nat \ {0}
  /\ PixelRows \subseteq [Columns -> Channels]
  /\ Colors = 1 .. Len(DetectColors) /\ Len(DetectColors) \in Nat
  /\ NumBlobsMax \in Nat \ {0} /\ MinLine \in Nat \ {0}
  /\ MinPixels \in Nat /\ MinArea \in Nat
  /\ RowMiss \in Nat /\ ColumnMiss \in Nat

(* The assumptions of the model, a fact for each constant.                 *)
LEMMA ConstantsAssumed == ConstantsTyped
  BY SizeAssumption, InputAssumption, LimitsAssumption
  DEF ConstantsTyped, Colors

------------------------------------------------------------------------------
(* The colour of a pixel. *)
LEMMA ColorFound ==
  ASSUME NEW p
  PROVE  DetectColor(p) \in Colors \cup {None}
<1> DEFINE cs == {c \in Colors : Match(DetectColors[c], p)}
<1>1. cs \subseteq Nat
  BY ConstantsAssumed DEF ConstantsTyped
<1>2. CASE cs = {}
  BY <1>2 DEF DetectColor
<1>3. CASE cs # {}
  <2>1. Min(cs) \in cs
    BY <1>1, <1>3, NatMin
  <2>2. QED
    BY <1>3, <2>1 DEF DetectColor
<1>4. QED
  BY <1>2, <1>3

(* The parts Runs is built from: the colour at a column, the last columns  *)
(* of runs, the first column of the run that ends at e, and that run.      *)
ColorAt(row, x) == IF x \in Columns THEN DetectColor(row[x]) ELSE None

RunEnds(row) ==
  {x \in Columns : /\ ColorAt(row, x) # None
                   /\ ColorAt(row, x) # ColorAt(row, x + 1)}

SameTo(row, e) ==
  {x \in 0 .. e : \A y \in x .. e : ColorAt(row, y) = ColorAt(row, e)}

RunTo(row, e) ==
  [min |-> Min(SameTo(row, e)), max |-> e, color |-> ColorAt(row, e)]

(* The colour at a column, and what is a column. *)
LEMMA ColumnFacts ==
  /\ \A row, x : ColorAt(row, x) \in Colors \cup {None}
  /\ \A x \in Columns : x \in Nat /\ x < Width
  /\ \A x \in Columns : \A y \in 0 .. x : y \in Columns
<1>1. \A row, x : ColorAt(row, x) \in Colors \cup {None}
  BY ColorFound DEF ColorAt
<1>2. /\ \A x \in Columns : x \in Nat /\ x < Width
      /\ \A x \in Columns : \A y \in 0 .. x : y \in Columns
  BY ConstantsAssumed DEF Columns, ConstantsTyped
<1>3. QED
  BY <1>1, <1>2

(* A run begins no later than it ends, and has one colour. *)
LEMMA RunBegins ==
  ASSUME NEW row, NEW e \in RunEnds(row)
  PROVE  /\ e \in Nat /\ Min(SameTo(row, e)) \in 0 .. e
         /\ \A y \in Min(SameTo(row, e)) .. e :
              ColorAt(row, y) = ColorAt(row, e)
<1>1. e \in Nat
  BY ColumnFacts DEF RunEnds
<1>2. e \in SameTo(row, e) /\ SameTo(row, e) \subseteq Nat
  BY <1>1 DEF SameTo
<1>3. Min(SameTo(row, e)) \in SameTo(row, e)
  BY <1>2, NatMin
<1>4. QED
  BY <1>1, <1>3 DEF SameTo

(* A run ends before a run further right begins. *)
LEMMA RunsInOrder ==
  ASSUME NEW row, NEW e \in RunEnds(row), NEW f \in RunEnds(row), e < f
  PROVE  e < Min(SameTo(row, f))
<1>1. PICK a : a = Min(SameTo(row, f))
  OBVIOUS
<1>2. /\ e \in Nat /\ f \in Nat /\ a \in 0 .. f
      /\ \A y \in a .. f : ColorAt(row, y) = ColorAt(row, f)
  BY <1>1, RunBegins
<1>3. SUFFICES ASSUME a <= e PROVE FALSE
  BY <1>1, <1>2
<1>4. e \in a .. f /\ e + 1 \in a .. f
  BY <1>2, <1>3
<1>5. ColorAt(row, e) = ColorAt(row, e + 1)
  BY <1>2, <1>4
<1>6. QED
  BY <1>5 DEF RunEnds

(* A run is one of Run, and not empty. *)
LEMMA RunToIsRun ==
  ASSUME NEW row, NEW e \in RunEnds(row)
  PROVE  RunTo(row, e) \in Run /\ RunTo(row, e).min <= RunTo(row, e).max
<1>1. PICK a : a = Min(SameTo(row, e))
  OBVIOUS
<1>2. e \in Nat /\ a \in 0 .. e /\ e \in Columns
  BY <1>1, RunBegins DEF RunEnds
<1>3. a \in Columns /\ ColorAt(row, e) \in Colors
  BY <1>2, ColumnFacts DEF RunEnds
<1>4. RunTo(row, e) = [min |-> a, max |-> e, color |-> ColorAt(row, e)]
  BY <1>1 DEF RunTo
<1>5. QED
  BY <1>2, <1>3, <1>4 DEF Run

(* The runs of a row do not touch each other. *)
Apart(rs) == \A q, r \in rs : q # r => q.max < r.min \/ r.max < q.min

(* The runs of a row are runs, and no two share a column.                  *)
LEMMA RunsOfRow ==
  ASSUME NEW row
  PROVE  /\ Runs(row) \subseteq Run
         /\ \A r \in Runs(row) : r.min <= r.max
         /\ Apart(Runs(row))
<1>1. Runs(row) = {RunTo(row, e) : e \in RunEnds(row)}
  BY DEF Runs, RunTo, RunEnds, SameTo, ColorAt
<1>2. ASSUME NEW e \in RunEnds(row), NEW f \in RunEnds(row),
             RunTo(row, e) # RunTo(row, f)
      PROVE  RunTo(row, e).max < RunTo(row, f).min
             \/ RunTo(row, f).max < RunTo(row, e).min
  <2>1. e # f
    BY <1>2
  <2>2. e < f \/ f < e
    BY <2>1, RunBegins
  <2>3. e < Min(SameTo(row, f)) \/ f < Min(SameTo(row, e))
    BY <2>2, RunsInOrder
  <2>4. QED
    BY <2>3 DEF RunTo
<1>3. Apart(Runs(row))
  BY <1>1, <1>2 DEF Apart
<1>4. QED
  BY <1>1, <1>3, RunToIsRun

------------------------------------------------------------------------------
(* The inductive invariant, a part for each group of variables. *)
WellFormed(b) ==
  b.x_min < b.x_max /\ b.y_min <= b.y_max /\ b.pixels >= MinLine

ScanInv ==
  /\ pc \in {"row", "runs", "largest", "combine", "report", "done"}
  /\ h \in 0 .. Height
  /\ pc = "runs" => h < Height
  /\ runs \subseteq Run
  /\ \A r \in runs : r.min <= r.max
  /\ Apart(runs)

SlotInv ==
  /\ blobs \in [Slots -> Blob]
  /\ \A s \in Slots : blobs[s].valid => WellFormed(blobs[s])
  /\ \A s \in Slots : ~blobs[s].valid => blobs[s] = Free
  /\ pc = "row" => \A s \in Valid : blobs[s].y_max < h
  /\ pc = "runs" => \A s \in Valid : blobs[s].y_max <= h

CountInv == num_blobs \in 0 .. NumBlobsMax /\ BlobsCounted

CombineInv ==
  /\ color \in 1 .. Len(DetectColors) + 1
  /\ largest \in Slots \cup {None}
  /\ i \in 1 .. NumBlobsMax + 1
  /\ pc = "combine" =>
       color \in Colors /\ largest \in Slots /\ Reported(largest)

OutputInv == PaintsInsideImage /\ Len(report) <= 1

(* The cells of a box and of a run of the row h. *)
BoxCells(b) == (b.x_min .. b.x_max - 1) \X (b.y_min .. b.y_max)
RunCells(r) == (r.min .. r.max - 1) \X {h}

(* c gives every slot the cells its pixels were counted from. *)
CountedFrom(c) ==
  /\ DOMAIN c = Slots
  /\ \A s \in Slots : blobs[s].valid => c[s] \subseteq BoxCells(blobs[s])
  /\ \A s \in Slots : ~blobs[s].valid => c[s] = {}
  /\ \A s \in Slots : IsFiniteSet(c[s])
                      /\ Cardinality(c[s]) = blobs[s].pixels
  /\ \A s, t \in Slots : s # t => c[s] \cap c[t] = {}
  /\ pc = "runs" =>
       \A r \in runs : \A s \in Slots : RunCells(r) \cap c[s] = {}

CellsInv == \E c : CountedFrom(c)

BlobInv ==
  /\ ScanInv /\ SlotInv /\ CountInv /\ CombineInv /\ OutputInv
  /\ CellsInv

(* Where a blob and a run are. *)
LEMMA BlobTyped ==
  /\ \A b \in Blob : /\ b.x_min \in Nat /\ b.x_max \in Nat
                     /\ b.x_min < Width /\ b.x_max < Width
                     /\ b.y_min \in Nat /\ b.y_max \in Nat
                     /\ b.y_min < Height /\ b.y_max < Height
                     /\ b.pixels \in Nat
                     /\ b.valid \in BOOLEAN /\ b.complete \in BOOLEAN
                     /\ b.color \in Colors \cup {Free.color}
  /\ \A r \in Run : /\ r.min \in Nat /\ r.max \in Nat
                    /\ r.min < Width /\ r.max < Width /\ r.color \in Colors
  /\ Free \in Blob /\ ~Free.valid /\ Free.pixels = 0
<1>1. 0 \in Columns /\ 0 \in Rows
  BY ConstantsAssumed DEF ConstantsTyped, Columns, Rows
<1>2. Free \in Blob /\ ~Free.valid /\ Free.pixels = 0
  BY <1>1 DEF Free, Blob
<1>3. \A x \in Columns : x \in Nat /\ x < Width
  BY ConstantsAssumed DEF ConstantsTyped, Columns
<1>4. \A y \in Rows : y \in Nat /\ y < Height
  BY ConstantsAssumed DEF ConstantsTyped, Rows
<1>5. QED
  BY <1>2, <1>3, <1>4 DEF Blob, Run

(* append_blob keeps a blob well formed, and its box grows. *)
LEMMA AppendedBlob ==
  ASSUME NEW b \in Blob, NEW r \in Run, Long(r), b.valid, WellFormed(b),
         h \in Rows, b.y_max <= h
  PROVE  LET a == Appended(b, r)
         IN  /\ a \in Blob /\ WellFormed(a) /\ a.valid
             /\ a.y_max = h /\ a.y_min = b.y_min
             /\ a.x_min <= b.x_min /\ a.x_min <= r.min
             /\ a.x_max >= b.x_max /\ a.x_max >= r.max
             /\ a.pixels = b.pixels + (r.max - r.min)
<1>1. PICK l, g : /\ l = Min({b.x_min, r.min}) /\ g = Max({b.x_max, r.max})
  OBVIOUS
<1>2. /\ l = (IF b.x_min <= r.min THEN b.x_min ELSE r.min)
      /\ g = (IF b.x_max >= r.max THEN b.x_max ELSE r.max)
  BY <1>1, MinOfTwo, MaxOfTwo, BlobTyped
<1>3. Appended(b, r) = [b EXCEPT !.y_max = h, !.x_min = l, !.x_max = g,
                                 !.pixels = @ + r.max - r.min,
                                 !.complete = TRUE]
  BY <1>1 DEF Appended
<1>4. l \in Columns /\ g \in Columns
  BY <1>2 DEF Blob, Run
<1>5. /\ r.min \in Nat /\ r.max \in Nat /\ r.max - r.min >= MinLine
      /\ MinLine \in Nat /\ b.pixels \in Nat /\ b.pixels >= MinLine
      /\ b.x_min \in Nat /\ b.x_max \in Nat /\ b.x_min < b.x_max
      /\ b.y_min \in Nat /\ b.y_max \in Nat /\ b.y_min <= b.y_max
      /\ h \in Nat
  BY ConstantsAssumed, BlobTyped DEF ConstantsTyped, Long, WellFormed, Rows
<1>6. /\ l <= b.x_min /\ l <= r.min /\ g >= b.x_max /\ g >= r.max /\ l < g
      /\ b.y_min <= h
      /\ b.pixels + r.max - r.min = b.pixels + (r.max - r.min)
      /\ b.pixels + r.max - r.min \in Nat
      /\ b.pixels + r.max - r.min >= MinLine
  BY <1>2, <1>5
<1>7. Appended(b, r) \in Blob
  BY <1>3, <1>4, <1>6 DEF Blob
<1>8. QED
  BY <1>3, <1>6, <1>7 DEF Blob, WellFormed

(* A new blob is the run it was started from. *)
LEMMA StartedBlob ==
  ASSUME NEW r \in Run, Long(r), h \in Rows
  PROVE  LET a == Started(r)
         IN  /\ a \in Blob /\ WellFormed(a) /\ a.valid
             /\ a.y_max = h /\ a.y_min = h
             /\ a.x_min = r.min /\ a.x_max = r.max
             /\ a.pixels = r.max - r.min
<1>1. /\ r.min \in Nat /\ r.max \in Nat /\ r.max - r.min >= MinLine
      /\ MinLine \in Nat \ {0} /\ h \in Nat
  BY ConstantsAssumed, BlobTyped DEF ConstantsTyped, Long, Rows
<1>2. Started(r) \in Blob
  BY <1>1 DEF Started, Blob, Run
<1>3. QED
  BY <1>1, <1>2 DEF Started, WellFormed

(* bb_combine keeps a blob well formed; its box is around both. *)
LEMMA CombinedBlob ==
  ASSUME NEW b \in Blob, NEW f \in Blob, b.valid, WellFormed(b), WellFormed(f)
  PROVE  LET a == Combined(b, f)
         IN  /\ a \in Blob /\ WellFormed(a) /\ a.valid
             /\ a.complete = b.complete
             /\ a.x_min <= b.x_min /\ a.x_min <= f.x_min
             /\ a.x_max >= b.x_max /\ a.x_max >= f.x_max
             /\ a.y_min <= b.y_min /\ a.y_min <= f.y_min
             /\ a.y_max >= b.y_max /\ a.y_max >= f.y_max
             /\ a.pixels = b.pixels + f.pixels
<1>1. PICK l, g, t, d :
        /\ l = Min({b.x_min, f.x_min}) /\ g = Max({b.x_max, f.x_max})
        /\ t = Min({b.y_min, f.y_min}) /\ d = Max({b.y_max, f.y_max})
  OBVIOUS
<1>2. /\ l = (IF b.x_min <= f.x_min THEN b.x_min ELSE f.x_min)
      /\ g = (IF b.x_max >= f.x_max THEN b.x_max ELSE f.x_max)
      /\ t = (IF b.y_min <= f.y_min THEN b.y_min ELSE f.y_min)
      /\ d = (IF b.y_max >= f.y_max THEN b.y_max ELSE f.y_max)
  BY <1>1, MinOfTwo, MaxOfTwo, BlobTyped
<1>3. Combined(b, f) = [b EXCEPT !.x_min = l, !.x_max = g, !.y_min = t,
                                 !.y_max = d, !.pixels = @ + f.pixels]
  BY <1>1 DEF Combined
<1>4. l \in Columns /\ g \in Columns /\ t \in Rows /\ d \in Rows
  BY <1>2 DEF Blob
<1>5. /\ MinLine \in Nat /\ b.pixels \in Nat /\ b.pixels >= MinLine
      /\ f.pixels \in Nat
      /\ b.x_min \in Nat /\ b.x_max \in Nat /\ b.x_min < b.x_max
      /\ b.y_min \in Nat /\ b.y_max \in Nat /\ b.y_min <= b.y_max
      /\ f.x_min \in Nat /\ f.x_max \in Nat
      /\ f.y_min \in Nat /\ f.y_max \in Nat
  BY ConstantsAssumed, BlobTyped DEF ConstantsTyped, WellFormed
<1>6. /\ l <= b.x_min /\ l <= f.x_min /\ g >= b.x_max /\ g >= f.x_max
      /\ t <= b.y_min /\ t <= f.y_min /\ d >= b.y_max /\ d >= f.y_max
      /\ l < g /\ t <= d
      /\ b.pixels + f.pixels \in Nat /\ b.pixels + f.pixels >= MinLine
  BY <1>2, <1>5
<1>7. Combined(b, f) \in Blob
  BY <1>3, <1>4, <1>6 DEF Blob
<1>8. QED
  BY <1>3, <1>6, <1>7 DEF Blob, WellFormed

(* The run that is handled is one of those left. *)
LEMMA FirstRunTaken ==
  ASSUME ScanInv, runs # {}
  PROVE  FirstRun \in runs /\ FirstRun \in Run
<1> DEFINE S == {r.max : r \in runs}
<1>1. S \subseteq Nat /\ S # {}
  BY BlobTyped DEF ScanInv
<1>2. Min(S) \in S /\ \A y \in S : Min(S) <= y
  BY <1>1, NatMin
<1>3. PICK r \in runs : r.max = Min(S)
  BY <1>2
<1>4. \A q \in runs : r.max <= q.max
  BY <1>2, <1>3
<1>5. FirstRun \in runs
  BY <1>4 DEF FirstRun
<1>6. QED
  BY <1>5 DEF ScanInv

(* find_containing_blob finds a blob in use. *)
LEMMA ContainingFound ==
  ASSUME NEW r, Containing(r) # None
  PROVE  Containing(r) \in Slots /\ blobs[Containing(r)].valid
<1> DEFINE found == {s \in Slots :
                       /\ blobs[s].valid /\ blobs[s].color = r.color
                       /\ InProgress(blobs[s])
                       /\ Reach(blobs[s]) \cap (r.min .. r.max - 1) # {}}
<1>1. found # {} /\ Containing(r) = Min(found)
  BY DEF Containing
<1>2. found \subseteq Nat
  BY DEF Slots
<1>3. Min(found) \in found
  BY <1>1, <1>2, NatMin
<1>4. QED
  BY <1>1, <1>3

(* A new blob gets a slot that is not in use. *)
LEMMA FreeSlotFound ==
  ASSUME FreeSlots # {}
  PROVE  Min(FreeSlots) \in Slots /\ ~blobs[Min(FreeSlots)].valid
<1>1. FreeSlots \subseteq Nat
  BY DEF FreeSlots, Slots
<1>2. Min(FreeSlots) \in FreeSlots
  BY <1>1, NatMin
<1>3. QED
  BY <1>2 DEF FreeSlots

(* No blob has more pixels than the image. *)
LEMMA PixelsBounded ==
  ASSUME SlotInv, CellsInv
  PROVE  \E n \in Nat : \A s \in Slots : blobs[s].pixels <= n
<1> DEFINE n == Cardinality(Columns \X Rows)
<1>1. IsFiniteSet(Columns) /\ IsFiniteSet(Rows)
  BY ConstantsAssumed, FS_Interval DEF ConstantsTyped, Columns, Rows
<1>2. IsFiniteSet(Columns \X Rows) /\ n \in Nat
  BY <1>1, FS_Product, FS_CardinalityType
<1>3. PICK c : CountedFrom(c)
  BY DEF CellsInv
<1>4. ASSUME NEW s \in Slots PROVE c[s] \subseteq Columns \X Rows
  <2>1. CASE ~blobs[s].valid
    BY <1>3, <2>1 DEF CountedFrom
  <2>2. CASE blobs[s].valid
    <3>1. blobs[s] \in Blob
      BY DEF SlotInv
    <3>2. c[s] \subseteq BoxCells(blobs[s])
      BY <1>3, <2>2 DEF CountedFrom
    <3>3. /\ (blobs[s].x_min .. blobs[s].x_max - 1) \subseteq Columns
          /\ (blobs[s].y_min .. blobs[s].y_max) \subseteq Rows
      <4>1. PICK x1, x2, y1, y2 : /\ x1 = blobs[s].x_min /\ x2 = blobs[s].x_max
                                  /\ y1 = blobs[s].y_min /\ y2 = blobs[s].y_max
        OBVIOUS
      <4>2. /\ x1 \in Nat /\ x2 \in Nat /\ x2 < Width
            /\ y1 \in Nat /\ y2 \in Nat /\ y2 < Height
            /\ Width \in Nat /\ Height \in Nat
        BY <3>1, <4>1, BlobTyped, ConstantsAssumed DEF ConstantsTyped
      <4>3. x1 .. x2 - 1 \subseteq Columns /\ y1 .. y2 \subseteq Rows
        BY <4>2 DEF Columns, Rows
      <4>4. QED
        BY <4>1, <4>3
    <3>4. QED
      BY <3>2, <3>3 DEF BoxCells
  <2>3. QED
    BY <2>1, <2>2
<1>5. ASSUME NEW s \in Slots PROVE blobs[s].pixels <= n
  <2>1. Cardinality(c[s]) <= n
    BY <1>2, <1>4, FS_Subset
  <2>2. QED
    BY <1>3, <2>1 DEF CountedFrom
<1>6. QED
  BY <1>2, <1>5

(* The largest blob of a colour is complete. *)
LEMMA LargestFound ==
  ASSUME SlotInv, CellsInv, NEW k, FindLargest(k) # None
  PROVE  FindLargest(k) \in Slots /\ Reported(FindLargest(k))
<1> DEFINE cs == {s \in Slots : Reported(s) /\ blobs[s].color = k
                                  /\ blobs[s].pixels > 0}
           best == {s \in cs : \A t \in cs : blobs[s].pixels >= blobs[t].pixels}
<1>1. cs # {} /\ FindLargest(k) = Min(best)
  BY DEF FindLargest
<1>2. PICK n \in Nat : \A s \in Slots : blobs[s].pixels <= n
  BY PixelsBounded
<1>3. \A s \in Slots : blobs[s].pixels \in Nat
  BY BlobTyped DEF SlotInv
<1> DEFINE S == {n - blobs[s].pixels : s \in cs}
<1>4. S \subseteq Nat /\ S # {}
  <2>1. ASSUME NEW s \in cs PROVE n - blobs[s].pixels \in Nat
    <3>1. blobs[s].pixels \in Nat /\ blobs[s].pixels <= n
      BY <1>2, <1>3
    <3>2. QED
      BY <3>1
  <2> HIDE DEF cs
  <2>2. QED
    BY <1>1, <2>1
<1>5. Min(S) \in S /\ \A y \in S : Min(S) <= y
  BY <1>4, NatMin
<1>6. PICK s \in cs : Min(S) = n - blobs[s].pixels
  BY <1>5
<1>7. ASSUME NEW t \in cs PROVE blobs[s].pixels >= blobs[t].pixels
  <2>1. n - blobs[s].pixels <= n - blobs[t].pixels
    BY <1>5, <1>6
  <2>2. blobs[s].pixels \in Nat /\ blobs[t].pixels \in Nat
    BY <1>3
  <2>3. QED
    BY <2>1, <2>2
<1>8. s \in best
  BY <1>7
<1>9. best \subseteq Nat
  BY DEF Slots
<1>10. Min(best) \in best
  BY <1>8, <1>9, NatMin
<1>11. QED
  BY <1>1, <1>10

------------------------------------------------------------------------------
(* A run has as many cells as it has columns. *)
LEMMA RunCellsCounted ==
  ASSUME NEW a \in Int, NEW b \in Int, a <= b, NEW y
  PROVE  /\ IsFiniteSet((a .. b - 1) \X {y})
         /\ Cardinality((a .. b - 1) \X {y}) = b - a
<1>1. IsFiniteSet(a .. b - 1) /\ Cardinality(a .. b - 1) = b - a
  <2>1. /\ IsFiniteSet(a .. b - 1)
        /\ Cardinality(a .. b - 1)
             = IF a > b - 1 THEN 0 ELSE b - 1 - a + 1
    BY FS_Interval
  <2>2. (IF a > b - 1 THEN 0 ELSE b - 1 - a + 1) = b - a
    OBVIOUS
  <2>3. QED
    BY <2>1, <2>2
<1>2. IsFiniteSet({y}) /\ Cardinality({y}) = 1
  BY FS_Singleton
<1>3. /\ IsFiniteSet((a .. b - 1) \X {y})
      /\ Cardinality((a .. b - 1) \X {y})
           = Cardinality(a .. b - 1) * Cardinality({y})
  BY <1>1, <1>2, FS_Product
<1>4. QED
  BY <1>1, <1>2, <1>3

(* A box has as many cells as its columns times its rows. *)
LEMMA BoxCellsCounted ==
  ASSUME NEW b \in Blob, WellFormed(b)
  PROVE  /\ IsFiniteSet(BoxCells(b))
         /\ Cardinality(BoxCells(b))
              = (b.x_max - b.x_min) * (b.y_max - b.y_min + 1)
<1>1. PICK l, g, t, d : /\ l = b.x_min /\ g = b.x_max
                        /\ t = b.y_min /\ d = b.y_max
  OBVIOUS
<1>2. l \in Int /\ g \in Int /\ t \in Int /\ d \in Int /\ l < g /\ t <= d
  BY <1>1, BlobTyped DEF WellFormed
<1>3. IsFiniteSet(l .. g - 1) /\ Cardinality(l .. g - 1) = g - l
  <2>1. /\ IsFiniteSet(l .. g - 1)
        /\ Cardinality(l .. g - 1)
             = IF l > g - 1 THEN 0 ELSE g - 1 - l + 1
    BY <1>2, FS_Interval
  <2>2. QED
    BY <1>2, <2>1
<1>4. IsFiniteSet(t .. d) /\ Cardinality(t .. d) = d - t + 1
  <2>1. /\ IsFiniteSet(t .. d)
        /\ Cardinality(t .. d) = IF t > d THEN 0 ELSE d - t + 1
    BY <1>2, FS_Interval
  <2>2. QED
    BY <1>2, <2>1
<1>5. /\ IsFiniteSet((l .. g - 1) \X (t .. d))
      /\ Cardinality((l .. g - 1) \X (t .. d))
           = Cardinality(l .. g - 1) * Cardinality(t .. d)
  BY <1>3, <1>4, FS_Product
<1>6. QED
  BY <1>1, <1>3, <1>4, <1>5 DEF BoxCells

(* Disjoint finite sets have as many elements together as one by one. *)
LEMMA DisjointCounted ==
  ASSUME NEW S, NEW T, IsFiniteSet(S), IsFiniteSet(T), S \cap T = {}
  PROVE  /\ IsFiniteSet(S \cup T)
         /\ Cardinality(S \cup T) = Cardinality(S) + Cardinality(T)
<1>1. /\ IsFiniteSet(S \cup T)
      /\ Cardinality(S \cup T)
           = Cardinality(S) + Cardinality(T) - Cardinality(S \cap T)
  BY FS_Union
<1>2. Cardinality(S \cap T) = 0
  BY FS_EmptySet
<1>3. Cardinality(S) \in Nat /\ Cardinality(T) \in Nat
  BY FS_CardinalityType
<1>4. QED
  BY <1>1, <1>2, <1>3

(* No blob has cells in the row that is read next.                         *)
LEMMA ReadRowKeepsCells ==
  ASSUME ScanInv, SlotInv, CellsInv, ReadRow
  PROVE  CellsInv'
<1>1. PICK c : CountedFrom(c)
  BY DEF CellsInv
<1>2. pc = "row" /\ pc' = "runs" /\ blobs' = blobs /\ h' = h
  BY DEF ReadRow
<1>3. ASSUME NEW r, NEW s \in Slots PROVE RunCells(r)' \cap c[s] = {}
  <2>1. CASE ~blobs[s].valid
    BY <1>1, <2>1 DEF CountedFrom
  <2>2. CASE blobs[s].valid
    <3>1. c[s] \subseteq BoxCells(blobs[s])
      BY <1>1, <2>2 DEF CountedFrom
    <3>2. blobs[s].y_max < h /\ blobs[s].y_max \in Nat /\ h \in Nat
      BY <1>2, <2>2, BlobTyped, ConstantsAssumed
      DEF SlotInv, Valid, ScanInv, ConstantsTyped
    <3>3. h \notin blobs[s].y_min .. blobs[s].y_max
      BY <3>2
    <3>4. RunCells(r)' \subseteq Int \X {h}
      BY <1>2 DEF RunCells
    <3>5. QED
      BY <3>1, <3>3, <3>4 DEF BoxCells
  <2>3. QED
    BY <2>1, <2>2
<1>4. CountedFrom(c)'
  BY <1>1, <1>2, <1>3 DEF CountedFrom, BoxCells
<1>5. QED
  BY <1>4 DEF CellsInv

(* Steps that change no blob keep the cells. *)
LEMMA SameBlobsKeepCells ==
  ASSUME CellsInv, blobs' = blobs, pc' = "runs" => /\ pc = "runs" /\ h' = h
                                                  /\ runs' \subseteq runs
  PROVE  CellsInv'
<1>1. PICK c : CountedFrom(c)
  BY DEF CellsInv
<1>2. ASSUME pc' = "runs", NEW r \in runs', NEW s \in Slots
      PROVE  RunCells(r)' \cap c[s] = {}
  BY <1>1, <1>2 DEF CountedFrom, RunCells
<1>3. CountedFrom(c)'
  BY <1>1, <1>2 DEF CountedFrom, BoxCells
<1>4. QED
  BY <1>3 DEF CellsInv

(* A run added to a slot, whether in use or not, brings its cells along.   *)
LEMMA GainRunKeepsCells ==
  ASSUME CellsInv, ScanInv, SlotInv, pc = "runs", pc' = pc, h' = h,
         NEW r \in runs, Long(r), runs' = runs \ {r},
         NEW s \in Slots, NEW a \in Blob, a.valid,
         blobs' = [blobs EXCEPT ![s] = a],
         a.pixels = blobs[s].pixels + (r.max - r.min),
         blobs[s].valid => BoxCells(blobs[s]) \subseteq BoxCells(a),
         RunCells(r) \subseteq BoxCells(a)
  PROVE  CellsInv'
<1>1. PICK c : CountedFrom(c)
  BY DEF CellsInv
<1>0. PICK d :
        d = [u \in Slots |-> IF u = s THEN c[s] \cup RunCells(r) ELSE c[u]]
  OBVIOUS
<1>2. /\ blobs'[s] = a
      /\ \A u \in Slots : u # s => blobs'[u] = blobs[u]
      /\ d[s] = c[s] \cup RunCells(r) /\ DOMAIN d = Slots
      /\ \A u \in Slots : u # s => d[u] = c[u]
  BY <1>0 DEF SlotInv
<1>3. \A u \in Slots : RunCells(r) \cap c[u] = {}
  BY <1>1 DEF CountedFrom
<1>4. d[s] \subseteq BoxCells(a)
  BY <1>1, <1>2 DEF CountedFrom
<1>5. IsFiniteSet(d[s]) /\ Cardinality(d[s]) = a.pixels
  <2>1. r.min \in Int /\ r.max \in Int /\ r.min <= r.max
    BY BlobTyped DEF ScanInv
  <2>2. /\ IsFiniteSet(RunCells(r))
        /\ Cardinality(RunCells(r)) = r.max - r.min
    BY <2>1, RunCellsCounted DEF RunCells
  <2>3. IsFiniteSet(c[s]) /\ Cardinality(c[s]) = blobs[s].pixels
    BY <1>1 DEF CountedFrom
  <2>4. /\ IsFiniteSet(c[s] \cup RunCells(r))
        /\ Cardinality(c[s] \cup RunCells(r))
             = Cardinality(c[s]) + Cardinality(RunCells(r))
    BY <1>3, <2>2, <2>3, DisjointCounted
  <2>5. QED
    BY <1>2, <2>2, <2>3, <2>4
<1>6. \A u, v \in Slots : u # v => d[u] \cap d[v] = {}
  <2>1. SUFFICES ASSUME NEW u \in Slots, NEW v \in Slots, u # v
                 PROVE  d[u] \cap d[v] = {}
    OBVIOUS
  <2>2. c[u] \cap c[v] = {}
    BY <1>1, <2>1 DEF CountedFrom
  <2>3. QED
    BY <1>2, <1>3, <2>1, <2>2
<1>7. \A q \in runs' : \A u \in Slots : RunCells(q)' \cap d[u] = {}
  <2>1. SUFFICES ASSUME NEW q \in runs, q # r, NEW u \in Slots
                 PROVE  RunCells(q) \cap d[u] = {}
    BY DEF RunCells
  <2>2. RunCells(q) \cap c[u] = {}
    BY <1>1 DEF CountedFrom
  <2>3. q.max < r.min \/ r.max < q.min
    BY <2>1 DEF ScanInv, Apart
  <2>4. /\ q.max \in Int /\ q.min \in Int /\ r.max \in Int /\ r.min \in Int
    BY BlobTyped DEF ScanInv
  <2>5. RunCells(q) \cap RunCells(r) = {}
    BY <2>3, <2>4 DEF RunCells
  <2>6. QED
    BY <1>2, <2>2, <2>5
<1>8. \A u \in Slots : /\ blobs'[u].valid => d[u] \subseteq BoxCells(blobs'[u])
                       /\ ~blobs'[u].valid => d[u] = {}
                       /\ IsFiniteSet(d[u])
                       /\ Cardinality(d[u]) = blobs'[u].pixels
  <2>1. ASSUME NEW u \in Slots, u # s
        PROVE  /\ blobs'[u].valid => d[u] \subseteq BoxCells(blobs'[u])
               /\ ~blobs'[u].valid => d[u] = {}
               /\ IsFiniteSet(d[u]) /\ Cardinality(d[u]) = blobs'[u].pixels
    BY <1>1, <1>2, <2>1 DEF CountedFrom
  <2>2. /\ blobs'[s].valid /\ d[s] \subseteq BoxCells(blobs'[s])
        /\ IsFiniteSet(d[s]) /\ Cardinality(d[s]) = blobs'[s].pixels
    BY <1>2, <1>4, <1>5
  <2>3. QED
    BY <2>1, <2>2
<1>9. CountedFrom(d)'
  BY <1>2, <1>6, <1>7, <1>8 DEF CountedFrom, BoxCells
<1>10. QED
  BY <1>9 DEF CellsInv

(* Slots that are emptied give up their cells. *)
LEMMA EmptiedKeepCells ==
  ASSUME CellsInv, SlotInv, NEW E, pc' # "runs",
         blobs' = [s \in Slots |-> IF s \in E THEN Free ELSE blobs[s]]
  PROVE  CellsInv'
<1>1. PICK c : CountedFrom(c)
  BY DEF CellsInv
<1> DEFINE d == [u \in Slots |-> IF u \in E THEN {} ELSE c[u]]
<1>2. /\ DOMAIN d = Slots
      /\ \A u \in Slots : /\ u \in E => blobs'[u] = Free /\ d[u] = {}
                          /\ u \notin E => blobs'[u] = blobs[u] /\ d[u] = c[u]
  OBVIOUS
<1> HIDE DEF d
<1>3. IsFiniteSet({}) /\ Cardinality({}) = 0
  BY FS_EmptySet
<1>4. \A u \in Slots : /\ blobs'[u].valid => d[u] \subseteq BoxCells(blobs'[u])
                       /\ ~blobs'[u].valid => d[u] = {}
                       /\ IsFiniteSet(d[u])
                       /\ Cardinality(d[u]) = blobs'[u].pixels
  BY <1>1, <1>2, <1>3, BlobTyped DEF CountedFrom
<1>5. \A u, v \in Slots : u # v => d[u] \cap d[v] = {}
  BY <1>1, <1>2 DEF CountedFrom
<1>6. CountedFrom(d)'
  BY <1>2, <1>4, <1>5 DEF CountedFrom, BoxCells
<1>7. QED
  BY <1>6 DEF CellsInv

(* A blob that takes in another has the cells of both. *)
LEMMA CombineKeepsCells ==
  ASSUME CellsInv, SlotInv, CombineInv, Combine
  PROVE  CellsInv'
<1>1. PICK c : CountedFrom(c)
  BY DEF CellsInv
<1>2. /\ largest \in Slots /\ Reported(largest) /\ i \in Slots
      /\ pc' = "combine"
  BY DEF Combine, CombineInv
<1>3. CASE ~Subsumes(i)
  <2>1. blobs' = blobs
    BY <1>3 DEF Combine
  <2>2. QED
    BY <1>2, <2>1, SameBlobsKeepCells
<1>4. CASE Subsumes(i)
  <2>1. PICK b, f, a : b = blobs[largest] /\ f = blobs[i] /\ a = Combined(b, f)
    OBVIOUS
  <2>2. i # largest /\ b \in Blob /\ f \in Blob /\ b.valid /\ f.valid
        /\ WellFormed(b) /\ WellFormed(f)
    BY <1>2, <1>4, <2>1 DEF Subsumes, Reported, SlotInv
  <2>3. /\ a \in Blob /\ WellFormed(a) /\ a.valid
        /\ a.x_min <= b.x_min /\ a.x_min <= f.x_min
        /\ a.x_max >= b.x_max /\ a.x_max >= f.x_max
        /\ a.y_min <= b.y_min /\ a.y_min <= f.y_min
        /\ a.y_max >= b.y_max /\ a.y_max >= f.y_max
        /\ a.pixels = b.pixels + f.pixels
    BY <2>1, <2>2, CombinedBlob
  <2>4. BoxCells(b) \subseteq BoxCells(a) /\ BoxCells(f) \subseteq BoxCells(a)
    <3>1. /\ a.x_min \in Int /\ a.x_max \in Int
          /\ a.y_min \in Int /\ a.y_max \in Int
          /\ b.x_min \in Int /\ b.x_max \in Int
          /\ b.y_min \in Int /\ b.y_max \in Int
          /\ f.x_min \in Int /\ f.x_max \in Int
          /\ f.y_min \in Int /\ f.y_max \in Int
      BY <2>2, <2>3, BlobTyped
    <3>2. QED
      BY <2>3, <3>1 DEF BoxCells
  <2>5. blobs' = [blobs EXCEPT ![largest] = a, ![i] = Free]
    BY <1>4, <2>1, <2>2 DEF Combine, SlotInv
  <2>14. PICK d : d = [u \in Slots |-> IF u = largest THEN c[largest] \cup c[i]
                                      ELSE IF u = i THEN {} ELSE c[u]]
    OBVIOUS
  <2>6. /\ DOMAIN d = Slots
        /\ blobs'[largest] = a /\ d[largest] = c[largest] \cup c[i]
        /\ blobs'[i] = Free /\ d[i] = {}
        /\ \A u \in Slots \ {largest, i} :
             blobs'[u] = blobs[u] /\ d[u] = c[u]
    BY <1>2, <2>2, <2>5, <2>14 DEF SlotInv
  <2>7. d[largest] \subseteq BoxCells(a)
    BY <1>1, <1>2, <2>1, <2>2, <2>4, <2>6 DEF CountedFrom
  <2>8. IsFiniteSet(d[largest]) /\ Cardinality(d[largest]) = a.pixels
    <3>1. /\ IsFiniteSet(c[largest]) /\ Cardinality(c[largest]) = b.pixels
          /\ IsFiniteSet(c[i]) /\ Cardinality(c[i]) = f.pixels
          /\ c[largest] \cap c[i] = {}
      BY <1>1, <1>2, <2>1, <2>2 DEF CountedFrom
    <3>2. /\ IsFiniteSet(c[largest] \cup c[i])
          /\ Cardinality(c[largest] \cup c[i]) = b.pixels + f.pixels
      BY <3>1, DisjointCounted
    <3>3. QED
      BY <2>3, <2>6, <3>2
  <2>9. IsFiniteSet({}) /\ Cardinality({}) = 0
    BY FS_EmptySet
  <2>10. ASSUME NEW u \in Slots
         PROVE  /\ blobs'[u].valid => d[u] \subseteq BoxCells(blobs'[u])
                /\ ~blobs'[u].valid => d[u] = {}
                /\ IsFiniteSet(d[u])
                /\ Cardinality(d[u]) = blobs'[u].pixels
    <3>1. CASE u = largest
      BY <2>3, <2>6, <2>7, <2>8, <3>1
    <3>2. CASE u = i
      BY <2>6, <2>9, <3>2, BlobTyped
    <3>3. CASE u \in Slots \ {largest, i}
      BY <1>1, <2>6, <3>3 DEF CountedFrom
    <3>4. QED
      BY <3>1, <3>2, <3>3
  <2>11. ASSUME NEW u \in Slots, NEW v \in Slots, u # v
         PROVE  d[u] \cap d[v] = {}
    <3>1. \A s, t \in Slots : s # t => c[s] \cap c[t] = {}
      BY <1>1 DEF CountedFrom
    <3>2. ASSUME NEW w \in Slots \ {largest, i}
          PROVE  d[w] \cap d[largest] = {}
      BY <1>2, <2>6, <3>1
    <3>3. CASE u = i \/ v = i
      BY <2>6, <3>3
    <3>4. CASE u = largest /\ v # i
      BY <2>11, <3>2, <3>4
    <3>5. CASE v = largest /\ u # i
      BY <2>11, <3>2, <3>5
    <3>6. CASE u \in Slots \ {largest, i} /\ v \in Slots \ {largest, i}
      BY <2>6, <2>11, <3>1, <3>6
    <3>7. QED
      BY <3>3, <3>4, <3>5, <3>6
  <2>12. CountedFrom(d)'
    BY <1>2, <2>6, <2>10, <2>11 DEF CountedFrom, BoxCells
  <2>13. QED
    BY <2>12 DEF CellsInv
<1>5. QED
  BY <1>3, <1>4

(* What a step that handles a run finds and leaves.                        *)
LEMMA RunStep ==
  ASSUME BlobInv, TakeRun
  PROVE  /\ pc = "runs" /\ pc' = pc /\ h' = h /\ h \in Rows
         /\ FirstRun \in runs /\ FirstRun \in Run
         /\ runs' = runs \ {FirstRun} /\ UNCHANGED <<combine, output>>
<1>1. pc = "runs" /\ h \in Rows
  BY ConstantsAssumed DEF TakeRun, BlobInv, ScanInv, Rows, ConstantsTyped
<1>2. FirstRun \in runs /\ FirstRun \in Run
  BY FirstRunTaken DEF TakeRun, BlobInv
<1>3. QED
  BY <1>1, <1>2 DEF TakeRun

(* A run that is added to a slot: by append_blob to the one that contains  *)
(* it, or as a new blob to a free one.                                     *)
Gains(s, a) ==
  /\ a.valid /\ WellFormed(a) /\ a.y_max = h
  /\ blobs' = [blobs EXCEPT ![s] = a]
  /\ a.pixels = blobs[s].pixels + (FirstRun.max - FirstRun.min)
  /\ blobs[s].valid => BoxCells(blobs[s]) \subseteq BoxCells(a)
  /\ RunCells(FirstRun) \subseteq BoxCells(a)

(* append_blob_info is such a gain, of a slot in use.                      *)
LEMMA AppendGains ==
  ASSUME BlobInv, AppendBlob
  PROVE  \E s \in Slots : \E a \in Blob : blobs[s].valid /\ Gains(s, a)
<1>1. PICK r : r = FirstRun
  OBVIOUS
<1>2. /\ r \in Run /\ h \in Rows /\ pc = "runs" /\ Long(r)
      /\ Containing(r) # None
      /\ blobs' = [blobs EXCEPT ![Containing(r)] = Appended(@, r)]
  BY <1>1, RunStep DEF AppendBlob
<1>3. PICK s : s = Containing(r)
  OBVIOUS
<1>4. s \in Slots /\ blobs[s].valid
  BY <1>2, <1>3, ContainingFound
<1>5. PICK b, a : b = blobs[s] /\ a = Appended(b, r)
  OBVIOUS
<1>6. b \in Blob /\ WellFormed(b) /\ b.y_max <= h
  BY <1>2, <1>4, <1>5 DEF BlobInv, SlotInv, Valid
<1>7. /\ a \in Blob /\ WellFormed(a) /\ a.valid
      /\ a.y_max = h /\ a.y_min = b.y_min
      /\ a.x_min <= b.x_min /\ a.x_min <= r.min
      /\ a.x_max >= b.x_max /\ a.x_max >= r.max
      /\ a.pixels = b.pixels + (r.max - r.min)
  BY <1>2, <1>4, <1>5, <1>6, AppendedBlob
<1>8. /\ a.x_min \in Int /\ a.x_max \in Int /\ a.y_min \in Int /\ h \in Int
      /\ b.x_min \in Int /\ b.x_max \in Int /\ b.y_max \in Int
      /\ r.min \in Int /\ r.max \in Int /\ b.y_min <= b.y_max
  BY <1>2, <1>6, <1>7, BlobTyped DEF Rows, WellFormed
<1>9. BoxCells(b) \subseteq BoxCells(a) /\ RunCells(r) \subseteq BoxCells(a)
  BY <1>6, <1>7, <1>8 DEF BoxCells, RunCells
<1>10. blobs' = [blobs EXCEPT ![s] = a]
  BY <1>2, <1>3, <1>4, <1>5 DEF BlobInv, SlotInv
<1>11. Gains(s, a)
  BY <1>1, <1>5, <1>7, <1>9, <1>10 DEF Gains
<1>12. QED
  BY <1>4, <1>7, <1>11

(* add_new_blob is such a gain, of a free slot.                            *)
LEMMA NewBlobGains ==
  ASSUME BlobInv, NewBlob
  PROVE  \E s \in Slots : \E a \in Blob : ~blobs[s].valid /\ Gains(s, a)
<1>1. PICK r : r = FirstRun
  OBVIOUS
<1>2. /\ r \in Run /\ h \in Rows /\ Long(r) /\ FreeSlots # {}
      /\ blobs' = [blobs EXCEPT ![Min(FreeSlots)] = Started(r)]
  BY <1>1, RunStep DEF NewBlob
<1>3. PICK s, a : s = Min(FreeSlots) /\ a = Started(r)
  OBVIOUS
<1>4. s \in Slots /\ ~blobs[s].valid
  BY <1>2, <1>3, FreeSlotFound
<1>5. blobs[s].pixels = 0
  BY <1>4, BlobTyped DEF BlobInv, SlotInv
<1>6. /\ a \in Blob /\ WellFormed(a) /\ a.valid
      /\ a.y_max = h /\ a.y_min = h /\ a.x_min = r.min /\ a.x_max = r.max
      /\ a.pixels = r.max - r.min
  BY <1>2, <1>3, StartedBlob
<1>7. r.min \in Int /\ r.max \in Int /\ h \in Int
  BY <1>2, BlobTyped DEF Rows
<1>8. RunCells(r) \subseteq BoxCells(a)
  BY <1>6, <1>7 DEF BoxCells, RunCells
<1>9. a.pixels = blobs[s].pixels + (r.max - r.min)
  BY <1>5, <1>6, <1>7
<1>10. Gains(s, a)
  BY <1>1, <1>2, <1>3, <1>4, <1>6, <1>8, <1>9 DEF Gains
<1>11. QED
  BY <1>4, <1>6, <1>10

------------------------------------------------------------------------------
(* Every step keeps the parts of the invariant.                            *)
LEMMA ScanKept ==
  ASSUME BlobInv, [Next]_vars
  PROVE  ScanInv'
<1> USE DEF BlobInv
<1>1. CASE ReadRow
  <2>1. PICK row : runs' = Runs(row)
    BY <1>1 DEF ReadRow
  <2>2. /\ runs' \subseteq Run /\ Apart(runs')
        /\ \A r \in runs' : r.min <= r.max
    BY <2>1, RunsOfRow
  <2>3. QED
    BY <1>1, <2>2, ConstantsAssumed
    DEF ReadRow, ScanInv, ConstantsTyped, Apart
<1>2. CASE TakeRun
  BY <1>2, RunStep DEF ScanInv, Apart
<1>3. CASE CullBlobs
  BY <1>3, ConstantsAssumed DEF CullBlobs, ScanInv, ConstantsTyped, Apart
<1>4. CASE RowsDone \/ ChooseLargest \/ Combine \/ NextColor \/ Draw
           \/ NoDetectImage \/ Report
  BY <1>4 DEF RowsDone, ChooseLargest, Combine, NextColor, Draw,
     NoDetectImage, Report, ScanInv, Apart, scan
<1>5. CASE NextImage
  BY <1>5, ConstantsAssumed DEF NextImage, ScanInv, ConstantsTyped, Apart
<1>6. CASE UNCHANGED vars
  BY <1>6 DEF vars, ScanInv, Apart
<1>7. QED
  BY <1>1, <1>2, <1>3, <1>4, <1>5, <1>6
  DEF Next, IgnoreRun, AppendBlob, NewBlob, NoRoom

(* Steps that change no blob keep the slots.                               *)
LEMMA SameBlobsKeepSlots ==
  ASSUME SlotInv, blobs' = blobs,
         pc' = "row" => pc = "row" /\ h' = h,
         pc' = "runs" => pc \in {"row", "runs"} /\ h' = h,
         h \in Int
  PROVE  SlotInv'
<1>1. \A s \in Slots : blobs[s].y_max \in Int
  BY BlobTyped DEF SlotInv
<1>2. ASSUME NEW s \in Valid, pc' = "runs" PROVE blobs[s].y_max <= h
  BY <1>1, <1>2 DEF SlotInv, Valid
<1>3. QED
  BY <1>2 DEF SlotInv, Valid

(* A step that adds a run to a slot keeps the slots.                       *)
LEMMA GainKeepsSlots ==
  ASSUME BlobInv, pc = "runs", pc' = "runs", h' = h,
         NEW s \in Slots, NEW a \in Blob, Gains(s, a)
  PROVE  SlotInv'
<1>1. h \in Int
  BY ConstantsAssumed DEF BlobInv, ScanInv, ConstantsTyped
<1>2. /\ blobs'[s] = a
      /\ \A u \in Slots : u # s => blobs'[u] = blobs[u]
      /\ blobs' \in [Slots -> Blob]
  BY DEF Gains, BlobInv, SlotInv
<1>3. ASSUME NEW u \in Slots
      PROVE  /\ blobs'[u].valid => WellFormed(blobs'[u]) /\ blobs'[u].y_max <= h
             /\ ~blobs'[u].valid => blobs'[u] = Free
  <2>1. CASE u = s
    BY <1>1, <1>2, <2>1 DEF Gains
  <2>2. CASE u # s
    BY <1>2, <2>2 DEF BlobInv, SlotInv, Valid
  <2>3. QED
    BY <2>1, <2>2
<1>4. QED
  BY <1>2, <1>3 DEF SlotInv, Valid

(* cull_blobs leaves the blobs it does not empty above the next row.       *)
LEMMA CullKeepsSlots ==
  ASSUME BlobInv, CullBlobs
  PROVE  SlotInv'
<1>1. /\ pc = "runs" /\ pc' = "row" /\ h' = h + 1 /\ h \in Int
      /\ blobs' = [s \in Slots |-> IF s \in Culled THEN Free ELSE blobs[s]]
  BY ConstantsAssumed DEF CullBlobs, BlobInv, ScanInv, ConstantsTyped
<1>2. ASSUME NEW s \in Slots
      PROVE  /\ blobs'[s] \in Blob
             /\ blobs'[s].valid =>
                  WellFormed(blobs'[s]) /\ blobs'[s].y_max < h + 1
             /\ ~blobs'[s].valid => blobs'[s] = Free
  <2>1. CASE s \in Culled
    BY <1>1, <2>1, BlobTyped
  <2>2. CASE s \notin Culled
    <3>1. blobs'[s] = blobs[s] /\ blobs[s] \in Blob
      BY <1>1, <2>2 DEF BlobInv, SlotInv
    <3>2. blobs[s].y_max \in Int
      BY <3>1, BlobTyped
    <3>3. blobs[s].valid =>
            WellFormed(blobs[s]) /\ blobs[s].y_max <= h
      BY <1>1 DEF BlobInv, SlotInv, Valid
    <3>4. ~blobs[s].valid => blobs[s] = Free
      BY DEF BlobInv, SlotInv
    <3>5. QED
      BY <1>1, <3>1, <3>2, <3>3, <3>4
  <2>3. QED
    BY <2>1, <2>2
<1>3. QED
  BY <1>1, <1>2 DEF SlotInv, Valid

(* What a step of combine_blobs_from_largest that takes a blob in does.    *)
LEMMA SubsumeStep ==
  ASSUME BlobInv, Combine, Subsumes(i)
  PROVE  /\ largest \in Slots /\ i \in Slots /\ i # largest
         /\ LET a == Combined(blobs[largest], blobs[i])
            IN  /\ a \in Blob /\ WellFormed(a) /\ a.valid /\ a.complete
                /\ blobs' = [blobs EXCEPT ![largest] = a, ![i] = Free]
<1>1. /\ largest \in Slots /\ Reported(largest) /\ i \in Slots
      /\ i # largest /\ Reported(i)
  BY DEF Combine, Subsumes, BlobInv, CombineInv
<1>2. PICK b, f, a : b = blobs[largest] /\ f = blobs[i] /\ a = Combined(b, f)
  OBVIOUS
<1>3. b \in Blob /\ f \in Blob /\ b.valid /\ b.complete
      /\ WellFormed(b) /\ WellFormed(f)
  BY <1>1, <1>2 DEF Reported, BlobInv, SlotInv
<1>4. a \in Blob /\ WellFormed(a) /\ a.valid /\ a.complete
  BY <1>2, <1>3, CombinedBlob
<1>5. blobs' = [blobs EXCEPT ![largest] = a, ![i] = Free]
  BY <1>1, <1>2 DEF Combine, BlobInv, SlotInv
<1>6. QED
  BY <1>1, <1>2, <1>4, <1>5

(* combine_blobs leaves well-formed slots: the box of the larger blob      *)
(* spans both, and the other slot is free.                                 *)
LEMMA CombineKeepsSlots ==
  ASSUME BlobInv, Combine
  PROVE  SlotInv'
<1>1. pc' = "combine"
  BY DEF Combine
<1>2. CASE ~Subsumes(i)
  <2>1. blobs' = blobs
    BY <1>2 DEF Combine
  <2>2. h \in Int
    BY ConstantsAssumed DEF BlobInv, ScanInv, ConstantsTyped
  <2>3. QED
    BY <1>1, <2>1, <2>2, SameBlobsKeepSlots DEF BlobInv
<1>3. CASE Subsumes(i)
  <2>1. PICK a : a = Combined(blobs[largest], blobs[i])
    OBVIOUS
  <2>2. /\ largest \in Slots /\ i \in Slots /\ i # largest
        /\ a \in Blob /\ WellFormed(a) /\ a.valid
        /\ blobs' = [blobs EXCEPT ![largest] = a, ![i] = Free]
    BY <1>3, <2>1, SubsumeStep
  <2>3. /\ blobs'[largest] = a /\ blobs'[i] = Free
        /\ \A u \in Slots \ {largest, i} : blobs'[u] = blobs[u]
        /\ blobs' \in [Slots -> Blob]
    BY <2>2, BlobTyped DEF BlobInv, SlotInv
  <2>4. ASSUME NEW u \in Slots
        PROVE  /\ blobs'[u].valid => WellFormed(blobs'[u])
               /\ ~blobs'[u].valid => blobs'[u] = Free
    <3>1. CASE u \in {largest, i}
      BY <2>2, <2>3, <3>1, BlobTyped
    <3>2. CASE u \in Slots \ {largest, i}
      BY <2>3, <3>2 DEF BlobInv, SlotInv
    <3>3. QED
      BY <3>1, <3>2
  <2>5. QED
    BY <1>1, <2>3, <2>4 DEF SlotInv
<1>4. QED
  BY <1>2, <1>3

(* The steps that change no blob.                                          *)
LEMMA SameBlobsStep ==
  ASSUME BlobInv, ReadRow \/ IgnoreRun \/ NoRoom \/ RowsDone \/ ChooseLargest
                  \/ NextColor \/ Draw \/ NoDetectImage \/ Report
                  \/ UNCHANGED vars
  PROVE  /\ blobs' = blobs /\ num_blobs' = num_blobs /\ h' = h
         /\ pc' = "row" => pc = "row"
         /\ pc' = "runs" => pc \in {"row", "runs"}
         /\ ReadRow \/ (pc' = "runs" => pc = "runs" /\ runs' \subseteq runs)
<1>1. CASE ReadRow
  BY <1>1 DEF ReadRow
<1>2. CASE IgnoreRun \/ NoRoom
  BY <1>2 DEF IgnoreRun, NoRoom, TakeRun
<1>3. CASE RowsDone \/ ChooseLargest \/ NextColor \/ Draw \/ NoDetectImage
           \/ Report
  BY <1>3 DEF RowsDone, ChooseLargest, NextColor, Draw, NoDetectImage,
     Report, scan, BlobInv, ScanInv
<1>4. CASE UNCHANGED vars
  BY <1>4 DEF vars
<1>5. QED
  BY <1>1, <1>2, <1>3, <1>4

(* Every step leaves the slots well formed.                                *)
LEMMA SlotsKept ==
  ASSUME BlobInv, [Next]_vars
  PROVE  SlotInv'
<1>1. CASE ReadRow \/ IgnoreRun \/ NoRoom \/ RowsDone \/ ChooseLargest
           \/ NextColor \/ Draw \/ NoDetectImage \/ Report \/ UNCHANGED vars
  <2>1. h \in Int
    BY ConstantsAssumed DEF BlobInv, ScanInv, ConstantsTyped
  <2>2. QED
    BY <1>1, <2>1, SameBlobsStep, SameBlobsKeepSlots DEF BlobInv
<1>2. CASE AppendBlob
  <2>1. PICK s \in Slots, a \in Blob : Gains(s, a)
    BY <1>2, AppendGains
  <2>2. QED
    BY <1>2, <2>1, RunStep, GainKeepsSlots DEF AppendBlob
<1>3. CASE NewBlob
  <2>1. PICK s \in Slots, a \in Blob : Gains(s, a)
    BY <1>3, NewBlobGains
  <2>2. QED
    BY <1>3, <2>1, RunStep, GainKeepsSlots DEF NewBlob
<1>4. CASE CullBlobs
  BY <1>4, CullKeepsSlots
<1>5. CASE Combine
  BY <1>5, CombineKeepsSlots
<1>6. CASE NextImage
  <2>1. /\ pc' = "row" /\ blobs' = [s \in Slots |-> Free]
    BY <1>6 DEF NextImage
  <2>2. /\ blobs' \in [Slots -> Blob]
        /\ \A s \in Slots : blobs'[s] = Free /\ ~blobs'[s].valid
    BY <2>1, BlobTyped
  <2>3. QED
    BY <2>1, <2>2 DEF SlotInv, Valid
<1>7. QED
  BY <1>1, <1>2, <1>3, <1>4, <1>5, <1>6 DEF Next

(* Every step leaves the cells counted by the slots disjoint.              *)
LEMMA CellsKept ==
  ASSUME BlobInv, [Next]_vars
  PROVE  CellsInv'
<1>1. CASE ReadRow
  BY <1>1, ReadRowKeepsCells DEF BlobInv
<1>2. CASE IgnoreRun \/ NoRoom \/ RowsDone \/ ChooseLargest
           \/ NextColor \/ Draw \/ NoDetectImage \/ Report \/ UNCHANGED vars
  BY <1>1, <1>2, SameBlobsStep, SameBlobsKeepCells DEF BlobInv
<1>3. CASE AppendBlob \/ NewBlob
  <2>1. PICK s \in Slots, a \in Blob : Gains(s, a)
    BY <1>3, AppendGains, NewBlobGains
  <2>2. PICK r : r = FirstRun
    OBVIOUS
  <2>3. /\ r \in runs /\ Long(r) /\ runs' = runs \ {r}
        /\ pc = "runs" /\ pc' = pc /\ h' = h
    BY <1>3, <2>2, RunStep DEF AppendBlob, NewBlob
  <2>4. QED
    BY <2>1, <2>2, <2>3, GainRunKeepsCells DEF BlobInv, Gains
<1>4. CASE CullBlobs
  <2>1. pc' # "runs"
    BY <1>4 DEF CullBlobs
  <2>2. blobs' = [s \in Slots |-> IF s \in Culled THEN Free ELSE blobs[s]]
    BY <1>4 DEF CullBlobs
  <2>3. PICK E : E = Culled
    OBVIOUS
  <2>4. blobs' = [s \in Slots |-> IF s \in E THEN Free ELSE blobs[s]]
    BY <2>2, <2>3
  <2>5. QED
    BY <2>1, <2>4, EmptiedKeepCells DEF BlobInv
<1>5. CASE Combine
  BY <1>5, CombineKeepsCells DEF BlobInv
<1>6. CASE NextImage
  <2>1. pc' # "runs" /\ blobs' = [s \in Slots |-> Free]
    BY <1>6 DEF NextImage
  <2>2. blobs' = [s \in Slots |-> IF s \in Slots THEN Free ELSE blobs[s]]
    BY <2>1
  <2>3. QED
    BY <2>1, <2>2, EmptiedKeepCells DEF BlobInv
<1>7. QED
  BY <1>1, <1>2, <1>3, <1>4, <1>5, <1>6 DEF Next

(* The slots in use can be counted.                                        *)
LEMMA ValidCounted ==
  /\ IsFiniteSet(Valid) /\ Cardinality(Valid) \in Nat
  /\ IsFiniteSet(Culled) /\ Cardinality(Culled) \in Nat
<1>1. IsFiniteSet(Slots)
  BY ConstantsAssumed, FS_Interval DEF ConstantsTyped, Slots
<1>2. Valid \subseteq Slots /\ Culled \subseteq Slots
  BY DEF Valid, Culled
<1>3. IsFiniteSet(Valid) /\ IsFiniteSet(Culled)
  BY <1>1, <1>2, FS_Subset
<1>4. QED
  BY <1>3, FS_CardinalityType

(* Every step leaves num_blobs the number of slots in use.                 *)
LEMMA CountKept ==
  ASSUME BlobInv, [Next]_vars
  PROVE  CountInv'
<1>0. num_blobs \in 0 .. NumBlobsMax /\ NumBlobsMax \in Nat
  BY ConstantsAssumed DEF BlobInv, CountInv, ConstantsTyped
<1>1. CASE ReadRow \/ IgnoreRun \/ NoRoom \/ RowsDone \/ ChooseLargest
           \/ NextColor \/ Draw \/ NoDetectImage \/ Report \/ UNCHANGED vars
  <2>1. /\ blobs' = blobs /\ num_blobs' = num_blobs
        /\ pc' \in {"row", "runs"} => pc \in {"row", "runs"}
    BY <1>1, SameBlobsStep
  <2>2. QED
    BY <2>1 DEF BlobInv, CountInv, BlobsCounted, Valid
<1>2. CASE AppendBlob
  <2>1. PICK s \in Slots, a \in Blob : blobs[s].valid /\ Gains(s, a)
    BY <1>2, AppendGains
  <2>2. pc = "runs" /\ num_blobs' = num_blobs
    BY <1>2, RunStep DEF AppendBlob
  <2>3. Valid' = Valid
    BY <2>1 DEF Gains, Valid, BlobInv, SlotInv
  <2>4. QED
    BY <2>2, <2>3 DEF BlobInv, CountInv, BlobsCounted
<1>3. CASE NewBlob
  <2>1. PICK s \in Slots, a \in Blob : ~blobs[s].valid /\ Gains(s, a)
    BY <1>3, NewBlobGains
  <2>2. /\ pc = "runs" /\ num_blobs' = num_blobs + 1
        /\ num_blobs < NumBlobsMax
    BY <1>3, RunStep DEF NewBlob
  <2>3. s \notin Valid /\ Valid' = Valid \cup {s}
    BY <2>1 DEF Gains, Valid, BlobInv, SlotInv
  <2>4. Cardinality(Valid \cup {s}) = Cardinality(Valid) + 1
    BY <2>3, ValidCounted, FS_AddElement
  <2>5. num_blobs = Cardinality(Valid)
    BY <2>2 DEF BlobInv, CountInv, BlobsCounted
  <2>6. QED
    BY <1>0, <2>2, <2>3, <2>4, <2>5 DEF CountInv, BlobsCounted
<1>4. CASE CullBlobs
  <2>1. /\ pc = "runs" /\ num_blobs' = num_blobs - Cardinality(Culled)
        /\ blobs' = [s \in Slots |-> IF s \in Culled THEN Free ELSE blobs[s]]
    BY <1>4 DEF CullBlobs
  <2>2. Culled \subseteq Valid
    BY DEF Culled, Valid
  <2>3. Valid' = Valid \ Culled
    BY <2>1, BlobTyped DEF Valid
  <2>4. Valid \cap Culled = Culled
    BY <2>2
  <2>5. /\ Cardinality(Valid \ Culled)
             = Cardinality(Valid) - Cardinality(Valid \cap Culled)
        /\ IsFiniteSet(Valid \ Culled)
    BY ValidCounted, FS_Difference
  <2>6. num_blobs = Cardinality(Valid)
    BY <2>1 DEF BlobInv, CountInv, BlobsCounted
  <2>7. num_blobs' = Cardinality(Valid \ Culled)
    BY <2>1, <2>4, <2>5, <2>6
  <2>8. num_blobs' \in Nat
    BY <2>5, <2>7, FS_CardinalityType
  <2>9. num_blobs' \in 0 .. NumBlobsMax
    BY <1>0, <2>1, <2>8, ValidCounted
  <2>10. QED
    BY <2>3, <2>7, <2>9 DEF CountInv, BlobsCounted
<1>5. CASE Combine
  BY <1>0, <1>5 DEF Combine, CountInv, BlobsCounted
<1>6. CASE NextImage
  <2>1. Valid' = {} /\ num_blobs' = 0
    BY <1>6, BlobTyped DEF NextImage, Valid
  <2>2. QED
    BY <1>0, <2>1, FS_EmptySet DEF CountInv, BlobsCounted
<1>7. QED
  BY <1>1, <1>2, <1>3, <1>4, <1>5, <1>6 DEF Next

(* Every step leaves what combine_blobs has looked at in order.            *)
LEMMA CombineKept ==
  ASSUME BlobInv, [Next]_vars
  PROVE  CombineInv'
<1>0. /\ Colors = 1 .. Len(DetectColors) /\ Len(DetectColors) \in Nat
      /\ NumBlobsMax \in Nat \ {0} /\ Slots = 1 .. NumBlobsMax
  BY ConstantsAssumed DEF ConstantsTyped, Slots
<1>1. CASE ReadRow \/ TakeRun \/ CullBlobs \/ Draw \/ NoDetectImage \/ Report
  BY <1>1 DEF ReadRow, TakeRun, CullBlobs, Draw, NoDetectImage, Report,
     combine, BlobInv, ScanInv, CombineInv
<1>2. CASE RowsDone
  BY <1>0, <1>2 DEF RowsDone, BlobInv, CombineInv
<1>3. CASE ChooseLargest
  <2>1. CASE largest' = None
    BY <1>0, <1>3, <2>1 DEF ChooseLargest, BlobInv, CombineInv
  <2>2. CASE largest' # None
    <3>1. largest' \in Slots /\ Reported(largest')
      BY <1>3, <2>2, LargestFound DEF ChooseLargest, BlobInv
    <3>2. /\ blobs' = blobs /\ color' = color /\ i' = 1 /\ pc' = "combine"
          /\ color \in Colors
      BY <1>3, <2>2 DEF ChooseLargest
    <3>3. QED
      BY <1>0, <3>1, <3>2 DEF CombineInv, Reported
  <2>3. QED
    BY <2>1, <2>2
<1>4. CASE Combine
  <2>1. /\ largest' = largest /\ color' = color /\ i' = i + 1
        /\ i \in Slots /\ color \in Colors
        /\ largest \in Slots /\ Reported(largest)
    BY <1>4 DEF Combine, BlobInv, CombineInv
  <2>2. blobs'[largest].valid /\ blobs'[largest].complete
    <3>1. CASE Subsumes(i)
      <4>1. PICK a : a = Combined(blobs[largest], blobs[i])
        OBVIOUS
      <4>2. /\ a.valid /\ a.complete /\ i # largest
            /\ blobs' = [blobs EXCEPT ![largest] = a, ![i] = Free]
        BY <1>4, <3>1, <4>1, SubsumeStep
      <4>3. QED
        BY <2>1, <4>2 DEF BlobInv, SlotInv
    <3>2. CASE ~Subsumes(i)
      BY <1>4, <2>1, <3>2 DEF Combine, Reported
    <3>3. QED
      BY <3>1, <3>2
  <2>3. QED
    BY <1>0, <2>1, <2>2 DEF CombineInv, Reported
<1>5. CASE NextColor
  <2>1. /\ pc = "combine" /\ pc' = "largest" /\ color' = color + 1
        /\ largest' = largest /\ i' = i
    BY <1>5 DEF NextColor
  <2>2. QED
    BY <1>0, <2>1 DEF BlobInv, CombineInv
<1>6. CASE NextImage
  BY <1>0, <1>6 DEF NextImage, CombineInv
<1>7. CASE UNCHANGED vars
  BY <1>7 DEF vars, BlobInv, CombineInv, Reported
<1>8. QED
  BY <1>1, <1>2, <1>3, <1>4, <1>5, <1>6, <1>7
  DEF Next, IgnoreRun, AppendBlob, NewBlob, NoRoom

(* The sides of a box are inside the image. *)
LEMMA BoxInside ==
  ASSUME NEW b \in Blob, WellFormed(b)
  PROVE  Box(b) \subseteq 0 .. Width * Height - 1
<1>1. PICK l, g, t, d : /\ l = b.x_min /\ g = b.x_max
                        /\ t = b.y_min /\ d = b.y_max
  OBVIOUS
<1>2. /\ l \in Nat /\ g \in Nat /\ t \in Nat /\ d \in Nat
      /\ l < g /\ g < Width /\ t <= d /\ d < Height
      /\ Width \in Nat /\ Height \in Nat
  BY <1>1, BlobTyped, ConstantsAssumed DEF WellFormed, ConstantsTyped
<1>3. ASSUME NEW n \in 0 .. g - l - 1
      PROVE  /\ t * Width + l + n \in 0 .. Width * Height - 1
             /\ d * Width + l + n \in 0 .. Width * Height - 1
  <2>1. l + n \in Int /\ 0 <= l + n /\ l + n < Width /\ t < Height
    BY <1>2
  <2>2. /\ t * Width + (l + n) \in 0 .. Width * Height - 1
        /\ d * Width + (l + n) \in 0 .. Width * Height - 1
    BY <1>2, <2>1, OffsetInside
  <2>3. t * Width \in Int /\ d * Width \in Int
    BY <1>2
  <2>4. PICK p, q : p = t * Width /\ q = d * Width
    OBVIOUS
  <2>5. p + (l + n) = p + l + n /\ q + (l + n) = q + l + n
    BY <1>2, <2>3, <2>4
  <2>6. QED
    BY <2>2, <2>4, <2>5
<1>4. ASSUME NEW n \in 0 .. d - t - 1
      PROVE  /\ t * Width + l + n * Width \in 0 .. Width * Height - 1
             /\ t * Width + l + n * Width + (g - l) \in 0 .. Width * Height - 1
  <2>1. t + n \in Int /\ 0 <= t + n /\ t + n < Height /\ l < Width
    BY <1>2
  <2>2. /\ (t + n) * Width + l \in 0 .. Width * Height - 1
        /\ (t + n) * Width + g \in 0 .. Width * Height - 1
    BY <1>2, <2>1, OffsetInside
  <2>3. (t + n) * Width = t * Width + n * Width
    BY <1>2
  <2>4. t * Width \in Int /\ n * Width \in Int
    BY <1>2
  <2>5. PICK p, q : p = t * Width /\ q = n * Width
    OBVIOUS
  <2>6. p + q + l = p + l + q /\ p + q + g = p + l + q + (g - l)
    BY <1>2, <2>4, <2>5
  <2>7. QED
    BY <2>2, <2>3, <2>5, <2>6
<1>5. SUFFICES ASSUME NEW o \in Box(b)
               PROVE  o \in 0 .. Width * Height - 1
  OBVIOUS
<1>6. \/ \E n \in 0 .. g - l - 1 : \/ o = t * Width + l + n
                                  \/ o = d * Width + l + n
      \/ \E n \in 0 .. d - t - 1 : \/ o = t * Width + l + n * Width
                                  \/ o = t * Width + l + n * Width + (g - l)
  BY <1>1, <1>5 DEF Box
<1>7. QED
  BY <1>3, <1>4, <1>6, Zenon

(* Every step leaves the report and the drawn offsets in bounds.           *)
LEMMA OutputKept ==
  ASSUME BlobInv, [Next]_vars
  PROVE  OutputInv'
<1>1. CASE Draw
  <2>1. /\ report' = report
        /\ painted' = UNION {Box(blobs[s]) : s \in {t \in Slots : Reported(t)}}
    BY <1>1 DEF Draw
  <2>2. ASSUME NEW s \in Slots, Reported(s)
        PROVE  Box(blobs[s]) \subseteq 0 .. Width * Height - 1
    <3>1. blobs[s] \in Blob /\ WellFormed(blobs[s])
      BY <2>2 DEF Reported, BlobInv, SlotInv
    <3>2. QED
      BY <3>1, BoxInside
  <2>3. painted' \subseteq 0 .. Width * Height - 1
    BY <2>1, <2>2
  <2>4. QED
    BY <2>1, <2>3 DEF BlobInv, OutputInv, PaintsInsideImage
<1>2. CASE Report
  <2>1. painted' = painted /\ Len(report') <= 1
    BY <1>2 DEF Report
  <2>2. QED
    BY <2>1 DEF BlobInv, OutputInv, PaintsInsideImage
<1>3. CASE NextImage
  BY <1>3 DEF NextImage, OutputInv, PaintsInsideImage
<1>4. CASE ReadRow \/ TakeRun \/ CullBlobs \/ RowsDone \/ ChooseLargest
           \/ Combine \/ NextColor \/ NoDetectImage \/ UNCHANGED vars
  <2>1. painted' = painted /\ report' = report
    BY <1>4 DEF ReadRow, TakeRun, CullBlobs, RowsDone, ChooseLargest, Combine,
       NextColor, NoDetectImage, vars, output
  <2>2. QED
    BY <2>1 DEF BlobInv, OutputInv, PaintsInsideImage
<1>5. QED
  BY <1>1, <1>2, <1>3, <1>4 DEF Next, IgnoreRun, AppendBlob, NewBlob, NoRoom

------------------------------------------------------------------------------
(* The invariant holds at first, with no blob and no cell.                 *)
LEMMA BlobInvInitially ==
  ASSUME Init
  PROVE  BlobInv
<1>1. \A s \in Slots : blobs[s] = Free
  BY DEF Init
<1>2. SlotInv /\ Valid = {}
  BY <1>1, BlobTyped DEF Init, SlotInv, Valid
<1>3. PICK c : c = [s \in Slots |-> {}]
  OBVIOUS
<1>4. IsFiniteSet({}) /\ Cardinality({}) = 0
  BY FS_EmptySet
<1>5. CountedFrom(c)
  BY <1>1, <1>3, <1>4, BlobTyped DEF Init, CountedFrom
<1>6. CellsInv
  BY <1>5 DEF CellsInv
<1>7. ScanInv
  BY ConstantsAssumed DEF Init, ScanInv, ConstantsTyped, Apart
<1>8. CountInv
  BY <1>2, <1>4, ConstantsAssumed
  DEF Init, CountInv, BlobsCounted, ConstantsTyped
<1>9. CombineInv
  BY ConstantsAssumed DEF Init, CombineInv, ConstantsTyped
<1>10. OutputInv
  BY DEF Init, OutputInv, PaintsInsideImage
<1>11. QED
  BY <1>2, <1>6, <1>7, <1>8, <1>9, <1>10 DEF BlobInv

(* A step keeps every part of the invariant.                               *)
LEMMA BlobInvStep ==
  ASSUME BlobInv, [Next]_vars
  PROVE  BlobInv'
<1>1. ScanInv' /\ SlotInv' /\ CountInv' /\ CombineInv'
  BY ScanKept, SlotsKept, CountKept, CombineKept
<1>2. OutputInv' /\ CellsInv'
  BY OutputKept, CellsKept
<1>3. QED
  BY <1>1, <1>2 DEF BlobInv

(* The invariant holds in every reachable state.                           *)
LEMMA BlobInvHolds == Spec => []BlobInv
<1>1. Init => BlobInv
  BY BlobInvInitially
<1>2. BlobInv /\ [Next]_vars => BlobInv'
  BY BlobInvStep
<1>3. QED
  BY <1>1, <1>2, PTL DEF Spec

(* Every variable has its type: slots hold blobs of the image, runs are    *)
(* runs of a row, counters stay within their bounds (color_detect.c).      *)
THEOREM BlobTypeCorrect == Spec => []TypeOK
<1>1. ASSUME BlobInv PROVE TypeOK
  <2>1. /\ Blob = [valid : BOOLEAN, complete : BOOLEAN,
                   color : Colors \cup {Free.color}, pixels : Nat,
                   x_min : Columns, x_max : Columns,
                   y_min : Rows, y_max : Rows]
        /\ Run = [min : Columns, max : Columns, color : Colors]
    BY DEF Blob, Run
  <2>2. painted \subseteq Int /\ Len(report) <= 1
    BY <1>1 DEF BlobInv, OutputInv, PaintsInsideImage
  <2>3. QED
    BY <1>1, <2>1, <2>2
    DEF TypeOK, BlobInv, ScanInv, SlotInv, CountInv, CombineInv
<1>2. BlobInv => TypeOK
  BY <1>1
<1>3. QED
  BY <1>2, BlobInvHolds, PTL

(* The pixels a blob counts fit its box, whatever runs were appended and   *)
(* blobs combined: no pixel is counted twice (append_blob, bb_combine).    *)
THEOREM PixelsInBoxHolds == Spec => []PixelsInBox
<1>1. ASSUME BlobInv, NEW s \in Valid
      PROVE  LET b == blobs[s]
             IN  /\ b.x_min < b.x_max /\ b.y_min <= b.y_max
                 /\ b.pixels >= MinLine
                 /\ b.pixels <= (b.x_max - b.x_min) * (b.y_max - b.y_min + 1)
  <2>1. PICK c : CountedFrom(c)
    BY <1>1 DEF BlobInv, CellsInv
  <2>2. s \in Slots /\ blobs[s].valid
    BY DEF Valid
  <2>3. blobs[s] \in Blob /\ WellFormed(blobs[s])
    BY <1>1, <2>2 DEF BlobInv, SlotInv
  <2>4. /\ c[s] \subseteq BoxCells(blobs[s])
        /\ Cardinality(c[s]) = blobs[s].pixels
    BY <2>1, <2>2 DEF CountedFrom
  <2>5. /\ IsFiniteSet(BoxCells(blobs[s]))
        /\ Cardinality(BoxCells(blobs[s]))
             = (blobs[s].x_max - blobs[s].x_min)
                 * (blobs[s].y_max - blobs[s].y_min + 1)
    BY <2>3, BoxCellsCounted
  <2>6. Cardinality(c[s]) <= Cardinality(BoxCells(blobs[s]))
    BY <2>4, <2>5, FS_Subset
  <2>7. PICK n, k : /\ n = Cardinality(BoxCells(blobs[s]))
                    /\ k = (blobs[s].x_max - blobs[s].x_min)
                             * (blobs[s].y_max - blobs[s].y_min + 1)
    OBVIOUS
  <2>8. blobs[s].pixels <= k
    BY <2>4, <2>5, <2>6, <2>7
  <2>9. QED
    BY <2>3, <2>7, <2>8 DEF WellFormed
<1>2. BlobInv => PixelsInBox
  BY <1>1 DEF PixelsInBox
<1>3. QED
  BY <1>2, BlobInvHolds, PTL

(* num_blobs is the number of slots in use for as long as rows are read    *)
(* (append_blob, cull_blobs).                                              *)
THEOREM BlobsCountedHolds == Spec => []BlobsCounted
<1>1. BlobInv => BlobsCounted
  BY DEF BlobInv, CountInv
<1>2. QED
  BY <1>1, BlobInvHolds, PTL

(* draw_blob writes no offset outside the detect image.                    *)
THEOREM BlobsPaintInside == Spec => []PaintsInsideImage
<1>1. BlobInv => PaintsInsideImage
  BY DEF BlobInv, OutputInv
<1>2. QED
  BY <1>1, BlobInvHolds, PTL

(* What find_containing_blob searches, spelled out: away from the left     *)
(* edge, the reach of a blob spans its columns, and a blob at most the     *)
(* allowed miss above the row is in progress.                              *)
LEMMA RunsJoinBlobsHolds == Spec => []RunsJoinBlobs
<1>1. ASSUME BlobInv, NEW r,
             NEW s \in Valid, blobs[s].color = r.color,
             blobs[s].x_min >= ColumnMiss, h - blobs[s].y_max <= RowMiss,
             (blobs[s].x_min .. blobs[s].x_max) \cap (r.min .. r.max - 1) # {}
      PROVE  Containing(r) # None
  <2> DEFINE found == {u \in Slots :
                         /\ blobs[u].valid /\ blobs[u].color = r.color
                         /\ InProgress(blobs[u])
                         /\ Reach(blobs[u]) \cap (r.min .. r.max - 1) # {}}
  <2>1. PICK b : b = blobs[s]
    OBVIOUS
  <2>2. s \in Slots /\ b.valid /\ b \in Blob
    BY <1>1, <2>1 DEF Valid, BlobInv, SlotInv
  <2>3. /\ b.x_min \in Nat /\ b.x_max \in Nat /\ b.x_max < Width
        /\ b.y_max \in Nat /\ ColumnMiss \in Nat /\ RowMiss \in Nat
        /\ Width \in Nat /\ Height \in Nat /\ h \in Int /\ h <= Height
    BY <1>1, <2>2, BlobTyped, ConstantsAssumed
    DEF ConstantsTyped, BlobInv, ScanInv
  <2>4. InProgress(b)
    <3>1. PICK m : m = b.y_max + RowMiss
      OBVIOUS
    <3>2. m \in Int /\ m >= h
      BY <1>1, <2>1, <2>3, <3>1
    <3>3. Min({m, Height}) = IF m <= Height THEN m ELSE Height
      BY <2>3, <3>2, MinOfTwo
    <3>4. Min({m, Height}) >= h
      BY <2>3, <3>2, <3>3
    <3>5. QED
      BY <3>1, <3>4 DEF InProgress
  <2>5. (b.x_min .. b.x_max) \subseteq Reach(b)
    <3>1. PICK m : m = b.x_max + ColumnMiss
      OBVIOUS
    <3>2. m \in Int /\ m >= b.x_max
      BY <2>3, <3>1
    <3>3. Min({m, Width}) = IF m <= Width THEN m ELSE Width
      BY <2>3, <3>2, MinOfTwo
    <3>4. Min({m, Width}) \in Int /\ Min({m, Width}) >= b.x_max
      BY <2>3, <3>2, <3>3
    <3>5. Reach(b) = b.x_min - ColumnMiss .. Min({m, Width})
      BY <1>1, <2>1, <2>3, <3>1 DEF Reach
    <3>6. QED
      BY <2>3, <3>4, <3>5
  <2>6. s \in found
    BY <1>1, <2>1, <2>2, <2>4, <2>5
  <2>7. found \subseteq Nat \ {0}
    BY DEF Slots
  <2>8. Min(found) \in found
    BY <2>6, <2>7, NatMin
  <2>9. Containing(r) = Min(found)
    BY <2>6 DEF Containing
  <2>10. QED
    BY <2>7, <2>8, <2>9 DEF None
<1>2. BlobInv => RunsJoinBlobs
  BY <1>1 DEF RunsJoinBlobs
<1>3. QED
  BY <1>2, BlobInvHolds, PTL

(* combine_blobs_from_largest gives up no pixel and nothing a blob covered.*)
THEOREM CombineKeepsCoverageHolds == Spec => CombineKeepsCoverage
<1>1. ASSUME BlobInv, pc = "combine", [Next]_vars PROVE KeepsCoverage
  <2>0. PICK before, after : /\ before = [s \in Slots |-> blobs[s].pixels]
                             /\ after = [s \in Slots |-> blobs'[s].pixels]
    OBVIOUS
  <2>1. /\ blobs \in [Slots -> Blob] /\ IsFiniteSet(Slots)
        /\ \A s \in Slots : before[s] = blobs[s].pixels
        /\ \A s \in Slots : after[s] = blobs'[s].pixels
        /\ \A s \in Slots : blobs[s].pixels \in Nat
    <3>1. NumBlobsMax \in Int
      BY ConstantsAssumed DEF ConstantsTyped
    <3>2. IsFiniteSet(Slots)
      BY <3>1, FS_Interval DEF Slots
    <3>3. blobs \in [Slots -> Blob]
      BY <1>1 DEF BlobInv, SlotInv
    <3>4. \A s \in Slots : blobs[s].pixels \in Nat
      BY <3>3, BlobTyped
    <3>5. QED
      BY <2>0, <3>2, <3>3, <3>4
  <2>2. CASE blobs' = blobs
    <3>1. \A s \in Valid : blobs[s] \in Blob /\ s \in Slots /\ blobs[s].valid
      BY <2>1 DEF Valid
    <3>2. \A b \in Blob : b.x_min <= b.x_min /\ b.x_max <= b.x_max
                         /\ b.y_min <= b.y_min /\ b.y_max <= b.y_max
      BY BlobTyped
    <3>3. QED
      BY <2>2, <3>1, <3>2 DEF KeepsCoverage, Covers
  <2>3. CASE Combine /\ Subsumes(i)
    <3>1. PICK b, f, a : /\ b = blobs[largest] /\ f = blobs[i]
                         /\ a = Combined(b, f)
      OBVIOUS
    <3>2. /\ largest \in Slots /\ i \in Slots /\ i # largest
          /\ blobs' = [blobs EXCEPT ![largest] = a, ![i] = Free]
      BY <1>1, <2>3, <3>1, SubsumeStep
    <3>3. /\ b \in Blob /\ f \in Blob /\ b.valid /\ WellFormed(b)
          /\ WellFormed(f) /\ b.color = f.color
      BY <1>1, <2>3, <3>1, <3>2
      DEF BlobInv, SlotInv, CombineInv, Reported, Subsumes, Overlap
    <3>4. /\ a \in Blob /\ a.valid
          /\ a.x_min <= b.x_min /\ a.x_min <= f.x_min
          /\ a.x_max >= b.x_max /\ a.x_max >= f.x_max
          /\ a.y_min <= b.y_min /\ a.y_min <= f.y_min
          /\ a.y_max >= b.y_max /\ a.y_max >= f.y_max
          /\ a.pixels = b.pixels + f.pixels
      BY <3>1, <3>3, CombinedBlob
    <3>5. a.color = b.color
      BY <3>1, <3>3 DEF Combined, Blob
    <3>6. /\ blobs'[largest] = a /\ blobs'[i] = Free
          /\ \A s \in Slots : s # largest /\ s # i => blobs'[s] = blobs[s]
      BY <2>1, <3>2
    <3>7. Free.pixels = 0
      BY DEF Free
    <3>8. /\ \A s \in Slots : after[s] \in Nat
          /\ after[largest] + after[i] = before[largest] + before[i]
          /\ \A s \in Slots : s # largest /\ s # i => after[s] = before[s]
      <4>1. /\ after[largest] = b.pixels + f.pixels /\ after[i] = 0
            /\ before[largest] = b.pixels /\ before[i] = f.pixels
            /\ b.pixels \in Nat /\ f.pixels \in Nat
        BY <2>1, <3>1, <3>2, <3>4, <3>6, <3>7
      <4>2. \A s \in Slots : s # largest /\ s # i => after[s] = before[s]
        BY <2>1, <3>6
      <4>3. PICK p, q : p = b.pixels /\ q = f.pixels
        OBVIOUS
      <4>4. p + q \in Nat /\ p + q + 0 = p + q
        BY <4>1, <4>3
      <4>5. QED
        BY <2>1, <4>1, <4>2, <4>3, <4>4
    <3>9. /\ \A s \in Slots : before[s] \in Nat
          /\ DOMAIN before = Slots /\ DOMAIN after = Slots
      BY <2>0, <2>1
    <3>10. SumFunctionOnSet(after, Slots) = SumFunctionOnSet(before, Slots)
      <4>1. PICK x, y : x = largest /\ y = i
        OBVIOUS
      <4>2. /\ x \in Slots /\ y \in Slots /\ x # y
            /\ after[x] + after[y] = before[x] + before[y]
            /\ \A s \in Slots : s # x /\ s # y => after[s] = before[s]
        BY <3>2, <3>8, <4>1
      <4>3. /\ \A s \in Slots : before[s] \in Nat
            /\ \A s \in Slots : after[s] \in Nat
            /\ IsFiniteSet(Slots)
        BY <2>1, <3>8, <3>9
      <4>4. QED
        BY <4>2, <4>3, SumMoved
    <3>11. SumFunction(after) = SumFunction(before)
      BY <3>9, <3>10 DEF SumFunction
    <3>12. ASSUME NEW s \in Valid
           PROVE  \E t \in Slots : Covers(blobs'[t], blobs[s])
      <4>1. s \in Slots /\ blobs[s].valid /\ blobs[s] \in Blob
        BY <2>1 DEF Valid
      <4>2. CASE s \in {largest, i}
        <5>1. /\ a.valid /\ a.color = blobs[s].color
              /\ a.x_min <= blobs[s].x_min /\ blobs[s].x_max <= a.x_max
              /\ a.y_min <= blobs[s].y_min /\ blobs[s].y_max <= a.y_max
          <6>1. /\ a.x_max \in Nat /\ a.y_max \in Nat
                /\ b.x_max \in Nat /\ b.y_max \in Nat
                /\ f.x_max \in Nat /\ f.y_max \in Nat
            BY <3>3, <3>4, BlobTyped
          <6>2. QED
            BY <3>1, <3>3, <3>4, <3>5, <4>2, <6>1
        <5>2. QED
          BY <3>2, <3>6, <5>1 DEF Covers
      <4>3. CASE s \notin {largest, i}
        <5>1. blobs'[s] = blobs[s]
          BY <3>6, <4>1, <4>3
        <5>2. /\ blobs[s].x_min \in Nat /\ blobs[s].x_max \in Nat
              /\ blobs[s].y_min \in Nat /\ blobs[s].y_max \in Nat
          BY <4>1, BlobTyped
        <5>3. QED
          BY <4>1, <5>1, <5>2 DEF Covers
      <4>4. QED
        BY <4>2, <4>3
    <3>13. QED
      BY <2>0, <3>11, <3>12 DEF KeepsCoverage
  <2>4. \/ blobs' = blobs
        \/ Combine /\ Subsumes(i)
    BY <1>1 DEF Next, vars, ReadRow, IgnoreRun, AppendBlob, NewBlob, NoRoom,
       TakeRun, CullBlobs, RowsDone, ChooseLargest, Combine, NextColor, Draw,
       NoDetectImage, Report, NextImage
  <2>5. QED
    BY <2>2, <2>3, <2>4
<1>2. BlobInv /\ [Next]_vars => [pc = "combine" => KeepsCoverage]_vars
  BY <1>1
<1>3. QED
  BY <1>2, BlobInvHolds, PTL DEF Spec, CombineKeepsCoverage

------------------------------------------------------------------------------
(* A box around another is as wide, as high and as large.                  *)
LEMMA AreaGrows ==
  ASSUME NEW a \in Nat, NEW b \in Nat, NEW c \in Nat, NEW d \in Nat,
         a <= c, b <= d
  PROVE  a * b <= c * d
<1>1. c * b = a * b + (c - a) * b /\ c * d = c * b + c * (d - b)
  OBVIOUS
<1>2. c - a \in Nat /\ d - b \in Nat
  OBVIOUS
<1>3. (c - a) * b \in Nat /\ c * (d - b) \in Nat /\ a * b \in Nat
  BY <1>2
<1>4. PICK p, q, r : p = a * b /\ q = (c - a) * b /\ r = c * (d - b)
  OBVIOUS
<1>5. QED
  BY <1>1, <1>3, <1>4

(* A complete blob around a large one, with at least its pixels, is large. *)
LEMMA LargeGrows ==
  ASSUME NEW b \in Blob, NEW c \in Blob, WellFormed(b), LargeEnough(b),
         Covers(c, b), c.complete, c.pixels >= b.pixels
  PROVE  LargeEnough(c)
<1>1. PICK l, g, t, d : /\ l = b.x_min /\ g = b.x_max
                        /\ t = b.y_min /\ d = b.y_max
  OBVIOUS
<1>2. PICK cl, cg, ct, cd : /\ cl = c.x_min /\ cg = c.x_max
                            /\ ct = c.y_min /\ cd = c.y_max
  OBVIOUS
<1>3. /\ l \in Nat /\ g \in Nat /\ t \in Nat /\ d \in Nat
      /\ cl \in Nat /\ cg \in Nat /\ ct \in Nat /\ cd \in Nat
      /\ l < g /\ t <= d /\ cl <= l /\ g <= cg /\ ct <= t /\ d <= cd
  BY <1>1, <1>2, BlobTyped DEF WellFormed, Covers
<1>4. /\ g - l \in Nat /\ d - t \in Nat /\ cg - cl \in Nat /\ cd - ct \in Nat
      /\ g - l <= cg - cl /\ d - t <= cd - ct
  BY <1>3
<1>5. (g - l) * (d - t) <= (cg - cl) * (cd - ct)
  BY <1>4, AreaGrows
<1>6. PICK m, n : m = (g - l) * (d - t) /\ n = (cg - cl) * (cd - ct)
  OBVIOUS
<1>7. m \in Int /\ n \in Int /\ m <= n /\ MinArea \in Int /\ m > MinArea
  BY <1>1, <1>3, <1>5, <1>6, ConstantsAssumed
  DEF LargeEnough, ConstantsTyped
<1>8. n > MinArea
  BY <1>7
<1>9. b.pixels \in Nat /\ c.pixels \in Nat /\ MinPixels \in Nat
      /\ b.pixels >= MinPixels
  BY BlobTyped, ConstantsAssumed DEF LargeEnough, ConstantsTyped
<1>10. c.pixels >= MinPixels
  BY <1>9
<1>11. QED
  BY <1>2, <1>6, <1>8, <1>10 DEF LargeEnough

(* append_blob leaves a complete blob around the one that took the run.    *)
LEMMA AppendCovers ==
  ASSUME BlobInv, AppendBlob
  PROVE  \E s \in Slots : \E a \in Blob :
           /\ blobs' = [blobs EXCEPT ![s] = a] /\ blobs[s].valid
           /\ Covers(a, blobs[s]) /\ a.complete
           /\ a.pixels >= blobs[s].pixels
<1>1. PICK r : r = FirstRun
  OBVIOUS
<1>2. /\ r \in Run /\ h \in Rows /\ pc = "runs" /\ Long(r)
      /\ Containing(r) # None
      /\ blobs' = [blobs EXCEPT ![Containing(r)] = Appended(@, r)]
  BY <1>1, RunStep DEF AppendBlob
<1>3. PICK s : s = Containing(r)
  OBVIOUS
<1>4. s \in Slots /\ blobs[s].valid
  BY <1>2, <1>3, ContainingFound
<1>5. PICK b, a : b = blobs[s] /\ a = Appended(b, r)
  OBVIOUS
<1>6. b \in Blob /\ WellFormed(b) /\ b.y_max <= h
  BY <1>2, <1>4, <1>5 DEF BlobInv, SlotInv, Valid
<1>7. /\ a \in Blob /\ a.valid /\ a.y_max = h /\ a.y_min = b.y_min
      /\ a.x_min <= b.x_min /\ a.x_max >= b.x_max
      /\ a.pixels = b.pixels + (r.max - r.min)
  BY <1>2, <1>4, <1>5, <1>6, AppendedBlob
<1>8. a.complete /\ a.color = b.color
  BY <1>5, <1>6 DEF Appended, Blob
<1>9. /\ b.pixels \in Nat /\ r.max \in Nat /\ r.min \in Nat
      /\ r.max - r.min >= MinLine /\ MinLine \in Nat
      /\ b.y_min \in Nat /\ a.x_max \in Nat /\ b.x_max \in Nat
  BY <1>2, <1>6, <1>7, BlobTyped, ConstantsAssumed DEF Long, ConstantsTyped
<1>10. a.pixels >= b.pixels
  <2>1. PICK p, q, n, m : p = b.pixels /\ q = a.pixels /\ n = r.max /\ m = r.min
    OBVIOUS
  <2>2. QED
    BY <1>7, <1>9, <2>1
<1>11. Covers(a, b)
  BY <1>4, <1>5, <1>6, <1>7, <1>8, <1>9 DEF Covers
<1>12. blobs' = [blobs EXCEPT ![s] = a]
  BY <1>2, <1>3, <1>4, <1>5 DEF BlobInv, SlotInv
<1>13. QED
  BY <1>4, <1>5, <1>7, <1>8, <1>10, <1>11, <1>12

(* A blob covers itself.                                                   *)
LEMMA CoversItself == \A b \in Blob : b.valid => Covers(b, b)
  BY BlobTyped DEF Covers

(* A blob once complete and large enough is covered by such a blob in      *)
(* every later row and through combine_blobs_from_largest, and the report  *)
(* has a record of it (append_blob, cull_blobs, get_blob_data_string).     *)
THEOREM LargeBlobsReportedHolds == Spec => LargeBlobsReported
<1>1. ASSUME BlobInv, Next, pc # "done" PROVE KeepsLarge
  <2>1. SUFFICES ASSUME NEW s \in Slots, blobs[s].valid,
                        LargeEnough(blobs[s])
                 PROVE  \E t \in Slots : /\ Covers(blobs'[t], blobs[s])
                                         /\ LargeEnough(blobs'[t])
    BY DEF KeepsLarge, Valid
  <2>2. blobs[s] \in Blob /\ WellFormed(blobs[s]) /\ blobs \in [Slots -> Blob]
    BY <1>1, <2>1 DEF BlobInv, SlotInv
  <2>3. CASE blobs'[s] = blobs[s]
    BY <2>1, <2>2, <2>3, CoversItself
  <2>4. CASE ReadRow \/ IgnoreRun \/ NoRoom \/ RowsDone \/ ChooseLargest
             \/ NextColor \/ Draw \/ NoDetectImage \/ Report
    BY <1>1, <2>3, <2>4, SameBlobsStep
  <2>5. CASE AppendBlob
    <3>1. PICK u \in Slots, a \in Blob :
            /\ blobs' = [blobs EXCEPT ![u] = a] /\ blobs[u].valid
            /\ Covers(a, blobs[u]) /\ a.complete
            /\ a.pixels >= blobs[u].pixels
      BY <1>1, <2>5, AppendCovers
    <3>2. CASE u = s
      <4>1. blobs'[s] = a /\ LargeEnough(a)
        BY <2>1, <2>2, <3>1, <3>2, LargeGrows
      <4>2. QED
        BY <2>1, <3>1, <3>2, <4>1
    <3>3. CASE u # s
      BY <2>1, <2>2, <2>3, <3>1, <3>3
    <3>4. QED
      BY <3>2, <3>3
  <2>6. CASE NewBlob
    <3>1. PICK u \in Slots, a \in Blob : ~blobs[u].valid /\ Gains(u, a)
      BY <1>1, <2>6, NewBlobGains
    <3>2. u # s /\ blobs' = [blobs EXCEPT ![u] = a]
      BY <2>1, <3>1 DEF Gains
    <3>3. QED
      BY <2>2, <2>3, <3>2
  <2>7. CASE CullBlobs
    <3>1. s \notin Culled
      BY <2>1 DEF Culled
    <3>2. QED
      BY <2>1, <2>3, <2>7, <3>1 DEF CullBlobs
  <2>8. CASE Combine
    <3>1. CASE ~Subsumes(i)
      BY <2>3, <2>8, <3>1 DEF Combine
    <3>2. CASE Subsumes(i)
      <4>1. PICK b, f, a : /\ b = blobs[largest] /\ f = blobs[i]
                           /\ a = Combined(b, f)
        OBVIOUS
      <4>2. /\ largest \in Slots /\ i \in Slots /\ i # largest /\ a.complete
            /\ blobs' = [blobs EXCEPT ![largest] = a, ![i] = Free]
        BY <1>1, <2>8, <3>2, <4>1, SubsumeStep
      <4>3. /\ b \in Blob /\ f \in Blob /\ b.valid /\ WellFormed(b)
            /\ WellFormed(f) /\ b.color = f.color
        BY <1>1, <2>8, <3>2, <4>1, <4>2
        DEF BlobInv, SlotInv, CombineInv, Reported, Subsumes, Overlap, Combine
      <4>4. /\ a \in Blob /\ a.valid
            /\ a.x_min <= b.x_min /\ a.x_min <= f.x_min
            /\ a.x_max >= b.x_max /\ a.x_max >= f.x_max
            /\ a.y_min <= b.y_min /\ a.y_min <= f.y_min
            /\ a.y_max >= b.y_max /\ a.y_max >= f.y_max
            /\ a.pixels = b.pixels + f.pixels
        BY <4>1, <4>3, CombinedBlob
      <4>5. a.color = b.color
        BY <4>1, <4>3 DEF Combined, Blob
      <4>6. /\ a.x_max \in Nat /\ a.y_max \in Nat /\ b.pixels \in Nat
            /\ b.x_max \in Nat /\ b.y_max \in Nat /\ f.pixels \in Nat
            /\ f.x_max \in Nat /\ f.y_max \in Nat
        BY <4>3, <4>4, BlobTyped
      <4>7. Covers(a, b) /\ Covers(a, f)
        BY <4>3, <4>4, <4>5, <4>6 DEF Covers
      <4>8. a.pixels >= b.pixels /\ a.pixels >= f.pixels
        <5>1. PICK p, q : p = b.pixels /\ q = f.pixels
          OBVIOUS
        <5>2. QED
          BY <4>4, <4>6, <5>1
      <4>9. blobs'[largest] = a
        BY <2>2, <4>2
      <4>10. CASE s \in {largest, i}
        <5>1. Covers(a, blobs[s]) /\ a.pixels >= blobs[s].pixels
          BY <4>1, <4>7, <4>8, <4>10
        <5>2. LargeEnough(a)
          BY <2>1, <2>2, <4>2, <4>4, <5>1, LargeGrows
        <5>3. QED
          BY <4>2, <4>9, <5>1, <5>2
      <4>11. CASE s \notin {largest, i}
        BY <2>1, <2>2, <2>3, <4>2, <4>11
      <4>12. QED
        BY <4>10, <4>11
    <3>3. QED
      BY <3>1, <3>2
  <2>9. QED
    BY <1>1, <2>4, <2>5, <2>6, <2>7, <2>8 DEF Next, NextImage
<1>2. ASSUME BlobInv, Next, pc = "report" PROVE ReportsLarge
  <2>1. Report
    BY <1>2 DEF Next, ReadRow, IgnoreRun, AppendBlob, NewBlob, NoRoom,
       TakeRun, CullBlobs, RowsDone, ChooseLargest, Combine, NextColor, Draw,
       NoDetectImage, NextImage
  <2>2. PICK large, complete, records :
          /\ large = {s \in Valid : LargeEnough(blobs[s])}
          /\ complete = {s \in Slots : Reported(s)}
          /\ records = {s \in complete : blobs[s].pixels # 0}
    OBVIOUS
  <2>3. \A s \in complete : blobs[s].pixels # 0
    <3>1. ASSUME NEW s \in complete PROVE blobs[s].pixels # 0
      <4>1. /\ blobs[s] \in Blob /\ blobs[s].pixels >= MinLine
            /\ MinLine \in Nat \ {0}
        BY <1>2, <2>2, <3>1, ConstantsAssumed
        DEF Reported, BlobInv, SlotInv, WellFormed, ConstantsTyped
      <4>2. blobs[s].pixels \in Nat
        BY <4>1, BlobTyped
      <4>3. QED
        BY <4>1, <4>2
    <3>2. QED
      BY <3>1
  <2>4. records = complete
    BY <2>2, <2>3
  <2>5. large \subseteq complete
    BY <2>2 DEF Valid, LargeEnough, Reported
  <2>6. complete # {} =>
          report' = <<[announced |-> Cardinality(complete),
                       records |-> records]>>
    BY <2>1, <2>2 DEF Report
  <2>7. ASSUME large # {}
        PROVE  /\ large \subseteq report'[1].records
               /\ report'[1].announced = Cardinality(report'[1].records)
    <3>1. PICK n : n = Cardinality(complete)
      OBVIOUS
    <3>2. report' = <<[announced |-> n, records |-> records]>>
      BY <2>5, <2>6, <2>7, <3>1
    <3>3. report'[1].announced = n /\ report'[1].records = records
      BY <3>2
    <3>4. QED
      BY <2>4, <2>5, <3>1, <3>3
  <2>8. QED
    BY <2>2, <2>7, Zenon DEF ReportsLarge
<1>3. BlobInv /\ [Next]_vars => [/\ pc # "done" => KeepsLarge
                                 /\ pc = "report" => ReportsLarge]_vars
  BY <1>1, <1>2
<1>4. QED
  BY <1>3, BlobInvHolds, PTL DEF Spec, LargeBlobsReported
==============================================================================
