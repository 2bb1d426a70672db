----------------------------- MODULE BlobDetect -----------------------------
(***************************************************************************)
(* color_detect.c: one image is turned into the colours that are looked    *)
(* for, its horizontal runs of one colour are gathered into blobs row by   *)
(* row, blobs that stay small are culled, and at the end the largest blob  *)
(* of each colour takes in the ones it overlaps.  What is left is drawn    *)
(* and reported.                                                           *)
(*                                                                         *)
(* A pixel is its three channels.  Slots are numbered from 1; 0 stands for *)
(* the code's index -1.  The limits are parameters.                        *)
(***************************************************************************)
EXTENDS Integers, Sequences, FiniteSets, FiniteSetsExt

CONSTANTS
  Width, Height,          \* the size of the image
  PixelRows,              \* the rows of pixels an image may have
  DetectColors,           \* detect_colors: a sequence of pixels
  Tolerance,              \* detect_params_t.tolerance, in percent
  NumBlobsMax,            \* COLOR_DETECT_NUM_BLOBS_MAX
  MinLine,                \* MIN_HORIZ_PIXELS_FOR_FEATURE_LINE
  MinPixels,              \* MIN_BLOB_PIXELS
  MinArea,                \* min_blob_pixels of blob_area_over_threshold
  RowMiss, ColumnMiss     \* 5 percent of the height and of the width

Columns == 0 .. Width - 1
Rows == 0 .. Height - 1
Channels == [red : 0 .. 255, green : 0 .. 255, blue : 0 .. 255]
Colors == DOMAIN DetectColors
Slots == 1 .. NumBlobsMax
None == 0

ASSUME SizeAssumption == Width \in Nat \ {0} /\ Height \in Nat \ {0}
ASSUME InputAssumption ==
  /\ PixelRows # {} /\ PixelRows \subseteq [Columns -> Channels]
  /\ DetectColors \in Seq(Channels) /\ Tolerance \in 0 .. 100
ASSUME LimitsAssumption ==
  /\ NumBlobsMax \in Nat \ {0} /\ MinLine \in Nat \ {0}
  /\ {MinPixels, MinArea, RowMiss, ColumnMiss} \subseteq Nat

VARIABLES
  pc,          \* the call rgb_color_detection is in
  h,           \* the row detect_blobs is at
  runs,        \* the runs of colour of that row still to be handled
  blobs,       \* detections.blobs
  num_blobs,   \* detections.num_blobs
  color,       \* the colour combine_blobs_from_largest is at
  largest,     \* its largest blob
  i,           \* the slot it compares with the largest
  painted,     \* the offsets of the detect image written by draw_blobs
  report       \* get_blob_data_string: the number announced, the records

vars == <<pc, h, runs, blobs, num_blobs, color, largest, i, painted, report>>
scan == <<h, runs>>
combine == <<color, largest, i>>
output == <<painted, report>>

Free == [valid |-> FALSE, complete |-> FALSE, color |-> 1, pixels |-> 0,
         x_min |-> 0, x_max |-> 0, y_min |-> 0, y_max |-> 0]

Init ==
  /\ pc = "row" /\ h = 0 /\ runs = {}
  /\ blobs = [s \in Slots |-> Free] /\ num_blobs = 0
  /\ color = 1 /\ largest = None /\ i = 1
  /\ painted = {} /\ report = <<>>

-----------------------------------------------------------------------------
(* rgb_match: the ratios of the channels are within the tolerance of those *)
(* of the detect colour; calcNorms makes an absent channel 0.001.          *)
Level(v) == IF v = 0 THEN 1 ELSE 1000 * v

Near(n, d, refn, refd) ==
  LET exact == Level(refn) * Level(d)
  IN  /\ 100 * Level(n) * Level(refd) > (100 - Tolerance) * exact
      /\ 100 * Level(n) * Level(refd) < (100 + Tolerance) * exact

Match(c, p) ==
  /\ Near(p.green, p.red, c.green, c.red)
  /\ Near(p.green, p.blue, c.green, c.blue)
  /\ Near(p.red, p.blue, c.red, c.blue)

(* The first detect colour a pixel matches is its colour in the detect     *)
(* image.                                                                  *)
DetectColor(p) ==
  LET cs == {c \in Colors : Match(DetectColors[c], p)}
  IN  IF cs = {} THEN None ELSE Min(cs)

(* The runs of one colour that detect_blobs finds in a row; max is the     *)
(* last column of the run itself.                                          *)
Runs(row) ==
  LET At(x) == IF x \in Columns THEN DetectColor(row[x]) ELSE None
      ends == {x \in Columns : At(x) # None /\ At(x) # At(x + 1)}
      Start(e) == Min({x \in 0 .. e : \A y \in x .. e : At(y) = At(e)})
  IN  {[min |-> Start(e), max |-> e, color |-> At(e)] : e \in ends}

ReadRow ==
  /\ pc = "row" /\ h < Height
  /\ \E row \in PixelRows : runs' = Runs(row)
  /\ pc' = "runs"
  /\ UNCHANGED <<h, blobs, num_blobs, combine, output>>

-----------------------------------------------------------------------------
(* find_containing_blob.  The left end of the box, bb_x_min less the       *)
(* allowed miss, is computed without a sign: it never is below 0, and for  *)
(* a blob nearer to the left edge than the miss it is beyond every column. *)
(* Mutant: the rows are counted from the top of the box.                   *)
InProgressFromTop(b) == Min({b.y_min + RowMiss, Height}) >= h

InProgress(b) == Min({b.y_max + RowMiss, Height}) >= h

Reach(b) ==
  IF b.x_min < ColumnMiss THEN {}
  ELSE b.x_min - ColumnMiss .. Min({b.x_max + ColumnMiss, Width})

Containing(r) ==
  LET found == {s \in Slots :
                  /\ blobs[s].valid /\ blobs[s].color = r.color
                  /\ InProgress(blobs[s])
                  /\ Reach(blobs[s]) \cap (r.min .. r.max - 1) # {}}
  IN  IF found = {} THEN None ELSE Min(found)

Long(r) == r.max - r.min >= MinLine

(* append_blob: a second run makes a blob complete, even one in the row it *)
(* was started in.                                                         *)
(* Mutant: the bottom of the box is the row after the run.                 *)
AppendedBelow(b, r) ==
  [b EXCEPT !.y_max = h + 1, !.x_min = Min({@, r.min}),
            !.x_max = Max({@, r.max}), !.pixels = @ + r.max - r.min,
            !.complete = TRUE]

(* Mutant: the right end of the box stays where it was.                    *)
AppendedLeft(b, r) ==
  [b EXCEPT !.y_max = h, !.x_min = Min({@, r.min}),
            !.pixels = @ + r.max - r.min, !.complete = TRUE]

Appended(b, r) ==
  [b EXCEPT !.y_max = h, !.x_min = Min({@, r.min}), !.x_max = Max({@, r.max}),
            !.pixels = @ + r.max - r.min, !.complete = TRUE]

Started(r) ==
  [valid |-> TRUE, complete |-> FALSE, color |-> r.color,
   pixels |-> r.max - r.min,
   x_min |-> r.min, x_max |-> r.max, y_min |-> h, y_max |-> h]

FreeSlots == {s \in Slots : ~blobs[s].valid}

(* The loop over the columns comes to the end of the leftmost run first.   *)
FirstRun == CHOOSE r \in runs : \A q \in runs : r.max <= q.max

TakeRun ==
  /\ pc = "runs" /\ runs # {}
  /\ runs' = runs \ {FirstRun}
  /\ UNCHANGED <<pc, h, combine, output>>

IgnoreRun ==
  /\ TakeRun /\ ~Long(FirstRun)
  /\ UNCHANGED <<blobs, num_blobs>>

AppendBlob ==
  /\ TakeRun /\ Long(FirstRun)
  /\ LET s == Containing(FirstRun)
     IN  s # None /\ blobs' = [blobs EXCEPT ![s] = Appended(@, FirstRun)]
  /\ UNCHANGED num_blobs

NewBlob ==
  /\ TakeRun /\ Long(FirstRun) /\ Containing(FirstRun) = None
  /\ num_blobs < NumBlobsMax /\ FreeSlots # {}
  /\ blobs' = [blobs EXCEPT ![Min(FreeSlots)] = Started(FirstRun)]
  /\ num_blobs' = num_blobs + 1

NoRoom ==
  /\ TakeRun /\ Long(FirstRun) /\ Containing(FirstRun) = None
  /\ num_blobs < NumBlobsMax => FreeSlots = {}
  /\ UNCHANGED <<blobs, num_blobs>>

-----------------------------------------------------------------------------
(* cull_blobs: a blob no later row can be added to is given up, unless it  *)
(* is complete and large enough by its box and by its pixels.              *)
LastRow(b) == Min({b.y_max + RowMiss, Height})

LargeEnough(b) ==
  /\ b.complete
  /\ b.pixels >= MinPixels
  /\ (b.x_max - b.x_min) * (b.y_max - b.y_min) > MinArea

(* Mutant: the area is tested without the negation.                        *)
CulledIfOverArea ==
  {s \in Slots :
     LET b == blobs[s]
     IN  /\ b.valid /\ LastRow(b) < h
         /\ \/ (b.x_max - b.x_min) * (b.y_max - b.y_min) > MinArea
            \/ b.pixels < MinPixels \/ ~b.complete}

Culled ==
  {s \in Slots : blobs[s].valid /\ LastRow(blobs[s]) < h
                   /\ ~LargeEnough(blobs[s])}

(* Mutant: num_blobs is not decremented.                                   *)
CullBlobsUncounted ==
  /\ pc = "runs" /\ runs = {}
  /\ blobs' = [s \in Slots |-> IF s \in Culled THEN Free ELSE blobs[s]]
  /\ h' = h + 1 /\ pc' = "row"
  /\ UNCHANGED <<runs, num_blobs, combine, output>>

CullBlobs ==
  /\ pc = "runs" /\ runs = {}
  /\ blobs' = [s \in Slots |-> IF s \in Culled THEN Free ELSE blobs[s]]
  /\ num_blobs' = num_blobs - Cardinality(Culled)
  /\ h' = h + 1 /\ pc' = "row"
  /\ UNCHANGED <<runs, combine, output>>

-----------------------------------------------------------------------------
(* combine_blobs_from_largest: one pass over the slots for each colour.    *)
Reported(s) == blobs[s].valid /\ blobs[s].complete

FindLargest(c) ==
  LET cs == {s \in Slots : Reported(s) /\ blobs[s].color = c
                             /\ blobs[s].pixels > 0}
  IN  IF cs = {} THEN None
      ELSE Min({s \in cs : \A t \in cs : blobs[s].pixels >= blobs[t].pixels})

Overlap(a, b) ==
  /\ a.color = b.color
  /\ a.x_min <= b.x_max /\ b.x_min <= a.x_max
  /\ a.y_min <= b.y_max /\ b.y_min <= a.y_max

(* Mutant: the top of the box taken in is forgotten.                       *)
CombinedBelow(into, from) ==
  [into EXCEPT !.x_min = Min({@, from.x_min}), !.x_max = Max({@, from.x_max}),
               !.y_max = Max({@, from.y_max}), !.pixels = @ + from.pixels]

Combined(into, from) ==
  [into EXCEPT !.x_min = Min({@, from.x_min}), !.x_max = Max({@, from.x_max}),
               !.y_min = Min({@, from.y_min}), !.y_max = Max({@, from.y_max}),
               !.pixels = @ + from.pixels]

RowsDone ==
  /\ pc = "row" /\ h = Height
  /\ pc' = "largest" /\ color' = 1
  /\ UNCHANGED <<scan, blobs, num_blobs, largest, i, output>>

ChooseLargest ==
  /\ pc = "largest" /\ color \in Colors
  /\ largest' = FindLargest(color) /\ i' = 1
  /\ IF largest' = None THEN color' = color + 1 /\ UNCHANGED pc
     ELSE pc' = "combine" /\ UNCHANGED color
  /\ UNCHANGED <<scan, blobs, num_blobs, output>>

Subsumes(s) ==
  s # largest /\ Reported(s) /\ Overlap(blobs[largest], blobs[s])

(* bb_combine empties the slot, and leaves num_blobs as it is.             *)
Combine ==
  /\ pc = "combine" /\ i \in Slots
  /\ blobs' = IF Subsumes(i)
              THEN [blobs EXCEPT ![largest] = Combined(@, blobs[i]),
                                 ![i] = Free]
              ELSE blobs
  /\ i' = i + 1
  /\ UNCHANGED <<pc, scan, num_blobs, color, largest, output>>

NextColor ==
  /\ pc = "combine" /\ i > NumBlobsMax
  /\ pc' = "largest" /\ color' = color + 1
  /\ UNCHANGED <<scan, blobs, num_blobs, largest, i, output>>

-----------------------------------------------------------------------------
(* draw_blob: the four sides of the box, without its last corner.          *)
Box(b) ==
  LET top == b.y_min * Width + b.x_min
      bottom == b.y_max * Width + b.x_min
      wide == b.x_max - b.x_min
      high == b.y_max - b.y_min
  IN  (UNION {{top + n, bottom + n} : n \in 0 .. wide - 1})
        \cup (UNION {{top + n * Width, top + n * Width + wide} :
                       n \in 0 .. high - 1})

Draw ==
  /\ pc = "largest" /\ color \notin Colors
  /\ painted' = UNION {Box(blobs[s]) : s \in {t \in Slots : Reported(t)}}
  /\ pc' = "report"
  /\ UNCHANGED <<scan, blobs, num_blobs, combine, report>>

NoDetectImage ==
  /\ pc = "largest" /\ color \notin Colors
  /\ pc' = "report"
  /\ UNCHANGED <<scan, blobs, num_blobs, combine, output>>

(* get_blob_data_string: NULL without a complete blob.  Ten records of ten *)
(* digits a field always have room.                                        *)
Report ==
  /\ pc = "report"
  /\ LET complete == {s \in Slots : Reported(s)}
     IN  report' = IF complete = {} THEN <<>>
                   ELSE <<[announced |-> Cardinality(complete),
                           records |-> {s \in complete :
                                          blobs[s].pixels # 0}]>>
  /\ pc' = "done"
  /\ UNCHANGED <<scan, blobs, num_blobs, combine, painted>>

(* clear_blobs, at the start of the next image.                            *)
NextImage ==
  /\ pc = "done"
  /\ pc' = "row" /\ h' = 0 /\ runs' = {}
  /\ blobs' = [s \in Slots |-> Free] /\ num_blobs' = 0
  /\ color' = 1 /\ largest' = None /\ i' = 1
  /\ painted' = {} /\ report' = <<>>

Next ==
  \/ ReadRow \/ IgnoreRun \/ AppendBlob \/ NewBlob \/ NoRoom \/ CullBlobs
  \/ RowsDone \/ ChooseLargest \/ Combine \/ NextColor
  \/ Draw \/ NoDetectImage \/ Report \/ NextImage

Spec == Init /\ [][Next]_vars

-----------------------------------------------------------------------------
Valid == {s \in Slots : blobs[s].valid}

TypeOK ==
  /\ pc \in {"row", "runs", "largest", "combine", "report", "done"}
  /\ h \in 0 .. Height
  /\ runs \subseteq [min : Columns, max : Columns, color : Colors]
  /\ blobs \in [Slots -> [valid : BOOLEAN, complete : BOOLEAN,
                          color : Colors \cup {Free.color}, pixels : Nat,
                          x_min : Columns, x_max : Columns,
                          y_min : Rows, y_max : Rows]]
  /\ num_blobs \in 0 .. NumBlobsMax
  /\ color \in 1 .. Len(DetectColors) + 1
  /\ largest \in Slots \cup {None}
  /\ i \in 1 .. NumBlobsMax + 1
  /\ painted \subseteq Int
  /\ Len(report) <= 1

(* The pixels a blob counts lie in its box, each once: no run is added to  *)
(* two blobs, none is added twice, and boxes grow with every run and every *)
(* blob taken in (append_blob, bb_combine).                                *)
PixelsInBox ==
  \A s \in Valid :
    LET b == blobs[s]
    IN  /\ b.x_min < b.x_max /\ b.y_min <= b.y_max
        /\ b.pixels >= MinLine
        /\ b.pixels <= (b.x_max - b.x_min) * (b.y_max - b.y_min + 1)

(* num_blobs, which decides whether a new blob may be looked for, is the   *)
(* number of slots in use for as long as rows are read.                    *)
BlobsCounted ==
  pc \in {"row", "runs"} => num_blobs = Cardinality(Valid)

(* A blob whose box is around another's, of the same colour.               *)
Covers(c, b) ==
  /\ c.valid /\ c.color = b.color
  /\ c.x_min <= b.x_min /\ b.x_max <= c.x_max
  /\ c.y_min <= b.y_min /\ b.y_max <= c.y_max

(* Combining blobs gives up no pixel and no column or row a blob covered:  *)
(* a slot that is emptied is inside the box of another of its colour.      *)
KeepsCoverage ==
  /\ SumFunction([s \in Slots |-> blobs'[s].pixels])
       = SumFunction([s \in Slots |-> blobs[s].pixels])
  /\ \A s \in Valid : \E t \in Slots : Covers(blobs'[t], blobs[s])

CombineKeepsCoverage == [][pc = "combine" => KeepsCoverage]_vars

(* A blob that was once complete and large enough is never lost or made    *)
(* smaller: whatever row is read, whatever is appended, culled or combined *)
(* after it (append_blob, cull_blobs, bb_combine), a slot that is complete *)
(* and large enough covers it, up to the report, which has a record of     *)
(* every such slot and announces as many records as it has.                *)
KeepsLarge ==
  \A s \in Valid : LargeEnough(blobs[s]) =>
    \E t \in Slots : Covers(blobs'[t], blobs[s]) /\ LargeEnough(blobs'[t])

ReportsLarge ==
  LET large == {s \in Valid : LargeEnough(blobs[s])}
  IN  large # {} =>
        /\ large \subseteq report'[1].records
        /\ report'[1].announced = Cardinality(report'[1].records)

LargeBlobsReported ==
  [][/\ pc # "done" => KeepsLarge
     /\ pc = "report" => ReportsLarge]_vars

(* draw_blob checks no offset: the boxes keep it inside the image.         *)
PaintsInsideImage == painted \subseteq 0 .. Width * Height - 1

(* "If any point is within the x bounding-box of the blob, it belongs to   *)
(* that blob" (color_detect.c:182): a run of a blob's colour, over some of *)
(* its columns and at most the allowed miss below it, finds a blob to be   *)
(* added to, however the blob grew and whatever was culled meanwhile.  The *)
(* blobs nearer to the left edge than the allowed miss, whose reach wraps, *)
(* are left out.                                                           *)
RunsJoinBlobs ==
  pc = "runs" /\ runs # {} /\ Long(FirstRun) =>
    LET r == FirstRun
    IN  (\E s \in Valid : /\ blobs[s].color = r.color
                          /\ blobs[s].x_min >= ColumnMiss
                          /\ h - blobs[s].y_max <= RowMiss
                          /\ (blobs[s].x_min .. blobs[s].x_max)
                               \cap (r.min .. r.max - 1) # {})
          => Containing(r) # None
=============================================================================
