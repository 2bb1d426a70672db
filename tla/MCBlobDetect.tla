---------------------------- MODULE MCBlobDetect ----------------------------
(* Rows of purple and yellow runs on black; the second purple is darker.   *)
EXTENDS BlobDetect

RGB(r, g, b) == [red |-> r, green |-> g, blue |-> b]
Black == RGB(0, 0, 0)
Purple == RGB(4, 2, 4)
Yellow == RGB(4, 4, 1)
MCColors == <<Purple, Yellow>>

Row(At(_)) == [x \in 0 .. 7 |-> At(x)]
Run(min, max, p) ==
  Row(LAMBDA x : IF x \in min .. max THEN p ELSE Black)
TwoRuns(p, q) ==
  Row(LAMBDA x : IF x \in 1 .. 3 THEN p ELSE IF x \in 5 .. 7 THEN q ELSE Black)

MCRows ==
  {Run(8, 8, Purple), Run(0, 3, Purple), Run(1, 6, RGB(2, 1, 2)),
   Run(1, 7, Purple), Run(4, 5, Yellow), TwoRuns(Purple, Purple),
   [x \in 0 .. 7 |-> IF x < 4 THEN Purple ELSE Yellow]}
=============================================================================
