------------------------------ MODULE MCEncode ------------------------------
(***************************************************************************)
(* Encode on frames of three rows of five pixels: an odd number, so that  *)
(* pairs of pixels lie across two rows and the last one is half a pair.    *)
(* The frames are read as YUYV or as depths.                               *)
(***************************************************************************)
EXTENDS Encode

(* Every byte differs from its neighbours. *)
Ramp == [n \in FrameBytes |-> (37 * n + 11) % 256]

(* The ends of every range: the conversion must clamp both ways. *)
Extremes == [n \in FrameBytes |-> IF (n \div 3) % 2 = 0 THEN 0 ELSE 255]

(* As depths, what lies around a step of 20 mm, around the 255th of them,  *)
(* and the largest depth.                                                  *)
Around == <<65535, 0, 5120, 19, 5099, 20, 5119, 39, 5100>>
Depths == [n \in FrameBytes |->
             LET depth == Around[((n \div 2) % 9) + 1]
             IN  IF n % 2 = 0 THEN depth % 256 ELSE depth \div 256]

MCFrames == {Ramp, Extremes, Depths}
MCBeyond == {0, 255}
MCScales == {0, 1, 300, -1}
MCAnnotations == {{}, {4, 5}}
=============================================================================
