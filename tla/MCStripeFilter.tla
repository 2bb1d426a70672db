--------------------------- MODULE MCStripeFilter ---------------------------
(* Images of dark ground and bright stripes: a line is named by the columns *)
(* where it changes.                                                        *)
EXTENDS StripeFilter

Edges(xs) ==
  [x \in 0 .. 19 |->
     IF Cardinality({e \in xs : e <= x}) % 2 = 1 THEN 200 ELSE 10]

(* Dark; stripes of 3, 5, 3 and 5; the first edge off by one; an evenly     *)
(* striped line; a gray slope, too gentle for an edge until its last step.  *)
MCLines ==
  {Edges({}), Edges({2, 5, 10, 13, 18}), Edges({3, 5, 10, 13}),
   Edges({2, 6, 10}), [x \in 0 .. 19 |-> IF x < 12 THEN 100 + x ELSE 160]}
=============================================================================
