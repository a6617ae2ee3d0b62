------------------------------ MODULE MCTransition ------------------------------
(* Sizes and the easing curve of a transition. *)
EXTENDS Transition

\* Any size of frame from none to one that is odd both ways; the sine's table at
\* quarters.
ThreeSizes == {<<0, 0>>, <<3, 4>>, <<5, 3>>}
SineTable  == [p \in 0..4 |-> <<0, 146, 500, 854, 1000>>[p + 1]]

===============================================================================
