--------------------------------- MODULE MCBlur ---------------------------------
(* Sizes with as many rows as threads, fewer, and a remainder; each pass alone *)
(* and both; and an effect with nothing to do.                                 *)
EXTENDS SmpBlur

Blur(strength, horizontal, vertical, height, n) ==
  [radius |-> 1, strength |-> strength, horizontal |-> horizontal, vertical |-> vertical,
   height |-> height, threads |-> n]

BlurCases ==
  {Blur("part", TRUE, FALSE, h, 2) : h \in {1, 2, 3}}
    \cup {Blur("full", TRUE, FALSE, 3, 2), Blur("full", TRUE, TRUE, 2, 2),
          Blur("part", FALSE, TRUE, 2, 2), Blur("none", TRUE, TRUE, 2, 2),
          Blur("full", TRUE, FALSE, 3, 3)}

\* Two rows, both passes: the smallest picture whose threads share buffers.
SmallestCase == {Blur("full", TRUE, TRUE, 2, 2)}

===============================================================================
