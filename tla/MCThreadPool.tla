----------------------------- MODULE MCThreadPool -----------------------------
(* Instances of ThreadPool for TLC: two and three workers, a few calls. *)
EXTENDS ThreadPool, TLC

CONSTANTS w1, w2, w3

TwoWorkers   == {w1, w2}
ThreeWorkers == {w1, w2, w3}
Symmetry     == Permutations({w1, w2, w3})

===============================================================================
