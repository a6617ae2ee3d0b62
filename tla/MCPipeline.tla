------------------------------ MODULE MCPipeline ------------------------------
(* A pipeline of up to two effects, rendered by two workers or by none. *)
EXTENDS Pipeline, TLC

CONSTANTS w1, w2, blur, other, unknown

TwoWorkers == {w1, w2}
Effects    == {blur, other, unknown}
Known      == {blur, other}
Threaded   == {blur}
Symmetry   == Permutations(TwoWorkers)

===============================================================================
