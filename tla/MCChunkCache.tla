----------------------------- MODULE MCChunkCache -----------------------------
(* Instances of ChunkCache for TLC. *)
EXTENDS ChunkCache, TLC

CONSTANTS k1, k2, t1, t2, large, turbo

TwoChunks == {k1, k2}
OneTerm   == {t1}
TwoTerms  == {t1, t2}
OnePlan   == {large}
TwoPlans  == {large, turbo}

Symmetry == Permutations(TwoChunks) \union Permutations(TwoTerms)
              \union Permutations(TwoPlans)
=============================================================================
