-------------------------- MODULE MCKeccakKernels --------------------------
EXTENDS KeccakKernels, TLC

(* Blocks without symmetry, and messages of one and two of them. *)
Pattern(k) == [i \in 0..RateLanes-1 |-> {j \in 0..LaneBits-1 : (i * i + k * j + k) % 3 = 0}]
MCInputs == {<<Pattern(1)>>, <<Pattern(1), Pattern(2)>>, <<Pattern(2), Pattern(4)>>}

(* The threads are alike. *)
ThreadSymmetry == Permutations(Sessions)
=============================================================================
