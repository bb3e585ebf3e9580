-------------------------- MODULE MCLatticeKernels --------------------------
EXTENDS LatticeKernels

(* Half-lattices without symmetry, in place of the bits of SHAKE-256. *)
Scattered(a, b) ==
    {c \in (0..N \div 2 - 1) \X (0..N-1) \X (0..N-1) :
        (a * c[1] + b * c[2] + c[3] * c[3] + a * c[2] * c[3]) % 5 < 2}

(* Two that agree in a half, so that a round that loses the other merges   *)
(* them.                                                                   *)
MCSeeds == {<<Scattered(k, 2), Scattered(1, 3)>> : k \in 1..2}
MCMasks == {<<Scattered(2, 2), Scattered(4, 1)>>}
MCRoundConstant ==
    [g \in 0..MaxGeneration |-> [r \in 0..Rounds-1 |-> Scattered(2 * g + r, 3 + g)]]
=============================================================================
