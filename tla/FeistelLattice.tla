--------------------------- MODULE FeistelLattice ---------------------------
(***************************************************************************)
(* The toroidal lattice of CTP (FeistelLattice in ctp_cipher.py) and its   *)
(* public round function, bit for bit.  A half-lattice, of shape           *)
(* (n // 2, n, n), is the set of its cells that are 1, so that XOR is the  *)
(* symmetric difference.  What SHAKE-256 expands a seed, a perturbation or *)
(* a round's tag to is a parameter.                                        *)
(*                                                                         *)
(* The state is one lattice in the middle of step(): the two halves, the   *)
(* generation, and the index of the loop over the rounds.                  *)
(***************************************************************************)
EXTENDS Integers, FiniteSetsExt

CONSTANTS
    N,              \* n: the length of the axes; even
    Rounds,         \* NUM_FEISTEL_ROUNDS; 8 in the code
    MaxGeneration,  \* bound: no lattice is stepped beyond this generation
    Seeds,          \* the grids that seeds are expanded to: <<left, right>>
    Masks,          \* the grids that perturbation seeds are expanded to
    RoundConstant   \* RoundConstant[generation][round], a half-lattice

Half == N \div 2

Cells == {<<x, y, z>> : x \in 0..Half-1, y \in 0..N-1, z \in 0..N-1}

HalfLattices == SUBSET Cells

Grids == HalfLattices \X HalfLattices

NoMask == <<{}, {}>>

(* What the users of this module assume of its parameters. *)
ParametersOK ==
    /\ N \in Nat /\ N % 2 = 0
    /\ Rounds \in Nat \ {0}
    /\ MaxGeneration \in Nat
    /\ Seeds \subseteq Grids
    /\ Masks \subseteq Grids
    /\ RoundConstant \in [0..MaxGeneration -> [0..Rounds-1 -> HalfLattices]]

VARIABLES
    rule,        \* the nonlinear step: of degree 2 (v0.5) or 3 (v0.6)
    left, right, \* the halves L and R
    generation,
    round        \* the loop index of feistel_step; 0 between two steps

vars == <<rule, left, right, generation, round>>

(* The cell at a distance from c, around the torus. *)
At(c, distance) ==
    <<(c[1] + distance[1]) % Half, (c[2] + distance[2]) % N, (c[3] + distance[3]) % N>>

(* The cell and its six neighbours.  On an axis of length 2 the two        *)
(* neighbours are one cell, which is counted twice and drops out.          *)
Star == << <<0,0,0>>, <<1,0,0>>, <<-1,0,0>>, <<0,1,0>>, <<0,-1,0>>, <<0,0,1>>, <<0,0,-1>> >>

Theta(half) ==
    {c \in Cells :
        LET one(i) == At(c, Star[i]) \in half
        IN  (one(1) # ((one(2) # one(3)) # ((one(4) # one(5)) # (one(6) # one(7)))))}

(* cell XOR (NOT a AND b), the form of v0.5. *)
ChiQuadratic(half) ==
    {c \in Cells : (c \in half) # /\ At(c, <<-1,0,0>>) \notin half
                                  /\ At(c, <<-2,0,0>>) \in half}

(* cell XOR (a AND b) XOR (c AND d AND e), the form of v0.6. *)
ChiCubic(half) ==
    {c \in Cells :
        LET ab  == At(c, <<-1,0,0>>) \in half /\ At(c, <<-2,0,0>>) \in half
            cde == /\ At(c, <<0,-1,0>>) \in half /\ At(c, <<0,-2,0>>) \in half
                   /\ At(c, <<0,0,-1>>) \in half
        IN  (c \in half) # (ab # cde)}

Chi(rl, half) == IF rl = "quadratic" THEN ChiQuadratic(half) ELSE ChiCubic(half)

FeistelF(rl, half, g, r) == SymDiff(Chi(rl, Theta(half)), RoundConstant[g][r])

RoundOf(rl, grid, g, r) ==
    <<grid[2], SymDiff(grid[1], FeistelF(rl, grid[2], g, r))>>

(* A round of feistel_step_inverse: L, R = R XOR F(L), L. *)
UndoRound(rl, grid, g, r) ==
    <<SymDiff(grid[2], FeistelF(rl, grid[1], g, r)), grid[1]>>

(* The loops of feistel_step and feistel_step_inverse: loop[r] is the grid *)
(* before round r of the step, so the inverse comes from Rounds down to 0. *)
StepOf(rl, grid, g) ==
    LET loop[r \in 0..Rounds] ==
            IF r = 0 THEN grid ELSE RoundOf(rl, loop[r-1], g, r-1)
    IN  loop[Rounds]

UndoStepUnreversed(rl, grid, g) ==  \* mutant: the rounds in their own order
    LET loop[r \in 0..Rounds] ==
            IF r = 0 THEN grid ELSE UndoRound(rl, loop[r-1], g, r-1)
    IN  loop[Rounds]

UndoStep(rl, grid, g) ==
    LET loop[r \in 0..Rounds] ==
            IF r = Rounds THEN grid ELSE UndoRound(rl, loop[r+1], g, r)
    IN  loop[0]

Masked(grid, mask) == <<SymDiff(grid[1], mask[1]), SymDiff(grid[2], mask[2])>>

-----------------------------------------------------------------------------

Init ==
    /\ rule \in {"quadratic", "cubic"}
    /\ <<left, right>> \in Seeds
    /\ generation = 0
    /\ round = 0

Round ==
    /\ generation < MaxGeneration
    /\ round < Rounds
    /\ <<left', right'>> = RoundOf(rule, <<left, right>>, generation, round)
    /\ round' = round + 1
    /\ UNCHANGED <<rule, generation>>

(* The end of step(): with a perturbation seed or without one. *)
EndStep(mask) ==
    /\ round = Rounds
    /\ <<left', right'>> = Masked(<<left, right>>, mask)
    /\ generation' = generation + 1
    /\ round' = 0
    /\ UNCHANGED rule

Next == Round \/ \E mask \in Masks \cup {NoMask} : EndStep(mask)

Spec == Init /\ [][Next]_vars
=============================================================================
