---------------------------- MODULE KeccakSponge ----------------------------
(***************************************************************************)
(* keccak_reference.py: the permutation Keccak-f and the sponge around it, *)
(* which everything else in the K12 code is compared with.  A lane is the  *)
(* set of its bits that are 1; a state gives a lane to each x and y.  The  *)
(* padded message and the output are sequences of blocks of the rate; that *)
(* the output is cut to out_len bytes is left to the caller.               *)
(***************************************************************************)
EXTENDS Integers, Sequences, FiniteSetsExt

CONSTANTS
    LaneBits,   \* bits of a lane; 64 in the code
    NumRounds,  \* num_rounds: 24 for SHA-3, 12 for KangarooTwelve
    RateLanes,  \* the lanes of a block; 21 for KangarooTwelve
    Inputs,     \* bound: the padded messages
    MaxWanted   \* bound: the blocks of output that are asked for

X == 0..4

Bits == 0..LaneBits-1

Lanes == SUBSET Bits

States == [X \X X -> Lanes]

Block == [0..RateLanes-1 -> Lanes]

(* What the users of this module assume of its parameters. *)
ParametersOK ==
    /\ LaneBits \in Nat \ {0}
    /\ NumRounds \in 1..24
    /\ RateLanes \in 1..25
    /\ Inputs \subseteq Seq(Block)
    /\ MaxWanted \in Nat \ {0}

VARIABLES
    input,     \* the blocks of the padded message
    wanted,    \* how many blocks out_len takes
    state,
    rnd,       \* the index of keccak_f's loop; 24 outside it
    absorbed,  \* how many blocks have been absorbed
    squeezed   \* the blocks of output so far

vars == <<input, wanted, state, rnd, absorbed, squeezed>>

(* RC, as the positions of the bits that are 1. *)
RC ==
    << {0}, {1,7,15}, {1,3,7,15,63}, {15,31,63}, {0,1,3,7,15}, {0,31},
       {0,7,15,31,63}, {0,3,15,63}, {1,3,7}, {3,7}, {0,3,15,31}, {1,3,31},
       {0,1,3,7,15,31}, {0,1,3,7,63}, {0,3,7,15,63}, {0,1,15,63},
       {1,15,63}, {7,63}, {1,3,15}, {1,3,31,63}, {0,7,15,31,63}, {7,15,63},
       {0,31}, {3,15,31,63} >>

RoundConstantOf(r) == RC[r + 1] \cap Bits

(* R_OFFSETS[x][y] *)
Offset ==
    << <<0, 36, 3, 41, 18>>, <<1, 44, 10, 45, 2>>, <<62, 6, 43, 15, 61>>,
       <<28, 55, 25, 21, 56>>, <<27, 20, 39, 8, 14>> >>

Rol(lane, n) == {(i + n) % LaneBits : i \in lane}

(* The XOR of the five lanes of a column. *)
Column(s, x) == {i \in Bits : Cardinality({y \in X : i \in s[<<x, y>>]}) % 2 = 1}

ColumnEffect(c, x) == SymDiff(c[(x + 4) % 5], Rol(c[(x + 1) % 5], 1))

Theta(s) ==
    LET c == [x \in X |-> Column(s, x)]
    IN  [p \in X \X X |-> SymDiff(s[p], ColumnEffect(c, p[1]))]

(* The lane that rho and pi move to q: new[y][(2x+3y) mod 5] is x, y.      *)
Source(q) == CHOOSE p \in X \X X : q = <<p[2], (2 * p[1] + 3 * p[2]) % 5>>

Moved(s, q) == LET p == Source(q) IN Rol(s[p], Offset[p[1] + 1][p[2] + 1])

RhoPi(s) == [q \in X \X X |-> Moved(s, q)]

ChiLane(s, x, y) ==
    SymDiff(s[<<x, y>>], s[<<(x + 2) % 5, y>>] \ s[<<(x + 1) % 5, y>>])

Chi(s) == [p \in X \X X |-> ChiLane(s, p[1], p[2])]

Iota(s, r) == [s EXCEPT ![<<0, 0>>] = SymDiff(@, RoundConstantOf(r))]

RoundOf(s, r) == Iota(Chi(RhoPi(Theta(s))), r)

(* bytes_to_state and state_to_bytes: lane x, y is the (x + 5y)th. *)
Position(x, y) == x + 5 * y

XorBlock(s, block) ==
    [p \in X \X X |->
        IF Position(p[1], p[2]) < RateLanes
        THEN SymDiff(s[p], block[Position(p[1], p[2])]) ELSE s[p]]

OuterPart(s) == [i \in 0..RateLanes-1 |-> s[<<i % 5, i \div 5>>]]

-----------------------------------------------------------------------------

Zero == [p \in X \X X |-> {}]

Init ==
    /\ input \in Inputs
    /\ wanted \in 1..MaxWanted
    /\ state = Zero
    /\ rnd = 24
    /\ absorbed = 0
    /\ squeezed = <<>>

Absorb ==
    /\ rnd = 24
    /\ absorbed < Len(input)
    /\ state' = XorBlock(state, input[absorbed + 1])
    /\ rnd' = 24 - NumRounds
    /\ absorbed' = absorbed + 1
    /\ UNCHANGED <<input, wanted, squeezed>>

Round ==
    /\ rnd < 24
    /\ state' = RoundOf(state, rnd)
    /\ rnd' = rnd + 1
    /\ UNCHANGED <<input, wanted, absorbed, squeezed>>

(* Between two blocks of output, and only there, the state is permuted. *)
Squeeze ==
    /\ rnd = 24
    /\ absorbed = Len(input)
    /\ Len(squeezed) < wanted
    /\ squeezed' = Append(squeezed, OuterPart(state))
    /\ rnd' = IF Len(squeezed') < wanted THEN 24 - NumRounds ELSE 24
    /\ UNCHANGED <<input, wanted, state, absorbed>>

Next == Absorb \/ Round \/ Squeeze

Spec == Init /\ [][Next]_vars
=============================================================================
