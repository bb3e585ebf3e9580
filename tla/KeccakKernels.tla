--------------------------- MODULE KeccakKernels ---------------------------
(***************************************************************************)
(* Keccak-p on the device, for the sessions (or the chunks) of one group,  *)
(* which are padded to one length.  There are three ways to run it:        *)
(*   "batch"  keccak_p12_batch: the host absorbs a block into every state, *)
(*            uploads the states, and one launch permutes them in place    *)
(*   "leaf"   keccak_p12_fused: a thread absorbs all its blocks into a     *)
(*            local vector, and writes the state back at the end           *)
(*   "final"  keccak_p12_fused_absorb_squeeze: a thread squeezes as well   *)
(* The threads of a launch run in parallel, loop after loop of a round.    *)
(* The local vector is flat; the device's field has indices x and y.       *)
(***************************************************************************)
EXTENDS Integers, Sequences, FiniteSetsExt

CONSTANTS
    Sessions,  \* the threads
    LaneBits, NumRounds, RateLanes, Inputs, MaxWanted  \* of KeccakSponge

VARIABLES
    kernel,    \* which of the three
    input,     \* input[b]: the blocks of b
    wanted,    \* n_squeeze_blocks
    field,     \* field[b]: b's state in global memory, by x and y
    s,         \* s[b]: the local vector of thread b
    c, d,      \* c[b], d[b]: theta's columns
    t,         \* t[b]: where rho and pi move the lanes to
    phase,     \* phase[b]: the loop that is next; "idle" outside a round
    rnd,       \* rnd[b]
    blk,       \* blk[b]: how many blocks b has absorbed
    squeezed   \* squeezed[b]: the blocks of output that b has

vars == <<kernel, input, wanted, field, s, c, d, t, phase, rnd, blk, squeezed>>

K == INSTANCE KeccakSponge WITH
    input <- <<>>, wanted <- 0, state <- <<>>, rnd <- 0, absorbed <- 0, squeezed <- <<>>

ASSUME KernelsAssumption == K!ParametersOK

X == K!X

(* The state that thread b computes on. *)
Lane(b, x, y) == IF kernel = "batch" THEN field[b][<<x, y>>] ELSE s[b][x + 5 * y]

Held(b) == [p \in X \X X |-> Lane(b, p[1], p[2])]

Flat(state) == [i \in 0..24 |-> state[<<i % 5, i \div 5>>]]

(* Thread b has new lanes. *)
Store(b, state) ==
    IF kernel = "batch"
    THEN field' = [field EXCEPT ![b] = state] /\ UNCHANGED s
    ELSE s' = [s EXCEPT ![b] = Flat(state)] /\ UNCHANGED field

Init ==
    /\ kernel \in {"batch", "leaf", "final"}
    /\ input \in [Sessions -> Inputs]
    /\ \A a, b \in Sessions : Len(input[a]) = Len(input[b])
    /\ wanted \in IF kernel = "final" THEN 1..MaxWanted ELSE {1}
    /\ field = [b \in Sessions |-> K!Zero]
    /\ s = [b \in Sessions |-> Flat(K!Zero)]
    /\ c = [b \in Sessions |-> [x \in X |-> {}]]
    /\ d = [b \in Sessions |-> [x \in X |-> {}]]
    /\ t = [b \in Sessions |-> K!Zero]
    /\ phase = [b \in Sessions |-> "idle"]
    /\ rnd = [b \in Sessions |-> 24]
    /\ blk = [b \in Sessions |-> 0]
    /\ squeezed = [b \in Sessions |-> <<>>]

AbsorbedRowMajor(state, block) ==  \* mutant: the field's own order of lanes
    [p \in X \X X |->
        IF 5 * p[1] + p[2] < RateLanes
        THEN SymDiff(state[p], block[5 * p[1] + p[2]]) ELSE state[p]]

(* The host's arrays of bytes hold the lanes in the order of x + 5y, the   *)
(* transpose of the field's.                                               *)
Absorbed(state, block) ==
    [p \in X \X X |->
        IF p[1] + 5 * p[2] < RateLanes
        THEN SymDiff(state[p], block[p[1] + 5 * p[2]]) ELSE state[p]]

(* One upload and one launch for a block of every session. *)
HostAbsorb ==
    /\ kernel = "batch"
    /\ \A b \in Sessions : phase[b] = "idle" /\ blk[b] < Len(input[b])
    /\ field' = [b \in Sessions |-> Absorbed(field[b], input[b][blk[b] + 1])]
    /\ phase' = [b \in Sessions |-> "columns"]
    /\ rnd' = [b \in Sessions |-> 24 - NumRounds]
    /\ blk' = [b \in Sessions |-> blk[b] + 1]
    /\ UNCHANGED <<kernel, input, wanted, s, c, d, t, squeezed>>

ThreadAbsorb(b) ==
    /\ kernel # "batch"
    /\ phase[b] = "idle"
    /\ blk[b] < Len(input[b])
    /\ s' = [s EXCEPT ![b] =
               [i \in 0..24 |-> IF i < RateLanes THEN SymDiff(@[i], input[b][blk[b] + 1][i])
                                ELSE @[i]]]
    /\ phase' = [phase EXCEPT ![b] = "columns"]
    /\ rnd' = [rnd EXCEPT ![b] = 24 - NumRounds]
    /\ blk' = [blk EXCEPT ![b] = @ + 1]
    /\ UNCHANGED <<kernel, input, wanted, field, c, d, t, squeezed>>

Columns(b) ==
    /\ phase[b] = "columns"
    /\ c' = [c EXCEPT ![b] = [x \in X |-> K!Column(Held(b), x)]]
    /\ d' = [d EXCEPT ![b] = [x \in X |-> K!ColumnEffect(c'[b], x)]]
    /\ phase' = [phase EXCEPT ![b] = "theta"]
    /\ UNCHANGED <<kernel, input, wanted, field, s, t, rnd, blk, squeezed>>

ThetaLanes(b) ==
    /\ phase[b] = "theta"
    /\ Store(b, [p \in X \X X |-> SymDiff(Held(b)[p], d[b][p[1]])])
    /\ phase' = [phase EXCEPT ![b] = "rho"]
    /\ UNCHANGED <<kernel, input, wanted, c, d, t, rnd, blk, squeezed>>

RhoPiLanes(b) ==
    /\ phase[b] = "rho"
    /\ t' = [t EXCEPT ![b] = K!RhoPi(Held(b))]
    /\ phase' = [phase EXCEPT ![b] = "chi"]
    /\ UNCHANGED <<kernel, input, wanted, field, s, c, d, rnd, blk, squeezed>>

ChiOf(b) == K!Chi(t[b])

ChiLanes(b) ==
    /\ phase[b] = "chi"
    /\ Store(b, ChiOf(b))
    /\ phase' = [phase EXCEPT ![b] = "iota"]
    /\ UNCHANGED <<kernel, input, wanted, c, d, t, rnd, blk, squeezed>>

IotaLane(b) ==
    /\ phase[b] = "iota"
    /\ Store(b, K!Iota(Held(b), rnd[b]))
    /\ phase' = [phase EXCEPT ![b] = IF rnd[b] + 1 < 24 THEN "columns" ELSE "idle"]
    /\ rnd' = [rnd EXCEPT ![b] = @ + 1]
    /\ UNCHANGED <<kernel, input, wanted, c, d, t, blk, squeezed>>

(* The end of a thread of keccak_p12_fused. *)
WriteBack(b) ==
    /\ kernel = "leaf"
    /\ phase[b] = "idle"
    /\ blk[b] = Len(input[b])
    /\ field' = [field EXCEPT ![b] = Held(b)]
    /\ phase' = [phase EXCEPT ![b] = "written"]
    /\ UNCHANGED <<kernel, input, wanted, s, c, d, t, rnd, blk, squeezed>>

(* The host downloads the states of the group, and takes the chaining      *)
(* values from the start of their bytes.                                   *)
HostDigest ==
    /\ kernel # "final"
    /\ \A b \in Sessions :
          /\ phase[b] = IF kernel = "batch" THEN "idle" ELSE "written"
          /\ blk[b] = Len(input[b])
          /\ squeezed[b] = <<>>
    /\ squeezed' = [b \in Sessions |-> <<K!OuterPart(field[b])>>]
    /\ UNCHANGED <<kernel, input, wanted, field, s, c, d, t, phase, rnd, blk>>

SqueezeOneMore(b) ==  \* mutant: n_squeeze_blocks is rounded up twice
    /\ kernel = "final"
    /\ phase[b] = "idle"
    /\ blk[b] = Len(input[b])
    /\ Len(squeezed[b]) <= wanted
    /\ squeezed' = [squeezed EXCEPT ![b] = Append(@, [i \in 0..RateLanes-1 |-> s[b][i]])]
    /\ UNCHANGED <<kernel, input, wanted, field, s, c, d, t, phase, rnd, blk>>

(* out_squeezed[b, sq] = s, and a permutation if another block follows. *)
Squeeze(b) ==
    /\ kernel = "final"
    /\ phase[b] = "idle"
    /\ blk[b] = Len(input[b])
    /\ Len(squeezed[b]) < wanted
    /\ squeezed' = [squeezed EXCEPT ![b] = Append(@, [i \in 0..RateLanes-1 |-> s[b][i]])]
    /\ IF Len(squeezed'[b]) < wanted
       THEN /\ phase' = [phase EXCEPT ![b] = "columns"]
            /\ rnd' = [rnd EXCEPT ![b] = 24 - NumRounds]
       ELSE UNCHANGED <<phase, rnd>>
    /\ UNCHANGED <<kernel, input, wanted, field, s, c, d, t, blk>>

Next ==
    \/ HostAbsorb
    \/ HostDigest
    \/ \E b \in Sessions :
          \/ ThreadAbsorb(b) \/ Columns(b) \/ ThetaLanes(b) \/ RhoPiLanes(b)
          \/ ChiLanes(b) \/ IotaLane(b) \/ WriteBack(b) \/ Squeeze(b)

Spec == Init /\ [][Next]_vars

-----------------------------------------------------------------------------

Phases == {"idle", "columns", "theta", "rho", "chi", "iota", "written"}

TypeOK ==
    /\ kernel \in {"batch", "leaf", "final"}
    /\ input \in [Sessions -> Inputs]
    /\ wanted \in 1..MaxWanted
    /\ field \in [Sessions -> K!States]
    /\ s \in [Sessions -> [0..24 -> K!Lanes]]
    /\ c \in [Sessions -> [X -> K!Lanes]] /\ d \in [Sessions -> [X -> K!Lanes]]
    /\ t \in [Sessions -> K!States]
    /\ phase \in [Sessions -> Phases]
    /\ rnd \in [Sessions -> 24-NumRounds..24]
    /\ blk \in [Sessions -> Nat] /\ squeezed \in [Sessions -> Seq(K!Block)]
    /\ \A b \in Sessions : blk[b] <= Len(input[b]) /\ Len(squeezed[b]) <= wanted

(* The reference's state while thread b is at some loop of a round: what b *)
(* holds at its start, until chi overwrites it; what it will hold at its   *)
(* end, after that.                                                        *)
SpongeState(b) ==
    CASE phase[b] \in {"rho", "chi"} ->
            [p \in X \X X |-> SymDiff(Held(b)[p], d[b][p[1]])]
      [] phase[b] = "iota" -> K!Iota(Held(b), rnd[b])
      [] OTHER -> Held(b)

Sponge(b) == INSTANCE KeccakSponge WITH
    input <- input[b],
    state <- SpongeState(b),
    rnd <- IF phase[b] = "iota" THEN rnd[b] + 1 ELSE rnd[b],
    absorbed <- blk[b],
    squeezed <- squeezed[b]

(* Each thread of each kernel computes the reference's sponge of its own   *)
(* input, however its loops are interleaved with the other threads'        *)
(* ("bit-for-bit", the cross-validations of keccak_p12_gpu.py and          *)
(* keccak_fused_gpu.py).                                                   *)
ImplementsSponge ==
    /\ \A b \in Sessions : Sponge(b)!Init
    /\ [][\A b \in Sessions : [Sponge(b)!Next]_(Sponge(b)!vars)]_vars
=============================================================================
