--------------------------- MODULE LatticeKernels ---------------------------
(***************************************************************************)
(* The lattice on the device: GPUFeistelLattice (ctp_gpu.py), which holds  *)
(* one session, and BatchedFeistelLattice (batched_feistel_lattice.py),    *)
(* which advances several in one launch.  An object is the set of the      *)
(* sessions it holds.                                                      *)
(*                                                                         *)
(* An object owns three buffers, and the references L, R and _extra to     *)
(* them rotate each round instead of the contents being copied.  A step is *)
(* a sequence of launches: theta into a scratch buffer, the upload of the  *)
(* round constant, and the kernel that combines them into _extra.  Python  *)
(* issues them one after the other and runs one step at a time.            *)
(***************************************************************************)
EXTENDS Integers, FiniteSetsExt

CONSTANTS
    Objects,  \* sets of sessions
    N, Rounds, MaxGeneration, Seeds, Masks, RoundConstant  \* of FeistelLattice

VARIABLES
    field,       \* field[o][b][s]: session s's part of buffer b
    ref,         \* ref[o]: the buffers that L, R and _extra refer to
    scratch,     \* scratch[o][s]: _theta_scratch
    constant,    \* constant[o]: _round_const_field, which sessions share
    phase,       \* phase[o]: the launch that is next
    roundIndex,  \* roundIndex[o]: the loop index r of step
    generation   \* generation[o]

vars == <<field, ref, scratch, constant, phase, roundIndex, generation>>

(* Session s of object o as the lattice of ctp_cipher.py. *)
Lattice(o, s) == INSTANCE FeistelLattice WITH
    rule <- "cubic",
    left <- field[o][ref[o].left][s],
    right <- field[o][ref[o].right][s],
    round <- roundIndex[o],
    generation <- generation[o]

(* Its constant operators, which no variable enters. *)
L == INSTANCE FeistelLattice WITH
    rule <- "cubic", left <- {}, right <- {}, round <- 0, generation <- 0

Buffers == 1..3

ASSUME KernelsAssumption == {} \notin Objects /\ L!ParametersOK

Grid(o, s) == <<field[o][ref[o].left][s], field[o][ref[o].right][s]>>

(* The buffers L, R and _extra, once the sessions' seeds are uploaded. *)
Uploaded(seeds) ==
    [o \in Objects |-> [b \in Buffers |-> [s \in o |->
        CASE b = 1 -> seeds[o][s][1]
          [] b = 2 -> seeds[o][s][2]
          [] b = 3 -> {}]]]

(* The sessions of an object have different seeds. *)
Init ==
    /\ \E seeds \in [Objects -> [UNION Objects -> Seeds]] :
          /\ \A o \in Objects : \A s, t \in o : s # t => seeds[o][s] # seeds[o][t]
          /\ field = Uploaded(seeds)
    /\ ref = [o \in Objects |-> [left |-> 1, right |-> 2, extra |-> 3]]
    /\ scratch = [o \in Objects |-> [s \in o |-> {}]]
    /\ constant = [o \in Objects |-> {}]
    /\ phase = [o \in Objects |-> "theta"]
    /\ roundIndex = [o \in Objects |-> 0]
    /\ generation = [o \in Objects |-> 0]

Idle(o) == phase[o] = "theta" /\ roundIndex[o] = 0

Runs(o) == \A other \in Objects \ {o} : Idle(other)

LaunchTheta(o) ==
    /\ Runs(o)
    /\ phase[o] = "theta"
    /\ generation[o] < MaxGeneration
    /\ roundIndex[o] < Rounds
    /\ scratch' = [scratch EXCEPT ![o] =
                     [s \in o |-> L!Theta(field[o][ref[o].right][s])]]
    /\ phase' = [phase EXCEPT ![o] = "constant"]
    /\ UNCHANGED <<field, ref, constant, roundIndex, generation>>

UploadConstantOfZero(o) ==  \* mutant: the constant of the first generation
    /\ Runs(o)
    /\ phase[o] = "constant"
    /\ constant' = [constant EXCEPT ![o] = RoundConstant[0][roundIndex[o]]]
    /\ phase' = [phase EXCEPT ![o] = "combine"]
    /\ UNCHANGED <<field, ref, scratch, roundIndex, generation>>

UploadConstant(o) ==
    /\ Runs(o)
    /\ phase[o] = "constant"
    /\ constant' = [constant EXCEPT ![o] = RoundConstant[generation[o]][roundIndex[o]]]
    /\ phase' = [phase EXCEPT ![o] = "combine"]
    /\ UNCHANGED <<field, ref, scratch, roundIndex, generation>>

RotateTwo(r) ==  \* mutant: the old left half is not given back as scratch
    [left |-> r.right, right |-> r.extra, extra |-> r.extra]

(* The new left half is the old right one, the new right half what was     *)
(* computed, and the old left half is free for the next round.             *)
Rotate(r) == [left |-> r.right, right |-> r.extra, extra |-> r.left]

CombinedNoLeft(o, s) ==  \* mutant: a round that is not a Feistel round
    SymDiff(L!ChiCubic(scratch[o][s]), constant[o])

Combined(o, s) ==
    SymDiff(field[o][ref[o].left][s], SymDiff(L!ChiCubic(scratch[o][s]), constant[o]))

LaunchCombine(o) ==
    /\ Runs(o)
    /\ phase[o] = "combine"
    /\ field' = [field EXCEPT ![o][ref[o].extra] = [s \in o |-> Combined(o, s)]]
    /\ ref' = [ref EXCEPT ![o] = Rotate(@)]
    /\ phase' = [phase EXCEPT ![o] = "theta"]
    /\ roundIndex' = [roundIndex EXCEPT ![o] = @ + 1]
    /\ UNCHANGED <<scratch, constant, generation>>

(* Only the lattice of a single session takes a perturbation. *)
EndStep(o, mask) ==
    /\ Runs(o)
    /\ roundIndex[o] = Rounds
    /\ mask = L!NoMask \/ \E s \in o : o = {s}
    /\ field' = [field EXCEPT
                   ![o][ref[o].left] = [s \in o |-> SymDiff(@[s], mask[1])],
                   ![o][ref[o].right] = [s \in o |-> SymDiff(@[s], mask[2])]]
    /\ generation' = [generation EXCEPT ![o] = @ + 1]
    /\ roundIndex' = [roundIndex EXCEPT ![o] = 0]
    /\ UNCHANGED <<ref, scratch, constant, phase>>

Next ==
    \E o \in Objects :
        \/ LaunchTheta(o)
        \/ UploadConstant(o)
        \/ LaunchCombine(o)
        \/ \E mask \in Masks \cup {L!NoMask} : EndStep(o, mask)

Spec == Init /\ [][Next]_vars

-----------------------------------------------------------------------------

TypeOK ==
    /\ \A o \in Objects : field[o] \in [Buffers -> [o -> L!HalfLattices]]
    /\ ref \in [Objects -> [left : Buffers, right : Buffers, extra : Buffers]]
    /\ \A o \in Objects : {ref[o].left, ref[o].right, ref[o].extra} = Buffers
    /\ \A o \in Objects : scratch[o] \in [o -> L!HalfLattices]
    /\ constant \in [Objects -> L!HalfLattices]
    /\ phase \in [Objects -> {"theta", "constant", "combine"}]
    /\ roundIndex \in [Objects -> 0..Rounds]
    /\ generation \in [Objects -> 0..MaxGeneration]

(* Whatever buffers the references have come round to, and whatever other  *)
(* sessions share the launch, each session goes through the rounds of the  *)
(* CPU's lattice ("bit-for-bit agreement", ctp_gpu.py).                    *)
ImplementsLattice ==
    /\ \A o \in Objects : \A s \in o : Lattice(o, s)!Init
    /\ [][\A o \in Objects : \A s \in o :
            [Lattice(o, s)!Next]_(Lattice(o, s)!vars)]_vars

(* feistel_step_inverse undoes feistel_step, on every lattice between two  *)
(* steps and for both nonlinear steps, though neither of them can be       *)
(* undone itself ("the exact inverse", ctp_cipher.py).                     *)
RoundTrip ==
    (\A o \in Objects : Idle(o)) =>
    \A o \in Objects : \A s \in o : \A rl \in {"quadratic", "cubic"} :
        generation[o] < MaxGeneration
            => L!UndoStep(rl, L!StepOf(rl, Grid(o, s), generation[o]), generation[o])
                   = Grid(o, s)

(* The lattice never forgets its seed: sessions of a batch that start from *)
(* different grids have different grids for ever.                          *)
SessionsStayApart ==
    \A o \in Objects : \A s, t \in o : s # t => Grid(o, s) # Grid(o, t)
=============================================================================
