----------------------------- MODULE UdpDisplay -----------------------------
(***************************************************************************)
(* UdpThreads with the picture of the torus: the sending object's lattice, *)
(* as encrypt changes it one assignment at a time (CTP/ctp_cipher.py), and *)
(* the TorusVisualizer that draws it (ctp_udp_common.py).  A frame takes   *)
(* the lattice's grid, then reads the text, then draws, and rebuilds the   *)
(* blocks only if the grid is not the one it kept.                         *)
(*                                                                         *)
(* A moment of the lattice is its epoch and the number of times its grid   *)
(* was assigned since it was seeded; each step of the lattice assigns it   *)
(* twice, before and after the perturbation.                               *)
(***************************************************************************)
EXTENDS UdpThreads

CONSTANTS
    BurnIn,       \* burn_in, in the constructor
    EpochBurnIn,  \* epoch_burn_in, at every later epoch
    EvolveEvery,  \* evolve_every
    GridOf(_),    \* what the grid holds at a moment of the lattice
    Filled(_)     \* the blocks of a grid that are active enough to be drawn

VARIABLES
    lattice,   \* the moment send_ctp.lattice is at
    frame,     \* the main thread in update: which call is next
    taken,     \* update's grid
    lastGrid,  \* _last_grid, or None
    picture    \* _voxel_indices: the blocks that are drawn

displayVars == <<frame, taken, lastGrid, picture>>
allVars == <<vars, lattice, displayVars>>

LastEpoch == MaxSent \div EpochSize

FirstAssignments(e) == 2 * (IF e = 0 THEN BurnIn ELSE EpochBurnIn)

(* How often the grid is assigned by the time the packets of the epoch so  *)
(* far are dealt with.                                                     *)
Assignments(e, packets) == FirstAssignments(e) + 2 * (packets \div EvolveEvery)

Moments ==
    UNION {{[epoch |-> e, assigned |-> k] : k \in 0..Assignments(e, EpochSize)}
            : e \in 0..LastEpoch}

NoBlocks == {}

None == [epoch |-> -1, assigned |-> 0]

ASSUME DisplayAssumption ==
    /\ BurnIn \in Nat /\ EpochBurnIn \in Nat
    /\ EvolveEvery \in Nat \ {0}

-----------------------------------------------------------------------------

InitDisplay ==
    /\ Init
    /\ lattice = [epoch |-> 0, assigned |-> Assignments(0, 0)]
    /\ frame = "grid"
    /\ taken = lattice
    /\ lastGrid = None
    /\ picture = NoBlocks

(* _epoch_reset, which encrypt calls for the first packet of an epoch: a   *)
(* new lattice, which is burnt in where the display can see it, before     *)
(* current_epoch changes.                                                  *)
Entering == console = "reading" /\ lattice.epoch # epoch

ResetLattice ==
    /\ console = "reading" /\ lattice.epoch = epoch
    /\ seq < MaxSent
    /\ seq \div EpochSize # epoch
    /\ lattice' = [epoch |-> seq \div EpochSize, assigned |-> 0]
    /\ UNCHANGED <<vars, displayVars>>

BurnInLattice ==
    /\ Entering
    /\ lattice.assigned < Assignments(lattice.epoch, 0)
    /\ lattice' = [lattice EXCEPT !.assigned = @ + 1]
    /\ UNCHANGED <<vars, displayVars>>

EnterEpoch ==
    /\ Encrypt
    /\ lattice.epoch = seq \div EpochSize
    /\ Entering => lattice.assigned = Assignments(lattice.epoch, 0)
    /\ UNCHANGED <<lattice, displayVars>>

(* _advance: every evolve_every-th packet of an epoch steps the lattice,   *)
(* before seq is advanced.                                                 *)
DueOfTotal == Assignments(epoch, seq + 1)  \* mutant: a running total

Due == Assignments(epoch, (seq % EpochSize) + 1)

StepLattice ==
    /\ console = "encrypting"
    /\ lattice.assigned < Due
    /\ lattice' = [lattice EXCEPT !.assigned = @ + 1]
    /\ UNCHANGED <<vars, displayVars>>

FinishEncrypt ==
    /\ AdvanceSeq
    /\ lattice.assigned = Due
    /\ UNCHANGED <<lattice, displayVars>>

AfterEncrypt == SendTo \/ SendFails \/ CountSent \/ KeepSent \/ NoteSent

-----------------------------------------------------------------------------

(* lattice_snapshot: no lock is held, and the grid itself never changes,   *)
(* since every step makes a new one.                                       *)
TakeGrid ==
    /\ frame = "grid"
    /\ taken' = lattice
    /\ frame' = "text"
    /\ UNCHANGED <<vars, lattice, lastGrid, picture>>

ReadText ==
    /\ frame = "text"
    /\ Display
    /\ frame' = IF display' = "waiting" THEN "render" ELSE "text"
    /\ UNCHANGED <<lattice, taken, lastGrid, picture>>

DataChanged == lastGrid = None \/ GridOf(lastGrid) # GridOf(taken)

RenderKeepsLive ==  \* mutant: what is kept is not what was drawn
    /\ frame = "render"
    /\ IF lastGrid = None \/ GridOf(lastGrid) # GridOf(taken)
       THEN /\ picture' = Filled(GridOf(taken))
            /\ lastGrid' = lattice
       ELSE UNCHANGED <<picture, lastGrid>>
    /\ frame' = "grid"
    /\ UNCHANGED <<vars, lattice, taken>>

Render ==
    /\ frame = "render"
    /\ IF DataChanged
       THEN /\ picture' = Filled(GridOf(taken))
            /\ lastGrid' = taken
       ELSE UNCHANGED <<picture, lastGrid>>
    /\ frame' = "grid"
    /\ UNCHANGED <<vars, lattice, taken>>

NextDisplay ==
    \/ ResetLattice
    \/ BurnInLattice
    \/ EnterEpoch
    \/ StepLattice
    \/ FinishEncrypt
    \/ (AfterEncrypt \/ Network) /\ UNCHANGED <<lattice, displayVars>>
    \/ TakeGrid
    \/ ReadText
    \/ Render

DisplaySpec == InitDisplay /\ [][NextDisplay]_allVars

(* As in UdpThreads; an epoch once begun is entered. *)
EncryptRuns == BurnInLattice \/ (Entering /\ EnterEpoch) \/ StepLattice \/ FinishEncrypt

DisplayFairness ==
    /\ SF_allVars(EncryptRuns)
    /\ SF_vars(AfterEncrypt)
    /\ SF_vars(NetworkRuns)
    /\ SF_allVars(TakeGrid \/ ReadText \/ Render)

FairDisplaySpec == DisplaySpec /\ DisplayFairness

-----------------------------------------------------------------------------

DisplayTypeOK ==
    /\ lattice \in Moments
    /\ frame \in {"grid", "text", "render"}
    /\ taken \in Moments
    /\ lastGrid \in Moments \cup {None}
    /\ picture \in {Filled(GridOf(m)) : m \in Moments} \cup {NoBlocks}

(* Skipping the rebuild is harmless: when a frame is done, the picture is  *)
(* that of the grid it took, whether it was built now or kept.             *)
PictureOfFrame ==
    frame = "grid" /\ lastGrid # None => picture = Filled(GridOf(taken))

(* The picture shows "the ACTUAL cryptographic state": when the sender is  *)
(* between messages for good, whatever it was in the middle of when frames *)
(* were drawn before, its lattice comes to be shown and stays; skipping    *)
(* the rebuild never leaves an older one on the screen.                    *)
PictureCatchesUp ==
    <>[](console \in {"reading", "ended"}) => <>[](picture = Filled(GridOf(lattice)))
=============================================================================
