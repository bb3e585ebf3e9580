---------------------------- MODULE ReplayWindow ----------------------------
(***************************************************************************)
(* The anti-replay window of a receiving CTP object (ctp_cipher.py,        *)
(* _check_replay, _commit_replay and the part of decrypt that calls them). *)
(*                                                                         *)
(* The window is two integers.  The bitmask is kept here as the set of its *)
(* one bits: bit d stands for the sequence number replayHighest - d.  A    *)
(* left shift adds the shift to every position, and the masking with       *)
(* (1 << W) - 1 drops the positions from W up.                             *)
(*                                                                         *)
(* The environment may present any sequence number, as often as it likes   *)
(* and in any order: datagrams are reordered, duplicated, delayed, lost    *)
(* and damaged.  A damaged one fails the tag check.                        *)
(***************************************************************************)
EXTENDS Integers, Sequences

CONSTANTS
    W,       \* replay_window_size; 64 in the code
    MaxSeq   \* bound: the largest sequence number that is ever sent

ASSUME WindowAssumption == W \in Nat \ {0} /\ MaxSeq \in Nat

VARIABLES
    replayHighest,  \* _replay_highest; -1 before the first acceptance
    replayBitmask,  \* _replay_bitmask, as the set of its one bits
    log             \* history: the sequence numbers accepted, in order

vars == <<replayHighest, replayBitmask, log>>

Seqs == 0..MaxSeq

Accepted == {log[i] : i \in DOMAIN log}

(***************************************************************************)
(* The check reads the window and changes nothing.                         *)
(***************************************************************************)
CheckReplayForgetsOld(seq) ==  \* mutant: no refusal of old numbers
    /\ seq <= replayHighest
    /\ replayHighest - seq \in replayBitmask

CheckReplay(seq) ==
    /\ seq <= replayHighest
    /\ \/ replayHighest - seq >= W
       \/ replayHighest - seq \in replayBitmask

ShiftedUnmasked(shift) ==  \* mutant: the bitmask is not masked to W bits
    IF shift >= W THEN {} ELSE {d + shift : d \in replayBitmask}

ShiftedClearsEarly(shift) ==  \* mutant: cleared one shift too early
    IF shift >= W - 1 THEN {}
    ELSE {d \in 0..W-1 : d - shift \in replayBitmask}

ShiftedBitmask(shift) ==
    IF shift >= W THEN {}
    ELSE {d \in 0..W-1 : d - shift \in replayBitmask}

CommitReplay(seq) ==
    \/ /\ seq > replayHighest
       /\ replayBitmask' = ShiftedBitmask(seq - replayHighest) \cup {0}
       /\ replayHighest' = seq
    \/ /\ seq <= replayHighest
       /\ replayBitmask' = replayBitmask \cup {replayHighest - seq}
       /\ UNCHANGED replayHighest

-----------------------------------------------------------------------------

Init ==
    /\ replayHighest = -1
    /\ replayBitmask = {}
    /\ log = <<>>

(* ReplayError: raised before the tag is looked at. *)
RejectReplay(seq) ==
    /\ CheckReplay(seq)
    /\ UNCHANGED vars

RejectDamagedBurns(seq) ==  \* mutant: marked before the tag is checked
    /\ ~CheckReplay(seq)
    /\ CommitReplay(seq)
    /\ UNCHANGED log

(* AuthenticationError: raised after the check and before the commit. *)
RejectDamaged(seq) ==
    /\ ~CheckReplay(seq)
    /\ UNCHANGED vars

Accept(seq) ==
    /\ ~CheckReplay(seq)
    /\ CommitReplay(seq)
    /\ log' = Append(log, seq)

Next ==
    \E seq \in Seqs : RejectReplay(seq) \/ RejectDamaged(seq) \/ Accept(seq)

Spec == Init /\ [][Next]_vars

-----------------------------------------------------------------------------

(* Two bounded integers: the bitmask never grows past W bits, however long *)
(* the session (the unbounded set it replaced did).                        *)
TypeOK ==
    /\ replayHighest \in Seqs \cup {-1}
    /\ replayBitmask \in SUBSET (0..W-1)
    /\ log \in Seq(Seqs)

(* decrypt returns a plaintext at most once for each sequence number,      *)
(* whatever the order and the number of copies in which packets arrive.    *)
AtMostOnce ==
    \A i, j \in DOMAIN log : log[i] = log[j] => i = j

(* The check is exact: it refuses the numbers already accepted and those   *)
(* the window no longer covers, and no others.  In particular a packet     *)
(* that failed its tag check never makes a later genuine packet with the   *)
(* same number be refused.                                                 *)
CheckExact ==
    \A seq \in Seqs :
        CheckReplay(seq) <=> \/ seq \in Accepted
                             \/ seq + W <= replayHighest

(* What the two integers mean: replayHighest is the highest number         *)
(* accepted, and bit d is set exactly when replayHighest - d was accepted. *)
WindowExact ==
    /\ \A seq \in Accepted : seq <= replayHighest
    /\ replayHighest # -1 => replayHighest \in Accepted
    /\ \A d \in 0..W-1 : d \in replayBitmask <=> replayHighest - d \in Accepted
=============================================================================
