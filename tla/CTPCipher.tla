----------------------------- MODULE CTPCipher -----------------------------
(***************************************************************************)
(* The keystream state of one CTP object (ctp_cipher.py): the ratchet hash *)
(* and the lattice, with the epoch they were derived for.                  *)
(*                                                                         *)
(* Hashes are symbolic: a digest is the sequence of what was absorbed, so  *)
(* two digests are equal exactly when the same data went in.  The ratchet  *)
(* state of epoch e is `epoch' with the <<seq, plaintext>> pairs chained   *)
(* on it since the epoch started.  The lattice is the one seeded for       *)
(* `epoch', after `burnin' burn-in generations and one generation for each *)
(* sequence number of `steps' (the perturbation depends on the number      *)
(* alone).  Both keys and nonce are those of the one session modelled.     *)
(***************************************************************************)
EXTENDS Integers, Sequences

CONSTANTS
    EpochSize,    \* epoch_size, at least 1
    EvolveEvery,  \* evolve_every, at least 1
    BurnIn,       \* burn_in: generations before the first packet
    EpochBurnIn,  \* epoch_burn_in: generations at every later epoch start
    Messages,     \* plaintexts, long enough that no two keystreams agree
    Garbage       \* what decryption under another keystream returns

ASSUME CipherAssumption ==
    /\ EpochSize \in Nat \ {0}
    /\ EvolveEvery \in Nat \ {0}
    /\ BurnIn \in Nat
    /\ EpochBurnIn \in Nat
    /\ Garbage \notin Messages

Plaintexts == Messages \cup {Garbage}

EpochOf(seq) == seq \div EpochSize

StreamState ==
    [epoch  : Nat,
     burnin : Nat,
     chain  : Seq(Nat \X Plaintexts),
     steps  : Seq(Nat),
     count  : Nat]

EpochReset(epoch, burnin) ==
    [epoch |-> epoch, burnin |-> burnin,
     chain |-> <<>>, steps |-> <<>>, count |-> 0]

(* The constructor resets to epoch 0 with the session's own burn-in. *)
NewStream == EpochReset(0, BurnIn)

EnsureNewerEpoch(st, seq) ==  \* mutant: never goes back to an epoch
    IF EpochOf(seq) > st.epoch THEN EpochReset(EpochOf(seq), EpochBurnIn)
                               ELSE st

EnsureNoReset(st, seq) ==  \* mutant: one chain for the whole session
    [st EXCEPT !.epoch = EpochOf(seq)]

EnsureEpoch(st, seq) ==
    IF EpochOf(seq) # st.epoch THEN EpochReset(EpochOf(seq), EpochBurnIn)
                               ELSE st

(* What is absorbed to extract the keystream: state, lattice and seq. *)
Keystream(st, seq) ==
    [epoch |-> st.epoch, burnin |-> st.burnin,
     chain |-> st.chain, steps |-> st.steps, seq |-> seq]

Keystreams ==
    [epoch : Nat, burnin : Nat, chain : Seq(Nat \X Plaintexts),
     steps : Seq(Nat), seq : Nat]

Advance(st, seq, plaintext) ==
    [st EXCEPT
        !.chain = Append(@, <<seq, plaintext>>),
        !.count = @ + 1,
        !.steps = IF (st.count + 1) % EvolveEvery = 0 THEN Append(@, seq)
                                                      ELSE @]

(* XOR with the keystream that enciphered a packet gives its plaintext     *)
(* back; XOR with any other gives garbage, and nothing reports it.         *)
Unmask(keystream, packet) ==
    IF keystream = packet.keystream THEN packet.plaintext ELSE Garbage
=============================================================================
