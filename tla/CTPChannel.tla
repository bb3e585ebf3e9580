----------------------------- MODULE CTPChannel -----------------------------
(***************************************************************************)
(* A sending and a receiving CTP object (ctp_cipher.py) with one key and   *)
(* nonce, and the datagram network between them.                           *)
(*                                                                         *)
(* The network may lose, delay, reorder and repeat packets: any packet     *)
(* sent so far may arrive, now or never, once or often.  A damaged packet  *)
(* may show any sequence number and fails the tag check, which covers      *)
(* both the number and the ciphertext.                                     *)
(***************************************************************************)
EXTENDS CTPCipher, FiniteSets

CONSTANTS
    W,       \* replay_window_size; 64 in the code
    MaxSeq   \* bound: the largest sequence number that is sent

ASSUME ChannelAssumption == W \in Nat \ {0} /\ MaxSeq \in Nat

VARIABLES
    seq,            \* sender: the next sequence number
    snd,            \* sender: its stream state
    sent,           \* the packets sent; sent[s + 1] has sequence number s
    rcv,            \* receiver: its stream state
    replayHighest,  \* receiver: _replay_highest
    replayBitmask,  \* receiver: _replay_bitmask, as the set of its one bits
    received        \* history: what decrypt returned, with its keystream

vars == <<seq, snd, sent, rcv, replayHighest, replayBitmask, received>>

senderVars == <<seq, snd, sent>>

Seqs == 0..MaxSeq

(* The receiver's replay window, over the numbers it has accepted. *)
Log == [i \in DOMAIN received |-> received[i].seq]

Window == INSTANCE ReplayWindow WITH log <- Log

Packets == [seq : Seqs, keystream : Keystreams, plaintext : Messages]

-----------------------------------------------------------------------------

Init ==
    /\ seq = 0
    /\ snd = NewStream
    /\ sent = <<>>
    /\ rcv = NewStream
    /\ replayHighest = -1
    /\ replayBitmask = {}
    /\ received = <<>>

Encrypt(m) ==
    LET st == EnsureEpoch(snd, seq)
    IN  /\ seq <= MaxSeq
        /\ sent' = Append(sent, [seq |-> seq,
                                 keystream |-> Keystream(st, seq),
                                 plaintext |-> m])
        /\ snd' = Advance(st, seq, m)
        /\ seq' = seq + 1
        /\ UNCHANGED <<rcv, replayHighest, replayBitmask, received>>

(* ReplayError, on the number in the header alone. *)
DecryptReplay(s) ==
    /\ Window!CheckReplay(s)
    /\ UNCHANGED vars

DecryptDamagedBurns(s) ==  \* mutant: marked before the tag is checked
    /\ ~Window!CheckReplay(s)
    /\ Window!CommitReplay(s)
    /\ UNCHANGED <<seq, snd, sent, rcv, received>>

(* AuthenticationError. *)
DecryptDamaged(s) ==
    /\ ~Window!CheckReplay(s)
    /\ UNCHANGED vars

DecryptUncommitted(packet) ==  \* mutant: the window is never marked
    LET st == EnsureEpoch(rcv, packet.seq)
        keystream == Keystream(st, packet.seq)
        plaintext == Unmask(keystream, packet)
    IN  /\ ~Window!CheckReplay(packet.seq)
        /\ Len(received) <= MaxSeq + 1
        /\ rcv' = Advance(st, packet.seq, plaintext)
        /\ received' = Append(received, [seq |-> packet.seq,
                                         keystream |-> keystream,
                                         plaintext |-> plaintext])
        /\ UNCHANGED <<seq, snd, sent, replayHighest, replayBitmask>>

DecryptGenuine(packet) ==
    LET st == EnsureEpoch(rcv, packet.seq)
        keystream == Keystream(st, packet.seq)
        plaintext == Unmask(keystream, packet)
    IN  /\ ~Window!CheckReplay(packet.seq)
        /\ Window!CommitReplay(packet.seq)
        /\ rcv' = Advance(st, packet.seq, plaintext)
        /\ received' = Append(received, [seq |-> packet.seq,
                                         keystream |-> keystream,
                                         plaintext |-> plaintext])
        /\ UNCHANGED senderVars

Next ==
    \/ \E m \in Messages : Encrypt(m)
    \/ \E s \in Seqs : DecryptReplay(s) \/ DecryptDamaged(s)
    \/ \E i \in DOMAIN sent : DecryptGenuine(sent[i])

Spec == Init /\ [][Next]_vars

-----------------------------------------------------------------------------

TypeOK ==
    /\ seq \in 0..MaxSeq+1
    /\ snd \in StreamState
    /\ sent \in Seq(Packets)
    /\ rcv \in StreamState
    /\ replayHighest \in Seqs \cup {-1}
    /\ replayBitmask \in SUBSET (0..W-1)
    /\ received \in Seq([seq : Seqs, keystream : Keystreams,
                         plaintext : Plaintexts])

(* What the service sees: plaintexts sent, numbers and plaintexts had. *)
PlaintextsSent == [i \in DOMAIN sent |-> sent[i].plaintext]

PlaintextsReceived ==
    [i \in DOMAIN received |-> [seq |-> received[i].seq,
                               plaintext |-> received[i].plaintext]]

Service == INSTANCE CTPService
    WITH sent <- PlaintextsSent, received <- PlaintextsReceived,
         RestartableZero <- (BurnIn = EpochBurnIn)

(* A plaintext handed up is the one that was sent exactly when the         *)
(* receiver came to the packet in step.  Arrivals of other epochs, older   *)
(* or newer, do no lasting harm, and there is no other way to lose it.     *)
DecryptExact ==
    \A i \in DOMAIN received :
        received[i].plaintext = sent[received[i].seq + 1].plaintext
            <=> Service!InStep(received, i)

(* The anti-replay window keeps its promises inside decrypt. *)
ImplementsWindow == Window!Spec

(* The two objects keep the promise of the service over any network. *)
ImplementsService == Service!Spec

(* What the epochs were introduced for: as long as nothing overtakes,      *)
(* loss garbles only packets of an epoch that lost an earlier packet, and  *)
(* at most EpochSize - 1 of them.                                          *)
InOrder == \A i, j \in DOMAIN received : i < j => received[i].seq < received[j].seq

Garbled(e) ==
    {i \in DOMAIN received :
        /\ EpochOf(received[i].seq) = e
        /\ received[i].plaintext # sent[received[i].seq + 1].plaintext}

LossIsConfined ==
    InOrder =>
        \A e \in 0..EpochOf(MaxSeq) :
            /\ Cardinality(Garbled(e)) <= EpochSize - 1
            /\ \A i \in Garbled(e) :
                  \E s \in Seqs : /\ EpochOf(s) = e
                                 /\ s < received[i].seq
                                 /\ \A j \in DOMAIN received : received[j].seq # s

(* _epoch_reset, "from session keys and the epoch number alone": the first *)
(* packet of an epoch decrypts whenever the receiver enters the epoch with *)
(* it, whatever it has or has not processed before.                        *)
EpochStartExact ==
    \A i \in DOMAIN received :
        (/\ received[i].seq % EpochSize = 0
         /\ i > 1 => EpochOf(received[i-1].seq) # EpochOf(received[i].seq))
        => received[i].plaintext = sent[received[i].seq + 1].plaintext
=============================================================================
