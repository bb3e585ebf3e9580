----------------------------- MODULE CTPService -----------------------------
(***************************************************************************)
(* What a CTP sender and receiver promise each other over a network that   *)
(* may lose, delay, reorder, repeat and damage packets: a packet is handed *)
(* up at most once, and its plaintext is the one that was sent exactly     *)
(* when the receiver came to it in step.  Nothing tells the two cases      *)
(* apart.                                                                  *)
(***************************************************************************)
EXTENDS Integers, Sequences

CONSTANTS
    EpochSize,         \* packets to an epoch
    RestartableZero,   \* whether epoch 0, once left, can be started again
    Messages, Garbage

VARIABLES
    sent,      \* the plaintexts sent; sent[s + 1] has sequence number s
    received   \* what the receiver handed up: records [seq, plaintext]

vars == <<sent, received>>

Epoch(seq) == seq \div EpochSize

(***************************************************************************)
(* Entry i of a log of arrivals is in step: the receiver entered its epoch *)
(* with the epoch's first packet, and has had each packet of the epoch     *)
(* since then, in order, with nothing of another epoch in between.         *)
(***************************************************************************)
InStep(log, i) ==
    LET s == log[i].seq
        k == s % EpochSize
    IN  /\ k < i
        /\ \A j \in 0..k : log[i - j].seq = s - j
        /\ k + 1 < i => /\ Epoch(log[i - k - 1].seq) # Epoch(s)
                        /\ Epoch(s) = 0 => RestartableZero

Init == sent = <<>> /\ received = <<>>

Send(m) == sent' = Append(sent, m) /\ UNCHANGED received

Deliver(seq, plaintext) ==
    LET log == Append(received, [seq |-> seq, plaintext |-> plaintext])
    IN  /\ \A i \in DOMAIN received : received[i].seq # seq
        /\ plaintext = IF InStep(log, Len(log)) THEN sent[seq + 1] ELSE Garbage
        /\ received' = log
        /\ UNCHANGED sent

Next ==
    \/ \E m \in Messages : Send(m)
    \/ \E seq \in 0..Len(sent)-1, plaintext \in Messages \cup {Garbage} :
          Deliver(seq, plaintext)

Spec == Init /\ [][Next]_vars
=============================================================================
