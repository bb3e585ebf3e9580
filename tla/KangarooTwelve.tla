--------------------------- MODULE KangarooTwelve ---------------------------
(***************************************************************************)
(* k12_full.py: the tree that KangarooTwelve builds of a message, for the  *)
(* empty customization.  A byte with a number is the sequence of that      *)
(* number, a byte of a message some longer sequence.  The sponge is what   *)
(* KeccakSponge specifies; here its result is the padded input it stands   *)
(* for, so that two results are equal only if their inputs are.            *)
(***************************************************************************)
EXTENDS Integers, Sequences, FiniteSetsExt

CONSTANTS
    ChunkSize,  \* CHUNK_SIZE; 8192 in the code
    Rate        \* bytes of a block; 168 in the code

ASSUME TreeAssumption == ChunkSize \in Nat \ {0} /\ Rate \in Nat \ {0}

Byte(n) == <<n>>

(* The minimal encoding of n, without a byte for 0, and its length, for    *)
(* n below 256.                                                            *)
LengthEncode(n) == IF n = 0 THEN <<Byte(0)>> ELSE <<Byte(n), Byte(1)>>

Pad10Star1NoMerge(length, domain) ==  \* mutant: a single byte cannot be both ends
    LET padding == Rate - (length % Rate)
    IN  <<Byte(domain)>> \o [i \in 1..padding-2 |-> Byte(0)] \o <<Byte(128)>>

Pad10Star1(length, domain) ==
    LET padding == Rate - (length % Rate)
    IN  IF padding = 1 THEN <<Byte(domain + 128)>>
        ELSE <<Byte(domain)>> \o [i \in 1..padding-2 |-> Byte(0)] \o <<Byte(128)>>

Padded(data, domain) == data \o Pad10Star1(Len(data), domain)

Single == 7   \* the domains: one chunk,
Tree == 6     \* the final node,
Leaf == 11    \* a chunk after the first

(* The chaining value, 32 bytes in the code and here one. *)
ChainingValue(padded) == <<"cv", padded>>

Encoded(message) == message \o LengthEncode(0)

FirstChunk(message) ==
    SubSeq(Encoded(message), 1, Min({ChunkSize, Len(Encoded(message))}))

(* How many chunks follow the first. *)
Leaves(length) == length \div ChunkSize

Chunk(message, i) ==
    SubSeq(Encoded(message), i * ChunkSize + 1,
           Min({(i + 1) * ChunkSize, Len(Encoded(message))}))

FinalInput(first, cvs) ==
    first \o <<Byte(3)>> \o [i \in 1..7 |-> Byte(0)] \o cvs
          \o LengthEncode(Len(cvs)) \o <<Byte(255), Byte(255)>>

Kangaroo(message) ==
    IF Len(Encoded(message)) <= ChunkSize THEN Padded(Encoded(message), Single)
    ELSE Padded(FinalInput(FirstChunk(message),
                           [i \in 1..Leaves(Len(message)) |->
                               ChainingValue(Padded(Chunk(message, i), Leaf))]),
                Tree)
=============================================================================
