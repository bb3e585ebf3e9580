------------------------------ MODULE K12Batch ------------------------------
(***************************************************************************)
(* KangarooTwelve of many sessions at once, in the three orchestrations    *)
(* of the repository:                                                      *)
(*   "lockstep"    batched_k12_many_sessions (batched_k12_sessions.py)     *)
(*   "fused"       run_fused (benchmark_fused_k12.py), the same computation *)
(*                 in profile_fused_k12_phases.py and, for the leaves, in  *)
(*                 Stage B of keccak_fused_gpu.py                          *)
(*   "vectorized"  run_fused_vectorized (benchmark_fused_k12_vectorized.py) *)
(* A call cuts the messages into chunks, absorbs the chunks in groups of   *)
(* one padded length, and computes the final nodes.  Device fields are     *)
(* cached from call to call, by a key that has to determine their shape.   *)
(* What a kernel does with a group is the subject of KeccakKernels; here   *)
(* it is a step.  The chunk i of session s is <<s, i>>, its final node <<s, 0>>. *)
(***************************************************************************)
EXTENDS KangarooTwelve

CONSTANTS
    Orchestrations,  \* those that are called
    Sessions,        \* how many messages a call has
    Lengths,         \* bound: the lengths of the messages
    OutBlocks,       \* bound: the blocks of output a call asks for
    MaxCalls         \* bound: calls

ASSUME BatchAssumption ==
    /\ Orchestrations \subseteq {"lockstep", "fused", "vectorized"}
    /\ Sessions \in Nat \ {0}
    /\ Lengths \subseteq Nat
    /\ OutBlocks \subseteq Nat \ {0}
    /\ MaxCalls \in Nat

VARIABLES
    orchestration,
    lengths,   \* lengths[s]: of the message of s in this call
    outBlocks, \* n_squeeze_blocks of this call: its out_len in blocks
    stage,     \* "leaves", "finals", "returned"; "refused" by an assertion,
               \* "failed" with an exception of numpy's
    pending,   \* the groups of chunks that are not absorbed yet
    group,     \* the group that is being absorbed, or {}
    absorbed,  \* absorbed[id]: what the chunk of the group has absorbed
    cvs,       \* the chaining values, by chunk
    results,   \* results[s], or NoResult
    fields,    \* _field_cache: the shapes of the fields for each key
    upload,    \* the last upload: a key, and the shapes the launch needs
    calls      \* how many calls were begun

vars == <<orchestration, lengths, outBlocks, stage, pending, group, absorbed, cvs,
          results, fields, upload, calls>>

Session == 1..Sessions

NoResult == <<>>

NoUpload == [key |-> <<>>, shapes |-> <<>>]

(* Every byte of every message is different from all others. *)
Message(s) == [i \in 1..lengths[s] |-> <<"m", s, i>>]

ChunksOf(s) == {<<s, i>> : i \in 1..Leaves(lengths[s])}

AllChunks == UNION {ChunksOf(s) : s \in Session}

PaddedChunk(id) == Padded(Chunk(Message(id[1]), id[2]), Leaf)

-----------------------------------------------------------------------------
(* The vectorized cut into chunks: all messages have one length, the full  *)
(* chunks are taken from the message and the last one gets the suffix.     *)

Remaining == lengths[1] - ChunkSize       \* remaining_material_len

FullChunks == (Remaining + 1) \div ChunkSize

LastChunkLenNoSuffix == Remaining % ChunkSize  \* mutant: of the message alone

LastChunkLen == (Remaining + 1) % ChunkSize

Accepts ==
    /\ \A s \in Session : lengths[s] = lengths[1]
    /\ lengths[1] >= ChunkSize

(* remaining[:, :full_chunks_material_len].reshape(N, n_full_chunks, ...)  *)
FullChunksReshape == FullChunks > 0 => FullChunks * ChunkSize <= Remaining

PaddedLen(length) == length + Len(Pad10Star1(length, Leaf))

FullIds == {<<s, i>> : s \in Session, i \in 1..FullChunks}

LastIds == {<<s, FullChunks + 1>> : s \in Session}

VectorizedChunkFromStart(id) ==  \* mutant: cut from the message, not from what remains
    LET start == (id[2] - 1) * ChunkSize
        data  == IF id \in FullIds
                 THEN SubSeq(Message(id[1]), start + 1, start + ChunkSize)
                 ELSE SubSeq(Message(id[1]), start + 1, start + LastChunkLen - 1)
                      \o LengthEncode(0)
    IN  data \o Pad10Star1(IF id \in FullIds THEN ChunkSize ELSE LastChunkLen, Leaf)

(* What is absorbed for a chunk: the last one is the rest of the message   *)
(* and the suffix.                                                         *)
VectorizedChunk(id) ==
    LET start == id[2] * ChunkSize
        data  == IF id \in FullIds
                 THEN SubSeq(Message(id[1]), start + 1, start + ChunkSize)
                 ELSE SubSeq(Message(id[1]), start + 1, lengths[1]) \o LengthEncode(0)
    IN  data \o Pad10Star1(IF id \in FullIds THEN ChunkSize ELSE LastChunkLen, Leaf)

(* groups[padded_len] = ..., for the full chunks and then for the last. *)
VectorizedGroups ==
    LET full == IF FullChunks > 0 THEN {FullIds} ELSE {}
        last == IF LastChunkLen > 0 THEN {LastIds} ELSE {}
    IN  IF LastChunkLen > 0 /\ PaddedLen(LastChunkLen) = PaddedLen(ChunkSize)
        THEN last ELSE full \cup last

(* groups.setdefault(len(p), []).append(...) *)
GroupsOf(ids, LengthOf(_)) ==
    {{id \in ids : LengthOf(id) = length} : length \in {LengthOf(id) : id \in ids}}

LengthGroups == GroupsOf(AllChunks, LAMBDA id : Len(PaddedChunk(id)))

-----------------------------------------------------------------------------

Init ==
    /\ orchestration \in Orchestrations
    /\ lengths = [s \in Session |-> 0]
    /\ outBlocks = 0
    /\ stage = "returned"
    /\ pending = {} /\ group = {}
    /\ absorbed = <<>> /\ cvs = <<>>
    /\ results = [s \in Session |-> NoResult]
    /\ fields = <<>> /\ upload = NoUpload
    /\ calls = 0

(* The call: the cut into chunks, and the returns and errors of it. *)
Call ==
    /\ stage \in {"returned", "refused", "failed"}
    /\ calls < MaxCalls
    /\ calls' = calls + 1
    /\ lengths' \in [Session -> Lengths]
    /\ outBlocks' \in OutBlocks
    /\ results' = [s \in Session |-> NoResult]
    /\ cvs' = <<>>
    /\ IF orchestration = "vectorized"
       THEN /\ stage' = CASE ~Accepts' -> "refused"
                          [] Accepts' /\ ~FullChunksReshape' -> "failed"
                          [] OTHER -> "leaves"
            /\ pending' = IF stage' = "leaves" THEN VectorizedGroups' ELSE {}
       ELSE /\ stage' = "leaves"
            /\ pending' = LengthGroups'
    /\ UNCHANGED <<orchestration, group, absorbed, fields, upload>>

(* _get_cached_field, _get_fields, and from_numpy into what they return. *)
Upload(key, shapes) ==
    /\ fields' = IF key \in DOMAIN fields THEN fields
                 ELSE [k \in DOMAIN fields \cup {key} |->
                         IF k = key THEN shapes ELSE fields[k]]
    /\ upload' = [key |-> key, shapes |-> shapes]

Blocks(ids) == LET id == CHOOSE i \in ids : TRUE IN Len(PaddedChunk(id)) \div Rate

LeafKeyOfSize(ids) == <<"leaf", Cardinality(ids)>>  \* mutant: without n_blocks

LeafKey(ids) == <<"leaf", Cardinality(ids), Blocks(ids)>>

(* A group in lockstep: a field for the states, of any number of blocks. *)
BeginLockstep(ids) ==
    /\ orchestration = "lockstep"
    /\ stage = "leaves" /\ group = {} /\ ids \in pending
    /\ pending' = pending \ {ids}
    /\ group' = ids
    /\ absorbed' = [id \in ids |-> <<>>]
    /\ UNCHANGED <<orchestration, lengths, outBlocks, stage, cvs, results, fields, upload,
                   calls>>

LockstepBlock ==
    /\ orchestration = "lockstep"
    /\ group # {}
    /\ \E id \in group : Len(absorbed[id]) < Len(PaddedChunk(id))
    /\ absorbed' = [id \in group |->
                      absorbed[id] \o SubSeq(PaddedChunk(id), Len(absorbed[id]) + 1,
                                             Len(absorbed[id]) + Rate)]
    /\ Upload(<<Cardinality(group)>>, << <<Cardinality(group), 5, 5>> >>)
    /\ UNCHANGED <<orchestration, lengths, outBlocks, stage, pending, group, cvs, results, calls>>

(* A group in one launch: all its blocks are uploaded before it. *)
LaunchLeaves(ids) ==
    /\ orchestration # "lockstep"
    /\ stage = "leaves" /\ group = {} /\ ids \in pending
    /\ pending' = pending \ {ids}
    /\ group' = ids
    /\ absorbed' = [id \in ids |-> IF orchestration = "fused" THEN PaddedChunk(id)
                                   ELSE VectorizedChunk(id)]
    /\ Upload(LeafKey(ids), << <<Cardinality(ids), Blocks(ids), Rate>>,
                               <<Cardinality(ids), 5, 5>> >>)
    /\ UNCHANGED <<orchestration, lengths, outBlocks, stage, cvs, results, calls>>

Collected ==
    [id \in DOMAIN cvs \cup group |->
        IF id \in group THEN ChainingValue(absorbed[id]) ELSE cvs[id]]

CollectGroup ==
    /\ group # {}
    /\ \A id \in group : Len(absorbed[id]) = Len(PaddedChunk(id))
    /\ cvs' = Collected
    /\ group' = {} /\ absorbed' = <<>>
    /\ UNCHANGED <<orchestration, lengths, outBlocks, stage, pending, results, fields,
                   upload, calls>>

SessionCVs(s) == [i \in 1..Leaves(lengths[s]) |-> cvs[<<s, i>>]]

(* final_input with the chaining values of s, of which there may be none. *)
TreeInput(s) == FinalInput(FirstChunk(Message(s)), SessionCVs(s))

LeavesDone == stage = "leaves" /\ pending = {} /\ group = {}

(* The final nodes, on the host: one decision for the whole batch. *)
LockstepFinals ==
    /\ orchestration = "lockstep"
    /\ LeavesDone
    /\ results' = IF AllChunks = {}
                  THEN [s \in Session |-> Padded(FirstChunk(Message(s)), Single)]
                  ELSE [s \in Session |-> Padded(TreeInput(s), Tree)]
    /\ stage' = "returned"
    /\ UNCHANGED <<orchestration, lengths, outBlocks, pending, group, absorbed, cvs, fields,
                   upload, calls>>

DomainOfBatch(s) == IF AllChunks = {} THEN Single ELSE Tree  \* mutant: one domain for all

(* domain_per_session *)
Domain(s) == IF ChunksOf(s) = {} THEN Single ELSE Tree

FusedFinal(s) ==
    Padded(IF ChunksOf(s) = {} THEN FirstChunk(Message(s)) ELSE TreeInput(s), Domain(s))

FinalGroups ==
    GroupsOf({<<s, 0>> : s \in Session},
             LAMBDA id : <<Domain(id[1]), Len(FusedFinal(id[1]))>>)

BeginFusedFinals ==
    /\ orchestration = "fused"
    /\ LeavesDone
    /\ stage' = "finals"
    /\ pending' = FinalGroups
    /\ UNCHANGED <<orchestration, lengths, outBlocks, group, absorbed, cvs, results, fields,
                   upload, calls>>

(* The fields of a launch that absorbs a final node and squeezes it. *)
FinalShapes(sessions, blocks) ==
    << <<sessions, blocks, Rate>>, <<sessions, outBlocks, Rate>> >>

(* One launch for the sessions of one domain and length. *)
LaunchFinals(ids) ==
    /\ stage = "finals"
    /\ ids \in pending
    /\ pending' = pending \ {ids}
    /\ results' = [s \in Session |-> IF <<s, 0>> \in ids THEN FusedFinal(s) ELSE results[s]]
    /\ \E id \in ids :
          LET blocks == Len(FusedFinal(id[1])) \div Rate
          IN  Upload(<<"final", Domain(id[1]), Cardinality(ids), blocks, outBlocks>>,
                     FinalShapes(Cardinality(ids), blocks))
    /\ stage' = IF pending' = {} THEN "returned" ELSE "finals"
    /\ UNCHANGED <<orchestration, lengths, outBlocks, group, absorbed, cvs, calls>>

(* all_cvs.reshape(N, n_chunks_per_session * 32) fails when a group of     *)
(* chunks was replaced by the other one; then one launch for all sessions. *)
VectorizedFinals ==
    /\ orchestration = "vectorized"
    /\ LeavesDone
    /\ IF DOMAIN cvs = AllChunks
       THEN /\ stage' = "returned"
            /\ results' = [s \in Session |-> Padded(TreeInput(s), Tree)]
            /\ LET blocks == Len(results'[1]) \div Rate
               IN  Upload(<<"final", Sessions, blocks, outBlocks>>,
                          FinalShapes(Sessions, blocks))
       ELSE /\ stage' = "failed"
            /\ UNCHANGED <<results, fields, upload>>
    /\ UNCHANGED <<orchestration, lengths, outBlocks, pending, group, absorbed, cvs, calls>>

Next ==
    \/ Call
    \/ \E ids \in pending : BeginLockstep(ids) \/ LaunchLeaves(ids) \/ LaunchFinals(ids)
    \/ LockstepBlock \/ CollectGroup
    \/ LockstepFinals \/ BeginFusedFinals
    \/ VectorizedFinals

Spec == Init /\ [][Next]_vars

-----------------------------------------------------------------------------

TypeOK ==
    /\ orchestration \in Orchestrations
    /\ lengths \in [Session -> Lengths \cup {0}]
    /\ outBlocks \in OutBlocks \cup {0}
    /\ stage \in {"leaves", "finals", "returned", "refused", "failed"}
    /\ \A ids \in pending : ids \subseteq AllChunks \cup {<<s, 0>> : s \in Session}
    /\ group \subseteq AllChunks /\ DOMAIN cvs \subseteq AllChunks
    /\ \A id \in group : Len(absorbed[id]) \in 0..Len(PaddedChunk(id))
    /\ \A s \in Session : results[s] = NoResult \/ Len(results[s]) % Rate = 0
    /\ calls \in 0..MaxCalls

(* A chaining value is that of its chunk in the tree, whichever chunks of  *)
(* whichever sessions shared its group, and in which order the groups ran. *)
LeavesExact ==
    \A id \in DOMAIN cvs : cvs[id] = ChainingValue(PaddedChunk(id))

Mixed == \E a, b \in Session : ChunksOf(a) = {} /\ ChunksOf(b) # {}

(* Every session of a batch gets what kangarootwelve() gives for its       *)
(* message alone; but for the lockstep orchestration only if the messages  *)
(* are all longer than a chunk, or none is.                                *)
ResultsExact ==
    stage = "returned" /\ calls > 0 /\ ~(orchestration = "lockstep" /\ Mixed)
        => \A s \in Session : results[s] = Kangaroo(Message(s))

(* The same of every batch ("Validated against running                     *)
(* k12_full.kangarootwelve() independently per session",                   *)
(* batched_k12_sessions.py).                                               *)
MixedBatchExact ==
    stage = "returned" /\ calls > 0
        => \A s \in Session : results[s] = Kangaroo(Message(s))

(* The fields that are found in the cache have the shapes of what is       *)
(* uploaded into them and squeezed from them, whatever the calls before    *)
(* asked for: the key names all that a shape depends on.  What an earlier  *)
(* call left in a field is no part of this, as from_numpy overwrites it.   *)
FieldFits == upload # NoUpload => fields[upload.key] = upload.shapes

(* The vectorized path raises an exception for no other lengths than those *)
(* whose last chunk is padded to the length of a full one.                 *)
FailsOnlyOnFullTail ==
    stage = "failed" =>
        \A s \in Session :
            Len(PaddedChunk(<<s, Leaves(lengths[s])>>)) = PaddedLen(ChunkSize)
=============================================================================
