# A verification project for the Chaotic Torus Protocol

This directory holds TLA+ models of the code in `src/scripts`, TLC
configurations that check them on small instances, and proofs of their main
theorems that TLAPS checks for every value of the parameters.
`PROJECT.json` lists the components, the runs, the source lines each definition
stands for, the mutated definitions each property is known to catch, the
hazards and the theorems.

    tlc -config MCChannel.cfg MCChannel.tla       # a model-checking run
    tlapm CTPChannelProofs.tla                    # the proofs of one module

## 1. The system

CTP is a prototype transport cipher. A session is two `CTP` objects with one
master key and one nonce: one that only encrypts and one that only decrypts
(two such pairs make a conversation). A packet is `seq || tag || ciphertext`,
and the datagram network between them may lose, delay, reorder, repeat or
damage it.

| Part | Source | State | Operations |
|---|---|---|---|
| Replay window | `ctp_cipher.py` 417-451 | `_replay_highest`, `_replay_bitmask` | `_check_replay` (reads), `_commit_replay` (marks) |
| Cipher: ratchet, epochs, lattice schedule | `ctp_cipher.py` 285-556 | `seq`, `state`, `lattice`, `current_epoch`, `_epoch_packet_count` | constructor, `encrypt`, `decrypt`; inside them `_ensure_epoch`, `_epoch_reset`, `_keystream`, `_advance` |
| Feistel lattice | `ctp_cipher.py`, `feistel_lattice.py` | the two halves, `generation` | `step` |
| Connection IDs, path validation | `ctp_session_manager.py` | `cid_to_session`, `trusted_address`, `_last_challenge_time` | `register_session`, `receive_packet`, `_refresh_registration` |
| UDP demonstration: client and server | `CTP/ctp_udp_*.py` | two CTP objects and a socket a side, the address of the peer | INIT with retries, one ACK, sending, receiving |
| UDP demonstration: diagnostics and display | `CTP/ctp_udp_common.py` 75-113 and the threads of both programs | counters, last messages, log, one lock | `note`, `snapshot_text`, the `with diag.lock` blocks |
| K12 from scratch | `k12_full.py`, `keccak_reference.py` | none that lasts | chunking, padding, chaining values, the sponge |
| K12 in batches | `batched_k12_sessions.py`, `benchmark_fused_k12*.py`, `profile_fused_k12_phases.py`, `keccak_fused_gpu.py`, `keccak_p12_gpu.py` | groups of chunks, device fields cached by shape, the kernels' lanes | cut, group, upload, launch, collect |
| GPU lattices | `ctp_gpu.py`, `batched_feistel_lattice.py` | three rotating buffers, a scratch buffer, the round constant | constructor, `step` |
| Backend probe | `gpu_backend.py` | the backend chosen | probe in a child process, fall back |

How they interact. `CTPSession.encrypt` puts the connection ID of the packet's
epoch before the packet. `receive_packet` looks the ID up, settles whether the
source address is trusted (with a callback that delivers a challenge), and
only then calls `decrypt`. `decrypt` checks the replay window, verifies the
tag, commits the window, enters the packet's epoch, extracts the keystream and
advances the chain. After it, `_refresh_registration` registers the IDs of the
epochs ahead of the epoch the CTP object is then in. There is no thread in this
part: what is hard about it is what the network does between the calls. The UDP
programs use the cipher directly, one object for each direction, and do have
threads: the console encrypts with the sending object, the network thread
decrypts with the receiving one, and the main thread reads both for the display.
The lattice of a CTP object is seeded from K12 of the epoch's material; the GPU
lattices and the batched K12 are meant to compute, for many sessions at once,
bit for bit what the CPU code computes for one.

What is hard, component by component, and what makes it correct:

* **Replay window.** Arrival orders whose shifts fall on, or beside, the
  window's width; a damaged packet between a check and a commit. Correct: a
  number is accepted at most once, and refused exactly when it was accepted
  before or is too old.
* **Cipher.** The chain absorbs every plaintext in order, so loss and
  reordering silently turn later packets of the epoch to garbage. A late packet
  of another epoch resets the receiver twice. Correct: the plaintext is the one
  sent exactly in the cases the design intends, and damage ends with its epoch.
* **Connection IDs.** The epoch registered from can go back; the lookahead can
  be exhausted; packets come late from an address the peer has left, or show one
  it never was at; a lost challenge starts a cooldown. Correct: the IDs ahead stay registered, a
  trusted address gives way only to one that answers, challenges are spaced, a
  peer that moves is let in at last, and what comes within the lookahead of the
  newest packet accepted gets through, whatever was lost between.
* **UDP handshake.** One ACK that can be lost and names no session, retries
  against a server that is past its handshake, data that overtakes the ACK,
  clients and servers that stop and start again among the old packets. Correct:
  sessions never mix, no run of a program reads a message twice, the loop ends
  and a lost ACK does no harm.
* **Diagnostics and display.** Counts and messages written one after the other,
  read by a third thread, under a lock that is not reentrant; a lattice that is
  replaced while it is drawn, and a picture that is kept when the grid did not
  change. Correct: counts are exact, what is shown belongs together, the picture
  is that of a grid there was and catches up, nobody waits for ever.
* **Lattices on the device.** Buffers whose references rotate instead of their
  contents being copied; a round constant shared by a batch, uploaded between
  two launches. Correct: every session goes through the rounds of the CPU's
  lattice, a step can be undone, and sessions never merge.
* **K12.** Chunk and block boundaries, chunks of all sessions regrouped by padded
  length, a domain decided for a batch, fields reused by later calls, two orders
  of the lanes, lanes updated in place loop after loop. Correct: every session
  gets what `kangarootwelve` gives for its message alone.

## 2. The modules

    ReplayWindow          the window on its own, any numbers in any order
    ReplayWindowProofs    its inductive invariant and four theorems
    CTPCipher             the state of one CTP object and its helpers (no actions)
    CTPService            abstract: what a sender and a receiver promise
    CTPChannel            sender + network + receiver; EXTENDS CTPCipher,
                          INSTANCEs ReplayWindow and CTPService (refinements)
    CTPChannelProofs      the channel's invariant, what loss can garble, and
                          five theorems
    SessionManager        a session behind ValidatingCTPSessionManager, a peer
                          that moves, the network, the clock
    SessionManagerProofs  its invariant and four theorems
    UdpHandshake          clients and the server of the UDP demonstration
    UdpHandshakeProofs    its invariant and three theorems
    UdpThreads            the threads of one side and its diagnostics
    UdpDisplay            UdpThreads with the lattice and its picture; EXTENDS it
    UdpDisplayProofs      the invariants of both, that UdpDisplay implements
                          UdpThreads, and their theorems, six in all
    FeistelLattice        the lattice of the CPU, bit for bit
    LatticeKernels        the lattices on the device; INSTANCEs FeistelLattice,
                          which it implements for each session
    LatticeKernelsProofs  its invariant and four theorems
    KeccakSponge          the permutation and the sponge of the reference
    KeccakKernels         the three device kernels; INSTANCEs KeccakSponge, which
                          each thread implements
    KeccakKernelsProofs   its invariant and two theorems
    KangarooTwelve        the tree KangarooTwelve builds of a message (no state)
    K12Batch              the batched pipelines; EXTENDS KangarooTwelve
    K12BatchProofs        its invariant and five theorems
    MC*                   what TLC needs besides: inputs, symmetry

### ReplayWindow

`replayHighest` and `replayBitmask` are the two integers; the bitmask is the set
of its one bits, so that `<<= shift` adds to each and `& (1 << W) - 1` drops
those from `W` up. `CheckReplay` is `_check_replay`, `CommitReplay` is
`_commit_replay`, and the three actions are the three ends of `decrypt`:
`ReplayError` (`RejectReplay`), `AuthenticationError` (`RejectDamaged`) and a
plaintext (`Accept`). `log` is a history variable: the numbers accepted.

### CTPCipher and CTPChannel

Hashes are symbolic: a digest is what was absorbed, so equal digests mean equal
input. The ratchet state of an epoch is therefore the epoch with the chain of
`<<seq, plaintext>>` pairs absorbed since, and the lattice is the one seeded
for that epoch, with the number of burn-in generations and the list of the
numbers it was perturbed with. The keystream of a packet is all of that with
its number. XOR with the keystream that enciphered a packet gives the plaintext
back, and XOR with any other gives `Garbage`. This assumes payloads long enough
that two different keystreams do not agree by chance; an empty payload decrypts
under any keystream, and is not modelled. Tags are symbolic too: a packet is
genuine or it fails the check.

`Encrypt` is `encrypt` whole (epoch, keystream, chain, lattice, `seq`).
`decrypt` has three ends, as above: `DecryptReplay`, `DecryptDamaged`,
`DecryptGenuine`. A packet, once sent, may arrive at any later time and any
number of times, or never; a damaged one may show any number. `received` is a
history variable: what `decrypt` returned, with the keystream it used.

`CTPService` has two variables, the plaintexts sent and the log of plaintexts
handed up. It has no ratchet, epoch state or lattice. `Deliver` hands up a
number at most once, with the plaintext sent exactly when the log is *in step*
at that entry: the receiver entered the epoch with the epoch's first packet and
has had each of its packets since, in order, with nothing of another epoch in
between. `InStep` is stated over the log of arrivals alone. The channel
implements it with `sent` and `received` mapped to their plaintexts.

Epoch 0 needs its constant `RestartableZero`. The constructor enters epoch 0
with `burn_in` generations, and every later reset uses `epoch_burn_in`. Unless
the two are equal, a receiver that has left epoch 0 cannot start it again.

### SessionManager

Dictionaries are keyed by connection ID, a hash of a session's key and an
epoch, so sessions share nothing and one session is modelled; its IDs are its
epochs. The replay window is here as what is proved of it (`CheckIsExact`), so
the state is the set of accepted numbers. `receive_packet` has one action for
each of its ways out: `ReceiveUnknown` (KeyError), `ReceiveFirst` (trust on
first use), `ReceiveTrusted`, `ReceiveThrottled`, `ReceiveUnproven` (the
challenge or its answer is lost, or the peer has left the address) and
`ReceiveProven`. All that get past the address end in `Decrypt`, which is
`decrypt` with `_refresh_registration`. `decrypt` raises before the
registration is refreshed but after the address was trusted, and so does the
model. The clock is kept as the ticks since each challenge, up to the cooldown,
beyond which the code does not tell times apart. `source_address` is not covered
by the packet's tag, and so each of the actions takes *any* address: a copy of a
packet may show one the peer never was at. The set `Lost` of packets never
arrives, and `Delivered` does in the end, from where it was sent (`Source`). The class raises when a
challenge fails and keeps no state of it but its time.

`via`, `proven` and `recent` are history variables: the address shown by the
last packet accepted, the addresses that proved possession of the key, and how
many challenges of each age below the cooldown were issued, for each key of
`_last_challenge_time`.

### UdpHandshake

A client is one *run* of the client program, with its own socket and its own
two random nonces; one that is stopped (`Stop`) and started again is another
member of `Clients`. So a server that outlives a client, and a client that
finds the server taken, are both in the model. The server may be started again
too (`ServerRestart`): it comes up with no session, and takes whichever INIT
reaches it next, a late one of an earlier session included, with an empty
window (`serverWindow`). What a run of the server read is kept in two history
variables, `serverLog` for the present run and `former` for each that ended, so
that `SessionsApart` speaks of all of them. `Start` sends the first INIT;
`recvfrom` ends in `Timeout`, in `ReceiveAck`, or in `ReceiveEarly`, which
throws away a message that overtook the ACK. `Timeout` and `ReceiveEarly` go on
to `NextAttempt`, which sends INIT again or, after the last attempt, leaves the
loop with `acked` false. `ServerTake` is the server's first INIT and its
only ACK. `ServerSend`, `ServerDecrypt` and `ServerRefuse` are its two threads
afterwards, `ClientSend` and `ClientReceive` the client's.

The network is the set of the datagrams sent. Any of them may arrive at any
time, any number of times. `decrypt` is here as what is proved of it: it takes
a number once, and only under the nonce it was sent with; what a gap does to
the plaintext is the channel's matter. The socket's port is assumed not to be
given to another client while old packets for it are under way.

### UdpThreads

The three threads of one side, at the grain of what they share: each access to
the sending CTP object's `seq` and `current_epoch`, each `with diag.lock` block
split where another thread could come between if the lock did not prevent it.
`Encrypt` and `AdvanceSeq` are the two changes `encrypt` makes in the console
thread, without the lock. `Receive(outcome)` is `decrypt`'s return or one of
its two errors, followed by the handler of that outcome. `ReadSeq`, `ReadEpoch`
and `ReadDiagnostics` are `snapshot_text`, in the order it evaluates them; a
frame takes the fields that are displayed (`TextOf`; the last message *sent* is
kept by the code and never shown) and the lines of the log. The active cells of
the lattice, and what is shown of `recv_ctp`, are left out. A
thread that fails (`SendFails`, `ReceiveFails`) ends and the others go on. The
n-th message is the number n, so that a count can be compared with the message
it belongs to. `onWire` and `handled` are history variables.

### UdpDisplay

The sending object's lattice is here as the *moment* it is at: its epoch and how
often its grid was assigned since it was seeded (twice a step: before and after
the perturbation). `Encrypt` of UdpThreads is split into what the display can
see: `ResetLattice` (the new object), `BurnInLattice` (one assignment),
`EnterEpoch` (`current_epoch` changes, after the burn-in), `StepLattice` and
`FinishEncrypt`. A frame of the main thread is `TakeGrid` (`lattice_snapshot`,
without a lock), the reads of `snapshot_text`, and `Render`, which rebuilds the
blocks only if the grid is not the one kept. What a grid holds at a moment and
which blocks of a grid are drawn are parameters (`GridOf`, `Filled`): nothing is
assumed of them, two moments may have the same grid and two grids the same
blocks. Each step of the module is one of UdpThreads or changes none of its
variables, so that what is proved of UdpThreads holds of it.

### FeistelLattice and LatticeKernels

A half-lattice is the set of its cells that are 1, XOR is the symmetric
difference, and `At` is `np.roll`. `Theta`, `ChiQuadratic`, `ChiCubic` and
`FeistelF` are the functions of `ctp_cipher.py` on it, `RoundOf` and `UndoRound`
a round of `feistel_step` and of `feistel_step_inverse`, `StepOf` and `UndoStep`
their loops over the rounds, upwards and downwards. What SHAKE-256 expands seeds, perturbations and round tags to is a
parameter. A state of FeistelLattice is a lattice between two rounds of `step`.

LatticeKernels has an object for each set of sessions: of one session it is
`GPUFeistelLattice`, of several `BatchedFeistelLattice`. `field` holds the three
buffers, `ref` which of them `L`, `R` and `_extra` refer to. A round is three
launches: `LaunchTheta` writes the scratch buffer, `UploadConstant` the round
constant, `LaunchCombine` computes into `_extra` and rotates the references.
`EndStep` is the perturbation, which only a single session's lattice takes.
`Lattice(o, s)`, the session's buffers read through the references, is the
refinement mapping.

### KeccakSponge and KeccakKernels

A lane is the set of its bits that are 1, a state a lane for each x and y.
KeccakSponge is the reference: absorb a block, permute a round at a time, squeeze
a block. KeccakKernels is the three ways the device runs it: `batch` (the host
absorbs, a launch permutes in place), `leaf` (a thread absorbs all of its blocks
into a local, flat vector and writes the state back) and `final` (a thread
squeezes as well). A round is the kernel's loops, one action each (`Columns`,
`ThetaLanes`, `RhoPiLanes`, `ChiLanes`, `IotaLane`), interleaved with those of
the other threads. `SpongeState` maps back what a thread holds in the middle of
a round: theta is undone until chi has overwritten the lanes, and after that the
round counts as done.

### KangarooTwelve and K12Batch

A message is a sequence of bytes that are all different, and the result of the
sponge is the padded input it was given, so that two results agree only if their
inputs do. `Kangaroo` is `kangarootwelve` for the empty customization, the only
one the code uses; a chaining value counts as one byte.

K12Batch is a host program that is called again and again, with one of three
orchestrations. `lockstep` (`batched_k12_sessions.py`) absorbs a block of every
chunk of a group at a time and computes the final nodes on the host; `fused`
(`benchmark_fused_k12.py`, and again in `profile_fused_k12_phases.py`) uploads a
group whole and launches the final nodes by domain and length; `vectorized`
(`benchmark_fused_k12_vectorized.py`) cuts messages of one length by arithmetic
(`keccak_fused_gpu.py`). Groups run in any order, which is more
than the code's dictionaries allow. `fields` is the cache of device fields by
key, with the shapes each entry was made for; it outlives a call. A call asks for
`outBlocks` blocks of output (`n_squeeze_blocks`), which is part of the key of the
final node's fields. What an earlier call left in a field is not modelled:
`from_numpy` overwrites all of it, and what could go wrong is its shape. `stage` says how a
call ended: returned, refused by an assertion, or failed with an exception of
numpy's.

## 3. The runs

| Run | Instance | Shows |
|---|---|---|
| `replay_window` | window of 3, numbers 0-7 | `TypeOK`, `AtMostOnce`, `CheckExact`, `WindowExact` |
| `channel` | 2 epochs of 3 packets, lattice every 2, two payloads, window of 4, burn-ins 2 and 1 | `TypeOK`, `DecryptExact`, `LossIsConfined`, implements `ReplayWindow` and `CTPService` |
| `epoch_start` | epochs of 2, window of 4, burn-ins 2 and 1 | `EpochStartExact` fails (section 5) |
| `manager` | 6 epochs of a packet, window of 3, lookahead 2, cooldown 2, two addresses, epochs 1, 3 and 4 lost, fair | `TypeOK`, `RoutesAhead`, `ChallengesSpaced`, `PathValidated`, `MigrationCompletes`, `LookaheadSuffices` |
| `manager_outage` | epochs of one packet, the code's lookahead of 3, epochs 1 to 3 lost after packet 0, fair | `LastPacketArrives` fails (section 5) |
| `manager_trust` | 2 epochs of two packets | `TrustIsProven` fails (section 5) |
| `udp_handshake` | 2 clients, 2 attempts, 2 messages a stream, one restart of the server, fair | `TypeOK`, `AckMeansSession`, `SessionsApart`, `HandshakeEnds`, `LostAckHarmless` |
| `udp_threads` | UdpDisplay: epochs of 1, log of 1 line, 2 messages sent, 1 datagram handled, burn-ins 0 and 1, fair | `TypeOK`, `DisplayTypeOK`, `ShownTogether`, `CountsExact`, `PictureOfFrame`, `NobodyWaits`, `PictureCatchesUp` |
| `lattice` | torus of 6, 2 rounds, 2 generations, an object of one session and one of two | `TypeOK`, `RoundTrip`, `SessionsStayApart`, implements `FeistelLattice` |
| `keccak` | 2 threads, lanes of 4 bits, 2 rounds, 21 lanes a block, 1 or 2 blocks in and out | `TypeOK`, implements `KeccakSponge` |
| `k12` | 3 sessions, chunks of 5, blocks of 3, six lengths from 0 to 10, 1 or 2 blocks of output, 2 calls | `TypeOK`, `LeavesExact`, `ResultsExact`, `FieldFits`, `FailsOnlyOnFullTail` |
| `k12_mixed` | 2 sessions, lockstep | `MixedBatchExact` fails (section 5) |

**Bounds.** `MaxSeq` bounds the numbers sent, the one unbounded counter.
With `W = 3` and eight numbers the window slides by every shift from 1 to past
its width and every bit is used. Two epochs of three packets have every place
in an epoch (first, inner, last), a lattice step inside an epoch and a change
of epoch in both directions, and two payloads tell a chain with a wrong
plaintext from one with the right one. The real window of 64 and epochs of 64
differ in size only: nothing compares them with a third number.

In `manager` every packet is an epoch. With a lookahead of 2 and six epochs, not
all are registered from the start. Packets 1, 3 and 4 never arrive and packet 2
does; 0 and 5 may or may not. So there are outages from the start of the session
(epochs 0 and 1: before anything was accepted the lookahead covers two whole
epochs) and in mid-session (epoch 1 after packet 0, which leaves packet 2 within
the lookahead; epochs 3 and 4 after packet 2, which leave packet 5 beyond it, a
`KeyError` for good). In mid-session the loss that is made up for is one epoch less than
the lookahead, which is what `LookaheadSuffices` says and `manager_outage` shows
from the other side, with the code's lookahead. With a cooldown of 2 a throttled
packet that restarted the cooldown would shut the peer out.

Of two clients the server takes one and refuses the other, which may be there
at the same time or come after the first has stopped; two attempts are a first,
and a last that leaves the loop; two messages a stream can be lost, repeated and
swapped; one restart can take the same session again, or the other client's.

In `udp_threads` each message is an epoch, so that every one replaces the
lattice; the log of one line overflows with the first note after the
handshake's; epoch 0 has no burn-in and epoch 1 has one, so that both kinds of
entry happen. The grids differ at every moment and one in three has the same
blocks, so that a kept picture may or may not be the right one.

On a torus of 6 a half has three planes, so that the seven cells of theta and
the cells both chi rules look at are different cells. Two rounds and two
generations take the references through more than one rotation and use four
different round constants. The two seeds agree in one half, so that a round that
lost the other would merge them. `keccak` takes the code's 21 lanes of a block,
so that absorbing ends inside a row, and different blocks for the sessions. The
six lengths of `k12` lie on both sides of a chunk and of a block: without a
second chunk, with one that is empty but for the suffix, with a second chunk that
is full or pads to the length of a full one, and with a third. Two calls of
different lengths of output are enough for a field to be found that was made for
another.

**Symmetry** of the threads is used in `keccak`, which checks an invariant and
the steps of a refinement, and no liveness.

**Deadlock** is not checked in `lattice`, `keccak`, `k12` and `k12_mixed`: those
computations end. It is checked in every other run: the receiver can always be
given a repeated packet, and refusing it is a step; the display always makes
its next frame.

**Fairness of UdpHandshake** (`udp_handshake`). `recvfrom` with a timeout returns
(weak fairness of the three ways it can); a client that is connected goes on to
type its messages; and its *last* message is not lost. Nothing is assumed of
any other datagram, of the ACK in particular, or of the server's own sending;
a client or the server may be stopped at any time.

**Fairness of UdpDisplay** (`udp_threads`). Each of the three threads runs on
while nothing stops it (`Fairness` of UdpThreads; `DisplayFairness` says the same
of its finer steps). Fairness is strong because a thread that waits for the lock
is again and again disabled: the display holds the lock for the text of a frame
only, and draws (100 ms and more) without it, so that a thread that waits has it
some time. Nothing is assumed of the typing, or of what arrives.

**Fairness of SessionManager** (`manager`, `manager_outage`). `WF_vars(Tick)`: the clock
moves on. `SF_vars(Arrive(seq))` for `seq` in `Delivered`: a packet that could be
received again and again is received some time, whole, from where it was sent,
and with its challenge answered. That is a peer that keeps retransmitting over
a network that is not cut for ever; repeats of one packet stand for the later
packets of the same epoch. It is strong, not weak, because the cooldown disables
it again and again. Nothing is assumed of the other packets: each may be lost,
or arrive at any time and show any address. Nor is it assumed that the peer
moves, stops moving or sends. Nothing prevents a challenge from failing any
number of times.

Each property of a passing run has a mutant: a changed definition, kept
beside the original and marked as a mutant, that TLC shows to violate it.

## 4. What is proved

The assumptions are those of the constants alone: window, epoch size and
evolution period at least 1, the burn-ins natural numbers, `Garbage` no
plaintext, chunks and blocks of at least one byte, at least one block of output
asked of the sponge (the code asks for 32 bytes), and those named below. The bounds of the runs are constants with
arbitrary values here; only UdpHandshake keeps its numbers below the window of
64, which lies outside that model.

**ReplayWindowProofs.** `TypeOK /\ AtMostOnce /\ WindowExact` is inductive.
`AtMostOnce` alone is not: it needs to know that a set bit means an accepted
number. `WindowMakesCheckExact` derives the exactness of the check from the
meaning of the bits; `CommitKeepsWindow` does the arithmetic of the slide once,
for both of its cases.

* `WindowTypeCorrect`, `WindowMeaning`, `CheckIsExact`, `AcceptsAtMostOnce`.

**CTPChannelProofs.** The stream states are functions of what was sent and
received, and no recursion is needed to say so: a log is *linked* when its
first entry uses the keystream of a new object, and each later entry the
keystream that its number gets from the state the entry before left behind.
The inductive invariant says that both logs are linked, that the state kept is
the one left behind by the last entry (so the lattice count equals the chain's
length), and that a received entry's keystream is the sender's exactly when the
entry is in step. For a new entry there are two cases. The receiver enters the
epoch: the keystreams agree when it is the epoch's first packet
(`EpochEntryMatch`). Or it stays in it: they agree exactly when they did one
packet before and that was the predecessor (`EpochContinuationMatch`), because
the hashes are injective (`ContinuationsAgree`). The window's invariant is
carried over from ReplayWindowProofs by instantiation, not proved again.

`LossIsConfined` counts over sets of log entries. For it the invariant is
extended by `Confined`: in order, an entry that
is missing no earlier packet of its epoch is in step. It is shown one arrival
at a time (`ConfinedArrival`): nothing overtook the new entry, so either it
starts its epoch, or its predecessor in the epoch is the entry before it and was
missing nothing either. So a garbled entry missed a packet, which the first of
an epoch cannot; its place in the epoch is then one of `EpochSize - 1`, and in
order no two entries share one (`GarbledBound`, an injection into the places).

* `ChannelTypeCorrect`, `DecryptIsExact`, `ChannelImplementsWindow`,
  `ChannelImplementsService`, `LossStaysInEpoch`.

**SessionManagerProofs.** `RoutesAhead` is inductive once it is known that an
accepted packet was sent and that there is a newest (`NewestExists`): a packet
is accepted only in an epoch that was routed already, and the routes it adds end
the lookahead after its own epoch. `ChallengesSpaced` needs what ties the history
to the code's clock (`RecordExact`): a challenge is on record at the age
`sinceChallenge` gives its key, and at no other; a new one, which waits for the
cooldown, finds none. `PathValidated` is an action property and
follows from the actions and the type invariant, whatever addresses packets
show.

* `ManagerTypeCorrect`, `RoutesReachAhead`, `ChallengesAreSpaced`,
  `PathsAreValidated`.

**UdpHandshakeProofs.** What a client accepts is in the network, so the
invariant says what can be there (`NetExact`): an ACK or a message for a client
only if a run of the server took that client, with a number that run has sent;
a message from a client only with a number it has sent. What was so stays so
when the session goes on and when a restart ends it (`SessionsStay`).
`AckMeansSession` and `SessionsApart` follow, the latter together with the facts
that the logs hold numbers that were on the network, once each, and that the
window of the server is what its present run read; the runs before it keep what
they had when they ended.

* `HandshakeTypeCorrect`, `AckIsOwn`, `SessionsStayApart`.

**UdpDisplayProofs.** Of the threads: neither of their properties is inductive alone. `LockHeld` says that
the lock is held by exactly the thread that is inside it; `PairExact`, that the
last message and the count of the messages received differ only while their
writer is inside; `LogBehind`, that a line is noted after its message was
counted. The display reads all of them while it holds the lock, so no writer is
inside, the pair agrees, and the log is not ahead. `SeqExact` bounds what is
sent by what was encrypted.

* `ThreadsTypeCorrect`, `CountsAreExact`, `ShownBelongsTogether`.

Of the display: `PictureOfFrame` needs that the picture is that of the grid
kept, and that the grid taken agrees with it between frames, whatever `GridOf`
and `Filled` are. The type invariant needs where in its schedule the lattice can
be at each place of the console thread. That each step is one of UdpThreads or
a stutter makes the theorems of the threads theorems of UdpDisplay too.

* `DisplayTypeCorrect`, `PictureIsOfFrame`, `DisplayImplementsThreads`.

**LatticeKernelsProofs**, for every even size, number of rounds, set of objects,
seed, mask and round constant (`KernelsAssumption`; an object is not empty). The
references are always a permutation of the buffers, so the half that is
written is neither of those read, and what the launches of a round left in the
scratch buffer and in the constant is what the next one needs (`Launched`). The
round is a bijection though neither chi is: its inverse applies F to the half
that was not changed, and XOR undoes itself (`RoundInverts`). For the whole step,
the loops are recursive functions: that there are such functions (`StepLoop`,
`UndoLoop`), and that the inverse is at the step's own grid after each round it
takes back (`StepInverts`), is an induction over the rounds, made of the least
element of a set of naturals (`CountUp`). Distinct sessions
of a batch share the constants, so they stay apart because a round has an
inverse. `ImplementsLattice` is proved with its initial condition and every step
for every session, the sessions whose object is not at work stuttering.

* `LatticeTypeCorrect`, `StepsAreInverted`, `BatchStaysApart`,
  `KernelsImplementLattice`.

**KeccakKernelsProofs**, for every width of the lanes, 1 to 24 rounds, 1 to 25
lanes a block, and any threads and inputs. In the middle of a round the lanes are
no state of the reference, so the invariant (`Computed`) says what each loop has
left: after the first, `d` is theta's effect of each column of the state; after
the second, undoing theta with `d` gives the state the round began with; after
the third, `t` is rho and pi of the lanes. Chi then overwrites the lanes from `t`,
and that is where the reference's round takes place (`ChiStep`): all other steps
of a round leave `SpongeState` as it is. A thread that is not touched keeps all
it has (`OthersUntouched`), so interleaving is no matter. The host's steps
(`HostAbsorbStep`, `HostDigestStep`) take place for all threads at once, and are
steps of the reference for each.

* `KernelsTypeCorrect`, `KernelsImplementSponge`.

**K12BatchProofs**, for every size of chunk and block, number of sessions, set of
lengths and number of calls, and for the three orchestrations. The inductive
invariant says where each chunk is (`Accounted`: pending, in the group at work,
or collected), that what a chunk has absorbed is how its padded bytes begin, by
whole blocks (`Absorbing`), that what is collected is exact, and that each cached
field has the shape of its key (`FieldsShaped`). A chunk collected is then one
that absorbed all of its bytes; with all collected, the final node is the tree's
(`FinalExact`). The vectorized cut takes arithmetic of its own. Of the message
and its suffix, `CutArithmetic` divides what is left after the first chunk: if
nothing remains the full chunks do not fit and `reshape` fails; otherwise the
bytes cut are those of the tree's chunks (`FullChunkIs`, `LastChunkIs`), and
chunks are lost only if the last group's padded length is the full chunks'
(`VectorizedGroupsCover`). In both cases the last chunk is padded to the length
of a full one, which is `FailsOnlyOnFullTail` (`LastPaddedLen`).

* `BatchTypeCorrect`, `BatchLeavesExact`, `BatchResultsExact`, `BatchFieldFits`,
  `BatchFailsOnlyOnFullTail`.

**Only model-checked**: liveness (`MigrationCompletes`, `LookaheadSuffices`,
`HandshakeEnds`, `LostAckHarmless`, `NobodyWaits`, `PictureCatchesUp`), which is
out of the prover's reach. Every invariant, action property and refinement of the
passing runs is a theorem. No module declares a recursive operator.

## 5. Where code and comments disagree

* **The start of epoch 0** (`epoch_start`). `_epoch_reset` is said to derive
  the state "from session keys and the epoch number alone"; the burn-in depends
  on whether the constructor called it. With epochs shorter than the window a
  receiver that enters epoch 0 again decrypts packet 0 to garbage. At the
  default of 64 for both, the window refuses packet 0 by then.
* **Outages beyond the lookahead** (`manager_outage`). The epochs themselves
  need no resynchronisation, but connection IDs are only registered three
  epochs ahead of a decrypted packet. When the three whole epochs after it are
  lost, in mid-session, the next one's is unknown for good; two are made up for.
* **Trust by epoch** (`manager_trust`). An address is said to be trusted "only
  after it proves possession"; each epoch has an ID of its own, and the first
  packet of each is trusted on first use, whatever address it shows.
* **A short message in a longer batch** (`k12_mixed`). The module's results are
  said to be "validated against running `kangarootwelve()` independently per
  session"; that validation has sessions of one length. Whether the encoding of
  a single chunk is used is decided for the batch, so that a session of one
  chunk beside a longer one gets the hash of a tree with no leaves. The cipher's
  own material is always longer than a chunk.

Met while modelling, without a run of their own:

* The client is said to retry "until the server ACKs". After its last retry it
  prints that the handshake is complete and shows itself as connected, also when
  no server took its INIT. The printed excuse is a lost ACK; that case is
  harmless (`LostAckHarmless`).
* `SharedDiagnostics` is called a thread-safe holder of what is displayed. What
  is shown of its own fields is (`ShownTogether`); `seq` and `current_epoch` of the CTP object
  are read while the console thread changes them without the lock, so that a
  frame can show the number of one moment and the epoch of another.
* In the vectorized cut a last chunk that pads to the length of a full one
  replaces the group of the full ones, and the call ends in a `ValueError`
  (`FailsOnlyOnFullTail` says that nothing else does). The comment at
  `keccak_fused_gpu.py` 266 says that the full chunks fit into the material
  whenever the suffix is shorter than a chunk; when the suffix byte is what
  completes a chunk they do not, and `reshape` fails.
* A server that was started again and takes a late INIT of the earlier session
  opens it with a new, empty window (`ctp_udp_server.py` 67-83): it decrypts
  again packets that its earlier run read. At most once is the promise of a run
  and not of the session, which is how `SessionsApart` states it. Its own
  messages it numbers from 0 again, so that the client refuses the first of them
  as replays.

## 6. Not modelled

* The arithmetic inside SHA3, HMAC, HKDF and SHAKE-256: symbolic, and a
  parameter where the lattice uses what they expand to. Keccak's permutation is
  modelled lane by lane (KeccakSponge); that it is a good hash is not a question
  for a model checker.
* The Carter Bays lattice, which is kept for comparison and never constructed,
  and the naive session manager, which is kept as the counterexample that the
  validating one answers and makes no promise of its own.
* The choice of a GPU backend: a probe in a child process and a fallback, made
  once at import with no state afterwards; and the order in which the GPU
  modules initialise Taichi, which is settled before any state of the models.
* Entries of the manager's dictionaries are never removed, in the code or in the
  model: there is no bound to check.
* One CTP object used for both directions: no caller does it, and nothing in the
  class prevents it.
* Statistics, sweeps, benchmarks and tests; colours, rotation and layout of the
  display.
* The exit of the UDP programs' threads at end of input: they take no more
  steps, which the models allow at any time.
