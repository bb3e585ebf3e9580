-------------------------- MODULE CTPChannelProofs --------------------------
(***************************************************************************)
(* Proofs about the channel, for every epoch size, evolution period,       *)
(* burn-in, set of messages, window width and bound.                       *)
(*                                                                         *)
(* Sender and receiver both keep a log of entries [seq, keystream,         *)
(* plaintext].  Linked says that each entry's keystream follows from the   *)
(* entry before it by _ensure_epoch and _advance alone, and that the       *)
(* stream state of the object is the one its last entry leaves.  The two   *)
(* logs then agree on a keystream exactly when the receiver came to the    *)
(* packet in step, which is shown one entry at a time.                     *)
(*                                                                         *)
(* That loss is confined to the epoch it happens in comes last.  It is a   *)
(* fact about the order of arrivals: as long as nothing overtakes, an      *)
(* entry that is missing no earlier packet of its epoch is in step, and so *)
(* decrypts.  It is shown one arrival at a time (Confined); the first      *)
(* packet of an epoch can be missing none, and always decrypts.            *)
(***************************************************************************)
EXTENDS CTPChannel, FiniteSetTheorems, TLAPS

(* The window, with what is proved about it. *)
WindowProofs == INSTANCE ReplayWindowProofs WITH log <- Log

Entries == [seq : Seqs, keystream : Keystreams, plaintext : Plaintexts]

(* The stream state a keystream was extracted from. *)
StreamOf(keystream) ==
    [epoch |-> keystream.epoch, burnin |-> keystream.burnin,
     chain |-> keystream.chain, steps |-> keystream.steps,
     count |-> Len(keystream.chain)]

(* The stream state an entry leaves behind, and the one entry i met. *)
After(entry) == Advance(StreamOf(entry.keystream), entry.seq, entry.plaintext)

Before(log, i) == IF i = 1 THEN NewStream ELSE After(log[i - 1])

Linked(log, st) ==
    /\ \A i \in DOMAIN log :
          log[i].keystream =
              Keystream(EnsureEpoch(Before(log, i), log[i].seq), log[i].seq)
    /\ st = Before(log, Len(log) + 1)

(* The packet count of an epoch is the length of its chain. *)
Counted(st) == st.count = Len(st.chain)

SentOf(s) == sent[s + 1]

Matches(i) == received[i].keystream = SentOf(received[i].seq).keystream

SenderInvariant ==
    /\ seq = Len(sent)
    /\ \A i \in DOMAIN sent : sent[i].seq = i - 1
    /\ Linked(sent, snd) /\ Counted(snd)

ReceiverInvariant ==
    /\ Linked(received, rcv) /\ Counted(rcv)
    /\ \A i \in DOMAIN received :
          /\ received[i].seq + 1 \in DOMAIN sent
          /\ received[i].plaintext =
                Unmask(received[i].keystream, SentOf(received[i].seq))

MatchExactAt(i) == Matches(i) <=> Service!InStep(received, i)

MatchExact == \A i \in DOMAIN received : MatchExactAt(i)

ChannelInvariant ==
    TypeOK /\ SenderInvariant /\ ReceiverInvariant /\ MatchExact

-----------------------------------------------------------------------------

(* Division by the epoch size: a number is its epoch's start plus its      *)
(* place in the epoch, and the successor either moves one place on or      *)
(* starts the next epoch.                                                  *)
LEMMA EpochArithmetic ==
    ASSUME NEW s \in Nat
    PROVE  /\ EpochOf(s) \in Nat
           /\ s % EpochSize \in 0..EpochSize-1
           /\ s % EpochSize <= s
           /\ IF (s + 1) % EpochSize = 0
              THEN EpochOf(s + 1) = EpochOf(s) + 1
              ELSE /\ EpochOf(s + 1) = EpochOf(s)
                   /\ (s + 1) % EpochSize = (s % EpochSize) + 1
           /\ s % EpochSize = 0 /\ EpochOf(s) = 0 => s = 0
           /\ EpochOf(0) = 0 /\ 0 % EpochSize = 0
BY CipherAssumption DEF EpochOf

(* Appending an entry: the new log, entry by entry. *)
LEMMA AppendEntry ==
    ASSUME NEW S, NEW log \in Seq(S), NEW e \in S
    PROVE  /\ Append(log, e) \in Seq(S)
           /\ Len(Append(log, e)) = Len(log) + 1
           /\ DOMAIN Append(log, e) = DOMAIN log \cup {Len(log) + 1}
           /\ DOMAIN log = 1..Len(log) /\ Len(log) \in Nat
           /\ Append(log, e)[Len(log) + 1] = e
           /\ \A i \in DOMAIN log : Append(log, e)[i] = log[i]
OBVIOUS

(* The cipher's operations stay within their types. *)
LEMMA StreamTypes ==
    ASSUME NEW st \in StreamState, NEW s \in Nat, NEW p \in Plaintexts
    PROVE  /\ NewStream \in StreamState
           /\ EnsureEpoch(st, s) \in StreamState
           /\ EnsureEpoch(st, s).epoch = EpochOf(s)
           /\ Keystream(st, s) \in Keystreams
           /\ Advance(st, s, p) \in StreamState
<1>1. EpochOf(s) \in Nat
  BY EpochArithmetic
<1>2. /\ NewStream \in StreamState
      /\ EnsureEpoch(st, s) \in StreamState
      /\ EnsureEpoch(st, s).epoch = EpochOf(s)
  BY <1>1, CipherAssumption
  DEF NewStream, EnsureEpoch, EpochReset, StreamState
<1>3. Keystream(st, s) \in Keystreams
  BY DEF Keystream, Keystreams, StreamState
<1>4. Advance(st, s, p) \in StreamState
  <2>1. /\ Append(st.chain, <<s, p>>) \in Seq(Nat \X Plaintexts)
        /\ Append(st.steps, s) \in Seq(Nat)
        /\ st.count + 1 \in Nat
    BY DEF StreamState
  <2> QED
    BY <2>1 DEF Advance, StreamState
<1> QED
  BY <1>2, <1>3, <1>4

(* Nothing of a counted stream state is lost by looking at the keystream. *)
LEMMA StreamCounted ==
    ASSUME NEW st \in StreamState, Counted(st),
           NEW s \in Nat, NEW p \in Plaintexts
    PROVE  /\ Counted(NewStream)
           /\ Counted(EnsureEpoch(st, s))
           /\ Counted(Advance(st, s, p))
           /\ StreamOf(Keystream(st, s)) = st
<1>1. Counted(NewStream) /\ Counted(EnsureEpoch(st, s))
  BY DEF Counted, NewStream, EnsureEpoch, EpochReset
<1>2. Counted(Advance(st, s, p))
  <2>1. Len(Append(st.chain, <<s, p>>)) = Len(st.chain) + 1
    BY DEF StreamState
  <2> QED
    BY <2>1 DEF Counted, Advance, StreamState
<1>3. StreamOf(Keystream(st, s)) = st
  BY DEF Counted, StreamOf, Keystream, StreamState
<1> QED
  BY <1>1, <1>2, <1>3

(* Encrypting or decrypting one packet extends a linked log. *)
LEMMA LinkedAppend ==
    ASSUME NEW log \in Seq(Entries), NEW st \in StreamState, Counted(st),
           Linked(log, st), NEW s \in Seqs, NEW p \in Plaintexts,
           NEW mid, mid = EnsureEpoch(st, s),
           NEW e, e = [seq |-> s, keystream |-> Keystream(mid, s),
                       plaintext |-> p]
    PROVE  /\ e \in Entries
           /\ Linked(Append(log, e), Advance(mid, s, p))
           /\ Counted(Advance(mid, s, p))
<1>s. s \in Nat
  BY ChannelAssumption DEF Seqs
<1>m. mid \in StreamState /\ Counted(mid)
  BY <1>s, StreamTypes, StreamCounted
<1>e. e \in Entries
  BY <1>s, <1>m, StreamTypes DEF Entries
<1>a. Counted(Advance(mid, s, p))
  BY <1>s, <1>m, StreamCounted
<1> DEFINE new == Append(log, e)
<1>1. /\ Len(new) = Len(log) + 1
      /\ DOMAIN new = DOMAIN log \cup {Len(log) + 1}
      /\ DOMAIN log = 1..Len(log) /\ Len(log) \in Nat
      /\ new[Len(log) + 1] = e
      /\ \A i \in DOMAIN log : new[i] = log[i]
  BY <1>e, AppendEntry
<1> HIDE DEF new
<1>2. \A i \in DOMAIN new : Before(new, i) = Before(log, i)
  BY <1>1 DEF Before
<1>3. After(e) = Advance(mid, s, p)
  BY <1>s, <1>m, StreamCounted DEF After
<1>4. Advance(mid, s, p) = Before(new, Len(new) + 1)
  BY <1>1, <1>3 DEF Before
<1>5. ASSUME NEW i \in DOMAIN new
      PROVE  new[i].keystream =
               Keystream(EnsureEpoch(Before(new, i), new[i].seq), new[i].seq)
  <2>1. CASE i \in DOMAIN log
    BY <2>1, <1>1, <1>2 DEF Linked
  <2>2. CASE i = Len(log) + 1
    <3>1. Before(new, i) = st
      BY <2>2, <1>2, <1>1 DEF Linked
    <3> QED
      BY <3>1, <2>2, <1>1
  <2> QED
    BY <2>1, <2>2, <1>1
<1>6. Linked(new, Advance(mid, s, p))
  BY <1>4, <1>5 DEF Linked
<1> QED
  BY <1>e, <1>a, <1>6 DEF new

-----------------------------------------------------------------------------

(* What an entry leaves behind is a counted stream state of its epoch. *)
LEMMA AfterTypes ==
    ASSUME NEW e \in Entries
    PROVE  /\ After(e) \in StreamState
           /\ After(e).epoch = e.keystream.epoch
           /\ After(e).burnin = e.keystream.burnin
           /\ After(e).chain = Append(e.keystream.chain, <<e.seq, e.plaintext>>)
           /\ After(e).steps =
                IF (Len(e.keystream.chain) + 1) % EvolveEvery = 0
                THEN Append(e.keystream.steps, e.seq)
                ELSE e.keystream.steps
<1>1. StreamOf(e.keystream) \in StreamState
  BY DEF Entries, Keystreams, StreamOf, StreamState
<1>2. e.seq \in Nat /\ e.plaintext \in Plaintexts
  BY ChannelAssumption DEF Entries, Seqs
<1>3. After(e) \in StreamState
  BY <1>1, <1>2, StreamTypes DEF After
<1> QED
  BY <1>1, <1>3 DEF After, Advance, StreamOf, StreamState

(* Each entry of a linked log is enciphered in the epoch of its number. *)
LEMMA LinkedEpoch ==
    ASSUME NEW log \in Seq(Entries), NEW st, Linked(log, st),
           NEW i \in DOMAIN log
    PROVE  /\ log[i] \in Entries /\ log[i].seq \in Nat
           /\ Before(log, i) \in StreamState
           /\ log[i].keystream.epoch = EpochOf(log[i].seq)
           /\ log[i].keystream.seq = log[i].seq
<1>0. /\ log[i] \in Entries
      /\ i \in Nat \ {0}
      /\ i # 1 => i - 1 \in DOMAIN log /\ log[i - 1] \in Entries
  OBVIOUS
<1>1. log[i].seq \in Nat
  BY <1>0, ChannelAssumption DEF Entries, Seqs
<1>2. Before(log, i) \in StreamState
  <2>1. CASE i = 1
    BY <2>1, CipherAssumption DEF Before, NewStream, EpochReset, StreamState
  <2>2. CASE i # 1
    BY <2>2, <1>0, AfterTypes DEF Before
  <2> QED
    BY <2>1, <2>2
<1>3. EnsureEpoch(Before(log, i), log[i].seq).epoch = EpochOf(log[i].seq)
  BY <1>1, <1>2 DEF EnsureEpoch, EpochReset
<1>4. log[i].keystream =
        Keystream(EnsureEpoch(Before(log, i), log[i].seq), log[i].seq)
  BY DEF Linked
<1> QED
  BY <1>0, <1>1, <1>2, <1>3, <1>4 DEF Keystream

(* A sequence is determined by its front and its last element. *)
LEMMA AppendInjective ==
    ASSUME NEW S, NEW x \in Seq(S), NEW y \in Seq(S), NEW u \in S, NEW v \in S,
           Append(x, u) = Append(y, v)
    PROVE  x = y /\ u = v
<1>1. Len(x) = Len(y)
  <2>1. Len(Append(x, u)) = Len(x) + 1 /\ Len(Append(y, v)) = Len(y) + 1
    OBVIOUS
  <2> QED
    BY <2>1
<1>2. u = v
  <2>1. Append(x, u)[Len(x) + 1] = u /\ Append(y, v)[Len(y) + 1] = v
    OBVIOUS
  <2> QED
    BY <2>1, <1>1
<1>3. \A i \in 1..Len(x) : x[i] = y[i]
  <2>1. \A i \in 1..Len(x) : x[i] = Append(x, u)[i] /\ y[i] = Append(y, v)[i]
    BY <1>1
  <2> QED
    BY <2>1
<1> QED
  BY <1>1, <1>2, <1>3

(* A chain that something was absorbed into is not a fresh one. *)
LEMMA AppendNonEmpty ==
    ASSUME NEW S, NEW x \in Seq(S), NEW u
    PROVE  Append(x, u) # <<>>
<1>1. Len(Append(x, u)) = Len(x) + 1 /\ Len(x) \in Nat
  OBVIOUS
<1>2. Len(<<>>) = 0
  OBVIOUS
<1> QED
  BY <1>1, <1>2

(* A keystream is determined by what is absorbed for it. *)
LEMMA KeystreamFields ==
    ASSUME NEW k \in Keystreams, NEW l \in Keystreams,
           k.epoch = l.epoch, k.burnin = l.burnin, k.chain = l.chain,
           k.steps = l.steps, k.seq = l.seq
    PROVE  k = l
BY DEF Keystreams

(* Two keystreams of one epoch that continue entries a and b agree exactly *)
(* when the entries do: same keystream, number and plaintext.              *)
LEMMA ContinuationsAgree ==
    ASSUME NEW a \in Entries, NEW b \in Entries, NEW s \in Nat,
           a.keystream.seq = a.seq, b.keystream.seq = b.seq,
           a.keystream.epoch = b.keystream.epoch
    PROVE  Keystream(After(a), s) = Keystream(After(b), s)
             <=> /\ a.keystream = b.keystream
                 /\ a.seq = b.seq
                 /\ a.plaintext = b.plaintext
<1> DEFINE A == After(a)
           B == After(b)
<1>t. /\ a.keystream.chain \in Seq(Nat \X Plaintexts)
      /\ b.keystream.chain \in Seq(Nat \X Plaintexts)
      /\ <<a.seq, a.plaintext>> \in Nat \X Plaintexts
      /\ <<b.seq, b.plaintext>> \in Nat \X Plaintexts
      /\ a.keystream.steps \in Seq(Nat) /\ b.keystream.steps \in Seq(Nat)
      /\ a.seq \in Nat /\ b.seq \in Nat
      /\ a.keystream \in Keystreams /\ b.keystream \in Keystreams
  BY ChannelAssumption DEF Entries, Keystreams, Seqs
<1>1. ASSUME Keystream(A, s) = Keystream(B, s)
      PROVE  /\ a.keystream = b.keystream
             /\ a.seq = b.seq
             /\ a.plaintext = b.plaintext
  <2>1. A.burnin = B.burnin /\ A.chain = B.chain /\ A.steps = B.steps
    BY <1>1 DEF Keystream
  <2>2. /\ a.keystream.chain = b.keystream.chain
        /\ <<a.seq, a.plaintext>> = <<b.seq, b.plaintext>>
    <3>1. Append(a.keystream.chain, <<a.seq, a.plaintext>>)
            = Append(b.keystream.chain, <<b.seq, b.plaintext>>)
      BY <2>1, AfterTypes
    <3> DEFINE Pairs == Nat \X Plaintexts
               x == a.keystream.chain
               y == b.keystream.chain
               u == <<a.seq, a.plaintext>>
               v == <<b.seq, b.plaintext>>
    <3>2. /\ x \in Seq(Pairs) /\ y \in Seq(Pairs) /\ u \in Pairs /\ v \in Pairs
          /\ Append(x, u) = Append(y, v)
      BY <3>1, <1>t
    <3> HIDE DEF Pairs, x, y, u, v
    <3>3. x = y /\ u = v
      BY <3>2, AppendInjective
    <3> QED
      BY <3>3 DEF x, y, u, v
  <2>3. a.keystream.steps = b.keystream.steps
    <3>1. CASE (Len(a.keystream.chain) + 1) % EvolveEvery = 0
      <4>1. /\ A.steps = Append(a.keystream.steps, a.seq)
            /\ B.steps = Append(b.keystream.steps, b.seq)
        BY <3>1, <2>2, AfterTypes
      <4>2. Append(a.keystream.steps, a.seq) = Append(b.keystream.steps, b.seq)
        BY <4>1, <2>1
      <4> DEFINE x == a.keystream.steps
                 y == b.keystream.steps
                 u == a.seq
                 v == b.seq
      <4>3. /\ x \in Seq(Nat) /\ y \in Seq(Nat) /\ u \in Nat /\ v \in Nat
            /\ Append(x, u) = Append(y, v)
        BY <4>2, <1>t
      <4> HIDE DEF x, y, u, v
      <4>4. x = y
        BY <4>3, AppendInjective
      <4> QED
        BY <4>4 DEF x, y
    <3>2. CASE (Len(a.keystream.chain) + 1) % EvolveEvery # 0
      BY <3>2, <2>1, <2>2, AfterTypes
    <3> QED
      BY <3>1, <3>2
  <2>4. a.keystream.burnin = b.keystream.burnin
    BY <2>1, AfterTypes
  <2>5. a.seq = b.seq /\ a.plaintext = b.plaintext
    BY <2>2
  <2>6. a.keystream = b.keystream
    BY <2>2, <2>3, <2>4, <2>5, <1>t, KeystreamFields
  <2> QED
    BY <2>5, <2>6
<1>2. ASSUME a.keystream = b.keystream, a.seq = b.seq, a.plaintext = b.plaintext
      PROVE  Keystream(A, s) = Keystream(B, s)
  BY <1>2 DEF After
<1> QED
  BY <1>1, <1>2

(* The sender's keystreams: the first packet of an epoch starts from the   *)
(* reset, every other one continues the packet before it.                  *)
LEMMA SenderKeystream ==
    ASSUME TypeOK, SenderInvariant, NEW s \in Nat, s + 1 \in DOMAIN sent
    PROVE  /\ SentOf(s) \in Entries /\ SentOf(s).plaintext \in Messages
           /\ SentOf(s).seq = s
           /\ SentOf(s).keystream.epoch = EpochOf(s)
           /\ SentOf(s).keystream.seq = s
           /\ s % EpochSize = 0 =>
                 SentOf(s).keystream =
                   Keystream(IF s = 0 THEN NewStream
                             ELSE EpochReset(EpochOf(s), EpochBurnIn), s)
           /\ s % EpochSize # 0 =>
                 /\ s - 1 \in Nat /\ (s - 1) + 1 \in DOMAIN sent
                 /\ EpochOf(s - 1) = EpochOf(s)
                 /\ SentOf(s).keystream = Keystream(After(SentOf(s - 1)), s)
<1>0. sent \in Seq(Packets) /\ SentOf(s) \in Packets
  BY DEF TypeOK, SentOf
<1>1. sent \in Seq(Entries) /\ Linked(sent, snd)
  <2>1. Packets \subseteq Entries
    BY DEF Packets, Entries, Plaintexts
  <2> QED
    BY <1>0, <2>1 DEF SenderInvariant
<1>2. /\ SentOf(s) \in Entries /\ SentOf(s).plaintext \in Messages
      /\ SentOf(s).seq = s
  <2>1. SentOf(s).seq = (s + 1) - 1
    BY DEF SenderInvariant, SentOf
  <2> QED
    BY <1>0, <2>1 DEF Packets, Entries, Plaintexts
<1>3. SentOf(s).keystream.epoch = EpochOf(s) /\ SentOf(s).keystream.seq = s
  BY <1>1, <1>2, LinkedEpoch DEF SentOf
<1>4. SentOf(s).keystream = Keystream(EnsureEpoch(Before(sent, s + 1), s), s)
  BY <1>1, <1>2 DEF Linked, SentOf
<1>5. CASE s = 0
  <2>1. Before(sent, s + 1) = NewStream /\ EpochOf(s) = 0 /\ s % EpochSize = 0
    BY <1>5, EpochArithmetic DEF Before
  <2> QED
    BY <2>1, <1>2, <1>3, <1>4, <1>5 DEF EnsureEpoch, NewStream, EpochReset
<1>6. CASE s # 0
  <2>1. /\ s - 1 \in Nat /\ (s - 1) + 1 \in DOMAIN sent /\ (s - 1) + 1 = s
        /\ Before(sent, s + 1) = After(sent[s])
        /\ SentOf(s - 1) = sent[s]
    BY <1>6, <1>1 DEF Before, SentOf
  <2>2. /\ sent[s] \in Entries /\ sent[s].seq = s - 1
        /\ sent[s].keystream.epoch = EpochOf(s - 1)
    BY <2>1, <1>1, LinkedEpoch DEF SenderInvariant
  <2>3. After(sent[s]).epoch = EpochOf(s - 1)
    BY <2>2, AfterTypes
  <2>4. IF s % EpochSize = 0 THEN EpochOf(s) # EpochOf(s - 1)
                             ELSE EpochOf(s) = EpochOf(s - 1)
    BY <2>1, EpochArithmetic
  <2> QED
    BY <2>1, <2>3, <2>4, <1>2, <1>3, <1>4, <1>6 DEF EnsureEpoch
<1> QED
  BY <1>5, <1>6

-----------------------------------------------------------------------------

(* The receiver enters an epoch with packet i: the keystreams agree when   *)
(* it is the first packet of its epoch, and for epoch 0 when its start     *)
(* state can be had again.                                                 *)
LEMMA EpochEntryMatch ==
    ASSUME TypeOK, SenderInvariant, ReceiverInvariant,
           NEW i \in DOMAIN received,
           i = 1 \/ EpochOf(received[i - 1].seq) # EpochOf(received[i].seq)
    PROVE  MatchExactAt(i)
<1> DEFINE s == received[i].seq
           place == s % EpochSize
<1>0. /\ received \in Seq(Entries) /\ Linked(received, rcv)
      /\ i \in 1..Len(received) /\ Len(received) \in Nat
      /\ s + 1 \in DOMAIN sent
  BY DEF TypeOK, Entries, ReceiverInvariant
<1>1. s \in Nat /\ EpochOf(s) \in Nat /\ place \in 0..EpochSize-1 /\ place \in Nat
  <2>1. s \in Nat
    BY <1>0, LinkedEpoch
  <2>2. EpochOf(s) \in Nat /\ place \in 0..EpochSize-1
    BY <2>1, EpochArithmetic
  <2> QED
    BY <2>1, <2>2, CipherAssumption
<1>2. received[i].keystream =
        Keystream(IF i = 1 /\ EpochOf(s) = 0 THEN NewStream
                  ELSE EpochReset(EpochOf(s), EpochBurnIn), s)
  <2>1. received[i].keystream =
          Keystream(EnsureEpoch(Before(received, i), s), s)
    BY <1>0 DEF Linked
  <2>2. CASE i = 1
    BY <2>1, <2>2 DEF Before, EnsureEpoch, NewStream, EpochReset
  <2>3. CASE i # 1
    <3>1. i - 1 \in DOMAIN received /\ received[i - 1] \in Entries
      BY <1>0, <2>3
    <3>2. Before(received, i).epoch = EpochOf(received[i - 1].seq)
      BY <3>1, <2>3, <1>0, LinkedEpoch, AfterTypes DEF Before
    <3> QED
      BY <2>1, <2>3, <3>2 DEF EnsureEpoch
  <2> QED
    BY <2>2, <2>3
<1>3. CASE place = 0
  <2>1. SentOf(s).keystream =
          Keystream(IF s = 0 THEN NewStream
                    ELSE EpochReset(EpochOf(s), EpochBurnIn), s)
    BY <1>3, <1>0, <1>1, SenderKeystream
  <2>2. Matches(i) <=> (EpochOf(s) = 0 => i = 1 \/ BurnIn = EpochBurnIn)
    <3>1. EpochOf(s) = 0 <=> s = 0
      BY <1>3, <1>1, EpochArithmetic
    <3> QED
      BY <3>1, <1>2, <2>1 DEF Matches, Keystream, NewStream, EpochReset
  <2>3. Service!InStep(received, i)
          <=> (EpochOf(s) = 0 => i = 1 \/ BurnIn = EpochBurnIn)
    <3>1. \A j \in 0..place : received[i - j].seq = s - j
      <4> SUFFICES ASSUME NEW j \in 0..place PROVE received[i - j].seq = s - j
        OBVIOUS
      <4>1. j = 0
        BY <1>3
      <4>2. i - 0 = i /\ s - 0 = s
        BY <1>0, <1>1
      <4> QED
        BY <4>1, <4>2
    <3>2. place < i /\ (place + 1 < i <=> i # 1) /\ i - place - 1 = i - 1
      BY <1>0, <1>3
    <3> HIDE DEF s
    <3> QED
      BY <3>1, <3>2 DEF Service!InStep, Service!Epoch, EpochOf, s
  <2> QED
    BY <2>2, <2>3 DEF MatchExactAt
<1>4. CASE place # 0
  <2>1. ~Matches(i)
    <3>1. /\ SentOf(s - 1) \in Entries
          /\ SentOf(s).keystream = Keystream(After(SentOf(s - 1)), s)
      BY <1>4, <1>0, <1>1, SenderKeystream
    <3>2. SentOf(s).keystream.chain # <<>>
      <4> DEFINE e == SentOf(s - 1)
      <4>1. /\ SentOf(s).keystream.chain =
                  Append(e.keystream.chain, <<e.seq, e.plaintext>>)
            /\ e.keystream.chain \in Seq(Nat \X Plaintexts)
        BY <3>1, AfterTypes DEF Keystream, Entries, Keystreams
      <4> QED
        BY <4>1, AppendNonEmpty
    <3>3. received[i].keystream.chain = <<>>
      BY <1>2 DEF Keystream, NewStream, EpochReset
    <3> QED
      BY <3>2, <3>3 DEF Matches
  <2>2. ~Service!InStep(received, i)
    <3>1. SUFFICES ASSUME place < i,
                          \A j \in 0..place : received[i - j].seq = s - j
                   PROVE  FALSE
      BY DEF Service!InStep
    <3>2. i # 1 /\ received[i - 1].seq = s - 1
      BY <3>1, <1>0, <1>1, <1>4
    <3>3. EpochOf(s - 1) = EpochOf(s)
      BY <1>4, <1>0, <1>1, SenderKeystream
    <3> QED
      BY <3>2, <3>3
  <2> QED
    BY <2>1, <2>2 DEF MatchExactAt
<1> QED
  BY <1>3, <1>4

(* The receiver stays in the epoch with packet i: the keystreams agree     *)
(* when they did at the packet before, and that one was the predecessor.   *)
LEMMA EpochContinuationMatch ==
    ASSUME TypeOK, SenderInvariant, ReceiverInvariant,
           NEW i \in DOMAIN received, i # 1,
           EpochOf(received[i - 1].seq) = EpochOf(received[i].seq),
           MatchExactAt(i - 1)
    PROVE  MatchExactAt(i)
<1> DEFINE s == received[i].seq
           r == received[i - 1].seq
           a == received[i - 1]
           b == SentOf(s - 1)
<1>0. /\ received \in Seq(Entries) /\ Linked(received, rcv)
      /\ i \in 1..Len(received) /\ Len(received) \in Nat
      /\ i - 1 \in DOMAIN received /\ i - 1 \in Nat \ {0}
      /\ s + 1 \in DOMAIN sent /\ r + 1 \in DOMAIN sent
  BY DEF TypeOK, Entries, ReceiverInvariant
<1>1. /\ s \in Nat /\ EpochOf(s) \in Nat /\ s % EpochSize \in 0..EpochSize-1
      /\ s % EpochSize \in Nat
  <2>1. s \in Nat
    BY <1>0, LinkedEpoch
  <2>2. EpochOf(s) \in Nat /\ s % EpochSize \in 0..EpochSize-1
    BY <2>1, EpochArithmetic
  <2> QED
    BY <2>1, <2>2, CipherAssumption
<1>2. /\ a \in Entries /\ r \in Nat
      /\ a.keystream.epoch = EpochOf(s) /\ a.keystream.seq = r
  BY <1>0, LinkedEpoch
<1>3. received[i].keystream = Keystream(After(a), s)
  <2>1. received[i].keystream =
          Keystream(EnsureEpoch(Before(received, i), s), s)
    BY <1>0 DEF Linked
  <2>2. Before(received, i) = After(a) /\ After(a).epoch = EpochOf(s)
    BY <1>2, AfterTypes DEF Before
  <2> QED
    BY <2>1, <2>2 DEF EnsureEpoch
<1>4. CASE s % EpochSize = 0
  <2>1. SentOf(s).keystream.chain = <<>>
    <3>1. SentOf(s).keystream =
            Keystream(IF s = 0 THEN NewStream
                      ELSE EpochReset(EpochOf(s), EpochBurnIn), s)
      BY <1>4, <1>0, <1>1, SenderKeystream
    <3> QED
      BY <3>1 DEF Keystream, NewStream, EpochReset
  <2>2. received[i].keystream.chain # <<>>
    <3>0. After(a).chain = Append(a.keystream.chain, <<a.seq, a.plaintext>>)
      BY <1>2, AfterTypes
    <3>1. /\ received[i].keystream.chain =
                Append(a.keystream.chain, <<a.seq, a.plaintext>>)
          /\ a.keystream.chain \in Seq(Nat \X Plaintexts)
      BY <3>0, <1>2, <1>3 DEF Keystream, Entries, Keystreams
    <3> QED
      BY <3>1, AppendNonEmpty
  <2>3. ~Matches(i)
    BY <2>1, <2>2 DEF Matches
  <2>4. ~Service!InStep(received, i)
    <3> DEFINE k == s % EpochSize
    <3>1. k + 1 < i /\ i - k - 1 = i - 1
      BY <1>0, <1>4
    <3>2. EpochOf(received[i - k - 1].seq) = EpochOf(s)
      BY <3>1
    <3> HIDE DEF k
    <3> QED
      BY <3>1, <3>2 DEF Service!InStep, Service!Epoch, EpochOf, k
  <2> QED
    BY <2>3, <2>4 DEF MatchExactAt
<1>5. CASE s % EpochSize # 0
  <2>0. /\ s - 1 \in Nat /\ (s - 1) + 1 \in DOMAIN sent
        /\ EpochOf(s - 1) = EpochOf(s)
        /\ SentOf(s).keystream = Keystream(After(b), s)
    BY <1>5, <1>0, <1>1, SenderKeystream
  <2>1. /\ b \in Entries /\ b.plaintext \in Messages /\ b.seq = s - 1
        /\ b.keystream.epoch = EpochOf(s) /\ b.keystream.seq = b.seq
    BY <2>0, SenderKeystream
  <2>2. Matches(i) <=> /\ a.keystream = b.keystream
                       /\ a.seq = b.seq
                       /\ a.plaintext = b.plaintext
    <3>1. Matches(i) <=> Keystream(After(a), s) = Keystream(After(b), s)
      BY <1>3, <2>0 DEF Matches
    <3> QED
      BY <3>1, <1>1, <1>2, <2>1, ContinuationsAgree
  <2>3. Matches(i) <=> r = s - 1 /\ Matches(i - 1)
    <3>1. r = s - 1 => SentOf(r) = b
      BY DEF SentOf
    <3>2. a.plaintext = Unmask(a.keystream, SentOf(r))
      BY <1>0 DEF ReceiverInvariant
    <3>3. b.plaintext # Garbage
      BY <2>1, CipherAssumption
    <3>4. Matches(i - 1) <=> a.keystream = SentOf(r).keystream
      BY DEF Matches
    <3> HIDE DEF a, b, s
    <3>5. ASSUME r = s - 1 /\ Matches(i - 1)
          PROVE  Matches(i)
      BY <3>1, <3>2, <3>4, <3>5, <2>1, <2>2 DEF Unmask, a
    <3>6. ASSUME Matches(i)
          PROVE  r = s - 1 /\ Matches(i - 1)
      BY <3>1, <3>2, <3>3, <3>4, <3>6, <2>1, <2>2 DEF Unmask, a
    <3> QED
      BY <3>5, <3>6
  <2>4. Service!InStep(received, i) <=> r = s - 1 /\ Service!InStep(received, i - 1)
    <3>1. ASSUME Service!InStep(received, i) PROVE r = s - 1
      <4>1. \A j \in 0..(s % EpochSize) : received[i - j].seq = s - j
        BY <3>1 DEF Service!InStep
      <4>2. 1 \in 0..(s % EpochSize)
        BY <1>1, <1>5
      <4> QED
        BY <4>1, <4>2
    <3>2. ASSUME r = s - 1
          PROVE  Service!InStep(received, i) <=> Service!InStep(received, i - 1)
      <4> DEFINE k == s % EpochSize
                 l == r % EpochSize
      <4>1. k = l + 1 /\ k \in Nat /\ l \in Nat
        <5>1. r % EpochSize \in 0..EpochSize-1 /\ s = r + 1
          BY <3>2, <1>1, <1>2, EpochArithmetic
        <5> QED
          BY <5>1, <1>1, <1>2, <1>5, EpochArithmetic, CipherAssumption
      <4> HIDE DEF k, l
      <4>2. k < i <=> l < i - 1
        BY <4>1, <1>0
      <4>3. (\A j \in 0..k : received[i - j].seq = s - j)
              <=> (\A j \in 0..l : received[(i - 1) - j].seq = r - j)
        <5>1. ASSUME \A j \in 0..k : received[i - j].seq = s - j,
                     NEW j \in 0..l
              PROVE  received[(i - 1) - j].seq = r - j
          <6>1. /\ j + 1 \in 0..k /\ i - (j + 1) = (i - 1) - j
                /\ s - (j + 1) = r - j
            BY <4>1, <1>0, <1>1, <3>2
          <6>2. received[i - (j + 1)].seq = s - (j + 1)
            BY <5>1, <6>1
          <6> HIDE DEF s, r
          <6> QED
            BY <6>1, <6>2
        <5>2. ASSUME \A j \in 0..l : received[(i - 1) - j].seq = r - j,
                     NEW j \in 0..k
              PROVE  received[i - j].seq = s - j
          <6>1. CASE j = 0
            <7>1. i - j = i /\ s - j = s
              BY <6>1, <1>0, <1>1
            <7> QED
              BY <7>1
          <6>2. CASE j # 0
            <7>0. i \in Nat /\ r \in Nat /\ s = r + 1
              BY <1>0, <1>1, <1>2, <3>2
            <7> HIDE DEF s, r
            <7>1. /\ j - 1 \in 0..l /\ (i - 1) - (j - 1) = i - j
                  /\ r - (j - 1) = s - j
              BY <6>2, <4>1, <7>0
            <7>2. received[(i - 1) - (j - 1)].seq = r - (j - 1)
              BY <5>2, <7>1
            <7> HIDE DEF s, r
            <7> QED
              BY <7>1, <7>2
          <6> QED
            BY <6>1, <6>2
        <5> QED
          BY <5>1, <5>2
      <4>4. (k + 1 < i <=> l + 1 < i - 1) /\ i - k - 1 = (i - 1) - l - 1
        BY <4>1, <1>0
      <4>5. Service!Epoch(s) = Service!Epoch(r)
        BY DEF Service!Epoch, EpochOf
      <4> QED
        BY <4>2, <4>3, <4>4, <4>5 DEF Service!InStep, k, l
    <3> QED
      BY <3>1, <3>2
  <2> QED
    BY <2>3, <2>4 DEF MatchExactAt
<1> QED
  BY <1>4, <1>5

-----------------------------------------------------------------------------

(* Mapping a function over a log commutes with appending to it. *)
LEMMA LogAppend ==
    ASSUME received \in Seq(Entries), NEW e \in Entries,
           received' = Append(received, e)
    PROVE  /\ Log \in Seq(Seqs)
           /\ Log' = Append(Log, e.seq)
<1>1. Log \in Seq(Seqs) /\ Len(Log) = Len(received)
  <2>0. \A i \in 1..Len(received) : received[i] \in Entries
    OBVIOUS
  <2>1. \A i \in 1..Len(received) : received[i].seq \in Seqs
    BY <2>0 DEF Entries
  <2> QED
    BY <2>1 DEF Log
<1>2. /\ DOMAIN received' = 1..(Len(received) + 1)
      /\ \A i \in 1..Len(received) : received'[i] = received[i]
      /\ received'[Len(received) + 1] = e
      /\ Len(received) \in Nat
  BY AppendEntry
<1>3. e.seq \in Seqs
  BY DEF Entries
<1>4. /\ Append(Log, e.seq) \in Seq(Seqs)
      /\ Len(Append(Log, e.seq)) = Len(received) + 1
      /\ \A i \in 1..Len(received) : Append(Log, e.seq)[i] = received[i].seq
      /\ Append(Log, e.seq)[Len(received) + 1] = e.seq
  <2>1. \A i \in 1..Len(received) : Log[i] = received[i].seq
    BY DEF Log
  <2> QED
    BY <1>1, <1>3, <2>1
<1>5. Log' = [i \in 1..(Len(received) + 1) |-> received'[i].seq]
  BY <1>2 DEF Log
<1>6. Append(Log, e.seq) = [i \in 1..(Len(received) + 1) |-> Append(Log, e.seq)[i]]
  BY <1>4
<1>7. \A i \in 1..(Len(received) + 1) : received'[i].seq = Append(Log, e.seq)[i]
  BY <1>2, <1>4
<1> QED
  BY <1>1, <1>5, <1>6, <1>7

(* Before the first packet both logs are empty. *)
LEMMA ChannelInit == Init => ChannelInvariant /\ Window!Init
<1> SUFFICES ASSUME Init PROVE ChannelInvariant /\ Window!Init
  OBVIOUS
<1>1. NewStream \in StreamState /\ Counted(NewStream)
  BY CipherAssumption DEF NewStream, EpochReset, StreamState, Counted
<1>2. TypeOK
  BY <1>1, ChannelAssumption DEF Init, TypeOK
<1>3. SenderInvariant /\ ReceiverInvariant
  BY <1>1 DEF Init, SenderInvariant, ReceiverInvariant, Linked, Before
<1>4. MatchExact
  BY DEF Init, MatchExact
<1>5. Log = <<>>
  BY DEF Log, Init
<1> QED
  BY <1>2, <1>3, <1>4, <1>5 DEF ChannelInvariant, Window!Init, Init

(* Whether an entry is in step depends on the entries up to it alone. *)
LEMMA InStepPrefix ==
    ASSUME NEW log \in Seq(Entries), NEW e \in Entries, NEW i \in DOMAIN log
    PROVE  Service!InStep(Append(log, e), i) <=> Service!InStep(log, i)
<1> DEFINE new == Append(log, e)
           k == log[i].seq % EpochSize
<1>1. /\ \A j \in 1..Len(log) : new[j] = log[j]
      /\ i \in 1..Len(log) /\ Len(log) \in Nat
  BY AppendEntry
<1>2. k \in Nat
  <2>1. log[i] \in Entries
    OBVIOUS
  <2>2. log[i].seq \in Nat
    BY <2>1, ChannelAssumption DEF Entries, Seqs
  <2>3. k \in 0..EpochSize-1
    BY <2>2, EpochArithmetic
  <2> QED
    BY <2>3, CipherAssumption
<1> HIDE DEF new, k
<1>3. new[i] = log[i]
  BY <1>1
<1>4. k < i => \A j \in 0..k : new[i - j] = log[i - j]
  BY <1>1, <1>2
<1>5. k + 1 < i => new[i - k - 1] = log[i - k - 1]
  <2>1. k + 1 < i => i - k - 1 \in 1..Len(log)
    BY <1>1, <1>2
  <2> QED
    BY <1>1, <2>1
<1>6. CASE ~(k < i)
  BY <1>3, <1>6 DEF Service!InStep, k, new
<1>7. CASE k < i
  BY <1>3, <1>4, <1>5, <1>7 DEF Service!InStep, k, new
<1> QED
  BY <1>6, <1>7

(* Both cases of the match, for one entry after another. *)
LEMMA NextMatch ==
    TypeOK /\ SenderInvariant /\ ReceiverInvariant =>
        \A i \in DOMAIN received :
            (i # 1 => MatchExactAt(i - 1)) => MatchExactAt(i)
BY EpochEntryMatch, EpochContinuationMatch

(* Encrypting a packet: the sender's log grows by a linked entry, and the  *)
(* packets the receiver has had stay what they were.                       *)
LEMMA EncryptStep ==
    ASSUME ChannelInvariant, NEW m \in Messages, Encrypt(m)
    PROVE  ChannelInvariant'
<1> DEFINE st == EnsureEpoch(snd, seq)
           e == [seq |-> seq, keystream |-> Keystream(st, seq), plaintext |-> m]
<1>0. /\ TypeOK /\ SenderInvariant /\ ReceiverInvariant /\ MatchExact
      /\ seq \in Seqs /\ seq \in Nat
      /\ sent' = Append(sent, e)
      /\ snd' = Advance(st, seq, m)
      /\ seq' = seq + 1
      /\ UNCHANGED <<rcv, replayHighest, replayBitmask, received>>
  BY ChannelAssumption DEF ChannelInvariant, Encrypt, TypeOK, Seqs
<1>1. Packets \subseteq Entries /\ m \in Plaintexts
  BY DEF Packets, Entries, Plaintexts
<1>2. /\ st \in StreamState
      /\ Keystream(st, seq) \in Keystreams
      /\ Advance(st, seq, m) \in StreamState
  <2>1. snd \in StreamState
    BY <1>0 DEF TypeOK
  <2>2. st \in StreamState
    BY <2>1, <1>0, <1>1, StreamTypes
  <2> QED
    BY <2>2, <1>0, <1>1, StreamTypes
<1>3. e \in Packets
  BY <1>0, <1>2 DEF Packets
<1>4. /\ sent \in Seq(Packets) /\ sent \in Seq(Entries)
      /\ Linked(sent, snd) /\ Counted(snd) /\ snd \in StreamState
      /\ seq = Len(sent)
  BY <1>0, <1>1 DEF TypeOK, SenderInvariant
<1> HIDE DEF st
<1>5. /\ sent' \in Seq(Packets)
      /\ DOMAIN sent' = DOMAIN sent \cup {Len(sent) + 1}
      /\ Len(sent') = Len(sent) + 1
      /\ sent'[Len(sent) + 1] = e
      /\ \A i \in DOMAIN sent : sent'[i] = sent[i]
  <2> HIDE DEF e
  <2> QED
    BY <1>0, <1>3, <1>4, AppendEntry
<1>6. TypeOK'
  <2>1. seq' \in 0..MaxSeq+1
    BY <1>0, ChannelAssumption DEF Seqs
  <2> QED
    BY <2>1, <1>0, <1>2, <1>5 DEF TypeOK
<1>7. SenderInvariant'
  <2>1. Linked(sent', snd') /\ Counted(snd')
    BY <1>0, <1>1, <1>4, LinkedAppend DEF st
  <2>2. \A i \in DOMAIN sent' : sent'[i].seq = i - 1
    BY <1>0, <1>4, <1>5 DEF SenderInvariant
  <2> QED
    BY <2>1, <2>2, <1>0, <1>4, <1>5 DEF SenderInvariant
<1>8. \A i \in DOMAIN received :
        /\ received[i].seq + 1 \in DOMAIN sent'
        /\ SentOf(received[i].seq)' = SentOf(received[i].seq)
  BY <1>0, <1>5 DEF SentOf, ReceiverInvariant
<1>9. ReceiverInvariant'
  BY <1>0, <1>8 DEF ReceiverInvariant
<1>10. MatchExact'
  BY <1>0, <1>8 DEF MatchExact, MatchExactAt, Matches
<1> QED
  BY <1>6, <1>7, <1>9, <1>10 DEF ChannelInvariant

(* Each step is a step of the replay window, or leaves it alone: the       *)
(* number of a packet decrypt returns is one the window accepts.           *)
LEMMA WindowSimulation ==
    ASSUME ChannelInvariant, [Next]_vars
    PROVE  [Window!Next]_(Window!vars)
<1>1. CASE UNCHANGED <<replayHighest, replayBitmask, received>>
  BY <1>1 DEF Window!vars, Log
<1>2. ASSUME NEW n \in DOMAIN sent, DecryptGenuine(sent[n])
      PROVE  Window!Next
  <2> DEFINE s == sent[n].seq
             keystream == Keystream(EnsureEpoch(rcv, s), s)
             plaintext == Unmask(keystream, sent[n])
             e == [seq |-> s, keystream |-> keystream, plaintext |-> plaintext]
  <2>1. /\ ~Window!CheckReplay(s) /\ Window!CommitReplay(s)
        /\ received' = Append(received, e)
    BY <1>2 DEF DecryptGenuine
  <2>2. /\ received \in Seq(Entries) /\ rcv \in StreamState
        /\ sent[n] \in Packets
    BY DEF ChannelInvariant, TypeOK, Entries
  <2>3. s \in Seqs /\ s \in Nat /\ plaintext \in Plaintexts
    BY <2>2, ChannelAssumption DEF Packets, Seqs, Unmask, Plaintexts
  <2>4. keystream \in Keystreams
    <3> HIDE DEF s
    <3>1. EnsureEpoch(rcv, s) \in StreamState
      BY <2>2, <2>3, StreamTypes DEF Plaintexts
    <3> QED
      BY <3>1, <2>3, StreamTypes DEF Plaintexts
  <2>5. e \in Entries
    BY <2>3, <2>4 DEF Entries
  <2>6. Log' = Append(Log, s)
    <3>1. e.seq = s
      OBVIOUS
    <3> HIDE DEF e
    <3> QED
      BY <2>1, <2>2, <2>5, <3>1, LogAppend
  <2>7. Window!Accept(s)
    BY <2>1, <2>6 DEF Window!Accept
  <2> QED
    BY <2>3, <2>7 DEF Window!Next, Window!Seqs, Seqs
<1> QED
  BY <1>1, <1>2 DEF Next, vars, Encrypt, DecryptReplay, DecryptDamaged

(* The window's inductive invariant carries over to the channel. *)
LEMMA WindowInvariantStep ==
    ASSUME ChannelInvariant, WindowProofs!WindowInvariant, [Next]_vars
    PROVE  WindowProofs!WindowInvariant'
<1>1. [WindowProofs!Next]_(WindowProofs!vars)
  BY WindowSimulation
  DEF Window!Next, Window!vars, WindowProofs!Next, WindowProofs!vars,
      Window!RejectReplay, Window!RejectDamaged, Window!Accept,
      WindowProofs!RejectReplay, WindowProofs!RejectDamaged, WindowProofs!Accept,
      Window!CheckReplay, Window!CommitReplay, Window!ShiftedBitmask,
      WindowProofs!CheckReplay, WindowProofs!CommitReplay,
      WindowProofs!ShiftedBitmask, Window!Seqs, WindowProofs!Seqs
<1> QED
  BY <1>1, ChannelAssumption, WindowProofs!WindowStep
  DEF WindowProofs!WindowAssumption

(* Decrypting a genuine packet: the receiver's log grows by a linked       *)
(* entry, and NextMatch settles whether the new entry decrypted.           *)
LEMMA GenuineStep ==
    ASSUME ChannelInvariant, WindowProofs!WindowInvariant',
           NEW n \in DOMAIN sent, DecryptGenuine(sent[n])
    PROVE  ChannelInvariant'
<1> DEFINE s == sent[n].seq
           st == EnsureEpoch(rcv, s)
           plaintext == Unmask(Keystream(st, s), sent[n])
           e == [seq |-> s, keystream |-> Keystream(st, s),
                 plaintext |-> plaintext]
<1>0. /\ TypeOK /\ SenderInvariant /\ ReceiverInvariant /\ MatchExact
      /\ rcv' = Advance(st, s, plaintext)
      /\ received' = Append(received, e)
      /\ UNCHANGED <<seq, snd, sent>>
  BY DEF ChannelInvariant, DecryptGenuine, senderVars
<1>1. /\ sent[n] \in Packets /\ s = n - 1 /\ SentOf(s) = sent[n]
      /\ n \in Nat
  BY <1>0 DEF TypeOK, SenderInvariant, SentOf
<1>2. s \in Seqs /\ s \in Nat /\ plaintext \in Plaintexts
  BY <1>1, ChannelAssumption DEF Packets, Seqs, Unmask, Plaintexts
<1>3. /\ received \in Seq(Entries) /\ rcv \in StreamState
      /\ Linked(received, rcv) /\ Counted(rcv)
  BY <1>0 DEF TypeOK, ReceiverInvariant, Entries
<1> HIDE DEF s, plaintext
<1>4. st \in StreamState
  BY <1>2, <1>3, StreamTypes
<1>5. rcv' \in StreamState
  <2> HIDE DEF st
  <2> QED
    BY <1>0, <1>2, <1>4, StreamTypes
<1>6. /\ e \in Entries
      /\ Linked(received', rcv')
      /\ Counted(rcv')
  BY <1>0, <1>2, <1>3, LinkedAppend
<1>7. /\ received' \in Seq(Entries)
      /\ DOMAIN received' = DOMAIN received \cup {Len(received) + 1}
      /\ received'[Len(received) + 1] = e
      /\ \A i \in DOMAIN received : received'[i] = received[i]
      /\ DOMAIN received = 1..Len(received) /\ Len(received) \in Nat
  <2> HIDE DEF e
  <2> QED
    BY <1>0, <1>3, <1>6, AppendEntry
<1>8. TypeOK'
  <2>1. replayHighest' \in Seqs \cup {-1} /\ replayBitmask' \in SUBSET (0..W-1)
    BY DEF WindowProofs!WindowInvariant, WindowProofs!TypeOK,
           WindowProofs!Seqs, Seqs
  <2> QED
    BY <2>1, <1>0, <1>5, <1>7 DEF TypeOK, Entries
<1>9. SenderInvariant'
  BY <1>0 DEF SenderInvariant, Linked, Before, Counted
<1>10. ReceiverInvariant'
  <2>1. \A r : SentOf(r)' = SentOf(r)
    BY <1>0 DEF SentOf
  <2>2. ASSUME NEW i \in DOMAIN received'
        PROVE  /\ received'[i].seq + 1 \in DOMAIN sent
               /\ received'[i].plaintext =
                     Unmask(received'[i].keystream, SentOf(received'[i].seq))
    <3>1. CASE i \in DOMAIN received
      BY <3>1, <1>0, <1>7 DEF ReceiverInvariant
    <3>2. CASE i = Len(received) + 1
      <4>1. s + 1 = n
        BY <1>1
      <4> QED
        BY <3>2, <4>1, <1>1, <1>7 DEF plaintext
    <3> QED
      BY <3>1, <3>2, <1>7
  <2> QED
    BY <2>1, <2>2, <1>0, <1>6 DEF ReceiverInvariant
<1>11. MatchExact'
  <2>1. \A i \in DOMAIN received' :
          (i # 1 => MatchExactAt(i - 1)') => MatchExactAt(i)'
    <3>1. (\A i \in DOMAIN received :
             (i # 1 => MatchExactAt(i - 1)) => MatchExactAt(i))'
      BY <1>8, <1>9, <1>10, NextMatch, PTL
    <3> QED
      BY <3>1
  <2>2. \A i \in DOMAIN received : MatchExactAt(i)'
    <3> SUFFICES ASSUME NEW i \in DOMAIN received PROVE MatchExactAt(i)'
      OBVIOUS
    <3>1. Service!InStep(received', i) <=> Service!InStep(received, i)
      <4> HIDE DEF e
      <4> QED
        BY <1>0, <1>3, <1>6, InStepPrefix
    <3>2. Matches(i)' <=> Matches(i)
      BY <1>0, <1>7 DEF Matches, SentOf
    <3>3. MatchExactAt(i)
      BY <1>0 DEF MatchExact
    <3> QED
      BY <3>1, <3>2, <3>3 DEF MatchExactAt
  <2>3. ASSUME NEW top, top = Len(received) + 1
        PROVE  MatchExactAt(top)'
    <3>1. top # 1 => MatchExactAt(top - 1)'
      <4>1. top # 1 => top - 1 \in DOMAIN received
        BY <2>3, <1>7
      <4> QED
        BY <4>1, <2>2
    <3>2. top \in DOMAIN received'
      BY <2>3, <1>7
    <3> QED
      BY <2>1, <3>1, <3>2
  <2>4. \A i \in DOMAIN received' : MatchExactAt(i)'
    BY <2>2, <2>3, <1>7
  <2> QED
    BY <2>4 DEF MatchExact
<1> QED
  BY <1>8, <1>9, <1>10, <1>11 DEF ChannelInvariant

-----------------------------------------------------------------------------

FullInvariant == ChannelInvariant /\ WindowProofs!WindowInvariant

(* The start of both logs and of the window. *)
LEMMA FullInit == Init => FullInvariant
<1>1. Init => WindowProofs!Init
  BY ChannelInit DEF Window!Init, WindowProofs!Init
<1> QED
  BY <1>1, ChannelInit, ChannelAssumption, WindowProofs!WindowInit
  DEF FullInvariant, WindowProofs!WindowAssumption

(* Each step keeps the logs linked and the window exact, together. *)
LEMMA FullStep == FullInvariant /\ [Next]_vars => FullInvariant'
<1> SUFFICES ASSUME FullInvariant, [Next]_vars PROVE FullInvariant'
  OBVIOUS
<1>1. ChannelInvariant /\ WindowProofs!WindowInvariant'
  BY WindowInvariantStep DEF FullInvariant
<1>2. ASSUME UNCHANGED vars PROVE ChannelInvariant'
  <2>1. /\ TypeOK /\ SenderInvariant /\ ReceiverInvariant /\ MatchExact
        /\ UNCHANGED <<seq, snd, sent, rcv, replayHighest, replayBitmask, received>>
    BY <1>1, <1>2 DEF ChannelInvariant, vars
  <2>2. TypeOK' /\ SenderInvariant' /\ ReceiverInvariant'
    BY <2>1 DEF TypeOK, SenderInvariant, ReceiverInvariant, SentOf
  <2>3. MatchExact'
    BY <2>1 DEF MatchExact, MatchExactAt, Matches, SentOf
  <2> QED
    BY <2>2, <2>3 DEF ChannelInvariant
<1>3. ASSUME NEW m \in Messages, Encrypt(m) PROVE ChannelInvariant'
  BY <1>1, <1>3, EncryptStep
<1>4. ASSUME NEW n \in DOMAIN sent, DecryptGenuine(sent[n])
      PROVE  ChannelInvariant'
  BY <1>1, <1>4, GenuineStep
<1> QED
  BY <1>1, <1>2, <1>3, <1>4 DEF FullInvariant, Next, DecryptReplay, DecryptDamaged

(* A keystream match is what makes the plaintext right. *)
LEMMA MatchDecrypts ==
    ASSUME ChannelInvariant, NEW i \in DOMAIN received
    PROVE  /\ received[i].seq + 1 \in DOMAIN sent
           /\ received[i].plaintext = IF Service!InStep(received, i)
                                      THEN sent[received[i].seq + 1].plaintext
                                      ELSE Garbage
           /\ sent[received[i].seq + 1].plaintext # Garbage
<1>1. /\ received[i].seq + 1 \in DOMAIN sent
      /\ received[i].plaintext =
            Unmask(received[i].keystream, SentOf(received[i].seq))
      /\ Matches(i) <=> Service!InStep(received, i)
  BY DEF ChannelInvariant, ReceiverInvariant, MatchExact, MatchExactAt
<1>2. sent[received[i].seq + 1] \in Packets
  BY <1>1 DEF ChannelInvariant, TypeOK
<1>3. sent[received[i].seq + 1].plaintext # Garbage
  BY <1>2, CipherAssumption DEF Packets
<1> QED
  BY <1>1, <1>3 DEF Unmask, SentOf, Matches

(* The variables of a CTP channel keep their types. *)
THEOREM ChannelTypeCorrect == Spec => []TypeOK
<1>1. FullInvariant => TypeOK
  BY DEF FullInvariant, ChannelInvariant
<1> QED
  BY FullInit, FullStep, <1>1, PTL DEF Spec

(* decrypt returns the plaintext that was sent exactly when the receiver   *)
(* came to the packet in step, whatever the network did before.            *)
THEOREM DecryptIsExact == Spec => []DecryptExact
<1>1. FullInvariant => DecryptExact
  BY MatchDecrypts DEF FullInvariant, DecryptExact
<1> QED
  BY FullInit, FullStep, <1>1, PTL DEF Spec

(* Inside decrypt the replay window behaves as it does on its own, so what *)
(* is proved of ReplayWindow holds of the channel.                         *)
THEOREM ChannelImplementsWindow == Spec => ImplementsWindow
<1>1. Init => Window!Init
  BY ChannelInit
<1>2. FullInvariant /\ [Next]_vars => [Window!Next]_(Window!vars)
  BY WindowSimulation DEF FullInvariant
<1> QED
  BY FullInit, FullStep, <1>1, <1>2, PTL DEF Spec, ImplementsWindow, Window!Spec

-----------------------------------------------------------------------------

(* The two mappings commute with appending to the log they map. *)
LEMMA PlaintextsSentAppend ==
    ASSUME NEW e, sent \in Seq(Packets), e \in Packets,
           sent' = Append(sent, e)
    PROVE  PlaintextsSent' = Append(PlaintextsSent, e.plaintext)
<1>1. /\ DOMAIN sent' = 1..(Len(sent) + 1)
      /\ \A i \in 1..Len(sent) : sent'[i] = sent[i]
      /\ sent'[Len(sent) + 1] = e
      /\ DOMAIN sent = 1..Len(sent) /\ Len(sent) \in Nat
  BY AppendEntry
<1>2. PlaintextsSent' = [i \in 1..(Len(sent) + 1) |-> sent'[i].plaintext]
  BY <1>1 DEF PlaintextsSent
<1>3. PlaintextsSent = [i \in 1..Len(sent) |-> sent[i].plaintext]
  BY <1>1 DEF PlaintextsSent
<1> DEFINE P == {sent[i].plaintext : i \in 1..Len(sent)} \cup {e.plaintext}
<1>4. PlaintextsSent \in Seq(P) /\ Len(PlaintextsSent) = Len(sent)
  BY <1>1, <1>3
<1>5. e.plaintext \in P
  OBVIOUS
<1> HIDE DEF P
<1> DEFINE new == Append(PlaintextsSent, e.plaintext)
<1>6. /\ new \in Seq(P) /\ Len(new) = Len(sent) + 1
      /\ new[Len(sent) + 1] = e.plaintext
      /\ \A i \in 1..Len(sent) : new[i] = PlaintextsSent[i]
  BY <1>4, <1>5
<1> HIDE DEF new
<1>7. \A i \in 1..(Len(sent) + 1) : new[i] = sent'[i].plaintext
  BY <1>1, <1>3, <1>6
<1>8. new = [i \in 1..(Len(sent) + 1) |-> new[i]]
  BY <1>6
<1> QED
  BY <1>2, <1>7, <1>8 DEF new

(* The same for the receiver's log, which keeps the numbers as well. *)
LEMMA PlaintextsReceivedAppend ==
    ASSUME NEW e, received \in Seq(Entries), e \in Entries,
           received' = Append(received, e)
    PROVE  PlaintextsReceived' =
             Append(PlaintextsReceived, [seq |-> e.seq, plaintext |-> e.plaintext])
<1> DEFINE view(x) == [seq |-> x.seq, plaintext |-> x.plaintext]
           new == Append(PlaintextsReceived, view(e))
           S == [seq : Seqs, plaintext : Plaintexts]
<1>1. /\ DOMAIN received' = 1..(Len(received) + 1)
      /\ \A i \in 1..Len(received) : received'[i] = received[i]
      /\ received'[Len(received) + 1] = e
      /\ DOMAIN received = 1..Len(received) /\ Len(received) \in Nat
      /\ \A i \in 1..Len(received) : received[i] \in Entries
  BY AppendEntry
<1>2. \A x \in Entries : view(x) \in S
  BY DEF Entries
<1>3. /\ PlaintextsReceived = [i \in 1..Len(received) |-> view(received[i])]
      /\ PlaintextsReceived' =
            [i \in 1..(Len(received) + 1) |-> view(received'[i])]
  BY <1>1 DEF PlaintextsReceived
<1> HIDE DEF view, S
<1>4. /\ PlaintextsReceived \in Seq(S)
      /\ Len(PlaintextsReceived) = Len(received)
  BY <1>1, <1>2, <1>3
<1>5. view(e) \in S
  BY <1>2
<1>6. /\ new \in Seq(S) /\ Len(new) = Len(received) + 1
      /\ new[Len(received) + 1] = view(e)
      /\ \A i \in 1..Len(received) : new[i] = PlaintextsReceived[i]
  BY <1>4, <1>5
<1> HIDE DEF new
<1>7. \A i \in 1..(Len(received) + 1) : new[i] = view(received'[i])
  BY <1>1, <1>3, <1>6
<1>8. new = [i \in 1..(Len(received) + 1) |-> new[i]]
  BY <1>6
<1> QED
  BY <1>3, <1>7, <1>8 DEF new, view

(* Being in step is a matter of sequence numbers alone. *)
LEMMA InStepView ==
    ASSUME received \in Seq(Entries), NEW i \in DOMAIN received
    PROVE  Service!InStep(PlaintextsReceived, i) <=> Service!InStep(received, i)
<1>1. \A j \in DOMAIN received : PlaintextsReceived[j].seq = received[j].seq
  BY DEF PlaintextsReceived
<1> DEFINE k == received[i].seq % EpochSize
<1>2. k \in Nat /\ i \in 1..Len(received) /\ Len(received) \in Nat
      /\ DOMAIN received = 1..Len(received)
  <2>1. received[i] \in Entries
    OBVIOUS
  <2>2. received[i].seq \in Nat
    BY <2>1, ChannelAssumption DEF Entries, Seqs
  <2>3. k \in 0..EpochSize-1
    BY <2>2, EpochArithmetic
  <2> QED
    BY <2>3, CipherAssumption
<1>3. k = PlaintextsReceived[i].seq % EpochSize
  BY <1>1
<1> HIDE DEF k
<1>4. /\ k < i => \A j \in 0..k : i - j \in DOMAIN received
      /\ k + 1 < i => i - k - 1 \in DOMAIN received
  BY <1>2
<1>5. CASE ~(k < i)
  BY <1>3, <1>5 DEF Service!InStep, k
<1>6. CASE k < i
  <2>1. \A j \in 0..k : PlaintextsReceived[i - j].seq = received[i - j].seq
    BY <1>1, <1>4, <1>6
  <2>2. k + 1 < i => PlaintextsReceived[i - k - 1].seq = received[i - k - 1].seq
    BY <1>1, <1>4
  <2> QED
    BY <1>1, <1>3, <2>1, <2>2 DEF Service!InStep, k
<1> QED
  BY <1>5, <1>6

(* What the service's step needs of the state it leads to. *)
LEMMA ServiceView ==
    ChannelInvariant =>
        /\ \A i \in DOMAIN received :
              received[i].plaintext =
                IF Service!InStep(received, i)
                THEN sent[received[i].seq + 1].plaintext ELSE Garbage
        /\ \A i \in DOMAIN received :
              Service!InStep(PlaintextsReceived, i)
                <=> Service!InStep(received, i)
<1> SUFFICES ASSUME ChannelInvariant, NEW i \in DOMAIN received
             PROVE  /\ received[i].plaintext =
                          IF Service!InStep(received, i)
                          THEN sent[received[i].seq + 1].plaintext ELSE Garbage
                    /\ Service!InStep(PlaintextsReceived, i)
                          <=> Service!InStep(received, i)
  OBVIOUS
<1>1. received \in Seq(Entries)
  BY DEF ChannelInvariant, TypeOK, Entries
<1> QED
  BY <1>1, MatchDecrypts, InStepView

(* Each step of the channel is a step of the service or leaves it alone.   *)
LEMMA ServiceStep ==
    ASSUME FullInvariant, FullInvariant', [Next]_vars
    PROVE  [Service!Next]_(Service!vars)
<1>i. /\ ChannelInvariant /\ ChannelInvariant'
      /\ TypeOK /\ TypeOK' /\ SenderInvariant
      /\ WindowProofs!WindowInvariant'
  BY DEF FullInvariant, ChannelInvariant
<1>t. /\ sent \in Seq(Packets) /\ sent' \in Seq(Packets)
      /\ received \in Seq(Entries) /\ received' \in Seq(Entries)
      /\ rcv \in StreamState /\ snd \in StreamState /\ seq \in Nat
  BY <1>i, ChannelAssumption DEF TypeOK, Entries
<1>1. CASE UNCHANGED <<sent, received>>
  BY <1>1 DEF Service!vars, PlaintextsSent, PlaintextsReceived
<1>2. ASSUME NEW m \in Messages, Encrypt(m)
      PROVE  Service!Next
  <2> DEFINE e == [seq |-> seq, keystream |-> Keystream(EnsureEpoch(snd, seq), seq),
                   plaintext |-> m]
  <2>1. sent' = Append(sent, e) /\ e.plaintext = m /\ UNCHANGED received
    BY <1>2 DEF Encrypt
  <2> HIDE DEF e
  <2>2. e \in Packets
    <3>1. /\ Len(sent) + 1 \in DOMAIN sent'
          /\ sent'[Len(sent) + 1] = e
      BY <1>t, <2>1
    <3> QED
      BY <3>1, <1>t
  <2>3. PlaintextsSent' = Append(PlaintextsSent, m)
    BY <2>1, <2>2, <1>t, PlaintextsSentAppend
  <2>4. UNCHANGED PlaintextsReceived
    BY <2>1 DEF PlaintextsReceived
  <2> QED
    BY <2>3, <2>4 DEF Service!Next, Service!Send
<1>3. ASSUME NEW n \in DOMAIN sent, DecryptGenuine(sent[n])
      PROVE  Service!Next
  <2> DEFINE s == sent[n].seq
             keystream == Keystream(EnsureEpoch(rcv, s), s)
             plaintext == Unmask(keystream, sent[n])
             e == [seq |-> s, keystream |-> keystream, plaintext |-> plaintext]
             top == Len(received) + 1
  <2>1. /\ received' = Append(received, e) /\ UNCHANGED sent
        /\ e.seq = s /\ e.plaintext = plaintext
    BY <1>3 DEF DecryptGenuine, senderVars
  <2>2. s = n - 1 /\ n \in 1..Len(sent) /\ Len(sent) \in Nat
        /\ plaintext \in Plaintexts
    <3>1. sent[n] \in Packets
      BY <1>t
    <3> QED
      BY <3>1, <1>i, <1>t DEF SenderInvariant, Packets, Unmask, Plaintexts
  <2> HIDE DEF e, keystream, plaintext, s
  <2>3. /\ top \in DOMAIN received' /\ received'[top] = e
        /\ \A i \in DOMAIN received : i \in DOMAIN received' /\ i # top
                                     /\ received'[i] = received[i]
        /\ Len(received) \in Nat /\ DOMAIN received = 1..Len(received)
    BY <1>t, <2>1
  <2>4. e \in Entries
    BY <1>t, <2>3
  <2>5. PlaintextsReceived' =
          Append(PlaintextsReceived, [seq |-> s, plaintext |-> plaintext])
    BY <2>1, <2>4, <1>t, PlaintextsReceivedAppend
  <2>6. Len(PlaintextsReceived) = Len(received) /\ DOMAIN PlaintextsReceived = DOMAIN received
        /\ Len(PlaintextsReceived') = top
    <3>1. DOMAIN PlaintextsReceived = 1..Len(received)
      BY <2>3 DEF PlaintextsReceived
    <3>2. DOMAIN PlaintextsReceived' = 1..(Len(received) + 1)
      BY <2>1, <2>3, <2>4, <1>t, AppendEntry DEF PlaintextsReceived
    <3>3. /\ \E S : PlaintextsReceived \in Seq(S)
          /\ \E S : PlaintextsReceived' \in Seq(S)
      <4>1. PlaintextsReceived \in Seq({PlaintextsReceived[i] : i \in 1..Len(received)})
        BY <2>3, <3>1 DEF PlaintextsReceived
      <4>2. PlaintextsReceived' \in Seq({PlaintextsReceived'[i] : i \in 1..(Len(received) + 1)})
        BY <2>3, <3>2 DEF PlaintextsReceived
      <4> QED
        BY <4>1, <4>2
    <3> QED
      BY <3>1, <3>2, <3>3, <2>3
  <2>7. \A i \in DOMAIN PlaintextsReceived : PlaintextsReceived[i].seq # s
    <3>1. \A i, j \in DOMAIN Log' : Log'[i] = Log'[j] => i = j
      BY <1>i DEF WindowProofs!WindowInvariant, WindowProofs!AtMostOnce
    <3>2. /\ DOMAIN Log' = DOMAIN received'
          /\ \A i \in DOMAIN received' : Log'[i] = received'[i].seq
      BY DEF Log
    <3>3. \A i \in DOMAIN received : received[i].seq # s
      BY <2>1, <2>3, <3>1, <3>2
    <3> QED
      BY <3>3, <2>6 DEF PlaintextsReceived
  <2>8. plaintext = IF Service!InStep(PlaintextsReceived', top)
                    THEN PlaintextsSent[s + 1] ELSE Garbage
    <3>1. /\ received'[top].plaintext =
               IF Service!InStep(received', top)
               THEN sent'[received'[top].seq + 1].plaintext ELSE Garbage
      <4>1. (\A i \in DOMAIN received :
               received[i].plaintext =
                 IF Service!InStep(received, i)
                 THEN sent[received[i].seq + 1].plaintext ELSE Garbage)'
        BY <1>i, ServiceView, PTL
      <4> QED
        BY <4>1, <2>3
    <3>2. Service!InStep(PlaintextsReceived', top) <=> Service!InStep(received', top)
      <4>1. (\A i \in DOMAIN received :
               Service!InStep(PlaintextsReceived, i) <=> Service!InStep(received, i))'
        BY <1>i, ServiceView, PTL
      <4> QED
        BY <4>1, <2>3
    <3>3. PlaintextsSent[s + 1] = sent[s + 1].plaintext
      BY <2>2 DEF PlaintextsSent
    <3> QED
      BY <3>1, <3>2, <3>3, <2>1, <2>3
  <2>9. Service!Deliver(s, plaintext)
    <3>1. UNCHANGED PlaintextsSent
      BY <2>1 DEF PlaintextsSent
    <3> QED
      BY <3>1, <2>5, <2>6, <2>7, <2>8 DEF Service!Deliver
  <2>10. s \in 0..Len(PlaintextsSent)-1
    <3>1. DOMAIN PlaintextsSent = 1..Len(sent)
      BY <2>2, <1>t DEF PlaintextsSent
    <3>2. PlaintextsSent \in Seq({PlaintextsSent[i] : i \in 1..Len(sent)})
      BY <3>1, <2>2 DEF PlaintextsSent
    <3> QED
      BY <3>1, <3>2, <2>2
  <2> QED
    BY <2>2, <2>9, <2>10 DEF Service!Next, Plaintexts
<1> QED
  BY <1>1, <1>2, <1>3 DEF Next, vars, DecryptReplay, DecryptDamaged

(* Sender and receiver together implement the service over any network.    *)
THEOREM ChannelImplementsService == Spec => ImplementsService
<1>1. Init => Service!Init
  BY DEF Init, Service!Init, PlaintextsSent, PlaintextsReceived
<1>2. FullInvariant /\ FullInvariant' /\ [Next]_vars
        => [Service!Next]_(Service!vars)
  BY ServiceStep
<1> QED
  BY FullInit, FullStep, <1>1, <1>2, PTL
  DEF Spec, ImplementsService, Service!Spec

-----------------------------------------------------------------------------
(* Loss.                                                                   *)

(* Entry i is missing no earlier packet of its own epoch. *)
CaughtUp(i) ==
    \A s \in Seqs :
        EpochOf(s) = EpochOf(received[i].seq) /\ s < received[i].seq
            => \E j \in DOMAIN received : received[j].seq = s

Confined ==
    InOrder => \A i \in DOMAIN received :
                  CaughtUp(i) => Service!InStep(received, i)

LossInvariant == FullInvariant /\ Confined

-----------------------------------------------------------------------------

(* Epochs are in the order of the numbers in them. *)
LEMMA EpochOrder ==
    ASSUME NEW r \in Nat, NEW s \in Nat, r <= s
    PROVE  EpochOf(r) <= EpochOf(s)
BY CipherAssumption DEF EpochOf

(* A number is determined by its epoch and its place in it. *)
LEMMA SamePlace ==
    ASSUME NEW r \in Nat, NEW s \in Nat,
           EpochOf(r) = EpochOf(s), r % EpochSize = s % EpochSize
    PROVE  r = s
BY CipherAssumption DEF EpochOf

(* No number of an epoch is below the one that starts it. *)
LEMMA EpochStartFirst ==
    ASSUME NEW r \in Nat, NEW s \in Nat, r < s, EpochOf(r) = EpochOf(s)
    PROVE  s % EpochSize # 0
BY CipherAssumption DEF EpochOf

(* A packet that starts an epoch is in step when what came before it has a *)
(* smaller number.                                                         *)
LEMMA EpochStartInStep ==
    ASSUME NEW log \in Seq(Entries), NEW i \in DOMAIN log,
           log[i].seq % EpochSize = 0,
           i > 1 => log[i - 1].seq < log[i].seq
    PROVE  Service!InStep(log, i)
<1> DEFINE s == log[i].seq
           r == log[i - 1].seq
<1>1. i \in Nat \ {0} /\ s \in Nat /\ (i > 1 => r \in Nat)
  <2>1. i \in 1..Len(log) /\ log[i] \in Entries
    OBVIOUS
  <2>2. i > 1 => log[i - 1] \in Entries
    OBVIOUS
  <2> QED
    BY <2>1, <2>2, ChannelAssumption DEF Entries, Seqs
<1>2. i - 0 = i /\ s - 0 = s /\ i - 0 - 1 = i - 1
  BY <1>1
<1>3. \A j \in 0..0 : log[i - j].seq = s - j
  BY <1>2
<1>4. ASSUME i > 1 PROVE Service!Epoch(r) # Service!Epoch(s)
  <2> HIDE DEF s, r
  <2>1. r \in Nat /\ s \in Nat /\ r < s /\ s % EpochSize = 0
    BY <1>1, <1>4 DEF s, r
  <2>2. s - 1 \in Nat /\ (s - 1) + 1 = s
    BY <2>1
  <2>3. EpochOf(s) = EpochOf(s - 1) + 1 /\ EpochOf(s - 1) \in Nat
    BY <2>1, <2>2, EpochArithmetic
  <2>4. EpochOf(r) <= EpochOf(s - 1)
    BY <2>1, <2>2, EpochOrder
  <2>5. EpochOf(r) \in Nat
    BY <2>1, EpochArithmetic
  <2> QED
    BY <2>3, <2>4, <2>5 DEF Service!Epoch, EpochOf
<1>5. ASSUME i > 1 PROVE Service!Epoch(s) # 0
  <2> HIDE DEF s, r
  <2>1. r \in Nat /\ s \in Nat /\ r < s /\ s % EpochSize = 0
    BY <1>1, <1>5 DEF s, r
  <2>2. EpochOf(s) = 0 => s = 0
    BY <2>1, EpochArithmetic
  <2> QED
    BY <2>1, <2>2 DEF Service!Epoch, EpochOf
<1> HIDE DEF r
<1>6. 0 < i /\ (0 + 1 < i => i > 1)
  BY <1>1
<1>7. log[i - 0 - 1].seq = r
  BY <1>2 DEF r
<1> QED
  BY <1>3, <1>4, <1>5, <1>6, <1>7 DEF Service!InStep

(* A packet that follows its predecessor in the epoch is in step when its  *)
(* predecessor is.                                                         *)
LEMMA SuccessorInStep ==
    ASSUME NEW log \in Seq(Entries), NEW i \in DOMAIN log, i > 1,
           log[i].seq % EpochSize # 0,
           log[i - 1].seq = log[i].seq - 1,
           Service!InStep(log, i - 1)
    PROVE  Service!InStep(log, i)
<1> DEFINE s == log[i].seq
           r == log[i - 1].seq
           k == s % EpochSize
           l == r % EpochSize
<1>1. i \in Nat /\ s \in Nat /\ r \in Nat /\ s = r + 1
  <2>1. i \in 1..Len(log) /\ log[i] \in Entries /\ log[i - 1] \in Entries
    OBVIOUS
  <2>2. log[i].seq \in Nat /\ log[i - 1].seq \in Nat /\ i \in Nat
    BY <2>1, ChannelAssumption DEF Entries, Seqs
  <2> QED
    BY <2>2
<1>2. k = l + 1 /\ k \in Nat /\ l \in Nat /\ EpochOf(s) = EpochOf(r)
  <2> HIDE DEF s, r
  <2>1. /\ r % EpochSize \in 0..EpochSize-1
        /\ (r + 1) % EpochSize # 0
              => /\ EpochOf(r + 1) = EpochOf(r)
                 /\ (r + 1) % EpochSize = (r % EpochSize) + 1
    BY <1>1, EpochArithmetic
  <2>2. (r + 1) % EpochSize # 0
    BY <1>1 DEF s
  <2> QED
    BY <2>1, <2>2, <1>1, CipherAssumption
<1> HIDE DEF k, l
<1>3. /\ l < i - 1
      /\ \A j \in 0..l : log[(i - 1) - j].seq = r - j
      /\ l + 1 < i - 1 => /\ Service!Epoch(log[(i - 1) - l - 1].seq) # Service!Epoch(r)
                          /\ Service!Epoch(r) = 0 => (BurnIn = EpochBurnIn)
  BY DEF Service!InStep, l
<1>4. ASSUME NEW j \in 0..k PROVE log[i - j].seq = s - j
  <2>1. CASE j = 0
    <3>1. i - j = i /\ s - j = s
      BY <2>1, <1>1
    <3> QED
      BY <3>1
  <2>2. CASE j # 0
    <3> HIDE DEF s, r
    <3>1. /\ j - 1 \in 0..l /\ (i - 1) - (j - 1) = i - j
          /\ r - (j - 1) = s - j
      BY <2>2, <1>1, <1>2
    <3>2. log[(i - 1) - (j - 1)].seq = r - (j - 1)
      BY <1>3, <3>1
    <3> QED
      BY <3>1, <3>2
  <2> QED
    BY <2>1, <2>2
<1> HIDE DEF s, r
<1>5. k < i /\ (k + 1 < i <=> l + 1 < i - 1) /\ i - k - 1 = (i - 1) - l - 1
  BY <1>1, <1>2, <1>3
<1>6. Service!Epoch(s) = Service!Epoch(r)
  BY <1>2 DEF Service!Epoch, EpochOf
<1> QED
  BY <1>3, <1>4, <1>5, <1>6 DEF Service!InStep, k, s, r

-----------------------------------------------------------------------------

(* An arrival keeps Confined: the entries before it stay as they were, and *)
(* the new one, which nothing overtook, either starts its epoch or follows *)
(* its predecessor, which was caught up as well.                           *)
LEMMA ConfinedArrival ==
    ASSUME received \in Seq(Entries), NEW e \in Entries,
           received' = Append(received, e), Confined
    PROVE  Confined'
<1> DEFINE N == Len(received) + 1
           s == e.seq
<1>1. /\ received' \in Seq(Entries)
      /\ DOMAIN received' = DOMAIN received \cup {N}
      /\ received'[N] = e
      /\ \A i \in DOMAIN received : received'[i] = received[i]
      /\ DOMAIN received = 1..Len(received) /\ Len(received) \in Nat
  BY AppendEntry
<1>2. /\ s \in Seqs /\ s \in Nat
      /\ \A i \in DOMAIN received :
            received[i].seq \in Seqs /\ received[i].seq \in Nat
  <2>1. \A i \in DOMAIN received : received[i] \in Entries
    OBVIOUS
  <2> QED
    BY <2>1, ChannelAssumption DEF Entries, Seqs
<1> SUFFICES ASSUME InOrder'
             PROVE  (\A i \in DOMAIN received :
                        CaughtUp(i) => Service!InStep(received, i))'
  BY DEF Confined
<1>3. /\ InOrder
      /\ \A i \in DOMAIN received : received[i].seq < s
  BY <1>1 DEF InOrder
<1>4. ASSUME NEW i \in DOMAIN received, NEW t \in Seqs, t <= received[i].seq,
             NEW j \in DOMAIN received', received'[j].seq = t
      PROVE  j \in DOMAIN received /\ received[j].seq = t
  <2>1. j # N
    BY <1>1, <1>2, <1>3, <1>4 DEF Seqs
  <2> QED
    BY <1>1, <1>4, <2>1
<1>5. ASSUME NEW i \in DOMAIN received,
             \A t \in Seqs :
                EpochOf(t) = EpochOf(received[i].seq) /\ t < received[i].seq
                    => \E j \in DOMAIN received' : received'[j].seq = t
      PROVE  Service!InStep(received', i)
  <2>1. CaughtUp(i)
    BY <1>2, <1>4, <1>5 DEF CaughtUp, Seqs
  <2>2. Service!InStep(received, i)
    BY <1>3, <2>1 DEF Confined
  <2> QED
    BY <2>2, InStepPrefix
<1>6. ASSUME \A t \in Seqs :
                EpochOf(t) = EpochOf(s) /\ t < s
                    => \E j \in DOMAIN received' : received'[j].seq = t
      PROVE  Service!InStep(received', N)
  <2>0. N \in DOMAIN received' /\ N \in Nat /\ received'[N].seq = s
    BY <1>1
  <2>1. N > 1 => N - 1 \in DOMAIN received /\ received'[N - 1] = received[N - 1]
    <3>1. N > 1 => N - 1 \in DOMAIN received
      <4>1. N - 1 = Len(received)
        BY <1>1
      <4> QED
        BY <1>1, <4>1
    <3> HIDE DEF N
    <3> QED
      BY <1>1, <3>1
  <2>2. CASE s % EpochSize = 0
    <3>1. N > 1 => received'[N - 1].seq < received'[N].seq
      BY <1>3, <2>0, <2>1
    <3> HIDE DEF N, s
    <3> QED
      BY <1>1, <2>0, <2>2, <3>1, EpochStartInStep
  <2>3. CASE s % EpochSize # 0
    <3>1. /\ s - 1 \in Seqs /\ s - 1 < s
          /\ EpochOf(s - 1) = EpochOf(s)
      <4> HIDE DEF s
      <4>1. s - 1 \in Nat /\ (s - 1) + 1 = s /\ s - 1 \in Seqs
        <5>1. s # 0
          BY <2>3, EpochArithmetic
        <5> QED
          BY <1>2, <5>1, ChannelAssumption DEF Seqs
      <4>2. (s - 1 + 1) % EpochSize # 0 => EpochOf(s - 1 + 1) = EpochOf(s - 1)
        BY <4>1, EpochArithmetic
      <4> QED
        BY <4>1, <4>2, <2>3, <1>2
    <3>2. PICK j \in DOMAIN received' : received'[j].seq = s - 1
      BY <1>6, <3>1
    <3>3. j \in DOMAIN received /\ received[j].seq = s - 1
      <4>1. j # N
        BY <1>2, <2>0, <3>2
      <4> QED
        BY <1>1, <3>2, <4>1
    <3>4. j = N - 1
      <4>1. j \in 1..Len(received) /\ N - 1 = Len(received)
            /\ N - 1 \in DOMAIN received
        BY <1>1, <3>3
      <4>2. ASSUME j < N - 1 PROVE FALSE
        <5>1. received[j].seq < received[N - 1].seq
          BY <1>3, <3>3, <4>1, <4>2 DEF InOrder
        <5>2. received[N - 1].seq < s /\ received[N - 1].seq \in Nat
          BY <1>2, <1>3, <4>1
        <5> HIDE DEF N, s
        <5> QED
          BY <5>1, <5>2, <3>3, <1>2
      <4> QED
        BY <4>1, <4>2
    <3>5. N > 1 /\ received'[N - 1].seq = s - 1 /\ N - 1 \in DOMAIN received
          /\ received[N - 1].seq = s - 1
      <4>1. N > 1
        <5>1. j \in 1..Len(received) /\ Len(received) \in Nat
          BY <1>1, <3>3
        <5> QED
          BY <5>1
      <4> HIDE DEF N
      <4> QED
        BY <2>1, <3>3, <3>4, <4>1
    <3> HIDE DEF N, s
    <3>6. Service!InStep(received', N - 1)
      <4>1. \A t \in Seqs :
               EpochOf(t) = EpochOf(received[N - 1].seq)
               /\ t < received[N - 1].seq
                   => \E l \in DOMAIN received' : received'[l].seq = t
        BY <1>2, <1>6, <3>1, <3>5 DEF Seqs
      <4> QED
        BY <1>5, <3>5, <4>1
    <3> QED
      BY <1>1, <2>0, <2>3, <3>5, <3>6, SuccessorInStep
  <2> QED
    BY <2>2, <2>3
<1> SUFFICES ASSUME NEW i \in DOMAIN received', CaughtUp(i)'
             PROVE  Service!InStep(received', i)
  OBVIOUS
<1>7. \A t \in Seqs :
         EpochOf(t) = EpochOf(received'[i].seq) /\ t < received'[i].seq
             => \E j \in DOMAIN received' : received'[j].seq = t
  BY DEF CaughtUp, EpochOf
<1>8. CASE i \in DOMAIN received
  BY <1>1, <1>5, <1>7, <1>8
<1>9. CASE i = N
  BY <1>1, <1>6, <1>7, <1>9
<1> QED
  BY <1>1, <1>8, <1>9

(* Only an arrival changes what Confined speaks of. *)
LEMMA ConfinedStep == LossInvariant /\ [Next]_vars => LossInvariant'
<1> SUFFICES ASSUME LossInvariant, [Next]_vars PROVE LossInvariant'
  OBVIOUS
<1>1. FullInvariant /\ Confined /\ FullInvariant'
  BY FullStep DEF LossInvariant
<1>2. ASSUME UNCHANGED received PROVE Confined'
  BY <1>1, <1>2 DEF Confined, InOrder, CaughtUp
<1>3. ASSUME NEW n \in DOMAIN sent, DecryptGenuine(sent[n])
      PROVE  Confined'
  <2>1. PICK e : received' = Append(received, e)
    BY <1>3 DEF DecryptGenuine
  <2>2. received \in Seq(Entries) /\ received' \in Seq(Entries)
    BY <1>1 DEF FullInvariant, ChannelInvariant, TypeOK, Entries
  <2>3. e \in Entries
    <3>1. received'[Len(received) + 1] = e /\ Len(received) + 1 \in DOMAIN received'
      BY <2>1, <2>2
    <3> QED
      BY <2>2, <3>1
  <2> QED
    BY <1>1, <2>1, <2>2, <2>3, ConfinedArrival
<1> QED
  BY <1>1, <1>2, <1>3 DEF LossInvariant, Next, vars, Encrypt,
      DecryptReplay, DecryptDamaged

(* In order, no two entries of an epoch have the same place in it, and the *)
(* epoch's first place is never garbled: at most EpochSize - 1 are.        *)
LEMMA GarbledBound ==
    ASSUME InOrder, NEW e \in Nat,
           \A i \in DOMAIN received : received[i].seq \in Nat,
           DOMAIN received \in SUBSET Nat,
           \A i \in Garbled(e) : received[i].seq % EpochSize # 0
    PROVE  Cardinality(Garbled(e)) <= EpochSize - 1
<1> DEFINE place == [i \in Garbled(e) |-> received[i].seq % EpochSize]
           places == 1..(EpochSize - 1)
<1>1. place \in [Garbled(e) -> places]
  <2>1. ASSUME NEW i \in Garbled(e)
        PROVE  received[i].seq % EpochSize \in places
    <3>1. received[i].seq \in Nat /\ received[i].seq % EpochSize # 0
      BY DEF Garbled
    <3>2. received[i].seq % EpochSize \in 0..EpochSize-1
      BY <3>1, EpochArithmetic
    <3> QED
      BY <3>1, <3>2, CipherAssumption
  <2> QED
    BY <2>1
<1>2. ASSUME NEW i \in Garbled(e), NEW j \in Garbled(e), place[i] = place[j]
      PROVE  i = j
  <2>1. /\ i \in DOMAIN received /\ received[i].seq \in Nat
        /\ j \in DOMAIN received /\ received[j].seq \in Nat
        /\ EpochOf(received[i].seq) = EpochOf(received[j].seq)
        /\ i \in Nat /\ j \in Nat
    BY DEF Garbled
  <2>2. received[i].seq % EpochSize = received[j].seq % EpochSize
    BY <1>2
  <2>3. received[i].seq = received[j].seq
    BY <2>1, <2>2, SamePlace
  <2> QED
    BY <2>1, <2>3 DEF InOrder
<1>3. place \in Injection(Garbled(e), places)
  BY <1>1, <1>2 DEF Injection, IsInjective
<1>4. IsFiniteSet(places) /\ Cardinality(places) = EpochSize - 1
  <2>1. EpochSize - 1 \in Int /\ 1 \in Int
    BY CipherAssumption
  <2>2. /\ IsFiniteSet(places)
        /\ Cardinality(places) = IF 1 > EpochSize - 1 THEN 0
                                 ELSE (EpochSize - 1) - 1 + 1
    BY <2>1, FS_Interval
  <2> QED
    BY <2>2, CipherAssumption
<1> HIDE DEF place, places
<1> QED
  BY <1>3, <1>4, FS_Injection

(* An entry that is garbled in order missed an earlier packet of its epoch.*)
LEMMA GarbledMissed ==
    ASSUME LossInvariant, InOrder, NEW e \in Nat, NEW i \in Garbled(e)
    PROVE  \E s \in Seqs : /\ EpochOf(s) = e
                           /\ s < received[i].seq
                           /\ \A j \in DOMAIN received : received[j].seq # s
<1>1. i \in DOMAIN received /\ EpochOf(received[i].seq) = e
  BY DEF Garbled
<1>2. ~Service!InStep(received, i)
  BY <1>1, MatchDecrypts DEF Garbled, LossInvariant, FullInvariant
<1>3. ~CaughtUp(i)
  BY <1>1, <1>2 DEF LossInvariant, Confined
<1> QED
  BY <1>1, <1>3 DEF CaughtUp

(* What the epochs were introduced for (_ensure_epoch): as long as nothing *)
(* overtakes, loss garbles only packets of an epoch that lost an earlier   *)
(* packet, and at most EpochSize - 1 of them.                              *)
THEOREM LossStaysInEpoch == Spec => []LossIsConfined
<1>1. Init => LossInvariant
  BY FullInit DEF LossInvariant, Confined, Init
<1>2. LossInvariant => LossIsConfined
  <2> SUFFICES ASSUME LossInvariant, InOrder, NEW e \in 0..EpochOf(MaxSeq)
               PROVE  /\ Cardinality(Garbled(e)) <= EpochSize - 1
                      /\ \A i \in Garbled(e) :
                            \E s \in Seqs :
                               /\ EpochOf(s) = e
                               /\ s < received[i].seq
                               /\ \A j \in DOMAIN received : received[j].seq # s
    BY DEF LossIsConfined
  <2>1. e \in Nat
    BY ChannelAssumption, EpochArithmetic
  <2>2. /\ \A i \in DOMAIN received : received[i].seq \in Nat
        /\ DOMAIN received \in SUBSET Nat
    <3>1. received \in Seq(Entries)
      BY DEF LossInvariant, FullInvariant, ChannelInvariant, TypeOK, Entries
    <3>2. \A i \in DOMAIN received : received[i] \in Entries
      BY <3>1
    <3>3. DOMAIN received \in SUBSET Nat
      BY <3>1
    <3> QED
      BY <3>2, <3>3, ChannelAssumption DEF Entries, Seqs
  <2>3. ASSUME NEW i \in Garbled(e)
        PROVE  received[i].seq % EpochSize # 0
    <3>1. PICK s \in Seqs : EpochOf(s) = e /\ s < received[i].seq
      BY <2>1, GarbledMissed
    <3>2. /\ s \in Nat /\ received[i].seq \in Nat
          /\ EpochOf(received[i].seq) = e
      BY <2>2, <3>1, ChannelAssumption DEF Garbled, Seqs
    <3> QED
      BY <3>1, <3>2, EpochStartFirst
  <2> QED
    BY <2>1, <2>2, <2>3, GarbledBound, GarbledMissed
<1> QED
  BY <1>1, <1>2, ConfinedStep, PTL DEF Spec
==============================================================================
