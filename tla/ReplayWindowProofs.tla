------------------------- MODULE ReplayWindowProofs -------------------------
(***************************************************************************)
(* Proofs about the anti-replay window, for every window width W and every *)
(* bound MaxSeq.  TypeOK /\ WindowExact /\ AtMostOnce is inductive:        *)
(* WindowExact is what makes the check exact, and the exact check is what  *)
(* keeps a number from entering the log twice.                             *)
(***************************************************************************)
EXTENDS ReplayWindow, TLAPS

(* Appending a number to the log adds it to the accepted numbers, whoever *)
(* appends it: the log only grows at its end.                              *)
LEMMA AcceptedAppend ==
    ASSUME NEW seq \in Seqs, log \in Seq(Seqs), log' = Append(log, seq)
    PROVE  Accepted' = Accepted \cup {seq}
<1>1. /\ DOMAIN log' = DOMAIN log \cup {Len(log) + 1}
      /\ log'[Len(log) + 1] = seq
      /\ \A i \in DOMAIN log : log'[i] = log[i]
  OBVIOUS
<1> QED
  BY <1>1 DEF Accepted

(* The accepted numbers are sequence numbers. *)
LEMMA AcceptedType ==
    ASSUME log \in Seq(Seqs)
    PROVE  Accepted \subseteq Seqs
BY DEF Accepted

(* A window that means what WindowExact says makes _check_replay exact: it *)
(* refuses what was accepted and what lies W or more below the highest.    *)
LEMMA WindowMakesCheckExact ==
    ASSUME TypeOK, WindowExact
    PROVE  CheckExact
<1> SUFFICES ASSUME NEW seq \in Seqs
             PROVE  CheckReplay(seq) <=> \/ seq \in Accepted
                                         \/ seq + W <= replayHighest
  BY DEF CheckExact
<1>t. /\ W \in Nat \ {0} /\ MaxSeq \in Nat /\ seq \in Nat
      /\ replayHighest \in Int /\ replayBitmask \subseteq 0..W-1
  BY WindowAssumption DEF TypeOK, Seqs
<1>1. ASSUME CheckReplay(seq), ~(seq + W <= replayHighest)
      PROVE  seq \in Accepted
  <2>1. /\ replayHighest - seq \in replayBitmask
        /\ replayHighest - seq \in 0..W-1
    BY <1>t, <1>1 DEF CheckReplay
  <2>2. replayHighest - (replayHighest - seq) = seq
    BY <1>t
  <2> QED
    BY <2>1, <2>2 DEF WindowExact
<1>2. ASSUME seq \in Accepted
      PROVE  CheckReplay(seq)
  <2>1. seq <= replayHighest
    BY <1>2 DEF WindowExact
  <2>2. CASE replayHighest - seq >= W
    BY <2>1, <2>2 DEF CheckReplay
  <2>3. CASE replayHighest - seq < W
    <3>1. /\ replayHighest - seq \in 0..W-1
          /\ replayHighest - (replayHighest - seq) = seq
      BY <1>t, <2>1, <2>3
    <3>2. replayHighest - seq \in replayBitmask
      BY <3>1, <1>2 DEF WindowExact
    <3> QED
      BY <2>1, <3>2 DEF CheckReplay
  <2> QED
    BY <1>t, <2>2, <2>3
<1>3. ASSUME seq + W <= replayHighest
      PROVE  CheckReplay(seq)
  BY <1>t, <1>3 DEF CheckReplay
<1> QED
  BY <1>1, <1>2, <1>3

-----------------------------------------------------------------------------

WindowInvariant == TypeOK /\ WindowExact /\ AtMostOnce

(* The window of a new CTP object, which has accepted nothing. *)
LEMMA WindowInit == Init => WindowInvariant
<1> SUFFICES ASSUME Init PROVE WindowInvariant
  OBVIOUS
<1>1. Accepted = {}
  BY DEF Init, Accepted
<1> QED
  BY <1>1 DEF WindowInvariant, TypeOK, WindowExact, AtMostOnce, Init

(* Marking a number in the window keeps the bits and the accepted numbers  *)
(* in agreement, both when the window slides and when it does not.         *)
LEMMA CommitKeepsWindow ==
    ASSUME TypeOK, WindowExact, NEW seq \in Seqs,
           CommitReplay(seq), log' = Append(log, seq),
           seq + W > replayHighest
    PROVE  TypeOK' /\ WindowExact'
<1>t. /\ W \in Nat \ {0} /\ MaxSeq \in Nat /\ seq \in Nat
      /\ replayHighest \in Int /\ replayBitmask \subseteq 0..W-1
  BY WindowAssumption DEF TypeOK, Seqs
<1>a. Accepted' = Accepted \cup {seq}
  BY AcceptedAppend DEF TypeOK
<1>l. log' \in Seq(Seqs)
  BY DEF TypeOK
<1>s. Accepted \subseteq Seqs /\ Accepted \subseteq Nat
  BY <1>t, AcceptedType DEF TypeOK, Seqs
<1>1. CASE /\ seq > replayHighest
           /\ replayBitmask' = ShiftedBitmask(seq - replayHighest) \cup {0}
           /\ replayHighest' = seq
  <2> DEFINE shift == seq - replayHighest
  <2>1. TypeOK'
    BY <1>1, <1>t, <1>l DEF TypeOK, ShiftedBitmask
  <2>2. \A s \in Accepted' : s <= seq
    BY <1>1, <1>t, <1>a, <1>s DEF WindowExact
  <2>3. ASSUME NEW d \in 0..W-1
        PROVE  d \in replayBitmask' <=> seq - d \in Accepted'
    <3>1. CASE d = 0
      BY <3>1, <1>1, <1>t, <1>a
    <3>2. CASE d # 0 /\ shift >= W
      <4>1. d \notin replayBitmask'
        BY <3>2, <1>1 DEF ShiftedBitmask
      <4>2. seq - d > replayHighest /\ seq - d # seq
        BY <3>2, <1>t
      <4>3. seq - d \notin Accepted
        BY <4>2, <1>t, <1>s DEF WindowExact
      <4> QED
        BY <4>1, <4>2, <4>3, <1>a
    <3>3. CASE d # 0 /\ shift < W
      <4>1. d \in replayBitmask' <=> d - shift \in replayBitmask
        BY <3>3, <1>1, <1>t DEF ShiftedBitmask
      <4>2. CASE d < shift
        <5>1. d - shift \notin replayBitmask
          BY <4>2, <1>t
        <5>2. seq - d > replayHighest /\ seq - d # seq
          BY <4>2, <3>3, <1>t
        <5>3. seq - d \notin Accepted
          BY <5>2, <1>t, <1>s DEF WindowExact
        <5> QED
          BY <4>1, <5>1, <5>2, <5>3, <1>a
      <4>3. CASE d >= shift
        <5>1. /\ d - shift \in 0..W-1
              /\ replayHighest - (d - shift) = seq - d
              /\ seq - d # seq
          BY <4>3, <3>3, <1>1, <1>t
        <5>2. d - shift \in replayBitmask <=> seq - d \in Accepted
          BY <5>1 DEF WindowExact
        <5> QED
          BY <4>1, <5>1, <5>2, <1>a
      <4> QED
        BY <4>2, <4>3, <1>t
    <3> QED
      BY <3>1, <3>2, <3>3, <1>t
  <2> QED
    BY <2>1, <2>2, <2>3, <1>1, <1>a DEF WindowExact
<1>2. CASE /\ seq <= replayHighest
           /\ replayBitmask' = replayBitmask \cup {replayHighest - seq}
           /\ replayHighest' = replayHighest
  <2>1. replayHighest - seq \in 0..W-1
    BY <1>2, <1>t
  <2>2. TypeOK'
    BY <2>1, <1>2, <1>t, <1>l DEF TypeOK
  <2>3. ASSUME NEW d \in 0..W-1
        PROVE  d \in replayBitmask' <=> replayHighest - d \in Accepted'
    <3>1. replayHighest - d = seq <=> d = replayHighest - seq
      BY <1>t
    <3>2. d \in replayBitmask <=> replayHighest - d \in Accepted
      BY DEF WindowExact
    <3> QED
      BY <3>1, <3>2, <1>2, <1>a
  <2>4. /\ \A s \in Accepted' : s <= replayHighest
        /\ replayHighest # -1 => replayHighest \in Accepted'
    BY <1>2, <1>a DEF WindowExact
  <2> QED
    BY <2>2, <2>3, <2>4, <1>2 DEF WindowExact
<1> QED
  BY <1>1, <1>2 DEF CommitReplay

(* Every step keeps the inductive invariant. *)
LEMMA WindowStep == WindowInvariant /\ [Next]_vars => WindowInvariant'
<1> SUFFICES ASSUME WindowInvariant, [Next]_vars PROVE WindowInvariant'
  OBVIOUS
<1>i. TypeOK /\ WindowExact /\ AtMostOnce /\ CheckExact
  BY WindowMakesCheckExact DEF WindowInvariant
<1>1. ASSUME UNCHANGED vars PROVE WindowInvariant'
  BY <1>1, <1>i DEF WindowInvariant, vars, TypeOK, WindowExact, AtMostOnce,
                    Accepted
<1>2. ASSUME NEW seq \in Seqs, Accept(seq) PROVE WindowInvariant'
  <2>1. /\ ~CheckReplay(seq) /\ CommitReplay(seq) /\ log' = Append(log, seq)
    BY <1>2 DEF Accept
  <2>2. seq \notin Accepted /\ seq + W > replayHighest
    <3>1. ~(seq + W <= replayHighest) /\ seq \notin Accepted
      BY <2>1, <1>i DEF CheckExact
    <3> QED
      BY <3>1, <1>i, WindowAssumption DEF TypeOK, Seqs
  <2>3. TypeOK' /\ WindowExact'
    BY <2>1, <2>2, <1>i, CommitKeepsWindow
  <2>4. AtMostOnce'
    <3>1. /\ DOMAIN log' = DOMAIN log \cup {Len(log) + 1}
          /\ log'[Len(log) + 1] = seq
          /\ \A i \in DOMAIN log : log'[i] = log[i]
      BY <2>1, <1>i DEF TypeOK
    <3>2. \A i \in DOMAIN log : log[i] # seq
      BY <2>2 DEF Accepted
    <3> QED
      BY <3>1, <3>2, <1>i DEF AtMostOnce
  <2> QED
    BY <2>3, <2>4 DEF WindowInvariant
<1> QED
  BY <1>1, <1>2 DEF Next, RejectReplay, RejectDamaged

-----------------------------------------------------------------------------

(* The window is two bounded integers, at most W bits, for ever. *)
THEOREM WindowTypeCorrect == Spec => []TypeOK
<1>1. WindowInvariant => TypeOK
  BY DEF WindowInvariant
<1> QED
  BY WindowInit, WindowStep, <1>1, PTL DEF Spec

(* Bit d is set exactly when replayHighest - d was accepted. *)
THEOREM WindowMeaning == Spec => []WindowExact
<1>1. WindowInvariant => WindowExact
  BY DEF WindowInvariant
<1> QED
  BY WindowInit, WindowStep, <1>1, PTL DEF Spec

(* _check_replay refuses what was accepted and what is too old, no more. *)
THEOREM CheckIsExact == Spec => []CheckExact
<1>1. WindowInvariant => CheckExact
  BY WindowMakesCheckExact DEF WindowInvariant
<1> QED
  BY WindowInit, WindowStep, <1>1, PTL DEF Spec

(* decrypt accepts each sequence number at most once. *)
THEOREM AcceptsAtMostOnce == Spec => []AtMostOnce
<1>1. WindowInvariant => AtMostOnce
  BY DEF WindowInvariant
<1> QED
  BY WindowInit, WindowStep, <1>1, PTL DEF Spec
=============================================================================
