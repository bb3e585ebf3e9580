------------------------ MODULE SessionManagerProofs ------------------------
(***************************************************************************)
(* Theorems about SessionManager, for any epoch, window, lookahead and     *)
(* cooldown, any number of addresses and packets.  Routes reach exactly    *)
(* the lookahead ahead of the newest packet, because a packet is accepted  *)
(* only in an epoch that was routed already; challenges are spaced because *)
(* the time since the last one is the only age at which one is on record.  *)
(***************************************************************************)
EXTENDS SessionManager, TLAPS

USE ManagerAssumption

(* The newest packet accepted, which Highest names. *)
NewestExists ==
    /\ \A s \in accepted : s \in Sent
    /\ accepted # {} => \E h \in accepted : \A s \in accepted : s <= h

(* A challenge is on record at the age that sinceChallenge gives it. *)
RecordExact ==
    \A key \in RateKeys : \A age \in 0..Cooldown-1 :
        recent[key][age] = IF age = sinceChallenge[key] THEN 1 ELSE 0

Routes ==
    /\ TypeOK
    /\ NewestExists
    /\ RoutesAhead

ManagerInvariant == Routes /\ RecordExact

(* Epochs are ordered as the packets in them are. *)
LEMMA EpochMonotonic ==
    ASSUME NEW s \in Nat, NEW t \in Nat, s <= t
    PROVE  EpochOf(s) \in Nat /\ EpochOf(t) \in Nat /\ EpochOf(s) <= EpochOf(t)
  <1> DEFINE q == s \div EpochSize
             m == t \div EpochSize
  <1>1. /\ q \in Int /\ m \in Int
        /\ q * EpochSize <= s /\ s < (q + 1) * EpochSize
        /\ m * EpochSize <= t /\ t < (m + 1) * EpochSize
    OBVIOUS
  <1> HIDE DEF q, m
  <1>2. q >= 0
    <2>1. CASE q + 1 <= 0
      <3>1. (q + 1) * EpochSize <= 0
        BY <1>1, <2>1
      <3> QED
        BY <1>1, <3>1
    <2> QED
      BY <1>1, <2>1
  <1>3. q <= m
    <2>1. CASE m + 1 <= q
      <3>1. (m + 1) * EpochSize <= q * EpochSize
        BY <1>1, <2>1
      <3> QED
        BY <1>1, <3>1
    <2> QED
      BY <1>1, <2>1
  <1> QED
    BY <1>1, <1>2, <1>3 DEF q, m, EpochOf

(* The epoch of a packet is one the manager can know. *)
LEMMA EpochTypes ==
    /\ EpochOf(MaxSeq) \in Nat
    /\ Epochs = 0..EpochOf(MaxSeq) + Lookahead
    /\ \A s \in Seqs : EpochOf(s) \in Epochs /\ EpochOf(s) \in 0..EpochOf(MaxSeq)
    /\ EpochOf(0) = 0 /\ 0 \in Epochs
  <1>1. \A s \in Seqs : EpochOf(s) \in Nat /\ EpochOf(s) <= EpochOf(MaxSeq)
    BY EpochMonotonic DEF Seqs
  <1>2. EpochOf(MaxSeq) \in Nat
    BY EpochMonotonic
  <1>3. EpochOf(0) = 0
    BY DEF EpochOf
  <1> QED
    BY <1>1, <1>2, <1>3 DEF Epochs

(* A packet that arrives was sent. *)
LEMMA ArrivingTypes ==
    ASSUME NEW s \in Arriving
    PROVE  s \in Sent /\ s \in Seqs /\ EpochOf(s) \in Epochs
  BY EpochTypes DEF Arriving, Sent

(* Highest is the newest packet. *)
LEMMA HighestIsNewest ==
    ASSUME NewestExists, accepted # {}
    PROVE  Highest \in accepted /\ \A s \in accepted : s <= Highest
  BY DEF NewestExists, Highest

(* Whatever becomes of decrypt, the routes reach as far ahead of the       *)
(* newest packet as before.                                                *)
LEMMA DecryptRoutes ==
    ASSUME Routes, NEW s \in Sent, EpochOf(s) \in registered,
           NEW source \in Addresses, NEW damaged \in BOOLEAN,
           Decrypt(s, source, damaged), UNCHANGED sentFrom
    PROVE  /\ accepted' \subseteq Seqs /\ registered' \subseteq Epochs
           /\ via' \in Addresses \cup {NoAddress}
           /\ NewestExists' /\ RoutesAhead'
           /\ accepted' \subseteq accepted \cup {s}
  <1> USE DEF Routes, Newest
  <1>1. /\ accepted \subseteq Seqs /\ registered \subseteq Epochs
        /\ \A t \in Seqs : t \in Nat
        /\ s \in Seqs /\ Sent' = Sent
    BY DEF TypeOK, Sent, Seqs
  <1>2. CASE UNCHANGED routeVars
    BY <1>1, <1>2 DEF TypeOK, routeVars, NewestExists, RoutesAhead, Newest, Highest
  <1>3. CASE /\ accepted' = accepted \cup {s}
             /\ via' = source
             /\ registered' = registered \cup UpcomingEpochs(EpochOf(s))
    <2>1. accepted' \subseteq Seqs /\ registered' \subseteq Epochs
      BY <1>1, <1>3 DEF UpcomingEpochs
    <2>2. EpochOf(s) \in Nat /\ EpochOf(s) \in Epochs
      BY <1>1, EpochMonotonic, EpochTypes
    <2>3. CASE accepted = {}
      <3>1. NewestExists'
        BY <1>1, <1>3, <2>3 DEF NewestExists
      <3>2. Highest' = s
        BY <1>1, <1>3, <2>3 DEF Highest
      <3>3. EpochOf(s) <= Lookahead
        BY <2>2, <2>3 DEF RoutesAhead
      <3>4. registered' = {e \in Epochs : e <= EpochOf(s) + Lookahead}
        BY <1>3, <2>2, <2>3, <3>3, EpochTypes DEF RoutesAhead, UpcomingEpochs
      <3> QED
        BY <1>3, <2>1, <3>1, <3>2, <3>4 DEF RoutesAhead
    <2>4. CASE accepted # {}
      <3>1. Highest \in accepted /\ \A t \in accepted : t <= Highest
        BY <2>4, HighestIsNewest
      <3>2. Highest \in Nat /\ EpochOf(Highest) \in Nat
        BY <1>1, <3>1, EpochMonotonic
      <3>3. registered = {e \in Epochs : e <= EpochOf(Highest) + Lookahead}
        BY <2>4 DEF RoutesAhead
      <3>4. CASE s <= Highest
        <4>1. NewestExists'
          BY <1>1, <1>3, <3>1, <3>4 DEF NewestExists
        <4>2. Highest' = Highest
          <5>1. Highest' \in accepted' /\ \A t \in accepted' : t <= Highest'
            BY <4>1, <1>3 DEF NewestExists, Highest
          <5> QED
            BY <1>1, <1>3, <3>1, <3>4, <5>1
        <4>3. EpochOf(s) <= EpochOf(Highest)
          BY <1>1, <3>2, <3>4, EpochMonotonic
        <4>4. registered' = {e \in Epochs : e <= EpochOf(Highest) + Lookahead}
          BY <1>3, <2>2, <3>2, <3>3, <4>3, EpochTypes DEF UpcomingEpochs
        <4> QED
          BY <1>3, <2>1, <4>1, <4>2, <4>4 DEF RoutesAhead
      <3>5. CASE Highest < s
        <4>1. \A t \in accepted' : t <= s
          BY <1>1, <1>3, <3>1, <3>2, <3>5
        <4>2. NewestExists'
          BY <1>1, <1>3, <4>1 DEF NewestExists
        <4>3. Highest' = s
          <5>1. Highest' \in accepted' /\ \A t \in accepted' : t <= Highest'
            BY <4>2, <1>3 DEF NewestExists, Highest
          <5> QED
            BY <1>1, <2>1, <1>3, <4>1, <5>1
        <4>4. EpochOf(Highest) <= EpochOf(s) /\ EpochOf(s) <= EpochOf(Highest) + Lookahead
          BY <1>1, <3>2, <3>3, <3>5, <2>2, EpochMonotonic
        <4>5. registered' = {e \in Epochs : e <= EpochOf(s) + Lookahead}
          BY <1>3, <2>2, <3>2, <3>3, <4>4, EpochTypes DEF UpcomingEpochs
        <4> QED
          BY <1>3, <2>1, <4>2, <4>3, <4>5 DEF RoutesAhead
      <3> QED
        BY <1>1, <3>2, <3>4, <3>5
    <2> QED
      BY <1>3, <2>1, <2>3, <2>4
  <1> QED
    BY <1>2, <1>3 DEF Decrypt

(* A challenge goes on record at age 0, where none was on record.          *)
LEMMA ChallengeRecord ==
    ASSUME TypeOK, RecordExact, NEW s \in Arriving, NEW source \in Addresses,
           ChallengeCandidate(s, source)
    PROVE  /\ sinceChallenge' \in [RateKeys -> 0..Cooldown]
           /\ recent' \in [RateKeys -> [0..Cooldown-1 -> Nat]]
           /\ RecordExact'
  <1> DEFINE key == <<EpochOf(s), source>>
  <1>1. key \in RateKeys
    BY ArrivingTypes DEF RateKeys
  <1>2. sinceChallenge' = [sinceChallenge EXCEPT ![key] = 0] /\ sinceChallenge[key] >= Cooldown
    BY DEF ChallengeCandidate
  <1> HIDE DEF key
  <1>3. sinceChallenge \in [RateKeys -> 0..Cooldown]
    BY DEF TypeOK
  <1>4. recent \in [RateKeys -> [0..Cooldown-1 -> Nat]]
    BY DEF TypeOK
  <1>5. CASE Cooldown = 0
    <2>1. recent' = recent
      BY <1>5 DEF ChallengeCandidate
    <2> QED
      BY <1>1, <1>2, <1>3, <1>4, <1>5, <2>1 DEF RecordExact
  <1>6. CASE Cooldown # 0
    <2>1. recent' = [recent EXCEPT ![key][0] = @ + 1]
      BY <1>6 DEF ChallengeCandidate, key
    <2>2. 0 \in 0..Cooldown-1 /\ recent[key] \in [0..Cooldown-1 -> Nat]
      BY <1>1, <1>4, <1>6
    <2>3. \A age \in 0..Cooldown-1 : recent[key][age] = 0
      BY <1>1, <1>2, <1>3 DEF RecordExact
    <2>4. recent'[key] = [recent[key] EXCEPT ![0] = 1]
      <3>1. recent'[key] = [recent[key] EXCEPT ![0] = recent[key][0] + 1]
        BY <1>1, <1>4, <2>1
      <3>2. recent[key][0] + 1 = 1
        BY <2>2, <2>3
      <3> QED
        BY <3>1, <3>2
    <2>5. recent' \in [RateKeys -> [0..Cooldown-1 -> Nat]]
      BY <1>1, <1>4, <2>1, <2>2
    <2>6. ASSUME NEW k \in RateKeys, NEW age \in 0..Cooldown-1
          PROVE  recent'[k][age] = IF age = sinceChallenge'[k] THEN 1 ELSE 0
      <3>1. CASE k = key
        BY <3>1, <1>1, <1>2, <1>3, <2>2, <2>3, <2>4
      <3>2. CASE k # key
        BY <3>2, <1>2, <1>3, <1>4, <2>1 DEF RecordExact
      <3> QED
        BY <3>1, <3>2
    <2> QED
      BY <1>1, <1>2, <1>3, <2>5, <2>6 DEF RecordExact
  <1> QED
    BY <1>5, <1>6

(* As time passes, what is on record grows older with sinceChallenge. *)
LEMMA TickRecord ==
    ASSUME TypeOK, RecordExact, Tick
    PROVE  /\ sinceChallenge' \in [RateKeys -> 0..Cooldown]
           /\ recent' \in [RateKeys -> [0..Cooldown-1 -> Nat]]
           /\ RecordExact'
  <1>1. /\ sinceChallenge \in [RateKeys -> 0..Cooldown]
        /\ recent \in [RateKeys -> [0..Cooldown-1 -> Nat]]
    BY DEF TypeOK
  <1>2. /\ sinceChallenge' = [key \in RateKeys |->
                               IF sinceChallenge[key] < Cooldown
                               THEN sinceChallenge[key] + 1 ELSE Cooldown]
        /\ recent' = [key \in RateKeys |-> Older(recent[key])]
    BY DEF Tick
  <1>3. sinceChallenge' \in [RateKeys -> 0..Cooldown]
    BY <1>1, <1>2
  <1>4. \A key \in RateKeys : Older(recent[key]) \in [0..Cooldown-1 -> Nat]
    BY <1>1 DEF Older
  <1>5. recent' \in [RateKeys -> [0..Cooldown-1 -> Nat]]
    BY <1>2, <1>4
  <1>6. ASSUME NEW key \in RateKeys, NEW age \in 0..Cooldown-1
        PROVE  recent'[key][age] = IF age = sinceChallenge'[key] THEN 1 ELSE 0
    <2>1. recent'[key][age] = IF age = 0 THEN 0 ELSE recent[key][age - 1]
      BY <1>2 DEF Older
    <2>2. sinceChallenge'[key] = IF sinceChallenge[key] < Cooldown
                                 THEN sinceChallenge[key] + 1 ELSE Cooldown
      BY <1>2
    <2>3. sinceChallenge[key] \in 0..Cooldown
      BY <1>1
    <2>4. CASE age = 0
      BY <2>1, <2>2, <2>3, <2>4
    <2>5. CASE age # 0
      <3>1. age - 1 \in 0..Cooldown-1
        BY <2>5
      <3>2. recent[key][age - 1] = IF age - 1 = sinceChallenge[key] THEN 1 ELSE 0
        BY <3>1 DEF RecordExact
      <3> QED
        BY <2>1, <2>2, <2>3, <2>5, <3>2
    <2> QED
      BY <2>4, <2>5
  <1> QED
    BY <1>3, <1>5, <1>6 DEF RecordExact

(* A session is registered for the epochs of its lookahead. *)
LEMMA ManagerInit == Init => ManagerInvariant
  <1> SUFFICES ASSUME Init PROVE ManagerInvariant
    OBVIOUS
  <1>1. /\ registered = {e \in Epochs : e <= Lookahead}
        /\ 0 \in Epochs
    BY EpochTypes DEF Init, UpcomingEpochs
  <1>2. TypeOK
    <2>1. PICK initial \in {NoAddress, peerAddress} :
             /\ trustedAddress = [e \in Epochs |-> IF e = 0 THEN initial ELSE NoAddress]
             /\ proven = {initial} \ {NoAddress}
      BY DEF Init
    <2>2. recent \in [RateKeys -> [0..Cooldown-1 -> Nat]]
      BY DEF Init
    <2>3. sinceChallenge \in [RateKeys -> 0..Cooldown]
      BY DEF Init
    <2> QED
      BY <1>1, <2>1, <2>2, <2>3 DEF Init, TypeOK, Seqs
  <1>3. NewestExists
    BY DEF Init, NewestExists
  <1>4. RoutesAhead
    BY <1>1 DEF Init, RoutesAhead, Newest
  <1>5. RecordExact
    BY DEF Init, RecordExact
  <1> QED
    BY <1>2, <1>3, <1>4, <1>5 DEF ManagerInvariant, Routes

(* The peer's own steps. *)
LEMMA PeerStep ==
    ASSUME ManagerInvariant,
           \/ \E addr \in Addresses : Migrate(addr)
           \/ Send
    PROVE  ManagerInvariant'
  <1> USE DEF ManagerInvariant, Routes
  <1>1. peerAddress' \in Addresses /\ UNCHANGED <<routeVars, pathVars>>
    BY DEF Migrate, Send, TypeOK
  <1>2. sentFrom' \in Seq(Addresses \cup {NoAddress}) /\ Len(sentFrom) <= Len(sentFrom')
    <2>1. sentFrom \in Seq(Addresses \cup {NoAddress}) /\ peerAddress \in Addresses
      BY DEF TypeOK
    <2>2. \/ sentFrom' = sentFrom
          \/ \E a \in Addresses \cup {NoAddress} : sentFrom' = Append(sentFrom, a)
      BY <2>1 DEF Migrate, Send
    <2> QED
      BY <2>1, <2>2
  <1>3. Sent \subseteq Sent'
    BY <1>2 DEF Sent, Seqs, TypeOK
  <1>4. TypeOK'
    BY <1>1, <1>2 DEF TypeOK, routeVars, pathVars
  <1> QED
    BY <1>1, <1>3, <1>4 DEF NewestExists, RoutesAhead, Newest, RecordExact, Highest,
                            routeVars, pathVars

(* Each outcome of receive_packet. *)
LEMMA ReceiveStep ==
    ASSUME ManagerInvariant, NEW s \in Arriving, NEW source \in Addresses,
           \/ ReceiveUnknown(s)
           \/ ReceiveThrottled(s, source)
           \/ ReceiveUnproven(s, source)
           \/ \E damaged \in BOOLEAN :
                 \/ ReceiveFirst(s, source, damaged)
                 \/ ReceiveTrusted(s, source, damaged)
                 \/ ReceiveProven(s, source, damaged)
    PROVE  ManagerInvariant'
  <1> USE DEF ManagerInvariant, Routes
  <1>1. s \in Sent /\ s \in Seqs /\ EpochOf(s) \in Epochs
    BY ArrivingTypes
  <1>2. ASSUME UNCHANGED vars PROVE ManagerInvariant'
    BY <1>2 DEF vars, TypeOK, NewestExists, RoutesAhead, Newest, RecordExact, Highest, Sent
  <1>3. CASE ReceiveUnknown(s) \/ ReceiveThrottled(s, source)
    BY <1>2, <1>3 DEF ReceiveUnknown, ReceiveThrottled
  <1>4. CASE ReceiveUnproven(s, source)
    <2>1. /\ ChallengeCandidate(s, source)
          /\ UNCHANGED <<peerVars, routeVars, trustedAddress, proven>>
      BY <1>4 DEF ReceiveUnproven
    <2>2. /\ sinceChallenge' \in [RateKeys -> 0..Cooldown]
          /\ recent' \in [RateKeys -> [0..Cooldown-1 -> Nat]]
          /\ RecordExact'
      BY <2>1, ChallengeRecord
    <2> QED
      BY <2>1, <2>2 DEF TypeOK, NewestExists, RoutesAhead, Newest, Highest, Sent,
                        peerVars, routeVars
  <1>5. ASSUME NEW damaged \in BOOLEAN, ReceiveFirst(s, source, damaged)
        PROVE  ManagerInvariant'
    <2>1. /\ Decrypt(s, source, damaged) /\ EpochOf(s) \in registered
          /\ UNCHANGED <<peerVars, sinceChallenge, recent>>
          /\ trustedAddress' = [trustedAddress EXCEPT ![EpochOf(s)] = source]
          /\ proven' \in {{source}, proven}
      BY <1>5 DEF ReceiveFirst
    <2>2. /\ accepted' \subseteq Seqs /\ registered' \subseteq Epochs
          /\ via' \in Addresses \cup {NoAddress}
          /\ NewestExists' /\ RoutesAhead'
      BY <1>1, <2>1, DecryptRoutes DEF peerVars
    <2>3. TypeOK'
      BY <1>1, <2>1, <2>2 DEF TypeOK, peerVars
    <2> QED
      BY <2>1, <2>2, <2>3 DEF RecordExact
  <1>6. ASSUME NEW damaged \in BOOLEAN, ReceiveTrusted(s, source, damaged)
        PROVE  ManagerInvariant'
    <2>1. /\ Decrypt(s, source, damaged) /\ EpochOf(s) \in registered
          /\ UNCHANGED <<peerVars, pathVars>>
      BY <1>6 DEF ReceiveTrusted
    <2>2. /\ accepted' \subseteq Seqs /\ registered' \subseteq Epochs
          /\ via' \in Addresses \cup {NoAddress}
          /\ NewestExists' /\ RoutesAhead'
      BY <1>1, <2>1, DecryptRoutes DEF peerVars
    <2> QED
      BY <2>1, <2>2 DEF TypeOK, RecordExact, peerVars, pathVars
  <1>7. ASSUME NEW damaged \in BOOLEAN, ReceiveProven(s, source, damaged)
        PROVE  ManagerInvariant'
    <2>1. /\ Decrypt(s, source, damaged) /\ EpochOf(s) \in registered
          /\ ChallengeCandidate(s, source)
          /\ UNCHANGED peerVars
          /\ trustedAddress' = [trustedAddress EXCEPT ![EpochOf(s)] = source]
          /\ proven' = proven \cup {source}
      BY <1>7 DEF ReceiveProven, ChallengeCandidate, FromCandidate
    <2>2. /\ accepted' \subseteq Seqs /\ registered' \subseteq Epochs
          /\ via' \in Addresses \cup {NoAddress}
          /\ NewestExists' /\ RoutesAhead'
      BY <1>1, <2>1, DecryptRoutes DEF peerVars
    <2>3. /\ sinceChallenge' \in [RateKeys -> 0..Cooldown]
          /\ recent' \in [RateKeys -> [0..Cooldown-1 -> Nat]]
          /\ RecordExact'
      BY <2>1, ChallengeRecord
    <2> QED
      BY <1>1, <2>1, <2>2, <2>3 DEF TypeOK, peerVars
  <1> QED
    BY <1>3, <1>4, <1>5, <1>6, <1>7

(* Every step keeps the invariant. *)
LEMMA ManagerStep == ManagerInvariant /\ [Next]_vars => ManagerInvariant'
  <1> SUFFICES ASSUME ManagerInvariant, [Next]_vars PROVE ManagerInvariant'
    OBVIOUS
  <1>1. CASE Tick
    <2>1. /\ sinceChallenge' \in [RateKeys -> 0..Cooldown]
          /\ recent' \in [RateKeys -> [0..Cooldown-1 -> Nat]]
          /\ RecordExact'
      BY <1>1, TickRecord DEF ManagerInvariant, Routes
    <2>2. UNCHANGED <<peerVars, routeVars, trustedAddress, proven>>
      BY <1>1 DEF Tick
    <2> QED
      BY <2>1, <2>2 DEF ManagerInvariant, Routes, TypeOK, NewestExists, RoutesAhead, Newest,
                        Highest, Sent, peerVars, routeVars
  <1>2. CASE UNCHANGED vars
    BY <1>2 DEF ManagerInvariant, Routes, vars, TypeOK, NewestExists, RoutesAhead, Newest,
                RecordExact, Highest, Sent
  <1> QED
    BY <1>1, <1>2, PeerStep, ReceiveStep DEF Next

(* The manager's state keeps its types. *)
THEOREM ManagerTypeCorrect == Spec => []TypeOK
  <1>1. ManagerInvariant => TypeOK
    BY DEF ManagerInvariant, Routes
  <1> QED
    BY <1>1, ManagerInit, ManagerStep, PTL DEF Spec

(* Connection IDs are routed exactly the lookahead ahead of the newest     *)
(* packet, whatever late packets do to the receiver's current epoch.       *)
THEOREM RoutesReachAhead == Spec => []RoutesAhead
  <1>1. ManagerInvariant => RoutesAhead
    BY DEF ManagerInvariant, Routes
  <1> QED
    BY <1>1, ManagerInit, ManagerStep, PTL DEF Spec

(* No address is challenged twice within the cooldown. *)
THEOREM ChallengesAreSpaced == Spec => []ChallengesSpaced
  <1>1. ManagerInvariant => ChallengesSpaced
    BY DEF ManagerInvariant, RecordExact, ChallengesSpaced
  <1> QED
    BY <1>1, ManagerInit, ManagerStep, PTL DEF Spec

(* Replay state is consumed from trusted addresses only, and trust moves   *)
(* only to where the peer is.                                              *)
THEOREM PathsAreValidated == Spec => PathValidated
  <1> DEFINE Kept ==
        /\ \A seq \in accepted' \ accepted :
              trustedAddress'[EpochOf(seq)] = via'
        /\ \A e \in Epochs :
              trustedAddress'[e] # trustedAddress[e]
                 => trustedAddress[e] = NoAddress \/ trustedAddress'[e] = peerAddress
  <1>1. ASSUME ManagerInvariant, [Next]_vars PROVE [Kept]_vars
    <2>1. trustedAddress \in [Epochs -> Addresses \cup {NoAddress}]
      BY <1>1 DEF ManagerInvariant, Routes, TypeOK
    <2>2. ASSUME UNCHANGED <<accepted, trustedAddress>> PROVE Kept
      BY <2>2
    <2>3. CASE Tick \/ Send \/ \E addr \in Addresses : Migrate(addr)
      BY <2>2, <2>3 DEF Tick, Send, Migrate, routeVars, pathVars
    <2>4. ASSUME NEW s \in Arriving, NEW source \in Addresses,
                 \/ ReceiveUnknown(s)
                 \/ ReceiveThrottled(s, source)
                 \/ ReceiveUnproven(s, source)
          PROVE  Kept
      BY <2>2, <2>4 DEF ReceiveUnknown, ReceiveThrottled, ReceiveUnproven, vars, routeVars
    <2>5. ASSUME NEW s \in Arriving, NEW source \in Addresses, NEW damaged \in BOOLEAN,
                 \/ ReceiveFirst(s, source, damaged)
                 \/ ReceiveTrusted(s, source, damaged)
                 \/ ReceiveProven(s, source, damaged)
          PROVE  Kept
      <3>1. EpochOf(s) \in Epochs
        BY ArrivingTypes
      <3>2. /\ accepted' \subseteq accepted \cup {s}
            /\ accepted' = accepted \/ via' = source
        BY <2>5 DEF ReceiveFirst, ReceiveTrusted, ReceiveProven, Decrypt, routeVars
      <3>3. /\ trustedAddress'[EpochOf(s)] = source
            /\ \/ trustedAddress' = trustedAddress
               \/ /\ trustedAddress' = [trustedAddress EXCEPT ![EpochOf(s)] = source]
                  /\ trustedAddress[EpochOf(s)] = NoAddress \/ source = peerAddress
        BY <2>1, <2>5, <3>1 DEF ReceiveFirst, ReceiveTrusted, ReceiveProven, pathVars
      <3> QED
        BY <2>1, <3>1, <3>2, <3>3
    <2>6. CASE UNCHANGED vars
      BY <2>6
    <2> QED
      BY <1>1, <2>3, <2>4, <2>5, <2>6 DEF Next
  <1> QED
    BY <1>1, ManagerInit, ManagerStep, PTL DEF Spec, PathValidated
=============================================================================
