------------------------- MODULE UdpHandshakeProofs -------------------------
(***************************************************************************)
(* Theorems about UdpHandshake, for any clients, retries and messages.     *)
(* What is said of the logs follows once it is known what every datagram   *)
(* in the network stands for, for that is all that a receiver looks at.    *)
(***************************************************************************)
EXTENDS UdpHandshake, TLAPS

(* An ACK, and data of either direction, in terms of the sessions there    *)
(* are and were.                                                           *)
NetExact ==
    /\ \A c \in Clients : AckPacket(c) \in net => Taken(c)
    /\ \A c \in Clients, s \in Seqs :
          /\ DataUp(c, s) \in net => s < clientSeq[c]
          /\ DataDown(c, s) \in net => Told(c, s)

(* Before the server has a session its log is empty, and afterwards its    *)
(* window holds what it read.                                              *)
HandshakeInvariant ==
    /\ TypeOK
    /\ NetExact
    /\ AckMeansSession
    /\ SessionsApart
    /\ serverPeer = NoClient => serverLog = <<>>
    /\ serverWindow = Numbers(serverLog)

-----------------------------------------------------------------------------

(* Datagrams of different kinds differ, and those of one kind are told     *)
(* apart by what they carry.                                               *)
LEMMA DatagramsDiffer ==
    ASSUME NEW c, NEW d, NEW s, NEW t
    PROVE  /\ AckPacket(c) # InitPacket(d)
           /\ AckPacket(c) # DataUp(d, t)
           /\ AckPacket(c) # DataDown(d, t)
           /\ DataUp(c, s) # InitPacket(d)
           /\ DataUp(c, s) # AckPacket(d)
           /\ DataUp(c, s) # DataDown(d, t)
           /\ DataDown(c, s) # InitPacket(d)
           /\ DataDown(c, s) # AckPacket(d)
           /\ DataDown(c, s) # DataUp(d, t)
           /\ AckPacket(c) = AckPacket(d) => c = d
           /\ DataUp(c, s) = DataUp(d, t) => c = d /\ s = t
           /\ DataDown(c, s) = DataDown(d, t) => c = d /\ s = t
  <1>1. /\ AckPacket(c).kind = "ACK" /\ InitPacket(d).kind = "INIT"
        /\ DataUp(d, t).kind = "UP" /\ DataDown(d, t).kind = "DOWN"
        /\ DataUp(c, s).kind = "UP" /\ DataDown(c, s).kind = "DOWN"
        /\ AckPacket(d).kind = "ACK"
    BY DEF AckPacket, InitPacket, DataUp, DataDown
  <1>2. /\ AckPacket(c).client = c /\ AckPacket(d).client = d
        /\ DataUp(c, s).client = c /\ DataUp(d, t).client = d
        /\ DataDown(c, s).client = c /\ DataDown(d, t).client = d
        /\ DataUp(c, s).seq = s /\ DataUp(d, t).seq = t
        /\ DataDown(c, s).seq = s /\ DataDown(d, t).seq = t
    BY DEF AckPacket, DataUp, DataDown
  <1> QED
    BY <1>1, <1>2

(* Every datagram built from a client and a number is a datagram. *)
LEMMA DatagramTypes ==
    ASSUME NEW c \in Clients
    PROVE  /\ InitPacket(c) \in Datagrams
           /\ AckPacket(c) \in Datagrams
           /\ \A s \in Seqs : DataUp(c, s) \in Datagrams
           /\ \A s \in Seqs : DataDown(c, s) \in Datagrams
  BY DEF InitPacket, AckPacket, DataUp, DataDown, Datagrams

(* Data taken from the network is data of its own client and number. *)
LEMMA DataShape ==
    ASSUME NEW d \in Datagrams
    PROVE  /\ d.kind = "UP" =>
                 d.client \in Clients /\ d.seq \in Seqs /\ d = DataUp(d.client, d.seq)
           /\ d.kind = "DOWN" =>
                 d.client \in Clients /\ d.seq \in Seqs /\ d = DataDown(d.client, d.seq)
  BY DEF Datagrams, DataUp, DataDown

(* A number that was not in a log can be appended to it. *)
LEMMA LogAppend ==
    ASSUME NEW log \in Seq(Seqs), NEW n \in Seqs
    PROVE  /\ Append(log, n) \in Seq(Seqs)
           /\ Numbers(Append(log, n)) = Numbers(log) \cup {n}
           /\ ReadOnce(log) /\ n \notin Numbers(log) => ReadOnce(Append(log, n))
  <1> DEFINE new == Append(log, n)
  <1>1. /\ new \in Seq(Seqs)
        /\ DOMAIN log = 1..Len(log)
        /\ DOMAIN new = 1..Len(log)+1
        /\ \A i \in DOMAIN log : new[i] = log[i]
        /\ new[Len(log)+1] = n
        /\ Len(log) \in Nat
    OBVIOUS
  <1> HIDE DEF new
  <1>2. Numbers(new) = Numbers(log) \cup {n}
    <2>1. ASSUME NEW i \in DOMAIN new
          PROVE  new[i] \in Numbers(log) \cup {n}
      BY <1>1 DEF Numbers
    <2>2. n \in Numbers(new)
      BY <1>1 DEF Numbers
    <2>3. ASSUME NEW i \in DOMAIN log
          PROVE  log[i] \in Numbers(new)
      BY <1>1 DEF Numbers
    <2> QED
      BY <2>1, <2>2, <2>3 DEF Numbers
  <1>3. ASSUME ReadOnce(log), n \notin Numbers(log)
        PROVE  ReadOnce(new)
    <2>1. ASSUME NEW i \in DOMAIN log
          PROVE  log[i] # n
      BY <1>3 DEF Numbers
    <2> QED
      BY <1>1, <1>3, <2>1 DEF ReadOnce
  <1> QED
    BY <1>1, <1>2, <1>3 DEF new

-----------------------------------------------------------------------------

(* What a sequence holds, alone and with one more at its end. *)
LEMMA Entries ==
    ASSUME NEW S, NEW q \in Seq(S), NEW e \in S
    PROVE  /\ \A i \in DOMAIN q : q[i] \in S
           /\ \A i \in DOMAIN Append(q, e) :
                 Append(q, e)[i] = e \/ (i \in DOMAIN q /\ Append(q, e)[i] = q[i])
  <1> DEFINE new == Append(q, e)
  <1>1. /\ DOMAIN q = 1..Len(q) /\ Len(q) \in Nat
        /\ DOMAIN new = 1..Len(q)+1
        /\ \A i \in DOMAIN q : new[i] = q[i] /\ q[i] \in S
        /\ new[Len(q)+1] = e
    OBVIOUS
  <1> HIDE DEF new
  <1>2. ASSUME NEW i \in DOMAIN new
        PROVE  i = Len(q)+1 \/ i \in DOMAIN q
    BY <1>1
  <1>3. ASSUME NEW i \in DOMAIN new
        PROVE  new[i] = e \/ (i \in DOMAIN q /\ new[i] = q[i])
    <2>1. CASE i = Len(q)+1
      BY <1>1, <2>1
    <2>2. CASE i \in DOMAIN q
      BY <1>1, <2>2
    <2> QED
      BY <1>2, <2>1, <2>2
  <1> QED
    BY <1>1, <1>3 DEF new

(* Nothing was sent, and nobody has a session. *)
LEMMA HandshakeInit == Init => HandshakeInvariant
  <1> SUFFICES ASSUME Init PROVE HandshakeInvariant
    OBVIOUS
  <1> USE HandshakeAssumption DEF Init
  <1>1. TypeOK
    BY DEF TypeOK, Seqs
  <1>2. NetExact /\ AckMeansSession
    BY DEF NetExact, AckMeansSession
  <1>3. SessionsApart
    BY DEF SessionsApart, RunSound, ReadOnce, Numbers
  <1>4. serverWindow = Numbers(serverLog)
    BY DEF Numbers
  <1> QED
    BY <1>1, <1>2, <1>3, <1>4 DEF HandshakeInvariant

(* What a run of the server did stays done: in a session that goes on, and *)
(* in one that a restart ends.                                             *)
LEMMA SessionsStay ==
    ASSUME TypeOK, NEW c \in Clients, NEW n \in Seqs,
           \/ serverPeer' = serverPeer /\ serverSeq' = serverSeq /\ former' = former
           \/ serverPeer = NoClient /\ former' = former
           \/ serverPeer' = serverPeer /\ serverSeq' = serverSeq + 1 /\ former' = former
           \/ /\ serverPeer \in Clients
              /\ former' = Append(former, [client |-> serverPeer, sent |-> serverSeq,
                                           read |-> serverLog])
    PROVE  /\ Taken(c) => Taken(c)'
           /\ Told(c, n) => Told(c, n)'
  <1> USE HandshakeAssumption DEF Taken, Told
  <1>1. CASE former' = former
    BY <1>1 DEF TypeOK, Seqs
  <1>2. CASE /\ serverPeer \in Clients
             /\ former' = Append(former, [client |-> serverPeer, sent |-> serverSeq,
                                              read |-> serverLog])
    <2> DEFINE session == [client |-> serverPeer, sent |-> serverSeq, read |-> serverLog]
               Sessions == [client : Clients, sent : 0..MaxSeq + 1, read : Seq(Seqs)]
    <2>0. session \in Sessions /\ former \in Seq(Sessions) /\ former' = Append(former, session)
      BY <1>2 DEF TypeOK
    <2> HIDE DEF session, Sessions
    <2>1. /\ DOMAIN former' = 1..Len(former) + 1
          /\ DOMAIN former = 1..Len(former)
          /\ Len(former) \in Nat
          /\ \A i \in DOMAIN former : former'[i] = former[i]
          /\ former'[Len(former) + 1] = session
      BY <2>0
    <2>2. session.client = serverPeer /\ session.sent = serverSeq
      BY DEF session
    <2>3. ASSUME NEW i \in DOMAIN former
          PROVE  i \in DOMAIN former' /\ former'[i] = former[i]
      BY <2>1
    <2>4. Len(former) + 1 \in DOMAIN former'
      BY <2>1
    <2>5. Taken(c) => Taken(c)'
      BY <2>1, <2>2, <2>3, <2>4
    <2>6. Told(c, n) => Told(c, n)'
      BY <2>1, <2>2, <2>3, <2>4
    <2> QED
      BY <2>5, <2>6
  <1> QED
    BY <1>1, <1>2

(* There is a number to speak of. *)
LEMMA ZeroNumber == 0 \in Seqs
  BY HandshakeAssumption DEF Seqs

(* A step of a client's handshake sends at most an INIT, and leaves every  *)
(* log, number and session as it was.                                      *)
LEMMA HandshakeQuiet ==
    ASSUME HandshakeInvariant,
           NEW c \in Clients,
           net' \in {net, net \cup {InitPacket(c)}},
           phase' \in [Clients -> {"idle", "handshake", "open", "stopped"}],
           attempts' \in [Clients -> 0..Retries],
           acked' = acked, clientSeq' = clientSeq, clientLog' = clientLog,
           serverPeer' = serverPeer, serverSeq' = serverSeq, serverLog' = serverLog,
           serverWindow' = serverWindow, former' = former
    PROVE  HandshakeInvariant'
  <1> USE DEF HandshakeInvariant
  <1>1. TypeOK'
    BY DatagramTypes DEF TypeOK
  <1>2. NetExact'
    BY DatagramsDiffer DEF NetExact, Taken, Told
  <1>3. AckMeansSession'
    BY DEF AckMeansSession, Taken
  <1>4. SessionsApart'
    BY DEF SessionsApart, RunSound, Told
  <1> QED
    BY <1>1, <1>2, <1>3, <1>4

(* What the two ways on from an attempt have in common. *)
LEMMA AttemptQuiet ==
    ASSUME HandshakeInvariant,
           NEW c \in Clients,
           NextAttempt(c),
           UNCHANGED <<acked, clientSeq, clientLog, serverVars>>
    PROVE  HandshakeInvariant'
  <1>1. /\ phase' \in [Clients -> {"idle", "handshake", "open", "stopped"}]
        /\ attempts' \in [Clients -> 0..Retries]
        /\ net' \in {net, net \cup {InitPacket(c)}}
    <2>1. /\ attempts[c] \in 0..Retries
          /\ phase \in [Clients -> {"idle", "handshake", "open", "stopped"}]
          /\ attempts \in [Clients -> 0..Retries]
      BY DEF HandshakeInvariant, TypeOK
    <2>2. CASE /\ attempts[c] < Retries
               /\ attempts' = [attempts EXCEPT ![c] = @ + 1]
               /\ net' = net \cup {InitPacket(c)}
               /\ UNCHANGED phase
      <3>1. attempts[c] + 1 \in 0..Retries
        BY <2>1, <2>2, HandshakeAssumption
      <3> QED
        BY <2>1, <2>2, <3>1
    <2>3. CASE /\ phase' = [phase EXCEPT ![c] = "open"]
               /\ UNCHANGED <<attempts, net>>
      BY <2>1, <2>3
    <2> QED
      BY <2>2, <2>3 DEF NextAttempt
  <1> QED
    BY <1>1, HandshakeQuiet DEF serverVars

(* Each step of a client keeps the invariant. *)
LEMMA ClientStep ==
    ASSUME HandshakeInvariant, NEW c \in Clients,
           \/ Start(c) \/ Timeout(c) \/ ReceiveAck(c) \/ ReceiveEarly(c)
           \/ ClientSend(c) \/ Stop(c)
    PROVE  HandshakeInvariant'
  <1> USE HandshakeAssumption DEF HandshakeInvariant
  <1>1. CASE Start(c)
    <2>1. /\ phase' \in [Clients -> {"idle", "handshake", "open", "stopped"}]
          /\ attempts' \in [Clients -> 0..Retries]
      BY <1>1 DEF Start, TypeOK
    <2> QED
      BY <1>1, <2>1, HandshakeQuiet DEF Start, serverVars
  <1>2. CASE Timeout(c)
    BY <1>2, AttemptQuiet DEF Timeout
  <1>3. CASE ReceiveAck(c)
    <2> USE <1>3 DEF ReceiveAck, serverVars
    <2>1. TypeOK'
      BY DEF TypeOK
    <2>2. AckMeansSession'
      BY DEF AckMeansSession, NetExact, Taken, TypeOK
    <2>3. NetExact' /\ SessionsApart'
      BY DEF NetExact, SessionsApart, RunSound, Taken, Told
    <2> QED
      BY <2>1, <2>2, <2>3
  <1>4. CASE ReceiveEarly(c)
    BY <1>4, AttemptQuiet DEF ReceiveEarly
  <1>5. CASE ClientSend(c)
    <2> USE <1>5 DEF ClientSend, serverVars
    <2>0. clientSeq[c] \in Seqs
      BY DEF TypeOK, Seqs
    <2>1. TypeOK'
      <3>1. net' \subseteq Datagrams
        BY <2>0, DatagramTypes DEF TypeOK
      <3>2. clientSeq' \in [Clients -> 0..MaxSeq + 1]
        <4>1. clientSeq \in [Clients -> 0..MaxSeq + 1] /\ clientSeq[c] + 1 \in 0..MaxSeq + 1
          BY <2>0 DEF TypeOK, Seqs
        <4> QED
          BY <4>1
      <3> QED
        BY <3>1, <3>2 DEF TypeOK
    <2>2. NetExact'
      <3>1. /\ clientSeq'[c] = clientSeq[c] + 1
            /\ \A e \in Clients : e # c => clientSeq'[e] = clientSeq[e]
            /\ \A e \in Clients : clientSeq[e] \in Nat
        BY DEF TypeOK
      <3>2. ASSUME NEW e \in Clients, NEW s \in Seqs, DataUp(e, s) \in net'
            PROVE  s < clientSeq'[e]
        <4>1. CASE DataUp(e, s) \in net
          BY <4>1, <3>1 DEF NetExact, Seqs
        <4>2. CASE DataUp(e, s) = DataUp(c, clientSeq[c])
          BY <4>2, <3>1, DatagramsDiffer
        <4> QED
          BY <3>2, <4>1, <4>2
      <3>3. ASSUME NEW e \in Clients
            PROVE  /\ AckPacket(e) \in net' => AckPacket(e) \in net
                   /\ \A s \in Seqs : DataDown(e, s) \in net' => DataDown(e, s) \in net
        BY DEF AckPacket, DataUp, DataDown
      <3> QED
        BY <3>2, <3>3 DEF NetExact, Taken, Told
    <2>3. AckMeansSession'
      BY DEF AckMeansSession, Taken
    <2>4. SessionsApart'
      <3>1. ASSUME NEW e \in Clients, NEW log \in Seq(Seqs), RunSound(e, log)
            PROVE  RunSound(e, log)'
        <4>1. Numbers(log) \subseteq Seqs
          BY DEF Numbers
        <4>2. clientSeq[e] \in Nat /\ clientSeq'[e] \in Nat /\ clientSeq[e] <= clientSeq'[e]
          BY DEF TypeOK
        <4> QED
          BY <3>1, <4>1, <4>2 DEF RunSound, Seqs
      <3>2. RunSound(serverPeer, serverLog)'
        <4>1. CASE serverPeer = NoClient
          BY <4>1 DEF RunSound, ReadOnce, Numbers
        <4>2. CASE serverPeer \in Clients
          BY <3>1, <4>2 DEF SessionsApart, TypeOK
        <4> QED
          BY <4>1, <4>2 DEF TypeOK
      <3>3. ASSUME NEW i \in DOMAIN former
            PROVE  RunSound(former[i].client, former[i].read)'
        <4>1. former[i] \in [client : Clients, sent : 0..MaxSeq + 1, read : Seq(Seqs)]
          <5> DEFINE Sessions == [client : Clients, sent : 0..MaxSeq + 1, read : Seq(Seqs)]
          <5>1. former \in Seq(Sessions)
            BY DEF TypeOK
          <5> HIDE DEF Sessions
          <5>2. former[i] \in Sessions
            BY <5>1
          <5> QED
            BY <5>2 DEF Sessions
        <4>2. former[i].client \in Clients /\ former[i].read \in Seq(Seqs)
          BY <4>1
        <4> QED
          BY <3>1, <4>2 DEF SessionsApart
      <3> QED
        BY <3>2, <3>3 DEF SessionsApart, Told
    <2> QED
      BY <2>1, <2>2, <2>3, <2>4
  <1>6. CASE Stop(c)
    <2>1. /\ phase' \in [Clients -> {"idle", "handshake", "open", "stopped"}]
          /\ attempts' \in [Clients -> 0..Retries]
      BY <1>6 DEF Stop, TypeOK
    <2> QED
      BY <1>6, <2>1, HandshakeQuiet DEF Stop, serverVars
  <1> QED
    BY <1>1, <1>2, <1>3, <1>4, <1>5, <1>6

(* The server takes an INIT while it has no session: what earlier runs of  *)
(* it did stands, and its own log is empty.                                *)
LEMMA TakeStep ==
    ASSUME HandshakeInvariant, NEW c \in Clients, ServerTake(c)
    PROVE  HandshakeInvariant'
  <1> USE HandshakeAssumption DEF HandshakeInvariant, ServerTake, clientVars
  <1>1. TypeOK'
    BY DatagramTypes DEF TypeOK
  <1>2. \A e \in Clients, n \in Seqs :
            (Taken(e) => Taken(e)') /\ (Told(e, n) => Told(e, n)')
    BY SessionsStay
  <1>3. Taken(c)'
    BY DEF Taken
  <1>4. NetExact'
    <2>1. ASSUME NEW e \in Clients
          PROVE  /\ AckPacket(e) \in net' => AckPacket(e) \in net \/ e = c
                 /\ \A s \in Seqs : DataUp(e, s) \in net' => DataUp(e, s) \in net
                 /\ \A s \in Seqs : DataDown(e, s) \in net' => DataDown(e, s) \in net
      BY DatagramsDiffer
    <2> QED
      BY <1>2, <1>3, <2>1, ZeroNumber DEF NetExact
  <1>5. AckMeansSession'
    BY <1>2, ZeroNumber DEF AckMeansSession
  <1>6. SessionsApart'
    <2>1. Numbers(serverLog') = {} /\ ReadOnce(serverLog')
      BY DEF Numbers, ReadOnce
    <2>2. \A e \in Clients : Numbers(clientLog[e]) \subseteq Seqs
      BY DEF TypeOK, Numbers
    <2> QED
      BY <1>2, <2>1, <2>2 DEF SessionsApart, RunSound
  <1>7. serverWindow' = Numbers(serverLog')
    BY DEF Numbers
  <1> QED
    BY <1>1, <1>4, <1>5, <1>6, <1>7

(* The server sends to the client of its session alone. *)
LEMMA ServerSendStep ==
    ASSUME HandshakeInvariant, ServerSend
    PROVE  HandshakeInvariant'
  <1> USE HandshakeAssumption DEF HandshakeInvariant, ServerSend, clientVars
  <1>0. serverPeer \in Clients /\ serverSeq \in Seqs
    BY DEF TypeOK, Seqs
  <1>1. TypeOK'
    BY <1>0, DatagramTypes DEF TypeOK, Seqs
  <1>2. \A e \in Clients, n \in Seqs :
            (Taken(e) => Taken(e)') /\ (Told(e, n) => Told(e, n)')
    BY SessionsStay
  <1>3. NetExact'
    <2>1. ASSUME NEW e \in Clients, NEW s \in Seqs, DataDown(e, s) \in net'
          PROVE  Told(e, s)'
      <3>1. CASE DataDown(e, s) \in net
        BY <1>2, <3>1 DEF NetExact
      <3>2. CASE DataDown(e, s) = DataDown(serverPeer, serverSeq)
        <4>1. e = serverPeer /\ s = serverSeq
          BY <3>2 DEF DataDown
        <4> QED
          BY <1>0, <4>1 DEF Told, Seqs
      <3> QED
        BY <2>1, <3>1, <3>2
    <2>2. ASSUME NEW e \in Clients
          PROVE  /\ AckPacket(e) \in net' => AckPacket(e) \in net
                 /\ \A s \in Seqs : DataUp(e, s) \in net' => DataUp(e, s) \in net
      BY DatagramsDiffer
    <2> QED
      BY <1>2, <2>1, <2>2, ZeroNumber DEF NetExact
  <1>4. AckMeansSession'
    BY <1>2, ZeroNumber DEF AckMeansSession
  <1>5. SessionsApart'
    <2>1. \A e \in Clients : Numbers(clientLog[e]) \subseteq Seqs
      BY DEF TypeOK, Numbers
    <2> QED
      BY <1>2, <2>1 DEF SessionsApart, RunSound
  <1> QED
    BY <1>1, <1>3, <1>4, <1>5

(* A restart ends a session and keeps its record, so that what is under    *)
(* way from it, and what clients have of it, is still accounted for.       *)
LEMMA RestartStep ==
    ASSUME HandshakeInvariant, ServerRestart
    PROVE  HandshakeInvariant'
  <1> DEFINE session == [client |-> serverPeer, sent |-> serverSeq, read |-> serverLog]
             Sessions == [client : Clients, sent : 0..MaxSeq + 1, read : Seq(Seqs)]
  <1> USE HandshakeAssumption DEF HandshakeInvariant, ServerRestart, clientVars
  <1>0. /\ session \in Sessions /\ former \in Seq(Sessions)
        /\ former' = Append(former, session)
    BY DEF TypeOK
  <1>1. TypeOK'
    BY <1>0 DEF TypeOK
  <1>2. \A e \in Clients, n \in Seqs :
            (Taken(e) => Taken(e)') /\ (Told(e, n) => Told(e, n)')
    <2>1. serverPeer \in Clients
      BY DEF TypeOK
    <2> QED
      BY <2>1, SessionsStay
  <1>3. NetExact'
    BY <1>2, ZeroNumber DEF NetExact
  <1>4. AckMeansSession'
    BY <1>2, ZeroNumber DEF AckMeansSession
  <1>5. serverWindow' = Numbers(serverLog') /\ Numbers(serverLog') = {}
    BY DEF Numbers
  <1>6. SessionsApart'
    <2>1. RunSound(serverPeer, serverLog)'
      BY <1>5 DEF RunSound, ReadOnce
    <2>2. \A e \in Clients : Numbers(clientLog[e]) \subseteq Seqs
      BY DEF TypeOK, Numbers
    <2>3. ASSUME NEW i \in DOMAIN former'
          PROVE  RunSound(former[i].client, former[i].read)'
      <3>1. session.client = serverPeer /\ session.read = serverLog
        OBVIOUS
      <3>2. former'[i] = session \/ (i \in DOMAIN former /\ former'[i] = former[i])
        <4>1. i \in DOMAIN Append(former, session)
          BY <1>0, <2>3
        <4> HIDE DEF session, Sessions
        <4>2. \/ Append(former, session)[i] = session
              \/ i \in DOMAIN former /\ Append(former, session)[i] = former[i]
          BY <1>0, <4>1, Entries
        <4> QED
          BY <1>0, <4>1, <4>2 DEF session
      <3> QED
        <4>1. CASE former'[i] = session
          BY <3>1, <4>1 DEF SessionsApart, RunSound
        <4>2. CASE i \in DOMAIN former /\ former'[i] = former[i]
          BY <4>2 DEF SessionsApart, RunSound
        <4> QED
          BY <3>2, <4>1, <4>2
    <2>4. \A i \in DOMAIN former' : RunSound(former[i].client, former[i].read)'
      BY <2>3
    <2>5. \A e \in Clients : ReadOnce(clientLog'[e]) /\ \A n \in Numbers(clientLog'[e]) : Told(e, n)'
      BY <1>2, <2>2 DEF SessionsApart
    <2> QED
      BY <2>1, <2>4, <2>5 DEF SessionsApart
  <1> QED
    BY <1>1, <1>3, <1>4, <1>5, <1>6

(* A client's network thread: the number it accepts was sent by the server *)
(* in this session, by what is known of the datagram.                      *)
LEMMA ClientReceiveStep ==
    ASSUME HandshakeInvariant, NEW c \in Clients, NEW d \in net, ClientReceive(c, d)
    PROVE  HandshakeInvariant'
  <1> USE DEF HandshakeInvariant, ClientReceive, serverVars
  <1>1. CASE clientLog' = clientLog
    BY <1>1 DEF TypeOK, NetExact, AckMeansSession, SessionsApart, RunSound, Taken, Told
  <1>2. CASE /\ d.kind = "DOWN"
             /\ d.seq \notin Numbers(clientLog[c])
             /\ clientLog' = [clientLog EXCEPT ![c] = Append(@, d.seq)]
    <2>1. d.seq \in Seqs /\ d = DataDown(c, d.seq)
      BY <1>2, DataShape DEF TypeOK
    <2>2. Told(c, d.seq)
      BY <2>1 DEF NetExact
    <2>3. /\ Append(clientLog[c], d.seq) \in Seq(Seqs)
          /\ Numbers(Append(clientLog[c], d.seq)) = Numbers(clientLog[c]) \cup {d.seq}
          /\ ReadOnce(Append(clientLog[c], d.seq))
      BY <1>2, <2>1, LogAppend DEF TypeOK, SessionsApart
    <2>4. /\ clientLog'[c] = Append(clientLog[c], d.seq)
          /\ \A e \in Clients : e # c => clientLog'[e] = clientLog[e]
      BY <1>2 DEF TypeOK
    <2>5. TypeOK'
      BY <1>2, <2>3 DEF TypeOK
    <2>6. SessionsApart'
      <3>1. ASSUME NEW e \in Clients
            PROVE  /\ ReadOnce(clientLog'[e])
                   /\ \A n \in Numbers(clientLog'[e]) : Told(e, n)
        <4>1. CASE e = c
          BY <2>2, <2>3, <2>4, <4>1 DEF SessionsApart
        <4>2. CASE e # c
          BY <2>4, <4>2 DEF SessionsApart
        <4> QED
          BY <4>1, <4>2
      <3> QED
        BY <3>1 DEF SessionsApart, RunSound, Told
    <2> QED
      BY <2>5, <2>6 DEF NetExact, AckMeansSession, Taken, Told
  <1> QED
    BY <1>1, <1>2

(* The server's network thread, in the same way. *)
LEMMA ServerDecryptStep ==
    ASSUME HandshakeInvariant, NEW d \in net, ServerDecrypt(d)
    PROVE  HandshakeInvariant'
  <1> USE HandshakeAssumption DEF HandshakeInvariant, ServerDecrypt, clientVars
  <1>1. d.seq \in Seqs /\ serverPeer \in Clients /\ d = DataUp(serverPeer, d.seq)
    BY DataShape DEF TypeOK
  <1>2. d.seq < clientSeq[serverPeer]
    BY <1>1 DEF NetExact
  <1>3. /\ serverLog' \in Seq(Seqs)
        /\ Numbers(serverLog') = Numbers(serverLog) \cup {d.seq}
        /\ ReadOnce(serverLog')
    BY <1>1, LogAppend DEF TypeOK, SessionsApart, RunSound
  <1>4. TypeOK'
    BY <1>3 DEF TypeOK
  <1>5. SessionsApart'
    BY <1>2, <1>3 DEF SessionsApart, RunSound, Told
  <1>6. serverWindow' = Numbers(serverLog')
    BY <1>3
  <1> QED
    BY <1>1, <1>4, <1>5, <1>6 DEF NetExact, AckMeansSession, Taken, Told

(* Every step of the two programs keeps the invariant. *)
LEMMA HandshakeStep == HandshakeInvariant /\ [Next]_vars => HandshakeInvariant'
  <1> SUFFICES ASSUME HandshakeInvariant, [Next]_vars PROVE HandshakeInvariant'
    OBVIOUS
  <1>1. CASE \E c \in Clients : \/ Start(c) \/ Timeout(c) \/ ReceiveAck(c)
                               \/ ReceiveEarly(c) \/ ClientSend(c) \/ Stop(c)
    BY <1>1, ClientStep
  <1>2. CASE \E c \in Clients : ServerTake(c)
    BY <1>2, TakeStep
  <1>3. CASE ServerSend
    BY <1>3, ServerSendStep
  <1>4. CASE \E d \in net, c \in Clients : ClientReceive(c, d)
    BY <1>4, ClientReceiveStep
  <1>5. CASE \E d \in net : ServerDecrypt(d)
    BY <1>5, ServerDecryptStep
  <1>6. CASE UNCHANGED vars
    BY <1>6 DEF HandshakeInvariant, vars, clientVars, serverVars, TypeOK,
                NetExact, AckMeansSession, SessionsApart, RunSound, Taken, Told
  <1>7. CASE \E d \in net : ServerRefuse(d)
    BY <1>6, <1>7 DEF ServerRefuse
  <1>8. CASE ServerRestart
    BY <1>8, RestartStep
  <1> QED
    BY <1>1, <1>2, <1>3, <1>4, <1>5, <1>6, <1>7, <1>8 DEF Next

-----------------------------------------------------------------------------

(* The variables of the demonstration keep their types. *)
THEOREM HandshakeTypeCorrect == Spec => []TypeOK
  <1>1. HandshakeInvariant => TypeOK
    BY DEF HandshakeInvariant
  <1> QED
    BY <1>1, HandshakeInit, HandshakeStep, PTL DEF Spec

(* A client that had an ACK shares its nonces with the server's session,   *)
(* or with one that a restart of the server ended.                         *)
THEOREM AckIsOwn == Spec => []AckMeansSession
  <1>1. HandshakeInvariant => AckMeansSession
    BY DEF HandshakeInvariant
  <1> QED
    BY <1>1, HandshakeInit, HandshakeStep, PTL DEF Spec

(* Sessions never mix, and no run of a program, present or past, reads a   *)
(* message twice.                                                          *)
THEOREM SessionsStayApart == Spec => []SessionsApart
  <1>1. HandshakeInvariant => SessionsApart
    BY DEF HandshakeInvariant
  <1> QED
    BY <1>1, HandshakeInit, HandshakeStep, PTL DEF Spec
=============================================================================
