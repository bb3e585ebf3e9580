---------------------------- MODULE UdpHandshake ----------------------------
(***************************************************************************)
(* One server (ctp_udp_server.py) and the clients (ctp_udp_client.py) that *)
(* are started against it, over UDP: the handshake, and the messages of    *)
(* both directions after it.                                               *)
(*                                                                         *)
(* A client here is one run of the program: each has a socket and two      *)
(* random nonces of its own, and one that is stopped and started again is  *)
(* another client.  A datagram that carries nonces, or was enciphered      *)
(* under them, is kept with the client they are of.  The server, too, may  *)
(* be stopped and started again, on the port the clients know.             *)
(*                                                                         *)
(* The network keeps every datagram sent: each may arrive later, more than *)
(* once, in any order, or never.  decrypt appears as what is proved of it: *)
(* a number is accepted at most once by one CTP object, and only under the *)
(* nonce it was enciphered with.  The window of 64 lies beyond MaxSeq.     *)
(***************************************************************************)
EXTENDS Integers, Sequences

CONSTANTS
    Clients,   \* runs of the client
    NoClient,  \* the server has taken no INIT yet
    Retries,   \* handshake_retries
    MaxSeq,    \* bound: the largest sequence number of a stream
    MaxRestarts  \* bound: how often the server is started again

ASSUME HandshakeAssumption ==
    /\ NoClient \notin Clients
    /\ Retries \in Nat \ {0}
    /\ MaxSeq \in 0..63
    /\ MaxRestarts \in Nat

VARIABLES
    phase,       \* client: idle, handshake (in recvfrom), open or stopped
    attempts,    \* client: INITs sent
    acked,       \* client: acked
    clientSeq,   \* client: send_ctp.seq
    clientLog,   \* client: the numbers recv_ctp accepted, in order
    serverPeer,  \* server: the client whose INIT it took
    serverSeq,   \* server: send_ctp.seq
    serverWindow,  \* server: the numbers recv_ctp accepted
    serverLog,   \* history: what this run of the server read, in order
    former,      \* history: what the runs before it sent and read, and whose
    net          \* the datagrams sent

clientVars == <<phase, attempts, acked, clientSeq, clientLog>>
serverVars == <<serverPeer, serverSeq, serverWindow, serverLog, former>>
vars == <<clientVars, serverVars, net>>

Seqs == 0..MaxSeq

InitPacket(c) == [kind |-> "INIT", client |-> c]
AckPacket(c) == [kind |-> "ACK", client |-> c]
DataUp(c, s) == [kind |-> "UP", client |-> c, seq |-> s]
DataDown(c, s) == [kind |-> "DOWN", client |-> c, seq |-> s]

Datagrams ==
    [kind : {"INIT", "ACK"}, client : Clients]
        \cup [kind : {"UP", "DOWN"}, client : Clients, seq : Seqs]

Numbers(log) == {log[i] : i \in DOMAIN log}

-----------------------------------------------------------------------------

Init ==
    /\ phase = [c \in Clients |-> "idle"]
    /\ attempts = [c \in Clients |-> 0]
    /\ acked = [c \in Clients |-> FALSE]
    /\ clientSeq = [c \in Clients |-> 0]
    /\ clientLog = [c \in Clients |-> <<>>]
    /\ serverPeer = NoClient
    /\ serverSeq = 0
    /\ serverWindow = {}
    /\ serverLog = <<>>
    /\ former = <<>>
    /\ net = {}

Start(c) ==
    /\ phase[c] = "idle"
    /\ phase' = [phase EXCEPT ![c] = "handshake"]
    /\ attempts' = [attempts EXCEPT ![c] = 1]
    /\ net' = net \cup {InitPacket(c)}
    /\ UNCHANGED <<acked, clientSeq, clientLog, serverVars>>

NextAttemptInsists(c) ==  \* mutant: the client insists on an ACK
    /\ attempts[c] < Retries
    /\ attempts' = [attempts EXCEPT ![c] = @ + 1]
    /\ net' = net \cup {InitPacket(c)}
    /\ UNCHANGED phase

NextAttemptGivesUp(c) ==  \* mutant: the client ends without an ACK
    \/ /\ attempts[c] < Retries
       /\ attempts' = [attempts EXCEPT ![c] = @ + 1]
       /\ net' = net \cup {InitPacket(c)}
       /\ UNCHANGED phase
    \/ /\ attempts[c] = Retries
       /\ phase' = [phase EXCEPT ![c] = "idle"]
       /\ UNCHANGED <<attempts, net>>

NextAttemptOneMore(c) ==  \* mutant: the loop runs once too often
    \/ /\ attempts[c] <= Retries
       /\ attempts' = [attempts EXCEPT ![c] = @ + 1]
       /\ net' = net \cup {InitPacket(c)}
       /\ UNCHANGED phase
    \/ /\ attempts[c] > Retries
       /\ phase' = [phase EXCEPT ![c] = "open"]
       /\ UNCHANGED <<attempts, net>>

(* The next round of the loop sends INIT again; after the last one the     *)
(* client proceeds without an ACK.                                         *)
NextAttempt(c) ==
    \/ /\ attempts[c] < Retries
       /\ attempts' = [attempts EXCEPT ![c] = @ + 1]
       /\ net' = net \cup {InitPacket(c)}
       /\ UNCHANGED phase
    \/ /\ attempts[c] = Retries
       /\ phase' = [phase EXCEPT ![c] = "open"]
       /\ UNCHANGED <<attempts, net>>

Timeout(c) ==
    /\ phase[c] = "handshake"
    /\ NextAttempt(c)
    /\ UNCHANGED <<acked, clientSeq, clientLog, serverVars>>

ReceiveAck(c) ==
    /\ phase[c] = "handshake"
    /\ AckPacket(c) \in net
    /\ acked' = [acked EXCEPT ![c] = TRUE]
    /\ phase' = [phase EXCEPT ![c] = "open"]
    /\ UNCHANGED <<attempts, clientSeq, clientLog, serverVars, net>>

(* A message that comes before the ACK is thrown away, and an attempt with *)
(* it.                                                                     *)
ReceiveEarly(c) ==
    /\ phase[c] = "handshake"
    /\ \E s \in Seqs : DataDown(c, s) \in net
    /\ NextAttempt(c)
    /\ UNCHANGED <<acked, clientSeq, clientLog, serverVars>>

ClientSend(c) ==
    /\ phase[c] = "open"
    /\ clientSeq[c] <= MaxSeq
    /\ net' = net \cup {DataUp(c, clientSeq[c])}
    /\ clientSeq' = [clientSeq EXCEPT ![c] = @ + 1]
    /\ UNCHANGED <<phase, attempts, acked, clientLog, serverVars>>

(* The client's network thread: data is accepted or a replay, and anything *)
(* else is left.                                                           *)
ClientReceive(c, d) ==
    /\ phase[c] = "open"
    /\ d.client = c
    /\ \/ /\ d.kind = "DOWN"
          /\ d.seq \notin Numbers(clientLog[c])
          /\ clientLog' = [clientLog EXCEPT ![c] = Append(@, d.seq)]
       \/ /\ d.kind = "DOWN" => d.seq \in Numbers(clientLog[c])
          /\ UNCHANGED clientLog
    /\ UNCHANGED <<phase, attempts, acked, clientSeq, serverVars, net>>

(* The window is closed; both threads are daemons and end with it. *)
Stop(c) ==
    /\ phase[c] \in {"handshake", "open"}
    /\ phase' = [phase EXCEPT ![c] = "stopped"]
    /\ UNCHANGED <<attempts, acked, clientSeq, clientLog, serverVars, net>>

-----------------------------------------------------------------------------

ServerReopens(c) ==  \* mutant: a retried INIT makes a new recv_ctp
    /\ serverPeer \in {NoClient, c}
    /\ InitPacket(c) \in net
    /\ serverPeer' = c
    /\ serverWindow' = {}
    /\ net' = net \cup {AckPacket(c)}
    /\ UNCHANGED <<clientVars, serverSeq, serverLog, former>>

(* Before the handshake: an INIT is taken and answered once, and two new   *)
(* CTP objects are made of its nonces; anything else is ignored.           *)
ServerTake(c) ==
    /\ serverPeer = NoClient
    /\ InitPacket(c) \in net
    /\ serverPeer' = c
    /\ serverSeq' = 0
    /\ serverWindow' = {}
    /\ net' = net \cup {AckPacket(c)}
    /\ UNCHANGED <<clientVars, serverLog, former>>

ServerSend ==
    /\ serverPeer # NoClient
    /\ serverSeq <= MaxSeq
    /\ net' = net \cup {DataDown(serverPeer, serverSeq)}
    /\ serverSeq' = serverSeq + 1
    /\ UNCHANGED <<clientVars, serverPeer, serverWindow, serverLog, former>>

(* The server's network thread, data of its own session. *)
ServerDecrypt(d) ==
    /\ d \in net
    /\ d.kind = "UP"
    /\ d.client = serverPeer
    /\ d.seq \notin serverWindow
    /\ serverWindow' = serverWindow \cup {d.seq}
    /\ serverLog' = Append(serverLog, d.seq)
    /\ UNCHANGED <<clientVars, serverPeer, serverSeq, former, net>>

ServerRefuseAcks(d) ==  \* mutant: every INIT is answered
    /\ d.kind = "INIT"
    /\ serverPeer # NoClient
    /\ net' = net \cup {AckPacket(d.client)}
    /\ UNCHANGED <<clientVars, serverVars>>

(* Another client's data (AuthenticationError), a replay (ReplayError), an *)
(* INIT that comes too late, or data that comes too early.                 *)
ServerRefuse(d) ==
    /\ d.kind \in {"INIT", "UP"}
    /\ serverPeer = NoClient => d.kind # "INIT"
    /\ d.kind = "UP" => serverPeer # d.client \/ d.seq \in serverWindow
    /\ UNCHANGED vars

(* The server is stopped and started again.  Nothing is kept: the new run  *)
(* waits for an INIT, and a late one of an earlier session will do.        *)
ServerRestart ==
    /\ serverPeer # NoClient
    /\ Len(former) < MaxRestarts
    /\ former' = Append(former, [client |-> serverPeer, sent |-> serverSeq,
                                 read |-> serverLog])
    /\ serverPeer' = NoClient
    /\ serverSeq' = 0
    /\ serverWindow' = {}
    /\ serverLog' = <<>>
    /\ UNCHANGED <<clientVars, net>>

Next ==
    \/ \E c \in Clients :
          \/ Start(c)
          \/ Timeout(c)
          \/ ReceiveAck(c)
          \/ ReceiveEarly(c)
          \/ ClientSend(c)
          \/ Stop(c)
          \/ ServerTake(c)
    \/ ServerSend
    \/ ServerRestart
    \/ \E d \in net :
          \/ \E c \in Clients : ClientReceive(c, d)
          \/ ServerDecrypt(d)
          \/ ServerRefuse(d)

Spec == Init /\ [][Next]_vars

(* recvfrom with a timeout returns, with a datagram or without one; the    *)
(* users go on typing; a client's last message is not lost.                *)
Fairness ==
    \A c \in Clients :
        /\ WF_vars(Timeout(c) \/ ReceiveAck(c) \/ ReceiveEarly(c))
        /\ WF_vars(ClientSend(c))
        /\ WF_vars(ServerDecrypt(DataUp(c, MaxSeq)))

FairSpec == Spec /\ Fairness

-----------------------------------------------------------------------------

TypeOK ==
    /\ phase \in [Clients -> {"idle", "handshake", "open", "stopped"}]
    /\ attempts \in [Clients -> 0..Retries]
    /\ acked \in [Clients -> BOOLEAN]
    /\ clientSeq \in [Clients -> 0..MaxSeq + 1]
    /\ clientLog \in [Clients -> Seq(Seqs)]
    /\ serverPeer \in Clients \cup {NoClient}
    /\ serverSeq \in 0..MaxSeq + 1
    /\ serverWindow \subseteq Seqs
    /\ serverLog \in Seq(Seqs)
    /\ former \in Seq([client : Clients, sent : 0..MaxSeq + 1, read : Seq(Seqs)])
    /\ net \subseteq Datagrams

(* A run of the server had a session with c, and sent it number n in one.  *)
Taken(c) == serverPeer = c \/ \E i \in DOMAIN former : former[i].client = c

Told(c, n) ==
    \/ serverPeer = c /\ n < serverSeq
    \/ \E i \in DOMAIN former : former[i].client = c /\ n < former[i].sent

(* The ACK names no session, and still says that the server used this      *)
(* client's nonces, and goes on to unless it was started again since: a    *)
(* client that was started later, or whose INIT came too late, never takes *)
(* an ACK for its own.                                                     *)
AckMeansSession ==
    \A c \in Clients : acked[c] => Taken(c)

(* The sessions of two clients never mix, in either direction, whatever    *)
(* was retried, repeated or started again: what a program reads, its own   *)
(* peer sent.  No run of a program reads a message twice: a run of the     *)
(* server not however often its client's INIT comes, and a client not even *)
(* when two runs of the server, neither of which knows of the other's      *)
(* numbers, both send to it.  Two runs of the server that take the same    *)
(* client can each read the same message: the window ends with the run.    *)
ReadOnce(log) == \A i, j \in DOMAIN log : log[i] = log[j] => i = j

RunSound(c, log) ==
    /\ ReadOnce(log)
    /\ \A n \in Numbers(log) : n < clientSeq[c]

SessionsApart ==
    /\ RunSound(serverPeer, serverLog)
    /\ \A i \in DOMAIN former : RunSound(former[i].client, former[i].read)
    /\ \A c \in Clients :
          /\ ReadOnce(clientLog[c])
          /\ \A n \in Numbers(clientLog[c]) : Told(c, n)

(* The handshake loop ends, whatever arrives while it waits.               *)
HandshakeEnds ==
    \A c \in Clients :
        phase[c] = "handshake" ~> phase[c] \in {"open", "stopped"}

(* "Proceeding anyway in case the ACK was simply lost": a client whose     *)
(* INIT the server took is heard, although the server never repeats its    *)
(* ACK and all but the client's last message may be lost, unless one of    *)
(* the two programs is stopped.                                            *)
LostAckHarmless ==
    \A c \in Clients :
        serverPeer = c ~>
            \/ serverPeer = c /\ MaxSeq \in Numbers(serverLog)
            \/ phase[c] = "stopped"
            \/ serverPeer # c
=============================================================================
