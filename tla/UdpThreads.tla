----------------------------- MODULE UdpThreads -----------------------------
(***************************************************************************)
(* The three threads of one side of the UDP demonstration after its        *)
(* handshake (ctp_udp_server.py, and the same code in ctp_udp_client.py),  *)
(* and what they share: the sending CTP object and SharedDiagnostics       *)
(* (ctp_udp_common.py).                                                    *)
(*                                                                         *)
(* The console thread encrypts and sends what is typed, the network thread *)
(* decrypts what arrives, and the main thread displays both.  The lock of  *)
(* the diagnostics is not reentrant.  It guards the counters, and not the  *)
(* CTP object, which the display reads while the console changes it.  The  *)
(* n-th message sent, or received, is kept as the number n.                *)
(***************************************************************************)
EXTENDS Integers, Sequences

CONSTANTS
    EpochSize,  \* epoch_size
    LogSize,    \* maxlen of the diagnostics' log; 8 in the code
    MaxSent,    \* bound: messages typed
    MaxHandled  \* bound: datagrams that arrive

ASSUME ThreadsAssumption ==
    /\ EpochSize \in Nat \ {0}
    /\ LogSize \in Nat \ {0}
    /\ MaxSent \in Nat
    /\ MaxHandled \in Nat

VARIABLES
    console, network, display,  \* where each thread is
    lock,      \* diag.lock: its holder, or free
    diag,      \* the fields of SharedDiagnostics
    log,       \* diag.log
    seq,       \* send_ctp.seq
    epoch,     \* send_ctp.current_epoch
    onWire,    \* history: datagrams handed to the network
    handled,   \* history: outcomes of decrypt, counted
    shown      \* what the display has read so far for the current frame

threads == <<console, network, display>>
shared == <<lock, diag, log>>
sender == <<seq, epoch, onWire>>
vars == <<threads, shared, sender, handled, shown>>

Outcomes == {"received", "rejectedAuth", "rejectedReplay"}

Diagnostics ==
    [sent : 0..MaxSent, lastSent : 0..MaxSent, lastDecrypted : 0..MaxHandled,
     received : 0..MaxHandled, rejectedAuth : 0..MaxHandled,
     rejectedReplay : 0..MaxHandled]

(* The fields snapshot_text reads; last_sent_preview is not among them. *)
Text ==
    [sent : 0..MaxSent, received : 0..MaxHandled, rejectedAuth : 0..MaxHandled,
     rejectedReplay : 0..MaxHandled, lastDecrypted : 0..MaxHandled]

TextOf(d) ==
    [sent |-> d.sent, received |-> d.received, rejectedAuth |-> d.rejectedAuth,
     rejectedReplay |-> d.rejectedReplay, lastDecrypted |-> d.lastDecrypted]

Lines == {"handshake", "sent", "received"}

Zero == [o \in Outcomes |-> 0]

NotedLonger(line) ==  \* mutant: one line too many is kept
    IF Len(log) > LogSize THEN Tail(log) ELSE Append(log, line)

Noted(line) ==
    LET longer == Append(log, line)
    IN  IF Len(longer) > LogSize THEN Tail(longer) ELSE longer

-----------------------------------------------------------------------------

Init ==
    /\ console = "reading"
    /\ network = "receiving"
    /\ display = "waiting"
    /\ lock = "free"
    /\ diag = [sent |-> 0, lastSent |-> 0, lastDecrypted |-> 0,
               received |-> 0, rejectedAuth |-> 0, rejectedReplay |-> 0]
    /\ log = <<"handshake">>
    /\ seq = 0
    /\ epoch = 0
    /\ onWire = 0
    /\ handled = Zero
    /\ shown = [seq |-> 0, epoch |-> 0, text |-> TextOf(diag), log |-> log]

(* encrypt, up to the change of epoch. *)
Encrypt ==
    /\ console = "reading"
    /\ seq < MaxSent
    /\ epoch' = seq \div EpochSize
    /\ console' = "encrypting"
    /\ UNCHANGED <<network, display, shared, seq, onWire, handled, shown>>

(* The rest of encrypt. *)
AdvanceSeq ==
    /\ console = "encrypting"
    /\ seq' = seq + 1
    /\ console' = "sending"
    /\ UNCHANGED <<network, display, shared, epoch, onWire, handled, shown>>

SendTo ==
    /\ console = "sending"
    /\ onWire' = onWire + 1
    /\ console' = "counting"
    /\ UNCHANGED <<network, display, shared, seq, epoch, handled, shown>>

(* sendto raises OSError, which ends the thread. *)
SendFails ==
    /\ console = "sending"
    /\ console' = "ended"
    /\ UNCHANGED <<network, display, shared, sender, handled, shown>>

CountSent ==
    /\ console = "counting"
    /\ lock = "free"
    /\ lock' = "console"
    /\ diag' = [diag EXCEPT !.sent = @ + 1]
    /\ console' = "counted"
    /\ UNCHANGED <<network, display, log, sender, handled, shown>>

KeepSent ==
    /\ console = "counted"
    /\ diag' = [diag EXCEPT !.lastSent = seq]
    /\ lock' = "free"
    /\ console' = "noting"
    /\ UNCHANGED <<network, display, log, sender, handled, shown>>

NoteSent ==
    /\ console = "noting"
    /\ lock = "free"
    /\ log' = Noted("sent")
    /\ console' = "reading"
    /\ UNCHANGED <<network, display, lock, diag, sender, handled, shown>>

Console == Encrypt \/ AdvanceSeq \/ SendTo \/ SendFails
               \/ CountSent \/ KeepSent \/ NoteSent

-----------------------------------------------------------------------------

Total(counts) ==
    counts.received + counts.rejectedAuth + counts.rejectedReplay

(* decrypt returns a plaintext, or raises one of its two errors. *)
Receive(outcome) ==
    /\ network = "receiving"
    /\ Total(handled) < MaxHandled
    /\ handled' = [handled EXCEPT ![outcome] = @ + 1]
    /\ network' = outcome
    /\ UNCHANGED <<console, display, shared, sender, shown>>

(* The socket raises OSError, or decrypt an error for a packet too short   *)
(* to hold a number.                                                       *)
ReceiveFails ==
    /\ network = "receiving"
    /\ network' = "ended"
    /\ UNCHANGED <<console, display, shared, sender, handled, shown>>

CountReceived ==
    /\ network = "received"
    /\ lock = "free"
    /\ lock' = "network"
    /\ diag' = [diag EXCEPT !.received = @ + 1]
    /\ network' = "counted"
    /\ UNCHANGED <<console, display, log, sender, handled, shown>>

KeepReceived ==
    /\ network = "counted"
    /\ diag' = [diag EXCEPT !.lastDecrypted = handled.received]
    /\ lock' = "free"
    /\ network' = "noting"
    /\ UNCHANGED <<console, display, log, sender, handled, shown>>

CountRejectedAlike(outcome) ==  \* mutant: the errors are not told apart
    /\ network = outcome
    /\ lock = "free"
    /\ diag' = [diag EXCEPT !.rejectedAuth = @ + 1]
    /\ network' = "noting"
    /\ UNCHANGED <<console, display, lock, log, sender, handled, shown>>

CountRejectedEnds(outcome) ==  \* mutant: an error ends the loop
    /\ network = outcome
    /\ lock = "free"
    /\ diag' = [diag EXCEPT ![outcome] = @ + 1]
    /\ network' = "ended"
    /\ UNCHANGED <<console, display, lock, log, sender, handled, shown>>

CountRejected(outcome) ==
    /\ network = outcome
    /\ lock = "free"
    /\ diag' = [diag EXCEPT ![outcome] = @ + 1]
    /\ network' = "noting"
    /\ UNCHANGED <<console, display, lock, log, sender, handled, shown>>

NoteReceived ==
    /\ network = "noting"
    /\ lock = "free"
    /\ log' = Noted("received")
    /\ network' = "receiving"
    /\ UNCHANGED <<console, display, lock, diag, sender, handled, shown>>

Network ==
    \/ \E outcome \in Outcomes : Receive(outcome)
    \/ ReceiveFails
    \/ CountReceived
    \/ KeepReceived
    \/ \E outcome \in {"rejectedAuth", "rejectedReplay"} : CountRejected(outcome)
    \/ NoteReceived

-----------------------------------------------------------------------------

ReadSeqUnlocked ==  \* mutant: snapshot_text without the lock
    /\ display = "waiting"
    /\ shown' = [shown EXCEPT !.seq = seq]
    /\ display' = "seq"
    /\ UNCHANGED <<console, network, shared, sender, handled>>

(* snapshot_text, in the order of its reads: all of them are under the     *)
(* lock, and what the console does in encrypt is not.  How many cells of   *)
(* the lattice are active, and what it reads of recv_ctp, is left out.     *)
ReadSeq ==
    /\ display = "waiting"
    /\ lock = "free"
    /\ lock' = "display"
    /\ shown' = [shown EXCEPT !.seq = seq]
    /\ display' = "seq"
    /\ UNCHANGED <<console, network, diag, log, sender, handled>>

ReadEpoch ==
    /\ display = "seq"
    /\ shown' = [shown EXCEPT !.epoch = epoch]
    /\ display' = "epoch"
    /\ UNCHANGED <<console, network, shared, sender, handled>>

ReadDiagnostics ==
    /\ display = "epoch"
    /\ shown' = [shown EXCEPT !.text = TextOf(diag), !.log = log]
    /\ lock' = "free"
    /\ display' = "waiting"
    /\ UNCHANGED <<console, network, diag, log, sender, handled>>

Display == ReadSeq \/ ReadEpoch \/ ReadDiagnostics

Next == Console \/ Network \/ Display

Spec == Init /\ [][Next]_vars

(* Each thread runs on while it can, but for waiting for what is typed or  *)
(* arrives; the display leaves the lock free for most of each frame, so    *)
(* that a thread which waits for it has it some time.                      *)
ConsoleRuns == AdvanceSeq \/ SendTo \/ SendFails \/ CountSent \/ KeepSent \/ NoteSent

NetworkRuns ==
    \/ CountReceived
    \/ KeepReceived
    \/ \E outcome \in {"rejectedAuth", "rejectedReplay"} : CountRejected(outcome)
    \/ NoteReceived

Fairness == SF_vars(ConsoleRuns) /\ SF_vars(NetworkRuns) /\ SF_vars(Display)

FairSpec == Spec /\ Fairness

-----------------------------------------------------------------------------

TypeOK ==
    /\ console \in {"reading", "encrypting", "sending", "counting", "counted",
                    "noting", "ended"}
    /\ network \in Outcomes \cup {"receiving", "counted", "noting", "ended"}
    /\ display \in {"waiting", "seq", "epoch"}
    /\ lock \in {"free", "console", "network", "display"}
    /\ diag \in Diagnostics
    /\ log \in Seq(Lines)
    /\ Len(log) <= LogSize
    /\ seq \in 0..MaxSent /\ onWire \in 0..MaxSent
    /\ epoch \in 0..MaxSent \div EpochSize
    /\ handled \in [Outcomes -> 0..MaxHandled]
    /\ shown \in [seq : 0..MaxSent, epoch : 0..MaxSent \div EpochSize,
                  text : Text, log : Seq(Lines)]

(* What a frame shows belongs together, although the network thread writes *)
(* it one after the other: the last message shown is the one that the      *)
(* number of messages received counts, and the log beside them is not      *)
(* ahead of the counters.                                                  *)
SomethingHandled(counts) == \E o \in Outcomes : counts[o] > 0

NotAhead(lines, counts) ==
    \A i \in DOMAIN lines :
        /\ lines[i] = "sent" => counts.sent > 0
        /\ lines[i] = "received" => SomethingHandled(counts)

ShownTogether ==
    /\ shown.text.lastDecrypted = shown.text.received
    /\ NotAhead(shown.log, shown.text)

(* The counters: what sendto and decrypt did, but for the one message that *)
(* each thread has in hand.                                                *)
CountsExact ==
    /\ diag.sent = onWire - (IF console = "counting" THEN 1 ELSE 0)
    /\ \A o \in Outcomes :
          diag[o] = handled[o] - (IF network = o THEN 1 ELSE 0)

(* No thread waits for ever: what was typed is sent, counted and noted,    *)
(* what arrived is counted and noted, and frames are shown.                *)
NobodyWaits ==
    /\ console = "encrypting" ~> console \in {"reading", "ended"}
    /\ network \in Outcomes ~> network = "receiving"
    /\ display # "waiting" ~> display = "waiting"
=============================================================================
