--------------------------- MODULE SessionManager ---------------------------
(***************************************************************************)
(* The receiving side of one session behind a ValidatingCTPSessionManager  *)
(* (ctp_session_manager.py), the peer that sends to it through a           *)
(* CTPSession, and the network between them.                               *)
(*                                                                         *)
(* A connection ID is a hash of the session's key and an epoch; it is kept *)
(* here as the epoch.  Every dictionary of the manager is keyed by it, so  *)
(* sessions share nothing and one is enough.  The replay window appears    *)
(* as what is proved of it (ReplayWindowProofs, CheckIsExact): the check   *)
(* refuses what was accepted and what lies W or more below the highest.    *)
(*                                                                         *)
(* The peer may change its address at any time.  A packet it sent may      *)
(* arrive at any time, once or often, whole or damaged behind its CID, or  *)
(* never: which surely do, and which surely do not, is a parameter.        *)
(* What address it shows is not covered by its tag: a copy may come from   *)
(* where the packet was sent, or from anywhere else.                       *)
(***************************************************************************)
EXTENDS Integers, Sequences

CONSTANTS
    EpochSize,   \* epoch_size of the session's CTP objects
    W,           \* replay_window_size
    Lookahead,   \* CID_LOOKAHEAD_EPOCHS; 3 in the code
    Cooldown,    \* challenge_cooldown_seconds, in ticks of the clock
    Addresses,   \* source addresses
    Home,        \* the address the peer starts at
    NoAddress,   \* no address is trusted yet
    MaxSeq,      \* bound: the largest sequence number the peer sends
    Lost,        \* packets that never arrive
    Delivered    \* packets that do, whatever becomes of the others

ASSUME ManagerAssumption ==
    /\ EpochSize \in Nat \ {0}
    /\ W \in Nat \ {0}
    /\ Lookahead \in Nat
    /\ Cooldown \in Nat
    /\ MaxSeq \in Nat
    /\ Lost \subseteq 0..MaxSeq
    /\ Delivered \subseteq 0..MaxSeq \ Lost
    /\ Home \in Addresses
    /\ NoAddress \notin Addresses

VARIABLES
    peerAddress,     \* peer: where it is now
    sentFrom,        \* peer: sentFrom[s + 1] is where packet s was sent from,
                     \* which nobody sees of a lost one
    accepted,        \* receiver's CTP: the numbers its window has accepted
    registered,      \* manager: the epochs whose CID is in cid_to_session
    trustedAddress,  \* manager: trusted_address, by epoch
    sinceChallenge,  \* manager: now - _last_challenge_time, up to Cooldown
    via,             \* history: the address the last packet accepted showed
    proven,          \* history: addresses that proved possession of k_auth
    recent           \* history: how many challenges of each age below Cooldown

vars == <<peerAddress, sentFrom, accepted, registered, trustedAddress,
          sinceChallenge, via, proven, recent>>

peerVars == <<peerAddress, sentFrom>>
routeVars == <<accepted, registered, via>>
pathVars == <<trustedAddress, sinceChallenge, proven, recent>>

EpochOf(seq) == seq \div EpochSize

Seqs == 0..MaxSeq

Epochs == 0..EpochOf(MaxSeq) + Lookahead

(* The keys of _last_challenge_time: (cid, candidate_address). *)
RateKeys == Epochs \X Addresses

Sent == {s \in Seqs : s < Len(sentFrom)}

Arriving == Sent \ Lost

(* source_address of packet seq, when nobody passed it on. *)
Source(seq) == IF seq \in Sent THEN sentFrom[seq + 1] ELSE NoAddress

Highest == IF accepted = {} THEN -1
           ELSE CHOOSE s \in accepted : \A t \in accepted : t <= s

Refused(seq) == seq \in accepted \/ seq + W <= Highest

UpcomingEpochsOneMore(epoch) ==  \* mutant: one epoch too many
    epoch..epoch + Lookahead + 1

UpcomingEpochsOneLess(epoch) ==  \* mutant: one epoch too few
    {e \in Epochs : epoch <= e /\ e < epoch + Lookahead}

UpcomingEpochs(epoch) == {e \in Epochs : epoch <= e /\ e <= epoch + Lookahead}

-----------------------------------------------------------------------------

(* register_session, with an initial trusted address or without one. *)
Init ==
    /\ peerAddress = Home
    /\ sentFrom = <<>>
    /\ accepted = {}
    /\ registered = UpcomingEpochs(0)
    /\ via = NoAddress
    /\ \E initial \in {NoAddress, peerAddress} :
          /\ trustedAddress = [e \in Epochs |-> IF e = 0 THEN initial ELSE NoAddress]
          /\ proven = {initial} \ {NoAddress}
    /\ sinceChallenge = [key \in RateKeys |-> Cooldown]
    /\ recent = [key \in RateKeys |-> [age \in 0..Cooldown-1 |-> 0]]

Migrate(addr) ==
    /\ addr # peerAddress
    /\ peerAddress' = addr
    /\ UNCHANGED <<sentFrom, routeVars, pathVars>>

Send ==
    /\ Len(sentFrom) <= MaxSeq
    /\ sentFrom' = Append(sentFrom, IF Len(sentFrom) \in Lost THEN NoAddress ELSE peerAddress)
    /\ UNCHANGED <<peerAddress, routeVars, pathVars>>

(* Time passes.  A challenge Cooldown ticks old no longer matters. *)
Older(ages) == [age \in 0..Cooldown-1 |-> IF age = 0 THEN 0 ELSE ages[age - 1]]

Tick ==
    /\ \E key \in RateKeys : sinceChallenge[key] < Cooldown
    /\ sinceChallenge' = [key \in RateKeys |->
                            IF sinceChallenge[key] < Cooldown
                            THEN sinceChallenge[key] + 1 ELSE Cooldown]
    /\ recent' = [key \in RateKeys |-> Older(recent[key])]
    /\ UNCHANGED <<peerVars, routeVars, trustedAddress, proven>>

DecryptReRegisters(seq, source, damaged) ==  \* mutant: the refresh drops the rest
    \/ /\ Refused(seq) \/ damaged
       /\ UNCHANGED routeVars
    \/ /\ ~Refused(seq) /\ ~damaged
       /\ accepted' = accepted \cup {seq}
       /\ via' = source
       /\ registered' = UpcomingEpochs(EpochOf(seq))

(* session.ctp.decrypt and _refresh_registration: a replayed or damaged    *)
(* packet raises out of both, and any other leaves the current epoch of    *)
(* the CTP object at its own, be that newer or older than before.          *)
Decrypt(seq, source, damaged) ==
    \/ /\ Refused(seq) \/ damaged
       /\ UNCHANGED routeVars
    \/ /\ ~Refused(seq) /\ ~damaged
       /\ accepted' = accepted \cup {seq}
       /\ via' = source
       /\ registered' = registered \cup UpcomingEpochs(EpochOf(seq))

(* KeyError: no session is registered for the CID. *)
ReceiveUnknown(seq) ==
    /\ EpochOf(seq) \notin registered
    /\ UNCHANGED vars

(* Trust on first use, before the packet is looked at.  Only the first     *)
(* address of the whole session counts as proven: it comes with the        *)
(* session's set-up.                                                       *)
ReceiveFirst(seq, source, damaged) ==
    LET cid == EpochOf(seq)
    IN  /\ cid \in registered
        /\ trustedAddress[cid] = NoAddress
        /\ trustedAddress' = [trustedAddress EXCEPT ![cid] = source]
        /\ proven' = IF \A e \in Epochs : trustedAddress[e] = NoAddress
                     THEN {source} ELSE proven
        /\ Decrypt(seq, source, damaged)
        /\ UNCHANGED <<peerVars, sinceChallenge, recent>>

ReceiveTrusted(seq, source, damaged) ==
    /\ EpochOf(seq) \in registered
    /\ trustedAddress[EpochOf(seq)] = source
    /\ Decrypt(seq, source, damaged)
    /\ UNCHANGED <<peerVars, pathVars>>

FromCandidate(seq, source) ==
    /\ EpochOf(seq) \in registered
    /\ trustedAddress[EpochOf(seq)] \notin {NoAddress, source}

ReceiveThrottledRestarts(seq, source) ==  \* mutant: a suppressed challenge counts
    LET key == <<EpochOf(seq), source>>
    IN  /\ FromCandidate(seq, source)
        /\ sinceChallenge[key] < Cooldown
        /\ sinceChallenge' = [sinceChallenge EXCEPT ![key] = 0]
        /\ UNCHANGED <<peerVars, routeVars, trustedAddress, proven, recent>>

(* PathValidationThrottled. *)
ReceiveThrottled(seq, source) ==
    /\ FromCandidate(seq, source)
    /\ sinceChallenge[<<EpochOf(seq), source>>] < Cooldown
    /\ UNCHANGED vars

ChallengeCandidate(seq, source) ==
    LET key == <<EpochOf(seq), source>>
    IN  /\ FromCandidate(seq, source)
        /\ sinceChallenge[key] >= Cooldown
        /\ sinceChallenge' = [sinceChallenge EXCEPT ![key] = 0]
        /\ recent' = IF Cooldown = 0 THEN recent
                     ELSE [recent EXCEPT ![key][0] = @ + 1]

ReceiveUnprovenUntimed(seq, source) ==  \* mutant: only an answer starts the cooldown
    LET key == <<EpochOf(seq), source>>
    IN  /\ FromCandidate(seq, source)
        /\ sinceChallenge[key] >= Cooldown
        /\ recent' = [recent EXCEPT ![key][0] = @ + 1]
        /\ UNCHANGED <<peerVars, routeVars, trustedAddress, sinceChallenge, proven>>

ReceiveUnprovenTrusts(seq, source) ==  \* mutant: trusted before the answer is compared
    /\ ChallengeCandidate(seq, source)
    /\ trustedAddress' = [trustedAddress EXCEPT ![EpochOf(seq)] = source]
    /\ UNCHANGED <<peerVars, routeVars, proven>>

(* PathValidationError: the challenge or its answer is lost, or the peer   *)
(* has left the address.                                                   *)
ReceiveUnproven(seq, source) ==
    /\ ChallengeCandidate(seq, source)
    /\ UNCHANGED <<peerVars, routeVars, trustedAddress, proven>>

(* The peer is at the candidate address and answers. *)
ReceiveProven(seq, source, damaged) ==
    /\ ChallengeCandidate(seq, source)
    /\ peerAddress = source
    /\ proven' = proven \cup {source}
    /\ trustedAddress' = [trustedAddress EXCEPT ![EpochOf(seq)] = source]
    /\ Decrypt(seq, source, damaged)
    /\ UNCHANGED peerVars

Next ==
    \/ \E addr \in Addresses : Migrate(addr)
    \/ Send
    \/ Tick
    \/ \E seq \in Arriving : ReceiveUnknown(seq)
    \/ \E seq \in Arriving, source \in Addresses :
          \/ ReceiveThrottled(seq, source)
          \/ ReceiveUnproven(seq, source)
          \/ \E damaged \in BOOLEAN :
                \/ ReceiveFirst(seq, source, damaged)
                \/ ReceiveTrusted(seq, source, damaged)
                \/ ReceiveProven(seq, source, damaged)

Spec == Init /\ [][Next]_vars

(* What is delivered comes from where it was sent: a packet that could be  *)
(* received again and again is received, with its challenge answered, some *)
(* time.                                                                   *)
Arrive(seq) ==
    /\ seq \in Sent
    /\ \/ ReceiveFirst(seq, Source(seq), FALSE)
       \/ ReceiveTrusted(seq, Source(seq), FALSE)
       \/ ReceiveProven(seq, Source(seq), FALSE)

Fairness ==
    /\ WF_vars(Tick)
    /\ \A seq \in Delivered : SF_vars(Arrive(seq))

FairSpec == Spec /\ Fairness

-----------------------------------------------------------------------------

TypeOK ==
    /\ peerAddress \in Addresses
    /\ sentFrom \in Seq(Addresses \cup {NoAddress})
    /\ accepted \subseteq Seqs
    /\ registered \subseteq Epochs
    /\ via \in Addresses \cup {NoAddress}
    /\ trustedAddress \in [Epochs -> Addresses \cup {NoAddress}]
    /\ sinceChallenge \in [RateKeys -> 0..Cooldown]
    /\ proven \subseteq Addresses
    /\ recent \in [RateKeys -> [0..Cooldown-1 -> Nat]]

(* The epoch of the newest packet accepted; the first one counts as such.  *)
Newest == IF accepted = {} THEN 0 ELSE EpochOf(Highest)

(* The manager routes exactly the epochs up to Lookahead ahead of the      *)
(* newest packet accepted.  In particular a late packet, which takes the   *)
(* receiver's current epoch back, does not take a connection ID away.      *)
RoutesAhead ==
    registered = {e \in Epochs : e <= Newest + Lookahead}

(* A packet consumes replay state only when the address it shows is the    *)
(* one trusted for its connection ID, and a trusted address gives way only *)
(* to one the peer is at: neither late packets from an address it has left *)
(* nor copies from one it never was at can take the path.                  *)
PathValidated ==
    [][/\ \A seq \in accepted' \ accepted :
             trustedAddress'[EpochOf(seq)] = via'
       /\ \A e \in Epochs :
             trustedAddress'[e] # trustedAddress[e]
                => trustedAddress[e] = NoAddress \/ trustedAddress'[e] = peerAddress
      ]_vars

(* No address is challenged twice for one connection ID within Cooldown    *)
(* ticks, whatever became of the first challenge.                          *)
ChallengesSpaced ==
    \A key \in RateKeys : \A a, b \in 0..Cooldown-1 :
        recent[key][a] > 0 => recent[key][b] <= IF a = b THEN 1 ELSE 0

(* "A source address is trusted only after it proves possession of the     *)
(* session's k_auth": every trusted address proved it, but for the one the *)
(* session was set up with.                                                *)
TrustIsProven ==
    \A e \in Epochs : trustedAddress[e] \in proven \cup {NoAddress}

(* A peer that has moved and keeps sending is trusted at its new address   *)
(* in the end: neither a lost challenge nor the cooldown keeps it out.     *)
MigrationCompletes ==
    \A seq \in Delivered :
        (peerAddress = Source(seq) /\ EpochOf(seq) \in registered)
            ~> (\/ trustedAddress[EpochOf(seq)] = peerAddress
               \/ peerAddress # Source(seq))

(* What was lost is made up for as far as the lookahead reaches: a packet  *)
(* sent from where the peer stays, of an epoch at most Lookahead beyond    *)
(* the newest one accepted, or of the first ones when none was, gets       *)
(* through in the end, whatever of the epochs in between was lost.         *)
LookaheadSuffices ==
    \A seq \in Delivered :
        (peerAddress = Source(seq) /\ EpochOf(seq) <= Newest + Lookahead)
            ~> Refused(seq) \/ peerAddress # Source(seq)

(* "There's nothing for the mechanism to get stuck waiting on": the newest *)
(* packet of a peer that stays where it is gets through in the end.        *)
LastPacketArrives ==
    peerAddress = Source(MaxSeq)
        ~> (MaxSeq \in accepted \/ peerAddress # Source(MaxSeq))
=============================================================================
