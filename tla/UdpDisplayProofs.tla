-------------------------- MODULE UdpDisplayProofs --------------------------
(***************************************************************************)
(* Theorems about UdpThreads, for any epoch, log and number of messages,   *)
(* and about UdpDisplay, for any burn-in, evolution period, grids and      *)
(* blocks.  What a frame shows belongs together because whoever is         *)
(* half-way through writing it holds the lock, and so does the display.    *)
(* UdpDisplay implements UdpThreads, so that what is proved of the threads *)
(* holds with the picture; and the picture of a frame is that of the grid  *)
(* the frame took, because the grid kept is the one last drawn.            *)
(***************************************************************************)
EXTENDS UdpDisplay, TLAPS

-----------------------------------------------------------------------------
(* The threads.                                                            *)

(* The lock is held by exactly the thread that is inside it. *)
LockHeld ==
    /\ console = "counted" <=> lock = "console"
    /\ network = "counted" <=> lock = "network"
    /\ display # "waiting" <=> lock = "display"

(* One message is between encrypt and sendto, or was lost there. *)
SeqExact ==
    /\ seq = onWire + (IF console \in {"sending", "ended"} THEN 1 ELSE 0)
    /\ console = "encrypting" => seq < MaxSent

(* The last message and the count of messages differ while their writer is *)
(* inside the lock, and only then.                                         *)
PairExact ==
    diag.received = diag.lastDecrypted + (IF network = "counted" THEN 1 ELSE 0)

(* What is noted was counted before. *)
LogBehind ==
    /\ NotAhead(log, diag)
    /\ console \in {"counted", "noting"} => diag.sent > 0
    /\ network \in {"counted", "noting"} => SomethingHandled(diag)

ThreadsInvariant ==
    /\ TypeOK
    /\ LockHeld
    /\ SeqExact
    /\ CountsExact
    /\ PairExact
    /\ LogBehind
    /\ ShownTogether

USE ThreadsAssumption

(* Before the first message all counts are zero. *)
LEMMA ThreadsInit == Init => ThreadsInvariant
  <1> SUFFICES ASSUME Init PROVE ThreadsInvariant
    OBVIOUS
  <1> USE DEF Init, Outcomes, Zero
  <1>1. 0 \in 0..MaxSent \div EpochSize
    OBVIOUS
  <1>2. TypeOK
    <2>1. log \in Seq(Lines) /\ Len(log) = 1
      BY DEF Lines
    <2> QED
      BY <1>1, <2>1 DEF TypeOK, Diagnostics, Text, TextOf
  <1>3. LockHeld /\ SeqExact /\ CountsExact /\ PairExact
    BY DEF LockHeld, SeqExact, CountsExact, PairExact
  <1>4. LogBehind /\ ShownTogether
    <2>1. \A i \in DOMAIN log : log[i] = "handshake"
      OBVIOUS
    <2> QED
      BY <2>1 DEF LogBehind, NotAhead, ShownTogether, TextOf
  <1> QED
    BY <1>2, <1>3, <1>4 DEF ThreadsInvariant

(* The log keeps its newest lines and never more than its size. *)
LEMMA NotedTypes ==
    ASSUME NEW line \in Lines,
           log \in Seq(Lines),
           Len(log) <= LogSize
    PROVE  /\ Noted(line) \in Seq(Lines)
           /\ Len(Noted(line)) <= LogSize
           /\ \A i \in DOMAIN Noted(line) :
                 Noted(line)[i] = line \/ \E j \in DOMAIN log : Noted(line)[i] = log[j]
  <1> DEFINE longer == Append(log, line)
  <1>1. /\ longer \in Seq(Lines)
        /\ Len(longer) = Len(log) + 1
        /\ Len(log) \in Nat
    OBVIOUS
  <1>2. /\ Tail(longer) \in Seq(Lines)
        /\ Len(Tail(longer)) = Len(log)
    BY <1>1
  <1>3. ASSUME NEW i \in DOMAIN longer
        PROVE  longer[i] = line \/ \E j \in DOMAIN log : longer[i] = log[j]
    BY <1>1
  <1>4. ASSUME NEW i \in DOMAIN Tail(longer)
        PROVE  i + 1 \in DOMAIN longer /\ Tail(longer)[i] = longer[i + 1]
    BY <1>1
  <1>5. Noted(line) \in {longer, Tail(longer)}
    BY DEF Noted
  <1> HIDE DEF longer
  <1>6. \A i \in DOMAIN Noted(line) :
            Noted(line)[i] = line \/ \E j \in DOMAIN log : Noted(line)[i] = log[j]
    BY <1>3, <1>4, <1>5
  <1> QED
    BY <1>1, <1>2, <1>6 DEF Noted, longer

(* The epoch of a message that may still be sent lies within its type. *)
LEMMA EpochTypes ==
    ASSUME NEW s \in 0..MaxSent
    PROVE  s \div EpochSize \in 0..MaxSent \div EpochSize
  <1> DEFINE q == s \div EpochSize
             m == MaxSent \div EpochSize
  <1>1. /\ q \in Int /\ m \in Int
        /\ q * EpochSize <= s /\ s < (q + 1) * EpochSize
        /\ m * EpochSize <= MaxSent /\ MaxSent < (m + 1) * EpochSize
    OBVIOUS
  <1> HIDE DEF q, m
  <1>2. q >= 0
    <2>1. CASE q + 1 <= 0
      <3>1. (q + 1) * EpochSize <= 0
        BY <1>1, <2>1
      <3> QED
        BY <1>1, <3>1
    <2> QED
      BY <1>1, <2>1
  <1>3. q <= m
    <2>1. CASE m + 1 <= q
      <3>1. (m + 1) * EpochSize <= q * EpochSize
        BY <1>1, <2>1
      <3> QED
        BY <1>1, <3>1
    <2> QED
      BY <1>1, <2>1
  <1> QED
    BY <1>1, <1>2, <1>3 DEF q, m

(* What is counted is a number. *)
LEMMA CountsAreNumbers ==
    ASSUME TypeOK
    PROVE  /\ onWire \in 0..MaxSent
           /\ diag.sent \in Nat /\ diag.lastSent \in Nat
           /\ diag.received \in Nat /\ diag.lastDecrypted \in Nat
           /\ \A o \in Outcomes : diag[o] \in Nat /\ handled[o] \in Nat
  BY DEF TypeOK, Diagnostics, Outcomes

(* One datagram more, of any outcome, is still within the bound. *)
LEMMA OneMore ==
    ASSUME handled \in [Outcomes -> 0..MaxHandled], Total(handled) < MaxHandled,
           NEW outcome \in Outcomes
    PROVE  handled[outcome] + 1 \in 0..MaxHandled
  <1>1. \A o \in Outcomes : handled[o] \in Nat
    OBVIOUS
  <1>2. /\ handled["received"] \in Nat /\ handled["rejectedAuth"] \in Nat
        /\ handled["rejectedReplay"] \in Nat
    BY <1>1 DEF Outcomes
  <1>3. handled["received"] + handled["rejectedAuth"] + handled["rejectedReplay"]
           < MaxHandled
    BY DEF Total
  <1> QED
    BY <1>2, <1>3 DEF Outcomes

(* The counters only grow, so a log that stays as it is stays behind them. *)
LEMMA LogKept ==
    ASSUME LogBehind, log' = log, diag \in Diagnostics, diag' \in Diagnostics,
           diag'.sent >= diag.sent,
           \A o \in Outcomes : diag'[o] >= diag[o]
    PROVE  /\ NotAhead(log, diag)'
           /\ diag.sent > 0 => diag'.sent > 0
           /\ SomethingHandled(diag) => SomethingHandled(diag')
  <1>1. /\ diag.sent \in Nat /\ diag'.sent \in Nat
        /\ \A o \in Outcomes : diag[o] \in Nat /\ diag'[o] \in Nat
    BY DEF Diagnostics, Outcomes
  <1>2. diag.sent > 0 => diag'.sent > 0
    BY <1>1
  <1>3. SomethingHandled(diag) => SomethingHandled(diag')
    <2>1. \A o \in Outcomes : diag[o] > 0 => diag'[o] > 0
      BY <1>1
    <2> QED
      BY <2>1 DEF SomethingHandled
  <1> QED
    BY <1>2, <1>3 DEF LogBehind, NotAhead

(* A line for what was counted keeps the log behind the counters. *)
LEMMA LogGrows ==
    ASSUME TypeOK, LogBehind, NEW line \in Lines, log' = Noted(line), diag' = diag,
           line = "sent" => diag.sent > 0,
           line = "received" => SomethingHandled(diag)
    PROVE  NotAhead(log, diag)'
  <1>1. \A i \in DOMAIN log' : log'[i] = line \/ \E j \in DOMAIN log : log'[i] = log[j]
    BY NotedTypes DEF TypeOK
  <1> QED
    BY <1>1 DEF LogBehind, NotAhead

(* Each step of the console thread. *)
LEMMA ConsoleStep == ThreadsInvariant /\ Console => ThreadsInvariant'
  <1> SUFFICES ASSUME ThreadsInvariant, Console PROVE ThreadsInvariant'
    OBVIOUS
  <1> USE DEF ThreadsInvariant, shared, sender
  <1>1. CASE Encrypt
    <2>1. epoch' \in 0..MaxSent \div EpochSize
      BY <1>1, EpochTypes DEF Encrypt, TypeOK
    <2>2. TypeOK'
      BY <1>1, <2>1 DEF Encrypt, TypeOK
    <2> QED
      BY <1>1, <2>2 DEF Encrypt, LockHeld, SeqExact, CountsExact, PairExact, LogBehind,
                        ShownTogether, Outcomes
  <1>2. CASE AdvanceSeq
    <2>1. seq' \in 0..MaxSent
      BY <1>2 DEF AdvanceSeq, TypeOK, SeqExact
    <2>2. TypeOK'
      BY <1>2, <2>1 DEF AdvanceSeq, TypeOK
    <2>3. SeqExact'
      BY <1>2 DEF AdvanceSeq, TypeOK, SeqExact
    <2> QED
      BY <1>2, <2>2, <2>3 DEF AdvanceSeq, LockHeld, CountsExact, PairExact, LogBehind,
                              ShownTogether, Outcomes
  <1>3. CASE SendTo
    <2>1. onWire' \in 0..MaxSent
      BY <1>3 DEF SendTo, TypeOK, SeqExact
    <2>2. TypeOK'
      BY <1>3, <2>1 DEF SendTo, TypeOK
    <2>3. SeqExact'
      BY <1>3 DEF SendTo, TypeOK, SeqExact
    <2>4. CountsExact'
      BY <1>3 DEF SendTo, TypeOK, CountsExact
    <2> QED
      BY <1>3, <2>2, <2>3, <2>4 DEF SendTo, LockHeld, PairExact, LogBehind,
                                    ShownTogether
  <1>4. CASE SendFails
    <2>1. TypeOK'
      BY <1>4 DEF SendFails, TypeOK
    <2> QED
      BY <1>4, <2>1 DEF SendFails, LockHeld, SeqExact, CountsExact, PairExact,
                        LogBehind, ShownTogether
  <1>5. CASE CountSent
    <2>1. diag.sent + 1 = onWire /\ onWire \in 0..MaxSent
      BY <1>5, CountsAreNumbers DEF CountSent, CountsExact
    <2>2. diag' = [diag EXCEPT !.sent = diag.sent + 1]
      BY <1>5 DEF CountSent
    <2>3. /\ diag' \in Diagnostics
          /\ diag'.sent = diag.sent + 1
          /\ diag'.lastSent = diag.lastSent
          /\ diag'.lastDecrypted = diag.lastDecrypted
          /\ \A o \in Outcomes : diag'[o] = diag[o]
      BY <2>1, <2>2 DEF TypeOK, Diagnostics, Outcomes
    <2>4. TypeOK'
      BY <1>5, <2>3 DEF CountSent, TypeOK
    <2>5. CountsExact'
      <3>1. diag'.sent = onWire
        BY <2>1, <2>3
      <3> QED
        BY <1>5, <2>3, <3>1, CountsAreNumbers DEF CountSent, CountsExact
    <2>6. PairExact'
      BY <1>5, <2>3 DEF CountSent, PairExact, LockHeld, TypeOK, Diagnostics, Outcomes
    <2>7. LogBehind'
      <3>1. diag.sent \in Nat /\ \A o \in Outcomes : diag[o] \in Nat
        BY CountsAreNumbers
      <3>2. /\ log' = log /\ diag'.sent >= diag.sent /\ diag'.sent > 0
            /\ \A o \in Outcomes : diag'[o] >= diag[o]
        BY <1>5, <2>3, <3>1 DEF CountSent
      <3>3. /\ NotAhead(log, diag)'
            /\ SomethingHandled(diag) => SomethingHandled(diag')
        BY <2>3, <3>2, LogKept DEF TypeOK
      <3> QED
        BY <1>5, <3>2, <3>3 DEF CountSent, LogBehind
    <2> QED
      BY <1>5, <2>4, <2>5, <2>6, <2>7 DEF CountSent, LockHeld, SeqExact, ShownTogether
  <1>6. CASE KeepSent
    <2>1. diag' = [diag EXCEPT !.lastSent = seq]
      BY <1>6 DEF KeepSent
    <2>2. /\ diag' \in Diagnostics
          /\ diag'.sent = diag.sent
          /\ diag'.lastSent = seq
          /\ diag'.lastDecrypted = diag.lastDecrypted
          /\ \A o \in Outcomes : diag'[o] = diag[o]
      BY <2>1 DEF TypeOK, Diagnostics, Outcomes
    <2>3. TypeOK'
      BY <1>6, <2>2 DEF KeepSent, TypeOK
    <2>4. CountsExact'
      BY <1>6, <2>2 DEF KeepSent, CountsExact
    <2>5. PairExact'
      <3>1. diag'.received = diag.received
        BY <2>2 DEF Outcomes
      <3> QED
        BY <1>6, <2>2, <3>1, CountsAreNumbers DEF KeepSent, PairExact
    <2>6. LogBehind'
      <3>1. /\ log' = log /\ diag'.sent >= diag.sent
            /\ \A o \in Outcomes : diag'[o] >= diag[o]
        BY <1>6, <2>2, CountsAreNumbers DEF KeepSent
      <3>2. /\ NotAhead(log, diag)'
            /\ diag.sent > 0 => diag'.sent > 0
            /\ SomethingHandled(diag) => SomethingHandled(diag')
        BY <2>2, <3>1, LogKept DEF TypeOK
      <3> QED
        BY <1>6, <3>2 DEF KeepSent, LogBehind
    <2> QED
      BY <1>6, <2>3, <2>4, <2>5, <2>6 DEF KeepSent, LockHeld, SeqExact, ShownTogether
  <1>7. CASE NoteSent
    <2>0. "sent" \in Lines
      BY DEF Lines
    <2>1. log' \in Seq(Lines) /\ Len(log') <= LogSize
      BY <1>7, <2>0, NotedTypes DEF NoteSent, TypeOK
    <2>2. TypeOK'
      BY <1>7, <2>1 DEF NoteSent, TypeOK
    <2>3. LogBehind'
      <3>1. NotAhead(log, diag)'
        BY <1>7, <2>0, LogGrows DEF NoteSent, LogBehind
      <3> QED
        BY <1>7, <3>1 DEF NoteSent, LogBehind
    <2> QED
      BY <1>7, <2>2, <2>3 DEF NoteSent, LockHeld, SeqExact, CountsExact, PairExact,
                              ShownTogether
  <1> QED
    BY <1>1, <1>2, <1>3, <1>4, <1>5, <1>6, <1>7 DEF Console

(* Each step of the network thread. *)
LEMMA NetworkStep == ThreadsInvariant /\ Network => ThreadsInvariant'
  <1> SUFFICES ASSUME ThreadsInvariant, Network PROVE ThreadsInvariant'
    OBVIOUS
  <1> USE DEF ThreadsInvariant, shared, sender
  <1>1. ASSUME NEW outcome \in Outcomes, Receive(outcome) PROVE ThreadsInvariant'
    <2>1. handled[outcome] + 1 \in 0..MaxHandled
      BY <1>1, OneMore DEF Receive, TypeOK
    <2>2. /\ handled' \in [Outcomes -> 0..MaxHandled]
          /\ \A o \in Outcomes :
                handled'[o] = handled[o] + (IF o = outcome THEN 1 ELSE 0)
      BY <1>1, <2>1 DEF Receive, TypeOK
    <2>3. TypeOK'
      BY <1>1, <2>2 DEF Receive, TypeOK
    <2>4. CountsExact'
      <3>1. ASSUME NEW o \in Outcomes
            PROVE  diag[o] = handled'[o] - (IF outcome = o THEN 1 ELSE 0)
        <4>1. diag[o] = handled[o] /\ handled[o] \in Nat
          BY <1>1 DEF Receive, CountsExact, TypeOK, Outcomes
        <4> QED
          BY <2>2, <4>1
      <3> QED
        BY <1>1, <3>1 DEF Receive, CountsExact
    <2> QED
      BY <1>1, <2>3, <2>4 DEF Receive, LockHeld, SeqExact, PairExact, LogBehind,
                              ShownTogether, Outcomes
  <1>2. CASE ReceiveFails
    <2>1. TypeOK'
      BY <1>2 DEF ReceiveFails, TypeOK
    <2> QED
      BY <1>2, <2>1 DEF ReceiveFails, LockHeld, SeqExact, CountsExact, PairExact,
                        LogBehind, ShownTogether, Outcomes
  <1>3. CASE CountReceived
    <2>1. diag' = [diag EXCEPT !.received = diag.received + 1]
      BY <1>3 DEF CountReceived
    <2>2. /\ diag.received + 1 = handled["received"]
          /\ handled["received"] \in 0..MaxHandled
      <3>1. diag["received"] = handled["received"] - 1
        BY <1>3 DEF CountReceived, CountsExact, Outcomes
      <3>2. handled["received"] \in 0..MaxHandled
        BY DEF TypeOK, Outcomes
      <3> HIDE DEF ThreadsInvariant
      <3> QED
        BY <3>1, <3>2
    <2>3. /\ diag' \in Diagnostics
          /\ diag'.received = diag.received + 1
          /\ \A f \in DOMAIN diag \ {"received"} : diag'[f] = diag[f]
      BY <2>1, <2>2 DEF TypeOK, Diagnostics, Outcomes
    <2>4. DOMAIN diag = {"sent", "lastSent", "lastDecrypted", "received",
                         "rejectedAuth", "rejectedReplay"}
      BY DEF TypeOK, Diagnostics
    <2>5. TypeOK'
      BY <1>3, <2>3 DEF CountReceived, TypeOK
    <2>6. CountsExact'
      BY <1>3, <2>2, <2>3, <2>4 DEF CountReceived, CountsExact, Outcomes, TypeOK
    <2>7. PairExact'
      BY <1>3, <2>3, <2>4 DEF CountReceived, PairExact, LockHeld, TypeOK, Diagnostics
    <2>8. LogBehind'
      <3>1. /\ log' = log /\ diag'.sent >= diag.sent
            /\ \A o \in Outcomes : diag'[o] >= diag[o]
            /\ diag'["received"] > 0
        BY <1>3, <2>3, <2>4, CountsAreNumbers DEF CountReceived, Outcomes
      <3>2. NotAhead(log, diag)' /\ (diag.sent > 0 => diag'.sent > 0)
        BY <2>3, <3>1, LogKept DEF TypeOK
      <3>3. SomethingHandled(diag')
        BY <3>1 DEF SomethingHandled, Outcomes
      <3> QED
        BY <1>3, <3>2, <3>3 DEF CountReceived, LogBehind
    <2> QED
      BY <1>3, <2>5, <2>6, <2>7, <2>8 DEF CountReceived, LockHeld, SeqExact, ShownTogether
  <1>4. CASE KeepReceived
    <2>1. diag' = [diag EXCEPT !.lastDecrypted = handled["received"]]
      BY <1>4 DEF KeepReceived
    <2>2. diag.received = handled["received"]
      <3>1. diag["received"] = handled["received"] - 0
        BY <1>4 DEF KeepReceived, CountsExact, Outcomes
      <3>2. handled["received"] \in 0..MaxHandled
        BY DEF TypeOK, Outcomes
      <3> HIDE DEF ThreadsInvariant
      <3> QED
        BY <3>1, <3>2
    <2>3. /\ diag' \in Diagnostics
          /\ diag'.lastDecrypted = diag.received
          /\ diag'.sent = diag.sent /\ diag'.lastSent = diag.lastSent
          /\ \A o \in Outcomes : diag'[o] = diag[o]
      BY <2>1, <2>2 DEF TypeOK, Diagnostics, Outcomes
    <2>4. TypeOK'
      BY <1>4, <2>3 DEF KeepReceived, TypeOK
    <2>5. CountsExact'
      BY <1>4, <2>3 DEF KeepReceived, CountsExact, Outcomes
    <2>6. PairExact'
      <3>1. diag'.received = diag'.lastDecrypted
        BY <2>3 DEF Outcomes
      <3> QED
        BY <1>4, <2>3, <3>1, CountsAreNumbers DEF KeepReceived, PairExact
    <2>7. LogBehind'
      <3>1. /\ log' = log /\ diag'.sent >= diag.sent
            /\ \A o \in Outcomes : diag'[o] >= diag[o]
        BY <1>4, <2>3, CountsAreNumbers DEF KeepReceived
      <3>2. /\ NotAhead(log, diag)'
            /\ diag.sent > 0 => diag'.sent > 0
            /\ SomethingHandled(diag) => SomethingHandled(diag')
        BY <2>3, <3>1, LogKept DEF TypeOK
      <3> QED
        BY <1>4, <3>2 DEF KeepReceived, LogBehind
    <2> QED
      BY <1>4, <2>4, <2>5, <2>6, <2>7 DEF KeepReceived, LockHeld, SeqExact, ShownTogether
  <1>5. ASSUME NEW outcome \in {"rejectedAuth", "rejectedReplay"},
               CountRejected(outcome)
        PROVE  ThreadsInvariant'
    <2>1. diag' = [diag EXCEPT ![outcome] = diag[outcome] + 1]
      BY <1>5 DEF CountRejected
    <2>2. diag[outcome] + 1 = handled[outcome] /\ handled[outcome] \in 0..MaxHandled
      <3>1. /\ outcome \in Outcomes /\ network = outcome
            /\ handled[outcome] \in 0..MaxHandled
        BY <1>5 DEF CountRejected, Outcomes, TypeOK
      <3>2. diag[outcome] = handled[outcome] - 1
        BY <3>1 DEF CountsExact
      <3> QED
        BY <3>1, <3>2
    <2>3. /\ diag' \in Diagnostics
          /\ diag'.sent = diag.sent /\ diag'.lastSent = diag.lastSent
          /\ diag'.lastDecrypted = diag.lastDecrypted
          /\ diag'.received = diag.received
          /\ \A o \in Outcomes :
                diag'[o] = IF o = outcome THEN diag[o] + 1 ELSE diag[o]
      BY <2>1, <2>2 DEF TypeOK, Diagnostics, Outcomes
    <2>4. TypeOK'
      BY <1>5, <2>3 DEF CountRejected, TypeOK
    <2>5. CountsExact'
      <3>1. ASSUME NEW o \in Outcomes PROVE diag'[o] = handled[o]
        BY <1>5, <2>2, <2>3 DEF CountRejected, CountsExact, TypeOK
      <3> QED
        BY <1>5, <2>3, <3>1 DEF CountRejected, CountsExact, Outcomes, TypeOK
    <2>6. LogBehind'
      <3>1. /\ log' = log /\ diag'.sent >= diag.sent
            /\ \A o \in Outcomes : diag'[o] >= diag[o]
            /\ outcome \in Outcomes /\ diag'[outcome] > 0
        BY <1>5, <2>3, CountsAreNumbers DEF CountRejected, Outcomes
      <3>2. NotAhead(log, diag)' /\ (diag.sent > 0 => diag'.sent > 0)
        BY <2>3, <3>1, LogKept DEF TypeOK
      <3>3. SomethingHandled(diag')
        BY <3>1 DEF SomethingHandled
      <3> QED
        BY <1>5, <3>2, <3>3 DEF CountRejected, LogBehind
    <2> QED
      BY <1>5, <2>3, <2>4, <2>5, <2>6 DEF CountRejected, LockHeld, SeqExact, PairExact,
                                          ShownTogether
  <1>6. CASE NoteReceived
    <2>0. "received" \in Lines
      BY DEF Lines
    <2>1. log' \in Seq(Lines) /\ Len(log') <= LogSize
      BY <1>6, <2>0, NotedTypes DEF NoteReceived, TypeOK
    <2>2. TypeOK'
      BY <1>6, <2>1 DEF NoteReceived, TypeOK
    <2>3. LogBehind'
      <3>1. NotAhead(log, diag)'
        BY <1>6, <2>0, LogGrows DEF NoteReceived, LogBehind
      <3> QED
        BY <1>6, <3>1 DEF NoteReceived, LogBehind
    <2> QED
      BY <1>6, <2>2, <2>3 DEF NoteReceived, LockHeld, SeqExact, CountsExact, PairExact,
                              ShownTogether, Outcomes
  <1> QED
    BY <1>1, <1>2, <1>3, <1>4, <1>5, <1>6 DEF Network

(* Each step of the display. *)
LEMMA DisplayStep == ThreadsInvariant /\ Display => ThreadsInvariant'
  <1> SUFFICES ASSUME ThreadsInvariant, Display PROVE ThreadsInvariant'
    OBVIOUS
  <1> USE DEF ThreadsInvariant, shared, sender
  <1>1. CASE ReadSeq
    <2>1. TypeOK' /\ ShownTogether'
      BY <1>1 DEF ReadSeq, TypeOK, ShownTogether
    <2> QED
      BY <1>1, <2>1 DEF ReadSeq, LockHeld, SeqExact, CountsExact, PairExact, LogBehind
  <1>2. CASE ReadEpoch
    <2>1. TypeOK' /\ ShownTogether'
      BY <1>2 DEF ReadEpoch, TypeOK, ShownTogether
    <2> QED
      BY <1>2, <2>1 DEF ReadEpoch, LockHeld, SeqExact, CountsExact, PairExact, LogBehind
  <1>3. CASE ReadDiagnostics
    <2>1. diag \in Diagnostics /\ TextOf(diag) \in Text
      BY DEF TypeOK, Diagnostics, Text, TextOf
    <2>2. shown'.text = TextOf(diag) /\ shown'.log = log /\ TypeOK'
      BY <1>3, <2>1 DEF ReadDiagnostics, TypeOK
    <2>3. diag.received = diag.lastDecrypted
      BY <1>3 DEF ReadDiagnostics, LockHeld, PairExact, TypeOK, Diagnostics
    <2>4. /\ TextOf(diag).sent = diag.sent
          /\ TextOf(diag).received = diag.received
          /\ TextOf(diag).lastDecrypted = diag.lastDecrypted
          /\ \A o \in Outcomes : TextOf(diag)[o] = diag[o]
      BY DEF TextOf, Outcomes
    <2>5. NotAhead(log, TextOf(diag))
      <3>1. SomethingHandled(diag) => SomethingHandled(TextOf(diag))
        BY <2>4 DEF SomethingHandled
      <3> QED
        BY <2>4, <3>1 DEF LogBehind, NotAhead
    <2>6. ShownTogether'
      BY <2>2, <2>3, <2>4, <2>5 DEF ShownTogether
    <2> QED
      BY <1>3, <2>2, <2>6 DEF ReadDiagnostics, LockHeld, SeqExact, CountsExact,
                              PairExact, LogBehind
  <1> QED
    BY <1>1, <1>2, <1>3 DEF Display

(* Every step of the three threads keeps the invariant. *)
LEMMA ThreadsStep == ThreadsInvariant /\ [Next]_vars => ThreadsInvariant'
  <1> SUFFICES ASSUME ThreadsInvariant, UNCHANGED vars PROVE ThreadsInvariant'
    BY ConsoleStep, NetworkStep, DisplayStep DEF Next
  <1> QED
    BY DEF ThreadsInvariant, LockHeld, SeqExact, CountsExact, PairExact, LogBehind,
           ShownTogether, TypeOK, vars, threads, shared, sender

(* The variables of the threads keep their types. *)
THEOREM ThreadsTypeCorrect == Spec => []TypeOK
  <1>1. ThreadsInvariant => TypeOK
    BY DEF ThreadsInvariant
  <1> QED
    BY <1>1, ThreadsInit, ThreadsStep, PTL DEF Spec

(* Counters agree with what sendto and decrypt did. *)
THEOREM CountsAreExact == Spec => []CountsExact
  <1>1. ThreadsInvariant => CountsExact
    BY DEF ThreadsInvariant
  <1> QED
    BY <1>1, ThreadsInit, ThreadsStep, PTL DEF Spec

(* What a frame shows of the diagnostics belongs together. *)
THEOREM ShownBelongsTogether == Spec => []ShownTogether
  <1>1. ThreadsInvariant => ShownTogether
    BY DEF ThreadsInvariant
  <1> QED
    BY <1>1, ThreadsInit, ThreadsStep, PTL DEF Spec

-----------------------------------------------------------------------------
(* The threads with the picture.                                           *)

USE DisplayAssumption

(* The lattice is in the sender's epoch, or in the one encrypt is about to *)
(* enter.                                                                  *)
LatticeEpoch ==
    /\ console = "encrypting" => epoch = seq \div EpochSize
    /\ \/ lattice.epoch = epoch
       \/ console = "reading" /\ seq < MaxSent /\ lattice.epoch = seq \div EpochSize

PictureOfLast ==
    lastGrid # None => picture = Filled(GridOf(lastGrid))

DisplayInvariant ==
    /\ ThreadsInvariant
    /\ DisplayTypeOK
    /\ LatticeEpoch
    /\ PictureOfLast
    /\ PictureOfFrame

(* Division by a positive number is monotonic. *)
LEMMA DivMonotonic ==
    ASSUME NEW a \in Nat, NEW b \in Nat, a <= b, NEW c \in Nat \ {0}
    PROVE  a \div c \in Nat /\ b \div c \in Nat /\ a \div c <= b \div c
  <1> DEFINE q == a \div c
             m == b \div c
  <1>1. /\ q \in Int /\ m \in Int
        /\ q * c <= a /\ a < (q + 1) * c
        /\ m * c <= b /\ b < (m + 1) * c
    OBVIOUS
  <1> HIDE DEF q, m
  <1>2. q >= 0
    <2>1. CASE q + 1 <= 0
      <3>1. (q + 1) * c <= 0
        BY <1>1, <2>1
      <3> QED
        BY <1>1, <3>1
    <2> QED
      BY <1>1, <2>1
  <1>3. q <= m
    <2>1. CASE m + 1 <= q
      <3>1. (m + 1) * c <= q * c
        BY <1>1, <2>1
      <3> QED
        BY <1>1, <3>1
    <2> QED
      BY <1>1, <2>1
  <1> QED
    BY <1>1, <1>2, <1>3 DEF q, m

(* No epoch assigns the grid more often than Moments allows. *)
LEMMA AssignmentsBounded ==
    ASSUME NEW e \in 0..LastEpoch, NEW packets \in 0..EpochSize
    PROVE  /\ Assignments(e, packets) \in Nat
           /\ Assignments(e, packets) <= Assignments(e, EpochSize)
  <1>1. FirstAssignments(e) \in Nat
    BY DEF FirstAssignments
  <1>2. /\ packets \div EvolveEvery \in Nat
        /\ EpochSize \div EvolveEvery \in Nat
        /\ packets \div EvolveEvery <= EpochSize \div EvolveEvery
    BY DivMonotonic
  <1> QED
    BY <1>1, <1>2 DEF Assignments

(* What a moment is made of. *)
LEMMA MomentType ==
    /\ \A m \in Moments : /\ m \in [epoch : 0..LastEpoch, assigned : Nat]
                          /\ m.assigned <= Assignments(m.epoch, EpochSize)
    /\ \A e \in 0..LastEpoch, k \in Nat :
          k <= Assignments(e, EpochSize) => [epoch |-> e, assigned |-> k] \in Moments
  <1>1. \A e \in 0..LastEpoch : Assignments(e, EpochSize) \in Nat
    BY AssignmentsBounded
  <1>2. ASSUME NEW m \in Moments
        PROVE  /\ m \in [epoch : 0..LastEpoch, assigned : Nat]
               /\ m.assigned <= Assignments(m.epoch, EpochSize)
    <2>1. PICK e \in 0..LastEpoch :
                m \in {[epoch |-> e, assigned |-> k] : k \in 0..Assignments(e, EpochSize)}
      BY DEF Moments
    <2>2. PICK k \in 0..Assignments(e, EpochSize) : m = [epoch |-> e, assigned |-> k]
      BY <2>1
    <2> QED
      BY <1>1, <2>2
  <1>3. ASSUME NEW e \in 0..LastEpoch, NEW k \in Nat, k <= Assignments(e, EpochSize)
        PROVE  [epoch |-> e, assigned |-> k] \in Moments
    <2>1. k \in 0..Assignments(e, EpochSize)
      BY <1>1, <1>3
    <2> QED
      BY <2>1 DEF Moments
  <1> QED
    BY <1>2, <1>3

(* One more assignment, where fewer than a count of the epoch were made,   *)
(* leads to a moment again.                                                *)
LEMMA NextMoment ==
    ASSUME NEW m \in Moments, NEW packets \in 0..EpochSize,
           m.assigned < Assignments(m.epoch, packets)
    PROVE  [m EXCEPT !.assigned = @ + 1] \in Moments
  <1>1. m \in [epoch : 0..LastEpoch, assigned : Nat]
    BY MomentType
  <1>2. m.assigned + 1 <= Assignments(m.epoch, EpochSize)
    BY <1>1, AssignmentsBounded
  <1>3. [m EXCEPT !.assigned = @ + 1] = [epoch |-> m.epoch, assigned |-> m.assigned + 1]
    BY <1>1
  <1> QED
    BY <1>1, <1>2, <1>3, MomentType

(* Before the first frame nothing is drawn. *)
LEMMA DisplayInit == InitDisplay => DisplayInvariant
  <1> SUFFICES ASSUME InitDisplay PROVE DisplayInvariant
    OBVIOUS
  <1>1. ThreadsInvariant
    BY ThreadsInit DEF InitDisplay
  <1>2. 0 \in 0..LastEpoch /\ 0 \in 0..EpochSize
    BY EpochTypes DEF LastEpoch
  <1>3. lattice \in Moments
    BY <1>2, AssignmentsBounded, MomentType DEF InitDisplay
  <1>4. DisplayTypeOK
    BY <1>3 DEF InitDisplay, DisplayTypeOK
  <1>5. LatticeEpoch /\ PictureOfLast /\ PictureOfFrame
    BY DEF InitDisplay, Init, LatticeEpoch, PictureOfLast, PictureOfFrame
  <1> QED
    BY <1>1, <1>4, <1>5 DEF DisplayInvariant

(* Every step of the display's system is a step of the threads, or none.   *)
LEMMA StepIsThreads == [NextDisplay]_allVars => [Next]_vars
  BY DEF NextDisplay, allVars, ResetLattice, BurnInLattice, EnterEpoch, StepLattice,
         FinishEncrypt, AfterEncrypt, TakeGrid, ReadText, Render, Next, Console

(* The steps of encrypt that the display can tell apart. *)
LEMMA EncryptSteps ==
    ASSUME DisplayInvariant, ThreadsInvariant',
           ResetLattice \/ BurnInLattice \/ EnterEpoch \/ StepLattice \/ FinishEncrypt
    PROVE  DisplayInvariant'
  <1>1. /\ TypeOK /\ SeqExact /\ DisplayTypeOK /\ LatticeEpoch
        /\ PictureOfLast /\ PictureOfFrame
    BY DEF DisplayInvariant, ThreadsInvariant
  <1>2. /\ seq \in 0..MaxSent
        /\ seq \div EpochSize \in 0..LastEpoch
        /\ 0 \in 0..EpochSize
        /\ lattice \in [epoch : 0..LastEpoch, assigned : Nat]
    <2>1. seq \in 0..MaxSent
      BY <1>1 DEF TypeOK
    <2>2. seq \div EpochSize \in 0..LastEpoch
      BY <2>1, EpochTypes DEF LastEpoch
    <2>3. lattice \in [epoch : 0..LastEpoch, assigned : Nat]
      BY <1>1, MomentType DEF DisplayTypeOK
    <2> QED
      BY <2>1, <2>2, <2>3
  <1>3. UNCHANGED displayVars
    BY DEF ResetLattice, BurnInLattice, EnterEpoch, StepLattice, FinishEncrypt
  <1>4. PictureOfLast' /\ PictureOfFrame'
    BY <1>1, <1>3 DEF PictureOfLast, PictureOfFrame, displayVars
  <1>5. lattice' \in Moments /\ LatticeEpoch'
    <2>1. CASE ResetLattice
      <3>1. Assignments(seq \div EpochSize, EpochSize) >= 0
        BY <1>2, AssignmentsBounded
      <3>2. [epoch |-> seq \div EpochSize, assigned |-> 0] \in Moments
        BY <1>2, <3>1, MomentType
      <3> QED
        BY <2>1, <3>2, <1>1, <1>2
           DEF ResetLattice, LatticeEpoch, vars, threads, shared, sender
    <2>2. CASE BurnInLattice
      <3>1. lattice' \in Moments
        BY <1>1, <1>2, <2>2, NextMoment DEF BurnInLattice, DisplayTypeOK
      <3> QED
        BY <1>1, <1>2, <2>2, <3>1
           DEF BurnInLattice, LatticeEpoch, vars, threads, shared, sender
    <2>3. CASE EnterEpoch
      BY <1>1, <1>2, <2>3 DEF EnterEpoch, Encrypt, LatticeEpoch, DisplayTypeOK
    <2>4. CASE StepLattice
      <3>1. /\ console = "encrypting" /\ seq < MaxSent
            /\ lattice.epoch = epoch
        BY <1>1, <2>4 DEF StepLattice, LatticeEpoch, SeqExact
      <3>2. (seq % EpochSize) + 1 \in 0..EpochSize
        BY <1>2
      <3>3. lattice' \in Moments
        BY <1>1, <1>2, <2>4, <3>1, <3>2, NextMoment DEF StepLattice, Due, DisplayTypeOK
      <3> QED
        BY <1>1, <1>2, <2>4, <3>1, <3>3
           DEF StepLattice, LatticeEpoch, vars, threads, shared, sender
    <2>5. CASE FinishEncrypt
      BY <1>1, <1>2, <2>5 DEF FinishEncrypt, AdvanceSeq, LatticeEpoch, DisplayTypeOK
    <2> QED
      BY <2>1, <2>2, <2>3, <2>4, <2>5
  <1>6. DisplayTypeOK'
    BY <1>1, <1>3, <1>5 DEF DisplayTypeOK, displayVars
  <1> QED
    BY <1>4, <1>5, <1>6 DEF DisplayInvariant

(* The steps of a frame: the picture keeps up with the grid that is kept. *)
LEMMA FrameSteps ==
    ASSUME DisplayInvariant, ThreadsInvariant', TakeGrid \/ ReadText \/ Render
    PROVE  DisplayInvariant'
  <1>1. /\ DisplayTypeOK /\ LatticeEpoch /\ PictureOfLast /\ PictureOfFrame
    BY DEF DisplayInvariant
  <1>2. CASE TakeGrid
    <2>1. DisplayTypeOK' /\ LatticeEpoch'
      BY <1>1, <1>2 DEF TakeGrid, DisplayTypeOK, LatticeEpoch, vars, threads, sender
    <2>2. PictureOfLast' /\ PictureOfFrame'
      BY <1>1, <1>2 DEF TakeGrid, PictureOfLast, PictureOfFrame
    <2> QED
      BY <2>1, <2>2 DEF DisplayInvariant
  <1>3. CASE ReadText
    <2>1. UNCHANGED <<console, sender>> /\ frame' \in {"text", "render"}
      BY <1>3 DEF ReadText, Display, ReadSeq, ReadEpoch, ReadDiagnostics
    <2>2. DisplayTypeOK' /\ LatticeEpoch'
      BY <1>1, <1>3, <2>1 DEF ReadText, DisplayTypeOK, LatticeEpoch, sender
    <2>3. PictureOfLast' /\ PictureOfFrame'
      BY <1>1, <1>3, <2>1 DEF ReadText, PictureOfLast, PictureOfFrame
    <2> QED
      BY <2>2, <2>3 DEF DisplayInvariant
  <1>4. CASE Render
    <2>1. LatticeEpoch'
      BY <1>1, <1>4 DEF Render, LatticeEpoch, vars, threads, sender
    <2>2. CASE DataChanged
      BY <1>1, <1>4, <2>1, <2>2
         DEF Render, DisplayTypeOK, PictureOfLast, PictureOfFrame, DisplayInvariant
    <2>3. CASE ~DataChanged
      <3>1. picture = Filled(GridOf(taken))
        BY <1>1, <2>3 DEF DataChanged, PictureOfLast
      <3> QED
        BY <1>1, <1>4, <2>1, <2>3, <3>1
           DEF Render, DisplayTypeOK, PictureOfLast, PictureOfFrame, DisplayInvariant
    <2> QED
      BY <2>2, <2>3
  <1> QED
    BY <1>2, <1>3, <1>4

(* The other steps of the threads leave lattice, epoch and picture alone.  *)
LEMMA OtherSteps ==
    ASSUME DisplayInvariant, ThreadsInvariant',
           AfterEncrypt \/ Network, UNCHANGED <<lattice, displayVars>>
    PROVE  DisplayInvariant'
  <1>1. /\ DisplayTypeOK /\ LatticeEpoch /\ PictureOfLast /\ PictureOfFrame
    BY DEF DisplayInvariant
  <1>2. /\ UNCHANGED <<seq, epoch>>
        /\ console' = "encrypting" => console = "encrypting"
        /\ console = "reading" => console' = "reading"
    <2>1. CASE AfterEncrypt
      BY <2>1 DEF AfterEncrypt, SendTo, SendFails, CountSent, KeepSent, NoteSent, sender
    <2>2. CASE Network
      BY <2>2 DEF Network, Receive, ReceiveFails, CountReceived, KeepReceived,
                  CountRejected, NoteReceived, sender
    <2> QED
      BY <2>1, <2>2
  <1> QED
    BY <1>1, <1>2 DEF DisplayTypeOK, LatticeEpoch, PictureOfLast, PictureOfFrame,
                      displayVars, DisplayInvariant

(* Every step keeps the invariant. *)
LEMMA DisplayStepKept == DisplayInvariant /\ [NextDisplay]_allVars => DisplayInvariant'
  <1> SUFFICES ASSUME DisplayInvariant, [NextDisplay]_allVars PROVE DisplayInvariant'
    OBVIOUS
  <1>1. ThreadsInvariant'
    BY StepIsThreads, ThreadsStep DEF DisplayInvariant
  <1>2. CASE NextDisplay
    BY <1>1, <1>2, EncryptSteps, FrameSteps, OtherSteps DEF NextDisplay
  <1>3. CASE UNCHANGED allVars
    BY <1>1, <1>3 DEF DisplayInvariant, DisplayTypeOK, LatticeEpoch, PictureOfLast,
                      PictureOfFrame, allVars, displayVars, vars, threads, sender
  <1> QED
    BY <1>2, <1>3

(* The lattice passes through moments of its epochs only. *)
THEOREM DisplayTypeCorrect == DisplaySpec => []DisplayTypeOK
  <1>1. DisplayInvariant => DisplayTypeOK
    BY DEF DisplayInvariant
  <1> QED
    BY <1>1, DisplayInit, DisplayStepKept, PTL DEF DisplaySpec

(* The picture is that of the grid the frame took, rebuilt or kept. *)
THEOREM PictureIsOfFrame == DisplaySpec => []PictureOfFrame
  <1>1. DisplayInvariant => PictureOfFrame
    BY DEF DisplayInvariant
  <1> QED
    BY <1>1, DisplayInit, DisplayStepKept, PTL DEF DisplaySpec

(* The system with the picture implements the threads without it, so that  *)
(* the counters are exact there too, and what is shown belongs together.   *)
THEOREM DisplayImplementsThreads == DisplaySpec => Spec /\ []CountsExact /\ []ShownTogether
  <1>1. InitDisplay => Init
    BY DEF InitDisplay
  <1>2. DisplaySpec => Spec
    BY <1>1, StepIsThreads, PTL DEF DisplaySpec, Spec
  <1> QED
    BY <1>2, CountsAreExact, ShownBelongsTogether, PTL
=============================================================================
