-------------------------- MODULE ResendQueueProof --------------------------
(***************************************************************************)
(* Proofs about ResendQueue: the type invariant, the inductive invariant   *)
(* behind its safety properties, and the refinement of PacketLedger.       *)
(***************************************************************************)
EXTENDS ResendQueue, MsgQueueProof

(* Steps that leave queue and history alone keep the invariant as long as  *)
(* clock and timer stay in order.                                          *)
LEMMA QueueUntouched ==
  ASSUME QueueInv, UNCHANGED <<queue, Quit, fate, sends>>,
         now' \in Nat, now' >= STARTUP, next_resend' \in Nat,
         looping' \in BOOLEAN,
         queue # <<>> => next_resend' <= Head(queue).exp_time
  PROVE  QueueInv'
BY DEF QueueInv, TypeOK, TimerNeverLate, OneEntryPerPacket, QueueIsPending,
       AttemptsSpent, QueuedSeqs

(* HeadExpiry is a legal value of the timer and never late for the head.   *)
LEMMA HeadExpiryFacts ==
  ASSUME NEW q \in Seq(Entries)
  PROVE  /\ HeadExpiry(q) \in Nat
         /\ q # <<>> => HeadExpiry(q) <= Head(q).exp_time
<1>1. CASE q = <<>>
  BY <1>1, NeverAssumption DEF HeadExpiry
<1>2. CASE q # <<>>
  <2>1. Head(q) \in Entries
    BY <1>2, PopFacts
  <2>. QED BY <1>2, <2>1 DEF HeadExpiry, Entries
<1>. QED BY <1>1, <1>2

(* The invariant holds initially.                                          *)
LEMMA InitInv == Init => QueueInv
<1> SUFFICES ASSUME Init PROVE QueueInv
  OBVIOUS
<1>1. queue \in Seq(Entries) /\ DOMAIN queue = {} /\ Len(queue) = 0
  BY EmptySeq DEF Init
<1>2. TypeOK
  BY <1>1, ClockAssumption DEF Init, TypeOK, Fates
<1>3. QueuedSeqs(queue) = {}
  BY <1>1 DEF QueuedSeqs
<1>4. QueueIsPending /\ OneEntryPerPacket /\ TimerNeverLate
  BY <1>1, <1>3 DEF Init, QueueIsPending, OneEntryPerPacket, TimerNeverLate
<1>5. AttemptsSpent
  BY AttemptsAssumption DEF Init, AttemptsSpent
<1>. QED BY <1>1, <1>2, <1>4, <1>5, ClockAssumption DEF Init, QueueInv

(* SOCKWRITE keeps the invariant.                                          *)
LEMMA SockWriteInv ==
  ASSUME QueueInv, NEW s \in Seqs, NEW c \in Cmds, SOCKWRITE(s, c)
  PROVE  QueueInv'
<1> DEFINE m == NewEntry(s, c, now)
<1>1. queue \in Seq(Entries) /\ Distinct(queue) /\ now \in Nat
      /\ fate \in [Seqs -> Fates] /\ sends \in [Seqs -> Nat]
  BY DEF QueueInv, TypeOK, OneEntryPerPacket, Distinct
<1>2. m \in Entries /\ m.seq = s /\ m.attempts = 1 /\ m.exp_time >= STARTUP
  BY <1>1, TimeoutAssumption, ClockAssumption DEF NewEntry, Entries, QueueInv
<1>3. /\ queue' = Append(queue, m)
      /\ fate' = [fate EXCEPT ![s] = "pending"]
      /\ sends' = [sends EXCEPT ![s] = sends[s] + 1]
      /\ fate[s] = "unsent"
      /\ next_resend' = IF queue = <<>> THEN HeadExpiry(queue') ELSE next_resend
      /\ UNCHANGED <<now, looping, Quit>>
  BY DEF SOCKWRITE, msg_queue_push
<1>4. s \notin QueuedSeqs(queue) /\ sends[s] = 0
  BY <1>3 DEF QueueInv, QueueIsPending
<1> HIDE DEF m
<1>5. /\ Distinct(queue')
      /\ QueuedSeqs(queue') = QueuedSeqs(queue) \cup {s}
      /\ \A i \in DOMAIN queue' :
           queue'[i] = m \/ \E j \in DOMAIN queue : queue'[i] = queue[j]
  BY <1>1, <1>2, <1>3, <1>4, PushPackets
<1>6. /\ queue' \in Seq(Entries) /\ queue' # <<>>
      /\ Head(queue') = IF queue = <<>> THEN m ELSE Head(queue)
  BY <1>1, <1>2, <1>3, PushFacts
<1>7. next_resend' \in Nat /\ TimerNeverLate'
  <2>1. CASE queue = <<>>
    BY <2>1, <1>3, <1>6, HeadExpiryFacts DEF TimerNeverLate
  <2>2. CASE queue # <<>>
    BY <2>2, <1>3, <1>6 DEF QueueInv, TypeOK, TimerNeverLate
  <2>. QED BY <2>1, <2>2
<1>8. TypeOK'
  BY <1>1, <1>3, <1>6, <1>7 DEF QueueInv, TypeOK, Fates
<1>9. OneEntryPerPacket'
  BY <1>5 DEF Distinct, OneEntryPerPacket
<1>10. QueueIsPending'
  <2>1. \A t \in Seqs : fate'[t] = "pending" <=> t \in QueuedSeqs(queue')
    BY <1>1, <1>3, <1>5 DEF QueueInv, QueueIsPending
  <2>2. ASSUME NEW i \in DOMAIN queue'
        PROVE  queue'[i].attempts = sends'[queue'[i].seq]
    <3>1. CASE queue'[i] = m
      BY <3>1, <1>1, <1>2, <1>3, <1>4
    <3>2. CASE \E j \in DOMAIN queue : queue'[i] = queue[j]
      <4>1. PICK j \in DOMAIN queue : queue'[i] = queue[j]
        BY <3>2
      <4>2. queue[j].seq # s
        BY <1>4 DEF QueuedSeqs
      <4>3. queue[j] \in Entries
        BY <1>1, EntryAt
      <4>4. queue[j].seq \in Seqs
        BY <4>3 DEF Entries
      <4>. QED BY <1>1, <1>3, <4>1, <4>2, <4>4 DEF QueueInv, QueueIsPending
    <3>. QED BY <1>5, <3>1, <3>2
  <2>. QED BY <2>1, <2>2 DEF QueueIsPending
<1>11. AttemptsSpent'
  BY <1>1, <1>3, <1>4, AttemptsAssumption
  DEF QueueInv, AttemptsSpent
<1>12. /\ (now >= STARTUP)'
       /\ \A i \in DOMAIN queue' : queue'[i].exp_time >= STARTUP
       /\ \A t \in Seqs : fate'[t] = "unsent" => sends'[t] = 0
  BY <1>1, <1>2, <1>3, <1>5 DEF QueueInv
<1>. QED BY <1>7, <1>8, <1>9, <1>10, <1>11, <1>12 DEF QueueInv

(* A retransmission by Do_Resend keeps the invariant.                      *)
LEMMA RetryInv ==
  ASSUME QueueInv, Retry
  PROVE  QueueInv'
<1> DEFINE h == Head(queue)
           m == [h EXCEPT !.attempts = @ + 1, !.exp_time = now + RESEND_TIMEOUT]
<1>1. /\ queue \in Seq(Entries) /\ queue # <<>> /\ Distinct(queue)
      /\ now \in Nat /\ fate \in [Seqs -> Fates] /\ sends \in [Seqs -> Nat]
  BY DEF Retry, QueueInv, TypeOK, OneEntryPerPacket, Distinct
<1>2. h = queue[1] /\ 1 \in DOMAIN queue /\ h \in Entries
  BY <1>1, PopFacts
<1>3. /\ m \in Entries /\ m.seq = h.seq /\ m.attempts = h.attempts + 1
      /\ m.exp_time >= STARTUP /\ h.seq \in Seqs /\ h.attempts \in Nat
  <2> HIDE DEF h
  <2>1. h.attempts \in Nat /\ h.seq \in Seqs /\ now + RESEND_TIMEOUT \in Nat
    BY <1>1, <1>2, TimeoutAssumption DEF Entries
  <2>2. now + RESEND_TIMEOUT >= STARTUP
    BY <1>1, TimeoutAssumption, ClockAssumption DEF QueueInv
  <2>3. h.attempts + 1 \in Nat
    BY <2>1
  <2>4. m \in Entries
    BY <1>2, <2>1, <2>3 DEF Entries
  <2>5. /\ m.seq = h.seq /\ m.attempts = h.attempts + 1
        /\ m.exp_time = now + RESEND_TIMEOUT
    BY <1>2, <2>1 DEF Entries
  <2>. QED BY <2>1, <2>2, <2>4, <2>5
<1>4. /\ queue' = Append(Tail(queue), m)
      /\ next_resend' = HeadExpiry(queue')
      /\ sends' = [sends EXCEPT ![h.seq] = sends[h.seq] + 1]
      /\ h.attempts + 1 <= MAX_ATTEMPTS
      /\ UNCHANGED <<now, looping, Quit, fate>>
  BY DEF Retry, Requeue, AttemptsLeft
<1>5. h.attempts = sends[h.seq] /\ fate[h.seq] = "pending"
  BY <1>2, <1>3 DEF QueueInv, QueueIsPending, QueuedSeqs
<1> HIDE DEF h, m
<1>6. /\ Tail(queue) \in Seq(Entries) /\ Distinct(Tail(queue))
      /\ QueuedSeqs(Tail(queue)) = QueuedSeqs(queue) \ {h.seq}
      /\ \A i \in DOMAIN Tail(queue) : \E j \in DOMAIN queue : Tail(queue)[i] = queue[j]
  BY <1>1, PopPackets, PopFacts DEF h
<1>7. h.seq \in QueuedSeqs(queue)
  BY <1>2 DEF QueuedSeqs
<1>8. /\ Distinct(queue')
      /\ QueuedSeqs(queue') = QueuedSeqs(Tail(queue)) \cup {h.seq}
      /\ \A i \in DOMAIN queue' :
           queue'[i] = m \/ \E j \in DOMAIN Tail(queue) : queue'[i] = Tail(queue)[j]
  <2>1. m.seq \notin QueuedSeqs(Tail(queue))
    BY <1>3, <1>6
  <2> DEFINE t == Tail(queue)
  <2>2. t \in Seq(Entries) /\ Distinct(t) /\ m \in Entries /\ m.seq \notin QueuedSeqs(t)
    BY <1>3, <1>6, <2>1
  <2> HIDE DEF t
  <2>3. /\ Distinct(Append(t, m))
        /\ QueuedSeqs(Append(t, m)) = QueuedSeqs(t) \cup {m.seq}
        /\ \A i \in DOMAIN Append(t, m) :
             Append(t, m)[i] = m \/ \E j \in DOMAIN t : Append(t, m)[i] = t[j]
    BY <2>2, PushPackets
  <2>. QED BY <1>3, <1>4, <2>3 DEF t
<1>9. queue' \in Seq(Entries)
  BY <1>3, <1>4, <1>6, PushFacts
<1>10. next_resend' \in Nat /\ TimerNeverLate'
  BY <1>4, <1>9, HeadExpiryFacts DEF TimerNeverLate
<1>11. TypeOK'
  BY <1>1, <1>3, <1>4, <1>9, <1>10 DEF QueueInv, TypeOK
<1>12. OneEntryPerPacket'
  BY <1>8 DEF Distinct, OneEntryPerPacket
<1>13. QueueIsPending'
  <2>1. \A t \in Seqs : fate'[t] = "pending" <=> t \in QueuedSeqs(queue')
    BY <1>4, <1>6, <1>7, <1>8 DEF QueueInv, QueueIsPending
  <2>2. ASSUME NEW i \in DOMAIN queue'
        PROVE  queue'[i].attempts = sends'[queue'[i].seq]
    <3>1. CASE queue'[i] = m
      BY <3>1, <1>1, <1>3, <1>4, <1>5
    <3>2. CASE \E j \in DOMAIN Tail(queue) : queue'[i] = Tail(queue)[j]
      <4>1. PICK k \in DOMAIN Tail(queue) : queue'[i] = Tail(queue)[k]
        BY <3>2
      <4>2. Tail(queue)[k].seq # h.seq
        BY <1>6 DEF QueuedSeqs
      <4>3. PICK j \in DOMAIN queue : Tail(queue)[k] = queue[j]
        BY <1>6
      <4>4. queue[j] \in Entries
        BY <1>1, EntryAt
      <4>5. queue[j].seq \in Seqs
        BY <4>4 DEF Entries
      <4>. QED BY <1>1, <1>4, <4>1, <4>2, <4>3, <4>5 DEF QueueInv, QueueIsPending
    <3>. QED BY <1>8, <3>1, <3>2
  <2>. QED BY <2>1, <2>2 DEF QueueIsPending
<1>14. AttemptsSpent'
  <2>1. \A s \in Seqs : sends'[s] <= MAX_ATTEMPTS
    BY <1>1, <1>3, <1>4, <1>5 DEF QueueInv, AttemptsSpent
  <2>2. \A s \in Seqs : fate'[s] = "discarded" => sends'[s] = MAX_ATTEMPTS
    BY <1>1, <1>3, <1>4, <1>5 DEF QueueInv, AttemptsSpent
  <2>. QED BY <2>1, <2>2, <1>4 DEF QueueInv, AttemptsSpent
<1>15. /\ (now >= STARTUP)'
       /\ \A i \in DOMAIN queue' : queue'[i].exp_time >= STARTUP
       /\ \A t \in Seqs : fate'[t] = "unsent" => sends'[t] = 0
  <2>1. \A i \in DOMAIN queue' : queue'[i].exp_time >= STARTUP
    BY <1>3, <1>6, <1>8 DEF QueueInv
  <2>2. \A t \in Seqs : fate'[t] = "unsent" => sends'[t] = 0
    BY <1>1, <1>3, <1>4, <1>5 DEF QueueInv
  <2>. QED BY <2>1, <2>2, <1>4 DEF QueueInv
<1>. QED BY <1>10, <1>11, <1>12, <1>13, <1>14, <1>15 DEF QueueInv

(* Removing packet s from the queue and settling its fate keeps the        *)
(* invariant: what Discard and Ack have in common.                         *)
LEMMA SettleInv ==
  ASSUME QueueInv, NEW s \in Seqs, NEW f \in {"acked", "discarded"},
         s \in QueuedSeqs(queue),
         queue' \in Seq(Entries), Distinct(queue'),
         QueuedSeqs(queue') = QueuedSeqs(queue) \ {s},
         \A i \in DOMAIN queue' : \E j \in DOMAIN queue : queue'[i] = queue[j],
         next_resend' = HeadExpiry(queue'),
         fate' = [fate EXCEPT ![s] = f],
         f = "discarded" => sends[s] = MAX_ATTEMPTS,
         Quit' \in BOOLEAN, Quit' => (Quit \/ f = "discarded"),
         UNCHANGED <<now, looping, sends>>
  PROVE  QueueInv'
<1>1. fate \in [Seqs -> Fates] /\ sends \in [Seqs -> Nat] /\ fate[s] = "pending"
  BY DEF QueueInv, TypeOK, QueueIsPending
<1>2. next_resend' \in Nat /\ TimerNeverLate'
  BY HeadExpiryFacts DEF TimerNeverLate
<1>3. TypeOK'
  BY <1>1, <1>2 DEF QueueInv, TypeOK, Fates
<1>4. OneEntryPerPacket'
  BY DEF Distinct, OneEntryPerPacket
<1>5. QueueIsPending'
  <2>1. \A t \in Seqs : fate'[t] = "pending" <=> t \in QueuedSeqs(queue')
    BY <1>1 DEF QueueInv, QueueIsPending
  <2>2. \A i \in DOMAIN queue' : queue'[i].attempts = sends'[queue'[i].seq]
    BY DEF QueueInv, QueueIsPending
  <2>. QED BY <2>1, <2>2 DEF QueueIsPending
<1>6. AttemptsSpent'
  BY <1>1 DEF QueueInv, AttemptsSpent
<1>7. /\ (now >= STARTUP)'
      /\ \A i \in DOMAIN queue' : queue'[i].exp_time >= STARTUP
      /\ \A t \in Seqs : fate'[t] = "unsent" => sends'[t] = 0
  BY <1>1 DEF QueueInv
<1>. QED BY <1>2, <1>3, <1>4, <1>5, <1>6, <1>7 DEF QueueInv

(* Giving a packet up keeps the invariant.                                 *)
LEMMA DiscardInv ==
  ASSUME QueueInv, Discard
  PROVE  QueueInv'
<1> DEFINE h == Head(queue)
<1>1. /\ queue \in Seq(Entries) /\ queue # <<>> /\ Distinct(queue)
      /\ sends \in [Seqs -> Nat] /\ Quit \in BOOLEAN
  BY DEF Discard, QueueInv, TypeOK, OneEntryPerPacket, Distinct
<1>2. h = queue[1] /\ 1 \in DOMAIN queue /\ h \in Entries /\ h.seq \in Seqs
  BY <1>1, PopFacts DEF Entries
<1>3. h.seq \in QueuedSeqs(queue)
  BY <1>2 DEF QueuedSeqs
<1>4. sends[h.seq] = MAX_ATTEMPTS
  <2>1. h.attempts + 1 > MAX_ATTEMPTS /\ h.attempts = sends[h.seq]
    <3>1. h.attempts \in Nat
      BY <1>2 DEF Entries
    <3>2. ~(h.attempts + 1 <= MAX_ATTEMPTS)
      BY DEF Discard, AttemptsLeft
    <3>3. h.attempts = sends[h.seq]
      BY <1>2 DEF QueueInv, QueueIsPending
    <3>. HIDE DEF h
    <3>. QED BY <3>1, <3>2, <3>3, AttemptsAssumption
  <2>2. sends[h.seq] <= MAX_ATTEMPTS /\ sends[h.seq] \in Nat
    BY <1>1, <1>2 DEF QueueInv, AttemptsSpent
  <2>. QED BY <2>1, <2>2, AttemptsAssumption
<1>5. /\ queue' \in Seq(Entries) /\ Distinct(queue')
      /\ QueuedSeqs(queue') = QueuedSeqs(queue) \ {h.seq}
      /\ \A i \in DOMAIN queue' : \E j \in DOMAIN queue : queue'[i] = queue[j]
  BY <1>1, PopFacts, PopPackets DEF Discard
<1>6. /\ next_resend' = HeadExpiry(queue')
      /\ fate' = [fate EXCEPT ![h.seq] = "discarded"]
      /\ UNCHANGED <<now, looping, sends>>
  BY DEF Discard
<1>7. Quit' \in BOOLEAN
  BY <1>1 DEF Discard
<1>. QED BY <1>2, <1>3, <1>4, <1>5, <1>6, <1>7, SettleInv

(* An acknowledgement keeps the invariant.                                 *)
LEMMA AckInv ==
  ASSUME QueueInv, NEW s \in Seqs, Ack(s)
  PROVE  QueueInv'
<1>1. queue \in Seq(Entries) /\ Distinct(queue) /\ Quit \in BOOLEAN
      /\ s \in QueuedSeqs(queue)
  BY DEF Ack, QueueInv, TypeOK, OneEntryPerPacket, Distinct
<1>2. PICK k \in DOMAIN queue :
        queue[k].seq = s /\ Check_Queue(queue, s) = TakeOut(queue, k)
  BY <1>1, CheckQueueRemoves
<1>3. queue' = TakeOut(queue, k)
  BY <1>2 DEF Ack
<1>4. /\ queue' \in Seq(Entries) /\ Distinct(queue')
      /\ QueuedSeqs(queue') = QueuedSeqs(queue) \ {s}
      /\ \A i \in DOMAIN queue' : \E j \in DOMAIN queue : queue'[i] = queue[j]
  BY <1>1, <1>2, <1>3, RemoveFacts, RemovePackets
<1>5. /\ next_resend' = HeadExpiry(queue')
      /\ fate' = [fate EXCEPT ![s] = "acked"]
      /\ UNCHANGED <<now, looping, sends, Quit>>
  BY DEF Ack
<1>. QED BY <1>1, <1>4, <1>5, SettleInv

(* Every step keeps the invariant.                                         *)
LEMMA StepInv == QueueInv /\ [Next]_vars => QueueInv'
<1> SUFFICES ASSUME QueueInv, [Next]_vars PROVE QueueInv'
  OBVIOUS
<1>0. /\ now \in Nat /\ next_resend \in Nat /\ looping \in BOOLEAN
      /\ now >= STARTUP /\ TimerNeverLate /\ queue \in Seq(Entries)
  BY DEF QueueInv, TypeOK
<1>1. ASSUME NEW s \in Seqs, NEW c \in Cmds, SOCKWRITE(s, c) PROVE QueueInv'
  BY <1>1, SockWriteInv
<1>2. CASE EnterLoop
  <2>1. queue # <<>> => STARTUP <= Head(queue).exp_time
    BY <1>0, PopFacts DEF QueueInv, Entries
  <2>. QED BY <1>0, <1>2, <2>1, ClockAssumption, QueueUntouched DEF EnterLoop
<1>3. CASE Retry
  BY <1>3, RetryInv
<1>4. CASE Discard
  BY <1>4, DiscardInv
<1>5. CASE ResendNothing
  BY <1>0, <1>5, NeverAssumption, QueueUntouched DEF ResendNothing
<1>6. ASSUME NEW s \in Seqs, Ack(s) PROVE QueueInv'
  BY <1>6, AckInv
<1>7. CASE Tick
  <2>1. now' \in Nat /\ now' >= STARTUP
    BY <1>0, <1>7, ClockAssumption DEF Tick
  <2>. QED BY <1>0, <1>7, <2>1, QueueUntouched DEF Tick, TimerNeverLate
<1>8. CASE UNCHANGED vars
  BY <1>0, <1>8, QueueUntouched DEF vars, TimerNeverLate
<1>. QED BY <1>1, <1>2, <1>3, <1>4, <1>5, <1>6, <1>7, <1>8 DEF Next, Do_Resend

(* The inductive invariant holds in every reachable state.                 *)
THEOREM Invariance == Spec => []QueueInv
BY InitInv, StepInv, PTL DEF Spec

(* Type correctness.                                                       *)
THEOREM TypeCorrect == Spec => []TypeOK
<1>1. QueueInv => TypeOK
  BY DEF QueueInv
<1>. QED BY Invariance, <1>1, PTL

(* next_resend is never later than the expiry of the queue's head: what    *)
(* SOCKWRITE, Do_Resend, Check_Queue and main each do to the timer fits    *)
(* together, for any traffic and any order of acknowledgements.            *)
THEOREM TimerSafe == Spec => []TimerNeverLate
<1>1. QueueInv => TimerNeverLate
  BY DEF QueueInv
<1>. QED BY Invariance, <1>1, PTL

(* The queue holds each pending packet once, with its true count of        *)
(* transmissions, and nothing else.                                        *)
THEOREM QueueExact == Spec => [](OneEntryPerPacket /\ QueueIsPending)
<1>1. QueueInv => OneEntryPerPacket /\ QueueIsPending
  BY DEF QueueInv
<1>. QED BY Invariance, <1>1, PTL

(* No packet is sent more than MAX_ATTEMPTS times or given up earlier.     *)
THEOREM AttemptsExact == Spec => []AttemptsSpent
<1>1. QueueInv => AttemptsSpent
  BY DEF QueueInv
<1>. QED BY Invariance, <1>1, PTL
-----------------------------------------------------------------------------
(* A step that moves packet s only, and moves it as the ledger allows, is  *)
(* a step of the ledger.                                                   *)
LEMMA OneMove ==
  ASSUME NEW s \in Seqs,
         \A p \in Seqs \ {s} : Ledger!Rest(p),
         \/ Ledger!Submit(s) \/ Ledger!Retransmit(s)
         \/ Ledger!Confirm(s) \/ Ledger!GiveUp(s)
  PROVE  Ledger!Next
BY DEF Ledger!Next

(* Every step of the queue is a step of the ledger or leaves it unchanged. *)
LEMMA LedgerStep == QueueInv /\ [Next]_vars => [Ledger!Next]_(Ledger!vars)
<1> SUFFICES ASSUME QueueInv, [Next]_vars PROVE [Ledger!Next]_(Ledger!vars)
  OBVIOUS
<1>0. /\ fate \in [Seqs -> Fates] /\ sends \in [Seqs -> Nat]
      /\ queue \in Seq(Entries) /\ Distinct(queue)
  BY DEF QueueInv, TypeOK, OneEntryPerPacket, Distinct
<1>1. ASSUME NEW s \in Seqs, NEW c \in Cmds, SOCKWRITE(s, c)
      PROVE  Ledger!Next
  <2>1. /\ fate[s] = "unsent" /\ sends[s] = 0
        /\ fate' = [fate EXCEPT ![s] = "pending"]
        /\ sends' = [sends EXCEPT ![s] = sends[s] + 1]
    BY <1>1 DEF SOCKWRITE, QueueInv
  <2>2. Ledger!Submit(s)
    BY <1>0, <2>1 DEF Ledger!Submit
  <2>3. \A p \in Seqs \ {s} : Ledger!Rest(p)
    BY <1>0, <2>1 DEF Ledger!Rest
  <2>. QED BY <2>2, <2>3, OneMove
<1>2. ASSUME Retry \/ Discard
      PROVE  /\ Head(queue).seq \in Seqs
             /\ fate[Head(queue).seq] = "pending"
             /\ Head(queue).attempts = sends[Head(queue).seq]
             /\ Head(queue).attempts \in Nat
  <2>1. queue # <<>>
    BY <1>2 DEF Retry, Discard
  <2>2. Head(queue) = queue[1] /\ 1 \in DOMAIN queue /\ Head(queue) \in Entries
    BY <1>0, <2>1, PopFacts
  <2>. QED BY <2>2 DEF QueueInv, QueueIsPending, QueuedSeqs, Entries
<1>3. CASE Retry
  <2> DEFINE s == Head(queue).seq
  <2>1. /\ s \in Seqs /\ fate[s] = "pending" /\ sends[s] < MAX_ATTEMPTS
        /\ UNCHANGED fate /\ sends' = [sends EXCEPT ![s] = sends[s] + 1]
    BY <1>0, <1>2, <1>3, AttemptsAssumption DEF Retry, AttemptsLeft
  <2> HIDE DEF s
  <2>2. Ledger!Retransmit(s)
    BY <1>0, <2>1 DEF Ledger!Retransmit
  <2>3. \A p \in Seqs \ {s} : Ledger!Rest(p)
    BY <1>0, <2>1 DEF Ledger!Rest
  <2>. QED BY <2>1, <2>2, <2>3, OneMove
<1>4. CASE Discard
  <2> DEFINE s == Head(queue).seq
  <2>1. s \in Seqs /\ fate[s] = "pending" /\ sends[s] = Head(queue).attempts
    BY <1>2, <1>4
  <2>2. sends[s] = MAX_ATTEMPTS
    <3>1. sends[s] <= MAX_ATTEMPTS /\ sends[s] \in Nat
      BY <1>0, <2>1 DEF QueueInv, AttemptsSpent
    <3>2. ~(sends[s] + 1 <= MAX_ATTEMPTS)
      BY <1>4, <2>1 DEF Discard, AttemptsLeft
    <3>. QED BY <3>1, <3>2, AttemptsAssumption
  <2>3. UNCHANGED sends /\ fate' = [fate EXCEPT ![s] = "discarded"]
    BY <1>4 DEF Discard
  <2> HIDE DEF s
  <2>4. Ledger!GiveUp(s)
    BY <1>0, <2>1, <2>2, <2>3 DEF Ledger!GiveUp
  <2>5. \A p \in Seqs \ {s} : Ledger!Rest(p)
    BY <1>0, <2>3 DEF Ledger!Rest
  <2>. QED BY <2>1, <2>4, <2>5, OneMove
<1>5. ASSUME NEW s \in Seqs, Ack(s) PROVE Ledger!Next
  <2>1. /\ fate[s] = "pending" /\ UNCHANGED sends
        /\ fate' = [fate EXCEPT ![s] = "acked"]
    BY <1>5 DEF Ack, QueueInv, QueueIsPending
  <2>2. Ledger!Confirm(s)
    BY <1>0, <2>1 DEF Ledger!Confirm
  <2>3. \A p \in Seqs \ {s} : Ledger!Rest(p)
    BY <1>0, <2>1 DEF Ledger!Rest
  <2>. QED BY <2>2, <2>3, OneMove
<1>6. CASE EnterLoop \/ ResendNothing \/ Tick \/ UNCHANGED vars
  BY <1>6 DEF EnterLoop, ResendNothing, Tick, vars, Ledger!vars
<1>. QED BY <1>1, <1>3, <1>4, <1>5, <1>6 DEF Next, Do_Resend

(* The queue, its timer and the acknowledgements implement the ledger: a   *)
(* packet is transmitted again only while pending and with attempts left,  *)
(* and leaves the queue only by an acknowledgement of its own or after the *)
(* last attempt.                                                           *)
THEOREM LedgerImplemented == Spec => ImplementsLedger
<1>1. Init => Ledger!Init
  BY DEF Init, Ledger!Init
<1>. QED BY <1>1, LedgerStep, Invariance, PTL DEF Spec, ImplementsLedger, Ledger!Spec
=============================================================================
