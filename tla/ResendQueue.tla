---------------------------- MODULE ResendQueue ----------------------------
(***************************************************************************)
(* The reliable half of the UDP link: SOCKWRITE queues what it transmits,  *)
(* the main loop calls Do_Resend whenever next_resend has passed, and an   *)
(* acknowledgement from the server ends in Check_Queue.  The callers are   *)
(* left open: any packet may be written at any time, and any               *)
(* acknowledgement may arrive, late, twice or for a packet never sent.     *)
(* IcqClient closes the system with the main loop and the network.         *)
(***************************************************************************)
EXTENDS MsgQueue

CONSTANTS
  Seqs,       \* SEQ doublewords; the callers give each packet its own
  Cmds,       \* commands a packet may carry, CMD_ACK excepted
  FatalCmds,  \* CMD_LOGIN and CMD_KEEP_ALIVE: discarding one ends the session
  StartTime,  \* time(NULL) when the program starts
  STARTUP,    \* what main writes into next_resend before its loop (10)
  LATENCY,    \* seconds one turn of the main loop may take
  LastWrite,  \* bound: the callers write no packet after this time
  MaxTime     \* bound on the clock

ASSUME FatalAssumption == FatalCmds \subseteq Cmds
ASSUME ClockAssumption ==
  /\ StartTime \in Nat /\ MaxTime \in Nat /\ STARTUP \in Nat
  /\ LATENCY \in Nat /\ LastWrite \in Nat
  /\ STARTUP <= StartTime

VARIABLES
  queue,        \* the queue of msg_queue.c, head first
  next_resend,  \* when the main loop next calls Do_Resend
  now,          \* time(NULL)
  looping,      \* main has entered its loop
  Quit,         \* set when a packet the session depends on is discarded
  fate,         \* history: what became of each packet
  sends         \* history: how often SOCKWRITE_LOW was given each packet

vars == <<queue, next_resend, now, looping, Quit, fate, sends>>

Init ==
  /\ queue = <<>>
  /\ next_resend = 0
  /\ now = StartTime
  /\ looping = FALSE
  /\ Quit = FALSE
  /\ fate = [s \in Seqs |-> "unsent"]
  /\ sends = [s \in Seqs |-> 0]

-----------------------------------------------------------------------------
(* SOCKWRITE of a packet other than CMD_ACK.  The timer is set only when   *)
(* the new entry is the head, that is when the queue was empty.            *)
SOCKWRITE(s, c) ==
  /\ fate[s] = "unsent" /\ now <= LastWrite
  /\ queue' = msg_queue_push(queue, NewEntry(s, c, now))
  /\ next_resend' = IF queue = <<>> THEN HeadExpiry(queue') ELSE next_resend
  /\ fate' = [fate EXCEPT ![s] = "pending"]
  /\ sends' = [sends EXCEPT ![s] = @ + 1]
  /\ UNCHANGED <<now, looping, Quit>>

(* main, after Login and before its loop: next_resend = 10.                *)
EnterLoop ==
  /\ ~looping
  /\ looping' = TRUE
  /\ next_resend' = STARTUP
  /\ UNCHANGED <<queue, now, Quit, fate, sends>>

(* Do_Resend with attempts left: the head is sent again and requeued.      *)
Retry ==
  /\ looping /\ now > next_resend
  /\ queue # <<>>
  /\ AttemptsLeft(Head(queue))
  /\ queue' = Requeue(queue, now)
  /\ next_resend' = HeadExpiry(queue')
  /\ sends' = [sends EXCEPT ![Head(queue).seq] = @ + 1]
  /\ UNCHANGED <<now, looping, Quit, fate>>

(* Do_Resend after the last attempt: the head is dropped.                  *)
Discard ==
  /\ looping /\ now > next_resend
  /\ queue # <<>>
  /\ ~AttemptsLeft(Head(queue))
  /\ queue' = Tail(queue)
  /\ next_resend' = HeadExpiry(queue')
  /\ Quit' = (Quit \/ Head(queue).cmd \in FatalCmds)
  /\ fate' = [fate EXCEPT ![Head(queue).seq] = "discarded"]
  /\ UNCHANGED <<now, looping, sends>>

(* Do_Resend with nothing queued.                                          *)
ResendNothing ==
  /\ looping /\ now > next_resend
  /\ queue = <<>>
  /\ next_resend' = INT_MAX
  /\ UNCHANGED <<queue, now, looping, Quit, fate, sends>>

Do_Resend == Retry \/ Discard \/ ResendNothing

(* An acknowledgement of s reaches Check_Queue.  One that matches nothing  *)
(* turns the queue once around and changes neither queue nor timer.        *)
Ack(s) ==
  /\ looping
  /\ s \in QueuedSeqs(queue)
  /\ queue' = Check_Queue(queue, s)
  /\ next_resend' = HeadExpiry(queue')
  /\ fate' = [fate EXCEPT ![s] = "acked"]
  /\ UNCHANGED <<now, looping, Quit, sends>>

(* Time passes, but at most LATENCY seconds before main enters its loop    *)
(* and before the turn of the loop that finds the timer expired (a turn    *)
(* sleeps 1 s in Idle_Check and waits 2.5 s in select).                    *)
Tick ==
  /\ now < MaxTime
  /\ ~looping => now <= StartTime + LATENCY
  /\ (looping /\ ~Quit /\ queue # <<>>) => now <= next_resend + LATENCY
  /\ now' = now + 1
  /\ UNCHANGED <<queue, next_resend, looping, Quit, fate, sends>>

Next ==
  \/ \E s \in Seqs, c \in Cmds : SOCKWRITE(s, c)
  \/ EnterLoop
  \/ Do_Resend
  \/ \E s \in Seqs : Ack(s)
  \/ Tick

Spec == Init /\ [][Next]_vars

(* The loop of main runs until Quit and the clock advances; neither the    *)
(* server nor the callers are assumed to do anything.                      *)
Fairness ==
  /\ WF_vars(EnterLoop)
  /\ WF_vars(~Quit /\ Do_Resend)
  /\ WF_vars(Tick)

FairSpec == Spec /\ Fairness
-----------------------------------------------------------------------------
Fates == {"unsent", "pending", "acked", "discarded"}

Entries == [seq : Seqs, cmd : Cmds, attempts : Nat, exp_time : Nat]

(* The types of the variables.                                             *)
TypeOK ==
  /\ queue \in Seq(Entries)
  /\ next_resend \in Nat
  /\ now \in Nat
  /\ looping \in BOOLEAN
  /\ Quit \in BOOLEAN
  /\ fate \in [Seqs -> Fates]
  /\ sends \in [Seqs -> Nat]

(* While anything is queued, the timer is never set later than the expiry  *)
(* of the head: no path through SOCKWRITE, Do_Resend, Check_Queue or main  *)
(* leaves the head without a retransmission when it is due.                *)
TimerNeverLate == queue # <<>> => next_resend <= Head(queue).exp_time

(* No two entries of the queue are the same packet: neither the requeuing  *)
(* of Do_Resend nor the rotation of Check_Queue copies an entry.           *)
OneEntryPerPacket ==
  \A i, j \in DOMAIN queue : queue[i].seq = queue[j].seq => i = j

(* A packet is queued exactly while it is pending, with the count of the   *)
(* transmissions really made: the queue loses and forgets nothing.         *)
QueueIsPending ==
  /\ \A s \in Seqs : fate[s] = "pending" <=> s \in QueuedSeqs(queue)
  /\ \A i \in DOMAIN queue : queue[i].attempts = sends[queue[i].seq]

(* A packet goes on the wire at most MAX_ATTEMPTS times and is discarded   *)
(* only when all of them were made.                                        *)
AttemptsSpent ==
  \A s \in Seqs : /\ sends[s] <= MAX_ATTEMPTS
                  /\ fate[s] = "discarded" => sends[s] = MAX_ATTEMPTS

(* The inductive invariant.  Besides the properties above it says that no  *)
(* entry expires before STARTUP, so that main's early next_resend is not   *)
(* late for the login packet, and that an unsent packet was never sent.    *)
QueueInv ==
  /\ TypeOK
  /\ TimerNeverLate
  /\ OneEntryPerPacket
  /\ QueueIsPending
  /\ AttemptsSpent
  /\ now >= STARTUP
  /\ \A i \in DOMAIN queue : queue[i].exp_time >= STARTUP
  /\ \A s \in Seqs : fate[s] = "unsent" => sends[s] = 0

Ledger == INSTANCE PacketLedger WITH Packets <- Seqs

(* The queue and its timer implement the ledger: every packet moves only   *)
(* as PacketLedger allows.                                                 *)
ImplementsLedger == Ledger!Spec

(* Every pending packet is eventually acknowledged or discarded, or the    *)
(* session ends: rotation by acknowledgements cannot strand an entry when  *)
(* the callers stop writing.                                               *)
EveryPacketResolved ==
  \A s \in Seqs : fate[s] = "pending" ~> (fate[s] # "pending" \/ Quit)

(* A packet the session depends on is eventually acknowledged, or the      *)
(* program quits: a dead server is noticed even when other traffic keeps   *)
(* turning the queue.                                                      *)
FatalPacketAckedOrQuit ==
  \A s \in Seqs :
    (\E i \in DOMAIN queue : queue[i].seq = s /\ queue[i].cmd \in FatalCmds)
      ~> (fate[s] = "acked" \/ Quit)

(* icq091.txt:160 has every unacknowledged packet retransmitted after ten  *)
(* seconds: while the loop runs, no entry of the queue is overdue by more  *)
(* than the turn of the loop that serves it.  Check_Queue breaks this: it  *)
(* turns the queue past older entries and arms the timer for a younger     *)
(* head.                                                                   *)
RetransmittedInTime ==
  looping /\ ~Quit =>
    \A i \in DOMAIN queue : now <= queue[i].exp_time + LATENCY + 1
=============================================================================
