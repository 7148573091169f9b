------------------------------ MODULE MsgQueue ------------------------------
(***************************************************************************)
(* The queue of packets awaiting an acknowledgement (msg_queue.c), as      *)
(* operators on sequences of entries.  An entry is struct msg: the packet  *)
(* is known by its SEQ doubleword, the body is reduced to its command.     *)
(***************************************************************************)
EXTENDS Integers, Sequences

CONSTANTS
  RESEND_TIMEOUT,  \* seconds from one transmission to the next (10 in sendmsg.c)
  MAX_ATTEMPTS,    \* transmissions before a packet is discarded (6 in Do_Resend)
  INT_MAX          \* the value of next_resend that stands for "never"

ASSUME TimeoutAssumption == RESEND_TIMEOUT \in Nat
ASSUME AttemptsAssumption == MAX_ATTEMPTS \in Nat \ {0}
ASSUME NeverAssumption == INT_MAX \in Nat

\* The entry SOCKWRITE queues for a packet first transmitted at time t.
NewEntry(s, c, t) ==
  [seq |-> s, cmd |-> c, attempts |-> 1, exp_time |-> t + RESEND_TIMEOUT]

msg_queue_push(q, m) == Append(q, m)

\* What next_resend is set to from the head of the queue.  (Mutants: the timer
\* follows the entry just queued, is negative for an empty queue, or is stopped
\* while one entry is left.)
HeadExpiryOfLast(q) == IF q = <<>> THEN INT_MAX ELSE q[Len(q)].exp_time
HeadExpiryNegative(q) == IF q = <<>> THEN -1 ELSE Head(q).exp_time
HeadExpiryStopsEarly(q) == IF Len(q) <= 1 THEN INT_MAX ELSE Head(q).exp_time
HeadExpiry(q) == IF q = <<>> THEN INT_MAX ELSE Head(q).exp_time

QueuedSeqs(q) == {q[i].seq : i \in DOMAIN q}

\* (Mutant: an ack is matched by the low word of its SEQ alone.)
MatchesLowWord(q, s) == {i \in DOMAIN q : q[i].seq[1] = s[1]}
Matches(q, s) == {i \in DOMAIN q : q[i].seq = s}

FirstMatch(q, s) ==
  CHOOSE i \in Matches(q, s) : \A j \in Matches(q, s) : i <= j

\* Check_Queue pops and pushes back every entry before the acknowledged one
\* and stops there: what was behind the removed entry comes first afterwards.
\* (Mutant: what was popped before the match is not pushed back.)
TakeOutAndBefore(q, k) == SubSeq(q, k + 1, Len(q))
TakeOut(q, k) == SubSeq(q, k + 1, Len(q)) \o SubSeq(q, 1, k - 1)

Check_Queue(q, s) ==
  IF Matches(q, s) = {} THEN q ELSE TakeOut(q, FirstMatch(q, s))

\* Do_Resend counts the attempt it is about to make and compares.  (Mutants: it
\* compares before it counts, or with < for <=.)
AttemptsLeftOneMore(e) == e.attempts <= MAX_ATTEMPTS
AttemptsLeftOneLess(e) == e.attempts + 1 < MAX_ATTEMPTS
AttemptsLeft(e) == e.attempts + 1 <= MAX_ATTEMPTS

\* One retransmission of the head, which goes to the tail with a new expiry.
\* (Mutant: the head is only peeked at.)
RequeueCopy(q, t) == Append(q, [Head(q) EXCEPT !.exp_time = t + RESEND_TIMEOUT])
Requeue(q, t) ==
  Append(Tail(q), [Head(q) EXCEPT !.attempts = @ + 1,
                                  !.exp_time = t + RESEND_TIMEOUT])
=============================================================================
