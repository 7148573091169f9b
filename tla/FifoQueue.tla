----------------------------- MODULE FifoQueue -----------------------------
(***************************************************************************)
(* What msg_queue.c promises its callers: a FIFO of entries, from which    *)
(* Check_Queue takes the first entry with a given SEQ, turning the queue   *)
(* past the entries before it, and which Dump_Queue leaves as it was.      *)
(***************************************************************************)
EXTENDS MsgQueue

CONSTANT Msgs  \* the entries that may be queued

VARIABLE q

Init == q = <<>>

Push == \E m \in Msgs : q' = msg_queue_push(q, m)

Pop == q # <<>> /\ q' = Tail(q)

Check == \E m \in Msgs : q' = Check_Queue(q, m.seq)

Spec == Init /\ [][Push \/ Pop \/ Check]_q
=============================================================================
