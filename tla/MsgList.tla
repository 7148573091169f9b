------------------------------ MODULE MsgList ------------------------------
(***************************************************************************)
(* msg_queue.c as written: a linked list with head, tail and a count, on a *)
(* heap of nodes that malloc hands out and free takes back.  The fields of *)
(* a freed node read as FREED, so a read through a stale pointer shows.    *)
(***************************************************************************)
EXTENDS Integers, Sequences

CONSTANTS
  Nodes,  \* addresses of struct msg_queue_entry; bounds the queue
  Seqs,   \* SEQ doublewords
  Tags,   \* tells apart entries that carry the same SEQ
  NULL,
  FREED

ASSUME PointersAssumption == NULL \notin Nodes /\ FREED \notin Nodes \cup {NULL}

Msgs == [seq : Seqs, tag : Tags]

VARIABLE
  list  \* head, tail, entries, and the fields next and msg of every node

Empty == [head |-> NULL, tail |-> NULL, entries |-> 0,
          next |-> [n \in Nodes |-> FREED], msg |-> [n \in Nodes |-> FREED]]

FreeNodes(l) == {n \in Nodes : l.next[n] = FREED}

-----------------------------------------------------------------------------
(* msg_queue_push: malloc returns node n.                                  *)
msg_queue_push(l, m, n) ==
  [head    |-> IF l.tail # NULL THEN l.head ELSE n,
   tail    |-> n,
   entries |-> l.entries + 1,
   next    |-> [p \in Nodes |-> IF p = n THEN NULL
                                ELSE IF p = l.tail THEN n ELSE l.next[p]],
   msg     |-> [l.msg EXCEPT ![n] = m]]

CanPop(l) == l.head # NULL /\ l.entries > 0

\* tail is reset with the last node.  (Mutant: it is left on the freed node.)
TailKept(l) == l.tail
TailAfterPop(l) == IF l.next[l.head] = NULL THEN NULL ELSE l.tail

(* msg_queue_pop, with a node to pop, which is freed.                      *)
msg_queue_pop(l) ==
  [head    |-> l.next[l.head],
   tail    |-> TailAfterPop(l),
   entries |-> l.entries - 1,
   next    |-> [l.next EXCEPT ![l.head] = FREED],
   msg     |-> [l.msg EXCEPT ![l.head] = FREED]]

(* One turn of a loop that pops the head and pushes it back.               *)
Requeue(l) ==
  LET popped == msg_queue_pop(l)
      n == CHOOSE p \in FreeNodes(popped) : TRUE
  IN  msg_queue_push(popped, l.msg[l.head], n)

(* The list after each of so many turns.                                   *)
Turned(l) ==
  LET turn[k \in 0 .. l.entries] == IF k = 0 THEN l ELSE Requeue(turn[k - 1])
  IN  turn

(* The loop of Check_Queue, whose count starts at i: it ends when the count *)
(* reaches that of the entries, read again at each turn, or at the first    *)
(* match, which it pops.                                                    *)
CheckFrom(l, s, i) ==
  LET after == Turned(l)
      Ends(k) == i + k >= after[k].entries
      Found(k) == after[k].msg[after[k].head].seq = s
      turns == CHOOSE k \in 0 .. l.entries :
                 /\ Ends(k) \/ Found(k)
                 /\ \A j \in 0 .. k - 1 : ~Ends(j) /\ ~Found(j)
  IN  IF Ends(turns) THEN after[turns] ELSE msg_queue_pop(after[turns])

\* (Mutant: the count starts at 1.)
Check_QueueFrom1(l, s) == CheckFrom(l, s, 1)
Check_Queue(l, s) == CheckFrom(l, s, 0)

(* Dump_Queue turns the list once around, which leaves the count as it is. *)
Dump_Queue(l) == Turned(l)[l.entries]
-----------------------------------------------------------------------------
Init == list = Empty

Push == \E m \in Msgs, n \in FreeNodes(list) : list' = msg_queue_push(list, m, n)

Pop == CanPop(list) /\ list' = msg_queue_pop(list)

Check == \E s \in Seqs : list' = Check_Queue(list, s)

Dump == list' = Dump_Queue(list)

Next == Push \/ Pop \/ Check \/ Dump

Spec == Init /\ [][Next]_list
-----------------------------------------------------------------------------
(* The nodes reached from head, in order: at most one more than are counted.*)
Walk(l) ==
  LET at[k \in 1 .. l.entries + 1] ==
        IF k = 1 THEN l.head
        ELSE IF at[k - 1] \in Nodes THEN l.next[at[k - 1]] ELSE NULL
  IN  [k \in {k \in 1 .. l.entries + 1 : \A j \in 1 .. k : at[j] \in Nodes} |-> at[k]]

Contents(l) == LET w == Walk(l) IN [i \in DOMAIN w |-> l.msg[w[i]]]

(* entries counts the nodes reached from head, tail is the last of them,   *)
(* and every node not reached was freed: pop and push never lose a node,   *)
(* leave one behind or let tail dangle.                                    *)
ListIntact ==
  LET w == Walk(list)
  IN  /\ list.entries = Len(w)
      /\ list.tail = IF w = <<>> THEN NULL ELSE w[Len(w)]
      /\ FreeNodes(list) = Nodes \ {w[i] : i \in DOMAIN w}

Fifo == INSTANCE FifoQueue WITH
  q <- Contents(list), RESEND_TIMEOUT <- 10, MAX_ATTEMPTS <- 6, INT_MAX <- 2147483647

(* The list implements the FIFO: in particular the loop of Check_Queue     *)
(* removes the first match and rotates past what precedes it, also when    *)
(* two entries carry the same SEQ, and Dump_Queue changes nothing.         *)
ImplementsFifo == Fifo!Spec
=============================================================================
