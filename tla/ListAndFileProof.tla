-------------------------- MODULE ListAndFileProof --------------------------
(***************************************************************************)
(* Proofs about the two data structures of micq that outlive a function:   *)
(* the linked list behind the queue of packets and the file that keeps the *)
(* contacts.                                                               *)
(*                                                                         *)
(* MsgList, for any set of nodes and entries: the list always holds a      *)
(* chain of nodes, and its operations are those of the FIFO on the         *)
(* messages in the chain.                                                  *)
(*                                                                         *)
(* RcFile, for any texts, any files to start from and any number of        *)
(* commands and stops: what the reader has made of the part of the file    *)
(* that Save_RC has come to, a rest of an older file behind it cannot      *)
(* change any more.                                                        *)
(***************************************************************************)
EXTENDS MsgList, RcFile, SequenceTheorems, TLAPS

\* For the facts on sets of numbers; they do not depend on the constants.
Numbers == INSTANCE MsgQueueProof WITH
  RESEND_TIMEOUT <- 10, MAX_ATTEMPTS <- 6, INT_MAX <- 2147483647

(* The list l runs through the nodes w, which hold the messages q.         *)
Chained(l, w, q) ==
  /\ w \in Seq(Nodes) /\ q \in Seq(Msgs) /\ Len(q) = Len(w)
  /\ \A i, j \in 1 .. Len(w) : w[i] = w[j] => i = j
  /\ l.entries = Len(w)
  /\ l.head = IF w = <<>> THEN NULL ELSE w[1]
  /\ l.tail = IF w = <<>> THEN NULL ELSE w[Len(w)]

(* The fields of its nodes, and of the nodes that are not in it.           *)
Linked(l, w, q) ==
  /\ DOMAIN l.next = Nodes /\ DOMAIN l.msg = Nodes
  /\ \A i \in 1 .. Len(w) :
       /\ l.next[w[i]] = IF i = Len(w) THEN NULL ELSE w[i + 1]
       /\ l.msg[w[i]] = q[i]
  /\ \A n \in Nodes : l.next[n] = FREED <=> \A i \in 1 .. Len(w) : n # w[i]

IsList(l, w, q) == Chained(l, w, q) /\ Linked(l, w, q)

\* In the order of the queue.
ListInv == \E w, q : IsList(list, w, q)
-----------------------------------------------------------------------------
(* What the proofs use of a sequence.                                       *)
LEMMA SeqFacts ==
  ASSUME NEW S, NEW s \in Seq(S)
  PROVE  /\ Len(s) \in Nat /\ DOMAIN s = 1 .. Len(s)
         /\ \A i \in 1 .. Len(s) : s[i] \in S
         /\ s = <<>> <=> Len(s) = 0
<1>1. Len(s) \in Nat /\ DOMAIN s = 1 .. Len(s)
  BY LenProperties
<1>2. \A i \in 1 .. Len(s) : s[i] \in S
  BY ElementOfSeq
<1>3. s = <<>> <=> Len(s) = 0
  BY EmptySeq
<1> QED BY <1>1, <1>2, <1>3

(* A sequence with one element more at the end.                             *)
LEMMA AppendFacts ==
  ASSUME NEW S, NEW s \in Seq(S), NEW e \in S
  PROVE  /\ Append(s, e) \in Seq(S) /\ Append(s, e) # <<>>
         /\ Len(Append(s, e)) = Len(s) + 1
         /\ \A i \in 1 .. Len(s) : Append(s, e)[i] = s[i]
         /\ Append(s, e)[Len(s) + 1] = e
BY AppendProperties

(* A sequence without its first element.                                    *)
LEMMA TailFacts ==
  ASSUME NEW S, NEW s \in Seq(S), s # <<>>
  PROVE  /\ Tail(s) \in Seq(S) /\ Len(Tail(s)) = Len(s) - 1
         /\ \A i \in 1 .. Len(s) - 1 : Tail(s)[i] = s[i + 1]
         /\ Head(s) = s[1] /\ Head(s) \in S
<1>1. /\ Tail(s) \in Seq(S) /\ Len(Tail(s)) = Len(s) - 1
      /\ \A i \in 1 .. Len(Tail(s)) : Tail(s)[i] = s[i + 1]
      /\ Head(s) \in S
  BY HeadTailProperties
<1>2. Head(s) = s[1]
  OBVIOUS
<1> QED BY <1>1, <1>2

(* A node that malloc returns is put behind the last one.                  *)
LEMMA PushList ==
  ASSUME NEW l, NEW w, NEW q, IsList(l, w, q), NEW m \in Msgs,
         NEW n \in FreeNodes(l)
  PROVE  IsList(msg_queue_push(l, m, n), Append(w, n), Append(q, m))
<1> DEFINE r == msg_queue_push(l, m, n)
           v == Append(w, n)
           p == Append(q, m)
<1>1. n \in Nodes /\ l.next[n] = FREED
  BY DEF FreeNodes
<1>2. /\ w \in Seq(Nodes) /\ q \in Seq(Msgs) /\ Len(q) = Len(w) /\ Len(w) \in Nat
      /\ \A i \in 1 .. Len(w) : w[i] \in Nodes
      /\ w = <<>> <=> Len(w) = 0
  BY SeqFacts DEF IsList, Chained
<1>3. /\ v \in Seq(Nodes) /\ v # <<>> /\ Len(v) = Len(w) + 1
      /\ \A i \in 1 .. Len(w) : v[i] = w[i]
      /\ v[Len(w) + 1] = n
  BY <1>1, <1>2, AppendFacts
<1>4. /\ p \in Seq(Msgs) /\ Len(p) = Len(w) + 1
      /\ \A i \in 1 .. Len(w) : p[i] = q[i]
      /\ p[Len(w) + 1] = m
  BY <1>2, AppendFacts
<1>5. \A i \in 1 .. Len(w) : w[i] # n
  BY <1>1 DEF IsList, Linked
<1>6. /\ r.entries = l.entries + 1 /\ r.tail = n
      /\ r.head = IF l.tail # NULL THEN l.head ELSE n
      /\ r.msg = [l.msg EXCEPT ![n] = m]
      /\ \A x \in Nodes : r.next[x] = IF x = n THEN NULL
                                      ELSE IF x = l.tail THEN n ELSE l.next[x]
  BY DEF msg_queue_push
<1> HIDE DEF r, v, p
<1>7. \A i \in 1 .. Len(w) + 1 : i = Len(w) + 1 \/ i \in 1 .. Len(w)
  BY <1>2
<1>8. Chained(r, v, p)
  <2>1. \A i, j \in 1 .. Len(v) : v[i] = v[j] => i = j
    BY <1>2, <1>3, <1>5, <1>7 DEF IsList, Chained
  <2>2. r.head = v[1]
    <3>1. CASE w = <<>>
      BY <3>1, <1>2, <1>3, <1>6 DEF IsList, Chained
    <3>2. CASE w # <<>>
      <4>1. 1 \in 1 .. Len(w) /\ Len(w) \in 1 .. Len(w)
        BY <3>2, <1>2
      <4>2. l.tail # NULL
        BY <3>2, <4>1, <1>2, PointersAssumption DEF IsList, Chained
      <4> QED BY <3>2, <4>1, <4>2, <1>3, <1>6 DEF IsList, Chained
    <3> QED BY <3>1, <3>2
  <2>3. r.entries = Len(v) /\ r.tail = v[Len(v)]
    BY <1>3, <1>6 DEF IsList, Chained
  <2> QED BY <2>1, <2>2, <2>3, <1>3, <1>4 DEF Chained
<1>9. Linked(r, v, p)
  <2>1. DOMAIN r.next = Nodes /\ DOMAIN r.msg = Nodes
    BY <1>6 DEF IsList, Linked, r, msg_queue_push
  <2>2. ASSUME NEW i \in 1 .. Len(v)
        PROVE  /\ r.next[v[i]] = IF i = Len(v) THEN NULL ELSE v[i + 1]
               /\ r.msg[v[i]] = p[i]
    <3>1. CASE i = Len(w) + 1
      <4>1. r.next[n] = NULL /\ r.msg[n] = m
        BY <1>1, <1>6 DEF IsList, Linked
      <4> QED BY <3>1, <4>1, <1>3, <1>4
    <3>2. CASE i \in 1 .. Len(w)
      <4>1. v[i] = w[i] /\ p[i] = q[i] /\ w[i] \in Nodes /\ w[i] # n
        BY <3>2, <1>2, <1>3, <1>4, <1>5
      <4>2. r.msg[w[i]] = l.msg[w[i]] /\ l.msg[w[i]] = q[i]
        BY <3>2, <4>1, <1>6 DEF IsList, Linked
      <4>3. CASE i = Len(w)
        <5>1. l.tail = w[i] /\ v[i + 1] = n /\ i # Len(v)
          BY <3>2, <4>3, <1>2, <1>3 DEF IsList, Chained
        <5> QED BY <4>1, <4>2, <5>1, <1>6
      <4>4. CASE i # Len(w)
        <5>1. Len(w) \in 1 .. Len(w) /\ i + 1 \in 1 .. Len(w) /\ i # Len(v) /\ w # <<>>
          BY <3>2, <4>4, <1>2, <1>3
        <5>2. l.tail # w[i]
          BY <3>2, <4>4, <5>1 DEF IsList, Chained
        <5>3. l.next[w[i]] = w[i + 1] /\ v[i + 1] = w[i + 1]
          BY <3>2, <4>4, <5>1, <1>3 DEF IsList, Linked
        <5> QED BY <4>1, <4>2, <5>1, <5>2, <5>3, <1>6
      <4> QED BY <4>3, <4>4
    <3> QED BY <3>1, <3>2, <1>3, <1>7
  <2>3. ASSUME NEW x \in Nodes
        PROVE  r.next[x] = FREED <=> \A i \in 1 .. Len(v) : x # v[i]
    <3>1. CASE x = n
      <4>1. Len(w) + 1 \in 1 .. Len(v)
        BY <1>2, <1>3
      <4> QED BY <3>1, <4>1, <1>3, <1>6, PointersAssumption
    <3>2. CASE x # n
      <4>1. (\A i \in 1 .. Len(v) : x # v[i]) <=> (\A i \in 1 .. Len(w) : x # w[i])
        BY <3>2, <1>2, <1>3, <1>7
      <4>2. l.next[x] = FREED <=> \A i \in 1 .. Len(w) : x # w[i]
        BY DEF IsList, Linked
      <4>3. CASE x = l.tail
        <5>1. w # <<>> /\ Len(w) \in 1 .. Len(w) /\ x = w[Len(w)]
          BY <4>3, <1>2, PointersAssumption DEF IsList, Chained
        <5>2. r.next[x] # FREED
          BY <3>2, <4>3, <1>1, <1>6, PointersAssumption
        <5> QED BY <4>1, <5>1, <5>2
      <4> QED BY <3>2, <4>1, <4>2, <4>3, <1>6
    <3> QED BY <3>1, <3>2
  <2> QED BY <2>1, <2>2, <2>3 DEF Linked
<1> QED BY <1>8, <1>9 DEF IsList, r, v, p

(* The node popped is the first, and is freed; the others stay chained.    *)
LEMMA PopList ==
  ASSUME NEW l, NEW w, NEW q, IsList(l, w, q), w # <<>>
  PROVE  /\ CanPop(l) /\ l.msg[l.head] = Head(q) /\ q # <<>>
         /\ IsList(msg_queue_pop(l), Tail(w), Tail(q))
         /\ w[1] \in FreeNodes(msg_queue_pop(l))
<1> DEFINE r == msg_queue_pop(l)
           v == Tail(w)
           p == Tail(q)
<1>1. /\ w \in Seq(Nodes) /\ q \in Seq(Msgs) /\ Len(q) = Len(w) /\ Len(w) \in Nat \ {0}
      /\ \A i \in 1 .. Len(w) : w[i] \in Nodes
      /\ q # <<>> /\ 1 \in 1 .. Len(w)
  BY SeqFacts DEF IsList, Chained
<1>2. /\ v \in Seq(Nodes) /\ Len(v) = Len(w) - 1
      /\ \A i \in 1 .. Len(w) - 1 : v[i] = w[i + 1]
      /\ p \in Seq(Msgs) /\ Len(p) = Len(w) - 1 /\ Head(q) = q[1]
      /\ \A i \in 1 .. Len(w) - 1 : p[i] = q[i + 1]
  BY <1>1, TailFacts
<1>3. /\ l.head = w[1] /\ l.tail = w[Len(w)] /\ l.entries = Len(w)
      /\ l.msg[w[1]] = q[1]
      /\ l.next[w[1]] = IF Len(w) = 1 THEN NULL ELSE w[2]
  BY <1>1 DEF IsList, Chained, Linked
<1>4. CanPop(l) /\ l.msg[l.head] = Head(q)
  BY <1>1, <1>2, <1>3, PointersAssumption DEF CanPop
<1>5. /\ r.entries = Len(w) - 1 /\ r.head = l.next[w[1]]
      /\ r.tail = IF l.next[w[1]] = NULL THEN NULL ELSE w[Len(w)]
      /\ r.msg = [l.msg EXCEPT ![w[1]] = FREED]
      /\ r.next = [l.next EXCEPT ![w[1]] = FREED]
  BY <1>3 DEF msg_queue_pop, TailAfterPop
<1>6. \A i \in 1 .. Len(w) - 1 : i + 1 \in 1 .. Len(w) /\ i + 1 # 1
  BY <1>1
<1>7. v = <<>> <=> Len(w) = 1
  <2>1. v = <<>> <=> Len(v) = 0
    BY <1>2, SeqFacts
  <2> QED BY <2>1, <1>1, <1>2
<1>8. DOMAIN l.next = Nodes /\ DOMAIN l.msg = Nodes
  BY DEF IsList, Linked
<1> HIDE DEF r, v, p
<1>9. \A i, j \in 1 .. Len(w) : w[i] = w[j] => i = j
  BY DEF IsList, Chained
<1>10. Len(w) # 1 => w[2] # NULL /\ 2 \in 1 .. Len(w)
  <2>1. ASSUME Len(w) # 1 PROVE 2 \in 1 .. Len(w)
    BY <1>1, <2>1
  <2> QED BY <2>1, <1>1, PointersAssumption
<1>11. Chained(r, v, p)
  <2>1. \A i, j \in 1 .. Len(v) : v[i] = v[j] => i = j
    <3> SUFFICES ASSUME NEW i \in 1 .. Len(v), NEW j \in 1 .. Len(v), v[i] = v[j]
                 PROVE  i = j
      OBVIOUS
    <3>1. w[i + 1] = w[j + 1] /\ i + 1 \in 1 .. Len(w) /\ j + 1 \in 1 .. Len(w)
      BY <1>2, <1>6
    <3>2. i + 1 = j + 1
      BY <3>1, <1>9
    <3> QED BY <3>2, <1>1, <1>2
  <2>2. r.head = IF v = <<>> THEN NULL ELSE v[1]
    <3>1. CASE Len(w) = 1
      BY <3>1, <1>3, <1>5, <1>7
    <3>2. CASE Len(w) # 1
      <4>1. 1 \in 1 .. Len(w) - 1 /\ 1 + 1 = 2
        BY <3>2, <1>1
      <4>2. v[1] = w[2]
        BY <4>1, <1>2
      <4> QED BY <3>2, <4>2, <1>3, <1>5, <1>7
    <3> QED BY <3>1, <3>2
  <2>3. r.tail = IF v = <<>> THEN NULL ELSE v[Len(v)]
    <3>1. CASE Len(w) = 1
      BY <3>1, <1>3, <1>5, <1>7
    <3>2. CASE Len(w) # 1
      <4>1. Len(w) - 1 \in 1 .. Len(w) - 1 /\ (Len(w) - 1) + 1 = Len(w)
        BY <3>2, <1>1
      <4>2. v[Len(v)] = w[Len(w)]
        BY <4>1, <1>2
      <4> QED BY <3>2, <4>2, <1>3, <1>5, <1>7, <1>10
    <3> QED BY <3>1, <3>2
  <2>4. r.entries = Len(v)
    BY <1>2, <1>5
  <2> QED BY <2>1, <2>2, <2>3, <2>4, <1>2 DEF Chained
<1>12. Linked(r, v, p)
  <2>1. DOMAIN r.next = Nodes /\ DOMAIN r.msg = Nodes
    BY <1>5, <1>8
  <2>2. ASSUME NEW i \in 1 .. Len(v)
        PROVE  /\ r.next[v[i]] = IF i = Len(v) THEN NULL ELSE v[i + 1]
               /\ r.msg[v[i]] = p[i]
    <3>1. /\ i + 1 \in 1 .. Len(w) /\ v[i] = w[i + 1] /\ p[i] = q[i + 1]
          /\ w[i + 1] \in Nodes /\ w[i + 1] # w[1]
      BY <1>1, <1>2, <1>6, <1>9
    <3>2. /\ r.next[v[i]] = l.next[w[i + 1]] /\ r.msg[v[i]] = l.msg[w[i + 1]]
      BY <3>1, <1>5, <1>8
    <3>3. /\ l.msg[w[i + 1]] = q[i + 1]
          /\ l.next[w[i + 1]] = IF i + 1 = Len(w) THEN NULL ELSE w[(i + 1) + 1]
      BY <3>1 DEF IsList, Linked
    <3>4. CASE i = Len(v)
      <4>1. i + 1 = Len(w)
        BY <3>4, <1>1, <1>2
      <4> QED BY <3>4, <4>1, <3>1, <3>2, <3>3
    <3>5. CASE i # Len(v)
      <4>1. i + 1 # Len(w) /\ i + 1 \in 1 .. Len(w) - 1
        BY <3>5, <1>1, <1>2
      <4> QED BY <3>5, <4>1, <3>1, <3>2, <3>3, <1>2
    <3> QED BY <3>4, <3>5
  <2>3. ASSUME NEW x \in Nodes
        PROVE  r.next[x] = FREED <=> \A i \in 1 .. Len(v) : x # v[i]
    <3>1. CASE x = w[1]
      <4>1. \A i \in 1 .. Len(v) : v[i] # w[1]
        BY <1>1, <1>2, <1>6, <1>9
      <4> QED BY <3>1, <4>1, <1>5, <1>8
    <3>2. CASE x # w[1]
      <4>1. r.next[x] = l.next[x]
        BY <3>2, <1>5, <1>8
      <4>2. l.next[x] = FREED <=> \A i \in 1 .. Len(w) : x # w[i]
        BY DEF IsList, Linked
      <4>3. ASSUME NEW i \in 1 .. Len(w), x = w[i]
            PROVE  \E j \in 1 .. Len(v) : x = v[j]
        <5>1. i - 1 \in 1 .. Len(w) - 1 /\ (i - 1) + 1 = i
          BY <3>2, <4>3, <1>1
        <5> QED BY <5>1, <4>3, <1>2
      <4>4. ASSUME NEW j \in 1 .. Len(v), x = v[j]
            PROVE  \E i \in 1 .. Len(w) : x = w[i]
        BY <4>4, <1>2, <1>6
      <4> QED BY <4>1, <4>2, <4>3, <4>4
    <3> QED BY <3>1, <3>2
  <2> QED BY <2>1, <2>2, <2>3 DEF Linked
<1>13. w[1] \in FreeNodes(r)
  BY <1>1, <1>5, <1>8 DEF FreeNodes
<1> QED BY <1>1, <1>4, <1>11, <1>12, <1>13 DEF IsList, r, v, p

(* A turn of the loops: the first entry becomes the last.                  *)
LEMMA TurnList ==
  ASSUME NEW l, NEW w, NEW q, IsList(l, w, q), w # <<>>
  PROVE  \E v : IsList(Requeue(l), v, Append(Tail(q), Head(q)))
<1> DEFINE popped == msg_queue_pop(l)
           n == CHOOSE p \in FreeNodes(popped) : TRUE
<1>1. /\ IsList(popped, Tail(w), Tail(q)) /\ l.msg[l.head] = Head(q)
      /\ FreeNodes(popped) # {} /\ q # <<>> /\ q \in Seq(Msgs)
  BY PopList DEF IsList, Chained
<1>2. n \in FreeNodes(popped)
  BY <1>1
<1>3. Requeue(l) = msg_queue_push(popped, Head(q), n)
  BY <1>1 DEF Requeue
<1>4. Head(q) \in Msgs
  BY <1>1, TailFacts
<1> HIDE DEF popped, n
<1>5. IsList(Requeue(l), Append(Tail(w), n), Append(Tail(q), Head(q)))
  BY <1>1, <1>2, <1>3, <1>4, PushList
<1> QED BY <1>5
-----------------------------------------------------------------------------
(* The turns of a loop exist, one after another.                           *)
LEMMA Turns ==
  ASSUME NEW l, l.entries \in Nat
  PROVE  /\ Turned(l)[0] = l
         /\ \A k \in 1 .. l.entries : Turned(l)[k] = Requeue(Turned(l)[k - 1])
<1> DEFINE Steps(g, k) == g = [i \in 0 .. k |-> IF i = 0 THEN l ELSE Requeue(g[i - 1])]
           K == {k \in Nat : \E g : Steps(g, k)}
<1>1. 0 \in K
  <2> DEFINE g == [i \in 0 .. 0 |-> l]
             next(i) == IF i = 0 THEN l ELSE Requeue(g[i - 1])
  <2>1. \A i \in 0 .. 0 : next(i) = l
    OBVIOUS
  <2>2. [i \in 0 .. 0 |-> next(i)] = [i \in 0 .. 0 |-> l]
    <3> HIDE DEF next
    <3> QED BY <2>1
  <2>3. Steps(g, 0)
    BY <2>2, Zenon
  <2> HIDE DEF Steps
  <2> QED BY <2>3
<1>2. ASSUME NEW k \in K PROVE k + 1 \in K
  <2>1. PICK g : Steps(g, k)
    OBVIOUS
  <2> DEFINE next(i) == IF i = 0 THEN l ELSE Requeue(g[i - 1])
  <2>2. PICK h : h = [i \in 0 .. k + 1 |-> next(i)]
    OBVIOUS
  <2>3. \A i \in 0 .. k : g[i] = next(i)
    BY <2>1
  <2>4. \A i \in 0 .. k + 1 : i = 0 \/ i - 1 \in 0 .. k
    OBVIOUS
  <2> HIDE DEF next
  <2>5. \A i \in 0 .. k : h[i] = g[i]
    BY <2>2, <2>3
  <2>6. \A i \in 0 .. k + 1 : next(i) = IF i = 0 THEN l ELSE Requeue(h[i - 1])
    BY <2>4, <2>5 DEF next
  <2>7. PICK r : r = [i \in 0 .. k + 1 |-> IF i = 0 THEN l ELSE Requeue(h[i - 1])]
    OBVIOUS
  <2>8. \A i \in 0 .. k + 1 : r[i] = next(i)
    BY <2>6, <2>7
  <2>9. r = [i \in 0 .. k + 1 |-> r[i]] /\ h = [i \in 0 .. k + 1 |-> h[i]]
    BY <2>2, <2>7
  <2>10. \A i \in 0 .. k + 1 : r[i] = h[i]
    BY <2>2, <2>8
  <2>11. r = h
    BY <2>9, <2>10
  <2>12. h = [i \in 0 .. k + 1 |-> IF i = 0 THEN l ELSE Requeue(h[i - 1])]
    BY <2>7, <2>11, Zenon
  <2>13. Steps(h, k + 1)
    BY <2>12, Zenon
  <2> HIDE DEF Steps
  <2> QED BY <2>13
<1>3. K = Nat
  <2> HIDE DEF K
  <2>1. K \in SUBSET Nat
    BY DEF K
  <2> QED BY <1>1, <1>2, <2>1, Numbers!SetInduction
<1>4. PICK g : Steps(g, l.entries)
  BY <1>3
<1> DEFINE turn == CHOOSE t : Steps(t, l.entries)
<1>5. Steps(turn, l.entries)
  <2> HIDE DEF Steps
  <2> QED BY <1>4
<1>6. Turned(l) = turn
  BY DEF Turned
<1> HIDE DEF turn
<1>7. \A i \in 0 .. l.entries : turn[i] = IF i = 0 THEN l ELSE Requeue(turn[i - 1])
  BY <1>5
<1>8. turn[0] = l
  BY <1>7
<1>9. \A k \in 1 .. l.entries : turn[k] = Requeue(turn[k - 1])
  BY <1>7
<1> QED BY <1>6, <1>8, <1>9

(* The queue q after k turns.                                              *)
Rotated(q, k) ==
  [i \in 1 .. Len(q) |-> IF i + k <= Len(q) THEN q[i + k] ELSE q[i + k - Len(q)]]

(* Turning keeps the length, and all the way round it changes nothing.      *)
LEMMA RotatedFacts ==
  ASSUME NEW q \in Seq(Msgs), NEW k \in 0 .. Len(q)
  PROVE  /\ Rotated(q, k) \in Seq(Msgs) /\ Len(Rotated(q, k)) = Len(q)
         /\ \A i \in 1 .. Len(q) :
              Rotated(q, k)[i] = IF i + k <= Len(q) THEN q[i + k] ELSE q[i + k - Len(q)]
         /\ k \in {0, Len(q)} => Rotated(q, k) = q
<1>1. Len(q) \in Nat /\ \A i \in 1 .. Len(q) : q[i] \in Msgs
  BY SeqFacts
<1>2. \A i \in 1 .. Len(q) :
        /\ (IF i + k <= Len(q) THEN q[i + k] ELSE q[i + k - Len(q)]) \in Msgs
  BY <1>1
<1>3. Rotated(q, k) \in [1 .. Len(q) -> Msgs]
  BY <1>2 DEF Rotated
<1>4. Rotated(q, k) \in Seq(Msgs) /\ Len(Rotated(q, k)) = Len(q)
  BY <1>1, <1>3, SeqDef, LenProperties
<1>5. \A i \in 1 .. Len(q) :
        Rotated(q, k)[i] = IF i + k <= Len(q) THEN q[i + k] ELSE q[i + k - Len(q)]
  BY DEF Rotated
<1>6. ASSUME k \in {0, Len(q)} PROVE Rotated(q, k) = q
  <2>1. ASSUME NEW i \in 1 .. Len(q) PROVE Rotated(q, k)[i] = q[i]
    BY <1>1, <1>5, <1>6
  <2> QED BY <1>4, <2>1, SeqEqual
<1> QED BY <1>4, <1>5, <1>6

(* One turn more puts the head last; without its head, the queue turned k   *)
(* times is what Check_Queue leaves when entry k + 1 is the match.          *)
LEMMA RotatedOnce ==
  ASSUME NEW q \in Seq(Msgs), NEW k \in 0 .. Len(q) - 1
  PROVE  /\ Rotated(q, k) # <<>> /\ Head(Rotated(q, k)) = q[k + 1]
         /\ Append(Tail(Rotated(q, k)), Head(Rotated(q, k))) = Rotated(q, k + 1)
         /\ Tail(Rotated(q, k)) = Fifo!TakeOut(q, k + 1)
<1>1. Len(q) \in Nat \ {0} /\ \A i \in 1 .. Len(q) : q[i] \in Msgs
  <2>1. Len(q) \in Nat /\ \A i \in 1 .. Len(q) : q[i] \in Msgs
    BY SeqFacts
  <2> QED BY <2>1
<1> DEFINE r == Rotated(q, k)
           n == Len(q)
<1>2. /\ r \in Seq(Msgs) /\ Len(r) = n
      /\ \A i \in 1 .. n : r[i] = IF i + k <= n THEN q[i + k] ELSE q[i + k - n]
  <2>1. k \in 0 .. Len(q)
    BY <1>1
  <2> QED BY <2>1, RotatedFacts
<1>3. /\ Rotated(q, k + 1) \in Seq(Msgs) /\ Len(Rotated(q, k + 1)) = n
      /\ \A i \in 1 .. n : Rotated(q, k + 1)[i] =
           IF i + (k + 1) <= n THEN q[i + (k + 1)] ELSE q[i + (k + 1) - n]
  <2>1. k + 1 \in 0 .. Len(q)
    BY <1>1
  <2> QED BY <2>1, RotatedFacts
<1> HIDE DEF r
<1>4. r # <<>> /\ 1 \in 1 .. n
  BY <1>1, <1>2, SeqFacts
<1>5. /\ Tail(r) \in Seq(Msgs) /\ Len(Tail(r)) = n - 1
      /\ \A i \in 1 .. n - 1 : Tail(r)[i] = r[i + 1]
      /\ Head(r) = r[1] /\ Head(r) \in Msgs
  BY <1>2, <1>4, TailFacts
<1>6. r[1] = q[k + 1]
  BY <1>1, <1>2, <1>4
<1> DEFINE a == Append(Tail(r), Head(r))
<1>7. /\ a \in Seq(Msgs) /\ Len(a) = n
      /\ \A i \in 1 .. n - 1 : a[i] = r[i + 1]
      /\ a[n] = r[1]
  <2>1. /\ a \in Seq(Msgs) /\ Len(a) = Len(Tail(r)) + 1
        /\ \A i \in 1 .. Len(Tail(r)) : a[i] = Tail(r)[i]
        /\ a[Len(Tail(r)) + 1] = Head(r)
    BY <1>5, AppendFacts
  <2>2. Len(Tail(r)) + 1 = n /\ Len(Tail(r)) = n - 1
    BY <1>1, <1>5
  <2> HIDE DEF a
  <2> QED BY <2>1, <2>2, <1>5
<1> HIDE DEF a
<1>8. a = Rotated(q, k + 1)
  <2>1. ASSUME NEW i \in 1 .. n PROVE a[i] = Rotated(q, k + 1)[i]
    <3>1. CASE i = n
      <4>1. i + (k + 1) - n = k + 1 /\ ~(i + (k + 1) <= n)
        BY <3>1, <1>1
      <4> QED BY <3>1, <4>1, <1>3, <1>6, <1>7
    <3>2. CASE i # n
      <4>1. i \in 1 .. n - 1 /\ i + 1 \in 1 .. n
        BY <3>2, <1>1
      <4>2. a[i] = r[i + 1]
        BY <4>1, <1>7
      <4>3. i + 1 + k = i + (k + 1) /\ i + 1 + k - n = i + (k + 1) - n
        BY <1>1
      <4>4. r[i + 1] = IF i + 1 + k <= n THEN q[i + 1 + k] ELSE q[i + 1 + k - n]
        BY <4>1, <1>2
      <4> QED BY <4>2, <4>3, <4>4, <1>3
    <3> QED BY <3>1, <3>2
  <2> QED BY <2>1, <1>3, <1>7, SeqEqual
<1>9. Tail(r) = Fifo!TakeOut(q, k + 1)
  <2> DEFINE b == SubSeq(q, k + 2, n)
             c == SubSeq(q, 1, k)
  <2>1. /\ b \in Seq(Msgs) /\ Len(b) = n - k - 1
        /\ \A i \in 1 .. n - k - 1 : b[i] = q[i + (k + 1)]
    <3>1. k + 2 \in Int /\ n \in Int /\ \A i \in k + 2 .. n : q[i] \in Msgs
      BY <1>1
    <3>2. /\ b \in Seq(Msgs)
          /\ Len(b) = IF k + 2 <= n THEN n - (k + 2) + 1 ELSE 0
          /\ \A i \in 1 .. n - (k + 2) + 1 : b[i] = q[(k + 2) + i - 1]
      BY <3>1, SubSeqProperties
    <3> QED BY <3>2, <1>1
  <2>2. /\ c \in Seq(Msgs) /\ Len(c) = k
        /\ \A i \in 1 .. k : c[i] = q[i]
    <3>1. 1 \in Int /\ k \in Int /\ \A i \in 1 .. k : q[i] \in Msgs
      BY <1>1
    <3>2. /\ c \in Seq(Msgs) /\ Len(c) = IF 1 <= k THEN k - 1 + 1 ELSE 0
          /\ \A i \in 1 .. k - 1 + 1 : c[i] = q[1 + i - 1]
      BY <3>1, SubSeqProperties
    <3> QED BY <3>2, <1>1
  <2>3. Fifo!TakeOut(q, k + 1) = b \o c
    <3>1. (k + 1) + 1 = k + 2 /\ (k + 1) - 1 = k
      OBVIOUS
    <3> QED BY <3>1 DEF Fifo!TakeOut
  <2> HIDE DEF b, c
  <2>4. /\ b \o c \in Seq(Msgs) /\ Len(b \o c) = n - 1
        /\ \A i \in 1 .. n - 1 :
             (b \o c)[i] = IF i <= n - k - 1 THEN b[i] ELSE c[i - (n - k - 1)]
    <3>1. /\ b \o c \in Seq(Msgs) /\ Len(b \o c) = Len(b) + Len(c)
          /\ \A i \in 1 .. Len(b) + Len(c) :
               (b \o c)[i] = IF i <= Len(b) THEN b[i] ELSE c[i - Len(b)]
      BY <2>1, <2>2, ConcatProperties
    <3>2. Len(b) + Len(c) = n - 1
      BY <1>1, <2>1, <2>2
    <3> QED BY <3>1, <3>2, <2>1
  <2>5. ASSUME NEW i \in 1 .. n - 1 PROVE Tail(r)[i] = (b \o c)[i]
    <3>1. Tail(r)[i] = IF i + 1 + k <= n THEN q[i + 1 + k] ELSE q[i + 1 + k - n]
      <4>1. i + 1 \in 1 .. n
        BY <1>1
      <4> QED BY <4>1, <1>2, <1>5
    <3>2. CASE i <= n - k - 1
      <4>1. i \in 1 .. n - k - 1 /\ i + 1 + k <= n /\ i + 1 + k = i + (k + 1)
        BY <3>2, <1>1
      <4> QED BY <3>1, <3>2, <4>1, <2>1, <2>4
    <3>3. CASE ~(i <= n - k - 1)
      <4>1. /\ i - (n - k - 1) \in 1 .. k /\ ~(i + 1 + k <= n)
            /\ i - (n - k - 1) = i + 1 + k - n
        BY <3>3, <1>1
      <4> QED BY <3>1, <3>3, <4>1, <2>2, <2>4
    <3> QED BY <3>2, <3>3
  <2> QED BY <2>3, <2>4, <2>5, <1>5, SeqEqual
<1> QED BY <1>4, <1>5, <1>6, <1>8, <1>9 DEF a, r
-----------------------------------------------------------------------------
(* After k turns the list holds the queue turned k places.                 *)
LEMMA TurnedList ==
  ASSUME NEW l, NEW w, NEW q, IsList(l, w, q)
  PROVE  \A k \in 0 .. Len(q) : \E v : IsList(Turned(l)[k], v, Rotated(q, k))
<1> DEFINE M == {k \in Nat : k <= Len(q) => \E v : IsList(Turned(l)[k], v, Rotated(q, k))}
<1>1. /\ q \in Seq(Msgs) /\ Len(q) \in Nat /\ l.entries = Len(q)
      /\ Turned(l)[0] = l
      /\ \A k \in 1 .. Len(q) : Turned(l)[k] = Requeue(Turned(l)[k - 1])
  <2>1. q \in Seq(Msgs) /\ l.entries = Len(q)
    BY DEF IsList, Chained
  <2>2. Len(q) \in Nat
    BY <2>1, SeqFacts
  <2> QED BY <2>1, <2>2, Turns
<1>2. 0 \in M
  <2>1. Rotated(q, 0) = q
    <3>1. 0 \in 0 .. Len(q) /\ 0 \in {0, Len(q)}
      BY <1>1
    <3> QED BY <3>1, <1>1, RotatedFacts
  <2> QED BY <2>1, <1>1
<1>3. ASSUME NEW k \in M PROVE k + 1 \in M
  <2> SUFFICES ASSUME k + 1 <= Len(q)
               PROVE  \E v : IsList(Turned(l)[k + 1], v, Rotated(q, k + 1))
    OBVIOUS
  <2>1. k \in 0 .. Len(q) - 1 /\ k + 1 \in 1 .. Len(q) /\ (k + 1) - 1 = k
    BY <1>1
  <2>2. PICK u : IsList(Turned(l)[k], u, Rotated(q, k))
    BY <2>1
  <2> DEFINE r == Rotated(q, k)
  <2>3. r # <<>> /\ Append(Tail(r), Head(r)) = Rotated(q, k + 1)
    BY <1>1, <2>1, RotatedOnce
  <2>4. u # <<>>
    <3>1. u \in Seq(Nodes) /\ r \in Seq(Msgs) /\ Len(r) = Len(u)
      BY <2>2 DEF IsList, Chained
    <3> HIDE DEF r
    <3> QED BY <2>3, <3>1, SeqFacts
  <2>5. \E v : IsList(Requeue(Turned(l)[k]), v, Append(Tail(r), Head(r)))
    BY <2>2, <2>4, TurnList
  <2>6. Turned(l)[k + 1] = Requeue(Turned(l)[k])
    BY <1>1, <2>1
  <2> QED BY <2>3, <2>5, <2>6
<1>4. M = Nat
  <2> HIDE DEF M
  <2>1. M \in SUBSET Nat
    BY DEF M
  <2> QED BY <1>2, <1>3, <2>1, Numbers!SetInduction
<1>5. ASSUME NEW k \in 0 .. Len(q)
      PROVE  \E v : IsList(Turned(l)[k], v, Rotated(q, k))
  <2>1. k \in M /\ k <= Len(q)
    BY <1>1, <1>4
  <2> QED BY <2>1
<1> QED BY <1>5

(* Dump_Queue turns the list all the way round.                            *)
LEMMA DumpList ==
  ASSUME NEW l, NEW w, NEW q, IsList(l, w, q)
  PROVE  \E v : IsList(Dump_Queue(l), v, q)
<1>1. q \in Seq(Msgs) /\ l.entries = Len(q)
  BY DEF IsList, Chained
<1>2. Len(q) \in 0 .. Len(q) /\ Len(q) \in {0, Len(q)}
  BY <1>1, SeqFacts
<1>3. Rotated(q, Len(q)) = q
  BY <1>1, <1>2, RotatedFacts
<1>4. \E v : IsList(Turned(l)[Len(q)], v, Rotated(q, Len(q)))
  BY <1>2, TurnedList
<1> QED BY <1>1, <1>3, <1>4 DEF Dump_Queue

(* What the loop of Check_Queue sees after k turns: the count of all        *)
(* entries, and the entry at position k + 1 at the head.                    *)
LEMMA SeenByLoop ==
  ASSUME NEW l, NEW w, NEW q, IsList(l, w, q), NEW k \in 0 .. Len(q)
  PROVE  /\ Turned(l)[k].entries = Len(q)
         /\ k < Len(q) =>
              /\ Turned(l)[k].msg[Turned(l)[k].head] = q[k + 1]
              /\ \E v : IsList(msg_queue_pop(Turned(l)[k]), v, Fifo!TakeOut(q, k + 1))
<1>1. q \in Seq(Msgs) /\ Len(q) \in Nat
  BY SeqFacts DEF IsList, Chained
<1>2. PICK v : IsList(Turned(l)[k], v, Rotated(q, k))
  BY TurnedList
<1> DEFINE t == Turned(l)[k]
           r == Rotated(q, k)
<1>3. r \in Seq(Msgs) /\ Len(r) = Len(q)
  BY <1>1, RotatedFacts
<1>4. t.entries = Len(q)
  <2>1. t.entries = Len(v) /\ Len(r) = Len(v)
    BY <1>2 DEF IsList, Chained
  <2> QED BY <2>1, <1>3
<1>5. ASSUME k < Len(q)
      PROVE  /\ t.msg[t.head] = q[k + 1]
             /\ \E u : IsList(msg_queue_pop(t), u, Fifo!TakeOut(q, k + 1))
  <2>1. k \in 0 .. Len(q) - 1
    BY <1>1, <1>5
  <2>2. r # <<>> /\ Head(r) = q[k + 1] /\ Tail(r) = Fifo!TakeOut(q, k + 1)
    BY <1>1, <2>1, RotatedOnce
  <2> HIDE DEF t, r
  <2>3. v # <<>>
    <3>1. v \in Seq(Nodes) /\ Len(r) = Len(v)
      BY <1>2 DEF IsList, Chained, t, r
    <3> QED BY <2>2, <3>1, <1>3, SeqFacts
  <2>4. IsList(t, v, r)
    BY <1>2 DEF t, r
  <2>5. t.msg[t.head] = Head(r) /\ IsList(msg_queue_pop(t), Tail(v), Tail(r))
    BY <2>3, <2>4, PopList
  <2> QED BY <2>2, <2>5
<1> QED BY <1>4, <1>5

(* Check_Queue removes the first match, and turns the list past the entries *)
(* before it; without a match the list goes once around.                    *)
LEMMA CheckList ==
  ASSUME NEW l, NEW w, NEW q, IsList(l, w, q), NEW s
  PROVE  \E v : IsList(Check_Queue(l, s), v, Fifo!Check_Queue(q, s))
<1>1. /\ q \in Seq(Msgs) /\ Len(q) \in Nat /\ DOMAIN q = 1 .. Len(q)
      /\ l.entries = Len(q)
  BY SeqFacts DEF IsList, Chained
<1> DEFINE n == Len(q)
           after == Turned(l)
           Ends(k) == 0 + k >= after[k].entries
           IsAt(k) == after[k].msg[after[k].head].seq = s
           Stops(k) == /\ Ends(k) \/ IsAt(k)
                       /\ \A j \in 0 .. k - 1 : ~Ends(j) /\ ~IsAt(j)
           turns == CHOOSE k \in 0 .. l.entries : Stops(k)
           M == Fifo!Matches(q, s)
<1>n. n \in Nat /\ l.entries = n /\ n \in 0 .. n
  BY <1>1
<1>2. Check_Queue(l, s) = IF Ends(turns) THEN after[turns] ELSE msg_queue_pop(after[turns])
  BY DEF Check_Queue, CheckFrom
<1>3. \A k \in 0 .. n : Ends(k) <=> k = n
  <2>1. \A k \in 0 .. n : after[k].entries = n
    BY SeenByLoop
  <2> HIDE DEF after, n
  <2>2. \A k \in 0 .. n : (0 + k >= n) <=> k = n
    BY <1>n
  <2> QED BY <2>1, <2>2
<1>4. \A k \in 0 .. n : k < n => (IsAt(k) <=> k + 1 \in M)
  <2>1. \A k \in 0 .. n : k < n => after[k].msg[after[k].head] = q[k + 1]
    BY SeenByLoop
  <2>2. \A k \in 0 .. n : k < n => k + 1 \in DOMAIN q
    BY <1>1
  <2>3. \A k \in 0 .. n : k < n => (k + 1 \in M <=> q[k + 1].seq = s)
    BY <2>2 DEF Fifo!Matches
  <2> QED BY <2>1, <2>3
<1>5. M \subseteq 1 .. n
  BY <1>1 DEF Fifo!Matches
<1> HIDE DEF Ends, Found, M, n
<1>6. CASE M = {}
  <2>1. ASSUME NEW k \in 0 .. n PROVE Stops(k) <=> k = n
    <3>1. ASSUME NEW j \in 0 .. n, j < n PROVE ~Ends(j) /\ ~IsAt(j)
      BY <1>3, <1>4, <1>6, <3>1
    <3>2. \A j \in 0 .. n - 1 : j \in 0 .. n /\ j < n
      BY <1>n
    <3>3. k = n \/ (k \in 0 .. n /\ k < n)
      BY <1>n
    <3>4. CASE k = n
      <4>1. Ends(k)
        BY <1>3, <1>n, <3>4
      <4>2. \A j \in 0 .. n - 1 : ~Ends(j) /\ ~IsAt(j)
        BY <3>1, <3>2
      <4> QED BY <3>4, <4>1, <4>2
    <3>5. CASE k \in 0 .. n /\ k < n
      <4>1. ~Ends(k) /\ ~IsAt(k)
        BY <3>1, <3>5
      <4>2. k # n
        BY <1>n, <3>5
      <4> QED BY <4>1, <4>2
    <3> QED BY <3>3, <3>4, <3>5
  <2>2. n \in 0 .. l.entries /\ \A k \in 0 .. l.entries : Stops(k) <=> k = n
    BY <1>n, <2>1, Zenon
  <2> HIDE DEF Stops
  <2>3. turns = n
    BY <2>2
  <2>4. Ends(n)
    BY <1>n, <1>3
  <2>5. Check_Queue(l, s) = after[n]
    BY <1>2, <2>3, <2>4
  <2>6. Fifo!Check_Queue(q, s) = q
    BY <1>6 DEF Fifo!Check_Queue, M
  <2>7. \E v : IsList(Dump_Queue(l), v, q)
    BY DumpList
  <2>8. Dump_Queue(l) = after[n]
    BY <1>n DEF Dump_Queue
  <2> QED BY <2>5, <2>6, <2>7, <2>8
<1>7. CASE M # {}
  <2> DEFINE m == Fifo!FirstMatch(q, s)
  <2>1. m \in M /\ \A j \in M : m <= j
    <3>1. M \in SUBSET Nat
      BY <1>5
    <3>2. \E i \in M : \A j \in M : i <= j
      BY <1>7, <3>1, Numbers!Least
    <3> QED BY <3>2 DEF Fifo!FirstMatch, M
  <2>2. Fifo!Check_Queue(q, s) = Fifo!TakeOut(q, m)
    BY <1>7 DEF Fifo!Check_Queue, M
  <2> HIDE DEF m
  <2>3. m \in 1 .. n /\ m - 1 \in 0 .. n /\ m - 1 < n /\ (m - 1) + 1 = m
    BY <1>n, <1>5, <2>1
  <2>4. ASSUME NEW j \in 0 .. n, j < m - 1 PROVE ~Ends(j) /\ ~IsAt(j)
    <3>1. j < n /\ j + 1 < m /\ j # n
      BY <1>n, <2>3, <2>4
    <3>2. j + 1 \notin M
      <4>1. ~(m <= j + 1)
        BY <1>n, <2>3, <2>4, <3>1
      <4> QED BY <2>1, <4>1
    <3> QED BY <3>1, <3>2, <1>3, <1>4
  <2>5. IsAt(m - 1) /\ ~Ends(m - 1)
    BY <1>3, <1>4, <2>1, <2>3
  <2>6. ASSUME NEW k \in 0 .. n PROVE Stops(k) <=> k = m - 1
    <3>1. CASE k < m - 1
      BY <2>4, <3>1
    <3>2. CASE k = m - 1
      <4>1. \A j \in 0 .. (m - 1) - 1 : j \in 0 .. n /\ j < m - 1
        BY <1>n, <2>3
      <4> QED BY <2>4, <2>5, <3>2, <4>1
    <3>3. CASE k > m - 1
      <4>1. m - 1 \in 0 .. k - 1
        BY <2>3, <3>3
      <4> QED BY <2>5, <3>3, <4>1, <2>3
    <3> QED BY <3>1, <3>2, <3>3, <2>3
  <2>7. m - 1 \in 0 .. l.entries /\ \A k \in 0 .. l.entries : Stops(k) <=> k = m - 1
    BY <1>n, <2>3, <2>6, Zenon
  <2> HIDE DEF Stops
  <2>8. turns = m - 1
    BY <2>7
  <2>9. Check_Queue(l, s) = msg_queue_pop(after[m - 1])
    BY <1>2, <2>5, <2>8
  <2>10. \E v : IsList(msg_queue_pop(after[m - 1]), v, Fifo!TakeOut(q, (m - 1) + 1))
    BY <2>3, SeenByLoop DEF n
  <2> HIDE DEF after
  <2>11. \E v : IsList(msg_queue_pop(after[m - 1]), v, Fifo!TakeOut(q, m))
    BY <2>3, <2>10, Zenon
  <2> QED BY <2>2, <2>9, <2>11, Zenon
<1> QED BY <1>6, <1>7
-----------------------------------------------------------------------------
(* The walk from head visits the nodes of the list, and so reads its       *)
(* messages.                                                               *)
LEMMA WalkFacts ==
  ASSUME NEW l, NEW w, NEW q, IsList(l, w, q)
  PROVE  Walk(l) = w /\ Contents(l) = q
<1> DEFINE n == Len(w)
           D == 1 .. n + 1
           next(f, k) == IF k = 1 THEN l.head
                         ELSE IF f[k - 1] \in Nodes THEN l.next[f[k - 1]] ELSE NULL
           Steps(f) == f = [k \in D |-> next(f, k)]
           g == [k \in D |-> IF k <= n THEN w[k] ELSE NULL]
           at == CHOOSE f : Steps(f)
<1>1. /\ n \in Nat /\ l.entries = n /\ DOMAIN w = 1 .. n /\ DOMAIN q = 1 .. n
      /\ \A i \in 1 .. n : w[i] \in Nodes
      /\ w = <<>> <=> n = 0
      /\ q \in Seq(Msgs) /\ w \in Seq(Nodes)
  BY SeqFacts DEF IsList, Chained
<1>2. /\ l.head = IF w = <<>> THEN NULL ELSE w[1]
      /\ \A i \in 1 .. n : /\ l.next[w[i]] = IF i = n THEN NULL ELSE w[i + 1]
                           /\ l.msg[w[i]] = q[i]
  BY DEF IsList, Chained, Linked
<1> HIDE DEF n
<1>3. \A k \in D : g[k] = next(g, k)
  <2>1. g[1] = l.head
    BY <1>1, <1>2
  <2>2. ASSUME NEW k \in D, k # 1
        PROVE  g[k] = next(g, k)
    <3>1. k - 1 \in 1 .. n /\ k - 1 \in D /\ k - 1 <= n /\ (k - 1) + 1 = k
      BY <1>1, <2>2
    <3>2. g[k - 1] = w[k - 1] /\ w[k - 1] \in Nodes
      BY <1>1, <3>1
    <3>3. l.next[w[k - 1]] = IF k - 1 = n THEN NULL ELSE w[k]
      BY <1>2, <3>1
    <3>4. k - 1 = n <=> ~(k <= n)
      BY <1>1, <3>1
    <3>5. g[k] = IF k <= n THEN w[k] ELSE NULL
      BY <2>2
    <3> HIDE DEF g
    <3> QED BY <2>2, <3>2, <3>3, <3>4, <3>5
  <2> HIDE DEF g
  <2> QED BY <2>1, <2>2
<1>4. Steps(g)
  <2> PICK h : h = [k \in D |-> next(g, k)]
    OBVIOUS
  <2>1. g = [k \in D |-> g[k]] /\ h = [k \in D |-> h[k]]
    OBVIOUS
  <2>2. \A k \in D : g[k] = h[k]
    <3> HIDE DEF g
    <3> QED BY <1>3
  <2> HIDE DEF g, next, D
  <2>3. g = h
    BY <2>1, <2>2
  <2> QED BY <2>3, Zenon
<1>5. Steps(at)
  <2> HIDE DEF Steps, g
  <2> QED BY <1>4
<1> HIDE DEF at
<1>6. \A k \in D : at[k] = next(at, k)
  BY <1>5
<1> DEFINE T == {k \in Nat : k + 1 \in D => at[k + 1] = g[k + 1]}
<1> HIDE DEF g
<1>7. 0 \in T
  <2>1. 0 + 1 = 1 /\ 1 \in D
    BY <1>1
  <2>2. at[1] = l.head /\ g[1] = l.head
    BY <1>3, <1>6, <2>1
  <2> QED BY <2>1, <2>2
<1>8. ASSUME NEW k \in T PROVE k + 1 \in T
  <2>1. k \in Nat /\ k + 1 \in Nat
    OBVIOUS
  <2>2. ASSUME (k + 1) + 1 \in D PROVE at[(k + 1) + 1] = g[(k + 1) + 1]
    <3>1. k + 1 \in D /\ (k + 1) + 1 # 1 /\ ((k + 1) + 1) - 1 = k + 1
      BY <1>1, <2>1, <2>2
    <3>2. at[k + 1] = g[k + 1]
      BY <3>1
    <3> DEFINE j == (k + 1) + 1
    <3>3. at[j] = next(at, j) /\ g[j] = next(g, j)
      BY <1>3, <1>6, <2>2
    <3>4. j - 1 = k + 1 /\ j # 1
      BY <3>1
    <3> HIDE DEF j
    <3>5. next(at, j) = next(g, j)
      BY <3>2, <3>4
    <3> HIDE DEF next
    <3> QED BY <3>3, <3>5 DEF j
  <2> QED BY <2>1, <2>2
<1>9. T = Nat
  <2> HIDE DEF T
  <2>1. T \in SUBSET Nat
    BY DEF T
  <2> QED BY <1>7, <1>8, <2>1, Numbers!SetInduction
<1>10. \A k \in D : at[k] = IF k <= n THEN w[k] ELSE NULL
  <2>1. ASSUME NEW k \in D PROVE at[k] = g[k]
    <3>1. k - 1 \in Nat /\ (k - 1) + 1 = k
      BY <1>1
    <3>2. k - 1 \in T
      <4> HIDE DEF T
      <4> QED BY <3>1, <1>9
    <3> QED BY <3>1, <3>2
  <2> QED BY <2>1 DEF g
<1> HIDE DEF T
<1>11. \A k \in D : (\A j \in 1 .. k : at[j] \in Nodes) <=> k \in 1 .. n
  <2>1. ASSUME NEW k \in 1 .. n, NEW j \in 1 .. k PROVE at[j] \in Nodes
    <3>1. j \in D /\ j <= n /\ j \in 1 .. n
      BY <1>1
    <3> QED BY <3>1, <1>1, <1>10
  <2>2. ASSUME NEW k \in D, k \notin 1 .. n PROVE ~(at[k] \in Nodes) /\ k \in 1 .. k
    <3>1. ~(k <= n) /\ k \in 1 .. k
      BY <1>1, <2>2
    <3> QED BY <3>1, <1>10, PointersAssumption
  <2> QED BY <2>1, <2>2
<1>12. Walk(l) = [k \in {k \in D : \A j \in 1 .. k : at[j] \in Nodes} |-> at[k]]
  BY <1>1 DEF Walk, at
<1>13. {k \in D : \A j \in 1 .. k : at[j] \in Nodes} = 1 .. n
  <2>1. 1 .. n \subseteq D
    BY <1>1
  <2> HIDE DEF D
  <2> QED BY <1>11, <2>1
<1>14. Walk(l) = w
  <2>1. Walk(l) = [k \in 1 .. n |-> at[k]]
    BY <1>12, <1>13
  <2>2. \A k \in 1 .. n : at[k] = w[k]
    BY <1>1, <1>10
  <2>3. w = [k \in 1 .. n |-> w[k]]
    BY <1>1
  <2> QED BY <2>1, <2>2, <2>3
<1>15. Contents(l) = q
  <2>1. Contents(l) = [i \in 1 .. n |-> l.msg[w[i]]]
    BY <1>1, <1>14 DEF Contents
  <2>2. q = [i \in 1 .. n |-> q[i]]
    BY <1>1
  <2> QED BY <2>1, <2>2, <1>2
<1> QED BY <1>14, <1>15
-----------------------------------------------------------------------------
(* Pop of an empty list does nothing: pop needs a head.                     *)
LEMMA CanPopFacts ==
  ASSUME NEW l, NEW w, NEW q, IsList(l, w, q)
  PROVE  CanPop(l) <=> w # <<>>
<1>1. CASE w = <<>>
  BY <1>1 DEF IsList, Chained, CanPop
<1>2. CASE w # <<>>
  BY <1>2, PopList
<1> QED BY <1>1, <1>2

(* The list at the start.                                                   *)
LEMMA EmptyList == IsList(Empty, <<>>, <<>>)
<1>1. Chained(Empty, <<>>, <<>>)
  BY DEF Chained, Empty
<1>2. Linked(Empty, <<>>, <<>>)
  BY DEF Linked, Empty
<1> QED BY <1>1, <1>2 DEF IsList

(* What each operation makes of the list, and of the queue it holds.        *)
LEMMA PushStep ==
  ASSUME NEW w, NEW q, IsList(list, w, q), Push
  PROVE  \E m \in Msgs : \E v : IsList(list', v, Append(q, m))
<1>1. PICK m \in Msgs, n \in FreeNodes(list) : list' = msg_queue_push(list, m, n)
  BY DEF Push
<1>2. IsList(list', Append(w, n), Append(q, m))
  BY <1>1, PushList
<1> QED BY <1>2

(* Pop takes the first message.                                             *)
LEMMA PopStep ==
  ASSUME NEW w, NEW q, IsList(list, w, q), Pop
  PROVE  q # <<>> /\ \E v : IsList(list', v, Tail(q))
<1>1. w # <<>> /\ list' = msg_queue_pop(list)
  BY CanPopFacts DEF Pop
<1> QED BY <1>1, PopList

(* Check_Queue takes the first match and turns the queue.                   *)
LEMMA CheckStep ==
  ASSUME NEW w, NEW q, IsList(list, w, q), Check
  PROVE  \E s \in Seqs : \E v : IsList(list', v, Fifo!Check_Queue(q, s))
<1>1. PICK s \in Seqs : list' = Check_Queue(list, s)
  BY DEF Check
<1> QED BY <1>1, CheckList

(* Dump_Queue leaves the queue as it was.                                   *)
LEMMA DumpStep ==
  ASSUME NEW w, NEW q, IsList(list, w, q), Dump
  PROVE  \E v : IsList(list', v, q)
BY DumpList DEF Dump

(* Every operation keeps the chain: no node is lost or left behind.         *)
LEMMA ListStep == ASSUME ListInv, [Next]_list PROVE ListInv'
<1>1. PICK w, q : IsList(list, w, q)
  BY DEF ListInv
<1>2. \E v, p : IsList(list', v, p)
  <2>1. CASE Push BY <1>1, <2>1, PushStep
  <2>2. CASE Pop BY <1>1, <2>2, PopStep
  <2>3. CASE Check BY <1>1, <2>3, CheckStep
  <2>4. CASE Dump BY <1>1, <2>4, DumpStep
  <2>5. CASE UNCHANGED list BY <1>1, <2>5
  <2> QED BY <2>1, <2>2, <2>3, <2>4, <2>5 DEF Next
<1> QED BY <1>2 DEF ListInv

(* The inductive invariant of the list, for any heap and any entries.       *)
THEOREM ListInvariance == Spec => []ListInv
<1>1. Init => ListInv
  BY EmptyList DEF Init, ListInv
<1> QED BY <1>1, ListStep, PTL DEF Spec

(* The count, the tail and the freed nodes are always those of the nodes    *)
(* reached from head.                                                       *)
THEOREM ListAlwaysIntact == Spec => []ListIntact
<1>1. ASSUME ListInv PROVE ListIntact
  <2>1. PICK w, q : IsList(list, w, q)
    BY <1>1 DEF ListInv
  <2>2. Walk(list) = w
    BY <2>1, WalkFacts
  <2>3. DOMAIN w = 1 .. Len(w)
    BY <2>1, SeqFacts DEF IsList, Chained
  <2>4. FreeNodes(list) = Nodes \ {w[i] : i \in DOMAIN w}
    <3>1. \A x \in Nodes : list.next[x] = FREED <=> \A i \in 1 .. Len(w) : x # w[i]
      BY <2>1 DEF IsList, Linked
    <3>2. ASSUME NEW x \in Nodes
          PROVE  x \in FreeNodes(list) <=> x \notin {w[i] : i \in DOMAIN w}
      BY <3>1, <2>3 DEF FreeNodes
    <3> QED BY <3>2 DEF FreeNodes
  <2>5. list.entries = Len(w) /\ list.tail = IF w = <<>> THEN NULL ELSE w[Len(w)]
    BY <2>1 DEF IsList, Chained
  <2> QED BY <2>2, <2>4, <2>5, Zenon DEF ListIntact
<1> QED BY <1>1, ListInvariance, PTL

(* Each step of the list is a step of the FIFO, or changes nothing of it.   *)
LEMMA FifoStep ==
  ASSUME ListInv, [Next]_list
  PROVE  [Fifo!Push \/ Fifo!Pop \/ Fifo!Check]_(Contents(list))
<1>1. PICK w, q : IsList(list, w, q)
  BY DEF ListInv
<1>2. Contents(list) = q
  BY <1>1, WalkFacts
<1>3. q \in Seq(Msgs) /\ DOMAIN q = 1 .. Len(q)
  BY <1>1, SeqFacts DEF IsList, Chained
<1>4. CASE Push
  <2>1. PICK m \in Msgs : \E v : IsList(list', v, Append(q, m))
    BY <1>1, <1>4, PushStep
  <2>2. Contents(list') = Append(q, m)
    BY <2>1, WalkFacts
  <2> QED BY <1>2, <2>2 DEF Fifo!Push, Fifo!msg_queue_push
<1>5. CASE Pop
  <2>1. PICK v : q # <<>> /\ IsList(list', v, Tail(q))
    BY <1>1, <1>5, PopStep
  <2>2. Contents(list') = Tail(q)
    BY <2>1, WalkFacts
  <2> QED BY <1>2, <2>1, <2>2 DEF Fifo!Pop
<1>6. CASE Check
  <2>1. PICK s \in Seqs : \E v : IsList(list', v, Fifo!Check_Queue(q, s))
    BY <1>1, <1>6, CheckStep
  <2>2. Contents(list') = Fifo!Check_Queue(q, s)
    BY <2>1, WalkFacts
  <2>3. CASE Fifo!Matches(q, s) = {}
    <3>1. Contents(list') = q
      BY <2>2, <2>3 DEF Fifo!Check_Queue
    <3> QED BY <1>2, <3>1
  <2>4. CASE Fifo!Matches(q, s) # {}
    <3>1. PICK i \in 1 .. Len(q) : q[i].seq = s
      BY <1>3, <2>4 DEF Fifo!Matches
    <3>2. q[i] \in Msgs
      BY <1>3, SeqFacts
    <3> QED BY <1>2, <2>2, <3>1, <3>2 DEF Fifo!Check
  <2> QED BY <2>3, <2>4
<1>7. CASE Dump
  <2>1. PICK v : IsList(list', v, q)
    BY <1>1, <1>7, DumpStep
  <2>2. Contents(list') = q
    BY <2>1, WalkFacts
  <2> QED BY <1>2, <2>2
<1>8. CASE UNCHANGED list
  <2>1. Contents(list') = q
    BY <1>2, <1>8
  <2> QED BY <1>2, <2>1
<1> QED BY <1>4, <1>5, <1>6, <1>7, <1>8 DEF Next

(* The list is a FIFO for its callers, however long the queue, whatever the *)
(* nodes malloc hands out, and also when entries carry the same SEQ.        *)
THEOREM ListImplementsFifo == Spec => ImplementsFifo
<1>1. Init => Contents(list) = <<>>
  BY EmptyList, WalkFacts DEF Init
<1>2. Init => Fifo!Init
  BY <1>1 DEF Fifo!Init
<1> QED BY <1>2, FifoStep, ListInvariance, PTL DEF Spec, ImplementsFifo, Fifo!Spec
-----------------------------------------------------------------------------
(* RcFile: the inductive invariant.  At each M_fdprint it says what the    *)
(* reader makes of the file up to the place of the writer; between two     *)
(* saves, that some part of the file holds what the last one has written.  *)

Settings == [UIN : Seq(Text), Status : Seq(Text), Reply : Seq(Text)]
Readers == [line : Seq(Text), part : {"settings", "contacts", "crash"},
            settings : Settings, contacts : Seq(Entries)]

\* The list d begins with the list c.
Begins(c, d) == Len(c) <= Len(d) /\ \A k \in 1 .. Len(c) : d[k] = c[k]

\* An entry of the person with a uin.
IsPerson(e, u) == e.kind = "person" /\ e.uin = u

\* AliasesAreNames, of a list.
NamesOnly(c) ==
  \A i, j \in 1 .. Len(c) :
    /\ c[i].kind = "person" /\ Names(c[j], c[i]) /\ c[j].nick # <<>>
    /\ \A k \in 1 .. j - 1 : ~Names(c[k], c[i])
    => c[j].nick[1] \notin Digits \cup Marks

(* Of the contacts in s up to a place, everybody is in a list read from    *)
(* the file, and found there under the same name.                          *)
Wrote(s, i, contacts) ==
  /\ \A k \in 1 .. i : s.contacts[k].kind = "person" => IsIn(s.contacts[k], contacts)
  /\ NamesOnly(s.contacts) => \A u \in UinTexts :
       UIN2nick(contacts, u) = UIN2nick(SubSeq(s.contacts, 1, i), u)

\* The settings are read, and were those in s.
Headed(s, r) == r.part \in {"contacts", "crash"} /\ r.settings = s.settings
HasRoom(r) == r.part = "contacts" /\ Len(r.contacts) < MAXCONTACTS
Holds(s, i, r) == Headed(s, r) /\ (HasRoom(r) => Wrote(s, i, r.contacts))

\* Where the reader is at the place the writer has come to.
At == Read_RC_File(SubSeq(file, 1, pos))

FileTypes ==
  /\ pc \in {"down", "register", "save", "up", "failed"}
  /\ file \in Seq(Chars) \cup {NoFile}
  /\ file = NoFile => pc \in {"down", "register"} /\ added = {} /\ ~cut
  /\ pc = "register" => file = NoFile
  /\ Contacts \in Seq(Entries) /\ UIN \in Seq(Text) /\ Current_Status \in Seq(Text)
  /\ set_status \in Seq(Text) /\ reply \in Seq(Text) /\ auto_resp \in BOOLEAN
  /\ asked \in 0 .. Len(Accounts)
  /\ step \in {"settings", "contact", "line", "aliases"}
  /\ this \in Nat /\ that \in Nat /\ pos \in Nat
  /\ pc # "save" => step = "settings" /\ this = 1 /\ that = 1 /\ pos = 0
  /\ saved \in [contacts : Seq(Entries), settings : Settings]
  /\ written \in 0 .. Len(saved.contacts)
  /\ cut \in BOOLEAN
  /\ added \subseteq [uin : UinTexts, nick : Seq(Text)]

SettingsInv ==
  /\ this = 1 /\ written = 0 /\ that \in 1 .. 5
  /\ At.line = <<>> /\ At.part = "settings" /\ At.contacts = <<>>
  /\ that > 1 => At.settings.UIN = UIN
  /\ that > 2 => At.settings.Status = Current_Status
  /\ that > 4 => At.settings.Reply = reply

Passed(people, i, j) == \A k \in i .. j : people[k].kind = "alias"

ContactInv ==
  /\ this \in 1 .. Len(Contacts) + 1 /\ that = 1
  /\ written < this /\ Passed(Contacts, written + 1, this - 1)
  /\ Holds(saved, written, At) /\ (At.part = "contacts" => At.line = <<>>)

LineInv ==
  /\ this \in 1 .. Len(Contacts) /\ Contacts[this].kind = "person"
  /\ Contacts[this].list \in Marks
  /\ written < this /\ Passed(Contacts, written + 1, this - 1)
  /\ Holds(saved, written, At)
  /\ At.part = "contacts" => At.line = <<Contacts[this].list>>

Gathered(people, i, j, r) ==
  /\ HasRoom(r) => r.contacts # <<>> /\ IsPerson(r.contacts[Len(r.contacts)], people[i].uin)
  /\ r.part = "contacts" =>
       \/ r.line = <<>> /\ \A k \in 1 .. j - 1 : ~Names(people[k], people[i])
       \/ r.line # <<>> /\ (NamesOnly(people) => r.line[1] \notin Digits \cup Marks)

AliasesInv ==
  /\ this \in 1 .. Len(Contacts) /\ Contacts[this].kind = "person"
  /\ written = this /\ that \in 1 .. Len(Contacts) + 1
  /\ Holds(saved, this, At) /\ Gathered(Contacts, this, that, At)

SaveInv ==
  pc = "save" =>
    /\ saved.contacts = Contacts
    /\ saved.settings = [UIN |-> UIN, Status |-> Current_Status, Reply |-> reply]
    /\ pos \in 0 .. Len(file)
    /\ step = "settings" => SettingsInv
    /\ step = "contact" => ContactInv
    /\ step = "line" => LineInv
    /\ step = "aliases" => AliasesInv

Lasting ==
  pc # "save" /\ file # NoFile /\ (~cut \/ written > 0) =>
    \E n \in 0 .. Len(file) : Holds(saved, written, Read_RC_File(SubSeq(file, 1, n)))

Ended ==
  file # NoFile /\ ~cut =>
    IF pc = "save" THEN pos = Len(file) \/ file[Len(file)] = NL
    ELSE file # <<>> /\ file[Len(file)] = NL

AddedKept == pc \in {"up", "save"} => \A a \in added : IsIn(a, Contacts)

FileInv == FileTypes /\ SaveInv /\ Lasting /\ Ended /\ AddedKept /\ AddedIsListed
-----------------------------------------------------------------------------
(* Min of a set of numbers is its least.                                   *)
LEMMA LeastOf ==
  ASSUME NEW T \in SUBSET Nat, T # {}
  PROVE  Min(T) \in T /\ \A m \in T : Min(T) <= m
<1>1. \E n \in T : \A m \in T : n <= m
  BY Numbers!Least
<1> QED BY <1>1 DEF Min

(* Where the first character of a kind stands.                             *)
LEMMA PlaceFacts ==
  ASSUME NEW line, Len(line) \in Nat, NEW from \in 1 .. Len(line) + 1, NEW ends,
         NEW p, p = Place(line, from, ends)
  PROVE  /\ p \in from .. Len(line) + 1
         /\ p = Len(line) + 1 \/ line[p] \in ends
         /\ \A k \in from .. p - 1 : line[k] \notin ends
<1> DEFINE T == {k \in from .. Len(line) + 1 : k = Len(line) + 1 \/ line[k] \in ends}
<1>1. T \in SUBSET Nat /\ Len(line) + 1 \in T
  OBVIOUS
<1>2. p = Min(T)
  BY DEF Place
<1>3. p \in T /\ \A m \in T : p <= m
  BY <1>1, <1>2, LeastOf
<1>4. \A k \in from .. p - 1 : k \in from .. Len(line) + 1 /\ ~(p <= k)
  BY <1>3
<1> QED BY <1>3, <1>4

(* And this place has no other value.                                      *)
LEMMA PlaceIs ==
  ASSUME NEW line, Len(line) \in Nat, NEW from \in 1 .. Len(line) + 1, NEW ends,
         NEW p \in from .. Len(line) + 1, p = Len(line) + 1 \/ line[p] \in ends,
         \A k \in from .. p - 1 : line[k] \notin ends
  PROVE  Place(line, from, ends) = p
<1>1. PICK q : q = Place(line, from, ends)
  OBVIOUS
<1>2. /\ q \in from .. Len(line) + 1
      /\ q = Len(line) + 1 \/ line[q] \in ends
      /\ \A k \in from .. q - 1 : line[k] \notin ends
  BY <1>1, PlaceFacts
<1>3. ~(p < q) /\ ~(q < p)
  BY <1>2
<1> QED BY <1>1, <1>2, <1>3
-----------------------------------------------------------------------------
(* A part of a sequence.                                                   *)
LEMMA PartOf ==
  ASSUME NEW S, NEW s \in Seq(S), NEW m \in Nat \ {0}, NEW n \in Nat, n <= Len(s)
  PROVE  /\ SubSeq(s, m, n) \in Seq(S)
         /\ Len(SubSeq(s, m, n)) = IF m <= n THEN n - m + 1 ELSE 0
         /\ \A i \in 1 .. n - m + 1 : SubSeq(s, m, n)[i] = s[m + i - 1]
<1>1. Len(s) \in Nat
  BY LenProperties
<1>2. \A i \in m .. n : s[i] \in S
  BY <1>1, ElementOfSeq
<1> QED BY <1>2, SubSeqProperties

(* The beginning of a sequence.                                            *)
LEMMA PrefixOf ==
  ASSUME NEW S, NEW s \in Seq(S), NEW n \in 0 .. Len(s)
  PROVE  /\ SubSeq(s, 1, n) \in Seq(S) /\ Len(SubSeq(s, 1, n)) = n
         /\ \A k \in 1 .. n : SubSeq(s, 1, n)[k] = s[k]
<1>1. Len(s) \in Nat
  BY LenProperties
<1>2. n \in Nat /\ n <= Len(s)
  BY <1>1
<1>3. PICK t : t = SubSeq(s, 1, n)
  OBVIOUS
<1>4. /\ t \in Seq(S) /\ Len(t) = IF 1 <= n THEN n - 1 + 1 ELSE 0
      /\ \A k \in 1 .. n - 1 + 1 : t[k] = s[1 + k - 1]
  BY <1>2, <1>3, PartOf
<1>5. Len(t) = n
  BY <1>2, <1>4
<1>6. \A k \in 1 .. n : t[k] = s[k]
  BY <1>2, <1>4
<1> QED BY <1>3, <1>4, <1>5, <1>6

(* A number that is read.                                                  *)
LEMMA UinTyped ==
  ASSUME NEW line \in Seq(Chars)
  PROVE  Uin(line) \in UinTexts
<1>1. PICK end, first : /\ end = Place(line, 1, Chars \ Digits)
                        /\ first = Place(line, 1, Chars \ {"0"})
  OBVIOUS
<1>2. PICK n : n = Len(line)
  OBVIOUS
<1>3. n \in Nat /\ Len(line) \in Nat /\ 1 \in 1 .. Len(line) + 1
  BY <1>2, LenProperties
<1>4. /\ end \in 1 .. n + 1 /\ first \in 1 .. n + 1
      /\ first = n + 1 \/ line[first] \in Chars \ {"0"}
      /\ \A k \in 1 .. end - 1 : line[k] \notin Chars \ Digits
  BY <1>1, <1>2, <1>3, PlaceFacts
<1>5. Uin(line) = IF first >= end THEN Zero ELSE SubSeq(line, first, end - 1)
  BY <1>1 DEF Uin
<1>6. Zero \in UinTexts
  <2>1. Zero \in Seq(Digits) /\ Zero # <<>>
    BY CharsAssumption DEF Zero
  <2> QED BY <2>1 DEF UinTexts
<1>7. CASE first < end
  <2>1. \A k \in first .. end - 1 : line[k] \in Digits
    <3>0. first \in Nat /\ first >= 1 /\ end \in Nat /\ end <= n + 1
      BY <1>3, <1>4
    <3>1. \A k \in first .. end - 1 : k \in 1 .. end - 1 /\ k \in 1 .. n
      BY <1>3, <3>0
    <3>2. \A k \in 1 .. n : line[k] \in Chars
      BY <1>2, ElementOfSeq
    <3> QED BY <1>4, <3>1, <3>2
  <2>2. PICK u : u = SubSeq(line, first, end - 1)
    OBVIOUS
  <2>3. u \in Seq(Digits) /\ Len(u) = end - 1 - first + 1 /\ u[1] = line[first]
    BY <1>4, <1>7, <2>1, <2>2, SubSeqProperties
  <2>4. u # <<>> /\ u[1] # "0"
    BY <1>4, <1>7, <2>3
  <2>5. Uin(line) = u
    BY <1>4, <1>5, <1>7, <2>2
  <2> QED BY <2>3, <2>4, <2>5 DEF UinTexts
<1> QED BY <1>4, <1>5, <1>6, <1>7

(* The line of a contact, before its newline.                              *)
LineText(uin, nick) == uin \o <<Space>> \o nick

(* The digits of the uin come first, then a space and the name.            *)
LEMMA LineTextIs ==
  ASSUME NEW u \in UinTexts, NEW w \in Seq(Text)
  PROVE  /\ LineText(u, w) \in Seq(Text)
         /\ Len(LineText(u, w)) = Len(u) + 1 + Len(w)
         /\ \A k \in 1 .. Len(u) : LineText(u, w)[k] = u[k]
         /\ LineText(u, w)[Len(u) + 1] = Space
         /\ \A k \in 1 .. Len(w) : LineText(u, w)[Len(u) + 1 + k] = w[k]
         /\ u \in Seq(Text) /\ Len(u) \in Nat \ {0} /\ Len(w) \in Nat
         /\ \A k \in 1 .. Len(u) : u[k] \in Digits
<1>1. Digits \subseteq Text /\ Space \in Text /\ u \in Seq(Digits) /\ u # <<>>
  BY CharsAssumption DEF Text, UinTexts, NL, Space
<1>2. u \in Seq(Text) /\ <<Space>> \in Seq(Text) /\ Len(<<Space>>) = 1 /\ <<Space>>[1] = Space
  BY <1>1
<1>3. Len(u) \in Nat \ {0} /\ Len(w) \in Nat /\ \A k \in 1 .. Len(u) : u[k] \in Digits
  BY <1>1, LenProperties, EmptySeq, ElementOfSeq
<1>4. PICK v : v = u \o <<Space>>
  OBVIOUS
<1>5. /\ v \in Seq(Text) /\ Len(v) = Len(u) + 1
      /\ \A k \in 1 .. Len(u) + 1 : v[k] = IF k <= Len(u) THEN u[k] ELSE <<Space>>[k - Len(u)]
  BY <1>2, <1>4, ConcatProperties
<1>6. PICK l : l = v \o w
  OBVIOUS
<1>7. /\ l \in Seq(Text) /\ Len(l) = Len(v) + Len(w)
      /\ \A k \in 1 .. Len(v) + Len(w) : l[k] = IF k <= Len(v) THEN v[k] ELSE w[k - Len(v)]
  BY <1>5, <1>6, ConcatProperties
<1>8. LineText(u, w) = l
  BY <1>4, <1>6 DEF LineText
<1>9. \A k \in 1 .. Len(u) : l[k] = u[k]
  BY <1>3, <1>5, <1>7
<1>10. l[Len(u) + 1] = Space
  BY <1>2, <1>3, <1>5, <1>7
<1>11. ASSUME NEW k \in 1 .. Len(w) PROVE l[Len(u) + 1 + k] = w[k]
  <2>1. PICK m : m = Len(u) + 1 + k
    OBVIOUS
  <2>2. m \in 1 .. Len(v) + Len(w) /\ ~(m <= Len(v)) /\ m - Len(v) = k
    BY <1>3, <1>5, <2>1
  <2> QED BY <1>7, <2>1, <2>2
<1> QED BY <1>2, <1>3, <1>5, <1>7, <1>8, <1>9, <1>10, <1>11

(* A contact is read as it was written.                                    *)
LEMMA ContactRead ==
  ASSUME NEW u \in UinTexts, NEW w \in Seq(Text)
  PROVE  Uin(LineText(u, w)) = u /\ Nick(LineText(u, w)) = w
<1>1. PICK l, n, m : l = LineText(u, w) /\ n = Len(u) /\ m = Len(w)
  OBVIOUS
<1>2. /\ l \in Seq(Text) /\ Len(l) = n + 1 + m
      /\ \A k \in 1 .. n : l[k] = u[k]
      /\ l[n + 1] = Space
      /\ \A k \in 1 .. m : l[n + 1 + k] = w[k]
      /\ u \in Seq(Text) /\ n \in Nat \ {0} /\ m \in Nat
      /\ \A k \in 1 .. n : u[k] \in Digits
  BY <1>1, LineTextIs
<1>3. Len(l) \in Nat /\ 1 \in 1 .. Len(l) + 1 /\ n + 1 \in 1 .. Len(l) + 1
  BY <1>2
<1>4. Space \in Chars \ Digits /\ "0" # Space
  BY CharsAssumption DEF Space
<1>5. Place(l, 1, Chars \ Digits) = n + 1
  <2>1. \A k \in 1 .. (n + 1) - 1 : l[k] \notin Chars \ Digits
    BY <1>2
  <2> QED BY <1>2, <1>3, <1>4, <2>1, PlaceIs
<1>6. Place(l, 1, {Space}) = n + 1
  <2>1. \A k \in 1 .. (n + 1) - 1 : l[k] \notin {Space}
    BY <1>2, <1>4
  <2> QED BY <1>2, <1>3, <2>1, PlaceIs
<1>7. Nick(l) = w
  <2>1. PICK v : v = SubSeq(l, n + 2, n + 1 + m)
    OBVIOUS
  <2>2. v \in Seq(Text) /\ Len(v) = m /\ \A k \in 1 .. m : v[k] = l[n + 2 + k - 1]
    <3>1. /\ v \in Seq(Text)
          /\ Len(v) = IF n + 2 <= n + 1 + m THEN n + 1 + m - (n + 2) + 1 ELSE 0
          /\ \A k \in 1 .. n + 1 + m - (n + 2) + 1 : v[k] = l[n + 2 + k - 1]
      BY <1>2, <2>1, PartOf
    <3> QED BY <1>2, <3>1
  <2>3. \A k \in 1 .. m : v[k] = w[k]
    BY <1>2, <2>2
  <2>4. v = w
    BY <1>1, <2>2, <2>3, SeqEqual
  <2>5. Place(l, 1, {Space}) + 1 = n + 2
    BY <1>2, <1>6
  <2> QED BY <1>2, <2>1, <2>4, <2>5 DEF Nick
<1>8. Uin(l) = u
  <2>1. CASE u[1] = "0"
    <3>1. u = Zero /\ n = 1
      BY <1>1, <2>1 DEF UinTexts, Zero
    <3>2. l[1] = "0"
      BY <1>2, <2>1
    <3>3. Place(l, 1, Chars \ {"0"}) = 2
      <4>1. \A k \in 1 .. 2 - 1 : l[k] \notin Chars \ {"0"}
        BY <3>2
      <4>2. 2 \in 1 .. Len(l) + 1 /\ l[2] = Space
        BY <1>2, <3>1
      <4> QED BY <1>3, <1>4, <4>1, <4>2, PlaceIs
    <3> QED BY <1>5, <3>1, <3>3 DEF Uin
  <2>2. CASE u[1] # "0"
    <3>1. l[1] \in Chars \ {"0"}
      BY <1>2, <2>2, CharsAssumption
    <3>2. Place(l, 1, Chars \ {"0"}) = 1
      <4>1. \A k \in 1 .. 1 - 1 : l[k] \notin Chars \ {"0"}
        OBVIOUS
      <4> QED BY <1>3, <3>1, <4>1, PlaceIs
    <3>3. Uin(l) = SubSeq(l, 1, n)
      <4>1. PICK end, first : /\ end = Place(l, 1, Chars \ Digits)
                              /\ first = Place(l, 1, Chars \ {"0"})
        OBVIOUS
      <4>2. end = n + 1 /\ first = 1
        BY <1>5, <3>2, <4>1
      <4>3. ~(first >= end) /\ end - 1 = n
        BY <1>2, <4>2
      <4>4. Uin(l) = IF first >= end THEN Zero ELSE SubSeq(l, first, end - 1)
        BY <4>1 DEF Uin
      <4> QED BY <4>2, <4>3, <4>4
    <3>4. PICK v : v = SubSeq(l, 1, n)
      OBVIOUS
    <3>5. v \in Seq(Text) /\ Len(v) = n /\ \A k \in 1 .. n : v[k] = l[k]
      <4>1. /\ v \in Seq(Text) /\ Len(v) = IF 1 <= n THEN n - 1 + 1 ELSE 0
            /\ \A k \in 1 .. n - 1 + 1 : v[k] = l[1 + k - 1]
        BY <1>2, <3>4, PartOf
      <4> QED BY <1>2, <4>1
    <3>6. v = u
      BY <1>1, <1>2, <3>5, SeqEqual
    <3> QED BY <3>3, <3>4, <3>6
  <2> QED BY <2>1, <2>2
<1> QED BY <1>1, <1>7, <1>8
-----------------------------------------------------------------------------
(* The words of a line.                                                    *)
LEMMA WordsTyped ==
  ASSUME NEW line \in Seq(Text)
  PROVE  Words(line) \in Seq(Seq(Text))
<1> DEFINE n == Len(line)
           Step(f, k) ==
             IF k = 0 THEN <<>>
             ELSE LET w == f[k - 1]
                  IN  IF line[k] = Space THEN w
                      ELSE IF k = 1 \/ line[k - 1] = Space THEN Append(w, <<line[k]>>)
                      ELSE [w EXCEPT ![Len(w)] = Append(@, line[k])]
           Steps(f, k) == f = [j \in 0 .. k |-> Step(f, j)]
           K == {k \in Nat : \E f : Steps(f, k)}
<1>1. n \in Nat /\ \A k \in 1 .. n : line[k] \in Text
  BY LenProperties, ElementOfSeq
<1>2. /\ \A f : Step(f, 0) = <<>>
      /\ \A f, g, k : k = 0 \/ f[k - 1] = g[k - 1] => Step(f, k) = Step(g, k)
  OBVIOUS
<1>3. \A f, k : k # 0 =>
        Step(f, k) = IF line[k] = Space THEN f[k - 1]
                     ELSE IF k = 1 \/ line[k - 1] = Space THEN Append(f[k - 1], <<line[k]>>)
                     ELSE [f[k - 1] EXCEPT ![Len(f[k - 1])] = Append(@, line[k])]
  OBVIOUS
<1> HIDE DEF Step
<1>4. 0 \in K
  <2>1. PICK f : f = [j \in 0 .. 0 |-> <<>>]
    OBVIOUS
  <2>2. \A j \in 0 .. 0 : Step(f, j) = <<>>
    BY <1>2
  <2>3. Steps(f, 0)
    BY <2>1, <2>2
  <2> HIDE DEF Steps
  <2> QED BY <2>3
<1>5. ASSUME NEW k \in K PROVE k + 1 \in K
  <2>1. PICK g : Steps(g, k)
    OBVIOUS
  <2>2. k \in Nat
    OBVIOUS
  <2>3. PICK h : h = [j \in 0 .. k + 1 |-> Step(g, j)]
    OBVIOUS
  <2>4. \A j \in 0 .. k : h[j] = g[j]
    <3>1. \A j \in 0 .. k : g[j] = Step(g, j)
      BY <2>1
    <3>2. \A j \in 0 .. k : j \in 0 .. k + 1
      BY <2>2
    <3> QED BY <2>3, <3>1, <3>2
  <2>5. \A j \in 0 .. k + 1 : Step(g, j) = Step(h, j)
    <3>1. \A j \in 0 .. k + 1 : j = 0 \/ j - 1 \in 0 .. k
      BY <2>2
    <3>2. \A j \in 0 .. k + 1 : j = 0 \/ g[j - 1] = h[j - 1]
      BY <2>4, <3>1
    <3> QED BY <1>2, <3>2
  <2>6. h = [j \in 0 .. k + 1 |-> Step(h, j)]
    BY <2>3, <2>5
  <2>7. Steps(h, k + 1)
    BY <2>6
  <2> HIDE DEF Steps
  <2> QED BY <2>2, <2>7
<1>6. K = Nat
  <2> HIDE DEF K
  <2>1. K \in SUBSET Nat
    BY DEF K
  <2> QED BY <1>4, <1>5, <2>1, Numbers!SetInduction
<1>7. PICK g : Steps(g, n)
  BY <1>1, <1>6
<1> DEFINE words == CHOOSE f : f = [k \in 0 .. Len(line) |-> Step(f, k)]
<1>8. words = [k \in 0 .. n |-> Step(words, k)]
  BY <1>7
<1>9. Words(line) = words[n]
  BY DEF Words, Step
<1> HIDE DEF words, K, Steps
<1> DEFINE Is(k) == /\ words[k] \in Seq(Seq(Text))
                    /\ k # 0 /\ line[k] # Space => words[k] # <<>>
           T == {k \in Nat : k <= n => Is(k)}
<1>10. 0 \in T
  <2>1. 0 \in 0 .. n
    BY <1>1
  <2>2. words[0] = <<>>
    BY <1>2, <1>8, <2>1
  <2>3. Is(0)
    <3>1. <<>> \in Seq(Seq(Text))
      OBVIOUS
    <3> QED BY <2>2, <3>1
  <2> HIDE DEF Is
  <2> QED BY <2>3
<1>11. ASSUME NEW k \in T PROVE k + 1 \in T
  <2>0. k \in Nat
    OBVIOUS
  <2>1. SUFFICES ASSUME k + 1 <= n PROVE Is(k + 1)
    BY <2>0
  <2>2. PICK m : m = k + 1
    OBVIOUS
  <2>3. Is(k) /\ k <= n /\ m \in 0 .. n /\ m \in 1 .. n /\ m - 1 = k
    BY <1>1, <2>0, <2>1, <2>2
  <2>4. PICK w, c : w = words[k] /\ c = line[m]
    OBVIOUS
  <2>5. /\ w \in Seq(Seq(Text)) /\ (k # 0 /\ line[k] # Space => w # <<>>)
        /\ c \in Text /\ m # 0
    BY <1>1, <2>3, <2>4
  <2>6. words[m] = Step(words, m)
    BY <1>8, <2>3
  <2>7. words[m] = IF c = Space THEN w
                   ELSE IF m = 1 \/ line[k] = Space THEN Append(w, <<c>>)
                   ELSE [w EXCEPT ![Len(w)] = Append(@, c)]
    BY <1>3, <2>3, <2>4, <2>5, <2>6
  <2>8. CASE c = Space
    BY <2>2, <2>4, <2>5, <2>7, <2>8
  <2>9. CASE c # Space /\ (m = 1 \/ line[k] = Space)
    <3>1. <<c>> \in Seq(Text)
      BY <2>5
    <3>2. Append(w, <<c>>) \in Seq(Seq(Text)) /\ Append(w, <<c>>) # <<>>
      BY <2>5, <3>1, AppendProperties
    <3> QED BY <2>2, <2>7, <2>9, <3>2
  <2>10. CASE c # Space /\ ~(m = 1 \/ line[k] = Space)
    <3>1. w # <<>> /\ Len(w) \in 1 .. Len(w)
      <4>1. w # <<>>
        BY <2>2, <2>0, <2>5, <2>10
      <4> QED BY <2>5, <4>1, LenProperties, EmptySeq
    <3>2. PICK l : l = Len(w)
      OBVIOUS
    <3>3. w[l] \in Seq(Text)
      BY <2>5, <3>1, <3>2, ElementOfSeq
    <3>4. PICK x : x = Append(w[l], c)
      OBVIOUS
    <3>5. x \in Seq(Text)
      BY <2>5, <3>3, <3>4, AppendProperties
    <3>6. PICK v : v = [w EXCEPT ![l] = x]
      OBVIOUS
    <3>7. v \in Seq(Seq(Text)) /\ Len(v) = l
      BY <2>5, <3>1, <3>2, <3>5, <3>6, ExceptSeq
    <3>8. v # <<>>
      BY <2>5, <3>1, <3>2, <3>7
    <3>9. words[m] = v
      BY <2>7, <2>10, <3>2, <3>4, <3>6
    <3> QED BY <2>2, <3>7, <3>8, <3>9
  <2> QED BY <2>8, <2>9, <2>10
<1>12. T = Nat
  <2> HIDE DEF T
  <2>1. T \in SUBSET Nat
    BY DEF T
  <2> QED BY <1>10, <1>11, <2>1, Numbers!SetInduction
<1>13. Is(n)
  BY <1>1, <1>12
<1> QED BY <1>9, <1>13
-----------------------------------------------------------------------------
(* What a line of the contact list adds is typed.                          *)
LEMMA EntryTyped ==
  ASSUME NEW kind \in {"person", "alias"}, NEW uin \in UinTexts,
         NEW nick \in Seq(Text), NEW people \in Lists
  PROVE  Entry(kind, uin, nick, people) \in Entries
BY DEF Entry, Entries

(* Text is a line without newlines.                                        *)
LEMMA TextIsChars ==
  ASSUME NEW line \in Seq(Text)
  PROVE  line \in Seq(Chars) /\ Len(line) \in Nat
<1>1. Text \subseteq Chars
  BY DEF Text
<1> QED BY <1>1, SeqMonotonic, LenProperties

(* What Nick and Trimmed leave of a line is text.                          *)
LEMMA RestTyped ==
  ASSUME NEW line \in Seq(Text)
  PROVE  Nick(line) \in Seq(Text) /\ Trimmed(line) \in Seq(Text)
<1>1. Len(line) \in Nat /\ 1 \in 1 .. Len(line) + 1
  BY LenProperties
<1>2. PICK p, q : p = Place(line, 1, {Space}) /\ q = Place(line, 1, Chars \ {Space})
  OBVIOUS
<1>3. p \in 1 .. Len(line) + 1 /\ q \in 1 .. Len(line) + 1
  BY <1>1, <1>2, PlaceFacts
<1>4. SubSeq(line, p + 1, Len(line)) \in Seq(Text)
  <2>1. p + 1 \in Nat \ {0}
    BY <1>1, <1>3
  <2> QED BY <1>1, <2>1, PartOf
<1>5. SubSeq(line, q, Len(line)) \in Seq(Text)
  <2>1. q \in Nat \ {0}
    BY <1>1, <1>3
  <2> QED BY <1>1, <2>1, PartOf
<1> QED BY <1>2, <1>4, <1>5 DEF Nick, Trimmed

(* A line with a mark gives an entry.                                      *)
LEMMA ListedTyped ==
  ASSUME NEW mark \in Marks, NEW line \in Seq(Text), line # <<>>
  PROVE  Listed(mark, line) \in Entries
<1>1. Tail(line) \in Seq(Text)
  BY HeadTailProperties
<1>2. PICK part : part = IF line[1] \in Signs THEN Tail(line) ELSE line
  OBVIOUS
<1>3. part \in Seq(Chars)
  BY <1>1, <1>2, TextIsChars
<1>4. PICK uin : uin = Uin(part)
  OBVIOUS
<1>5. uin \in UinTexts
  BY <1>3, <1>4, UinTyped
<1>6. PICK kind : kind = Signed(uin, line[1] = "-")
  OBVIOUS
<1>7. kind \in {"person", "alias"}
  BY <1>6 DEF Signed
<1>8. mark \in Lists
  BY DEF Lists
<1>9. Entry(kind, uin, Nick(line), mark) \in Entries
  BY <1>5, <1>7, <1>8, RestTyped, EntryTyped
<1>10. Listed(mark, line) = Entry(kind, uin, Nick(line), mark)
  BY <1>2, <1>4, <1>6 DEF Listed
<1> QED BY <1>9, <1>10

\* The entry whose aliases a line holds.
LastEntry(contacts) ==
  IF contacts = <<>> THEN Entry("person", Zero, <<>>, "") ELSE contacts[Len(contacts)]

(* A line of aliases gives entries with the uin of the entry before.       *)
LEMMA AliasesTyped ==
  ASSUME NEW contacts \in Seq(Entries), NEW line \in Seq(Text)
  PROVE  /\ Aliases(contacts, line) \in Seq(Entries)
         /\ LastEntry(contacts) \in Entries
         /\ \A k \in 1 .. Len(Aliases(contacts, line)) :
              /\ Aliases(contacts, line)[k].uin = LastEntry(contacts).uin
              /\ Aliases(contacts, line)[k].kind =
                   Signed(LastEntry(contacts).uin, LastEntry(contacts).kind = "person")
<1>1. PICK before : before = LastEntry(contacts)
  OBVIOUS
<1>2. Zero \in UinTexts
  <2>1. Zero \in Seq(Digits) /\ Zero # <<>>
    BY CharsAssumption DEF Zero
  <2> QED BY <2>1 DEF UinTexts
<1>3. before \in Entries
  <2>1. CASE contacts = <<>>
    <3>1. "" \in Lists /\ <<>> \in Seq(Text)
      BY DEF Lists
    <3> QED BY <1>1, <1>2, <2>1, <3>1, EntryTyped DEF LastEntry
  <2>2. CASE contacts # <<>>
    <3>1. Len(contacts) \in 1 .. Len(contacts)
      BY <2>2, LenProperties, EmptySeq
    <3> QED BY <1>1, <2>2, <3>1, ElementOfSeq DEF LastEntry
  <2> QED BY <2>1, <2>2
<1>4. PICK kind : kind = Signed(before.uin, before.kind = "person")
  OBVIOUS
<1>5. kind \in {"person", "alias"} /\ before.uin \in UinTexts
  BY <1>3, <1>4 DEF Signed, Entries
<1>6. PICK words : words = Words(line)
  OBVIOUS
<1>7. words \in Seq(Seq(Text)) /\ Len(words) \in Nat
  BY <1>6, WordsTyped, LenProperties
<1>8. PICK new : new = [k \in 1 .. Len(words) |-> Entry(kind, before.uin, words[k], "")]
  OBVIOUS
<1>9. Aliases(contacts, line) = new
  BY <1>1, <1>4, <1>6, <1>8 DEF Aliases, LastEntry
<1>10. \A k \in 1 .. Len(words) : Entry(kind, before.uin, words[k], "") \in Entries
  <2>1. "" \in Lists /\ \A k \in 1 .. Len(words) : words[k] \in Seq(Text)
    BY <1>7, ElementOfSeq DEF Lists
  <2> QED BY <1>5, <2>1, EntryTyped
<1>11. new \in Seq(Entries) /\ Len(new) = Len(words)
  <2> DEFINE e(k) == Entry(kind, before.uin, words[k], "")
  <2>1. new = [k \in 1 .. Len(words) |-> e(k)] /\ \A k \in 1 .. Len(words) : e(k) \in Entries
    BY <1>8, <1>10
  <2> HIDE DEF e
  <2> QED BY <1>7, <2>1
<1>12. \A k \in 1 .. Len(new) : new[k].uin = before.uin /\ new[k].kind = kind
  BY <1>8, <1>11 DEF Entry
<1> QED BY <1>1, <1>3, <1>4, <1>9, <1>11, <1>12

\* The reader stops at this line.
Alone(line) == IsMark(line) /\ Trimmed(Tail(line)) = <<>>

(* Any line but a mark alone gives entries.                                *)
LEMMA NewTyped ==
  ASSUME NEW contacts \in Seq(Entries), NEW line \in Seq(Text), ~Alone(line)
  PROVE  NewEntries(contacts, line) \in Seq(Entries)
<1>1. CASE line = <<>> \/ line[1] = "#"
  <2>1. <<>> \in Seq(Entries)
    OBVIOUS
  <2> QED BY <1>1, <2>1 DEF NewEntries
<1>2. CASE ~(line = <<>> \/ line[1] = "#") /\ line[1] \in Digits
  <2>1. Uin(line) \in UinTexts /\ Nick(line) \in Seq(Text) /\ "" \in Lists
    BY TextIsChars, UinTyped, RestTyped DEF Lists
  <2>2. Contact(line) \in Entries
    BY <2>1, EntryTyped DEF Contact
  <2>3. <<Contact(line)>> \in Seq(Entries)
    BY <2>2
  <2> QED BY <1>2, <2>3 DEF NewEntries
<1>3. CASE ~(line = <<>> \/ line[1] = "#") /\ line[1] \notin Digits /\ IsMark(line)
  <2>1. PICK rest : rest = Trimmed(Tail(line))
    OBVIOUS
  <2>2. rest \in Seq(Text)
    BY <1>3, <2>1, HeadTailProperties, RestTyped
  <2>3. rest # <<>> /\ line[1] \in Marks
    BY <1>3, <2>1 DEF Alone, IsMark
  <2>4. Listed(line[1], rest) \in Entries
    BY <2>2, <2>3, ListedTyped
  <2>5. <<Listed(line[1], rest)>> \in Seq(Entries)
    BY <2>4
  <2> QED BY <1>3, <2>1, <2>5 DEF NewEntries
<1>4. CASE ~(line = <<>> \/ line[1] = "#") /\ line[1] \notin Digits /\ ~IsMark(line)
  BY <1>4, AliasesTyped DEF NewEntries
<1> QED BY <1>1, <1>2, <1>3, <1>4
-----------------------------------------------------------------------------
(* One character more.                                                     *)
LEMMA BlankTyped == Blank \in Readers
<1>1. "0" \in Text
  BY CharsAssumption DEF Text, NL
<1>2. <<"0">> \in Seq(Text) /\ <<>> \in Seq(Text) /\ <<>> \in Seq(Entries)
  BY <1>1
<1>3. DefaultMessage \in Seq(Text)
  BY TextsAssumption
<1>4. PICK settings : settings = [UIN |-> <<>>, Status |-> <<"0">>, Reply |-> DefaultMessage]
  OBVIOUS
<1>5. settings \in Settings
  BY <1>2, <1>3, <1>4 DEF Settings
<1> QED BY <1>2, <1>4, <1>5 DEF Blank, Readers

(* A character of a line.                                                  *)
LEMMA TextAdded ==
  ASSUME NEW r \in Readers, r.part # "crash", NEW c \in Text
  PROVE  /\ ReadChar(r, c) \in Readers
         /\ ReadChar(r, c) = [r EXCEPT !.line = Append(r.line, c)]
<1>1. c # NL
  BY DEF Text
<1>2. ReadChar(r, c) = [r EXCEPT !.line = Append(r.line, c)]
  BY <1>1 DEF ReadChar, Readers
<1>3. PICK l : l = Append(r.line, c)
  OBVIOUS
<1>4. r.line \in Seq(Text)
  BY DEF Readers
<1>5. l \in Seq(Text)
  BY <1>3, <1>4, AppendProperties
<1>6. [r EXCEPT !.line = l] \in Readers
  BY <1>5 DEF Readers
<1> QED BY <1>2, <1>3, <1>6

(* The newline after a line of the settings.                               *)
LEMMA SettingRead ==
  ASSUME NEW r \in Readers, r.part = "settings"
  PROVE  /\ ReadChar(r, NL) \in Readers
         /\ ReadChar(r, NL).line = <<>>
         /\ ReadChar(r, NL).contacts = r.contacts
         /\ ReadChar(r, NL).part =
              IF r.line # <<>> /\ r.line[1] = "Contacts" THEN "contacts" ELSE "settings"
         /\ ReadChar(r, NL).settings = [UIN |-> Told(r.line, "UIN", r.settings.UIN),
                                        Status |-> Told(r.line, "Status", r.settings.Status),
                                        Reply |-> Told(r.line, "Reply", r.settings.Reply)]
<1>1. r.line \in Seq(Text) /\ r.contacts \in Seq(Entries) /\ r.settings \in Settings
  BY DEF Readers
<1>2. ReadChar(r, NL) = ReadSetting(r)
  BY DEF ReadChar
<1>3. PICK part : part = IF r.line # <<>> /\ r.line[1] = "Contacts" THEN "contacts" ELSE "settings"
  OBVIOUS
<1>4. PICK u, s, m : /\ u = Told(r.line, "UIN", r.settings.UIN)
                     /\ s = Told(r.line, "Status", r.settings.Status)
                     /\ m = Told(r.line, "Reply", r.settings.Reply)
  OBVIOUS
<1>5. u \in Seq(Text) /\ s \in Seq(Text) /\ m \in Seq(Text)
  <2>1. r.line # <<>> => Tail(r.line) \in Seq(Text)
    BY <1>1, HeadTailProperties
  <2>2. r.settings.UIN \in Seq(Text) /\ r.settings.Status \in Seq(Text) /\ r.settings.Reply \in Seq(Text)
    BY <1>1 DEF Settings
  <2> QED BY <1>4, <2>1, <2>2 DEF Told
<1>6. PICK settings : settings = [UIN |-> u, Status |-> s, Reply |-> m]
  OBVIOUS
<1>7. settings \in Settings
  BY <1>5, <1>6 DEF Settings
<1>8. ReadSetting(r) = [line |-> <<>>, part |-> part, settings |-> settings, contacts |-> r.contacts]
  BY <1>3, <1>4, <1>6 DEF ReadSetting
<1>9. PICK q : q = [line |-> <<>>, part |-> part, settings |-> settings, contacts |-> r.contacts]
  OBVIOUS
<1>10. part \in {"settings", "contacts", "crash"} /\ <<>> \in Seq(Text)
  BY <1>3
<1>11. q \in Readers /\ q.line = <<>> /\ q.part = part /\ q.settings = settings /\ q.contacts = r.contacts
  BY <1>1, <1>7, <1>9, <1>10 DEF Readers
<1> QED BY <1>2, <1>3, <1>4, <1>6, <1>8, <1>9, <1>11

(* The newline after a line of the contacts.                               *)
LEMMA ListRead ==
  ASSUME NEW r \in Readers, r.part = "contacts"
  PROVE  /\ ReadChar(r, NL) \in Readers
         /\ ReadChar(r, NL).line = <<>>
         /\ ReadChar(r, NL).settings = r.settings
         /\ ReadChar(r, NL).part =
              IF Len(r.contacts) # MAXCONTACTS /\ Alone(r.line) THEN "crash" ELSE "contacts"
         /\ ReadChar(r, NL).contacts =
              IF Len(r.contacts) = MAXCONTACTS \/ Alone(r.line) THEN r.contacts
              ELSE r.contacts \o NewEntries(r.contacts, r.line)
<1>1. r.line \in Seq(Text) /\ r.contacts \in Seq(Entries) /\ r.settings \in Settings
  BY DEF Readers
<1>2. ReadChar(r, NL) = ReadContact(r) /\ <<>> \in Seq(Text)
  BY DEF ReadChar
<1>3. CASE Len(r.contacts) = MAXCONTACTS
  <2>1. ReadContact(r) = [r EXCEPT !.line = <<>>]
    BY <1>3 DEF ReadContact
  <2> QED BY <1>2, <1>3, <2>1 DEF Readers
<1>4. CASE Len(r.contacts) # MAXCONTACTS /\ Alone(r.line)
  <2>1. ReadContact(r) = [r EXCEPT !.line = <<>>, !.part = "crash"]
    BY <1>4, Zenon DEF ReadContact, Alone
  <2>2. PICK s : s = [r EXCEPT !.line = <<>>]
    OBVIOUS
  <2>3. PICK q : q = [s EXCEPT !.part = "crash"]
    OBVIOUS
  <2>4. s \in Readers /\ s.line = <<>> /\ s.settings = r.settings /\ s.contacts = r.contacts
    BY <1>2, <2>2 DEF Readers
  <2>5. q \in Readers /\ q.line = <<>> /\ q.part = "crash" /\ q.settings = r.settings
        /\ q.contacts = r.contacts
    BY <2>3, <2>4 DEF Readers
  <2>6. q = [r EXCEPT !.line = <<>>, !.part = "crash"]
    BY <2>2, <2>3 DEF Readers
  <2> QED BY <1>2, <1>4, <2>1, <2>5, <2>6
<1>5. CASE Len(r.contacts) # MAXCONTACTS /\ ~Alone(r.line)
  <2>1. PICK new : new = r.contacts \o NewEntries(r.contacts, r.line)
    OBVIOUS
  <2>2. new \in Seq(Entries)
    BY <1>1, <1>5, <2>1, NewTyped, ConcatProperties
  <2>3. PICK q : q = [line |-> <<>>, part |-> r.part, settings |-> r.settings, contacts |-> new]
    OBVIOUS
  <2>4. ReadContact(r) = q
    BY <1>5, <2>1, <2>3, Zenon DEF ReadContact, Alone
  <2>5. q \in Readers /\ q.line = <<>> /\ q.part = r.part /\ q.settings = r.settings
        /\ q.contacts = new
    BY <1>1, <1>2, <2>2, <2>3 DEF Readers
  <2> QED BY <1>2, <1>5, <2>1, <2>4, <2>5
<1> QED BY <1>3, <1>4, <1>5

(* Whatever is read, the reader stays within its types.                    *)
LEMMA CharTyped ==
  ASSUME NEW r \in Readers, NEW c \in Chars
  PROVE  ReadChar(r, c) \in Readers
<1>1. CASE r.part = "crash"
  BY <1>1 DEF ReadChar
<1>2. CASE r.part # "crash" /\ c # NL
  <2>1. c \in Text
    BY <1>2 DEF Text
  <2> QED BY <1>2, <2>1, TextAdded
<1>3. CASE r.part # "crash" /\ c = NL
  <2>1. r.part \in {"settings", "contacts"}
    BY <1>3 DEF Readers
  <2> QED BY <1>3, <2>1, SettingRead, ListRead
<1> QED BY <1>1, <1>2, <1>3
-----------------------------------------------------------------------------
(* Induction over sequences that grow at their end.                        *)
LEMMA SequenceInduction ==
  ASSUME NEW S, NEW T \in SUBSET Seq(S), <<>> \in T,
         \A s \in T, c \in S : Append(s, c) \in T
  PROVE  T = Seq(S)
<1> DEFINE K == {n \in Nat : \A s \in Seq(S) : Len(s) = n => s \in T}
<1>1. 0 \in K
  BY EmptySeq
<1>2. ASSUME NEW n \in K PROVE n + 1 \in K
  <2>1. n \in Nat
    OBVIOUS
  <2>2. ASSUME NEW s \in Seq(S), Len(s) = n + 1 PROVE s \in T
    <3>1. PICK t, c : t = SubSeq(s, 1, n) /\ c = s[n + 1]
      OBVIOUS
    <3>2. /\ t \in Seq(S) /\ Len(t) = n /\ c \in S
          /\ \A k \in 1 .. n : t[k] = s[k]
      <4>1. \A k \in 1 .. n + 1 : s[k] \in S
        BY <2>2, ElementOfSeq
      <4>2. c \in S
        BY <2>1, <3>1, <4>1
      <4>3. n \in 0 .. Len(s)
        BY <2>1, <2>2
      <4> QED BY <2>2, <3>1, <4>2, <4>3, PrefixOf
    <3>3. t \in T
      BY <3>2
    <3>4. PICK v : v = Append(t, c)
      OBVIOUS
    <3>5. /\ v \in Seq(S) /\ Len(v) = n + 1 /\ v[n + 1] = c
          /\ \A k \in 1 .. n : v[k] = t[k]
      BY <3>2, <3>4, AppendProperties
    <3>6. \A k \in 1 .. n + 1 : v[k] = s[k]
      <4>1. \A k \in 1 .. n + 1 : k \in 1 .. n \/ k = n + 1
        BY <2>1
      <4> QED BY <3>1, <3>2, <3>5, <4>1
    <3>7. v = s
      BY <2>2, <3>5, <3>6, SeqEqual
    <3> QED BY <3>2, <3>3, <3>4, <3>7
  <2> QED BY <2>1, <2>2
<1>3. K = Nat
  <2> HIDE DEF K
  <2>1. K \in SUBSET Nat
    BY DEF K
  <2> QED BY <1>1, <1>2, <2>1, Numbers!SetInduction
<1>4. \A s \in Seq(S) : Len(s) \in K
  BY <1>3, LenProperties
<1> QED BY <1>4

(* A character behind two sequences is one behind the second.              *)
LEMMA ConcatAppend ==
  ASSUME NEW S, NEW f \in Seq(S), NEW g \in Seq(S), NEW c \in S,
         NEW h, h = Append(g, c), NEW k, k = f \o g
  PROVE  f \o h = Append(k, c)
<1>1. <<c>> \in Seq(S) /\ f \o g \in Seq(S)
  BY ConcatProperties
<1>2. Append(g, c) = g \o <<c>> /\ Append(f \o g, c) = (f \o g) \o <<c>>
  BY <1>1, AppendIsConcat
<1>3. (f \o g) \o <<c>> = f \o (g \o <<c>>)
  BY <1>1, ConcatAssociative
<1> QED BY <1>2, <1>3

(* The states that the reader passes.                                      *)
Passes(after, f) ==
  after[0] = Blank /\ \A n \in 1 .. Len(f) : after[n] = ReadChar(after[n - 1], f[n])

(* The recursive function of Read_RC_File exists.                          *)
LEMMA ReaderPasses ==
  ASSUME NEW f, Len(f) \in Nat
  PROVE  \E after : Passes(after, f) /\ Read_RC_File(f) = after[Len(f)]
<1> DEFINE n == Len(f)
           Step(g, k) == IF k = 0 THEN Blank ELSE ReadChar(g[k - 1], f[k])
           Steps(g, k) == g = [j \in 0 .. k |-> Step(g, j)]
           K == {k \in Nat : \E g : Steps(g, k)}
<1>1. n \in Nat
  OBVIOUS
<1>2. /\ \A g : Step(g, 0) = Blank
      /\ \A g, k : k # 0 => Step(g, k) = ReadChar(g[k - 1], f[k])
      /\ \A g, h, k : k = 0 \/ g[k - 1] = h[k - 1] => Step(g, k) = Step(h, k)
  OBVIOUS
<1> HIDE DEF Step
<1>4. 0 \in K
  <2>1. PICK g : g = [j \in 0 .. 0 |-> Blank]
    OBVIOUS
  <2>2. \A j \in 0 .. 0 : Step(g, j) = Blank
    BY <1>2
  <2>3. Steps(g, 0)
    BY <2>1, <2>2
  <2> HIDE DEF Steps
  <2> QED BY <2>3
<1>5. ASSUME NEW k \in K PROVE k + 1 \in K
  <2>1. PICK g : Steps(g, k)
    OBVIOUS
  <2>2. k \in Nat
    OBVIOUS
  <2>3. PICK h : h = [j \in 0 .. k + 1 |-> Step(g, j)]
    OBVIOUS
  <2>4. \A j \in 0 .. k : h[j] = g[j]
    <3>1. \A j \in 0 .. k : g[j] = Step(g, j)
      BY <2>1
    <3>2. \A j \in 0 .. k : j \in 0 .. k + 1
      BY <2>2
    <3> QED BY <2>3, <3>1, <3>2
  <2>5. \A j \in 0 .. k + 1 : Step(g, j) = Step(h, j)
    <3>1. \A j \in 0 .. k + 1 : j = 0 \/ j - 1 \in 0 .. k
      BY <2>2
    <3>2. \A j \in 0 .. k + 1 : j = 0 \/ g[j - 1] = h[j - 1]
      BY <2>4, <3>1
    <3> QED BY <1>2, <3>2
  <2>6. h = [j \in 0 .. k + 1 |-> Step(h, j)]
    BY <2>3, <2>5
  <2>7. Steps(h, k + 1)
    BY <2>6
  <2> HIDE DEF Steps
  <2> QED BY <2>2, <2>7
<1>6. K = Nat
  <2> HIDE DEF K
  <2>1. K \in SUBSET Nat
    BY DEF K
  <2> QED BY <1>4, <1>5, <2>1, Numbers!SetInduction
<1>7. PICK g : Steps(g, n)
  BY <1>1, <1>6
<1> DEFINE after == CHOOSE h : h = [k \in 0 .. Len(f) |-> Step(h, k)]
<1>8. after = [k \in 0 .. n |-> Step(after, k)]
  BY <1>7
<1>9. Read_RC_File(f) = after[n]
  BY DEF Read_RC_File, Step
<1> HIDE DEF after, K, Steps
<1>10. after[0] = Blank
  <2>1. 0 \in 0 .. n
    BY <1>1
  <2> QED BY <1>2, <1>8, <2>1
<1>11. \A k \in 1 .. n : after[k] = ReadChar(after[k - 1], f[k])
  <2>1. \A k \in 1 .. n : k \in 0 .. n /\ k # 0
    BY <1>1
  <2> QED BY <1>2, <1>8, <2>1
<1>12. Passes(after, f)
  BY <1>10, <1>11 DEF Passes
<1> QED BY <1>9, <1>12

(* Files that begin alike are read alike as far as they do.                *)
LEMMA PassesAlike ==
  ASSUME NEW f, Len(f) \in Nat, NEW g, NEW after, Passes(after, f),
         NEW other, Passes(other, g), Len(g) \in Nat, Len(f) <= Len(g),
         \A k \in 1 .. Len(f) : f[k] = g[k]
  PROVE  after[Len(f)] = other[Len(f)]
<1> DEFINE T == {k \in Nat : k <= Len(f) => after[k] = other[k]}
<1>1. 0 \in T
  BY DEF Passes
<1>2. ASSUME NEW k \in T PROVE k + 1 \in T
  <2>1. k \in Nat
    OBVIOUS
  <2>2. SUFFICES ASSUME k + 1 <= Len(f) PROVE after[k + 1] = other[k + 1]
    BY <2>1
  <2>3. PICK m : m = k + 1
    OBVIOUS
  <2>4. m \in 1 .. Len(f) /\ m \in 1 .. Len(g) /\ m - 1 = k /\ after[k] = other[k]
    BY <2>1, <2>2, <2>3
  <2>5. after[m] = ReadChar(after[m - 1], f[m]) /\ other[m] = ReadChar(other[m - 1], g[m])
    BY <2>4 DEF Passes
  <2> QED BY <2>3, <2>4, <2>5
<1>3. T = Nat
  <2> HIDE DEF T
  <2>1. T \in SUBSET Nat
    BY DEF T
  <2> QED BY <1>1, <1>2, <2>1, Numbers!SetInduction
<1> QED BY <1>3

(* The reader of a file, a character at a time.                            *)
LEMMA ReadNone == Read_RC_File(<<>>) = Blank
<1>1. Len(<<>>) = 0 /\ Len(<<>>) \in Nat
  OBVIOUS
<1>2. PICK after : Passes(after, <<>>) /\ Read_RC_File(<<>>) = after[Len(<<>>)]
  BY <1>1, ReaderPasses
<1> QED BY <1>1, <1>2 DEF Passes

(* One character more.                                                     *)
LEMMA ReadOne ==
  ASSUME NEW f \in Seq(Chars), NEW c \in Chars
  PROVE  Read_RC_File(Append(f, c)) = ReadChar(Read_RC_File(f), c)
<1>1. PICK g, n : g = Append(f, c) /\ n = Len(f)
  OBVIOUS
<1>2. /\ n \in Nat /\ Len(f) \in Nat /\ Len(g) = n + 1 /\ g[n + 1] = c
      /\ \A k \in 1 .. Len(f) : g[k] = f[k]
  BY <1>1, AppendProperties, LenProperties
<1>3. Len(g) \in Nat /\ Len(f) <= Len(g)
  BY <1>1, <1>2
<1>4. PICK after : Passes(after, f) /\ Read_RC_File(f) = after[Len(f)]
  BY <1>2, ReaderPasses
<1>5. PICK other : Passes(other, g) /\ Read_RC_File(g) = other[Len(g)]
  BY <1>3, ReaderPasses
<1>6. after[n] = other[n]
  BY <1>1, <1>2, <1>3, <1>4, <1>5, PassesAlike
<1>7. n + 1 \in 1 .. Len(g) /\ (n + 1) - 1 = n
  BY <1>2
<1>8. other[n + 1] = ReadChar(other[n], g[n + 1])
  <2>1. PICK m : m = n + 1
    OBVIOUS
  <2>2. other[m] = ReadChar(other[m - 1], g[m])
    BY <1>5, <1>7, <2>1 DEF Passes
  <2> QED BY <1>7, <2>1, <2>2
<1> QED BY <1>1, <1>2, <1>4, <1>5, <1>6, <1>8

(* One character more, behind a first part.                                *)
LEMMA ReadMore ==
  ASSUME NEW f \in Seq(Chars), NEW h \in Seq(Chars), NEW c \in Chars
  PROVE  Read_RC_File(f \o Append(h, c)) = ReadChar(Read_RC_File(f \o h), c)
<1>0. PICK g, k : g = Append(h, c) /\ k = f \o h
  OBVIOUS
<1>1. f \o g = Append(k, c)
  BY <1>0, ConcatAppend
<1>2. k \in Seq(Chars)
  BY <1>0, ConcatProperties
<1>3. Read_RC_File(Append(k, c)) = ReadChar(Read_RC_File(k), c)
  BY <1>2, ReadOne
<1> QED BY <1>0, <1>1, <1>3

(* Every file is read within the types.                                    *)
LEMMA ReadTyped ==
  ASSUME NEW f \in Seq(Chars)
  PROVE  Read_RC_File(f) \in Readers
<1> DEFINE T == {g \in Seq(Chars) : Read_RC_File(g) \in Readers}
<1>1. <<>> \in T
  BY ReadNone, BlankTyped
<1>2. ASSUME NEW g \in T, NEW c \in Chars PROVE Append(g, c) \in T
  BY <1>2, ReadOne, CharTyped, AppendProperties
<1>3. T = Seq(Chars)
  <2>1. T \in SUBSET Seq(Chars)
    OBVIOUS
  <2> HIDE DEF T
  <2> QED BY <1>1, <1>2, <2>1, SequenceInduction
<1> QED BY <1>3
-----------------------------------------------------------------------------
(* What is read stays read.                                                *)
Later(r, s) ==
  r.part # "settings" =>
    /\ s.part # "settings" /\ s.settings = r.settings
    /\ Begins(r.contacts, s.contacts)
    /\ s.part = "contacts" => r.part = "contacts"

(* A list begins with itself and with what it is made longer from.         *)
LEMMA BeginsFacts ==
  ASSUME NEW c \in Seq(Entries), NEW d \in Seq(Entries)
  PROVE  Begins(c, c) /\ Begins(c, c \o d)
<1>1. Len(c) \in Nat /\ Len(d) \in Nat
  BY LenProperties
<1>2. PICK e : e = c \o d
  OBVIOUS
<1>3. Len(e) = Len(c) + Len(d) /\ \A k \in 1 .. Len(c) + Len(d) :
        e[k] = IF k <= Len(c) THEN c[k] ELSE d[k - Len(c)]
  BY <1>2, ConcatProperties
<1>4. Begins(c, e)
  BY <1>1, <1>3 DEF Begins
<1>5. Begins(c, c)
  BY <1>1 DEF Begins
<1> QED BY <1>2, <1>4, <1>5

(* Nothing that was read is lost by a character.                           *)
LEMMA LaterChar ==
  ASSUME NEW r \in Readers, NEW c \in Chars
  PROVE  Later(r, ReadChar(r, c))
<1>0. r.contacts \in Seq(Entries) /\ r.line \in Seq(Text)
  BY DEF Readers
<1>1. CASE r.part = "crash"
  <2>1. ReadChar(r, c) = r
    BY <1>1 DEF ReadChar
  <2> QED BY <1>0, <1>1, <2>1, BeginsFacts DEF Later
<1>2. CASE r.part # "crash" /\ c # NL
  <2>1. PICK s : s = ReadChar(r, c)
    OBVIOUS
  <2>2. c \in Text
    BY <1>2 DEF Text
  <2>3. s = [r EXCEPT !.line = Append(r.line, c)]
    BY <1>2, <2>1, <2>2, TextAdded
  <2>4. s.part = r.part /\ s.settings = r.settings /\ s.contacts = r.contacts
    BY <2>3 DEF Readers
  <2> QED BY <1>0, <2>1, <2>4, BeginsFacts DEF Later
<1>3. CASE r.part = "contacts" /\ c = NL
  <2>1. PICK s : s = ReadChar(r, NL)
    OBVIOUS
  <2>2. s.settings = r.settings /\ s.part # "settings"
    BY <1>3, <2>1, ListRead
  <2>3. s.contacts = IF Len(r.contacts) = MAXCONTACTS \/ Alone(r.line) THEN r.contacts
                     ELSE r.contacts \o NewEntries(r.contacts, r.line)
    BY <1>3, <2>1, ListRead
  <2>4. Begins(r.contacts, s.contacts)
    <3>1. CASE Len(r.contacts) = MAXCONTACTS \/ Alone(r.line)
      BY <1>0, <2>3, <3>1, BeginsFacts
    <3>2. CASE ~(Len(r.contacts) = MAXCONTACTS \/ Alone(r.line))
      <4>1. NewEntries(r.contacts, r.line) \in Seq(Entries)
        BY <1>0, <3>2, NewTyped
      <4> QED BY <1>0, <2>3, <3>2, <4>1, BeginsFacts
    <3> QED BY <3>1, <3>2
  <2> QED BY <1>3, <2>1, <2>2, <2>4 DEF Later
<1>4. CASE r.part = "settings"
  BY <1>4 DEF Later
<1>5. r.part \in {"settings", "contacts", "crash"}
  BY DEF Readers
<1> QED BY <1>1, <1>2, <1>3, <1>4, <1>5

(* Nor by what follows it.                                                 *)
LEMMA LaterOn ==
  ASSUME NEW r \in Readers, NEW s \in Readers, NEW t \in Readers, Later(r, s), Later(s, t)
  PROVE  Later(r, t)
<1>1. /\ r.contacts \in Seq(Entries) /\ s.contacts \in Seq(Entries) /\ t.contacts \in Seq(Entries)
  BY DEF Readers
<1>2. /\ Len(r.contacts) \in Nat /\ Len(s.contacts) \in Nat /\ Len(t.contacts) \in Nat
  BY <1>1, LenProperties
<1>3. SUFFICES ASSUME r.part # "settings"
               PROVE  /\ t.part # "settings" /\ t.settings = r.settings
                      /\ Begins(r.contacts, t.contacts)
                      /\ t.part = "contacts" => r.part = "contacts"
  BY DEF Later
<1>4. /\ s.part # "settings" /\ s.settings = r.settings /\ Begins(r.contacts, s.contacts)
      /\ s.part = "contacts" => r.part = "contacts"
  BY <1>3 DEF Later
<1>5. /\ t.part # "settings" /\ t.settings = s.settings /\ Begins(s.contacts, t.contacts)
      /\ t.part = "contacts" => s.part = "contacts"
  BY <1>4 DEF Later
<1>6. Begins(r.contacts, t.contacts)
  BY <1>2, <1>4, <1>5 DEF Begins
<1> QED BY <1>4, <1>5, <1>6

(* Nor by any second part of a file.                                       *)
LEMMA ReadLater ==
  ASSUME NEW f \in Seq(Chars), NEW g \in Seq(Chars)
  PROVE  Later(Read_RC_File(f), Read_RC_File(f \o g))
<1> DEFINE r == Read_RC_File(f)
           T == {h \in Seq(Chars) : Later(r, Read_RC_File(f \o h))}
<1>0. r \in Readers
  BY ReadTyped
<1>1. <<>> \in T
  <2>1. f \o <<>> = f /\ <<>> \in Seq(Chars)
    BY ConcatEmptySeq
  <2>2. r.contacts \in Seq(Entries)
    BY <1>0 DEF Readers
  <2>3. Later(r, r)
    BY <2>2, BeginsFacts DEF Later
  <2> QED BY <2>1, <2>3
<1>2. ASSUME NEW h \in T, NEW c \in Chars PROVE Append(h, c) \in T
  <2>1. h \in Seq(Chars) /\ Later(r, Read_RC_File(f \o h))
    BY <1>2
  <2>2. f \o h \in Seq(Chars) /\ Append(h, c) \in Seq(Chars)
    BY <2>1, ConcatProperties, AppendProperties
  <2>3. PICK s, t : s = Read_RC_File(f \o h) /\ t = Read_RC_File(f \o Append(h, c))
    OBVIOUS
  <2>4. t = ReadChar(s, c)
    BY <1>2, <2>1, <2>3, ReadMore
  <2>5. s \in Readers /\ t \in Readers
    BY <2>2, <2>3, <2>4, ReadTyped, CharTyped
  <2>6. Later(s, t)
    BY <2>4, <2>5, LaterChar
  <2> HIDE DEF r
  <2>7. Later(r, t)
    BY <1>0, <2>1, <2>3, <2>5, <2>6, LaterOn
  <2> QED BY <2>2, <2>3, <2>7
<1>3. T = Seq(Chars)
  <2>1. T \in SUBSET Seq(Chars)
    OBVIOUS
  <2> HIDE DEF T
  <2> QED BY <1>1, <1>2, <2>1, SequenceInduction
<1> QED BY <1>3

(* What has room at the end of a file had it before.                       *)
LEMMA RoomBefore ==
  ASSUME NEW r \in Readers, NEW s \in Readers, Later(r, s), r.part # "settings", HasRoom(s),
         MAXCONTACTS \in Nat
  PROVE  HasRoom(r)
<1>1. Len(r.contacts) \in Nat /\ Len(s.contacts) \in Nat
  BY LenProperties DEF Readers
<1> QED BY <1>1 DEF Later, HasRoom, Begins

(* Text that is read before a newline stands in the line.                  *)
LEMMA ReadText ==
  ASSUME NEW f \in Seq(Chars), NEW w \in Seq(Text),
         NEW r, r = Read_RC_File(f), r.part # "crash"
  PROVE  Read_RC_File(f \o w) = [r EXCEPT !.line = r.line \o w]
<1> DEFINE T == {h \in Seq(Text) : Read_RC_File(f \o h) = [r EXCEPT !.line = r.line \o h]}
<1>0. r \in Readers /\ r.line \in Seq(Text)
  BY ReadTyped DEF Readers
<1>1. <<>> \in T
  <2>1. f \o <<>> = f /\ <<>> \in Seq(Text) /\ r.line \o <<>> = r.line
    BY <1>0, ConcatEmptySeq
  <2>2. r = [r EXCEPT !.line = r.line]
    BY <1>0 DEF Readers
  <2> QED BY <2>1, <2>2
<1>2. ASSUME NEW h \in T, NEW c \in Text PROVE Append(h, c) \in T
  <2>1. h \in Seq(Text) /\ Read_RC_File(f \o h) = [r EXCEPT !.line = r.line \o h]
    BY <1>2
  <2>2. h \in Seq(Chars) /\ c \in Chars /\ Append(h, c) \in Seq(Text)
    BY <2>1, TextIsChars, AppendProperties DEF Text
  <2>3. f \o h \in Seq(Chars)
    BY <2>2, ConcatProperties
  <2>4. PICK s, t : s = Read_RC_File(f \o h) /\ t = Read_RC_File(f \o Append(h, c))
    OBVIOUS
  <2>5. t = ReadChar(s, c) /\ s \in Readers
    BY <2>2, <2>3, <2>4, ReadMore, ReadTyped
  <2>6. s = [r EXCEPT !.line = r.line \o h]
    BY <2>1, <2>4
  <2>7. PICK l : l = r.line \o h
    OBVIOUS
  <2>8. s.part # "crash" /\ s.line = l
    BY <1>0, <2>6, <2>7 DEF Readers
  <2>9. t = [s EXCEPT !.line = Append(l, c)]
    BY <2>5, <2>8, TextAdded
  <2>10. Append(l, c) = r.line \o Append(h, c)
    <3>1. PICK g, o : g = Append(h, c) /\ o = r.line
      OBVIOUS
    <3>2. o \in Seq(Text) /\ l = o \o h
      BY <1>0, <2>7, <3>1
    <3>3. o \o g = Append(l, c)
      <4>1. c \in Text /\ h \in Seq(Text) /\ g = Append(h, c)
        BY <1>2, <2>1, <3>1
      <4> HIDE DEF T
      <4> QED BY <3>2, <4>1, ConcatAppend
    <3> QED BY <3>1, <3>3
  <2>11. PICK m : m = Append(l, c)
    OBVIOUS
  <2>12. t = [r EXCEPT !.line = m]
    BY <1>0, <2>6, <2>9, <2>11 DEF Readers
  <2> QED BY <2>2, <2>4, <2>10, <2>11, <2>12
<1>3. T = Seq(Text)
  <2>1. T \in SUBSET Seq(Text)
    OBVIOUS
  <2> HIDE DEF T
  <2> QED BY <1>1, <1>2, <2>1, SequenceInduction
<1> QED BY <1>3

(* A crash ends the reading.                                               *)
LEMMA ReadCrash ==
  ASSUME NEW f \in Seq(Chars), NEW g \in Seq(Chars),
         NEW r, r = Read_RC_File(f), r.part = "crash"
  PROVE  Read_RC_File(f \o g) = r
<1> DEFINE T == {h \in Seq(Chars) : Read_RC_File(f \o h) = r}
<1>1. <<>> \in T
  <2>1. f \o <<>> = f /\ <<>> \in Seq(Chars)
    BY ConcatEmptySeq
  <2> QED BY <2>1
<1>2. ASSUME NEW h \in T, NEW c \in Chars PROVE Append(h, c) \in T
  <2>1. h \in Seq(Chars) /\ Read_RC_File(f \o h) = r
    BY <1>2
  <2>2. f \o h \in Seq(Chars) /\ Append(h, c) \in Seq(Chars)
    BY <2>1, ConcatProperties, AppendProperties
  <2>3. Read_RC_File(f \o Append(h, c)) = ReadChar(r, c)
    BY <1>2, <2>1, ReadMore
  <2>4. ReadChar(r, c) = r
    BY DEF ReadChar
  <2> QED BY <2>2, <2>3, <2>4
<1>3. T = Seq(Chars)
  <2>1. T \in SUBSET Seq(Chars)
    OBVIOUS
  <2> HIDE DEF T
  <2> QED BY <1>1, <1>2, <2>1, SequenceInduction
<1> QED BY <1>3
-----------------------------------------------------------------------------
(* The name under which a list has a uin.                                  *)
LEMMA NameKept ==
  ASSUME NEW c \in Seq(Entries), NEW d \in Seq(Entries), Begins(c, d), NEW u,
         UIN2nick(c, u) # <<>> \/ \A k \in Len(c) + 1 .. Len(d) : ~IsPerson(d[k], u)
  PROVE  UIN2nick(d, u) = UIN2nick(c, u)
<1>1. PICK p, q : p = Places(c, u) /\ q = Places(d, u)
  OBVIOUS
<1>2. /\ Len(c) \in Nat /\ Len(d) \in Nat /\ Len(c) <= Len(d)
      /\ \A k \in 1 .. Len(c) : d[k] = c[k]
  BY LenProperties DEF Begins
<1>3. /\ p = {k \in 1 .. Len(c) : IsPerson(c[k], u)}
      /\ q = {k \in 1 .. Len(d) : IsPerson(d[k], u)}
  BY <1>1 DEF Places, IsPerson
<1>4. p \in SUBSET Nat /\ q \in SUBSET Nat
  BY <1>3
<1>5. \A k \in 1 .. Len(c) : k \in p <=> k \in q
  <2>1. \A k \in 1 .. Len(c) : k \in 1 .. Len(d)
    BY <1>2
  <2> QED BY <1>2, <1>3, <2>1
<1>6. /\ UIN2nick(c, u) = IF p = {} THEN <<>> ELSE <<c[Min(p)].nick>>
      /\ UIN2nick(d, u) = IF q = {} THEN <<>> ELSE <<d[Min(q)].nick>>
  BY <1>1 DEF UIN2nick
<1>7. CASE p # {}
  <2>1. PICK m : m = Min(p)
    OBVIOUS
  <2>2. m \in p /\ \A k \in p : m <= k
    BY <1>4, <1>7, <2>1, LeastOf
  <2>3. m \in 1 .. Len(c) /\ m \in q
    BY <1>3, <1>5, <2>2
  <2>4. PICK n : n = Min(q)
    OBVIOUS
  <2>5. n \in q /\ \A k \in q : n <= k
    BY <1>4, <2>3, <2>4, LeastOf
  <2>6. n <= m /\ n \in 1 .. Len(d) /\ n \in Nat
    BY <1>3, <2>3, <2>5
  <2>7. n \in 1 .. Len(c)
    BY <1>2, <2>3, <2>6
  <2>8. m <= n
    BY <1>5, <2>2, <2>5, <2>7
  <2>9. m = n
    BY <2>3, <2>6, <2>8
  <2>10. d[m] = c[m]
    BY <1>2, <2>3
  <2> QED BY <1>6, <1>7, <2>1, <2>3, <2>4, <2>9, <2>10
<1>8. CASE p = {}
  <2>1. UIN2nick(c, u) = <<>>
    BY <1>6, <1>8
  <2>2. \A k \in Len(c) + 1 .. Len(d) : ~IsPerson(d[k], u)
    BY <2>1
  <2>3. \A k \in 1 .. Len(d) : k \in 1 .. Len(c) \/ k \in Len(c) + 1 .. Len(d)
    BY <1>2
  <2>4. q = {}
    BY <1>3, <1>5, <1>8, <2>2, <2>3
  <2> QED BY <1>6, <2>1, <2>4
<1> QED BY <1>7, <1>8

(* A name that is new to a list is the one that the added entry has.       *)
LEMMA NameNew ==
  ASSUME NEW c \in Seq(Entries), NEW d \in Seq(Entries), Begins(c, d), NEW u,
         UIN2nick(c, u) = <<>>,
         NEW m \in Len(c) + 1 .. Len(d), IsPerson(d[m], u),
         \A k \in Len(c) + 1 .. m - 1 : ~IsPerson(d[k], u)
  PROVE  UIN2nick(d, u) = <<d[m].nick>>
<1>1. PICK p, q : p = Places(c, u) /\ q = Places(d, u)
  OBVIOUS
<1>2. /\ Len(c) \in Nat /\ Len(d) \in Nat /\ Len(c) <= Len(d)
      /\ \A k \in 1 .. Len(c) : d[k] = c[k]
  BY LenProperties DEF Begins
<1>3. /\ p = {k \in 1 .. Len(c) : IsPerson(c[k], u)}
      /\ q = {k \in 1 .. Len(d) : IsPerson(d[k], u)}
  BY <1>1 DEF Places, IsPerson
<1>4. p = {}
  <2>1. UIN2nick(c, u) = IF p = {} THEN <<>> ELSE <<c[Min(p)].nick>>
    BY <1>1 DEF UIN2nick
  <2> QED BY <2>1
<1>5. m \in q /\ q \in SUBSET Nat
  BY <1>2, <1>3
<1>6. PICK n : n = Min(q)
  OBVIOUS
<1>7. n \in q /\ n <= m
  BY <1>5, <1>6, LeastOf
<1>8. n \in 1 .. Len(d) /\ IsPerson(d[n], u)
  BY <1>3, <1>7
<1>9. n \notin 1 .. Len(c)
  <2>1. SUFFICES ASSUME n \in 1 .. Len(c) PROVE FALSE
    OBVIOUS
  <2>2. IsPerson(c[n], u)
    BY <1>2, <1>8, <2>1
  <2> QED BY <1>3, <1>4, <2>1, <2>2
<1>10. n \notin Len(c) + 1 .. m - 1
  BY <1>8
<1>11. n = m
  BY <1>2, <1>7, <1>8, <1>9, <1>10
<1>12. UIN2nick(d, u) = IF q = {} THEN <<>> ELSE <<d[Min(q)].nick>>
  BY <1>1 DEF UIN2nick
<1> QED BY <1>5, <1>6, <1>11, <1>12

(* Who is in a list stays in a longer one.                                 *)
LEMMA IsInKept ==
  ASSUME NEW c \in Seq(Entries), NEW d \in Seq(Entries), Begins(c, d), NEW a, IsIn(a, c)
  PROVE  IsIn(a, d)
<1>1. Len(c) \in Nat /\ Len(d) \in Nat
  BY LenProperties
<1>2. PICK k \in 1 .. Len(c) : c[k].kind = "person" /\ c[k].uin = a.uin /\ c[k].nick = a.nick
  BY DEF IsIn
<1>3. k \in 1 .. Len(d) /\ d[k] = c[k]
  BY <1>1, <1>2 DEF Begins
<1> QED BY <1>2, <1>3 DEF IsIn

(* The entry that is added last is in the list.                            *)
LEMMA IsInLast ==
  ASSUME NEW c \in Seq(Entries), NEW e \in Entries, e.kind = "person",
         NEW a, a.uin = e.uin, a.nick = e.nick
  PROVE  IsIn(a, Append(c, e))
<1>1. PICK d, n : d = Append(c, e) /\ n = Len(c) + 1
  OBVIOUS
<1>2. Len(d) = n /\ d[n] = e /\ n \in 1 .. Len(d)
  BY <1>1, AppendProperties, LenProperties
<1> QED BY <1>1, <1>2 DEF IsIn
-----------------------------------------------------------------------------
(* What has been written is found as more is written.                      *)
LEMMA WroteNothing ==
  ASSUME NEW s, s.contacts \in Seq(Entries)
  PROVE  Wrote(s, 0, <<>>)
<1>1. SubSeq(s.contacts, 1, 0) = <<>>
  BY SubSeqEmpty
<1>2. \A k \in 1 .. 0 : s.contacts[k].kind = "person" => IsIn(s.contacts[k], <<>>)
  OBVIOUS
<1> QED BY <1>1, <1>2 DEF Wrote

(* The contact whose line is read is the next one written.                 *)
LEMMA WrotePerson ==
  ASSUME NEW s, NEW people \in Seq(Entries), people = s.contacts,
         NEW c \in Seq(Entries), NEW w \in Nat, NEW i \in 1 .. Len(people), w < i,
         people[i].kind = "person", Passed(people, w + 1, i - 1), Wrote(s, w, c),
         NEW e \in Entries, e.kind = "person", e.uin = people[i].uin, e.nick = people[i].nick
  PROVE  Wrote(s, i, Append(c, e))
<1>1. PICK d : d = Append(c, e)
  OBVIOUS
<1>2. /\ d \in Seq(Entries) /\ Len(d) = Len(c) + 1 /\ d[Len(c) + 1] = e
      /\ \A k \in 1 .. Len(c) : d[k] = c[k]
      /\ Len(c) \in Nat
  BY <1>1, AppendProperties, LenProperties
<1>3. Begins(c, d)
  BY <1>2 DEF Begins
<1>4. w \in 0 .. Len(people) /\ i \in 0 .. Len(people) /\ Len(people) \in Nat /\ i \in Nat
  BY LenProperties
<1>5. PICK a, b : a = SubSeq(people, 1, w) /\ b = SubSeq(people, 1, i)
  OBVIOUS
<1>6. /\ a \in Seq(Entries) /\ Len(a) = w /\ \A k \in 1 .. w : a[k] = people[k]
      /\ b \in Seq(Entries) /\ Len(b) = i /\ \A k \in 1 .. i : b[k] = people[k]
  BY <1>4, <1>5, PrefixOf
<1>7. Begins(a, b)
  <2>1. \A k \in 1 .. w : k \in 1 .. i
    BY <1>4
  <2> QED BY <1>4, <1>6, <2>1 DEF Begins
<1>8. \A k \in 1 .. w : people[k].kind = "person" => IsIn(people[k], c)
  BY DEF Wrote
<1>9. NamesOnly(people) => \A u \in UinTexts : UIN2nick(c, u) = UIN2nick(a, u)
  BY <1>5 DEF Wrote
<1>10. \A k \in w + 1 .. i - 1 : people[k].kind = "alias" /\ k \in 1 .. i
  BY <1>4 DEF Passed
<1>11. ASSUME NEW k \in 1 .. i, people[k].kind = "person" PROVE IsIn(people[k], d)
  <2>1. CASE k = i
    <3>1. PICK x : x = people[i]
      OBVIOUS
    <3>2. x.uin = e.uin /\ x.nick = e.nick
      BY <3>1
    <3>3. IsIn(x, Append(c, e))
      BY <3>2, IsInLast
    <3> QED BY <1>1, <2>1, <3>1, <3>3
  <2>2. CASE k # i
    <3>1. k \notin w + 1 .. i - 1
      BY <1>10, <1>11
    <3>2. k \in 1 .. w
      BY <1>4, <2>2, <3>1
    <3> QED BY <1>2, <1>3, <1>8, <1>11, <3>2, IsInKept
  <2> QED BY <2>1, <2>2
<1>12. ASSUME NamesOnly(people), NEW u \in UinTexts PROVE UIN2nick(d, u) = UIN2nick(b, u)
  <2>1. UIN2nick(c, u) = UIN2nick(a, u)
    BY <1>9, <1>12
  <2>2. PICK n : n = Len(c) + 1
    OBVIOUS
  <2>3. n \in Len(c) + 1 .. Len(d) /\ \A k \in Len(c) + 1 .. Len(d) : k = n /\ d[k] = e
    BY <1>2, <2>2
  <2>4. i \in Len(a) + 1 .. Len(b) /\ \A k \in Len(a) + 1 .. i - 1 : ~IsPerson(b[k], u)
    <3>1. i \in Len(a) + 1 .. Len(b) /\ Len(a) = w
      BY <1>4, <1>6
    <3>2. \A k \in w + 1 .. i - 1 : b[k].kind = "alias"
      BY <1>6, <1>10
    <3> QED BY <3>1, <3>2 DEF IsPerson
  <2>5. b[i] = people[i]
    BY <1>4, <1>6
  <2>6. CASE UIN2nick(c, u) # <<>>
    <3>1. UIN2nick(d, u) = UIN2nick(c, u)
      BY <1>2, <1>3, <2>6, NameKept
    <3>2. UIN2nick(b, u) = UIN2nick(a, u)
      BY <1>6, <1>7, <2>1, <2>6, NameKept
    <3> QED BY <2>1, <3>1, <3>2
  <2>7. CASE UIN2nick(c, u) = <<>> /\ people[i].uin = u
    <3>1. IsPerson(e, u) /\ IsPerson(b[i], u)
      BY <2>5, <2>7 DEF IsPerson
    <3>2. UIN2nick(d, u) = <<d[n].nick>>
      <4>1. \A k \in Len(c) + 1 .. n - 1 : ~IsPerson(d[k], u)
        BY <1>2, <2>2
      <4>2. IsPerson(d[n], u)
        BY <2>3, <3>1
      <4> QED BY <1>2, <1>3, <2>3, <2>7, <4>1, <4>2, NameNew
    <3>3. UIN2nick(b, u) = <<b[i].nick>>
      <4>1. UIN2nick(a, u) = <<>> /\ a \in Seq(Entries) /\ b \in Seq(Entries)
        BY <1>6, <2>1, <2>7
      <4> QED BY <1>7, <2>4, <3>1, <4>1, NameNew
    <3> QED BY <2>3, <2>5, <3>2, <3>3
  <2>8. CASE UIN2nick(c, u) = <<>> /\ people[i].uin # u
    <3>1. \A k \in Len(c) + 1 .. Len(d) : ~IsPerson(d[k], u)
      BY <2>3, <2>8 DEF IsPerson
    <3>2. \A k \in Len(a) + 1 .. Len(b) : ~IsPerson(b[k], u)
      <4>1. \A k \in Len(a) + 1 .. Len(b) : k = i \/ k \in Len(a) + 1 .. i - 1
        BY <1>4, <1>6
      <4>2. ~IsPerson(b[i], u)
        BY <2>5, <2>8 DEF IsPerson
      <4> QED BY <2>4, <4>1, <4>2
    <3>3. UIN2nick(d, u) = UIN2nick(c, u)
      BY <1>2, <1>3, <3>1, NameKept
    <3>4. UIN2nick(b, u) = UIN2nick(a, u)
      BY <1>6, <1>7, <3>2, NameKept
    <3> QED BY <2>1, <3>3, <3>4
  <2> QED BY <2>6, <2>7, <2>8
<1> QED BY <1>1, <1>5, <1>11, <1>12 DEF Wrote

(* What is read in addition hides no name.                                 *)
LEMMA WroteMore ==
  ASSUME NEW s, s.contacts \in Seq(Entries), NEW i \in 0 .. Len(s.contacts),
         NEW c \in Seq(Entries), NEW d \in Seq(Entries), Begins(c, d), Wrote(s, i, c),
         NamesOnly(s.contacts) => \A u : \/ UIN2nick(c, u) # <<>>
                                         \/ \A k \in Len(c) + 1 .. Len(d) : ~IsPerson(d[k], u)
  PROVE  Wrote(s, i, d)
<1>1. ASSUME NEW k \in 1 .. i, s.contacts[k].kind = "person"
      PROVE  IsIn(s.contacts[k], d)
  <2>1. IsIn(s.contacts[k], c)
    BY <1>1 DEF Wrote
  <2> QED BY <2>1, IsInKept
<1>2. ASSUME NamesOnly(s.contacts), NEW u \in UinTexts
      PROVE  UIN2nick(d, u) = UIN2nick(SubSeq(s.contacts, 1, i), u)
  <2>1. UIN2nick(c, u) = UIN2nick(SubSeq(s.contacts, 1, i), u)
    BY <1>2 DEF Wrote
  <2>2. UIN2nick(d, u) = UIN2nick(c, u)
    BY <1>2, NameKept
  <2> QED BY <2>1, <2>2
<1> QED BY <1>1, <1>2 DEF Wrote
-----------------------------------------------------------------------------
(* The lines that Save_RC and Add_User write.                              *)
LEMMA TailOfConcat ==
  ASSUME NEW S, NEW m \in S, NEW l \in Seq(S), NEW t, t = <<m>> \o l
  PROVE  t \in Seq(S) /\ t # <<>> /\ t[1] = m /\ Tail(t) = l
<1>1. <<m>> \in Seq(S) /\ Len(<<m>>) = 1 /\ <<m>>[1] = m /\ Len(l) \in Nat
  BY LenProperties
<1>2. /\ t \in Seq(S) /\ Len(t) = 1 + Len(l)
      /\ \A k \in 1 .. 1 + Len(l) : t[k] = IF k <= 1 THEN <<m>>[k] ELSE l[k - 1]
  BY <1>1, ConcatProperties
<1>3. t # <<>> /\ t[1] = m
  BY <1>1, <1>2
<1>4. Tail(t) \in Seq(S) /\ Len(Tail(t)) = Len(l)
  BY <1>1, <1>2, <1>3, HeadTailProperties
<1>5. ASSUME NEW k \in 1 .. Len(l) PROVE Tail(t)[k] = l[k]
  <2>1. PICK n : n = k + 1
    OBVIOUS
  <2>2. n \in 1 .. 1 + Len(l) /\ ~(n <= 1) /\ n - 1 = k
    BY <1>1, <2>1
  <2>3. Tail(t)[k] = t[n]
    BY <1>1, <1>2, <1>3, <2>1
  <2> QED BY <1>2, <2>2, <2>3
<1>6. Tail(t) = l
  BY <1>4, <1>5, SeqEqual
<1> QED BY <1>2, <1>3, <1>6

\* A line that adds an entry.
Adds(line, contacts, e) ==
  line \in Seq(Text) /\ ~Alone(line) /\ NewEntries(contacts, line) = <<e>>

(* The line of a contact adds one entry.                                   *)
LEMMA ContactAdds ==
  ASSUME NEW u \in UinTexts, NEW w \in Seq(Text), NEW contacts,
         NEW line, line = LineText(u, w)
  PROVE  Adds(line, contacts, Entry("person", u, w, ""))
<1>1. /\ line \in Seq(Text) /\ line[1] = u[1] /\ u[1] \in Digits /\ Len(line) # 0
  BY LineTextIs
<1>2. line # <<>> /\ line[1] \in Digits /\ line[1] # "#" /\ line[1] \notin Marks
  BY <1>1, CharsAssumption
<1>3. Uin(line) = u /\ Nick(line) = w
  BY ContactRead
<1>4. Contact(line) = Entry("person", u, w, "")
  BY <1>3 DEF Contact
<1>5. NewEntries(contacts, line) = <<Contact(line)>>
  BY <1>2 DEF NewEntries
<1> QED BY <1>1, <1>2, <1>4, <1>5 DEF Adds, Alone, IsMark

\* The mark that stands before a line.
Marked(mark) == IF mark = "" THEN <<>> ELSE <<mark>>

(* So it does with a mark before it.                                       *)
LEMMA MarkedAdds ==
  ASSUME NEW u \in UinTexts, NEW w \in Seq(Text), NEW contacts, NEW mark \in Marks,
         NEW rest, rest = LineText(u, w), NEW line, line = Marked(mark) \o rest
  PROVE  Adds(line, contacts, Entry("person", u, w, mark))
<1>1. rest = LineText(u, w)
  OBVIOUS
<1>2. /\ rest \in Seq(Text) /\ rest[1] = u[1] /\ u[1] \in Digits /\ Len(rest) \in Nat \ {0}
  BY <1>1, LineTextIs
<1>3. mark \in Text
  BY CharsAssumption DEF Text, Marks, NL
<1>4. /\ line \in Seq(Text) /\ line # <<>> /\ line[1] = mark /\ Tail(line) = rest
  <2>1. Marked(mark) = <<mark>>
    BY DEF Marked, Marks
  <2>2. line = <<mark>> \o rest
    BY <2>1
  <2> QED BY <1>2, <1>3, <2>2, TailOfConcat
<1>5. /\ mark # "#" /\ mark \notin Digits
      /\ rest[1] \in Chars \ {Space} /\ rest[1] \notin Signs /\ "-" \in Signs
  BY <1>2, CharsAssumption DEF Marks, Signs, Space
<1>6. Trimmed(rest) = rest
  <2>1. Place(rest, 1, Chars \ {Space}) = 1
    <3>1. \A k \in 1 .. 1 - 1 : rest[k] \notin Chars \ {Space}
      OBVIOUS
    <3>2. Len(rest) \in Nat /\ 1 \in 1 .. Len(rest) + 1
      BY <1>2
    <3> QED BY <1>5, <3>1, <3>2, PlaceIs
  <2>2. SubSeq(rest, 1, Len(rest)) = rest
    BY <1>2, SubSeqFull
  <2> QED BY <2>1, <2>2 DEF Trimmed
<1>7. Uin(rest) = u /\ Nick(rest) = w
  BY <1>1, ContactRead
<1>8. Listed(mark, rest) = Entry("person", u, w, mark)
  <2>1. PICK negative : negative = (rest[1] = "-")
    OBVIOUS
  <2>2. Signed(u, negative) = "person"
    BY <1>5, <2>1 DEF Signed
  <2> QED BY <1>5, <1>7, <2>1, <2>2 DEF Listed
<1>9. NewEntries(contacts, line) = <<Listed(mark, rest)>>
  BY <1>4, <1>5, <1>6 DEF NewEntries, IsMark
<1>10. rest # <<>>
  BY <1>2
<1> QED BY <1>4, <1>6, <1>8, <1>9, <1>10 DEF Adds, Alone

(* A line that is read up to its newline.                                  *)
ReadsLine(f, w, r) ==
  \E q \in Readers : /\ q = [r EXCEPT !.line = r.line \o w]
                     /\ Read_RC_File(f \o (w \o <<NL>>)) = ReadChar(q, NL)

(* The reader at the newline behind some text.                             *)
LEMMA ReadLine ==
  ASSUME NEW f \in Seq(Chars), NEW w \in Seq(Text),
         NEW r, r = Read_RC_File(f), r.part # "crash"
  PROVE  ReadsLine(f, w, r)
<1>1. w \in Seq(Chars) /\ NL \in Chars /\ <<NL>> \in Seq(Chars)
  BY TextIsChars, CharsAssumption
<1>2. PICK g : g = f \o w
  OBVIOUS
<1>3. g \in Seq(Chars)
  BY <1>1, <1>2, ConcatProperties
<1>4. f \o (w \o <<NL>>) = Append(g, NL)
  <2>1. (f \o w) \o <<NL>> = f \o (w \o <<NL>>)
    BY <1>1, ConcatAssociative
  <2>2. Append(g, NL) = g \o <<NL>>
    BY <1>1, <1>3, AppendIsConcat
  <2> QED BY <1>2, <2>1, <2>2
<1>5. Read_RC_File(Append(g, NL)) = ReadChar(Read_RC_File(g), NL)
  BY <1>1, <1>3, ReadOne
<1>6. Read_RC_File(g) = [r EXCEPT !.line = r.line \o w]
  BY <1>2, ReadText
<1>7. Read_RC_File(g) \in Readers
  BY <1>3, ReadTyped
<1> QED BY <1>4, <1>5, <1>6, <1>7 DEF ReadsLine

(* The line of a contact, with a mark or without one.                      *)
LEMMA EntryAdds ==
  ASSUME NEW u \in UinTexts, NEW w \in Seq(Text), NEW contacts, NEW mark \in Lists,
         NEW line, line = Marked(mark) \o LineText(u, w)
  PROVE  Adds(line, contacts, Entry("person", u, w, mark))
<1>1. CASE mark = ""
  <2>1. LineText(u, w) \in Seq(Text)
    BY LineTextIs
  <2>2. line = LineText(u, w)
    <3>1. <<>> \o LineText(u, w) = LineText(u, w)
      BY <2>1, ConcatEmptySeq
    <3> QED BY <1>1, <3>1 DEF Marked
  <2> QED BY <1>1, <2>2, ContactAdds
<1>2. CASE mark # ""
  <2>1. mark \in Marks
    BY <1>2 DEF Lists
  <2>2. PICK rest : rest = LineText(u, w) /\ line = Marked(mark) \o rest
    OBVIOUS
  <2> QED BY <2>1, <2>2, MarkedAdds
<1> QED BY <1>1, <1>2

Saves == [contacts : Seq(Entries), settings : Settings]

(* The line of the next contact.                                           *)
LEMMA PersonSaved ==
  ASSUME NEW f \in Seq(Chars), NEW r, r = Read_RC_File(f),
         NEW s \in Saves, NEW people, people = s.contacts,
         NEW w \in Nat, NEW i \in 1 .. Len(people), w < i,
         people[i].kind = "person", Passed(people, w + 1, i - 1), Holds(s, w, r),
         r.part = "contacts" => r.line = Marked(people[i].list),
         NEW q, q = Read_RC_File(f \o ContactLine(people[i]))
  PROVE  Holds(s, i, q) /\ Gathered(people, i, 1, q)
<1>1. people \in Seq(Entries) /\ r \in Readers /\ r.part \in {"contacts", "crash"}
  BY ReadTyped DEF Saves, Holds, Headed
<1>2. people[i] \in Entries
  BY <1>1, ElementOfSeq
<1>3. PICK u, n, mark : u = people[i].uin /\ n = people[i].nick /\ mark = people[i].list
  OBVIOUS
<1>4. u \in UinTexts /\ n \in Seq(Text) /\ mark \in Lists
  BY <1>2, <1>3 DEF Entries
<1>5. PICK l : l = LineText(u, n)
  OBVIOUS
<1>6. l \in Seq(Text)
  BY <1>4, <1>5, LineTextIs
<1>7. ContactLine(people[i]) = l \o <<NL>>
  BY <1>3, <1>5 DEF ContactLine, LineText
<1>8. CASE r.part = "crash"
  <2>1. l \o <<NL>> \in Seq(Chars)
    <3>1. l \in Seq(Chars) /\ <<NL>> \in Seq(Chars)
      BY <1>6, TextIsChars, CharsAssumption
    <3> QED BY <3>1, ConcatProperties
  <2>2. q = r
    BY <1>7, <1>8, <2>1, ReadCrash
  <2> QED BY <1>8, <2>2 DEF Holds, Gathered, HasRoom
<1>9. CASE r.part = "contacts"
  <2>0. ReadsLine(f, l, r)
    BY <1>6, <1>9, ReadLine
  <2>1. PICK p \in Readers : p = [r EXCEPT !.line = r.line \o l] /\ q = ReadChar(p, NL)
    BY <1>7, <2>0, Zenon DEF ReadsLine
  <2>2. PICK line : line = Marked(mark) \o l
    OBVIOUS
  <2>3. /\ p.part = "contacts" /\ p.settings = r.settings /\ p.contacts = r.contacts
        /\ p.line = line
    BY <1>1, <1>3, <1>9, <2>1, <2>2 DEF Readers
  <2>4. /\ line \in Seq(Text) /\ ~Alone(line)
        /\ NewEntries(r.contacts, line) = <<Entry("person", u, n, mark)>>
    BY <1>4, <1>5, <2>2, EntryAdds DEF Adds
  <2>5. PICK e : e = Entry("person", u, n, mark)
    OBVIOUS
  <2>6. e \in Entries /\ e.kind = "person" /\ e.uin = u /\ e.nick = n
    BY <1>4, <2>5, EntryTyped DEF Entry
  <2>7. /\ q.line = <<>> /\ q.settings = r.settings /\ q.part = "contacts"
        /\ q.contacts = IF Len(r.contacts) = MAXCONTACTS THEN r.contacts
                        ELSE r.contacts \o <<e>>
    <3>1. PICK new : new = NewEntries(p.contacts, p.line)
      OBVIOUS
    <3>2. new = <<e>>
      BY <2>3, <2>4, <2>5, <3>1
    <3>3. /\ q.line = <<>> /\ q.settings = p.settings
          /\ q.part = IF Len(p.contacts) # MAXCONTACTS /\ Alone(p.line) THEN "crash" ELSE "contacts"
          /\ q.contacts = IF Len(p.contacts) = MAXCONTACTS \/ Alone(p.line) THEN p.contacts
                          ELSE p.contacts \o new
      BY <2>1, <2>3, <3>1, ListRead
    <3> QED BY <2>3, <2>4, <3>2, <3>3
  <2>8. PICK c : c = r.contacts
    OBVIOUS
  <2>9. c \in Seq(Entries) /\ Len(c) \in Nat
    BY <1>1, <2>8, LenProperties DEF Readers
  <2>10. Append(c, e) = c \o <<e>>
    BY <2>6, <2>9, AppendIsConcat
  <2>11. PICK d : d = Append(c, e)
    OBVIOUS
  <2>12. d \in Seq(Entries) /\ Len(d) = Len(c) + 1 /\ d[Len(c) + 1] = e /\ d # <<>>
    BY <2>6, <2>9, <2>11, AppendProperties
  <2>13. Headed(s, q)
    BY <2>7 DEF Holds, Headed
  <2>14. ASSUME HasRoom(q)
         PROVE  Wrote(s, i, q.contacts) /\ q.contacts # <<>>
                /\ IsPerson(q.contacts[Len(q.contacts)], people[i].uin)
    <3>1. q.contacts = d /\ HasRoom(r)
      BY <1>9, <2>7, <2>8, <2>9, <2>10, <2>11, <2>12, <2>14, PlacesAssumption DEF HasRoom
    <3>2. Wrote(s, w, c)
      BY <2>8, <3>1 DEF Holds
    <3>3. Wrote(s, i, Append(c, e))
      BY <1>1, <1>3, <2>6, <2>9, <3>2, WrotePerson
    <3>4. IsPerson(q.contacts[Len(q.contacts)], people[i].uin)
      BY <1>3, <2>6, <2>12, <3>1 DEF IsPerson
    <3> QED BY <2>11, <2>12, <3>1, <3>3, <3>4
  <2>15. Holds(s, i, q)
    BY <2>13, <2>14 DEF Holds
  <2>16. \A k \in 1 .. 1 - 1 : ~Names(people[k], people[i])
    OBVIOUS
  <2>17. Gathered(people, i, 1, q)
    BY <2>7, <2>14, <2>16 DEF Gathered
  <2> QED BY <2>15, <2>17
<1> QED BY <1>1, <1>8, <1>9

(* The text of an alias, or a mark, is only gathered.                      *)
Gathers(s, i, r, w, q) ==
  /\ Holds(s, i, q) /\ q.part = r.part /\ q.contacts = r.contacts
  /\ r.part = "contacts" => q.line = r.line \o w

(* Text behind it changes no entry yet.                                    *)
LEMMA GatheredOn ==
  ASSUME NEW f \in Seq(Chars), NEW r, r = Read_RC_File(f), NEW w \in Seq(Text),
         NEW q, q = Read_RC_File(f \o w), NEW s, NEW i, Holds(s, i, r)
  PROVE  Gathers(s, i, r, w, q)
<1>1. r \in Readers /\ r.part \in {"contacts", "crash"}
  BY ReadTyped DEF Holds, Headed
<1>2. CASE r.part = "crash"
  <2>1. w \in Seq(Chars)
    BY TextIsChars
  <2>2. q = r
    BY <1>2, <2>1, ReadCrash
  <2> QED BY <1>2, <2>2 DEF Gathers
<1>3. CASE r.part = "contacts"
  <2>1. q = [r EXCEPT !.line = r.line \o w]
    BY <1>3, ReadText
  <2>2. /\ q.line = r.line \o w /\ q.part = r.part /\ q.settings = r.settings
        /\ q.contacts = r.contacts
    BY <1>1, <2>1 DEF Readers
  <2>3. Holds(s, i, q)
    BY <2>2 DEF Holds, Headed, HasRoom
  <2> QED BY <2>2, <2>3 DEF Gathers
<1> QED BY <1>1, <1>2, <1>3

(* An alias stays in the line of aliases, which began with a name.         *)
LEMMA AliasSaved ==
  ASSUME NEW f \in Seq(Chars), NEW r, r = Read_RC_File(f), NEW s,
         NEW people \in Seq(Entries),
         NEW i \in 1 .. Len(people), NEW from \in Nat \ {0}, NEW j \in from .. Len(people),
         people[i].kind = "person", Names(people[j], people[i]),
         \A k \in from .. j - 1 : ~Names(people[k], people[i]),
         Holds(s, i, r), Gathered(people, i, from, r),
         NEW q, q = Read_RC_File(f \o (people[j].nick \o <<Space>>))
  PROVE  Holds(s, i, q) /\ Gathered(people, i, j + 1, q)
<1>1. PICK nick, w : nick = people[j].nick /\ w = nick \o <<Space>>
  OBVIOUS
<1>2. Len(people) \in Nat /\ j \in 1 .. Len(people)
  BY LenProperties
<1>3. nick \in Seq(Text)
  <2>1. people[j] \in Entries
    BY <1>2, ElementOfSeq
  <2> QED BY <1>1, <2>1 DEF Entries
<1>4. Space \in Text /\ Space \notin Digits \cup Marks
  BY CharsAssumption DEF Space, Text, NL, Marks
<1>5. /\ w \in Seq(Text) /\ w # <<>>
      /\ nick = <<>> => w[1] = Space
      /\ nick # <<>> => w[1] = nick[1]
  <2>1. <<Space>> \in Seq(Text) /\ Len(<<Space>>) = 1 /\ <<Space>>[1] = Space
    BY <1>4
  <2>2. /\ w \in Seq(Text) /\ Len(w) = Len(nick) + 1
        /\ \A k \in 1 .. Len(nick) + 1 : w[k] = IF k <= Len(nick) THEN nick[k] ELSE <<Space>>[k - Len(nick)]
    BY <1>1, <1>3, <2>1, ConcatProperties
  <2>3. Len(nick) \in Nat /\ (nick = <<>> <=> Len(nick) = 0)
    BY <1>3, LenProperties, EmptySeq
  <2>4. w # <<>>
    BY <2>2, <2>3
  <2>5. nick = <<>> => w[1] = Space
    BY <2>1, <2>2, <2>3
  <2>6. nick # <<>> => w[1] = nick[1]
    BY <2>2, <2>3
  <2> QED BY <2>2, <2>4, <2>5, <2>6
<1>6. /\ Holds(s, i, q) /\ q.part = r.part /\ q.contacts = r.contacts
      /\ r.part = "contacts" => q.line = r.line \o w
  <2>1. q = Read_RC_File(f \o w) /\ w \in Seq(Text)
    BY <1>1, <1>5
  <2>2. Gathers(s, i, r, w, q)
    BY <2>1, GatheredOn, Zenon
  <2> QED BY <2>2 DEF Gathers
<1>7. ASSUME r.part = "contacts"
      PROVE  q.line # <<>> /\ (NamesOnly(people) => q.line[1] \notin Digits \cup Marks)
  <2>1. PICK l, m : l = r.line /\ m = q.line
    OBVIOUS
  <2>2. l \in Seq(Text) /\ m = l \o w
    BY <1>6, <1>7, <2>1, ReadTyped DEF Readers
  <2>3. CASE l = <<>>
    <3>1. m = w
      BY <1>5, <2>2, <2>3, ConcatEmptySeq
    <3>2. ASSUME NamesOnly(people), nick # <<>> PROVE nick[1] \notin Digits \cup Marks
      <4>1. \A k \in 1 .. from - 1 : ~Names(people[k], people[i])
        BY <1>7, <2>1, <2>3 DEF Gathered
      <4>2. \A k \in 1 .. j - 1 : k \in 1 .. from - 1 \/ k \in from .. j - 1
        BY <1>2
      <4>3. \A k \in 1 .. j - 1 : ~Names(people[k], people[i])
        BY <4>1, <4>2
      <4> QED BY <1>1, <1>2, <3>2, <4>3 DEF NamesOnly
    <3> QED BY <1>4, <1>5, <2>1, <3>1, <3>2
  <2>4. CASE l # <<>>
    <3>1. Len(l) \in Nat \ {0}
      BY <2>2, <2>4, LenProperties, EmptySeq
    <3>2. Len(m) = Len(l) + Len(w) /\ m[1] = l[1]
      BY <1>5, <2>2, <3>1, ConcatProperties
    <3>3. m # <<>>
      BY <1>5, <2>2, <3>1, <3>2, LenProperties
    <3>4. NamesOnly(people) => l[1] \notin Digits \cup Marks
      BY <1>7, <2>1, <2>4 DEF Gathered
    <3> QED BY <2>1, <3>2, <3>3, <3>4
  <2> QED BY <2>3, <2>4
<1>8. HasRoom(q) = HasRoom(r)
  BY <1>6 DEF HasRoom
<1>9. Gathered(people, i, j + 1, q)
  BY <1>6, <1>7, <1>8 DEF Gathered
<1> QED BY <1>6, <1>9

(* The end of the aliases, who hide nobody.                                *)
LEMMA AliasesSaved ==
  ASSUME NEW f \in Seq(Chars), NEW r, r = Read_RC_File(f),
         NEW s \in Saves, NEW people, people = s.contacts,
         NEW i \in 1 .. Len(people), people[i].kind = "person", NEW j,
         Holds(s, i, r), Gathered(people, i, j, r),
         NEW q, q = Read_RC_File(f \o <<NL>>)
  PROVE  Holds(s, i, q) /\ (q.part = "contacts" => q.line = <<>>)
<1>1. people \in Seq(Entries) /\ r \in Readers /\ r.part \in {"contacts", "crash"}
  BY ReadTyped DEF Saves, Holds, Headed
<1>2. q = ReadChar(r, NL)
  <2>1. NL \in Chars
    BY CharsAssumption
  <2>2. f \o <<NL>> = Append(f, NL)
    BY <2>1, AppendIsConcat
  <2> QED BY <2>1, <2>2, ReadOne
<1>3. CASE r.part = "crash"
  <2>1. q = r
    BY <1>2, <1>3 DEF ReadChar
  <2> QED BY <1>3, <2>1
<1>4. CASE r.part = "contacts"
  <2>1. PICK c, line, new : c = r.contacts /\ line = r.line /\ new = NewEntries(c, line)
    OBVIOUS
  <2>2. /\ q.line = <<>> /\ q.settings = r.settings
        /\ q.part = IF Len(c) # MAXCONTACTS /\ Alone(line) THEN "crash" ELSE "contacts"
        /\ q.contacts = IF Len(c) = MAXCONTACTS \/ Alone(line) THEN c ELSE c \o new
        /\ q \in Readers
    BY <1>1, <1>2, <1>4, <2>1, ListRead
  <2>3. c \in Seq(Entries) /\ line \in Seq(Text) /\ Len(c) \in Nat
    BY <1>1, <2>1, LenProperties DEF Readers
  <2>4. Headed(s, q)
    BY <2>2 DEF Holds, Headed
  <2>5. ASSUME HasRoom(q) PROVE Wrote(s, i, q.contacts)
    <3>1. Len(c) # MAXCONTACTS /\ ~Alone(line) /\ q.contacts = c \o new
      <4>1. q.part = "contacts" /\ Len(q.contacts) < MAXCONTACTS
        BY <2>5 DEF HasRoom
      <4>2. Len(c) # MAXCONTACTS
        BY <2>2, <2>3, <4>1, PlacesAssumption
      <4>3. ~Alone(line)
        BY <2>2, <4>1, <4>2
      <4> QED BY <2>2, <4>2, <4>3
    <3>2. new \in Seq(Entries) /\ Len(new) \in Nat
      BY <2>1, <2>3, <3>1, NewTyped, LenProperties
    <3>3. PICK d : d = c \o new
      OBVIOUS
    <3>4. /\ d \in Seq(Entries) /\ Len(d) = Len(c) + Len(new)
          /\ \A k \in 1 .. Len(c) + Len(new) : d[k] = IF k <= Len(c) THEN c[k] ELSE new[k - Len(c)]
      BY <2>3, <3>2, <3>3, ConcatProperties
    <3>5. Begins(c, d)
      BY <2>3, <3>2, <3>3, BeginsFacts
    <3>6. HasRoom(r)
      <4>1. Len(d) < MAXCONTACTS
        BY <2>5, <3>1, <3>3 DEF HasRoom
      <4>2. Len(c) < MAXCONTACTS
        BY <2>3, <3>2, <3>4, <4>1, PlacesAssumption
      <4> QED BY <1>4, <2>1, <4>2 DEF HasRoom
    <3>7. Wrote(s, i, c) /\ c # <<>> /\ IsPerson(c[Len(c)], people[i].uin)
      BY <2>1, <3>6 DEF Holds, Gathered
    <3>8. ASSUME NamesOnly(people), NEW u, UIN2nick(c, u) = <<>>,
                 NEW k \in Len(c) + 1 .. Len(d)
          PROVE  ~IsPerson(d[k], u)
      <4>1. PICK m : m = k - Len(c)
        OBVIOUS
      <4>2. m \in 1 .. Len(new) /\ k \in 1 .. Len(c) + Len(new) /\ ~(k <= Len(c))
        BY <2>3, <3>2, <3>4, <3>8, <4>1
      <4>3. d[k] = new[m]
        BY <3>4, <4>1, <4>2
      <4>4. new = <<>> \/ new = Aliases(c, line)
        <5>1. line = <<>> \/ line[1] \notin Digits \cup Marks
          BY <1>4, <2>1, <3>8 DEF Gathered
        <5> QED BY <2>1, <5>1 DEF NewEntries, IsMark
      <4>5. new = Aliases(c, line)
        <5>1. Len(<<>>) = 0
          OBVIOUS
        <5> QED BY <4>2, <4>4, <5>1
      <4>6. LastEntry(c) = c[Len(c)]
        BY <3>7 DEF LastEntry
      <4>7. new[m].uin = c[Len(c)].uin
            /\ new[m].kind = Signed(c[Len(c)].uin, c[Len(c)].kind = "person")
        BY <2>3, <4>2, <4>5, <4>6, AliasesTyped
      <4>8. SUFFICES ASSUME IsPerson(d[k], u) PROVE FALSE
        OBVIOUS
      <4>9. IsPerson(c[Len(c)], u)
        BY <3>7, <4>3, <4>7, <4>8 DEF IsPerson
      <4>10. Len(c) \in Places(c, u)
        <5>1. Len(c) \in 1 .. Len(c)
          BY <2>3, <3>7, EmptySeq
        <5> QED BY <4>9, <5>1 DEF Places, IsPerson
      <4>11. PICK p, n : p = Places(c, u) /\ n = c[Min(p)].nick
        OBVIOUS
      <4>12. UIN2nick(c, u) = IF p = {} THEN <<>> ELSE <<n>>
        BY <4>11 DEF UIN2nick
      <4> QED BY <3>8, <4>10, <4>11, <4>12
    <3>9. Wrote(s, i, d)
      <4>1. i \in 0 .. Len(s.contacts)
        OBVIOUS
      <4>2. NamesOnly(s.contacts) => \A u : \/ UIN2nick(c, u) # <<>>
                                            \/ \A k \in Len(c) + 1 .. Len(d) : ~IsPerson(d[k], u)
        BY <3>8
      <4> QED BY <1>1, <2>3, <3>4, <3>5, <3>7, <4>1, <4>2, WroteMore
    <3> QED BY <3>1, <3>3, <3>9
  <2> QED BY <2>2, <2>4, <2>5 DEF Holds
<1> QED BY <1>1, <1>3, <1>4

(* A line of the settings.                                                 *)
Sets(r, key, text, q) ==
  /\ q.line = <<>> /\ q.contacts = r.contacts
  /\ q.part = IF key = "Contacts" THEN "contacts" ELSE "settings"
  /\ q.settings.UIN = IF key = "UIN" THEN text ELSE r.settings.UIN
  /\ q.settings.Status = IF key = "Status" THEN text ELSE r.settings.Status
  /\ q.settings.Reply = IF key = "Reply" THEN text ELSE r.settings.Reply

(* A line of the settings.                                                 *)
LEMMA SettingSaved ==
  ASSUME NEW f \in Seq(Chars), NEW r, r = Read_RC_File(f),
         r.part = "settings", r.line = <<>>,
         NEW line \in Seq(Text), line # <<>>, NEW key, key = line[1], NEW text, text = Tail(line),
         NEW q, q = Read_RC_File(f \o (line \o <<NL>>))
  PROVE  Sets(r, key, text, q)
<1>1. line \in Seq(Text) /\ line # <<>> /\ line[1] = key /\ Tail(line) = text
  OBVIOUS
<1>2. ReadsLine(f, line, r)
  BY <1>1, ReadLine
<1>3. PICK p \in Readers : p = [r EXCEPT !.line = r.line \o line] /\ q = ReadChar(p, NL)
  BY <1>2, Zenon DEF ReadsLine
<1>4. r.line \o line = line
  BY <1>1, ConcatEmptySeq
<1>5. r \in Readers
  BY ReadTyped
<1>6. /\ p.part = "settings" /\ p.line = line /\ p.settings = r.settings
      /\ p.contacts = r.contacts
  BY <1>3, <1>4, <1>5 DEF Readers
<1>7. /\ q.line = <<>> /\ q.contacts = r.contacts
      /\ q.part = IF line # <<>> /\ line[1] = "Contacts" THEN "contacts" ELSE "settings"
      /\ q.settings = [UIN |-> Told(line, "UIN", r.settings.UIN),
                       Status |-> Told(line, "Status", r.settings.Status),
                       Reply |-> Told(line, "Reply", r.settings.Reply)]
  BY <1>3, <1>6, SettingRead
<1>8. /\ q.settings.UIN = Told(line, "UIN", r.settings.UIN)
      /\ q.settings.Status = Told(line, "Status", r.settings.Status)
      /\ q.settings.Reply = Told(line, "Reply", r.settings.Reply)
  BY <1>7
<1>9. \A k, old : Told(line, k, old) = IF key = k THEN text ELSE old
  BY <1>1 DEF Told
<1>10. /\ q.line = <<>> /\ q.contacts = r.contacts
       /\ q.part = IF key = "Contacts" THEN "contacts" ELSE "settings"
  BY <1>1, <1>7
<1>11. /\ q.settings.UIN = IF key = "UIN" THEN text ELSE r.settings.UIN
       /\ q.settings.Status = IF key = "Status" THEN text ELSE r.settings.Status
       /\ q.settings.Reply = IF key = "Reply" THEN text ELSE r.settings.Reply
  <2>1. PICK u, s, m : u = r.settings.UIN /\ s = r.settings.Status /\ m = r.settings.Reply
    OBVIOUS
  <2>2. /\ Told(line, "UIN", u) = IF key = "UIN" THEN text ELSE u
        /\ Told(line, "Status", s) = IF key = "Status" THEN text ELSE s
        /\ Told(line, "Reply", m) = IF key = "Reply" THEN text ELSE m
    BY <1>9
  <2>3. /\ q.settings.UIN = Told(line, "UIN", u)
        /\ q.settings.Status = Told(line, "Status", s)
        /\ q.settings.Reply = Told(line, "Reply", m)
    BY <1>8, <2>1
  <2> QED BY <2>1, <2>2, <2>3
<1> QED BY <1>10, <1>11, Zenon DEF Sets
-----------------------------------------------------------------------------
(* Writing over what stands in a file.                                     *)
LEMMA OverwriteFacts ==
  ASSUME NEW f \in Seq(Chars), NEW p \in 0 .. Len(f), NEW chars \in Seq(Chars),
         NEW g, g = Overwrite(f, p, chars), NEW n, n = p + Len(chars)
  PROVE  /\ g \in Seq(Chars) /\ n \in 0 .. Len(g) /\ n \in Nat
         /\ SubSeq(g, 1, n) = SubSeq(f, 1, p) \o chars
         /\ SubSeq(g, 1, p) = SubSeq(f, 1, p)
         /\ IF n >= Len(f) THEN Len(g) = n
            ELSE Len(g) = Len(f) /\ g[Len(g)] = f[Len(f)]
<1>1. Len(f) \in Nat /\ Len(chars) \in Nat /\ p \in Nat /\ n \in Nat
  BY LenProperties
<1>2. PICK a, b : a = SubSeq(f, 1, p) /\ b = SubSeq(f, n + 1, Len(f))
  OBVIOUS
<1>3. /\ a \in Seq(Chars) /\ Len(a) = p /\ \A k \in 1 .. p : a[k] = f[k]
  BY <1>2, PrefixOf
<1>4. /\ b \in Seq(Chars)
      /\ Len(b) = IF n + 1 <= Len(f) THEN Len(f) - (n + 1) + 1 ELSE 0
      /\ \A k \in 1 .. Len(f) - (n + 1) + 1 : b[k] = f[n + 1 + k - 1]
  <2>1. n + 1 \in Nat \ {0}
    BY <1>1
  <2> QED BY <1>1, <1>2, <2>1, PartOf
<1>5. PICK h : h = a \o chars
  OBVIOUS
<1>6. /\ h \in Seq(Chars) /\ Len(h) = n
      /\ \A k \in 1 .. p + Len(chars) : h[k] = IF k <= p THEN a[k] ELSE chars[k - p]
  BY <1>1, <1>3, <1>5, ConcatProperties
<1>7. g = h \o b
  <2>1. PICK e : e = p + Len(chars) + 1
    OBVIOUS
  <2>2. e = n + 1
    BY <1>1, <2>1
  <2>3. g = SubSeq(f, 1, p) \o chars \o SubSeq(f, e, Len(f))
    BY <2>1, Zenon DEF Overwrite
  <2> QED BY <1>2, <1>5, <2>2, <2>3
<1>8. /\ g \in Seq(Chars) /\ Len(g) = n + Len(b)
      /\ \A k \in 1 .. n + Len(b) : g[k] = IF k <= n THEN h[k] ELSE b[k - n]
  <2>1. /\ g \in Seq(Chars) /\ Len(g) = Len(h) + Len(b)
        /\ \A k \in 1 .. Len(h) + Len(b) : g[k] = IF k <= Len(h) THEN h[k] ELSE b[k - Len(h)]
    <3>1. h \in Seq(Chars) /\ b \in Seq(Chars)
      BY <1>4, <1>6
    <3> QED BY <1>7, <3>1, ConcatProperties
  <2>2. Len(h) = n
    BY <1>6
  <2> QED BY <2>1, <2>2
<1>9. Len(b) \in Nat /\ Len(g) \in Nat
  BY <1>4, <1>8, LenProperties
<1>10. n \in 0 .. Len(g) /\ p \in 0 .. Len(g) /\ p <= n
  BY <1>1, <1>8, <1>9
<1>11. SubSeq(g, 1, n) = h
  <2>1. PICK x : x = SubSeq(g, 1, n)
    OBVIOUS
  <2>2. x \in Seq(Chars) /\ Len(x) = n /\ \A k \in 1 .. n : x[k] = g[k]
    BY <1>8, <1>10, <2>1, PrefixOf
  <2>3. \A k \in 1 .. n : x[k] = h[k]
    BY <1>1, <1>8, <1>9, <2>2
  <2> QED BY <1>6, <2>1, <2>2, <2>3, SeqEqual
<1>12. SubSeq(g, 1, p) = a
  <2>1. PICK x : x = SubSeq(g, 1, p)
    OBVIOUS
  <2>2. x \in Seq(Chars) /\ Len(x) = p /\ \A k \in 1 .. p : x[k] = g[k]
    BY <1>8, <1>10, <2>1, PrefixOf
  <2>3. \A k \in 1 .. p : x[k] = a[k]
    BY <1>1, <1>6, <1>8, <1>9, <1>10, <2>2
  <2> QED BY <1>3, <2>1, <2>2, <2>3, SeqEqual
<1>13. IF n >= Len(f) THEN Len(g) = n ELSE Len(g) = Len(f) /\ g[Len(g)] = f[Len(f)]
  <2>1. CASE n >= Len(f)
    <3>1. ~(n + 1 <= Len(f))
      BY <1>1, <2>1
    <3>2. Len(b) = 0
      BY <1>4, <3>1
    <3> QED BY <1>1, <1>8, <2>1, <3>2
  <2>2. CASE ~(n >= Len(f))
    <3>1. PICK m, l : m = Len(b) /\ l = Len(f)
      OBVIOUS
    <3>2. m = l - n /\ m \in 1 .. Len(f) - (n + 1) + 1 /\ Len(g) = l
      <4>1. n + 1 <= Len(f)
        BY <1>1, <2>2
      <4>2. Len(b) = Len(f) - (n + 1) + 1
        BY <1>4, <4>1
      <4> QED BY <1>1, <1>8, <3>1, <4>1, <4>2
    <3>3. b[m] = f[l]
      BY <1>1, <1>4, <3>1, <3>2
    <3>4. g[l] = b[m]
      <4>1. l \in 1 .. n + Len(b) /\ ~(l <= n) /\ l - n = m
        BY <1>1, <1>9, <2>2, <3>1, <3>2
      <4> QED BY <1>8, <4>1
    <3> QED BY <2>2, <3>1, <3>2, <3>3, <3>4
  <2> QED BY <2>1, <2>2
<1> QED BY <1>1, <1>2, <1>5, <1>8, <1>10, <1>11, <1>12, <1>13
-----------------------------------------------------------------------------
(* The steps of Save_RC.                                                   *)

\* One M_fdprint after which Save_RC goes on, seen from the reader.
Advanced(f, chars) ==
  /\ f \in Seq(Chars) /\ At = Read_RC_File(f) /\ At' = Read_RC_File(f \o chars)
  /\ file' \in Seq(Chars) /\ pos' \in 0 .. Len(file') /\ pos' \in Nat
  /\ Ended'

(* What an M_fdprint writes is what the reader reads next.                 *)
LEMMA SaveAdvances ==
  ASSUME FileInv, NEW chars \in Seq(Chars), M_fdprint(chars), GoesOn(chars)
  PROVE  \E f : Advanced(f, chars)
<1>1. /\ file \in Seq(Chars) /\ pos \in 0 .. Len(file) /\ pc = "save" /\ pc' = "save"
      /\ file' = Overwrite(file, pos, chars) /\ pos' = pos + Len(chars) /\ cut' = cut
  BY DEF FileInv, FileTypes, SaveInv, M_fdprint, GoesOn
<1>2. PICK f, g, n : f = SubSeq(file, 1, pos) /\ g = file' /\ n = pos'
  OBVIOUS
<1>3. /\ g \in Seq(Chars) /\ n \in 0 .. Len(g) /\ n \in Nat
      /\ SubSeq(g, 1, n) = SubSeq(file, 1, pos) \o chars
      /\ IF n >= Len(file) THEN Len(g) = n
         ELSE Len(g) = Len(file) /\ g[Len(g)] = file[Len(file)]
  <2>1. g = Overwrite(file, pos, chars) /\ n = pos + Len(chars)
    BY <1>1, <1>2
  <2>2. PICK x, p : x = file /\ p = pos
    OBVIOUS
  <2>3. /\ x \in Seq(Chars) /\ p \in 0 .. Len(x)
        /\ g = Overwrite(x, p, chars) /\ n = p + Len(chars)
    BY <1>1, <2>1, <2>2
  <2>4. /\ g \in Seq(Chars) /\ n \in 0 .. Len(g) /\ n \in Nat
        /\ SubSeq(g, 1, n) = SubSeq(x, 1, p) \o chars
        /\ IF n >= Len(x) THEN Len(g) = n
           ELSE Len(g) = Len(x) /\ g[Len(g)] = x[Len(x)]
    BY <2>3, OverwriteFacts
  <2> QED BY <2>2, <2>4
<1>4. f \in Seq(Chars)
  BY <1>1, <1>2, PrefixOf
<1>5. At = Read_RC_File(f)
  BY <1>2 DEF At
<1>6. At' = Read_RC_File(f \o chars)
  BY <1>2, <1>3 DEF At
<1>7. ~cut => n = Len(g) \/ g[Len(g)] = NL
  <2>1. Len(file) \in Nat /\ Len(chars) \in Nat
    BY <1>1, LenProperties
  <2>2. file # NoFile
    BY <1>1, FilesAssumption
  <2>3. ~cut => pos = Len(file) \/ file[Len(file)] = NL
    BY <1>1, <2>2 DEF FileInv, Ended
  <2>4. pos = Len(file) => n >= Len(file)
    BY <1>1, <1>2, <2>1
  <2> QED BY <1>3, <2>3, <2>4
<1>8. Ended'
  BY <1>1, <1>2, <1>7 DEF Ended
<1>9. Advanced(f, chars)
  BY <1>2, <1>3, <1>4, <1>5, <1>6, <1>8 DEF Advanced
<1> QED BY <1>9

\* What holds after such a step whatever was written.
LEMMA SavingKept ==
  ASSUME FileInv, NEW chars \in Seq(Chars), M_fdprint(chars), GoesOn(chars),
         step' \in {"settings", "contact", "line", "aliases"},
         this' \in Nat, that' \in Nat, written' \in 0 .. Len(saved.contacts),
         SaveInv'
  PROVE  FileInv'
<1>1. PICK f : Advanced(f, chars)
  BY SaveAdvances
<1>2. /\ pc' = "save" /\ file' \in Seq(Chars) /\ file' # NoFile /\ pos' \in Nat /\ Ended'
      /\ cut' = cut /\ UNCHANGED <<memory, asked, saved, added>>
  BY <1>1, FilesAssumption DEF Advanced, M_fdprint, GoesOn
<1>3. FileTypes'
  <2>1. UNCHANGED <<Contacts, UIN, Current_Status, set_status, auto_resp, reply>>
    BY <1>2 DEF memory
  <2> QED BY <1>2, <2>1 DEF FileInv, FileTypes
<1>4. AddedKept'
  <2>1. pc = "save" /\ Contacts' = Contacts /\ added' = added
    BY <1>2 DEF memory, M_fdprint
  <2> QED BY <2>1 DEF FileInv, AddedKept
<1>5. Lasting' /\ AddedIsListed'
  BY <1>2 DEF Lasting, AddedIsListed
<1> QED BY <1>2, <1>3, <1>4, <1>5 DEF FileInv

(* The lines of the settings.                                              *)
IsLine(n, chars, line, uin, status, message) ==
  /\ line \in Seq(Text) /\ line # <<>> /\ chars = line \o <<NL>>
  /\ n = 1 => line[1] = "UIN" /\ Tail(line) = uin
  /\ n = 2 => line[1] = "Status" /\ Tail(line) = status
  /\ n = 3 => line[1] \in {"Auto", "#"}
  /\ n = 4 => line[1] = "Reply" /\ Tail(line) = message
  /\ n = 5 => line[1] = "Contacts"

(* Each of the five lines has its keyword and its text.                    *)
LEMMA SettingLines ==
  ASSUME NEW uin \in Seq(Text), NEW status \in Seq(Text), NEW message \in Seq(Text),
         NEW auto \in BOOLEAN, NEW n \in 1 .. 5,
         NEW writes, writes = SettingWrites(uin, status, auto, message)
  PROVE  Len(writes) = 5 /\ \E line : IsLine(n, writes[n], line, uin, status, message)
<1>1. {"UIN", "Status", "Auto", "Reply", "Contacts", "#"} \subseteq Text
  BY CharsAssumption DEF Text, Keywords, NL
<1>2. PICK a, b, c, d, e :
        /\ a = <<"UIN">> \o uin \o <<NL>>
        /\ b = <<"Status">> \o status \o <<NL>>
        /\ c = (IF auto THEN <<"Auto">> ELSE <<"#", "Auto">>) \o <<NL>>
        /\ d = <<"Reply">> \o message \o <<NL>>
        /\ e = <<"Contacts", NL>>
  OBVIOUS
<1>3. writes = <<a, b, c, d, e>>
  BY <1>2 DEF SettingWrites
<1>4. /\ Len(writes) = 5 /\ writes[1] = a /\ writes[2] = b /\ writes[3] = c
      /\ writes[4] = d /\ writes[5] = e
  BY <1>3
<1>5. CASE n = 1
  <2>1. PICK line : line = <<"UIN">> \o uin
    OBVIOUS
  <2>2. line \in Seq(Text) /\ line # <<>> /\ line[1] = "UIN" /\ Tail(line) = uin
    BY <1>1, <2>1, TailOfConcat
  <2>3. writes[n] = line \o <<NL>>
    BY <1>2, <1>4, <1>5, <2>1
  <2>4. IsLine(n, writes[n], line, uin, status, message)
    BY <1>5, <2>2, <2>3 DEF IsLine
  <2> QED BY <1>4, <2>4
<1>6. CASE n = 2
  <2>1. PICK line : line = <<"Status">> \o status
    OBVIOUS
  <2>2. line \in Seq(Text) /\ line # <<>> /\ line[1] = "Status" /\ Tail(line) = status
    BY <1>1, <2>1, TailOfConcat
  <2>3. writes[n] = line \o <<NL>>
    BY <1>2, <1>4, <1>6, <2>1
  <2>4. IsLine(n, writes[n], line, uin, status, message)
    BY <1>6, <2>2, <2>3 DEF IsLine
  <2> QED BY <1>4, <2>4
<1>7. CASE n = 3
  <2>1. PICK line : line = IF auto THEN <<"Auto">> ELSE <<"#", "Auto">>
    OBVIOUS
  <2>2. line \in Seq(Text) /\ line # <<>> /\ line[1] \in {"Auto", "#"}
    BY <1>1, <2>1
  <2>3. writes[n] = line \o <<NL>>
    BY <1>2, <1>4, <1>7, <2>1
  <2>4. IsLine(n, writes[n], line, uin, status, message)
    BY <1>7, <2>2, <2>3 DEF IsLine
  <2> QED BY <1>4, <2>4
<1>8. CASE n = 4
  <2>1. PICK line : line = <<"Reply">> \o message
    OBVIOUS
  <2>2. line \in Seq(Text) /\ line # <<>> /\ line[1] = "Reply" /\ Tail(line) = message
    BY <1>1, <2>1, TailOfConcat
  <2>3. writes[n] = line \o <<NL>>
    BY <1>2, <1>4, <1>8, <2>1
  <2>4. IsLine(n, writes[n], line, uin, status, message)
    BY <1>8, <2>2, <2>3 DEF IsLine
  <2> QED BY <1>4, <2>4
<1>9. CASE n = 5
  <2>1. PICK k, line : k = "Contacts" /\ line = <<k>>
    OBVIOUS
  <2>2. line \in Seq(Text) /\ line # <<>> /\ line[1] = k
    BY <1>1, <2>1
  <2>3. line \o <<NL>> = <<k, NL>>
    <3>1. PICK m : m = NL
      OBVIOUS
    <3>2. k \in Chars /\ m \in Chars /\ line = <<k>>
      BY <1>1, <2>1, <3>1, CharsAssumption DEF Text
    <3>3. line \in Seq(Chars) /\ Len(line) = 1
      BY <3>2
    <3>4. Append(line, m) = line \o <<m>>
      BY <3>2, <3>3, AppendIsConcat
    <3>5. Append(line, m) = <<k, m>>
      <4>1. PICK x, y : x = Append(line, m) /\ y = <<k, m>>
        OBVIOUS
      <4>2. x \in Seq(Chars) /\ Len(x) = 2 /\ x[1] = k /\ x[2] = m
        BY <3>2, <3>3, <4>1, AppendProperties
      <4>3. y \in Seq(Chars) /\ Len(y) = 2 /\ y[1] = k /\ y[2] = m
        BY <3>2, <4>1
      <4>4. \A j \in 1 .. Len(x) : x[j] = y[j]
        <5>1. \A j \in 1 .. 2 : j = 1 \/ j = 2
          OBVIOUS
        <5> QED BY <4>2, <4>3, <5>1
      <4> QED BY <4>1, <4>2, <4>3, <4>4, SeqEqual
    <3> QED BY <3>1, <3>4, <3>5
  <2>4. writes[n] = line \o <<NL>>
    BY <1>2, <1>4, <1>9, <2>1, <2>3
  <2>5. IsLine(n, writes[n], line, uin, status, message)
    BY <1>9, <2>1, <2>2, <2>4 DEF IsLine
  <2> QED BY <1>4, <2>5
<1> QED BY <1>5, <1>6, <1>7, <1>8, <1>9

(* A line of the settings is written.                                      *)
LEMMA SettingStep == ASSUME FileInv, SaveSetting PROVE FileInv'
<1>1. /\ pc = "save" /\ step = "settings" /\ FileTypes /\ SaveInv
      /\ UIN \in Seq(Text) /\ Current_Status \in Seq(Text) /\ reply \in Seq(Text)
      /\ auto_resp \in BOOLEAN /\ saved \in Saves /\ Contacts \in Seq(Entries)
  BY DEF FileInv, FileTypes, SaveSetting, M_fdprint, Saves
<1>2. /\ this = 1 /\ written = 0 /\ that \in 1 .. 5
      /\ At.line = <<>> /\ At.part = "settings" /\ At.contacts = <<>>
      /\ that > 1 => At.settings.UIN = UIN
      /\ that > 2 => At.settings.Status = Current_Status
      /\ that > 4 => At.settings.Reply = reply
      /\ saved.contacts = Contacts
      /\ saved.settings = [UIN |-> UIN, Status |-> Current_Status, Reply |-> reply]
  BY <1>1 DEF SaveInv, SettingsInv
<1>3. PICK writes : writes = SettingWrites(UIN, Current_Status, auto_resp, reply)
  OBVIOUS
<1>4. PICK chars : chars = writes[that]
  OBVIOUS
<1>5. PICK line : IsLine(that, chars, line, UIN, Current_Status, reply)
  BY <1>1, <1>2, <1>3, <1>4, SettingLines
<1>6. Len(writes) = 5
  BY <1>1, <1>2, <1>3, SettingLines
<1>7. /\ M_fdprint(chars) /\ GoesOn(chars)
      /\ IF that < 5 THEN that' = that + 1 /\ UNCHANGED step
         ELSE that' = 1 /\ step' = "contact"
      /\ UNCHANGED <<this, written>>
  BY <1>3, <1>4, <1>6 DEF SaveSetting
<1>8. chars \in Seq(Chars) /\ line \in Seq(Text) /\ line # <<>> /\ chars = line \o <<NL>>
  <2>1. line \in Seq(Text) /\ line # <<>> /\ chars = line \o <<NL>>
    BY <1>5 DEF IsLine
  <2>2. line \in Seq(Chars) /\ <<NL>> \in Seq(Chars)
    BY <2>1, TextIsChars, CharsAssumption
  <2> QED BY <2>1, <2>2, ConcatProperties
<1>9. PICK f : Advanced(f, chars)
  BY <1>7, <1>8, SaveAdvances
<1>10. PICK q, r : q = At' /\ r = At
  OBVIOUS
<1>11. /\ f \in Seq(Chars) /\ r = Read_RC_File(f) /\ q = Read_RC_File(f \o (line \o <<NL>>))
       /\ file' \in Seq(Chars) /\ pos' \in 0 .. Len(file')
  BY <1>8, <1>9, <1>10 DEF Advanced
<1>12. PICK key, text : key = line[1] /\ text = Tail(line)
  OBVIOUS
<1>13. Sets(r, key, text, q)
  BY <1>2, <1>8, <1>10, <1>11, <1>12, SettingSaved
<1>14. /\ q.line = <<>> /\ q.contacts = <<>>
       /\ q.part = IF key = "Contacts" THEN "contacts" ELSE "settings"
       /\ q.settings.UIN = IF key = "UIN" THEN text ELSE r.settings.UIN
       /\ q.settings.Status = IF key = "Status" THEN text ELSE r.settings.Status
       /\ q.settings.Reply = IF key = "Reply" THEN text ELSE r.settings.Reply
  BY <1>2, <1>10, <1>13 DEF Sets
<1>15. /\ that = 1 => key = "UIN" /\ text = UIN
       /\ that = 2 => key = "Status" /\ text = Current_Status
       /\ that = 3 => key \in {"Auto", "#"}
       /\ that = 4 => key = "Reply" /\ text = reply
       /\ that = 5 => key = "Contacts"
  BY <1>5, <1>12 DEF IsLine
<1>16. that = 1 \/ that = 2 \/ that = 3 \/ that = 4 \/ that = 5
  BY <1>2
<1>17. /\ q.settings.UIN = UIN
       /\ that > 1 => q.settings.Status = Current_Status
       /\ that > 3 => q.settings.Reply = reply
  BY <1>2, <1>10, <1>14, <1>15, <1>16
<1>18. /\ pc' = "save" /\ Contacts' = Contacts /\ UIN' = UIN
       /\ Current_Status' = Current_Status /\ reply' = reply /\ saved' = saved
       /\ this' = 1 /\ written' = 0
  BY <1>1, <1>2, <1>7 DEF M_fdprint, GoesOn, memory
<1>19. CASE that < 5
  <2>1. that' = that + 1 /\ step' = "settings"
    BY <1>1, <1>7, <1>19
  <2>2. q.part = "settings"
    BY <1>14, <1>15, <1>16, <1>19
  <2>3. SettingsInv'
    BY <1>2, <1>10, <1>14, <1>17, <1>18, <1>19, <2>1, <2>2 DEF SettingsInv
  <2>4. SaveInv'
    BY <1>2, <1>11, <1>18, <2>1, <2>3 DEF SaveInv
  <2>5. this' \in Nat /\ that' \in Nat /\ written' \in 0 .. Len(saved.contacts)
    BY <1>1, <1>2, <1>18, <2>1, LenProperties
  <2> QED BY <1>7, <1>8, <2>1, <2>4, <2>5, SavingKept
<1>20. CASE that = 5
  <2>1. that' = 1 /\ step' = "contact"
    BY <1>7, <1>20
  <2>2. q.part = "contacts"
    BY <1>14, <1>15, <1>20
  <2>3. q.settings = saved.settings
    <3>1. PICK u, s, m, t : u = UIN /\ s = Current_Status /\ m = reply /\ t = q.settings
      OBVIOUS
    <3>2. q \in Readers
      <4>1. f \o (line \o <<NL>>) \in Seq(Chars)
        BY <1>8, <1>11, ConcatProperties
      <4> QED BY <1>11, <4>1, ReadTyped
    <3>3. t \in Settings
      BY <3>1, <3>2 DEF Readers
    <3>4. t = [UIN |-> t.UIN, Status |-> t.Status, Reply |-> t.Reply]
      BY <3>3 DEF Settings
    <3>5. t.UIN = u /\ t.Status = s /\ t.Reply = m
      BY <1>17, <1>20, <3>1
    <3> QED BY <1>2, <3>1, <3>4, <3>5
  <2>4. Holds(saved, 0, q)
    <3>1. Headed(saved, q)
      BY <2>2, <2>3 DEF Headed
    <3>2. saved.contacts \in Seq(Entries)
      BY <1>1 DEF Saves
    <3>3. Wrote(saved, 0, q.contacts)
      BY <1>14, <3>2, WroteNothing
    <3> QED BY <3>1, <3>3 DEF Holds
  <2>5. ContactInv'
    <3>1. Len(Contacts) \in Nat
      BY <1>1, LenProperties
    <3>2. Passed(Contacts, 0 + 1, 1 - 1)
      BY DEF Passed
    <3>3. this' \in 1 .. Len(Contacts') + 1 /\ that' = 1 /\ written' < this'
      BY <1>18, <2>1, <3>1
    <3>4. Passed(Contacts', written' + 1, this' - 1)
      BY <1>18, <3>2
    <3>5. Holds(saved', written', At')
      BY <1>10, <1>18, <2>4
    <3>6. At'.line = <<>>
      BY <1>10, <1>14
    <3> QED BY <3>3, <3>4, <3>5, <3>6 DEF ContactInv
  <2>6. SaveInv'
    BY <1>2, <1>11, <1>18, <2>1, <2>5 DEF SaveInv
  <2>7. this' \in Nat /\ that' \in Nat /\ written' \in 0 .. Len(saved.contacts)
    BY <1>1, <1>2, <1>18, <2>1, LenProperties
  <2> QED BY <1>7, <1>8, <2>1, <2>6, <2>7, SavingKept
<1> QED BY <1>16, <1>19, <1>20

(* The mark of a contact is written.                                       *)
LEMMA MarkStep ==
  ASSUME FileInv, NEW i \in 1 .. Len(Contacts), SaveMark(i)
  PROVE  FileInv'
<1>1. /\ pc = "save" /\ step = "contact" /\ FileTypes /\ SaveInv
      /\ saved \in Saves /\ Contacts \in Seq(Entries) /\ Len(Contacts) \in Nat
      /\ written \in 0 .. Len(saved.contacts)
  BY LenProperties DEF FileInv, FileTypes, SaveMark, M_fdprint, Saves
<1>2. /\ this \in 1 .. Len(Contacts) + 1 /\ that = 1
      /\ written < this /\ Passed(Contacts, written + 1, this - 1)
      /\ Holds(saved, written, At) /\ (At.part = "contacts" => At.line = <<>>)
      /\ saved.contacts = Contacts
      /\ saved.settings = [UIN |-> UIN, Status |-> Current_Status, Reply |-> reply]
  BY <1>1 DEF SaveInv, ContactInv
<1>16. written \in Nat /\ this \in Nat /\ i \in Nat /\ written <= Len(Contacts)
  <2>1. PICK n : n = Len(Contacts)
    OBVIOUS
  <2>2. n \in Nat /\ written \in 0 .. n /\ this \in 1 .. n + 1 /\ i \in 1 .. n
    BY <1>1, <1>2, <2>1
  <2> QED BY <2>1, <2>2
<1>3. PICK mark, chars : mark = Contacts[i].list /\ chars = <<mark>>
  OBVIOUS
<1>4. /\ i \in this .. Len(Contacts) /\ Contacts[i].kind = "person" /\ mark # ""
      /\ \A k \in this .. i - 1 : Contacts[k].kind = "alias"
      /\ M_fdprint(chars) /\ GoesOn(chars)
      /\ step' = "line" /\ this' = i /\ that' = that /\ written' = written
  BY <1>3 DEF SaveMark, IsNext, NoPerson
<1>5. mark \in Marks /\ mark \in Text
  <2>1. Contacts[i] \in Entries
    BY <1>1, ElementOfSeq
  <2>2. mark \in Lists
    BY <1>3, <2>1 DEF Entries
  <2> QED BY <1>4, <2>2, CharsAssumption DEF Lists, Marks, Text, NL
<1>6. chars \in Seq(Text) /\ chars \in Seq(Chars)
  <2>1. chars \in Seq(Text)
    BY <1>3, <1>5
  <2> QED BY <2>1, TextIsChars
<1>7. PICK f : Advanced(f, chars)
  BY <1>4, <1>6, SaveAdvances
<1>8. PICK q, r : q = At' /\ r = At
  OBVIOUS
<1>9. /\ f \in Seq(Chars) /\ r = Read_RC_File(f) /\ q = Read_RC_File(f \o chars)
      /\ file' \in Seq(Chars) /\ pos' \in 0 .. Len(file')
  BY <1>7, <1>8 DEF Advanced
<1>10. Gathers(saved, written, r, chars, q)
  BY <1>2, <1>6, <1>8, <1>9, GatheredOn
<1>11. /\ pc' = "save" /\ Contacts' = Contacts /\ UIN' = UIN
       /\ Current_Status' = Current_Status /\ reply' = reply /\ saved' = saved
  BY <1>1, <1>4 DEF M_fdprint, GoesOn, memory
<1>12. Passed(Contacts, written + 1, i - 1)
  <2>1. \A k \in written + 1 .. i - 1 : k \in written + 1 .. this - 1 \/ k \in this .. i - 1
    BY <1>16
  <2> QED BY <1>2, <1>4, <2>1 DEF Passed
<1>13. LineInv'
  <2>1. Holds(saved', written', At')
    BY <1>4, <1>8, <1>10, <1>11 DEF Gathers
  <2>2. At'.part = "contacts" => At'.line = <<mark>>
    <3>1. r.part = "contacts" => r.line \o chars = chars
      BY <1>2, <1>6, <1>8, ConcatEmptySeq
    <3> QED BY <1>3, <1>8, <1>10, <3>1 DEF Gathers
  <2>3. this' \in 1 .. Len(Contacts') /\ Contacts'[this'].kind = "person"
        /\ Contacts'[this'].list = mark
    BY <1>3, <1>4, <1>11
  <2>4. written' < this' /\ Passed(Contacts', written' + 1, this' - 1)
    <3>1. written < i
      <4>1. this <= i
        <5>1. PICK n : n = Len(Contacts)
          OBVIOUS
        <5>2. n \in Nat /\ i \in this .. n
          BY <1>1, <1>4, <5>1
        <5> QED BY <1>16, <5>2
      <4> QED BY <1>2, <1>16, <4>1
    <3> QED BY <1>4, <1>11, <1>12, <3>1
  <2> QED BY <1>5, <2>1, <2>2, <2>3, <2>4 DEF LineInv
<1>14. SaveInv'
  BY <1>2, <1>4, <1>9, <1>11, <1>13 DEF SaveInv
<1>15. this' \in Nat /\ that' \in Nat /\ written' \in 0 .. Len(saved.contacts)
  <2>1. that' \in Nat
    BY <1>2, <1>4
  <2> QED BY <1>1, <1>4, <1>16, <2>1
<1> QED BY <1>4, <1>6, <1>14, <1>15, SavingKept

(* The line of a contact is written.                                       *)
LEMMA LineStep ==
  ASSUME FileInv, NEW i \in 1 .. Len(Contacts), SaveLine(i)
  PROVE  FileInv'
<1>1. /\ pc = "save" /\ FileTypes /\ SaveInv
      /\ saved \in Saves /\ Contacts \in Seq(Entries) /\ Len(Contacts) \in Nat
      /\ written \in 0 .. Len(saved.contacts)
      /\ saved.contacts = Contacts
      /\ saved.settings = [UIN |-> UIN, Status |-> Current_Status, Reply |-> reply]
  BY LenProperties DEF FileInv, FileTypes, SaveLine, M_fdprint, Saves, SaveInv
<1>15. i \in Nat /\ written \in Nat /\ i \in 0 .. Len(saved.contacts) /\ 1 \in 1 .. Len(Contacts) + 1
  <2>1. PICK n : n = Len(Contacts)
    OBVIOUS
  <2>2. n \in Nat /\ written \in 0 .. n /\ i \in 1 .. n /\ n = Len(saved.contacts)
    BY <1>1, <2>1
  <2> QED BY <2>1, <2>2
<1>2. PICK c, chars : c = Contacts[i] /\ chars = ContactLine(c)
  OBVIOUS
<1>3. /\ M_fdprint(chars) /\ GoesOn(chars)
      /\ step' = "aliases" /\ this' = i /\ that' = 1 /\ written' = i
      /\ \/ step = "contact" /\ IsNext(i) /\ c.list = ""
         \/ step = "line" /\ i = this
  BY <1>2 DEF SaveLine
<1>4. c \in Entries
  BY <1>1, <1>2, ElementOfSeq
<1>5. chars \in Seq(Chars)
  <2>1. c.uin \in UinTexts /\ c.nick \in Seq(Text)
    BY <1>4 DEF Entries
  <2>2. PICK l : l = LineText(c.uin, c.nick)
    OBVIOUS
  <2>3. l \in Seq(Text)
    BY <2>1, <2>2, LineTextIs
  <2>4. l \in Seq(Chars) /\ <<NL>> \in Seq(Chars)
    BY <2>3, TextIsChars, CharsAssumption
  <2>5. chars = l \o <<NL>>
    BY <1>2, <2>2 DEF ContactLine, LineText
  <2> QED BY <2>4, <2>5, ConcatProperties
<1>6. PICK f : Advanced(f, chars)
  BY <1>3, <1>5, SaveAdvances
<1>7. PICK q, r : q = At' /\ r = At
  OBVIOUS
<1>8. /\ f \in Seq(Chars) /\ r = Read_RC_File(f) /\ q = Read_RC_File(f \o chars)
      /\ file' \in Seq(Chars) /\ pos' \in 0 .. Len(file')
  BY <1>6, <1>7 DEF Advanced
<1>9. /\ c.kind = "person" /\ written < i /\ Passed(Contacts, written + 1, i - 1)
      /\ Holds(saved, written, r) /\ (r.part = "contacts" => r.line = Marked(c.list))
  <2>1. CASE step = "contact" /\ IsNext(i) /\ c.list = ""
    <3>1. /\ this \in 1 .. Len(Contacts) + 1
          /\ written < this /\ Passed(Contacts, written + 1, this - 1)
          /\ Holds(saved, written, r) /\ (r.part = "contacts" => r.line = <<>>)
      BY <1>1, <1>7, <2>1 DEF SaveInv, ContactInv
    <3>2. /\ i \in this .. Len(Contacts) /\ c.kind = "person"
          /\ \A k \in this .. i - 1 : Contacts[k].kind = "alias"
      BY <1>2, <2>1 DEF IsNext, NoPerson
    <3>3. \A k \in written + 1 .. i - 1 : k \in written + 1 .. this - 1 \/ k \in this .. i - 1
      BY <1>1, <3>1, <3>2
    <3>4. Passed(Contacts, written + 1, i - 1)
      BY <3>1, <3>2, <3>3 DEF Passed
    <3>5. written < i
      BY <1>1, <3>1, <3>2
    <3>6. Marked(c.list) = <<>>
      BY <2>1 DEF Marked
    <3> QED BY <3>1, <3>2, <3>4, <3>5, <3>6
  <2>2. CASE step = "line" /\ i = this
    <3>1. /\ c.kind = "person" /\ c.list \in Marks
          /\ written < i /\ Passed(Contacts, written + 1, i - 1)
          /\ Holds(saved, written, r) /\ (r.part = "contacts" => r.line = <<c.list>>)
      BY <1>1, <1>2, <1>7, <2>2 DEF SaveInv, LineInv
    <3>2. Marked(c.list) = <<c.list>>
      BY <3>1 DEF Marked, Marks
    <3> QED BY <3>1, <3>2
  <2> QED BY <1>3, <2>1, <2>2
<1>10. Holds(saved, i, q) /\ Gathered(Contacts, i, 1, q)
  <2>1. written \in Nat
    BY <1>1
  <2> QED BY <1>1, <1>2, <1>7, <1>8, <1>9, <2>1, PersonSaved
<1>11. /\ pc' = "save" /\ Contacts' = Contacts /\ UIN' = UIN
       /\ Current_Status' = Current_Status /\ reply' = reply /\ saved' = saved
  BY <1>1, <1>3 DEF M_fdprint, GoesOn, memory
<1>12. AliasesInv'
  <2>1. Holds(saved', this', At') /\ Gathered(Contacts', this', that', At')
    BY <1>3, <1>7, <1>10, <1>11
  <2>2. /\ this' \in 1 .. Len(Contacts') /\ Contacts'[this'].kind = "person"
        /\ written' = this' /\ that' \in 1 .. Len(Contacts') + 1
    BY <1>2, <1>3, <1>9, <1>11, <1>15
  <2> QED BY <2>1, <2>2 DEF AliasesInv
<1>13. SaveInv'
  BY <1>1, <1>3, <1>8, <1>11, <1>12 DEF SaveInv
<1>14. this' \in Nat /\ that' \in Nat /\ written' \in 0 .. Len(saved.contacts)
  BY <1>3, <1>15
<1> QED BY <1>3, <1>5, <1>13, <1>14, SavingKept

(* An alias is written.                                                    *)
LEMMA AliasStep ==
  ASSUME FileInv, NEW j \in 1 .. Len(Contacts), SaveAlias(j)
  PROVE  FileInv'
<1>1. /\ pc = "save" /\ step = "aliases" /\ FileTypes /\ SaveInv
      /\ saved \in Saves /\ Contacts \in Seq(Entries) /\ Len(Contacts) \in Nat
  BY LenProperties DEF FileInv, FileTypes, SaveAlias, M_fdprint, Saves
<1>2. /\ this \in 1 .. Len(Contacts) /\ Contacts[this].kind = "person"
      /\ written = this /\ that \in 1 .. Len(Contacts) + 1
      /\ Holds(saved, this, At) /\ Gathered(Contacts, this, that, At)
      /\ saved.contacts = Contacts
      /\ saved.settings = [UIN |-> UIN, Status |-> Current_Status, Reply |-> reply]
  BY <1>1 DEF SaveInv, AliasesInv
<1>3. PICK chars : chars = Contacts[j].nick \o <<Space>>
  OBVIOUS
<1>4. /\ j \in that .. Len(Contacts) /\ Names(Contacts[j], Contacts[this])
      /\ \A k \in that .. j - 1 : ~Names(Contacts[k], Contacts[this])
      /\ M_fdprint(chars) /\ GoesOn(chars)
      /\ step' = step /\ this' = this /\ that' = j + 1 /\ written' = written
  BY <1>3 DEF SaveAlias, NoAlias
<1>5. this \in Nat /\ that \in Nat \ {0} /\ j + 1 \in 1 .. Len(Contacts) + 1 /\ j + 1 \in Nat
  <2>1. PICK n : n = Len(Contacts)
    OBVIOUS
  <2>2. n \in Nat /\ this \in 1 .. n /\ that \in 1 .. n + 1 /\ j \in 1 .. n
    BY <1>1, <1>2, <2>1
  <2> QED BY <2>1, <2>2
<1>6. chars \in Seq(Chars)
  <2>1. Contacts[j] \in Entries
    BY <1>1, ElementOfSeq
  <2>2. Contacts[j].nick \in Seq(Text)
    BY <2>1 DEF Entries
  <2>3. Contacts[j].nick \in Seq(Chars) /\ <<Space>> \in Seq(Chars)
    BY <2>2, TextIsChars, CharsAssumption
  <2> QED BY <1>3, <2>3, ConcatProperties
<1>7. PICK f : Advanced(f, chars)
  BY <1>4, <1>6, SaveAdvances
<1>8. PICK q, r : q = At' /\ r = At
  OBVIOUS
<1>9. /\ f \in Seq(Chars) /\ r = Read_RC_File(f) /\ q = Read_RC_File(f \o chars)
      /\ file' \in Seq(Chars) /\ pos' \in 0 .. Len(file')
  BY <1>7, <1>8 DEF Advanced
<1>10. Holds(saved, this, q) /\ Gathered(Contacts, this, j + 1, q)
  <2>1. PICK c, s, i, n : c = Contacts /\ s = saved /\ i = this /\ n = that
    OBVIOUS
  <2>2. /\ c \in Seq(Entries) /\ i \in 1 .. Len(c) /\ n \in Nat \ {0} /\ j \in n .. Len(c)
        /\ c[i].kind = "person" /\ Names(c[j], c[i])
        /\ \A k \in n .. j - 1 : ~Names(c[k], c[i])
        /\ Holds(s, i, r) /\ Gathered(c, i, n, r)
        /\ q = Read_RC_File(f \o (c[j].nick \o <<Space>>))
    BY <1>1, <1>2, <1>3, <1>4, <1>5, <1>8, <1>9, <2>1
  <2>3. Holds(s, i, q) /\ Gathered(c, i, j + 1, q)
    BY <1>9, <2>2, AliasSaved
  <2> QED BY <2>1, <2>3
<1>11. /\ pc' = "save" /\ Contacts' = Contacts /\ UIN' = UIN
       /\ Current_Status' = Current_Status /\ reply' = reply /\ saved' = saved
  BY <1>1, <1>4 DEF M_fdprint, GoesOn, memory
<1>12. AliasesInv'
  <2>1. Holds(saved', this', At') /\ Gathered(Contacts', this', that', At')
    BY <1>4, <1>8, <1>10, <1>11
  <2>2. /\ this' \in 1 .. Len(Contacts') /\ Contacts'[this'].kind = "person"
        /\ written' = this' /\ that' \in 1 .. Len(Contacts') + 1
    BY <1>2, <1>4, <1>5, <1>11
  <2> QED BY <2>1, <2>2 DEF AliasesInv
<1>13. SaveInv'
  BY <1>1, <1>2, <1>4, <1>9, <1>11, <1>12 DEF SaveInv
<1>14. this' \in Nat /\ that' \in Nat /\ written' \in 0 .. Len(saved.contacts)
  <2>1. written' \in 0 .. Len(saved.contacts)
    BY <1>4 DEF FileInv, FileTypes
  <2> QED BY <1>4, <1>5, <2>1
<1> QED BY <1>1, <1>4, <1>6, <1>13, <1>14, SavingKept

(* The newline behind the aliases is written.                              *)
LEMMA EndAliasesStep == ASSUME FileInv, EndAliases PROVE FileInv'
<1>1. /\ pc = "save" /\ step = "aliases" /\ FileTypes /\ SaveInv
      /\ saved \in Saves /\ Contacts \in Seq(Entries) /\ Len(Contacts) \in Nat
  BY LenProperties DEF FileInv, FileTypes, EndAliases, M_fdprint, Saves
<1>2. /\ this \in 1 .. Len(Contacts) /\ Contacts[this].kind = "person"
      /\ written = this
      /\ Holds(saved, this, At) /\ Gathered(Contacts, this, that, At)
      /\ saved.contacts = Contacts
      /\ saved.settings = [UIN |-> UIN, Status |-> Current_Status, Reply |-> reply]
  BY <1>1 DEF SaveInv, AliasesInv
<1>3. PICK chars : chars = <<NL>>
  OBVIOUS
<1>4. /\ M_fdprint(chars) /\ GoesOn(chars)
      /\ step' = "contact" /\ this' = this + 1 /\ that' = 1 /\ written' = written
  BY <1>3 DEF EndAliases
<1>5. chars \in Seq(Chars)
  BY <1>3, CharsAssumption
<1>6. PICK f : Advanced(f, chars)
  BY <1>4, <1>5, SaveAdvances
<1>7. PICK q, r : q = At' /\ r = At
  OBVIOUS
<1>8. /\ f \in Seq(Chars) /\ r = Read_RC_File(f) /\ q = Read_RC_File(f \o <<NL>>)
      /\ file' \in Seq(Chars) /\ pos' \in 0 .. Len(file')
  BY <1>3, <1>6, <1>7 DEF Advanced
<1>9. Holds(saved, this, q) /\ (q.part = "contacts" => q.line = <<>>)
  BY <1>1, <1>2, <1>7, <1>8, AliasesSaved
<1>10. /\ pc' = "save" /\ Contacts' = Contacts /\ UIN' = UIN
       /\ Current_Status' = Current_Status /\ reply' = reply /\ saved' = saved
  BY <1>1, <1>4 DEF M_fdprint, GoesOn, memory
<1>11. this \in Nat /\ this + 1 \in 1 .. Len(Contacts) + 1 /\ this < this + 1
  <2>1. PICK n : n = Len(Contacts)
    OBVIOUS
  <2>2. n \in Nat /\ this \in 1 .. n
    BY <1>1, <1>2, <2>1
  <2> QED BY <2>1, <2>2
<1>12. ContactInv'
  <2>1. Holds(saved', written', At') /\ (At'.part = "contacts" => At'.line = <<>>)
    BY <1>2, <1>4, <1>7, <1>9, <1>10
  <2>2. this' \in 1 .. Len(Contacts') + 1 /\ that' = 1 /\ written' < this'
    BY <1>2, <1>4, <1>10, <1>11
  <2>3. Passed(Contacts', written' + 1, this' - 1)
    <3>1. Passed(Contacts, this + 1, this + 1 - 1)
      BY <1>11 DEF Passed
    <3> QED BY <1>2, <1>4, <1>10, <3>1
  <2> QED BY <2>1, <2>2, <2>3 DEF ContactInv
<1>13. SaveInv'
  BY <1>2, <1>4, <1>8, <1>10, <1>12 DEF SaveInv
<1>14. this' \in Nat /\ that' \in Nat /\ written' \in 0 .. Len(saved.contacts)
  <2>1. written' \in 0 .. Len(saved.contacts)
    BY <1>4 DEF FileInv, FileTypes
  <2> QED BY <1>4, <1>11, <2>1
<1> QED BY <1>4, <1>5, <1>13, <1>14, SavingKept
-----------------------------------------------------------------------------
(* What is read of a part of a file stays read.                            *)
LEMMA ReadPrefix ==
  ASSUME NEW g \in Seq(Chars), NEW n \in 0 .. Len(g)
  PROVE  /\ Read_RC_File(SubSeq(g, 1, n)) \in Readers /\ Read_RC_File(g) \in Readers
         /\ Later(Read_RC_File(SubSeq(g, 1, n)), Read_RC_File(g))
<1>1. PICK m : m = Len(g)
  OBVIOUS
<1>2. m \in Nat /\ n \in Nat /\ n <= m
  BY <1>1, LenProperties
<1>3. PICK a, b : a = SubSeq(g, 1, n) /\ b = SubSeq(g, n + 1, m)
  OBVIOUS
<1>4. a \in Seq(Chars) /\ Len(a) = n /\ \A k \in 1 .. n : a[k] = g[k]
  BY <1>3, PrefixOf
<1>5. /\ b \in Seq(Chars) /\ Len(b) = IF n + 1 <= m THEN m - (n + 1) + 1 ELSE 0
      /\ \A i \in 1 .. m - (n + 1) + 1 : b[i] = g[n + 1 + i - 1]
  <2>1. n + 1 \in Nat \ {0} /\ m <= Len(g)
    BY <1>1, <1>2
  <2> QED BY <1>2, <1>3, <2>1, PartOf
<1>6. Len(b) = m - n
  BY <1>2, <1>5
<1>7. PICK h : h = a \o b
  OBVIOUS
<1>8. /\ h \in Seq(Chars) /\ Len(h) = n + Len(b)
      /\ \A k \in 1 .. n + Len(b) : h[k] = IF k <= n THEN a[k] ELSE b[k - n]
  BY <1>4, <1>5, <1>7, ConcatProperties
<1>9. Len(h) = m
  BY <1>2, <1>6, <1>8
<1>10. ASSUME NEW k \in 1 .. m PROVE h[k] = g[k]
  <2>1. CASE k <= n
    BY <1>2, <1>4, <1>6, <1>8, <2>1
  <2>2. CASE ~(k <= n)
    <3>1. k - n \in 1 .. m - (n + 1) + 1 /\ n + 1 + (k - n) - 1 = k
      BY <1>2, <2>2
    <3>2. b[k - n] = g[k]
      BY <1>5, <3>1
    <3> QED BY <1>2, <1>6, <1>8, <2>2, <3>2
  <2> QED BY <2>1, <2>2
<1>11. h = g
  BY <1>1, <1>8, <1>9, <1>10, SeqEqual
<1>12. Later(Read_RC_File(a), Read_RC_File(a \o b))
  BY <1>4, <1>5, ReadLater
<1> QED BY <1>3, <1>4, <1>7, <1>11, <1>12, ReadTyped

\* Once Save_RC has come to the end of the list, everybody in it is read.
LEMMA AllWritten ==
  ASSUME NEW s, NEW people, people = s.contacts, NEW w \in Nat, NEW c,
         Passed(people, w + 1, Len(people)), Len(people) \in Nat,
         Wrote(s, w, c), NEW a, IsIn(a, people)
  PROVE  IsIn(a, c)
<1>1. PICK k \in 1 .. Len(people) :
        people[k].kind = "person" /\ people[k].uin = a.uin /\ people[k].nick = a.nick
  BY DEF IsIn
<1>2. k \notin w + 1 .. Len(people)
  BY <1>1 DEF Passed
<1>3. k \in 1 .. w
  BY <1>2
<1>4. IsIn(people[k], c)
  BY <1>1, <1>3 DEF Wrote
<1> QED BY <1>1, <1>4 DEF IsIn

\* As soon as the line of a contact is written, the settings and the contacts
\* before it are in the file.
LEMMA HeldSomewhere ==
  ASSUME FileInv, file # NoFile, written > 0
  PROVE  \E n \in 0 .. Len(file) : Holds(saved, written, Read_RC_File(SubSeq(file, 1, n)))
<1>1. CASE pc # "save"
  BY <1>1 DEF FileInv, Lasting
<1>2. CASE pc = "save"
  <2>1. step \in {"settings", "contact", "line", "aliases"} /\ pos \in 0 .. Len(file)
    BY <1>2 DEF FileInv, FileTypes, SaveInv
  <2>2. Holds(saved, written, At)
    <3>1. step # "settings"
      BY <1>2 DEF FileInv, SaveInv, SettingsInv
    <3> QED BY <1>2, <2>1, <3>1 DEF FileInv, SaveInv, ContactInv, LineInv, AliasesInv
  <2>3. Holds(saved, written, Read_RC_File(SubSeq(file, 1, pos)))
    BY <2>2 DEF At
  <2> QED BY <2>1, <2>3
<1> QED BY <1>1, <1>2
-----------------------------------------------------------------------------
LEMMA EndStep == ASSUME FileInv, EndSave PROVE FileInv'
<1>1. /\ pc = "save" /\ step = "contact" /\ FileTypes /\ file \in Seq(Chars)
      /\ pos \in 0 .. Len(file) /\ saved \in Saves
      /\ Contacts \in Seq(Entries) /\ Len(Contacts) \in Nat /\ written \in Nat
      /\ saved.contacts = Contacts
  BY LenProperties DEF FileInv, FileTypes, SaveInv, EndSave, M_fdprint, Saves
<1>2. /\ this \in 1 .. Len(Contacts) + 1 /\ Passed(Contacts, written + 1, this - 1)
      /\ Holds(saved, written, At)
  BY <1>1 DEF FileInv, SaveInv, ContactInv
<1>3. /\ file' = Overwrite(file, pos, <<NL>>) /\ pc' = "up" /\ NoSave
      /\ cut' = (cut /\ file'[Len(file')] # NL) /\ written' = written
      /\ UNCHANGED <<memory, asked, saved, added, commands, stops>>
      /\ NoPerson(Len(Contacts) + 1)
  BY DEF EndSave, M_fdprint
<1>4. PICK g, chars, n, p : g = file' /\ chars = <<NL>> /\ n = pos + Len(chars) /\ p = pos
  OBVIOUS
<1>5. chars \in Seq(Chars) /\ Len(chars) = 1 /\ chars[1] = NL
  BY <1>4, CharsAssumption
<1>6. /\ g \in Seq(Chars) /\ n \in 0 .. Len(g) /\ n \in Nat
      /\ SubSeq(g, 1, n) = SubSeq(file, 1, p) \o chars
      /\ SubSeq(g, 1, p) = SubSeq(file, 1, p)
      /\ IF n >= Len(file) THEN Len(g) = n
         ELSE Len(g) = Len(file) /\ g[Len(g)] = file[Len(file)]
  <2>1. p \in 0 .. Len(file) /\ g = Overwrite(file, p, chars) /\ n = p + Len(chars)
    BY <1>1, <1>3, <1>4
  <2>2. PICK f : f = file
    OBVIOUS
  <2>3. f \in Seq(Chars) /\ chars \in Seq(Chars) /\ p \in 0 .. Len(f) /\ g = Overwrite(f, p, chars)
    BY <1>1, <1>5, <2>1, <2>2
  <2>4. /\ g \in Seq(Chars) /\ n \in 0 .. Len(g) /\ n \in Nat
        /\ SubSeq(g, 1, n) = SubSeq(f, 1, p) \o chars
        /\ SubSeq(g, 1, p) = SubSeq(f, 1, p)
        /\ IF n >= Len(f) THEN Len(g) = n
           ELSE Len(g) = Len(f) /\ g[Len(g)] = f[Len(f)]
    BY <2>1, <2>3, OverwriteFacts
  <2> QED BY <2>2, <2>4
<1>7. Len(file) \in Nat /\ Len(g) \in Nat /\ p \in Nat /\ n = p + 1 /\ p \in 0 .. Len(g)
  BY <1>1, <1>4, <1>5, <1>6, LenProperties
<1>8. g[n] = NL
  <2>1. PICK a, h : a = SubSeq(file, 1, p) /\ h = SubSeq(g, 1, n)
    OBVIOUS
  <2>2. a \in Seq(Chars) /\ Len(a) = p
    BY <1>1, <1>4, <2>1, PrefixOf
  <2>3. \A k \in 1 .. n : h[k] = g[k]
    BY <1>6, <2>1, PrefixOf
  <2>4. \A k \in 1 .. p + 1 : (a \o chars)[k] = IF k <= p THEN a[k] ELSE chars[k - p]
    <3>1. Len(a) + Len(chars) = p + 1
      BY <1>5, <2>2
    <3> QED BY <1>5, <2>2, <3>1, ConcatProperties
  <2>5. h[n] = NL
    BY <1>5, <1>6, <1>7, <2>1, <2>4
  <2> QED BY <1>7, <2>3, <2>5
<1>9. file # NoFile /\ g # NoFile
  BY <1>1, <1>6, FilesAssumption
<1>10. ~cut' => g # <<>> /\ g[Len(g)] = NL
  <2>1. Len(g) # 0
    BY <1>6, <1>7
  <2>2. ~cut => p = Len(file) \/ file[Len(file)] = NL
    BY <1>1, <1>4, <1>9 DEF FileInv, Ended
  <2>3. ~cut => g[Len(g)] = NL
    BY <1>6, <1>7, <1>8, <2>2
  <2> QED BY <1>3, <1>4, <2>1, <2>3
<1>11. Contacts' = Contacts /\ added' = added /\ saved' = saved
  BY <1>3 DEF memory
<1>12. FileTypes'
  <2>1. UNCHANGED <<Contacts, UIN, Current_Status, set_status, auto_resp, reply>>
    BY <1>3 DEF memory
  <2>2. file' \in Seq(Chars) /\ file' # NoFile /\ cut' \in BOOLEAN
    BY <1>1, <1>3, <1>4, <1>6, <1>9 DEF FileTypes
  <2> QED BY <1>1, <1>3, <2>1, <2>2 DEF FileTypes, NoSave
<1>13. SaveInv' /\ Ended' /\ AddedKept'
  <2>1. \A a \in added : IsIn(a, Contacts)
    BY <1>1 DEF FileInv, AddedKept
  <2> QED BY <1>3, <1>4, <1>10, <1>11, <2>1 DEF SaveInv, Ended, AddedKept
<1>14. PICK r, q : r = Read_RC_File(SubSeq(g, 1, p)) /\ q = Read_RC_File(g)
  OBVIOUS
<1>15. Holds(saved, written, r)
  BY <1>2, <1>4, <1>6, <1>14 DEF At
<1>16. Lasting'
  <2>1. p \in 0 .. Len(file') /\ Holds(saved', written', Read_RC_File(SubSeq(file', 1, p)))
    BY <1>3, <1>4, <1>7, <1>11, <1>14, <1>15
  <2> QED BY <2>1 DEF Lasting
<1>17. r \in Readers /\ q \in Readers /\ Later(r, q)
  BY <1>6, <1>7, <1>14, ReadPrefix
<1>18. ASSUME HasRoom(q), NEW a \in added PROVE IsIn(a, q.contacts)
  <2>1. r.part # "settings"
    BY <1>15 DEF Holds, Headed
  <2>2. HasRoom(r)
    BY <1>17, <1>18, <2>1, PlacesAssumption, RoomBefore
  <2>3. Wrote(saved, written, r.contacts)
    BY <1>15, <2>2 DEF Holds
  <2>4. IsIn(a, Contacts)
    BY <1>1, <1>18 DEF FileInv, AddedKept
  <2>5. Passed(Contacts, written + 1, Len(Contacts))
    <3>1. \A k \in this .. Len(Contacts) + 1 - 1 : Contacts[k].kind = "alias"
      BY <1>3 DEF NoPerson
    <3>2. \A k \in written + 1 .. this - 1 : Contacts[k].kind = "alias"
      BY <1>2 DEF Passed
    <3>3. \A k \in written + 1 .. Len(Contacts) :
            k \in this .. Len(Contacts) + 1 - 1 \/ k \in written + 1 .. this - 1
      BY <1>1, <1>2
    <3> QED BY <3>1, <3>2, <3>3 DEF Passed
  <2>6. IsIn(a, r.contacts)
    BY <1>1, <2>3, <2>4, <2>5, AllWritten
  <2>7. Begins(r.contacts, q.contacts)
    BY <1>17, <2>1 DEF Later
  <2>8. r.contacts \in Seq(Entries) /\ q.contacts \in Seq(Entries)
    BY <1>17 DEF Readers
  <2> QED BY <2>6, <2>7, <2>8, IsInKept
<1>19. AddedIsListed'
  <2>1. Readable' => HasRoom(q)
    BY <1>4, <1>14 DEF Readable, Found, HasRoom
  <2>2. Found' = q.contacts
    BY <1>4, <1>14 DEF Found
  <2> QED BY <1>11, <1>18, <2>1, <2>2 DEF AddedIsListed
<1> QED BY <1>12, <1>13, <1>16, <1>19 DEF FileInv

\* Save_RC begins at the start of the file, of which nothing is read yet.
LEMMA SaveBegins ==
  ASSUME FileInv, BeginSave, pc # "save", file' \in Seq(Chars),
         Contacts' \in Seq(Entries), UIN' \in Seq(Text), Current_Status' \in Seq(Text),
         set_status' \in Seq(Text), auto_resp' \in BOOLEAN, reply' \in Seq(Text),
         asked' = asked, added' = added, Ended', AddedKept'
  PROVE  FileInv'
<1>1. /\ FileTypes /\ step = "settings" /\ this = 1 /\ that = 1 /\ pos = 0
      /\ asked \in 0 .. Len(Accounts)
  BY DEF FileInv, FileTypes
<1>2. /\ pc' = "save" /\ written' = 0 /\ cut' = cut
      /\ step' = "settings" /\ this' = 1 /\ that' = 1 /\ pos' = 0
      /\ saved' = [contacts |-> Contacts',
                   settings |-> [UIN |-> UIN', Status |-> Current_Status', Reply |-> reply']]
  BY <1>1 DEF BeginSave, saving
<1>3. file' # NoFile
  BY FilesAssumption
<1>4. Len(file') \in Nat /\ Len(Contacts') \in Nat
  BY LenProperties
<1>5. PICK s, c, t : /\ s = saved' /\ c = Contacts'
                     /\ t = [UIN |-> UIN', Status |-> Current_Status', Reply |-> reply']
  OBVIOUS
<1>6. s = [contacts |-> c, settings |-> t] /\ t \in Settings /\ c \in Seq(Entries)
  <2>1. t \in Settings
    BY <1>5 DEF Settings
  <2> QED BY <1>2, <1>5, <2>1
<1>7. s \in [contacts : Seq(Entries), settings : Settings] /\ s.contacts = c /\ s.settings = t
  BY <1>6
<1>8. FileTypes'
  <2>1. written' \in 0 .. Len(saved'.contacts)
    BY <1>2, <1>4, <1>5, <1>7
  <2> QED BY <1>1, <1>2, <1>3, <1>5, <1>7, <2>1 DEF FileTypes
<1>9. At' = Blank
  <2>1. SubSeq(file', 1, 0) = <<>>
    BY SubSeqEmpty
  <2>2. At' = Read_RC_File(SubSeq(file', 1, pos'))
    BY DEF At
  <2> QED BY <1>2, <2>1, <2>2, ReadNone
<1>10. SettingsInv'
  <2>1. Blank.line = <<>> /\ Blank.part = "settings" /\ Blank.contacts = <<>>
    BY DEF Blank
  <2> QED BY <1>2, <1>9, <2>1 DEF SettingsInv
<1>11. SaveInv'
  BY <1>2, <1>4, <1>5, <1>7, <1>10 DEF SaveInv
<1>12. Lasting' /\ AddedIsListed'
  BY <1>2 DEF Lasting, AddedIsListed
<1> QED BY <1>8, <1>11, <1>12 DEF FileInv

(* The command to save.                                                    *)
LEMMA SaveCommandStep == ASSUME FileInv, SaveCommand PROVE FileInv'
<1>1. /\ pc = "up" /\ BeginSave /\ UNCHANGED <<file, memory, asked, added, stops>>
      /\ FileTypes /\ Ended /\ AddedKept
  BY DEF SaveCommand, Command, FileInv
<1>2. UNCHANGED <<Contacts, UIN, Current_Status, set_status, auto_resp, reply>>
  BY <1>1 DEF memory
<1>3. /\ pc' = "save" /\ cut' = cut /\ file' = file /\ added' = added /\ asked' = asked
      /\ file # NoFile /\ file \in Seq(Chars)
  BY <1>1 DEF BeginSave, FileTypes
<1>4. Ended' /\ AddedKept'
  BY <1>1, <1>2, <1>3 DEF Ended, AddedKept
<1> QED BY <1>1, <1>2, <1>3, <1>4, SaveBegins DEF FileTypes

(* The first file and the first list, with the author of the program.      *)
LEMMA FirstFile ==
  ASSUME FileInv, pc \in {"down", "register"}, file = NoFile,
         NEW uin \in Seq(Text), Initalize_RC_File(uin)
  PROVE  FileInv'
<1>1. /\ Contacts' = TheAuthor /\ UIN' = uin /\ auto_resp' = TRUE
      /\ set_status' = Online /\ Current_Status' = Online /\ reply' = DefaultMessage
      /\ file' = <<>> /\ BeginSave /\ asked' = asked /\ added' = added
  BY DEF Initalize_RC_File
<1>2. added = {} /\ pc # "save"
  BY DEF FileInv, FileTypes
<1>3. TheAuthor \in Seq(Entries)
  <2>1. PICK one, two : one = "1" /\ two = "2"
    OBVIOUS
  <2>2. one \in Digits /\ two \in Digits /\ one # "0"
    BY <2>1, CharsAssumption
  <2>3. PICK u : u = <<one, two>>
    OBVIOUS
  <2>4. u \in Seq(Digits) /\ u # <<>> /\ u[1] # "0"
    BY <2>2, <2>3
  <2>5. u \in UinTexts
    BY <2>4 DEF UinTexts
  <2>6. PICK m, a : m = "M" /\ a = "a"
    OBVIOUS
  <2>7. m \in Text /\ a \in Text
    BY <2>6, CharsAssumption DEF Text, NL
  <2>8. <<m>> \in Seq(Text) /\ <<a>> \in Seq(Text)
    BY <2>7
  <2>9. PICK e, f : e = Entry("person", u, <<m>>, "") /\ f = Entry("alias", u, <<a>>, "")
    OBVIOUS
  <2>10. e \in Entries /\ f \in Entries
    <3>1. "" \in Lists
      BY DEF Lists
    <3> QED BY <2>5, <2>8, <2>9, <3>1, EntryTyped
  <2>11. <<e, f>> \in Seq(Entries)
    BY <2>10
  <2> QED BY <2>1, <2>3, <2>6, <2>9, <2>11 DEF TheAuthor
<1>4. /\ Online \in Seq(Text) /\ DefaultMessage \in Seq(Text) /\ <<>> \in Seq(Chars)
      /\ Len(<<>>) = 0
  BY TextsAssumption
<1>5. pc' = "save" /\ pos' = 0
  BY <1>1, <1>2 DEF BeginSave, saving, FileInv, FileTypes
<1>6. Ended' /\ AddedKept'
  BY <1>1, <1>2, <1>4, <1>5 DEF Ended, AddedKept
<1> QED BY <1>1, <1>2, <1>3, <1>4, <1>6, SaveBegins

(* A start that reads the file.                                            *)
LEMMA StartStep == ASSUME FileInv, Start PROVE FileInv'
<1>1. /\ pc = "down" /\ file # NoFile /\ FileTypes /\ file \in Seq(Chars)
      /\ UNCHANGED <<file, asked, saving, saved, written, cut, commands, stops>>
  BY DEF Start, FileInv, FileTypes
<1>2. UNCHANGED <<step, this, that, pos>>
  BY <1>1 DEF saving
<1>3. PICK r : r = Read_RC_File(file)
  OBVIOUS
<1>4. r \in Readers
  BY <1>1, <1>3, ReadTyped
<1>5. \/ pc' = "failed" /\ UNCHANGED <<memory, added>>
      \/ /\ pc' = "up"
         /\ Contacts' = r.contacts /\ UIN' = r.settings.UIN /\ auto_resp' = TRUE
         /\ set_status' = r.settings.Status /\ Current_Status' = Offline
         /\ reply' = r.settings.Reply
         /\ added' = {a \in added : IsIn(a, r.contacts)}
  BY <1>3 DEF Start
<1>6. added' \subseteq added /\ pc' \in {"failed", "up"}
  BY <1>5
<1>7. /\ Contacts' \in Seq(Entries) /\ UIN' \in Seq(Text) /\ auto_resp' \in BOOLEAN
      /\ set_status' \in Seq(Text) /\ Current_Status' \in Seq(Text) /\ reply' \in Seq(Text)
  <2>1. CASE pc' = "failed"
    BY <1>1, <1>5, <2>1 DEF memory, FileTypes
  <2>2. CASE pc' = "up"
    BY <1>4, <1>5, <2>2, TextsAssumption DEF Readers, Settings
  <2> QED BY <1>6, <2>1, <2>2
<1>8. FileTypes'
  <2>1. added' \subseteq [uin : UinTexts, nick : Seq(Text)]
    BY <1>1, <1>6 DEF FileTypes
  <2> QED BY <1>1, <1>2, <1>6, <1>7, <2>1 DEF FileTypes
<1>9. SaveInv' /\ Lasting' /\ Ended'
  <2>1. pc' # "save"
    BY <1>6
  <2> QED BY <1>1, <2>1 DEF FileInv, SaveInv, Lasting, Ended
<1>10. AddedKept'
  <2>1. CASE pc' = "failed"
    BY <2>1 DEF AddedKept
  <2>2. CASE pc' = "up"
    <3>1. \A a \in added' : IsIn(a, Contacts')
      BY <1>5, <2>2
    <3> QED BY <3>1 DEF AddedKept
  <2> QED BY <1>6, <2>1, <2>2
<1>11. AddedIsListed'
  BY <1>1, <1>6 DEF FileInv, AddedIsListed, Readable, Found
<1> QED BY <1>8, <1>9, <1>10, <1>11 DEF FileInv

(* A stop, which may cut a Save_RC short.                                  *)
LEMMA StopStep == ASSUME FileInv, Stop PROVE FileInv'
<1>1. /\ FileTypes /\ pc' = "down" /\ cut' = (cut \/ pc = "save") /\ NoSave /\ asked' = 0
      /\ Contacts' = <<>> /\ UIN' = <<>> /\ auto_resp' = TRUE
      /\ Current_Status' = Offline /\ set_status' = Offline /\ reply' = DefaultMessage
      /\ UNCHANGED <<file, saved, written, added, commands>>
  BY DEF FileInv, Stop
<1>2. FileTypes'
  <2>1. /\ Offline \in Seq(Text) /\ DefaultMessage \in Seq(Text)
        /\ <<>> \in Seq(Text) /\ <<>> \in Seq(Entries) /\ asked' \in 0 .. Len(Accounts)
    <3>1. Len(Accounts) \in Nat
      BY TextsAssumption, LenProperties
    <3> QED BY <1>1, <3>1, TextsAssumption
  <2>2. cut' \in BOOLEAN /\ (file = NoFile => cut' = FALSE)
    BY <1>1 DEF FileTypes
  <2> QED BY <1>1, <2>1, <2>2 DEF FileTypes, NoSave
<1>3. SaveInv' /\ AddedKept'
  BY <1>1 DEF SaveInv, AddedKept
<1>4. Ended' /\ AddedIsListed'
  <2>1. ~cut' => ~cut /\ pc # "save"
    BY <1>1
  <2> QED BY <1>1, <2>1 DEF FileInv, Ended, AddedIsListed, Readable, Found
<1>5. Lasting'
  <2>1. CASE file = NoFile
    BY <1>1, <2>1 DEF Lasting
  <2>2. CASE file # NoFile /\ written > 0
    BY <1>1, <2>2, HeldSomewhere DEF Lasting
  <2>3. CASE file # NoFile /\ ~(written > 0)
    BY <1>1, <2>3 DEF FileInv, Lasting
  <2> QED BY <2>1, <2>2, <2>3
<1> QED BY <1>2, <1>3, <1>4, <1>5 DEF FileInv
-----------------------------------------------------------------------------
(* The commands of the operator.                                           *)

\* After a newline the reader is at the beginning of a line.
LEMMA ReadEnded ==
  ASSUME NEW f \in Seq(Chars), f # <<>>, f[Len(f)] = NL,
         Read_RC_File(f).part # "crash"
  PROVE  Read_RC_File(f).line = <<>>
<1>1. PICK n, m : n = Len(f) /\ m = n - 1
  OBVIOUS
<1>2. n \in Nat \ {0} /\ m \in 0 .. n /\ n = m + 1 /\ m \in 0 .. Len(f)
  BY <1>1, LenProperties, EmptySeq
<1>3. PICK g, h : g = SubSeq(f, 1, m) /\ h = Append(g, NL)
  OBVIOUS
<1>4. g \in Seq(Chars) /\ Len(g) = m /\ \A k \in 1 .. m : g[k] = f[k]
  BY <1>2, <1>3, PrefixOf
<1>5. NL \in Chars
  BY CharsAssumption
<1>6. /\ h \in Seq(Chars) /\ Len(h) = m + 1 /\ h[m + 1] = NL
      /\ \A k \in 1 .. m : h[k] = g[k]
  BY <1>3, <1>4, <1>5, AppendProperties
<1>7. \A k \in 1 .. n : h[k] = f[k]
  <2>1. \A k \in 1 .. n : k = n \/ k \in 1 .. m
    BY <1>2
  <2>2. h[n] = f[n]
    BY <1>1, <1>2, <1>6
  <2> QED BY <1>4, <1>6, <2>1, <2>2
<1>8. h = f
  BY <1>1, <1>2, <1>6, <1>7, SeqEqual
<1>9. PICK r : r = Read_RC_File(g)
  OBVIOUS
<1>10. r \in Readers /\ Read_RC_File(f) = ReadChar(r, NL)
  BY <1>3, <1>4, <1>5, <1>8, <1>9, ReadOne, ReadTyped
<1>11. r.part # "crash"
  <2>1. r.part = "crash" => ReadChar(r, NL) = r
    BY DEF ReadChar
  <2> QED BY <1>10, <2>1
<1>12. r.part \in {"settings", "contacts"}
  BY <1>10, <1>11 DEF Readers
<1>13. ReadChar(r, NL).line = <<>>
  BY <1>10, <1>12, SettingRead, ListRead
<1> QED BY <1>10, <1>13

\* A list with room is not full.
LEMMA NotFull ==
  ASSUME NEW c \in Seq(Entries), Len(c) < MAXCONTACTS
  PROVE  Len(c) # MAXCONTACTS
<1>1. Len(c) \in Nat
  BY LenProperties
<1> QED BY <1>1, PlacesAssumption

\* The line that Add_User appends adds the contact to what a start finds.
LEMMA AddedLine ==
  ASSUME NEW f \in Seq(Chars), f # <<>>, f[Len(f)] = NL,
         NEW uin \in UinTexts, NEW nick \in Seq(Text),
         NEW e, e = Entry("person", uin, nick, ""),
         NEW r, r = Read_RC_File(f), HasRoom(r),
         NEW q, q = Read_RC_File(f \o ContactLine(e))
  PROVE  q.contacts = Append(r.contacts, e)
<1>1. r \in Readers /\ r.part = "contacts" /\ Len(r.contacts) < MAXCONTACTS
  BY ReadTyped DEF HasRoom
<1>2. r.line = <<>>
  BY <1>1, ReadEnded
<1>3. e \in Entries /\ e.uin = uin /\ e.nick = nick
  <2>1. "" \in Lists
    BY DEF Lists
  <2> QED BY <2>1, EntryTyped DEF Entry
<1>4. PICK w : w = LineText(uin, nick)
  OBVIOUS
<1>5. w \in Seq(Text) /\ Adds(w, r.contacts, e)
  BY <1>4, LineTextIs, ContactAdds
<1>6. ContactLine(e) = w \o <<NL>>
  BY <1>3, <1>4 DEF ContactLine, LineText
<1>7. ReadsLine(f, w, r)
  BY <1>1, <1>5, ReadLine
<1>8. PICK x \in Readers : /\ x = [r EXCEPT !.line = r.line \o w]
                           /\ Read_RC_File(f \o (w \o <<NL>>)) = ReadChar(x, NL)
  BY <1>7 DEF ReadsLine
<1>9. q = ReadChar(x, NL)
  BY <1>6, <1>8
<1>10. r.line \o w = w
  BY <1>2, <1>5, ConcatEmptySeq
<1>11. x.part = "contacts" /\ x.contacts = r.contacts /\ x.line = w
  BY <1>1, <1>8, <1>10 DEF Readers
<1>12. ~Alone(w) /\ NewEntries(r.contacts, w) = <<e>>
  BY <1>5 DEF Adds
<1>13. Len(r.contacts) # MAXCONTACTS
  <2>1. r.contacts \in Seq(Entries)
    BY <1>1 DEF Readers
  <2> QED BY <1>1, <2>1, NotFull
<1>14. q.contacts = r.contacts \o <<e>>
  <2>1. ReadChar(x, NL).contacts =
          IF Len(x.contacts) = MAXCONTACTS \/ Alone(x.line) THEN x.contacts
          ELSE x.contacts \o NewEntries(x.contacts, x.line)
    BY <1>8, <1>11, ListRead
  <2>2. ~(Len(x.contacts) = MAXCONTACTS \/ Alone(x.line))
    BY <1>11, <1>12, <1>13
  <2>3. ReadChar(x, NL).contacts = x.contacts \o NewEntries(x.contacts, x.line)
    BY <2>1, <2>2
  <2>4. x.contacts \o NewEntries(x.contacts, x.line) = r.contacts \o <<e>>
    BY <1>11, <1>12
  <2> QED BY <1>9, <2>3, <2>4
<1>15. Append(r.contacts, e) = r.contacts \o <<e>>
  <2>1. r.contacts \in Seq(Entries) /\ e \in Entries
    BY <1>1, <1>3 DEF Readers
  <2> QED BY <2>1, AppendIsConcat
<1> QED BY <1>14, <1>15

(* A contact is added to the list and to the file.                         *)
LEMMA AddStep ==
  ASSUME FileInv, NEW uin \in Uins, NEW nick \in Nicks, Add_User(uin, nick)
  PROVE  FileInv'
<1>1. PICK e, a, l : /\ e = Entry("person", uin, nick, "") /\ l = ContactLine(e)
                     /\ a = [uin |-> uin, nick |-> nick]
  OBVIOUS
<1>2. /\ pc = "up" /\ file' = file \o l /\ Contacts' = Append(Contacts, e)
      /\ added' = added \cup {a}
      /\ UNCHANGED <<pc, UIN, Current_Status, set_status, auto_resp, reply, asked,
                     saving, saved, written, cut, stops>>
  BY <1>1 DEF Add_User, Command, Appended
<1>3. /\ FileTypes /\ file \in Seq(Chars) /\ file # NoFile /\ Contacts \in Seq(Entries)
      /\ UNCHANGED <<step, this, that, pos>>
  BY <1>2 DEF FileInv, FileTypes, saving
<1>4. uin \in UinTexts /\ nick \in Seq(Text) /\ "" \in Lists
  BY TextsAssumption DEF Lists
<1>5. /\ e \in Entries /\ e.uin = uin /\ e.nick = nick /\ e.kind = "person"
      /\ a.uin = uin /\ a.nick = nick /\ a \in [uin : UinTexts, nick : Seq(Text)]
  BY <1>1, <1>4, EntryTyped DEF Entry
<1>6. PICK w : w = LineText(uin, nick)
  OBVIOUS
<1>7. l = w \o <<NL>> /\ w \in Seq(Text)
  BY <1>1, <1>4, <1>5, <1>6, LineTextIs DEF ContactLine, LineText
<1>8. l \in Seq(Chars) /\ Len(l) \in Nat \ {0} /\ l[Len(l)] = NL
  <2>1. w \in Seq(Chars) /\ Len(w) \in Nat /\ <<NL>> \in Seq(Chars)
        /\ Len(<<NL>>) = 1 /\ <<NL>>[1] = NL
    BY <1>7, TextIsChars, CharsAssumption
  <2>2. /\ l \in Seq(Chars) /\ Len(l) = Len(w) + 1
        /\ \A k \in 1 .. Len(w) + 1 : l[k] = IF k <= Len(w) THEN w[k] ELSE <<NL>>[k - Len(w)]
    BY <1>7, <2>1, ConcatProperties
  <2> QED BY <2>1, <2>2
<1>9. PICK g : g = file \o l
  OBVIOUS
<1>10. /\ g \in Seq(Chars) /\ Len(g) = Len(file) + Len(l) /\ Len(file) \in Nat
       /\ \A k \in 1 .. Len(file) + Len(l) :
            g[k] = IF k <= Len(file) THEN file[k] ELSE l[k - Len(file)]
  BY <1>3, <1>8, <1>9, ConcatProperties, LenProperties
<1>11. g # <<>> /\ g[Len(g)] = NL /\ g # NoFile
  BY <1>8, <1>10, FilesAssumption
<1>12. Contacts' \in Seq(Entries) /\ Begins(Contacts, Contacts')
  BY <1>2, <1>3, <1>5, AppendProperties, LenProperties DEF Begins
<1>13. FileTypes'
  <2>1. added' \subseteq [uin : UinTexts, nick : Seq(Text)]
    BY <1>2, <1>3, <1>5 DEF FileTypes
  <2>2. file' \in Seq(Chars) /\ file' # NoFile
    BY <1>2, <1>9, <1>10, <1>11
  <2> QED BY <1>2, <1>3, <1>12, <2>1, <2>2 DEF FileTypes
<1>14. SaveInv' /\ Ended'
  BY <1>2, <1>9, <1>11 DEF SaveInv, Ended
<1>15. AddedKept'
  <2>1. \A b \in added : IsIn(b, Contacts)
    BY <1>2 DEF FileInv, AddedKept
  <2>2. \A b \in added : IsIn(b, Contacts')
    BY <1>3, <1>12, <2>1, IsInKept
  <2>3. IsIn(a, Contacts')
    BY <1>2, <1>3, <1>5, IsInLast
  <2> QED BY <1>2, <2>2, <2>3 DEF AddedKept
<1>16. Lasting'
  <2>1. SUFFICES ASSUME ~cut \/ written > 0
                 PROVE  \E n \in 0 .. Len(g) : Holds(saved, written, Read_RC_File(SubSeq(g, 1, n)))
    BY <1>2, <1>9 DEF Lasting
  <2>2. PICK n \in 0 .. Len(file) : Holds(saved, written, Read_RC_File(SubSeq(file, 1, n)))
    BY <1>2, <1>3, <2>1 DEF FileInv, Lasting
  <2>3. n \in 0 .. Len(g) /\ n <= Len(file)
    BY <1>8, <1>10
  <2>4. PICK x, y : x = SubSeq(file, 1, n) /\ y = SubSeq(g, 1, n)
    OBVIOUS
  <2>5. x \in Seq(Chars) /\ Len(x) = n /\ \A k \in 1 .. n : x[k] = file[k]
    BY <1>3, <2>4, PrefixOf
  <2>6. y \in Seq(Chars) /\ Len(y) = n /\ \A k \in 1 .. n : y[k] = g[k]
    BY <1>10, <2>3, <2>4, PrefixOf
  <2>7. \A k \in 1 .. n : g[k] = file[k]
    BY <1>8, <1>10, <2>3
  <2>8. x = y
    BY <2>5, <2>6, <2>7, SeqEqual
  <2> QED BY <2>2, <2>3, <2>4, <2>8
<1>17. PICK r, q : r = Read_RC_File(file) /\ q = Read_RC_File(g)
  OBVIOUS
<1>18. r \in Readers /\ q \in Readers /\ Later(r, q)
  BY <1>3, <1>8, <1>9, <1>10, <1>17, ReadLater, ReadTyped
<1>19. ASSUME ~cut, HasRoom(q), NEW b \in added' PROVE IsIn(b, q.contacts)
  <2>1. PICK n \in 0 .. Len(file) : Holds(saved, written, Read_RC_File(SubSeq(file, 1, n)))
    BY <1>2, <1>3, <1>19 DEF FileInv, Lasting
  <2>2. Later(Read_RC_File(SubSeq(file, 1, n)), r)
    BY <1>3, <1>17, ReadPrefix
  <2>3. r.part # "settings"
    BY <2>1, <2>2 DEF Holds, Headed, Later
  <2>4. HasRoom(r)
    BY <1>18, <1>19, <2>3, PlacesAssumption, RoomBefore
  <2>5. file # <<>> /\ file[Len(file)] = NL
    BY <1>2, <1>3, <1>19 DEF FileInv, Ended
  <2>6. q.contacts = Append(r.contacts, e)
    BY <1>1, <1>3, <1>4, <1>9, <1>17, <2>4, <2>5, AddedLine
  <2>7. r.contacts \in Seq(Entries) /\ q.contacts \in Seq(Entries)
    BY <1>18 DEF Readers
  <2>8. CASE b = a
    BY <1>5, <2>6, <2>7, <2>8, IsInLast
  <2>9. CASE b # a
    <3>1. b \in added
      BY <1>2, <1>19, <2>9
    <3>2. IsIn(b, r.contacts)
      BY <1>2, <1>3, <1>17, <1>19, <2>4, <3>1
         DEF FileInv, AddedIsListed, Readable, Found, HasRoom
    <3>3. Begins(r.contacts, q.contacts)
      BY <1>18, <2>3 DEF Later
    <3> QED BY <2>7, <3>2, <3>3, IsInKept
  <2> QED BY <2>8, <2>9
<1>20. AddedIsListed'
  <2>1. Readable' => HasRoom(q)
    BY <1>2, <1>9, <1>17 DEF Readable, Found, HasRoom
  <2>2. Found' = q.contacts
    BY <1>2, <1>9, <1>17 DEF Found
  <2> QED BY <1>2, <1>19, <2>1, <2>2 DEF AddedIsListed
<1> QED BY <1>13, <1>14, <1>15, <1>16, <1>20 DEF FileInv

\* The other commands write neither the file nor the list.
LEMMA SetStep ==
  ASSUME FileInv, Command, reply' \in Seq(Text), auto_resp' \in BOOLEAN,
         Current_Status' \in Seq(Text),
         UNCHANGED <<pc, file, Contacts, UIN, set_status, asked, saving, saved, written,
                     cut, added, stops>>
  PROVE  FileInv'
<1>1. /\ pc = "up" /\ FileTypes
      /\ UNCHANGED <<pc, file, Contacts, UIN, set_status, asked, saved, written, cut, added>>
      /\ UNCHANGED <<step, this, that, pos>>
  BY DEF Command, FileInv, saving
<1>2. FileTypes'
  BY <1>1 DEF FileTypes
<1>3. SaveInv' /\ Lasting' /\ Ended' /\ AddedKept' /\ AddedIsListed'
  BY <1>1 DEF FileInv, SaveInv, Lasting, Ended, AddedKept, AddedIsListed, Readable, Found
<1> QED BY <1>2, <1>3 DEF FileInv

(* A request for a new UIN.                                                *)
LEMMA RegisterStep == ASSUME FileInv, reg_new_user PROVE FileInv'
<1>1. /\ pc \in {"down", "register"} /\ file = NoFile /\ asked < Len(Accounts)
      /\ pc' = "register" /\ asked' = asked + 1 /\ FileTypes
      /\ UNCHANGED <<file, memory, saving, history>>
  BY DEF reg_new_user, FileInv
<1>2. /\ UNCHANGED <<Contacts, UIN, Current_Status, set_status, auto_resp, reply>>
      /\ UNCHANGED <<step, this, that, pos>>
      /\ UNCHANGED <<saved, written, cut, added>>
  BY <1>1 DEF memory, saving, history
<1>3. asked' \in 0 .. Len(Accounts)
  <2>1. asked \in 0 .. Len(Accounts) /\ Len(Accounts) \in Nat
    BY <1>1, TextsAssumption, LenProperties DEF FileTypes
  <2> QED BY <1>1, <2>1
<1>4. FileTypes'
  BY <1>1, <1>2, <1>3 DEF FileTypes
<1>5. SaveInv' /\ Lasting' /\ Ended' /\ AddedKept' /\ AddedIsListed'
  BY <1>1, <1>2 DEF SaveInv, Lasting, Ended, AddedKept, AddedIsListed
<1> QED BY <1>4, <1>5 DEF FileInv

(* The first start of all.                                                 *)
LEMMA FileFirst == ASSUME FileInit PROVE FileInv
<1>1. /\ pc = "down" /\ file \in Files
      /\ Contacts = <<>> /\ UIN = <<>> /\ auto_resp = TRUE
      /\ Current_Status = Offline /\ set_status = Offline /\ reply = DefaultMessage
      /\ step = "settings" /\ this = 1 /\ that = 1 /\ pos = 0 /\ asked = 0
      /\ written = Len(saved.contacts) /\ cut = FALSE /\ added = {}
  BY DEF FileInit
<1>2. SaveInv /\ AddedKept /\ AddedIsListed
  BY <1>1 DEF SaveInv, AddedKept, AddedIsListed
<1>3. file = NoFile \/ (file \in Seq(Chars) /\ file # <<>> /\ file[Len(file)] = NL)
  BY <1>1, FilesAssumption
<1>4. Ended
  BY <1>1, <1>3 DEF Ended
<1>5. PICK r : r = IF file = NoFile THEN Blank ELSE Read_RC_File(file)
  OBVIOUS
<1>6. r \in Readers
  BY <1>3, <1>5, BlankTyped, ReadTyped
<1>7. saved = [contacts |-> r.contacts, settings |-> r.settings]
  <2>1. CASE file = NoFile
    <3>1. saved = NotYet /\ r = Blank
      BY <1>5, <2>1 DEF FileInit
    <3>2. Blank.contacts = <<>>
      BY DEF Blank
    <3> QED BY <3>1, <3>2 DEF NotYet
  <2>2. CASE file # NoFile
    BY <1>5, <2>2 DEF FileInit
  <2> QED BY <2>1, <2>2
<1>8. PICK c, t : c = r.contacts /\ t = r.settings
  OBVIOUS
<1>9. c \in Seq(Entries) /\ t \in Settings
  BY <1>6, <1>8 DEF Readers
<1>10. /\ saved \in [contacts : Seq(Entries), settings : Settings]
       /\ saved.contacts = c /\ saved.settings = t
  BY <1>7, <1>8, <1>9
<1>11. Len(c) \in Nat /\ written = Len(c)
  BY <1>1, <1>9, <1>10, LenProperties
<1>12. FileTypes
  <2>1. /\ Offline \in Seq(Text) /\ DefaultMessage \in Seq(Text)
        /\ <<>> \in Seq(Text) /\ <<>> \in Seq(Entries) /\ Len(Accounts) \in Nat
    BY TextsAssumption, LenProperties
  <2>2. written \in 0 .. Len(saved.contacts) /\ asked \in 0 .. Len(Accounts)
    BY <1>1, <1>10, <1>11, <2>1
  <2> QED BY <1>1, <1>3, <1>10, <2>1, <2>2 DEF FileTypes
<1>13. Lasting
  <2>1. SUFFICES ASSUME file # NoFile
                 PROVE  \E n \in 0 .. Len(file) :
                          Holds(saved, written, Read_RC_File(SubSeq(file, 1, n)))
    BY DEF Lasting
  <2>2. file \in Seq(Chars) /\ r.part = "contacts" /\ r = Read_RC_File(file)
    BY <1>1, <1>3, <1>5, <2>1, FilesAssumption
  <2>3. SubSeq(file, 1, Len(file)) = file /\ Len(file) \in 0 .. Len(file)
    BY <2>2, SubSeqFull, LenProperties
  <2>4. SubSeq(c, 1, Len(c)) = c
    BY <1>9, SubSeqFull
  <2>5. Wrote(saved, written, c)
    <3>1. \A k \in 1 .. Len(c) : c[k].kind = "person" => IsIn(c[k], c)
      BY DEF IsIn
    <3> QED BY <1>10, <1>11, <2>4, <3>1 DEF Wrote
  <2>6. Holds(saved, written, r)
    BY <1>8, <1>10, <2>2, <2>5 DEF Holds, Headed
  <2> QED BY <2>2, <2>3, <2>6
<1> QED BY <1>2, <1>4, <1>12, <1>13 DEF FileInv
-----------------------------------------------------------------------------
(* Every state of the program that keeps its contacts in a file.           *)
THEOREM FileInvariance == FileSpec => []FileInv
<1>1. FileInit => FileInv
  BY FileFirst
<1>2. FileInv /\ [FileNext]_file_vars => FileInv'
  <2> SUFFICES ASSUME FileInv, [FileNext]_file_vars PROVE FileInv'
    OBVIOUS
  <2>1. CASE Start
    BY <2>1, StartStep
  <2>2. CASE FirstStart
    BY <2>2, FirstFile, TextsAssumption DEF FirstStart
  <2>3. CASE reg_new_user
    BY <2>3, RegisterStep
  <2>4. CASE Init_New_User
    <3>1. pc = "register" /\ FileTypes
      BY <2>4 DEF Init_New_User, FileInv
    <3>2. file = NoFile
      BY <3>1, <2>4 DEF FileTypes, Init_New_User
    <3>3. PICK k \in 1 .. asked : Initalize_RC_File(Accounts[k])
      BY <2>4 DEF Init_New_User
    <3>4. Accounts[k] \in Seq(Text)
      <4>1. asked \in 0 .. Len(Accounts) /\ Accounts \in Seq(Seq(Text))
        BY <3>1, TextsAssumption DEF FileTypes
      <4>2. k \in 1 .. Len(Accounts)
        BY <4>1, LenProperties
      <4> QED BY <4>1, <4>2, ElementOfSeq
    <3> QED BY <3>1, <3>2, <3>3, <3>4, FirstFile
  <2>5. CASE Save_RC
    <3>1. CASE SaveSetting
      BY <3>1, SettingStep
    <3>2. CASE EndAliases
      BY <3>2, EndAliasesStep
    <3>3. CASE EndSave
      BY <3>3, EndStep
    <3>4. CASE \E i \in 1 .. Len(Contacts) : SaveMark(i) \/ SaveLine(i) \/ SaveAlias(i)
      BY <3>4, MarkStep, LineStep, AliasStep
    <3> QED BY <2>5, <3>1, <3>2, <3>3, <3>4 DEF Save_RC
  <2>6. CASE SaveCommand
    BY <2>6, SaveCommandStep
  <2>7. CASE Stop
    BY <2>7, StopStep
  <2>8. CASE \E uin \in Uins, nick \in Nicks : Add_User(uin, nick)
    BY <2>8, AddStep
  <2>9. CASE \E message \in Messages : SetReply(message)
    <3>1. PICK message \in Messages : SetReply(message)
      BY <2>9
    <3>2. message \in Seq(Text) /\ FileTypes
      BY TextsAssumption DEF FileInv
    <3> QED BY <3>1, <3>2, SetStep DEF SetReply, FileTypes
  <2>10. CASE SetAuto
    <3>1. FileTypes
      BY DEF FileInv
    <3> QED BY <2>10, <3>1, SetStep DEF SetAuto, FileTypes
  <2>11. CASE \E status \in Statuses \cup {set_status} : SetStatus(status)
    <3>1. PICK status \in Statuses \cup {set_status} : SetStatus(status)
      BY <2>11
    <3>2. status \in Seq(Text) /\ FileTypes
      BY TextsAssumption DEF FileInv, FileTypes
    <3> QED BY <3>1, <3>2, SetStep DEF SetStatus, FileTypes
  <2>12. CASE UNCHANGED file_vars
    <3>1. /\ UNCHANGED <<pc, file, asked>>
          /\ UNCHANGED <<Contacts, UIN, Current_Status, set_status, auto_resp, reply>>
          /\ UNCHANGED <<step, this, that, pos>> /\ UNCHANGED <<saved, written, cut, added>>
      BY <2>12 DEF file_vars, memory, saving, history
    <3>2. FileTypes' /\ Lasting' /\ Ended' /\ AddedKept' /\ AddedIsListed'
      BY <3>1 DEF FileInv, FileTypes, Lasting, Ended, AddedKept, AddedIsListed, Readable, Found
    <3>3. At' = At
      BY <3>1 DEF At
    <3>4. SettingsInv' = SettingsInv /\ ContactInv' = ContactInv
      BY <3>1, <3>3 DEF SettingsInv, ContactInv
    <3>5. LineInv' = LineInv /\ AliasesInv' = AliasesInv
      BY <3>1, <3>3 DEF LineInv, AliasesInv
    <3>6. SaveInv'
      BY <3>1, <3>4, <3>5 DEF FileInv, SaveInv
    <3> QED BY <3>2, <3>6 DEF FileInv
  <2> QED BY <2>1, <2>2, <2>3, <2>4, <2>5, <2>6, <2>7, <2>8, <2>9, <2>10, <2>11, <2>12
          DEF FileNext
<1> QED BY <1>1, <1>2, PTL DEF FileSpec

(* Wherever Save_RC was cut short, the next start finds every contact it   *)
(* had come to under the name that it had.                                 *)
THEOREM SavedAreFound == FileSpec => []SavedFoundAgain
<1>1. FileInv => SavedFoundAgain
  <2> SUFFICES ASSUME FileInv, file # NoFile, Readable, AliasesAreNames,
                      NEW k \in 1 .. Len(SubSeq(saved.contacts, 1, written)),
                      SubSeq(saved.contacts, 1, written)[k].kind = "person"
               PROVE  UIN2nick(Found, SubSeq(saved.contacts, 1, written)[k].uin)
                        = UIN2nick(SubSeq(saved.contacts, 1, written),
                                   SubSeq(saved.contacts, 1, written)[k].uin)
    BY DEF SavedFoundAgain
  <2>1. PICK people, contacts, u : /\ people = saved.contacts /\ contacts = SubSeq(people, 1, written)
                                 /\ u = contacts[k].uin
    OBVIOUS
  <2>2. people \in Seq(Entries) /\ written \in 0 .. Len(people) /\ file \in Seq(Chars)
    BY <2>1 DEF FileInv, FileTypes
  <2>3. contacts \in Seq(Entries) /\ Len(contacts) = written
    BY <2>1, <2>2, PrefixOf
  <2>4. k \in 1 .. Len(contacts) /\ contacts[k].kind = "person" /\ written > 0
    <3>1. k \in 1 .. Len(contacts) /\ contacts[k].kind = "person"
      BY <2>1
    <3>2. k \in 1 .. written /\ written \in Nat
      BY <2>2, <2>3, <3>1, LenProperties
    <3> QED BY <3>1, <3>2
  <2>5. u \in UinTexts
    <3>1. contacts[k] \in Entries
      BY <2>3, <2>4, ElementOfSeq
    <3> QED BY <2>1, <3>1 DEF Entries
  <2>6. PICK n \in 0 .. Len(file) : Holds(saved, written, Read_RC_File(SubSeq(file, 1, n)))
    BY <2>4, HeldSomewhere
  <2>7. PICK r, q : r = Read_RC_File(SubSeq(file, 1, n)) /\ q = Read_RC_File(file)
    OBVIOUS
  <2>8. r \in Readers /\ q \in Readers /\ Later(r, q)
    BY <2>2, <2>7, ReadPrefix
  <2>9. r.part # "settings" /\ HasRoom(q) /\ Holds(saved, written, r)
    BY <2>6, <2>7 DEF Holds, Headed, Readable, Found, HasRoom
  <2>10. HasRoom(r)
    BY <2>8, <2>9, PlacesAssumption, RoomBefore
  <2>11. NamesOnly(saved.contacts)
    BY DEF AliasesAreNames, NamesOnly
  <2>12. UIN2nick(r.contacts, u) = UIN2nick(contacts, u)
    BY <2>1, <2>5, <2>9, <2>10, <2>11 DEF Holds, Wrote
  <2>13. UIN2nick(contacts, u) # <<>>
    <3>1. k \in Places(contacts, u)
      BY <2>1, <2>4 DEF Places
    <3>2. \A x : <<x>> # <<>>
      OBVIOUS
    <3> QED BY <3>1, <3>2 DEF UIN2nick
  <2>14. /\ r.contacts \in Seq(Entries) /\ q.contacts \in Seq(Entries)
         /\ Begins(r.contacts, q.contacts)
    BY <2>8, <2>9 DEF Later, Readers
  <2>15. UIN2nick(q.contacts, u) = UIN2nick(r.contacts, u)
    BY <2>12, <2>13, <2>14, NameKept
  <2> QED BY <2>1, <2>7, <2>12, <2>15 DEF Found
<1> QED BY <1>1, FileInvariance, PTL

(* Whom the operator added is in the list of every later start.            *)
THEOREM AddedStay == FileSpec => []AddedIsListed
<1>1. FileInv => AddedIsListed
  BY DEF FileInv
<1> QED BY <1>1, FileInvariance, PTL

(* A start gets as far as the contacts, with the settings saved last.      *)
THEOREM SettingsStay == FileSpec => []SettingsKept
<1>1. FileInv => SettingsKept
  <2> SUFFICES ASSUME FileInv, pc # "save", ~cut, file # NoFile
               PROVE  /\ Read_RC_File(file).part # "settings"
                      /\ Read_RC_File(file).settings = saved.settings
    BY DEF SettingsKept
  <2>1. PICK n \in 0 .. Len(file) : Holds(saved, written, Read_RC_File(SubSeq(file, 1, n)))
    BY DEF FileInv, Lasting
  <2>2. file \in Seq(Chars)
    BY DEF FileInv, FileTypes
  <2>3. Later(Read_RC_File(SubSeq(file, 1, n)), Read_RC_File(file))
    BY <2>2, ReadPrefix
  <2> QED BY <2>1, <2>3 DEF Holds, Headed, Later
<1> QED BY <1>1, FileInvariance, PTL
=============================================================================
