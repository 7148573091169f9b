---------------------------- MODULE MsgQueueProof ----------------------------
(***************************************************************************)
(* What the operators of MsgQueue do to the entries of a queue and to the  *)
(* set of packets in it, for entries of any set E; and induction, which    *)
(* the provers know only for operators, for sets of numbers.               *)
(***************************************************************************)
EXTENDS MsgQueue, SequenceTheorems, FiniteSetTheorems, WellFoundedInduction, TLAPS

(* Every set of natural numbers that has a member has a least one.          *)
LEMMA Least ==
  ASSUME NEW T \in SUBSET Nat, T # {}
  PROVE \E n \in T : \A m \in T : n <= m
<1> DEFINE R == OpToRel(<, Nat)
<1>1. IsWellFoundedOn(R, Nat) BY NatLessThanWellFounded
<1>2. \A x, y \in Nat : <<x,y>> \in R <=> x < y BY DEF OpToRel
<1> HIDE DEF R
<1>3. \E x \in T : \A y \in T : ~ (<<y, x>> \in R) BY <1>1, WFMin
<1>4. PICK x \in T : \A y \in T : ~ (<<y, x>> \in R)
  BY <1>3
<1>5. x \in Nat /\ \A y \in T : y \in Nat
  OBVIOUS
<1>6. \A y \in T : ~ (y < x)
  BY <1>2, <1>4, <1>5
<1>7. \A y \in T : x <= y
  BY <1>5, <1>6
<1> QED BY <1>7

(* Induction: a set that holds 0, and with each number the next, holds all. *)
LEMMA SetInduction ==
  ASSUME NEW T \in SUBSET Nat, 0 \in T, \A n \in T : n + 1 \in T
  PROVE  T = Nat
<1> SUFFICES ASSUME NEW k \in Nat, k \notin T PROVE FALSE
  OBVIOUS
<1>1. PICK n \in Nat \ T : \A m \in Nat \ T : n <= m
  BY Least
<1>2. n - 1 \in Nat /\ n - 1 \in T
  BY <1>1
<1> QED BY <1>2, <1>1
-----------------------------------------------------------------------------
\* No two entries of q carry the same SEQ.
Distinct(q) == \A i, j \in DOMAIN q : q[i].seq = q[j].seq => i = j

(* What stands at a position of the queue is an entry.                     *)
LEMMA EntryAt ==
  ASSUME NEW E, NEW q \in Seq(E), NEW i \in DOMAIN q
  PROVE  q[i] \in E
<1>1. i \in 1 .. Len(q)
  BY LenProperties
<1>. QED BY <1>1, ElementOfSeq

(* Pushing: the new entry is last, the others keep their places, and the   *)
(* entries stay distinct when the new SEQ is fresh.                        *)
LEMMA PushFacts ==
  ASSUME NEW E, NEW q \in Seq(E), NEW m \in E
  PROVE  /\ Append(q, m) \in Seq(E)
         /\ DOMAIN Append(q, m) = 1 .. Len(q) + 1
         /\ \A i \in 1 .. Len(q) : Append(q, m)[i] = q[i]
         /\ Append(q, m)[Len(q) + 1] = m
         /\ Head(Append(q, m)) = IF q = <<>> THEN m ELSE Head(q)
         /\ Append(q, m) # <<>>
<1>1. /\ Append(q, m) \in Seq(E)
      /\ Append(q, m) # <<>>
      /\ Len(Append(q, m)) = Len(q) + 1
      /\ \A i \in 1 .. Len(q) : Append(q, m)[i] = q[i]
      /\ Append(q, m)[Len(q) + 1] = m
  BY AppendProperties
<1>2. DOMAIN Append(q, m) = 1 .. Len(q) + 1
  BY <1>1, LenProperties
<1>3. Head(Append(q, m)) = IF q = <<>> THEN m ELSE Head(q)
  BY HeadTailAppend
<1>. QED BY <1>1, <1>2, <1>3

(* Popping: the entries behind the head move up by one.                    *)
LEMMA PopFacts ==
  ASSUME NEW E, NEW q \in Seq(E), q # <<>>
  PROVE  /\ Tail(q) \in Seq(E)
         /\ Head(q) = q[1] /\ 1 \in DOMAIN q /\ Head(q) \in E
         /\ Len(q) \in Nat \ {0} /\ DOMAIN q = 1 .. Len(q)
         /\ Len(Tail(q)) = Len(q) - 1
         /\ DOMAIN Tail(q) = 1 .. Len(q) - 1
         /\ \A i \in 1 .. Len(q) - 1 : Tail(q)[i] = q[i + 1]
<1>1. /\ Tail(q) \in Seq(E)
      /\ Len(Tail(q)) = Len(q) - 1
      /\ \A i \in 1 .. Len(Tail(q)) : Tail(q)[i] = q[i + 1]
      /\ Head(q) \in E
  BY HeadTailProperties
<1>2. Len(q) \in Nat \ {0} /\ DOMAIN q = 1 .. Len(q)
  BY EmptySeq, LenProperties
<1>3. DOMAIN Tail(q) = 1 .. Len(q) - 1
  BY <1>1, LenProperties
<1>4. Head(q) = q[1]
  OBVIOUS
<1>. QED BY <1>1, <1>2, <1>3, <1>4

(* TakeOut(q, k) holds exactly the other entries, turned so that the one  *)
(* behind position k comes first.                                          *)
LEMMA RemoveFacts ==
  ASSUME NEW E, NEW q \in Seq(E), NEW k \in DOMAIN q
  PROVE  /\ TakeOut(q, k) \in Seq(E)
         /\ DOMAIN TakeOut(q, k) = 1 .. Len(q) - 1
         /\ \A i \in 1 .. Len(q) - 1 :
              TakeOut(q, k)[i] = IF i <= Len(q) - k THEN q[i + k]
                                  ELSE q[i - (Len(q) - k)]
<1> DEFINE a == SubSeq(q, k + 1, Len(q))
           b == SubSeq(q, 1, k - 1)
<1>1. Len(q) \in Nat /\ DOMAIN q = 1 .. Len(q) /\ k \in 1 .. Len(q)
  BY LenProperties
<1>2. \A i \in 1 .. Len(q) : q[i] \in E
  BY ElementOfSeq
<1>3. /\ a \in Seq(E) /\ Len(a) = Len(q) - k
      /\ \A i \in 1 .. Len(q) - k : a[i] = q[i + k]
  <2>1. k + 1 \in Int /\ Len(q) \in Int
        /\ \A i \in k + 1 .. Len(q) : q[i] \in E
    BY <1>1, <1>2
  <2>2. /\ a \in Seq(E)
        /\ Len(a) = IF k + 1 <= Len(q) THEN Len(q) - (k + 1) + 1 ELSE 0
        /\ \A i \in 1 .. Len(q) - (k + 1) + 1 : a[i] = q[(k + 1) + i - 1]
    BY <2>1, SubSeqProperties
  <2>. QED BY <2>2, <1>1
<1>4. /\ b \in Seq(E) /\ Len(b) = k - 1
      /\ \A i \in 1 .. k - 1 : b[i] = q[i]
  <2>1. 1 \in Int /\ k - 1 \in Int /\ \A i \in 1 .. k - 1 : q[i] \in E
    BY <1>1, <1>2
  <2>2. /\ b \in Seq(E)
        /\ Len(b) = IF 1 <= k - 1 THEN (k - 1) - 1 + 1 ELSE 0
        /\ \A i \in 1 .. (k - 1) - 1 + 1 : b[i] = q[1 + i - 1]
    BY <2>1, SubSeqProperties
  <2>. QED BY <2>2, <1>1
<1> HIDE DEF a, b
<1>5. /\ a \o b \in Seq(E)
      /\ Len(a \o b) = Len(a) + Len(b)
      /\ \A i \in 1 .. Len(a) + Len(b) :
           (a \o b)[i] = IF i <= Len(a) THEN a[i] ELSE b[i - Len(a)]
  BY <1>3, <1>4, ConcatProperties
<1>6. TakeOut(q, k) = a \o b
  BY DEF TakeOut, a, b
<1>7. DOMAIN (a \o b) = 1 .. Len(q) - 1
  <2>1. Len(a \o b) = Len(q) - 1
    BY <1>1, <1>3, <1>4, <1>5
  <2>2. DOMAIN (a \o b) = 1 .. Len(a \o b)
    BY <1>5, LenProperties
  <2>. QED BY <2>1, <2>2
<1>8. ASSUME NEW i \in 1 .. Len(q) - 1
      PROVE  (a \o b)[i] = IF i <= Len(q) - k THEN q[i + k]
                           ELSE q[i - (Len(q) - k)]
  <2>1. (a \o b)[i] = IF i <= Len(q) - k THEN a[i] ELSE b[i - (Len(q) - k)]
    <3>1. i \in 1 .. Len(a) + Len(b)
      BY <1>1, <1>3, <1>4
    <3>. QED BY <3>1, <1>3, <1>5
  <2>2. CASE i <= Len(q) - k
    <3>1. i \in 1 .. Len(q) - k
      BY <1>1, <2>2
    <3>. QED BY <2>1, <2>2, <3>1, <1>3
  <2>3. CASE ~(i <= Len(q) - k)
    <3>1. i - (Len(q) - k) \in 1 .. k - 1
      BY <1>1, <2>3
    <3>. QED BY <2>1, <2>3, <3>1, <1>4
  <2>. QED BY <2>2, <2>3
<1>. QED BY <1>5, <1>6, <1>7, <1>8

(* What an acknowledgement does to the queue's packets: exactly the one    *)
(* acknowledged leaves, whatever the rotation does to the order.           *)
LEMMA RemovePackets ==
  ASSUME NEW E, NEW q \in Seq(E), NEW k \in DOMAIN q, Distinct(q)
  PROVE  /\ Distinct(TakeOut(q, k))
         /\ QueuedSeqs(TakeOut(q, k)) = QueuedSeqs(q) \ {q[k].seq}
         /\ \A i \in DOMAIN TakeOut(q, k) :
              \E j \in DOMAIN q : TakeOut(q, k)[i] = q[j]
<1> DEFINE r == TakeOut(q, k)
           from(i) == IF i <= Len(q) - k THEN i + k ELSE i - (Len(q) - k)
<1>1. Len(q) \in Nat /\ DOMAIN q = 1 .. Len(q) /\ k \in 1 .. Len(q)
  BY LenProperties
<1>2. DOMAIN r = 1 .. Len(q) - 1
  BY RemoveFacts
<1>3. ASSUME NEW i \in DOMAIN r
      PROVE  from(i) \in DOMAIN q \ {k} /\ r[i] = q[from(i)]
  <2>1. from(i) \in DOMAIN q \ {k}
    BY <1>1, <1>2
  <2>2. r[i] = IF i <= Len(q) - k THEN q[i + k] ELSE q[i - (Len(q) - k)]
    BY <1>2, RemoveFacts
  <2>. QED BY <2>1, <2>2
<1>4. ASSUME NEW j \in DOMAIN q \ {k}
      PROVE  \E i \in DOMAIN r : from(i) = j
  <2>1. CASE j > k
    <3>1. j - k \in DOMAIN r /\ from(j - k) = j
      BY <1>1, <1>2, <2>1
    <3>. QED BY <3>1
  <2>2. CASE j < k
    <3>1. j + (Len(q) - k) \in DOMAIN r /\ from(j + (Len(q) - k)) = j
      BY <1>1, <1>2, <2>2
    <3>. QED BY <3>1
  <2>. QED BY <2>1, <2>2, <1>1
<1>5. ASSUME NEW i \in DOMAIN r, NEW j \in DOMAIN r, from(i) = from(j)
      PROVE  i = j
  BY <1>1, <1>2, <1>5
<1> HIDE DEF r, from
<1>6. Distinct(r)
  BY <1>3, <1>5 DEF Distinct
<1>7. QueuedSeqs(r) = QueuedSeqs(q) \ {q[k].seq}
  <2>1. ASSUME NEW i \in DOMAIN r
        PROVE  r[i].seq \in QueuedSeqs(q) \ {q[k].seq}
    BY <1>3 DEF Distinct, QueuedSeqs
  <2>2. ASSUME NEW j \in DOMAIN q, q[j].seq # q[k].seq
        PROVE  q[j].seq \in QueuedSeqs(r)
    <3>1. PICK i \in DOMAIN r : from(i) = j
      BY <1>4, <2>2
    <3>2. r[i].seq = q[j].seq
      BY <3>1, <1>3
    <3>. QED BY <3>2 DEF QueuedSeqs
  <2>. QED BY <2>1, <2>2 DEF QueuedSeqs
<1>8. \A i \in DOMAIN r : \E j \in DOMAIN q : r[i] = q[j]
  BY <1>3
<1>. QED BY <1>6, <1>7, <1>8 DEF r

(* With distinct entries Check_Queue removes the acknowledged entry and    *)
(* no other, or nothing.                                                   *)
LEMMA CheckQueueRemoves ==
  ASSUME NEW E, NEW q \in Seq(E), Distinct(q), NEW s \in QueuedSeqs(q)
  PROVE  \E k \in DOMAIN q :
           q[k].seq = s /\ FirstMatch(q, s) = k /\ Check_Queue(q, s) = TakeOut(q, k)
<1>1. PICK k \in DOMAIN q : q[k].seq = s
  BY DEF QueuedSeqs
<1>2. Matches(q, s) = {k}
  BY <1>1 DEF Matches, Distinct
<1>3. FirstMatch(q, s) = k
  <2>1. k \in Int
    BY LenProperties
  <2>2. \A i \in {k} : (\A j \in {k} : i <= j) <=> i = k
    BY <2>1
  <2>. QED BY <1>2, <2>2 DEF FirstMatch
<1>4. Check_Queue(q, s) = TakeOut(q, k)
  BY <1>2, <1>3 DEF Check_Queue
<1>. QED BY <1>1, <1>3, <1>4

(* Dropping the head leaves the other packets as they were.                *)
LEMMA PopPackets ==
  ASSUME NEW E, NEW q \in Seq(E), q # <<>>, Distinct(q)
  PROVE  /\ Distinct(Tail(q))
         /\ QueuedSeqs(Tail(q)) = QueuedSeqs(q) \ {Head(q).seq}
         /\ \A i \in DOMAIN Tail(q) : \E j \in DOMAIN q : Tail(q)[i] = q[j]
<1>1. /\ Head(q) = q[1] /\ 1 \in DOMAIN q
      /\ Len(q) \in Nat \ {0} /\ DOMAIN q = 1 .. Len(q)
      /\ DOMAIN Tail(q) = 1 .. Len(q) - 1
      /\ \A i \in 1 .. Len(q) - 1 : Tail(q)[i] = q[i + 1]
  BY PopFacts
<1>2. ASSUME NEW i \in DOMAIN Tail(q)
      PROVE  i + 1 \in DOMAIN q \ {1} /\ Tail(q)[i] = q[i + 1]
  BY <1>1
<1>3. ASSUME NEW j \in DOMAIN q \ {1}
      PROVE  j - 1 \in DOMAIN Tail(q) /\ Tail(q)[j - 1] = q[j]
  <2>1. j - 1 \in 1 .. Len(q) - 1 /\ (j - 1) + 1 = j
    BY <1>1
  <2>. QED BY <2>1, <1>1
<1>4. Distinct(Tail(q))
  <2> SUFFICES ASSUME NEW i \in DOMAIN Tail(q), NEW j \in DOMAIN Tail(q),
                      Tail(q)[i].seq = Tail(q)[j].seq
               PROVE  i = j
    BY DEF Distinct
  <2>1. i + 1 = j + 1
    BY <1>2 DEF Distinct
  <2>. QED BY <2>1, <1>1
<1>5. QueuedSeqs(Tail(q)) = QueuedSeqs(q) \ {Head(q).seq}
  <2>1. ASSUME NEW i \in DOMAIN Tail(q)
        PROVE  Tail(q)[i].seq \in QueuedSeqs(q) \ {q[1].seq}
    BY <1>1, <1>2 DEF Distinct, QueuedSeqs
  <2>2. ASSUME NEW j \in DOMAIN q, q[j].seq # q[1].seq
        PROVE  q[j].seq \in QueuedSeqs(Tail(q))
    BY <1>3, <2>2 DEF QueuedSeqs
  <2>. QED BY <1>1, <2>1, <2>2 DEF QueuedSeqs
<1>. QED BY <1>2, <1>4, <1>5

(* Pushing an entry whose packet is not queued keeps the entries distinct  *)
(* and adds that packet only.                                              *)
LEMMA PushPackets ==
  ASSUME NEW E, NEW q \in Seq(E), NEW m \in E, Distinct(q),
         m.seq \notin QueuedSeqs(q)
  PROVE  /\ Distinct(Append(q, m))
         /\ QueuedSeqs(Append(q, m)) = QueuedSeqs(q) \cup {m.seq}
         /\ \A i \in DOMAIN Append(q, m) :
              \/ Append(q, m)[i] = m
              \/ \E j \in DOMAIN q : Append(q, m)[i] = q[j]
<1> DEFINE r == Append(q, m)
<1>1. Len(q) \in Nat /\ DOMAIN q = 1 .. Len(q)
  BY LenProperties
<1>2. /\ DOMAIN r = DOMAIN q \cup {Len(q) + 1}
      /\ Len(q) + 1 \notin DOMAIN q
      /\ \A i \in DOMAIN q : r[i] = q[i]
      /\ r[Len(q) + 1] = m
  BY <1>1, PushFacts
<1> HIDE DEF r
<1>3. Distinct(r)
  BY <1>2 DEF Distinct, QueuedSeqs
<1>4. QueuedSeqs(r) = QueuedSeqs(q) \cup {m.seq}
  <2>1. ASSUME NEW i \in DOMAIN r
        PROVE  r[i].seq \in QueuedSeqs(q) \cup {m.seq}
    BY <1>2 DEF QueuedSeqs
  <2>2. ASSUME NEW j \in DOMAIN q PROVE q[j].seq \in QueuedSeqs(r)
    BY <1>2 DEF QueuedSeqs
  <2>3. m.seq \in QueuedSeqs(r)
    BY <1>2 DEF QueuedSeqs
  <2>. QED BY <2>1, <2>2, <2>3 DEF QueuedSeqs
<1>5. \A i \in DOMAIN r : r[i] = m \/ \E j \in DOMAIN q : r[i] = q[j]
  BY <1>2
<1>. QED BY <1>3, <1>4, <1>5 DEF r
(* Pushing several entries, one after another.                             *)
LEMMA ConcatPackets ==
  ASSUME NEW E, NEW q \in Seq(E), NEW b \in Seq(E), Distinct(q), Distinct(b),
         QueuedSeqs(q) \cap QueuedSeqs(b) = {}
  PROVE  /\ q \o b \in Seq(E) /\ Distinct(q \o b)
         /\ Len(q \o b) = Len(q) + Len(b)
         /\ QueuedSeqs(q \o b) = QueuedSeqs(q) \cup QueuedSeqs(b)
         /\ \A i \in DOMAIN (q \o b) :
              \/ \E j \in DOMAIN q : (q \o b)[i] = q[j]
              \/ \E j \in DOMAIN b : (q \o b)[i] = b[j]
<1> DEFINE r == q \o b
<1>1. /\ Len(q) \in Nat /\ DOMAIN q = 1 .. Len(q)
      /\ Len(b) \in Nat /\ DOMAIN b = 1 .. Len(b)
  BY LenProperties
<1>2. /\ r \in Seq(E) /\ Len(r) = Len(q) + Len(b)
      /\ \A i \in 1 .. Len(q) + Len(b) :
           r[i] = IF i <= Len(q) THEN q[i] ELSE b[i - Len(q)]
  BY ConcatProperties
<1>3. DOMAIN r = 1 .. Len(q) + Len(b)
  BY <1>2, LenProperties
<1>4. ASSUME NEW i \in DOMAIN r
      PROVE  \/ i \in DOMAIN q /\ r[i] = q[i]
             \/ i \notin DOMAIN q /\ i - Len(q) \in DOMAIN b /\ r[i] = b[i - Len(q)]
  BY <1>1, <1>2, <1>3
<1>5. \A i \in DOMAIN q : i \in DOMAIN r /\ r[i] = q[i]
  BY <1>1, <1>2, <1>3
<1>6. ASSUME NEW j \in DOMAIN b
      PROVE  \E i \in DOMAIN r : r[i] = b[j]
  <2>1. j + Len(q) \in DOMAIN r /\ j + Len(q) \notin DOMAIN q
        /\ (j + Len(q)) - Len(q) = j
    BY <1>1, <1>3
  <2>. QED BY <2>1, <1>4
<1> HIDE DEF r
<1>7. Distinct(r)
  <2> SUFFICES ASSUME NEW i \in DOMAIN r, NEW j \in DOMAIN r, r[i].seq = r[j].seq
               PROVE  i = j
    BY DEF Distinct
  <2>1. CASE i \in DOMAIN q /\ j \in DOMAIN q
    BY <2>1, <1>4 DEF Distinct
  <2>2. CASE i \notin DOMAIN q /\ j \notin DOMAIN q
    <3>1. i - Len(q) = j - Len(q)
      BY <2>2, <1>4 DEF Distinct
    <3>. QED BY <3>1, <1>1, <1>3
  <2>3. CASE i \in DOMAIN q /\ j \notin DOMAIN q
    BY <2>3, <1>4 DEF QueuedSeqs
  <2>4. CASE i \notin DOMAIN q /\ j \in DOMAIN q
    BY <2>4, <1>4 DEF QueuedSeqs
  <2>. QED BY <2>1, <2>2, <2>3, <2>4
<1>8. QueuedSeqs(r) = QueuedSeqs(q) \cup QueuedSeqs(b)
  <2>1. \A i \in DOMAIN r : r[i].seq \in QueuedSeqs(q) \cup QueuedSeqs(b)
    BY <1>4 DEF QueuedSeqs
  <2>2. \A i \in DOMAIN q : q[i].seq \in QueuedSeqs(r)
    BY <1>5 DEF QueuedSeqs
  <2>3. \A i \in DOMAIN b : b[i].seq \in QueuedSeqs(r)
    BY <1>6 DEF QueuedSeqs
  <2>. QED BY <2>1, <2>2, <2>3 DEF QueuedSeqs
<1>9. \A i \in DOMAIN r : (\E j \in DOMAIN q : r[i] = q[j]) \/ (\E j \in DOMAIN b : r[i] = b[j])
  BY <1>4
<1>. QED BY <1>2, <1>7, <1>8, <1>9 DEF r
=============================================================================
