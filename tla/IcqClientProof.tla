--------------------------- MODULE IcqClientProof ---------------------------
(***************************************************************************)
(* Proofs about IcqClient, for any server packets and any number of        *)
(* deliveries: every delivery is acknowledged once, and on a network that  *)
(* does not reorder the comparison with the last SEQ alone is enough to    *)
(* handle no packet twice.                                                 *)
(*                                                                         *)
(* Of the packets the client sends, as long as their numbers go on         *)
(* (NumbersGoOn: seq_num has not wrapped, and no child writes with a copy  *)
(* of it): no number is used twice, an ack that takes a packet out of the  *)
(* queue is for one the server received, and the client is the ledger that *)
(* PacketLedger describes.                                                 *)
(***************************************************************************)
EXTENDS IcqClient, MsgQueueProof

PacketCounts == [1 .. MaxSrv -> Nat]

(* The part of the types that the argument rests on.                        *)
DeliveryTypes ==
  /\ srv \in Seq(SrvPackets) /\ Len(srv) <= MaxSrv
  /\ last_seq \in 0 .. Len(srv)
  /\ delivered \in PacketCounts /\ handled \in PacketCounts

(* Only what was sent and delivered is handled.                             *)
HandledWasDelivered ==
  \A e \in 1 .. MaxSrv :
    /\ delivered[e] > 0 => e <= Len(srv)
    /\ handled[e] > 0 => delivered[e] > 0

(* Without reordering the packet handled last is the last one delivered.    *)
LastIsLatest ==
  ORDERED =>
    /\ last_seq > 0 => delivered[last_seq] > 0
    /\ \A e \in 1 .. MaxSrv : delivered[e] > 0 => e <= last_seq

HandledInOrder == ORDERED => HandledOnce

DeliveryInv ==
  /\ DeliveryTypes /\ DeliveriesAnswered
  /\ HandledWasDelivered /\ LastIsLatest /\ HandledInOrder

\* What these five facts are about.
deliveries == <<srv, last_seq, delivered, answered, handled>>
-----------------------------------------------------------------------------
(* Nothing is sent or delivered at the start.                               *)
LEMMA InitDelivery == ASSUME Init PROVE DeliveryInv
<1>1. /\ srv = <<>> /\ last_seq = 0 /\ MaxSrv \in Nat
      /\ \A e \in 1 .. MaxSrv : delivered[e] = 0 /\ handled[e] = 0
      /\ delivered \in PacketCounts /\ handled \in PacketCounts
      /\ answered = delivered
  BY WordAssumption DEF Init, PacketCounts
<1>2. DeliveryTypes
  BY <1>1 DEF DeliveryTypes
<1>3. HandledWasDelivered /\ LastIsLatest /\ HandledInOrder /\ DeliveriesAnswered
  BY <1>1 DEF HandledWasDelivered, LastIsLatest, HandledInOrder, HandledOnce,
     DeliveriesAnswered
<1> QED BY <1>2, <1>3 DEF DeliveryInv

(* Steps that receive nothing from the server keep the invariant.           *)
LEMMA DeliveryUntouched ==
  ASSUME DeliveryInv, UNCHANGED deliveries PROVE DeliveryInv'
BY DEF deliveries, DeliveryInv, DeliveryTypes, DeliveriesAnswered,
       HandledWasDelivered, LastIsLatest, HandledInOrder, HandledOnce

(* One delivery of a packet the server sent.                                *)
LEMMA ArrivesFacts ==
  ASSUME DeliveryInv, NEW e \in DOMAIN srv, Arrives(e)
  PROVE  /\ e \in 1 .. Len(srv) /\ e \in 1 .. MaxSrv /\ Len(srv) \in Nat
         /\ delivered' \in PacketCounts /\ delivered'[e] > 0
         /\ \A f \in 1 .. MaxSrv : delivered[f] > 0 => delivered'[f] > 0
         /\ \A f \in 1 .. MaxSrv : delivered'[f] > 0 => f = e \/ delivered[f] > 0
         /\ ORDERED => \A f \in 1 .. MaxSrv : delivered[f] > 0 => f <= e
<1>1. e \in 1 .. Len(srv) /\ Len(srv) \in Nat /\ e \in 1 .. MaxSrv
  BY LenProperties, WordAssumption DEF DeliveryInv, DeliveryTypes
<1>2. /\ delivered \in PacketCounts
      /\ delivered' = [delivered EXCEPT ![e] = @ + 1]
  BY DEF DeliveryInv, DeliveryTypes, Arrives
<1>3. /\ delivered' \in PacketCounts /\ delivered'[e] > 0
      /\ \A f \in 1 .. MaxSrv : f # e => delivered'[f] = delivered[f]
  BY <1>1, <1>2 DEF PacketCounts
<1>4. ASSUME ORDERED, NEW f \in 1 .. MaxSrv, delivered[f] > 0
      PROVE  f <= e
  <2>1. f <= Len(srv)
    BY <1>4 DEF DeliveryInv, HandledWasDelivered
  <2>2. f \notin e + 1 .. Len(srv)
    BY <1>4 DEF Arrives
  <2> QED BY <2>1, <2>2, <1>1
<1> QED BY <1>1, <1>3, <1>4

(* A packet dropped as a repeat is acknowledged and changes nothing else.   *)
LEMMA RepeatedDelivery ==
  ASSUME DeliveryInv, NEW e \in DOMAIN srv, ReadRepeated(e)
  PROVE  DeliveryInv'
<1>1. /\ Arrives(e) /\ last_seq = e
      /\ UNCHANGED <<srv, last_seq, handled>>
      /\ answered' = [answered EXCEPT ![e] = @ + 1]
      /\ delivered' = [delivered EXCEPT ![e] = @ + 1]
  BY DEF ReadRepeated, Repeats, ack_srv, server, Arrives
<1>2. DeliveryTypes' /\ DeliveriesAnswered'
  BY <1>1, ArrivesFacts DEF DeliveryInv, DeliveryTypes, DeliveriesAnswered
<1>3. HandledWasDelivered'
  BY <1>1, ArrivesFacts DEF DeliveryInv, HandledWasDelivered
<1>4. LastIsLatest'
  BY <1>1, ArrivesFacts DEF DeliveryInv, LastIsLatest
<1>5. HandledInOrder'
  BY <1>1 DEF DeliveryInv, HandledInOrder, HandledOnce
<1> QED BY <1>2, <1>3, <1>4, <1>5 DEF DeliveryInv

(* A packet that is handled was never handled before: had it been, it would *)
(* be the last one delivered, and so the last one handled: a repeat.        *)
LEMMA PacketDelivery ==
  ASSUME DeliveryInv, NEW e \in DOMAIN srv, ReadPacket(e)
  PROVE  DeliveryInv'
<1>1. /\ Arrives(e) /\ ~Repeats(e) /\ last_seq' = e
      /\ UNCHANGED srv
      /\ answered' = [answered EXCEPT ![e] = @ + 1]
      /\ delivered' = [delivered EXCEPT ![e] = @ + 1]
      /\ handled' = [handled EXCEPT ![e] = @ + 1]
  BY DEF ReadPacket, ack_srv, server, Arrives
<1>2. e \in 1 .. Len(srv) /\ e \in 1 .. MaxSrv /\ Len(srv) \in Nat
  BY <1>1, ArrivesFacts
<1>3. /\ handled \in PacketCounts /\ handled' \in PacketCounts
      /\ handled'[e] = handled[e] + 1
      /\ \A f \in 1 .. MaxSrv : f # e => handled'[f] = handled[f]
  BY <1>1, <1>2 DEF DeliveryInv, DeliveryTypes, PacketCounts
<1>4. DeliveryTypes' /\ DeliveriesAnswered'
  <2>1. DeliveryTypes'
    <3>1. srv \in Seq(SrvPackets) /\ Len(srv) <= MaxSrv /\ srv' = srv
      BY <1>1 DEF DeliveryInv, DeliveryTypes
    <3>2. last_seq' \in 0 .. Len(srv)
      BY <1>1, <1>2
    <3>3. delivered' \in PacketCounts
      BY <1>1, ArrivesFacts
    <3> QED BY <3>1, <3>2, <3>3, <1>3 DEF DeliveryTypes
  <2>2. DeliveriesAnswered'
    BY <1>1 DEF DeliveryInv, DeliveriesAnswered
  <2> QED BY <2>1, <2>2
<1>5. HandledWasDelivered'
  <2> SUFFICES ASSUME NEW f \in 1 .. MaxSrv
               PROVE  /\ delivered'[f] > 0 => f <= Len(srv)
                      /\ handled'[f] > 0 => delivered'[f] > 0
    BY <1>1 DEF HandledWasDelivered
  <2>1. CASE f = e
    BY <2>1, <1>1, <1>2, ArrivesFacts
  <2>2. CASE f # e
    BY <2>2, <1>1, <1>3, ArrivesFacts DEF DeliveryInv, HandledWasDelivered
  <2> QED BY <2>1, <2>2
<1>6. LastIsLatest'
  <2>1. ASSUME ORDERED, NEW f \in 1 .. MaxSrv, delivered'[f] > 0
        PROVE  f <= e
    BY <2>1, <1>1, <1>2, ArrivesFacts
  <2> QED BY <2>1, <1>1, ArrivesFacts DEF LastIsLatest
<1>7. ASSUME ORDERED, srv[e] # <<"SRV_NEW_UIN">>
      PROVE  handled[e] = 0
  <2>1. last_seq # e
    BY <1>1, <1>7 DEF Repeats
  <2>2. ASSUME delivered[e] > 0 PROVE FALSE
    <3>1. last_seq > e /\ last_seq \in 1 .. MaxSrv
      BY <2>1, <2>2, <1>2, <1>7, WordAssumption
         DEF DeliveryInv, DeliveryTypes, LastIsLatest
    <3>2. delivered[last_seq] > 0
      BY <3>1, <1>2, <1>7 DEF DeliveryInv, LastIsLatest
    <3> QED BY <3>1, <3>2, <1>1, <1>2, <1>7, ArrivesFacts
  <2> QED BY <2>2, <1>2, <1>3 DEF DeliveryInv, HandledWasDelivered, PacketCounts
<1>8. HandledInOrder'
  <2> SUFFICES ASSUME ORDERED, NEW f \in DOMAIN srv, srv[f] # <<"SRV_NEW_UIN">>
               PROVE  handled'[f] <= 1
    BY <1>1 DEF HandledInOrder, HandledOnce
  <2>1. f \in 1 .. MaxSrv
    BY LenProperties, WordAssumption DEF DeliveryInv, DeliveryTypes
  <2>2. CASE f = e
    BY <2>2, <1>3, <1>7
  <2>3. CASE f # e
    BY <2>1, <2>3, <1>3 DEF DeliveryInv, HandledInOrder, HandledOnce
  <2> QED BY <2>2, <2>3
<1> QED BY <1>4, <1>5, <1>6, <1>8 DEF DeliveryInv

(* A packet the server has just sent was not delivered yet.                 *)
LEMMA SentDelivery == ASSUME DeliveryInv, ServerSends PROVE DeliveryInv'
<1>1. PICK parts \in SrvPackets : srv' = Append(srv, parts)
  BY DEF ServerSends
<1>2. /\ UNCHANGED <<last_seq, delivered, answered, handled>>
      /\ Len(srv) < MaxSrv
  BY DEF ServerSends, history
<1>3. srv \in Seq(SrvPackets) /\ Len(srv) \in Nat /\ MaxSrv \in Nat
  BY LenProperties, WordAssumption DEF DeliveryInv, DeliveryTypes
<1>4. /\ srv' \in Seq(SrvPackets) /\ Len(srv') = Len(srv) + 1
      /\ \A f \in 1 .. Len(srv) : srv'[f] = srv[f]
  BY <1>1, <1>3, AppendProperties
<1>5. DOMAIN srv = 1 .. Len(srv) /\ DOMAIN srv' = 1 .. Len(srv) + 1
  BY <1>3, <1>4, LenProperties
<1>6. DeliveryTypes' /\ DeliveriesAnswered'
  BY <1>2, <1>3, <1>4 DEF DeliveryInv, DeliveryTypes, DeliveriesAnswered
<1>7. HandledWasDelivered' /\ LastIsLatest'
  BY <1>2, <1>3, <1>4 DEF DeliveryInv, HandledWasDelivered, LastIsLatest
<1>8. HandledInOrder'
  <2> SUFFICES ASSUME ORDERED, NEW f \in 1 .. Len(srv) + 1,
                      srv'[f] # <<"SRV_NEW_UIN">>
               PROVE  handled[f] <= 1
    BY <1>2, <1>5 DEF HandledInOrder, HandledOnce
  <2>1. CASE f = Len(srv) + 1
    <3>1. f \in 1 .. MaxSrv /\ ~(f <= Len(srv))
      BY <2>1, <1>2, <1>3
    <3>2. ~(handled[f] > 0) /\ handled[f] \in Nat
      BY <3>1 DEF DeliveryInv, HandledWasDelivered, DeliveryTypes, PacketCounts
    <3> QED BY <3>2
  <2>2. CASE f # Len(srv) + 1
    <3>1. f \in 1 .. Len(srv)
      BY <2>2, <1>3
    <3> QED BY <3>1, <1>4, <1>5 DEF DeliveryInv, HandledInOrder, HandledOnce
  <2> QED BY <2>1, <2>2
<1> QED BY <1>6, <1>7, <1>8 DEF DeliveryInv

(* All other steps, whatever they write, leave the deliveries alone.        *)
LEMMA OtherSteps ==
  ASSUME \/ Login \/ Idle_Check \/ Quit_ICQ \/ NothingRead \/ ReadAck
         \/ Get_Input \/ Keep_Alive \/ Do_Resend
         \/ ChildLogin \/ ServerReceives \/ ServerDies \/ UNCHANGED vars
  PROVE  UNCHANGED deliveries
<1>1. ASSUME Login \/ Idle_Check \/ Quit_ICQ \/ NothingRead \/ ReadAck
      PROVE  UNCHANGED deliveries
  BY <1>1 DEF deliveries, server, history, Login, Idle_Check, Quit_ICQ,
     NothingRead, ReadAck
<1>2. ASSUME Get_Input \/ Keep_Alive \/ Do_Resend
      PROVE  UNCHANGED deliveries
  BY <1>2 DEF deliveries, server, history, Get_Input, Keep_Alive, Do_Resend,
     Retry, Discard, NothingToResend
<1>3. ASSUME ChildLogin \/ ServerReceives \/ ServerDies \/ UNCHANGED vars
      PROVE  UNCHANGED deliveries
  BY <1>3 DEF deliveries, server, history, ChildLogin, ServerReceives,
     ServerDies, vars
<1> QED BY <1>1, <1>2, <1>3

(* The packet handled last stands for all that were handled, as long as     *)
(* packets do not overtake.                                                 *)
THEOREM DeliveryInvariance == Spec => []DeliveryInv
<1>1. ASSUME DeliveryInv, [Next]_vars PROVE DeliveryInv'
  <2>1. CASE Handle_Server_Response
    <3>1. CASE ReadAck
      BY <1>1, <3>1, OtherSteps, DeliveryUntouched
    <3>2. CASE \E e \in DOMAIN srv : ReadRepeated(e) \/ ReadPacket(e)
      BY <1>1, <3>2, RepeatedDelivery, PacketDelivery
    <3> QED BY <2>1, <3>1, <3>2 DEF Handle_Server_Response
  <2>2. CASE ServerSends
    BY <1>1, <2>2, SentDelivery
  <2>3. CASE ~Handle_Server_Response /\ ~ServerSends
    BY <1>1, <2>3, OtherSteps, DeliveryUntouched DEF Next, Client
  <2> QED BY <2>1, <2>2, <2>3
<1> QED BY InitDelivery, <1>1, PTL DEF Spec

(* Each delivery of a server packet is acknowledged exactly once, whatever  *)
(* the network repeats or reorders and whatever the handler does.           *)
THEOREM AllDeliveriesAnswered == Spec => []DeliveriesAnswered
<1>1. DeliveryInv => DeliveriesAnswered
  BY DEF DeliveryInv
<1> QED BY DeliveryInvariance, <1>1, PTL

(* On a network that repeats but does not reorder, no message is handled    *)
(* twice, although only the SEQ of the packet before is remembered.         *)
THEOREM RepeatsHandledOnce == Spec => [](ORDERED => HandledOnce)
<1>1. DeliveryInv => (ORDERED => HandledOnce)
  BY DEF DeliveryInv, HandledInOrder
<1> QED BY DeliveryInvariance, <1>1, PTL
-----------------------------------------------------------------------------
(* The numbers of the client's packets.  They can only repeat after the    *)
(* wrap of seq_num, or when a forked child uses one of its parent's:       *)
(* neither happens in a step of which NumbersGoOn holds.                   *)
NumbersGoOn ==
  /\ seq_num <= seq_num' /\ Len(queue') - Len(queue) < WORD
  /\ children' = {}

(* The commands of the client's packets; the provers do not know that a    *)
(* string is in STRING.                                                    *)
Commands ==
  STRING \cup {"CMD_LOGIN", "CMD_LOGIN_1", "CMD_SEND_TEXT_CODE",
               "CMD_ACK_MESSAGES", "CMD_INFO_REQ", "CMD_EXT_INFO_REQ",
               "CMD_SENDM", "CMD_KEEP_ALIVE", "CMD_KEEP_ALIVE2"}
Plain == Commands \ {"CMD_KEEP_ALIVE"}

Entry == [seq : SEQs, cmd : Commands, attempts : 1 .. MAX_ATTEMPTS, exp_time : Nat]

PacketTypes ==
  /\ queue \in Seq(Entry)
  /\ now \in Nat /\ seq_num \in 1 .. WORD - 1 /\ children = {}

(* Every packet on the wire is the client's, and numbered below seq_num.   *)
NumbersTaken ==
  /\ UniqueSEQ
  /\ \A p \in wire : p.seq[1] < seq_num
  /\ wire \subseteq [seq : SEQs, cmd : Commands, by : {"client"}]

(* Each entry of the queue is a packet on the wire, queued once and with    *)
(* the count of its transmissions.                                          *)
QueuedWasSent ==
  /\ Distinct(queue)
  /\ \A i \in DOMAIN queue :
       /\ Packet(queue[i].seq, queue[i].cmd, "client") \in wire
       /\ BagIn(queue[i].seq, sends) /\ sends[queue[i].seq] = queue[i].attempts
  /\ \A s \in DOMAIN sends : sends[s] \in Nat /\ \E p \in wire : p.seq = s

(* What an acknowledgement took off the queue is not in it any more.        *)
AckedOnce ==
  /\ received \subseteq wire /\ AckedWasReceived
  /\ \A p \in acked : BagIn(p.seq, sends) /\ p.seq \notin QueuedSeqs(queue)

PacketInv == PacketTypes /\ NumbersTaken /\ QueuedWasSent /\ AckedOnce
-----------------------------------------------------------------------------
(* The answers to the parts of a packet, one after another: what FlattenSeq *)
(* defines by recursion is a sequence of what its parts are sequences of.   *)
LEMMA Flattened ==
  ASSUME NEW T, NEW s \in Seq(Seq(T))
  PROVE  FlattenSeq(s) \in Seq(T)
<1>1. CASE Len(s) = 0
  <2>1. FlattenSeq(s) = <<>>
    BY <1>1, EmptySeq DEF FlattenSeq
  <2> QED BY <2>1
<1>2. CASE Len(s) # 0
  <2> DEFINE Joins(g, k) == g = [i \in 1 .. k |-> IF i = 1 THEN s[i] ELSE g[i - 1] \o s[i]]
             flatten == CHOOSE g : Joins(g, Len(s))
             K == {k \in Nat : \E g : Joins(g, k)}
  <2>1. 0 \in K
    <3> DEFINE g == [i \in 1 .. 0 |-> {}]
    <3>1. Joins(g, 0)
      OBVIOUS
    <3> QED BY <3>1
  <2>2. ASSUME NEW k \in K PROVE k + 1 \in K
    <3>1. PICK g : Joins(g, k)
      OBVIOUS
    <3> DEFINE after(i) == IF i = 1 THEN s[i] ELSE g[i - 1] \o s[i]
    <3>2. PICK h : h = [i \in 1 .. k + 1 |-> after(i)]
      OBVIOUS
    <3>3. \A i \in 1 .. k : g[i] = after(i)
      BY <3>1
    <3>4. \A i \in 1 .. k + 1 : i = 1 \/ i - 1 \in 1 .. k
      OBVIOUS
    <3> HIDE DEF after
    <3>5. \A i \in 1 .. k : h[i] = g[i]
      BY <3>2, <3>3
    <3>6. \A i \in 1 .. k + 1 : after(i) = IF i = 1 THEN s[i] ELSE h[i - 1] \o s[i]
      BY <3>4, <3>5 DEF after
    <3>7. PICK r : r = [i \in 1 .. k + 1 |->
                          IF i = 1 THEN s[i] ELSE h[i - 1] \o s[i]]
      OBVIOUS
    <3>8. \A i \in 1 .. k + 1 : r[i] = after(i)
      BY <3>6, <3>7
    <3>9. r = [i \in 1 .. k + 1 |-> r[i]] /\ h = [i \in 1 .. k + 1 |-> h[i]]
      BY <3>2, <3>7
    <3>10. \A i \in 1 .. k + 1 : r[i] = h[i]
      BY <3>2, <3>8
    <3>11. r = h
      BY <3>9, <3>10
    <3>12. h = [i \in 1 .. k + 1 |-> IF i = 1 THEN s[i] ELSE h[i - 1] \o s[i]]
      BY <3>7, <3>11, Zenon
    <3>13. Joins(h, k + 1)
      BY <3>12, Zenon
    <3> HIDE DEF Joins
    <3> QED BY <3>13
  <2>3. K = Nat
    <3> HIDE DEF K
    <3>1. K \in SUBSET Nat
      BY DEF K
    <3> QED BY <2>1, <2>2, <3>1, SetInduction
  <2>4. Joins(flatten, Len(s))
    <3>1. \E g : Joins(g, Len(s))
      BY <2>3, LenProperties
    <3> QED BY <3>1
  <2>5. FlattenSeq(s) = flatten[Len(s)]
    BY <1>2 DEF FlattenSeq
  <2> DEFINE M == {k \in Nat : k + 1 \in 1 .. Len(s) => flatten[k + 1] \in Seq(T)}
  <2>6. Len(s) \in Nat /\ \A i \in 1 .. Len(s) : s[i] \in Seq(T)
    BY LenProperties, ElementOfSeq
  <2> HIDE DEF flatten
  <2> DEFINE at(i) == IF i = 1 THEN s[i] ELSE flatten[i - 1] \o s[i]
  <2>12. \A i \in 1 .. Len(s) : flatten[i] = at(i)
    BY <2>4
  <2>7. 0 \in M
    BY <2>6, <2>12
  <2>8. ASSUME NEW k \in M PROVE k + 1 \in M
    <3> SUFFICES ASSUME k + 2 \in 1 .. Len(s) PROVE flatten[k + 2] \in Seq(T)
      OBVIOUS
    <3>1. flatten[k + 1] \in Seq(T) /\ s[k + 2] \in Seq(T)
      BY <2>6
    <3>2. k \in Nat /\ k + 2 # 1 /\ k + 2 - 1 = k + 1
      OBVIOUS
    <3> DEFINE i == k + 2
    <3>3. i \in 1 .. Len(s) /\ i # 1 /\ i - 1 = k + 1
      BY <3>2
    <3> HIDE DEF i
    <3>4. flatten[i] = flatten[i - 1] \o s[i]
      BY <2>12, <3>3
    <3> QED BY <3>1, <3>3, <3>4 DEF i
  <2>9. M = Nat
    <3> HIDE DEF M
    <3>1. M \in SUBSET Nat
      BY DEF M
    <3> QED BY <2>7, <2>8, <3>1, SetInduction
  <2>10. Len(s) - 1 \in Nat /\ (Len(s) - 1) + 1 = Len(s)
    BY <1>2, <2>6
  <2>11. Len(s) - 1 \in M
    BY <2>9, <2>10
  <2> QED BY <1>2, <2>5, <2>6, <2>10, <2>11
<1> QED BY <1>1, <1>2

(* A union of bags with packets that were not sent before, and with one that *)
(* was.                                                                     *)
LEMMA SendNew ==
  ASSUME NEW b, NEW S, S \cap DOMAIN b = {}, \A s \in DOMAIN b : b[s] \in Nat
  PROVE  /\ DOMAIN (b (+) SetToBag(S)) = DOMAIN b \cup S
         /\ \A s \in DOMAIN b : (b (+) SetToBag(S))[s] = b[s]
         /\ \A s \in S : (b (+) SetToBag(S))[s] = 1
BY DEF (+), SetToBag, BagToSet

(* One more transmission of a packet counted already.                       *)
LEMMA SendAgain ==
  ASSUME NEW b, NEW s \in DOMAIN b, \A t \in DOMAIN b : b[t] \in Nat
  PROVE  /\ DOMAIN (b (+) SetToBag({s})) = DOMAIN b
         /\ \A t \in DOMAIN b :
              (b (+) SetToBag({s}))[t] = IF t = s THEN b[t] + 1 ELSE b[t]
<1>1. DOMAIN b \cup {s} = DOMAIN b
  OBVIOUS
<1>2. b (+) SetToBag({s}) =
        [t \in DOMAIN b |-> b[t] + (IF t \in {s} THEN [u \in {s} |-> 1][t] ELSE 0)]
  BY <1>1 DEF (+), SetToBag
<1>3. \A t \in DOMAIN b :
        b[t] + (IF t \in {s} THEN [u \in {s} |-> 1][t] ELSE 0)
          = IF t = s THEN b[t] + 1 ELSE b[t]
  OBVIOUS
<1> QED BY <1>2, <1>3

(* A number that has not wrapped.                                           *)
LEMMA NoWrap ==
  ASSUME NEW n \in 0 .. WORD - 1, NEW k \in 0 .. WORD - 1, n <= (n + k) % WORD
  PROVE  n + k < WORD /\ \A j \in 0 .. k : (n + j) % WORD = n + j
<1>0. WORD \in Nat \ {0, 1}
  BY WordAssumption
<1>1. ASSUME NEW a \in 0 .. WORD - 1 PROVE a % WORD = a
  BY <1>0
<1>2. ASSUME NEW a \in WORD .. 2 * WORD - 1 PROVE a % WORD = a - WORD
  BY <1>0
<1>3. n + k < WORD
  <2>1. ASSUME ~(n + k < WORD) PROVE FALSE
    <3>1. (n + k) % WORD = n + k - WORD
      BY <1>0, <1>2, <2>1
    <3> QED BY <3>1, <1>0
  <2> QED BY <2>1
<1>4. ASSUME NEW j \in 0 .. k PROVE (n + j) % WORD = n + j
  <2>1. n + j \in 0 .. WORD - 1
    BY <1>0, <1>3
  <2> QED BY <1>1, <2>1
<1> QED BY <1>3, <1>4
-----------------------------------------------------------------------------
(* The packets of one handler: the i-th has the SEQ SeqAt(cmds, i).         *)
SeqAt(cmds, i) == SEQ(cmds[i], NumberOf(cmds, i))

(* Numbers of their own, from seq_num on.                                   *)
Numbered(cmds) ==
  /\ seq_num' \in seq_num .. WORD - 1
  /\ \A i \in 1 .. Len(cmds) :
       SeqAt(cmds, i) \in SEQs /\ SeqAt(cmds, i)[1] \in seq_num .. seq_num' - 1
  /\ \A i, j \in 1 .. Len(cmds) : SeqAt(cmds, i) = SeqAt(cmds, j) => i = j

(* The packets that take a number are counted by their positions.           *)
LEMMA AdvanceCounts ==
  ASSUME NEW cmds, NEW S, S \subseteq DOMAIN cmds,
         \A i \in DOMAIN cmds : i \in S <=> cmds[i] # "CMD_KEEP_ALIVE"
  PROVE  Advance(cmds) = Cardinality(S)
<1> DEFINE A == {i \in DOMAIN cmds : cmds[i] # "CMD_KEEP_ALIVE"}
<1>1. \A i : i \in A <=> i \in S
  OBVIOUS
<1>2. Advance(cmds) = Cardinality(A)
  BY DEF Advance
<1> HIDE DEF A
<1>3. A = S
  BY <1>1
<1> QED BY <1>2, <1>3

(* Every packet but CMD_KEEP_ALIVE takes one number.                        *)
LEMMA AdvanceOfPlain ==
  ASSUME NEW cmds \in Seq(Plain)
  PROVE  Advance(cmds) = Len(cmds)
<1>1. Len(cmds) \in Nat /\ DOMAIN cmds = 1 .. Len(cmds)
      /\ \A i \in 1 .. Len(cmds) : cmds[i] \in Plain
  BY LenProperties, ElementOfSeq
<1>2. \A i \in DOMAIN cmds : cmds[i] # "CMD_KEEP_ALIVE"
  <2>1. \A c \in Plain : c # "CMD_KEEP_ALIVE"
    BY DEF Plain
  <2> QED BY <1>1, <2>1, Zenon
<1>3. Cardinality(1 .. Len(cmds)) = Len(cmds)
  <2> DEFINE n == Len(cmds)
  <2>1. 1 \in Int /\ n \in Int /\ n \in Nat
    BY <1>1
  <2> HIDE DEF n
  <2>2. Cardinality(1 .. n) = IF 1 > n THEN 0 ELSE n - 1 + 1
    BY <2>1, FS_Interval
  <2>3. Cardinality(1 .. n) = n
    BY <2>1, <2>2
  <2> QED BY <2>3 DEF n
<1>4. Advance(cmds) = Cardinality(DOMAIN cmds)
  <2> DEFINE S == DOMAIN cmds
  <2>1. S \subseteq DOMAIN cmds
        /\ \A i \in DOMAIN cmds : i \in S <=> cmds[i] # "CMD_KEEP_ALIVE"
    BY <1>2
  <2> HIDE DEF S
  <2>2. Advance(cmds) = Cardinality(S)
    BY <2>1, AdvanceCounts
  <2> QED BY <2>2 DEF S
<1> QED BY <1>1, <1>3, <1>4

(* Packets that are no CMD_KEEP_ALIVE have consecutive numbers.             *)
LEMMA PlainNumbered ==
  ASSUME PacketTypes, NEW cmds \in Seq(Plain), Len(cmds) < WORD,
         seq_num' = (seq_num + Advance(cmds)) % WORD, seq_num <= seq_num'
  PROVE  Numbered(cmds)
<1>0. WORD \in Nat \ {0, 1} /\ seq_num \in 1 .. WORD - 1
      /\ Len(cmds) \in Nat /\ \A i \in 1 .. Len(cmds) : cmds[i] \in Plain
  BY WordAssumption, LenProperties, ElementOfSeq DEF PacketTypes
<1>1. /\ seq_num + Len(cmds) < WORD
      /\ \A j \in 0 .. Len(cmds) : (seq_num + j) % WORD = seq_num + j
      /\ seq_num' = seq_num + Len(cmds)
  <2>1. Advance(cmds) = Len(cmds)
    BY AdvanceOfPlain
  <2> DEFINE n == seq_num  k == Len(cmds)
  <2>2. n \in 0 .. WORD - 1 /\ k \in 0 .. WORD - 1
    BY <1>0
  <2>3. seq_num' = (n + k) % WORD /\ n <= (n + k) % WORD
    BY <2>1
  <2> HIDE DEF n, k
  <2>4. n + k < WORD /\ \A j \in 0 .. k : (n + j) % WORD = n + j
    BY <2>2, <2>3, NoWrap
  <2>5. k \in 0 .. k
    BY <2>2
  <2>6. seq_num' = n + k
    BY <2>3, <2>4, <2>5
  <2> QED BY <2>4, <2>6 DEF n, k
<1>2. seq_num' = seq_num + Len(cmds)
  BY <1>1
<1>3. ASSUME NEW i \in 1 .. Len(cmds)
      PROVE  SeqAt(cmds, i) = <<seq_num + i - 1, seq_num + i - 1>>
  <2>1. SubSeq(cmds, 1, i - 1) \in Seq(Plain) /\ Len(SubSeq(cmds, 1, i - 1)) = i - 1
    <3>1. \A j \in 1 .. i - 1 : cmds[j] \in Plain
      BY <1>0
    <3>2. 1 \in Int /\ i - 1 \in Int
      BY <1>0
    <3> QED BY <1>0, <3>1, <3>2, SubSeqProperties
  <2>2. Advance(SubSeq(cmds, 1, i - 1)) = i - 1
    BY <2>1, AdvanceOfPlain
  <2>3. NumberOf(cmds, i) = seq_num + (i - 1)
    <3>1. i - 1 \in 0 .. Len(cmds)
      BY <1>0
    <3> QED BY <1>1, <2>2, <3>1 DEF NumberOf
  <2>4. cmds[i] # "CMD_KEEP_ALIVE"
    BY <1>0 DEF Plain
  <2> QED BY <1>0, <2>3, <2>4 DEF SeqAt, SEQ
<1>4. ASSUME NEW i \in 1 .. Len(cmds)
      PROVE  /\ SeqAt(cmds, i) \in SEQs
             /\ SeqAt(cmds, i)[1] \in seq_num .. seq_num' - 1
  <2>1. seq_num + i - 1 \in 0 .. WORD - 1
    BY <1>0, <1>1
  <2>2. SeqAt(cmds, i) = SEQ("CMD_KEEP_ALIVE2", seq_num + i - 1)
    BY <1>3 DEF SEQ
  <2>3. SeqAt(cmds, i) \in SEQs
    BY <2>1, <2>2 DEF SEQs
  <2>4. SeqAt(cmds, i)[1] = seq_num + i - 1
    BY <1>3
  <2> QED BY <1>0, <1>2, <2>3, <2>4
<1>5. ASSUME NEW i \in 1 .. Len(cmds), NEW j \in 1 .. Len(cmds),
             SeqAt(cmds, i) = SeqAt(cmds, j)
      PROVE  i = j
  <2>1. seq_num + i - 1 = seq_num + j - 1
    BY <1>3, <1>5
  <2> QED BY <1>0, <2>1
<1>6. seq_num' \in seq_num .. WORD - 1
  BY <1>0, <1>1, <1>2
<1> QED BY <1>4, <1>5, <1>6 DEF Numbered

(* The two keep alives share a number, of which the first has only half.    *)
LEMMA KeepAliveNumbered ==
  ASSUME PacketTypes, NEW cmds, cmds = <<"CMD_KEEP_ALIVE", "CMD_KEEP_ALIVE2">>,
         seq_num' = (seq_num + Advance(cmds)) % WORD, seq_num <= seq_num'
  PROVE  Numbered(cmds)
<1>0. /\ WORD \in Nat \ {0, 1} /\ seq_num \in 1 .. WORD - 1
      /\ Len(cmds) = 2 /\ DOMAIN cmds = {1, 2}
      /\ cmds[1] = "CMD_KEEP_ALIVE" /\ cmds[2] = "CMD_KEEP_ALIVE2"
  BY WordAssumption DEF PacketTypes
<1>1. Advance(cmds) = 1
  <2>1. /\ {2} \subseteq DOMAIN cmds
        /\ \A i \in DOMAIN cmds : i \in {2} <=> cmds[i] # "CMD_KEEP_ALIVE"
    BY <1>0
  <2>2. Advance(cmds) = Cardinality({2})
    BY <2>1, AdvanceCounts, Zenon
  <2> QED BY <2>2, FS_Singleton
<1>2. seq_num' = seq_num + 1 /\ seq_num % WORD = seq_num
  <2>1. seq_num + 1 < WORD /\ \A j \in 0 .. 1 : (seq_num + j) % WORD = seq_num + j
    <3>1. seq_num \in 0 .. WORD - 1 /\ 1 \in 0 .. WORD - 1
      BY <1>0
    <3> QED BY <1>1, <3>1, NoWrap
  <2>2. seq_num + 0 = seq_num /\ 0 \in 0 .. 1 /\ 1 \in 0 .. 1
    BY <1>0
  <2> QED BY <1>1, <2>1, <2>2
<1>3. NumberOf(cmds, 1) = seq_num
  <2>1. SubSeq(cmds, 1, 1 - 1) = <<>>
    BY <1>0
  <2>2. Advance(<<>>) = 0
    <3> DEFINE none == <<>>
    <3>1. DOMAIN none = {}
      OBVIOUS
    <3> HIDE DEF none
    <3>2. {} \subseteq DOMAIN none
          /\ \A i \in DOMAIN none : i \in {} <=> none[i] # "CMD_KEEP_ALIVE"
      BY <3>1
    <3>4. Advance(none) = Cardinality({})
      BY <3>2, AdvanceCounts, Zenon
    <3>3. Advance(none) = 0
      BY <3>4, FS_EmptySet
    <3> QED BY <3>3 DEF none
  <2>3. seq_num + 0 = seq_num
    BY <1>0
  <2> QED BY <1>2, <2>1, <2>2, <2>3 DEF NumberOf
<1>4. NumberOf(cmds, 2) = seq_num
  <2> DEFINE one == SubSeq(cmds, 1, 2 - 1)
  <2>1. DOMAIN one = {1} /\ one[1] = "CMD_KEEP_ALIVE"
    BY <1>0
  <2> HIDE DEF one
  <2>5. {} \subseteq DOMAIN one
        /\ \A i \in DOMAIN one : i \in {} <=> one[i] # "CMD_KEEP_ALIVE"
    BY <2>1
  <2>2. Advance(one) = Cardinality({})
    BY <2>5, AdvanceCounts, Zenon
  <2>3. Advance(one) = 0
    BY <2>2, FS_EmptySet
  <2>4. seq_num + 0 = seq_num
    BY <1>0
  <2> QED BY <1>2, <2>3, <2>4 DEF NumberOf, one
<1>5. SeqAt(cmds, 1) = <<seq_num, 0>> /\ SeqAt(cmds, 2) = <<seq_num, seq_num>>
  BY <1>0, <1>3, <1>4 DEF SeqAt, SEQ
<1>6. /\ SeqAt(cmds, 1) = SEQ("CMD_KEEP_ALIVE", seq_num)
      /\ SeqAt(cmds, 2) = SEQ("CMD_KEEP_ALIVE2", seq_num)
  BY <1>5 DEF SEQ
<1>7. SeqAt(cmds, 1) \in SEQs /\ SeqAt(cmds, 2) \in SEQs
  BY <1>0, <1>6 DEF SEQs
<1>8. seq_num' \in seq_num .. WORD - 1 /\ seq_num \in seq_num .. seq_num' - 1
  <2>1. seq_num' \in 0 .. WORD - 1
    <3>1. \A a \in Nat : a % WORD \in 0 .. WORD - 1
      BY <1>0
    <3>2. seq_num + 1 \in Nat /\ seq_num' = (seq_num + 1) % WORD
      BY <1>0, <1>1
    <3> QED BY <3>1, <3>2
  <2> QED BY <1>0, <1>2, <2>1
<1>9. /\ SeqAt(cmds, 1)[1] = seq_num /\ SeqAt(cmds, 2)[1] = seq_num
      /\ SeqAt(cmds, 1) # SeqAt(cmds, 2)
  BY <1>0, <1>5
<1>10. 1 .. Len(cmds) = {1, 2}
  BY <1>0
<1> QED BY <1>7, <1>8, <1>9, <1>10 DEF Numbered
-----------------------------------------------------------------------------
(* The packets of one handler are new to the network, and follow each other *)
(* at the end of the queue.                                                 *)
Batch(cmds, t) ==
  [i \in DOMAIN cmds |-> NewEntry(SeqAt(cmds, i), cmds[i], t)]

SeqsOf(cmds) == {SeqAt(cmds, i) : i \in DOMAIN cmds}

\* The first word of a SEQ is a number.
LEMMA SeqWord == ASSUME NEW s \in SEQs PROVE s[1] \in 0 .. WORD - 1
BY DEF SEQs, SEQ

(* The entries queued for the packets written in one step.                  *)
LEMMA BatchFacts ==
  ASSUME NEW cmds \in Seq(Commands), NEW t \in Nat, Numbered(cmds)
  PROVE  /\ Batch(cmds, t) \in Seq(Entry)
         /\ DOMAIN Batch(cmds, t) = DOMAIN cmds
         /\ \A i \in DOMAIN cmds :
              /\ Batch(cmds, t)[i].seq = SeqAt(cmds, i)
              /\ Batch(cmds, t)[i].cmd = cmds[i]
              /\ Batch(cmds, t)[i].attempts = 1
         /\ Distinct(Batch(cmds, t))
         /\ QueuedSeqs(Batch(cmds, t)) = SeqsOf(cmds)
         /\ \A s \in SeqsOf(cmds) : s \in SEQs /\ s[1] \in seq_num .. seq_num' - 1
<1> DEFINE b == Batch(cmds, t)
<1>1. /\ Len(cmds) \in Nat /\ DOMAIN cmds = 1 .. Len(cmds)
      /\ \A i \in 1 .. Len(cmds) : cmds[i] \in Commands
  BY LenProperties, ElementOfSeq
<1>2. ASSUME NEW i \in 1 .. Len(cmds)
      PROVE  NewEntry(SeqAt(cmds, i), cmds[i], t) \in Entry
  <2>1. SeqAt(cmds, i) \in SEQs /\ cmds[i] \in Commands
    BY <1>1 DEF Numbered
  <2>2. 1 \in 1 .. MAX_ATTEMPTS /\ t + RESEND_TIMEOUT \in Nat
    BY AttemptsAssumption, TimeoutAssumption
  <2> QED BY <2>1, <2>2 DEF NewEntry, Entry
<1>3. /\ DOMAIN b = 1 .. Len(cmds)
      /\ \A i \in 1 .. Len(cmds) : b[i] = NewEntry(SeqAt(cmds, i), cmds[i], t)
  BY <1>1 DEF Batch
<1>4. b \in Seq(Entry)
  <2>1. b = [i \in 1 .. Len(cmds) |-> NewEntry(SeqAt(cmds, i), cmds[i], t)]
    BY <1>1 DEF Batch
  <2>2. [i \in 1 .. Len(cmds) |-> NewEntry(SeqAt(cmds, i), cmds[i], t)]
          \in [1 .. Len(cmds) -> Entry]
    BY <1>2
  <2> QED BY <1>1, <2>1, <2>2, SeqDef
<1>5. \A i \in 1 .. Len(cmds) :
        b[i].seq = SeqAt(cmds, i) /\ b[i].cmd = cmds[i] /\ b[i].attempts = 1
  BY <1>3 DEF NewEntry
<1> HIDE DEF b
<1>6. Distinct(b)
  BY <1>3, <1>5 DEF Distinct, Numbered
<1>7. QueuedSeqs(b) = SeqsOf(cmds)
  BY <1>1, <1>3, <1>5 DEF QueuedSeqs, SeqsOf
<1>8. \A s \in SeqsOf(cmds) : s \in SEQs /\ s[1] \in seq_num .. seq_num' - 1
  BY <1>1 DEF SeqsOf, Numbered
<1> QED BY <1>1, <1>3, <1>4, <1>5, <1>6, <1>7, <1>8 DEF b

(* What a step may do to the packet with SEQ s, in the terms of the ledger. *)
LedgerMove(s) ==
  \/ FateOf(s) = "unsent" /\ FateOf(s)' = "pending" /\ SendsOf(s)' = 1
  \/ /\ FateOf(s) = "pending" /\ FateOf(s)' = "pending"
     /\ SendsOf(s) < MAX_ATTEMPTS /\ SendsOf(s)' = SendsOf(s) + 1
  \/ /\ FateOf(s) = "pending" /\ FateOf(s)' = "acked"
     /\ SendsOf(s)' = SendsOf(s)
  \/ /\ FateOf(s) = "pending" /\ FateOf(s)' = "discarded"
     /\ SendsOf(s) = MAX_ATTEMPTS /\ SendsOf(s)' = SendsOf(s)
  \/ FateOf(s)' = FateOf(s) /\ SendsOf(s)' = SendsOf(s)

Kept == PacketInv' /\ \A s \in SEQs : LedgerMove(s)

(* Packets written in one step get numbers no packet had, and are queued.   *)
LEMMA WriteKeeps ==
  ASSUME PacketInv, NEW cmds \in Seq(Commands), NEW t \in Nat,
         Numbered(cmds), SendAll(cmds, t), children' = {}, now' \in Nat,
         UNCHANGED <<received, acked>>
  PROVE  Kept
<1> DEFINE b == Batch(cmds, t)
           S == SeqsOf(cmds)
<1>1. /\ b \in Seq(Entry) /\ DOMAIN b = DOMAIN cmds
      /\ \A i \in DOMAIN cmds :
           b[i].seq = SeqAt(cmds, i) /\ b[i].cmd = cmds[i] /\ b[i].attempts = 1
      /\ Distinct(b) /\ QueuedSeqs(b) = S
      /\ \A s \in S : s \in SEQs /\ s[1] \in seq_num .. seq_num' - 1
  BY BatchFacts
<1>2. /\ queue' = queue \o b
      /\ wire' = wire \cup {Packet(SeqAt(cmds, i), cmds[i], "client") : i \in DOMAIN cmds}
      /\ sends' = sends (+) SetToBag(S)
      /\ seq_num' \in seq_num .. WORD - 1
  BY DEF SendAll, Batch, SeqsOf, SeqAt, Numbered
<1>3. /\ \A i \in DOMAIN cmds : SeqAt(cmds, i) \in S /\ cmds[i] \in Commands
      /\ \A i, j \in DOMAIN cmds : SeqAt(cmds, i) = SeqAt(cmds, j) => i = j
  <2>1. DOMAIN cmds = 1 .. Len(cmds) /\ \A i \in 1 .. Len(cmds) : cmds[i] \in Commands
    BY LenProperties, ElementOfSeq
  <2> QED BY <2>1 DEF SeqsOf, Numbered
<1>4. \A s \in S : \E i \in DOMAIN cmds : s = SeqAt(cmds, i)
  BY DEF SeqsOf
<1> HIDE DEF b, S
<1>5. /\ queue \in Seq(Entry) /\ Distinct(queue)
      /\ seq_num \in 1 .. WORD - 1 /\ WORD \in Nat \ {0, 1}
      /\ \A p \in wire : p.seq[1] < seq_num /\ p.seq[1] \in 0 .. WORD - 1
      /\ \A s \in DOMAIN sends : sends[s] \in Nat /\ \E p \in wire : p.seq = s
  <2>1. \A p \in wire : p.seq \in SEQs
    BY DEF PacketInv, NumbersTaken
  <2> QED BY <2>1, SeqWord, WordAssumption
          DEF PacketInv, PacketTypes, NumbersTaken, QueuedWasSent
<1>6. \A p \in wire : p.seq \notin S
  BY <1>1, <1>5
<1>7. S \cap DOMAIN sends = {}
  BY <1>5, <1>6
<1>8. /\ DOMAIN sends' = DOMAIN sends \cup S
      /\ \A s \in DOMAIN sends : sends'[s] = sends[s]
      /\ \A s \in S : sends'[s] = 1
  <2>1. \A s \in DOMAIN sends : sends[s] \in Nat
    BY <1>5
  <2>2. /\ DOMAIN (sends (+) SetToBag(S)) = DOMAIN sends \cup S
        /\ \A s \in DOMAIN sends : (sends (+) SetToBag(S))[s] = sends[s]
        /\ \A s \in S : (sends (+) SetToBag(S))[s] = 1
    BY <1>7, <2>1, SendNew
  <2> QED BY <1>2, <2>2, Zenon
<1>9. QueuedSeqs(queue) \subseteq DOMAIN sends
  BY DEF PacketInv, QueuedWasSent, QueuedSeqs, BagIn, BagToSet
<1>10. /\ queue' \in Seq(Entry) /\ Distinct(queue')
       /\ QueuedSeqs(queue') = QueuedSeqs(queue) \cup S
       /\ \A i \in DOMAIN queue' :
            \/ \E j \in DOMAIN queue : queue'[i] = queue[j]
            \/ \E j \in DOMAIN cmds : queue'[i] = b[j]
  <2>1. QueuedSeqs(queue) \cap QueuedSeqs(b) = {}
    BY <1>1, <1>7, <1>9
  <2>2. queue \in Seq(Entry) /\ b \in Seq(Entry) /\ Distinct(queue) /\ Distinct(b)
    BY <1>1, <1>5
  <2>3. /\ queue \o b \in Seq(Entry) /\ Distinct(queue \o b)
        /\ QueuedSeqs(queue \o b) = QueuedSeqs(queue) \cup QueuedSeqs(b)
        /\ \A i \in DOMAIN (queue \o b) :
             \/ \E j \in DOMAIN queue : (queue \o b)[i] = queue[j]
             \/ \E j \in DOMAIN b : (queue \o b)[i] = b[j]
    BY <2>1, <2>2, ConcatPackets
  <2>4. queue' = queue \o b /\ QueuedSeqs(b) = S /\ DOMAIN b = DOMAIN cmds
    BY <1>1, <1>2
  <2> QED BY <2>3, <2>4
<1>11. PacketTypes'
  <2>1. seq_num' \in 1 .. WORD - 1
    BY <1>2, <1>5
  <2> QED BY <1>10, <2>1 DEF PacketTypes
<1>12. NumbersTaken'
  <2>1. UniqueSEQ'
    <3> SUFFICES ASSUME NEW p \in wire', NEW q \in wire', p.seq = q.seq
                 PROVE  p = q
      BY DEF UniqueSEQ
    <3>1. CASE p \in wire /\ q \in wire
      BY <3>1 DEF PacketInv, NumbersTaken, UniqueSEQ
    <3>2. ASSUME NEW r \in wire', r \notin wire
          PROVE  \E i \in DOMAIN cmds :
                   r = Packet(SeqAt(cmds, i), cmds[i], "client") /\ r.seq = SeqAt(cmds, i)
      BY <1>2, <3>2 DEF Packet
    <3>3. CASE p \notin wire /\ q \notin wire
      BY <1>3, <3>2, <3>3
    <3>4. CASE p \in wire /\ q \notin wire
      BY <1>3, <1>6, <3>2, <3>4
    <3>5. CASE p \notin wire /\ q \in wire
      BY <1>3, <1>6, <3>2, <3>5
    <3> QED BY <3>1, <3>3, <3>4, <3>5
  <2>2. ASSUME NEW p \in wire' PROVE p.seq[1] < seq_num'
    <3>1. CASE p \in wire
      BY <1>2, <1>5, <3>1
    <3>2. CASE p \notin wire
      <4>1. p.seq \in S
        BY <1>2, <1>3, <3>2 DEF Packet
      <4> QED BY <1>1, <1>2, <1>5, <4>1
    <3> QED BY <3>1, <3>2
  <2>3. wire' \subseteq [seq : SEQs, cmd : Commands, by : {"client"}]
    <3>1. wire \subseteq [seq : SEQs, cmd : Commands, by : {"client"}]
      BY DEF PacketInv, NumbersTaken
    <3>2. \A i \in DOMAIN cmds : SeqAt(cmds, i) \in SEQs /\ cmds[i] \in Commands
      BY <1>1, <1>3
    <3> QED BY <1>2, <3>1, <3>2 DEF Packet
  <2> QED BY <2>1, <2>2, <2>3 DEF NumbersTaken
<1>13. QueuedWasSent'
  <2>1. ASSUME NEW i \in DOMAIN queue'
        PROVE  /\ Packet(queue'[i].seq, queue'[i].cmd, "client") \in wire'
               /\ queue'[i].seq \in DOMAIN sends'
               /\ sends'[queue'[i].seq] = queue'[i].attempts
    <3>1. CASE \E j \in DOMAIN queue : queue'[i] = queue[j]
      <4>1. PICK j \in DOMAIN queue : queue'[i] = queue[j]
        BY <3>1
      <4>2. /\ Packet(queue[j].seq, queue[j].cmd, "client") \in wire
            /\ queue[j].seq \in DOMAIN sends
            /\ sends[queue[j].seq] = queue[j].attempts
        BY DEF PacketInv, QueuedWasSent, BagIn, BagToSet
      <4> QED BY <1>2, <1>8, <4>1, <4>2
    <3>2. CASE \E j \in DOMAIN cmds : queue'[i] = b[j]
      <4>1. PICK j \in DOMAIN cmds : queue'[i] = b[j]
        BY <3>2
      <4> QED BY <1>1, <1>2, <1>3, <1>8, <4>1
    <3> QED BY <1>10, <3>1, <3>2
  <2>2. ASSUME NEW s \in DOMAIN sends'
        PROVE  sends'[s] \in Nat /\ \E p \in wire' : p.seq = s
    <3>1. CASE s \in DOMAIN sends
      BY <1>2, <1>5, <1>8, <3>1
    <3>2. CASE s \in S
      <4>1. PICK i \in DOMAIN cmds : s = SeqAt(cmds, i)
        BY <1>4, <3>2
      <4>2. Packet(SeqAt(cmds, i), cmds[i], "client") \in wire'
        BY <1>2
      <4>3. Packet(SeqAt(cmds, i), cmds[i], "client").seq = s
        BY <4>1 DEF Packet
      <4> QED BY <1>8, <3>2, <4>2, <4>3
    <3> QED BY <1>8, <3>1, <3>2
  <2> QED BY <1>10, <2>1, <2>2 DEF QueuedWasSent, BagIn, BagToSet
<1>14. AckedOnce'
  <2>1. received' \subseteq wire' /\ AckedWasReceived'
    BY <1>2 DEF PacketInv, AckedOnce, AckedWasReceived
  <2>2. ASSUME NEW p \in acked
        PROVE  p.seq \in DOMAIN sends' /\ p.seq \notin QueuedSeqs(queue')
    <3>1. p.seq \in DOMAIN sends /\ p.seq \notin QueuedSeqs(queue)
      BY DEF PacketInv, AckedOnce, BagIn, BagToSet
    <3> QED BY <1>7, <1>8, <1>10, <3>1
  <2> QED BY <2>1, <2>2 DEF AckedOnce, BagIn, BagToSet
<1>15. ASSUME NEW s \in SEQs PROVE LedgerMove(s)
  <2>1. CASE s \in S
    <3>1. s \notin DOMAIN sends /\ s \in DOMAIN sends' /\ sends'[s] = 1
          /\ s \in QueuedSeqs(queue')
      BY <1>7, <1>8, <1>10, <2>1
    <3> QED BY <3>1 DEF LedgerMove, FateOf, SendsOf, BagIn, BagToSet
  <2>2. CASE s \notin S /\ s \in DOMAIN sends
    <3>1. s \in DOMAIN sends' /\ sends'[s] = sends[s]
          /\ (s \in QueuedSeqs(queue') <=> s \in QueuedSeqs(queue)) /\ acked' = acked
      BY <1>8, <1>10, <2>2
    <3> QED BY <2>2, <3>1 DEF LedgerMove, FateOf, SendsOf, BagIn, BagToSet
  <2>3. CASE s \notin S /\ s \notin DOMAIN sends
    <3>1. s \notin DOMAIN sends'
      BY <1>8, <2>3
    <3> QED BY <2>3, <3>1 DEF LedgerMove, FateOf, SendsOf, BagIn, BagToSet
  <2> QED BY <2>1, <2>2, <2>3
<1> QED BY <1>11, <1>12, <1>13, <1>14, <1>15 DEF Kept, PacketInv
-----------------------------------------------------------------------------
(* A handler that writes packets, none of them a CMD_KEEP_ALIVE.            *)
LEMMA PlainWrites ==
  ASSUME PacketInv, NumbersGoOn, NEW cmds \in Seq(Plain), NEW t \in Nat,
         SendAll(cmds, t), now' \in Nat, UNCHANGED <<received, acked>>
  PROVE  Kept
<1>1. /\ Len(cmds) \in Nat /\ DOMAIN cmds = 1 .. Len(cmds)
      /\ cmds \in Seq(Commands)
  BY LenProperties, SeqMonotonic DEF Plain
<1>2. Len(queue') = Len(queue) + Len(cmds) /\ Len(queue) \in Nat
  <2> DEFINE b == [i \in 1 .. Len(cmds) |-> NewEntry(SeqAt(cmds, i), cmds[i], t)]
             R == {b[i] : i \in 1 .. Len(cmds)}
  <2>1. b \in [1 .. Len(cmds) -> R]
    OBVIOUS
  <2>2. b = [i \in 1 .. Len(cmds) |-> b[i]]
    OBVIOUS
  <2>3. queue' = queue \o b
    BY <1>1 DEF SendAll, SeqAt
  <2> HIDE DEF b, R
  <2>4. b \in Seq(R) /\ Len(b) = Len(cmds)
    BY <1>1, <2>1, SeqDef, LenProperties
  <2>5. queue \in Seq(Entry \cup R) /\ b \in Seq(Entry \cup R)
    BY <2>4, SeqMonotonic DEF PacketInv, PacketTypes
  <2> QED BY <2>3, <2>4, <2>5, ConcatProperties, LenProperties
<1>3. Len(cmds) < WORD
  BY <1>1, <1>2 DEF NumbersGoOn
<1>4. Numbered(cmds)
  BY <1>3, PlainNumbered DEF PacketInv, NumbersGoOn, SendAll
<1> QED BY <1>1, <1>4, WriteKeeps DEF NumbersGoOn

(* A step that writes nothing and takes nothing off the queue.              *)
LEMMA NothingWritten ==
  ASSUME PacketInv, UNCHANGED <<queue, seq_num, wire, sends, acked>>,
         now' \in Nat, children' = {}, received \subseteq received',
         received' \subseteq wire
  PROVE  Kept
<1>1. PacketTypes' /\ NumbersTaken' /\ QueuedWasSent'
  BY DEF PacketInv, PacketTypes, NumbersTaken, QueuedWasSent, UniqueSEQ, Distinct
<1>2. AckedOnce'
  BY DEF PacketInv, AckedOnce, AckedWasReceived
<1>3. ASSUME NEW s \in SEQs PROVE LedgerMove(s)
  BY DEF LedgerMove, FateOf, SendsOf
<1> QED BY <1>1, <1>2, <1>3 DEF Kept, PacketInv

\* Packets that leave the queue, or change their place in it.
LEMMA QueueChanges ==
  ASSUME PacketInv, queue' \in Seq(Entry), Distinct(queue'),
         UNCHANGED <<now, seq_num, wire, received>>, children' = {},
         DOMAIN sends' = DOMAIN sends,
         \A s \in DOMAIN sends : sends'[s] \in Nat,
         \A i \in DOMAIN queue' :
           /\ Packet(queue'[i].seq, queue'[i].cmd, "client") \in wire
           /\ queue'[i].seq \in DOMAIN sends
           /\ sends'[queue'[i].seq] = queue'[i].attempts,
         acked' \subseteq received,
         \A p \in acked' : p.seq \in DOMAIN sends /\ p.seq \notin QueuedSeqs(queue')
  PROVE  PacketInv'
<1>1. PacketTypes' /\ NumbersTaken'
  BY DEF PacketInv, PacketTypes, NumbersTaken, UniqueSEQ
<1>2. QueuedWasSent'
  BY DEF PacketInv, QueuedWasSent, BagIn, BagToSet
<1>3. AckedOnce'
  BY DEF PacketInv, AckedOnce, AckedWasReceived, BagIn, BagToSet
<1> QED BY <1>1, <1>2, <1>3 DEF PacketInv

\* What the invariant says of the queue, in one place.
LEMMA QueueFacts ==
  ASSUME PacketInv
  PROVE  /\ queue \in Seq(Entry) /\ Distinct(queue)
         /\ received \subseteq wire /\ acked \subseteq received
         /\ \A p, q \in wire : p.seq = q.seq => p = q
         /\ \A s \in DOMAIN sends : sends[s] \in Nat
         /\ \A i \in DOMAIN queue :
              /\ queue[i] \in Entry
              /\ Packet(queue[i].seq, queue[i].cmd, "client") \in wire
              /\ queue[i].seq \in DOMAIN sends /\ queue[i].seq \in QueuedSeqs(queue)
              /\ sends[queue[i].seq] = queue[i].attempts
         /\ \A p \in acked : p.seq \in DOMAIN sends /\ p.seq \notin QueuedSeqs(queue)
<1>1. queue \in Seq(Entry)
  BY DEF PacketInv, PacketTypes
<1>2. \A i \in DOMAIN queue : queue[i] \in Entry
  BY <1>1, EntryAt
<1> QED BY <1>1, <1>2 DEF PacketInv, NumbersTaken, UniqueSEQ, QueuedWasSent,
           AckedOnce, AckedWasReceived, BagIn, BagToSet, QueuedSeqs

(* Do_Resend sends the packet at the head once more.                        *)
LEMMA RetryKeeps == ASSUME PacketInv, Retry, children' = {} PROVE Kept
<1> DEFINE h == Head(queue)
           m == [h EXCEPT !.attempts = @ + 1, !.exp_time = now + RESEND_TIMEOUT]
           q == Tail(queue)
<1>1. /\ queue \in Seq(Entry) /\ Distinct(queue) /\ queue # <<>>
      /\ queue' = Append(q, m) /\ sends' = sends (+) SetToBag({h.seq})
      /\ UNCHANGED <<now, seq_num, wire, received, acked>>
      /\ now \in Nat /\ h.attempts + 1 <= MAX_ATTEMPTS
  BY QueueFacts DEF Retry, Requeue, AttemptsLeft, server, PacketInv, PacketTypes
<1>2. h = queue[1] /\ 1 \in DOMAIN queue /\ h \in Entry /\ q \in Seq(Entry)
  BY <1>1, PopFacts
<1>3. /\ Distinct(q) /\ QueuedSeqs(q) = QueuedSeqs(queue) \ {h.seq}
      /\ \A i \in DOMAIN q : \E j \in DOMAIN queue : q[i] = queue[j]
  BY <1>1, PopPackets
<1>4. m \in Entry /\ m.seq = h.seq /\ m.cmd = h.cmd /\ m.attempts = h.attempts + 1
  <2> HIDE DEF h
  <2>1. h.attempts \in 1 .. MAX_ATTEMPTS
    BY <1>2 DEF Entry
  <2>2. h.attempts + 1 \in 1 .. MAX_ATTEMPTS /\ now + RESEND_TIMEOUT \in Nat
    BY <1>1, <2>1, TimeoutAssumption, AttemptsAssumption
  <2>3. m \in Entry
    BY <1>2, <2>2 DEF Entry
  <2>4. m.seq = h.seq /\ m.cmd = h.cmd /\ m.attempts = h.attempts + 1
    BY <1>2 DEF Entry
  <2> QED BY <2>3, <2>4
<1>5. /\ h.seq \in DOMAIN sends /\ h.seq \in QueuedSeqs(queue)
      /\ sends[h.seq] = h.attempts
      /\ Packet(h.seq, h.cmd, "client") \in wire
  BY <1>2, QueueFacts
<1> HIDE DEF m, q, h
<1>6. /\ Append(q, m) \in Seq(Entry) /\ Distinct(Append(q, m))
      /\ QueuedSeqs(Append(q, m)) = QueuedSeqs(queue)
      /\ \A i \in DOMAIN Append(q, m) :
           Append(q, m)[i] = m \/ \E j \in DOMAIN q : Append(q, m)[i] = q[j]
  <2>1. m.seq \notin QueuedSeqs(q) /\ q \in Seq(Entry) /\ m \in Entry /\ Distinct(q)
    BY <1>2, <1>3, <1>4
  <2>2. /\ Distinct(Append(q, m))
        /\ QueuedSeqs(Append(q, m)) = QueuedSeqs(q) \cup {m.seq}
        /\ \A i \in DOMAIN Append(q, m) :
             Append(q, m)[i] = m \/ \E j \in DOMAIN q : Append(q, m)[i] = q[j]
    BY <2>1, PushPackets
  <2>3. Append(q, m) \in Seq(Entry)
    BY <2>1, PushFacts
  <2> QED BY <2>2, <2>3, <1>3, <1>4, <1>5
<1>7. /\ DOMAIN sends' = DOMAIN sends
      /\ \A s \in DOMAIN sends : sends'[s] = IF s = h.seq THEN sends[s] + 1 ELSE sends[s]
      /\ \A s \in DOMAIN sends : sends[s] \in Nat /\ sends'[s] \in Nat
  <2>1. h.seq \in DOMAIN sends /\ \A s \in DOMAIN sends : sends[s] \in Nat
    BY <1>5, QueueFacts
  <2> DEFINE s0 == h.seq
  <2> HIDE DEF s0
  <2>2. /\ DOMAIN (sends (+) SetToBag({s0})) = DOMAIN sends
        /\ \A t \in DOMAIN sends :
             (sends (+) SetToBag({s0}))[t] = IF t = s0 THEN sends[t] + 1 ELSE sends[t]
    <3>1. s0 \in DOMAIN sends
      BY <2>1 DEF s0
    <3> QED BY <2>1, <3>1, SendAgain
  <2>3. sends' = sends (+) SetToBag({s0})
    BY <1>1 DEF s0
  <2>4. /\ DOMAIN sends' = DOMAIN sends
        /\ \A s \in DOMAIN sends : sends'[s] = IF s = s0 THEN sends[s] + 1 ELSE sends[s]
    BY <2>2, <2>3, Zenon
  <2> QED BY <2>1, <2>4 DEF s0
<1>8. ASSUME NEW i \in DOMAIN queue'
      PROVE  /\ Packet(queue'[i].seq, queue'[i].cmd, "client") \in wire
             /\ queue'[i].seq \in DOMAIN sends
             /\ sends'[queue'[i].seq] = queue'[i].attempts
  <2>1. CASE queue'[i] = m
    BY <2>1, <1>4, <1>5, <1>7
  <2>2. CASE \E j \in DOMAIN q : queue'[i] = q[j]
    <3>1. PICK j \in DOMAIN q : queue'[i] = q[j]
      BY <2>2
    <3>2. q[j].seq # h.seq
      <4>1. q[j].seq \in QueuedSeqs(q)
        BY DEF QueuedSeqs
      <4> QED BY <4>1, <1>3
    <3>3. PICK k \in DOMAIN queue : q[j] = queue[k]
      BY <1>3
    <3> QED BY <3>1, <3>2, <3>3, <1>7, QueueFacts
  <2> QED BY <1>1, <1>6, <2>1, <2>2
<1>9. PacketInv'
  <2>1. queue' \in Seq(Entry) /\ Distinct(queue') /\ QueuedSeqs(queue') = QueuedSeqs(queue)
    BY <1>1, <1>6
  <2>2. acked' \subseteq received
        /\ \A p \in acked' : p.seq \in DOMAIN sends /\ p.seq \notin QueuedSeqs(queue')
    BY <1>1, <2>1, QueueFacts
  <2> QED BY <1>1, <1>7, <1>8, <2>1, <2>2, QueueChanges
<1>10. ASSUME NEW s \in SEQs PROVE LedgerMove(s)
  <2>1. QueuedSeqs(queue') = QueuedSeqs(queue) /\ acked' = acked
    BY <1>1, <1>6
  <2>2. CASE s = h.seq
    <3>1. h.attempts < MAX_ATTEMPTS
      BY <1>1, <1>2, AttemptsAssumption DEF Entry
    <3> QED BY <2>1, <2>2, <3>1, <1>5, <1>7
            DEF LedgerMove, FateOf, SendsOf, BagIn, BagToSet
  <2>3. CASE s # h.seq
    BY <2>1, <2>3, <1>7 DEF LedgerMove, FateOf, SendsOf, BagIn, BagToSet
  <2> QED BY <2>2, <2>3
<1> QED BY <1>9, <1>10 DEF Kept

(* One packet leaves the queue: acknowledged, or out of attempts.           *)
LEMMA OneLeaves ==
  ASSUME PacketInv, NEW k \in DOMAIN queue,
         queue' \in Seq(Entry), Distinct(queue'),
         QueuedSeqs(queue') = QueuedSeqs(queue) \ {queue[k].seq},
         \A i \in DOMAIN queue' : \E j \in DOMAIN queue : queue'[i] = queue[j],
         UNCHANGED <<now, seq_num, wire, sends, received>>, children' = {},
         NEW p, p = Packet(queue[k].seq, queue[k].cmd, "client"),
         \/ acked' = acked /\ queue[k].attempts = MAX_ATTEMPTS
         \/ acked' = acked \cup {p} /\ p \in received
  PROVE  Kept
<1>1. /\ queue[k].seq \in DOMAIN sends /\ queue[k].seq \in QueuedSeqs(queue)
      /\ sends[queue[k].seq] = queue[k].attempts /\ p.seq = queue[k].seq
  BY QueueFacts DEF Packet
<1> DEFINE s0 == queue[k].seq
<1>2. PacketInv'
  <2>1. \A i \in DOMAIN queue' :
           /\ Packet(queue'[i].seq, queue'[i].cmd, "client") \in wire
           /\ queue'[i].seq \in DOMAIN sends
           /\ sends'[queue'[i].seq] = queue'[i].attempts
    BY QueueFacts
  <2>2. acked' \subseteq received
        /\ \A r \in acked' : r.seq \in DOMAIN sends /\ r.seq \notin QueuedSeqs(queue')
    <3>1. \A r \in acked : r \in received /\ r.seq \in DOMAIN sends
                           /\ r.seq \notin QueuedSeqs(queue)
      BY QueueFacts
    <3> QED BY <1>1, <3>1
  <2>3. DOMAIN sends' = DOMAIN sends /\ \A s \in DOMAIN sends : sends'[s] \in Nat
    BY QueueFacts
  <2> QED BY <2>1, <2>2, <2>3, QueueChanges
<1>3. ASSUME NEW s \in SEQs PROVE LedgerMove(s)
  <2>1. CASE s # s0
    <3>1. s \in QueuedSeqs(queue') <=> s \in QueuedSeqs(queue)
      BY <2>1
    <3>2. (\E r \in acked' : r.seq = s) <=> (\E r \in acked : r.seq = s)
      BY <1>1, <2>1
    <3> QED BY <3>1, <3>2 DEF LedgerMove, FateOf, SendsOf
  <2>2. CASE s = s0 /\ acked' = acked /\ queue[k].attempts = MAX_ATTEMPTS
    <3>1. s \in DOMAIN sends /\ s \in QueuedSeqs(queue) /\ s \notin QueuedSeqs(queue')
          /\ sends[s] = MAX_ATTEMPTS /\ sends' = sends
      BY <1>1, <2>2
    <3>2. ~ \E r \in acked' : r.seq = s
      BY <1>1, <2>2, QueueFacts
    <3> QED BY <3>1, <3>2 DEF LedgerMove, FateOf, SendsOf, BagIn, BagToSet
  <2>3. CASE s = s0 /\ acked' = acked \cup {p}
    <3>1. s \in DOMAIN sends /\ s \in QueuedSeqs(queue) /\ s \notin QueuedSeqs(queue')
          /\ sends' = sends
      BY <1>1, <2>3
    <3>2. \E r \in acked' : r.seq = s
      BY <1>1, <2>3
    <3> QED BY <3>1, <3>2 DEF LedgerMove, FateOf, SendsOf, BagIn, BagToSet
  <2> QED BY <2>1, <2>2, <2>3
<1> QED BY <1>2, <1>3 DEF Kept

(* After the last attempt the head of the queue is dropped.                 *)
LEMMA DiscardKeeps == ASSUME PacketInv, Discard, children' = {} PROVE Kept
<1>1. /\ queue \in Seq(Entry) /\ Distinct(queue) /\ queue # <<>>
      /\ queue' = Tail(queue) /\ ~AttemptsLeft(Head(queue))
      /\ UNCHANGED <<now, seq_num, wire, sends, received, acked>>
  BY QueueFacts DEF Discard, link, server
<1>2. /\ Head(queue) = queue[1] /\ 1 \in DOMAIN queue /\ Tail(queue) \in Seq(Entry)
      /\ Head(queue) \in Entry
  BY <1>1, PopFacts
<1>3. /\ Distinct(queue') /\ QueuedSeqs(queue') = QueuedSeqs(queue) \ {queue[1].seq}
      /\ \A i \in DOMAIN queue' : \E j \in DOMAIN queue : queue'[i] = queue[j]
  BY <1>1, <1>2, PopPackets
<1>4. queue[1].attempts = MAX_ATTEMPTS
  <2>1. queue[1].attempts \in 1 .. MAX_ATTEMPTS
        /\ ~(queue[1].attempts + 1 <= MAX_ATTEMPTS)
    BY <1>1, <1>2 DEF AttemptsLeft, Entry
  <2> QED BY <2>1, AttemptsAssumption
<1> QED BY <1>1, <1>2, <1>3, <1>4, OneLeaves

(* An acknowledgement takes off the very packet the server received: no     *)
(* other has its SEQ.                                                       *)
LEMMA ReadAckKeeps == ASSUME PacketInv, ReadAck, children' = {} PROVE Kept
<1>1. PICK p \in received :
        /\ p.seq \in QueuedSeqs(queue) /\ queue' = Check_Queue(queue, p.seq)
        /\ acked' = acked \cup {Packet(queue[FirstMatch(queue, p.seq)].seq,
                                       queue[FirstMatch(queue, p.seq)].cmd, "client")}
  BY DEF ReadAck
<1>2. UNCHANGED <<now, seq_num, wire, sends, received>>
  BY DEF ReadAck, link, server
<1>3. queue \in Seq(Entry) /\ Distinct(queue)
  BY QueueFacts
<1>4. PICK k \in DOMAIN queue :
        /\ queue[k].seq = p.seq /\ FirstMatch(queue, p.seq) = k
        /\ Check_Queue(queue, p.seq) = TakeOut(queue, k)
  BY <1>1, <1>3, CheckQueueRemoves
<1>5. /\ queue' \in Seq(Entry) /\ Distinct(queue')
      /\ QueuedSeqs(queue') = QueuedSeqs(queue) \ {queue[k].seq}
      /\ \A i \in DOMAIN queue' : \E j \in DOMAIN queue : queue'[i] = queue[j]
  BY <1>1, <1>3, <1>4, RemovePackets, RemoveFacts
<1> DEFINE r == Packet(queue[k].seq, queue[k].cmd, "client")
<1>6. r \in received /\ acked' = acked \cup {r}
  <2>1. r \in wire /\ r.seq = p.seq /\ p \in wire
    BY <1>4, QueueFacts DEF Packet
  <2>2. r = p
    BY <2>1, QueueFacts
  <2> QED BY <1>1, <1>4, <2>2
<1> HIDE DEF r
<1>7. r = Packet(queue[k].seq, queue[k].cmd, "client")
  BY DEF r
<1> QED BY <1>2, <1>5, <1>6, <1>7, OneLeaves
-----------------------------------------------------------------------------
(* The packets that answer one from the server, whatever its parts.         *)
LEMMA AnswersPlain ==
  ASSUME NEW c PROVE Answers(c) \subseteq Seq(Plain)
<1>1. ContactWrites \in Seq(Plain)
  <2>1. ContactWrites \in Seq(STRING \ {"CMD_KEEP_ALIVE"})
    BY WritesAssumption
  <2>2. STRING \ {"CMD_KEEP_ALIVE"} \subseteq Plain
    BY DEF Plain, Commands
  <2> QED BY <2>1, <2>2, SeqMonotonic
<1>2. /\ "CMD_LOGIN_1" \in Plain /\ "CMD_ACK_MESSAGES" \in Plain
      /\ "CMD_INFO_REQ" \in Plain /\ "CMD_EXT_INFO_REQ" \in Plain
      /\ "CMD_SENDM" \in Plain
  BY DEF Plain, Commands
<1>3. snd_login_1 \o ContactWrites \in Seq(Plain)
  <2>1. snd_login_1 \in Seq(Plain)
    BY <1>2 DEF snd_login_1
  <2> QED BY <1>1, <2>1, ConcatProperties
<1>4. /\ <<"CMD_ACK_MESSAGES">> \in Seq(Plain) /\ <<>> \in Seq(Plain)
      /\ <<"CMD_INFO_REQ", "CMD_EXT_INFO_REQ">> \in Seq(Plain)
      /\ <<"CMD_SENDM">> \in Seq(Plain)
  BY <1>2
<1> QED BY <1>3, <1>4 DEF Answers

(* A packet from the server: the acks take entries out of the queue, and the*)
(* handlers write what they answer.                                         *)
LEMMA ReadPacketKeeps ==
  ASSUME PacketInv, DeliveryInv, NumbersGoOn,
         NEW e \in DOMAIN srv, ReadPacket(e)
  PROVE  Kept
<1> DEFINE parts == srv[e]
<1>1. parts \in Seq(STRING)
  <2>1. parts \in SrvPackets
    BY LenProperties, ElementOfSeq DEF DeliveryInv, DeliveryTypes
  <2> QED BY <2>1, PartsAssumption
<1> HIDE DEF parts
<1>2. PICK a \in [DOMAIN parts -> UNION {Answers(parts[i]) : i \in DOMAIN parts}] :
        /\ \A i \in DOMAIN parts : a[i] \in Answers(parts[i])
        /\ Send(FlattenSeq(a))
  BY DEF ReadPacket, Server_Response, parts
<1>3. FlattenSeq(a) \in Seq(Plain)
  <2>1. Len(parts) \in Nat /\ DOMAIN parts = 1 .. Len(parts)
    BY <1>1, LenProperties
  <2>2. a \in [1 .. Len(parts) -> Seq(Plain)]
    BY <1>2, <2>1, AnswersPlain
  <2>3. a \in Seq(Seq(Plain))
    BY <2>1, <2>2, SeqDef
  <2> QED BY <2>3, Flattened
<1>4. /\ SendAll(FlattenSeq(a), now) /\ now \in Nat
      /\ UNCHANGED <<now, received, acked>>
  BY <1>2 DEF Send, SendAt, ReadPacket, server, PacketInv, PacketTypes
<1> QED BY <1>3, <1>4, PlainWrites

(* The two keep alives, when they are due.                                  *)
LEMMA KeepAliveKeeps ==
  ASSUME PacketInv, NumbersGoOn, Keep_Alive PROVE Kept
<1>1. now \in Nat /\ UNCHANGED <<now, received, acked>>
  BY DEF Keep_Alive, server, PacketInv, PacketTypes
<1>2. CASE SendAll(<<>>, now)
  <2>1. <<>> \in Seq(Plain)
    OBVIOUS
  <2> QED BY <1>1, <1>2, <2>1, PlainWrites
<1>3. CASE SendAll(<<"CMD_KEEP_ALIVE", "CMD_KEEP_ALIVE2">>, now)
  <2> DEFINE cmds == <<"CMD_KEEP_ALIVE", "CMD_KEEP_ALIVE2">>
  <2>1. cmds \in Seq(Commands)
    <3>1. "CMD_KEEP_ALIVE" \in Commands /\ "CMD_KEEP_ALIVE2" \in Commands
      BY DEF Commands
    <3> QED BY <3>1
  <2>2. cmds = <<"CMD_KEEP_ALIVE", "CMD_KEEP_ALIVE2">> /\ SendAll(cmds, now)
    BY <1>3
  <2> HIDE DEF cmds
  <2>3. Numbered(cmds)
    BY <2>2, KeepAliveNumbered DEF PacketInv, NumbersGoOn, SendAll
  <2> QED BY <1>1, <2>1, <2>2, <2>3, WriteKeeps DEF NumbersGoOn
<1> QED BY <1>2, <1>3 DEF Keep_Alive, Send, SendAt

(* Every step that goes on counting keeps the invariant and moves every     *)
(* packet by at most one step of the ledger.                                *)
LEMMA StepKeeps ==
  ASSUME PacketInv, DeliveryInv, NumbersGoOn, Next PROVE Kept
<1>0. now \in Nat /\ children' = {} /\ children = {} /\ received \subseteq wire
  BY DEF NumbersGoOn, PacketInv, PacketTypes, AckedOnce
<1>1. CASE Login
  <2>1. LoginWrites \in Seq(Plain)
    <3>1. "CMD_LOGIN" \in Plain
      BY DEF Plain, Commands
    <3> QED BY <3>1 DEF LoginWrites
  <2>2. SendAll(LoginWrites, now) /\ UNCHANGED <<now, received, acked>>
    BY <1>1 DEF Login, server
  <2> QED BY <1>0, <2>1, <2>2, PlainWrites
<1>2. CASE Idle_Check
  <2>1. now' \in Nat /\ UNCHANGED <<received, acked>>
    BY <1>0, <1>2, TimesAssumption DEF Idle_Check, server
  <2>2. PICK cmds \in IdleWrites \cup {<<>>} : SendAll(cmds, now')
    BY <1>2 DEF Idle_Check, SendAt
  <2>3. cmds \in Seq(Plain)
    <3>1. CASE cmds \in IdleWrites
      <4>1. cmds \in Seq(STRING \ {"CMD_KEEP_ALIVE"})
        BY <3>1, WritesAssumption
      <4>2. STRING \ {"CMD_KEEP_ALIVE"} \subseteq Plain
        BY DEF Plain, Commands
      <4> QED BY <4>1, <4>2, SeqMonotonic
    <3>2. CASE cmds = <<>>
      BY <3>2
    <3> QED BY <3>1, <3>2
  <2> QED BY <2>1, <2>2, <2>3, PlainWrites
<1>3. CASE Quit_ICQ
  <2>1. <<"CMD_SEND_TEXT_CODE">> \in Seq(Plain)
    <3>1. "CMD_SEND_TEXT_CODE" \in Plain
      BY DEF Plain, Commands
    <3> QED BY <3>1
  <2>2. SendAll(<<"CMD_SEND_TEXT_CODE">>, now) /\ UNCHANGED <<now, received, acked>>
    BY <1>3 DEF Quit_ICQ, Send, SendAt, server
  <2> QED BY <1>0, <2>1, <2>2, PlainWrites
<1>4. CASE NothingRead
  BY <1>0, <1>4, NothingWritten DEF NothingRead, link, server
<1>5. CASE Handle_Server_Response
  <2>1. CASE ReadAck
    BY <1>0, <2>1, ReadAckKeeps
  <2>2. ASSUME NEW e \in DOMAIN srv, ReadRepeated(e) PROVE Kept
    BY <1>0, <2>2, NothingWritten DEF ReadRepeated, link, server
  <2>3. ASSUME NEW e \in DOMAIN srv, ReadPacket(e) PROVE Kept
    BY <2>3, ReadPacketKeeps
  <2> QED BY <1>5, <2>1, <2>2, <2>3 DEF Handle_Server_Response
<1>6. CASE Get_Input
  <2>1. UNCHANGED <<now, received, acked>>
    BY <1>6 DEF Get_Input, server
  <2>2. PICK cmds \in InputWrites \cup {<<>>} : SendAll(cmds, now)
    BY <1>6 DEF Get_Input, Send, SendAt
  <2>3. cmds \in Seq(Plain)
    <3>1. CASE cmds \in InputWrites
      <4>1. cmds \in Seq(STRING \ {"CMD_KEEP_ALIVE"})
        BY <3>1, WritesAssumption
      <4>2. STRING \ {"CMD_KEEP_ALIVE"} \subseteq Plain
        BY DEF Plain, Commands
      <4> QED BY <4>1, <4>2, SeqMonotonic
    <3>2. CASE cmds = <<>>
      BY <3>2
    <3> QED BY <3>1, <3>2
  <2> QED BY <1>0, <2>1, <2>2, <2>3, PlainWrites
<1>7. CASE Keep_Alive
  BY <1>7, KeepAliveKeeps
<1>8. CASE Do_Resend
  <2>1. CASE NothingToResend
    BY <1>0, <2>1, NothingWritten DEF NothingToResend, link, server
  <2> QED BY <1>0, <1>8, <2>1, RetryKeeps, DiscardKeeps DEF Do_Resend
<1>9. ~ChildLogin
  BY <1>0 DEF ChildLogin
<1>10. CASE ServerReceives \/ ServerSends \/ ServerDies
  BY <1>0, <1>10, NothingWritten
     DEF ServerReceives, ServerSends, ServerDies, link, server
<1> QED BY <1>1, <1>2, <1>3, <1>4, <1>5, <1>6, <1>7, <1>8, <1>9, <1>10
        DEF Next, Client

(* At the start no number is taken and nothing is queued.                   *)
LEMMA InitPackets == ASSUME Init PROVE PacketInv
<1>1. /\ queue = <<>> /\ seq_num = 1 /\ children = {} /\ now = StartTime
      /\ wire = {} /\ received = {} /\ acked = {} /\ sends = EmptyBag
  BY DEF Init
<1>2. PacketTypes
  BY <1>1, WordAssumption, TimesAssumption DEF PacketTypes
<1>3. NumbersTaken
  BY <1>1 DEF NumbersTaken, UniqueSEQ
<1>4. DOMAIN sends = {}
  BY <1>1 DEF EmptyBag, SetToBag
<1>5. QueuedWasSent /\ AckedOnce
  BY <1>1, <1>4 DEF QueuedWasSent, AckedOnce, AckedWasReceived, Distinct
<1> QED BY <1>2, <1>3, <1>5 DEF PacketInv

(* Numbers, queue and acknowledgements stay in step, until seq_num wraps or *)
(* a child is forked.                                                       *)
THEOREM PacketInvariance == Spec /\ [][NumbersGoOn]_vars => []PacketInv
<1>1. ASSUME PacketInv, DeliveryInv, [Next]_vars, [NumbersGoOn]_vars
      PROVE  PacketInv'
  <2>1. CASE UNCHANGED vars
    <3>1. /\ UNCHANGED <<queue, seq_num, wire, sends, acked, now, children, received>>
      BY <2>1 DEF vars, link, server
    <3> QED BY <3>1, <1>1 DEF PacketInv, PacketTypes, NumbersTaken, QueuedWasSent,
               AckedOnce, UniqueSEQ, Distinct, AckedWasReceived, QueuedSeqs
  <2>2. CASE ~UNCHANGED vars
    BY <1>1, <2>2, StepKeeps DEF Kept
  <2> QED BY <2>1, <2>2
<1> QED BY InitPackets, DeliveryInvariance, <1>1, PTL DEF Spec

(* icq091.txt:231 says packets have unique sequence numbers: the client's   *)
(* doublewords are unique, the two keep alives that share a number included.*)
THEOREM NumbersUnique == Spec /\ [][NumbersGoOn]_vars => []UniqueSEQ
<1>1. PacketInv => UniqueSEQ
  BY DEF PacketInv, NumbersTaken
<1> QED BY PacketInvariance, <1>1, PTL

(* No packet is taken for acknowledged because another one was.             *)
THEOREM AcksAreTrue == Spec /\ [][NumbersGoOn]_vars => []AckedWasReceived
<1>1. PacketInv => AckedWasReceived
  BY DEF PacketInv, AckedOnce
<1> QED BY PacketInvariance, <1>1, PTL

(* The whole client implements the ledger: every packet a handler, a timer  *)
(* or the operator writes is sent once, resent while it is pending, and     *)
(* ends acknowledged, or given up after MAX_ATTEMPTS transmissions.         *)
THEOREM ClientImplementsLedger == Spec /\ [][NumbersGoOn]_vars => ImplementsLedger
<1>1. ASSUME Init PROVE Ledger!Init
  <2>1. DOMAIN sends = {}
    BY <1>1 DEF Init, EmptyBag, SetToBag
  <2>2. \A s : FateOf(s) = "unsent" /\ SendsOf(s) = 0
    BY <2>1 DEF FateOf, SendsOf, BagIn, BagToSet
  <2> QED BY <2>2 DEF Ledger!Init
<1>2. ASSUME PacketInv, DeliveryInv, [Next]_vars, [NumbersGoOn]_vars
      PROVE  [Ledger!Next]_(Ledger!vars)
  <2>1. CASE UNCHANGED vars
    <3>1. UNCHANGED <<queue, sends, acked>>
      BY <2>1 DEF vars, link
    <3>2. \A s \in SEQs : FateOf(s)' = FateOf(s) /\ SendsOf(s)' = SendsOf(s)
      BY <3>1 DEF FateOf, SendsOf
    <3> QED BY <3>2 DEF Ledger!vars
  <2>2. CASE ~UNCHANGED vars
    <3>1. \A s \in SEQs : LedgerMove(s)
      BY <1>2, <2>2, StepKeeps DEF Kept
    <3>2. ASSUME NEW s \in SEQs, LedgerMove(s)
          PROVE  \/ Ledger!Submit(s) \/ Ledger!Retransmit(s) \/ Ledger!Confirm(s)
                 \/ Ledger!GiveUp(s) \/ Ledger!Rest(s)
      BY <3>2 DEF LedgerMove, Ledger!Submit, Ledger!Retransmit, Ledger!Confirm,
         Ledger!GiveUp, Ledger!Rest
    <3>3. Ledger!Next
      BY <3>1, <3>2 DEF Ledger!Next
    <3> QED BY <3>3
  <2> QED BY <2>1, <2>2
<1>3. Spec /\ [][NumbersGoOn]_vars => Ledger!Spec
  BY PacketInvariance, DeliveryInvariance, <1>1, <1>2, PTL DEF Spec, Ledger!Spec
<1> QED BY <1>3 DEF ImplementsLedger
=============================================================================
