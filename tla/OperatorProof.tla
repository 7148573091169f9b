--------------------------- MODULE OperatorProof ---------------------------
(***************************************************************************)
(* Proofs about Operator, for every contact list, every set of lines and   *)
(* names and every limit: a dialogue sends what was typed into it to whom  *)
(* it was begun for, the user's status is the one the server was told, an  *)
(* automatic absence ends with the first turn after a key, and the contact *)
(* list shows what the server said last.                                   *)
(***************************************************************************)
EXTENDS Operator, SequenceTheorems, FiniteSetTheorems, WellFoundedInduction, TLAPS

-----------------------------------------------------------------------------
(* The status.  While an automatic status lasts it is one that Idle_Check   *)
(* sets, and idle_flag is up.  Not the other way round: the flag outlives   *)
(* an automatic status that the operator or the login replaced.             *)
AutoInv == automatic => idle_flag /\ Current_Status \in {"AWAY", "NA"}

(* Who writes none of the variables of the user's own status: the packets  *)
(* but the answer to the login, and the keyboard but a change of status.   *)
LEMMA PacketsLeaveStatus ==
  ServerPacket => LoginReply \/ UNCHANGED <<own, timer>>
  <1>1. ContactListDone => UNCHANGED <<own, timer>>
    BY DEF ContactListDone
  <1>2. ASSUME NEW u \in Uins, SaysOffline(u) \/ Recv_Message(u)
        PROVE  UNCHANGED <<own, timer>>
    BY <1>2 DEF SaysOffline, Says, Recv_Message
  <1>3. ASSUME NEW u \in Uins, NEW s \in Others,
               SaysOnline(u, s) \/ SaysUpdate(u, s)
        PROVE  UNCHANGED <<own, timer>>
    BY <1>3 DEF SaysOnline, SaysUpdate, Says
  <1>4. ASSUME NEW u \in Uins, NEW k \in Kinds,
               AutoReply(u, k) \/ BotReply(u, k) \/ NoReply(u, k)
        PROVE  UNCHANGED <<own, timer>>
    BY <1>4 DEF AutoReply, BotReply, NoReply
  <1> QED
    BY <1>1, <1>2, <1>3, <1>4 DEF ServerPacket, SRV_SYS_DELIVERED_MESS

(* ... and the keyboard but a change of status.                             *)
LEMMA KeyboardLeavesStatus ==
  Get_Input => ChangeStatus \/ UNCHANGED <<own, timer>>
  <1>1. Message_Function \/ Reply_Function \/ Again_Function \/ ToAll
          => UNCHANGED <<own, timer>>
    BY DEF Message_Function, Reply_Function, Again_Function, ToAll, Elsewhere
  <1>2. AboutOne \/ OneCommand => UNCHANGED <<own, timer>>
    BY DEF AboutOne, OneCommand, Elsewhere
  <1>3. SwitchBot \/ Auto_Function \/ Add_User => UNCHANGED <<own, timer>>
    BY DEF SwitchBot, Auto_Function, Add_User
  <1>4. Update \/ Search => UNCHANGED <<own, timer>>
    BY DEF Update, Search, Ask, Elsewhere
  <1>5. Do_Multiline \/ Do_Multiline_All => UNCHANGED <<own, timer>>
    BY DEF Do_Multiline, Do_Multiline_All, Elsewhere
  <1>6. Info_Update \/ Update_User_Info \/ User_Search => UNCHANGED <<own, timer>>
    BY DEF Info_Update, Update_User_Info, User_Search, Elsewhere
  <1> QED
    BY <1>1, <1>2, <1>3, <1>4, <1>5, <1>6 DEF Get_Input

(* Every step keeps the status told the one in force.                       *)
LEMMA StatusStep ==
  ASSUME StatusAgreed, AutoInv, [Next]_vars
  PROVE  StatusAgreed' /\ AutoInv'
  <1> USE DEF StatusAgreed, AutoInv
  <1>1. CASE Idle_Check
    BY <1>1 DEF Idle_Check, Back, StillAway, GoAway, icq_change_status,
       FlagStillAway
  <1>2. CASE LoginReply
    BY <1>2 DEF LoginReply, StatusAtLogin, timer
  <1>3. CASE ChangeStatus
    BY <1>3 DEF ChangeStatus, icq_change_status, timer
  <1>4. CASE UNCHANGED <<own, timer>>
    BY <1>4 DEF own, timer
  <1>5. NothingIdle \/ NothingRead \/ Key \/ NoKey \/ Quit \/ UNCHANGED vars
          => UNCHANGED <<own, timer>>
    BY DEF NothingIdle, NothingRead, Key, NoKey, Quit, vars
  <1> QED
    BY <1>1, <1>2, <1>3, <1>4, <1>5, PacketsLeaveStatus, KeyboardLeavesStatus
       DEF Next, Background

(* Nobody was told anything, and the flag is down.                          *)
LEMMA StatusInit == OperatorInit => StatusAgreed /\ AutoInv
  BY DEF OperatorInit, Init, StatusAgreed, AutoInv

(* Once the login is answered, and unless the status was changed before    *)
(* that, the status shown is the one the server was told.                  *)
THEOREM StatusIsTold == Spec => []StatusAgreed
  <1>1. StatusAgreed /\ AutoInv /\ [Next]_vars => (StatusAgreed /\ AutoInv)'
    BY StatusStep
  <1> QED
    BY <1>1, StatusInit, PTL DEF Spec

(* Idle_Check runs at the beginning of a turn, where the keyboard and the   *)
(* network do not, and finds the flag up.                                   *)
LEMMA BackStep ==
  ASSUME AutoInv, [Next]_vars, pc = "loop", automatic, ~BotMode, idle = 0
  PROVE  \/ UNCHANGED vars
         \/ /\ Current_Status' = STATUS_ONLINE /\ told' = STATUS_ONLINE
            /\ ~automatic'
  <1>1. idle_flag /\ Current_Status \in {"AWAY", "NA"}
    BY DEF AutoInv
  <1>2. CASE Idle_Check
    <2>1. ~StillAway /\ ~GoAway
      BY DEF StillAway, GoAway
    <2> QED
      BY <1>2, <2>1 DEF Idle_Check, Back, icq_change_status
  <1>3. ~NothingIdle
    BY <1>1 DEF NothingIdle
  <1>4. ~NothingRead /\ ~ServerPacket
    BY DEF NothingRead, ServerPacket, LoginReply, ContactListDone, SaysOffline,
       SaysOnline, SaysUpdate, Says, Recv_Message, SRV_SYS_DELIVERED_MESS,
       AutoReply, BotReply, NoReply, Reads, Waits
  <1>5. ~Get_Input
    BY DEF Get_Input, Message_Function, Reply_Function, Again_Function, ToAll,
       AboutOne, OneCommand, ChangeStatus, SwitchBot, Auto_Function, Add_User,
       Update, Search, Do_Multiline, Do_Multiline_All, Info_Update,
       Update_User_Info, User_Search, Command, Enter
  <1>6. ~Key /\ ~NoKey /\ ~Quit
    BY DEF Key, NoKey, Quit
  <1> QED
    BY <1>2, <1>3, <1>4, <1>5, <1>6 DEF Next, Background

(* Whoever Idle_Check made AWAY or NA is ONLINE again, for the client and   *)
(* the server, with the first turn after a key, whatever came in between.   *)
THEOREM ReturnIsShown == Spec => BackIsShown
  <1>1. StatusAgreed /\ AutoInv /\ [Next]_vars => (StatusAgreed /\ AutoInv)'
    BY StatusStep
  <1>2. StatusAgreed /\ AutoInv /\ [Next]_vars =>
          [pc = "loop" /\ automatic /\ ~BotMode /\ idle = 0
             => /\ Current_Status' = STATUS_ONLINE /\ told' = STATUS_ONLINE
                /\ ~automatic']_vars
    BY BackStep
  <1> QED
    BY <1>1, <1>2, StatusInit, PTL DEF Spec, BackIsShown

-----------------------------------------------------------------------------
(* The contact list.  Everybody in it was made known to the server, and the *)
(* first entry of a uin has the status that the server gave last.           *)
Nicks == {c.nick : c \in Range(FirstContacts)} \cup {NewNick}
Statuses == Others \cup {STATUS_OFFLINE}
Entries == [uin : Int, nick : Nicks, vis_list : BOOLEAN, invis_list : BOOLEAN,
            status : Statuses]

(* The types of the contacts and of what the server said of them.           *)
ContactsTyped == Contacts \in Seq(Entries) /\ said \in [Uins -> Statuses]

(* The server speaks of contacts only, and knows them all from the login on.*)
ListedAreContacts ==
  \A u \in listed : \E i \in DOMAIN Contacts : Contacts[i].uin = u
ContactsAreListed ==
  logged => \A i \in People(Contacts) : Contacts[i].uin \in listed

(* What UIN2Contact returns, for any list.                                  *)
Found(contacts, u) ==
  LET i == {k \in DOMAIN contacts : contacts[k].uin = u}
  IN  IF i = {} THEN 0 ELSE Min(i)

(* The status of that entry; who is not in the list is offline.             *)
StatusOf(contacts, u) ==
  IF Found(contacts, u) = 0 THEN STATUS_OFFLINE
  ELSE contacts[Found(contacts, u)].status
SaidIsShown == \A u \in Uins : said[u] = StatusOf(Contacts, u)

PresenceInv ==
  /\ ContactsTyped
  /\ ListedAreContacts /\ ContactsAreListed /\ SaidIsShown

(* The least of a set of places.                                            *)
LEMMA LeastPlace ==
  ASSUME NEW T \in SUBSET Nat, T # {}
  PROVE  Min(T) \in T /\ \A m \in T : Min(T) <= m
  <1> DEFINE R == OpToRel(<, Nat)
  <1>1. IsWellFoundedOn(R, Nat)
    BY NatLessThanWellFounded
  <1>2. \A x, y \in Nat : <<x, y>> \in R <=> x < y
    BY DEF OpToRel
  <1> HIDE DEF R
  <1>3. PICK x \in T : \A y \in T : ~(<<y, x>> \in R)
    BY <1>1, WFMin
  <1>4. x \in Nat /\ \A y \in T : y \in Nat /\ ~(y < x)
    BY <1>2, <1>3
  <1>5. \A y \in T : x <= y
    BY <1>4
  <1> QED
    BY <1>5 DEF Min

(* UIN2Contact finds the first entry of a uin, and 0 when there is none.    *)
LEMMA FoundFirst ==
  ASSUME NEW C \in Seq(Entries), NEW u
  PROVE  \/ Found(C, u) = 0 /\ \A i \in DOMAIN C : C[i].uin # u
         \/ /\ Found(C, u) \in DOMAIN C /\ Found(C, u) # 0
            /\ C[Found(C, u)].uin = u
            /\ \A i \in DOMAIN C : C[i].uin = u => Found(C, u) <= i
  <1> DEFINE T == {k \in DOMAIN C : C[k].uin = u}
  <1>1. DOMAIN C = 1 .. Len(C) /\ Len(C) \in Nat
    OBVIOUS
  <1>2. T \in SUBSET Nat /\ T \subseteq DOMAIN C /\ 0 \notin T
    BY <1>1
  <1>3. CASE T = {}
    BY <1>3 DEF Found
  <1>4. CASE T # {}
    <2>1. Min(T) \in T /\ \A m \in T : Min(T) <= m
      BY <1>2, <1>4, LeastPlace
    <2>2. Found(C, u) = Min(T)
      BY <1>4 DEF Found
    <2> QED
      BY <1>2, <2>1, <2>2
  <1> QED
    BY <1>3, <1>4

(* The people of a list are counted.                                        *)
LEMMA PeopleCounted ==
  ASSUME NEW C \in Seq(Entries)
  PROVE  /\ IsFiniteSet(People(C)) /\ Cardinality(People(C)) \in Nat
         /\ \A i \in People(C) :
              Rank(C, i) \in 1 .. Cardinality(People(C))
  <1>1. DOMAIN C = 1 .. Len(C) /\ Len(C) \in Nat
    OBVIOUS
  <1>2. IsFiniteSet(1 .. Len(C))
    BY <1>1, FS_Interval
  <1>3. People(C) \subseteq 1 .. Len(C)
    BY <1>1 DEF People
  <1>4. IsFiniteSet(People(C)) /\ Cardinality(People(C)) \in Nat
    BY <1>2, <1>3, FS_Subset, FS_CardinalityType
  <1>5. ASSUME NEW i \in People(C)
        PROVE  Rank(C, i) \in 1 .. Cardinality(People(C))
    <2> DEFINE B == {j \in People(C) : j <= i}
    <2>1. B \subseteq People(C) /\ i \in B
      BY <1>1, <1>3
    <2>2. /\ IsFiniteSet(B) /\ Cardinality(B) \in Nat
          /\ Cardinality(B) <= Cardinality(People(C))
      BY <1>4, <2>1, FS_Subset, FS_CardinalityType
    <2>3. Cardinality(B) # 0
      BY <2>1, <2>2, FS_EmptySet
    <2>4. Rank(C, i) = Cardinality(B)
      BY DEF Rank
    <2> HIDE DEF B
    <2> QED
      BY <1>4, <2>2, <2>3, <2>4
  <1> QED
    BY <1>4, <1>5

-----------------------------------------------------------------------------
(* A sequence of packets that the login wrote.                              *)
LoginWrote(packets) ==
  /\ packets \in Seq(Range(packets))
  /\ \A m \in Range(packets) : m.by = "login"

(* A function on 1 .. n is a sequence of its values.                        *)
LEMMA FunctionIsSequence ==
  ASSUME NEW n \in Nat, NEW f, f = [k \in 1 .. n |-> f[k]]
  PROVE  f \in Seq(Range(f))
  <1>1. \A k \in 1 .. n : f[k] \in Range(f)
    BY DEF Range
  <1> QED
    BY <1>1

(* What follows one packet or many.                                         *)
LEMMA Joined ==
  ASSUME NEW a, NEW b, LoginWrote(a), LoginWrote(b)
  PROVE  LoginWrote(a \o b) /\ Listed(a \o b) = Listed(a) \cup Listed(b)
  <1> DEFINE All == Range(a) \cup Range(b)
  <1>1. a \in Seq(All) /\ b \in Seq(All)
    BY DEF LoginWrote
  <1> DEFINE both == a \o b
  <1>2. both \in Seq(All)
    BY <1>1
  <1>3. \A m \in All : m.by = "login"
    BY DEF LoginWrote
  <1>4. /\ DOMAIN a = 1 .. Len(a) /\ DOMAIN b = 1 .. Len(b)
        /\ Len(a) \in Nat /\ Len(b) \in Nat /\ Len(both) = Len(a) + Len(b)
        /\ \A i \in 1 .. Len(a) : both[i] = a[i]
        /\ \A i \in 1 .. Len(b) : both[i + Len(a)] = b[i]
    BY <1>1
  <1> HIDE DEF both
  <1>5. both = [k \in 1 .. Len(both) |-> both[k]] /\ Len(both) \in Nat
        /\ DOMAIN both = 1 .. Len(both)
    BY <1>2
  <1>6. both \in Seq(Range(both))
    BY <1>5, FunctionIsSequence
  <1>7. Range(both) = All
    <2>1. \A m \in Range(both) : m \in All
      <3> HIDE DEF All
      <3> QED BY <1>2 DEF Range
    <2>2. ASSUME NEW m \in Range(a) PROVE m \in Range(both)
      <3>1. PICK i \in 1 .. Len(a) : m = a[i]
        BY <1>4 DEF Range
      <3> QED
        BY <1>4, <1>5, <3>1 DEF Range
    <2>3. ASSUME NEW m \in Range(b) PROVE m \in Range(both)
      <3>1. PICK i \in 1 .. Len(b) : m = b[i]
        BY <1>4 DEF Range
      <3>2. i + Len(a) \in DOMAIN both /\ both[i + Len(a)] = m
        BY <1>4, <1>5, <3>1
      <3> QED
        BY <3>2 DEF Range
    <2> QED
      BY <2>1, <2>2, <2>3
  <1>8. Listed(both) = Listed(a) \cup Listed(b)
    BY <1>7 DEF Listed
  <1>9. \A m \in Range(both) : m.by = "login"
    BY <1>3, <1>7
  <1> QED
    BY <1>6, <1>8, <1>9 DEF LoginWrote, both

(* A packet that is none of the contact list.                               *)
LEMMA OneWrote ==
  ASSUME NEW m, m.by = "login", m.cmd # "CMD_CONT_LIST"
  PROVE  LoginWrote(<<m>>) /\ Listed(<<m>>) = {}
  <1>1. Range(<<m>>) = {m}
    BY DEF Range
  <1> QED
    BY <1>1 DEF LoginWrote, Listed

(* The two other lists, which may be empty.                                 *)
LEMMA OneListWrote ==
  ASSUME NEW cmd, NEW uins, cmd # "CMD_CONT_LIST"
  PROVE  LoginWrote(OneList(cmd, uins)) /\ Listed(OneList(cmd, uins)) = {}
  <1> DEFINE m == Out(cmd, "login", 0, uins)
  <1>1. m.by = "login" /\ m.cmd # "CMD_CONT_LIST"
    BY DEF Out
  <1> HIDE DEF m
  <1>2. LoginWrote(<<>>) /\ Listed(<<>>) = {}
    BY DEF LoginWrote, Range, Listed
  <1>3. LoginWrote(<<m>>) /\ Listed(<<m>>) = {}
    BY <1>1, OneWrote
  <1> QED
    BY <1>2, <1>3 DEF OneList, m

(* The number of the packet that takes a place, when m go in each.          *)
LEMMA PacketOf ==
  ASSUME NEW size \in Nat, NEW r \in 1 .. size, NEW m \in Nat \ {0}
  PROVE  \E k \in 1 .. (size + m - 1) \div m : r \in (k - 1) * m + 1 .. k * m
  <1> DEFINE q == (r - 1) \div m
             n == (size + m - 1) \div m
  <1>1. q \in Nat /\ m * q <= r - 1 /\ r - 1 < m * q + m
    OBVIOUS
  <1>2. n \in Nat /\ size + m - 1 < m * n + m
    OBVIOUS
  <1> HIDE DEF q, n
  <1>3. m * q < m * n
    BY <1>1, <1>2
  <1>4. q < n
    BY <1>1, <1>2, <1>3
  <1>5. PICK k \in 1 .. n : k = q + 1
    BY <1>1, <1>2, <1>4
  <1> DEFINE p == m * q
  <1>6. (k - 1) * m = p /\ k * m = p + m /\ p \in Int
    BY <1>1, <1>5
  <1>7. p <= r - 1 /\ r - 1 < p + m
    BY <1>1
  <1> HIDE DEF p
  <1>8. r \in (k - 1) * m + 1 .. k * m
    <2> DEFINE x == (k - 1) * m
               y == k * m
    <2>1. x = p /\ y = p + m
      BY <1>6
    <2> HIDE DEF x, y
    <2>2. r \in x + 1 .. y
      BY <1>6, <1>7, <2>1
    <2> QED
      BY <2>2 DEF x, y
  <1> QED
    BY <1>8, Zenon DEF n

(* The packets of snd_contact_list together hold every contact, and nobody  *)
(* else.                                                                    *)
LEMMA ContactListWrote ==
  ASSUME NEW C \in Seq(Entries)
  PROVE  /\ LoginWrote(snd_contact_list(C))
         /\ Listed(snd_contact_list(C)) = UinsOf(C, People(C))
  <1> DEFINE list == snd_contact_list(C)
             size == Cardinality(People(C))
             packets == (size + MAX_CONTS_PACKET - 1) \div MAX_CONTS_PACKET
             Takes(k, i) == Rank(C, i) \in (k - 1) * MAX_CONTS_PACKET + 1
                                             .. k * MAX_CONTS_PACKET
             uins(k) == UinsOf(C, {i \in People(C) : Takes(k, i)})
  <1>1. size \in Nat /\ \A i \in People(C) : Rank(C, i) \in 1 .. size
    BY PeopleCounted
  <1>2. list = [k \in 1 .. packets |-> Out("CMD_CONT_LIST", "login", 0, uins(k))]
    BY DEF snd_contact_list
  <1>3. ASSUME NEW i \in People(C) PROVE \E k \in 1 .. packets : Takes(k, i)
    <2> HIDE DEF size
    <2> QED BY <1>1, PacketOf, PacketAssumption
  <1> HIDE DEF size
  <1>4. packets \in Nat
    BY <1>1, PacketAssumption
  <1>5. \A k : uins(k) = {C[i].uin : i \in {j \in People(C) : Takes(k, j)}}
    BY DEF UinsOf
  <1> HIDE DEF list, packets, uins, Takes
  <1>6. list = [k \in 1 .. packets |-> list[k]]
    BY <1>2
  <1>7. \A k \in 1 .. packets :
          /\ list[k].by = "login" /\ list[k].cmd = "CMD_CONT_LIST"
          /\ list[k].text = uins(k)
    BY <1>2 DEF Out
  <1>8. list \in Seq(Range(list))
    BY <1>4, <1>6, FunctionIsSequence
  <1>9. Range(list) = {list[k] : k \in 1 .. packets}
    BY <1>2 DEF Range
  <1>10. Listed(list) = UNION {uins(k) : k \in 1 .. packets}
    BY <1>7, <1>9 DEF Listed
  <1>11. Listed(list) = UinsOf(C, People(C))
    BY <1>3, <1>5, <1>10 DEF UinsOf
  <1>12. \A m \in Range(list) : m.by = "login"
    BY <1>7, <1>9
  <1> QED
    BY <1>8, <1>11, <1>12 DEF LoginWrote, list

(* The login tells the server all contacts.                                 *)
LEMMA LoginLists ==
  ASSUME ContactsTyped, LoginReply
  PROVE  LoginWrote(out') /\ listed' = UinsOf(Contacts, People(Contacts))
  <1> DEFINE m == Out("CMD_LOGIN_1", "login", 0, <<>>)
             all == snd_contact_list(Contacts)
             invis == snd_invis_list(Contacts)
             vis == snd_vis_list(Contacts)
  <1>1. m.by = "login" /\ m.cmd # "CMD_CONT_LIST"
    BY DEF Out
  <1>2. out' = <<m>> \o all \o invis \o vis /\ listed' = Listed(out')
    BY DEF LoginReply
  <1>3. LoginWrote(all) /\ Listed(all) = UinsOf(Contacts, People(Contacts))
    BY ContactListWrote DEF ContactsTyped
  <1>4. /\ LoginWrote(invis) /\ Listed(invis) = {}
        /\ LoginWrote(vis) /\ Listed(vis) = {}
    BY OneListWrote DEF snd_invis_list, snd_vis_list
  <1> HIDE DEF m, all, invis, vis
  <1>5. LoginWrote(<<m>>) /\ Listed(<<m>>) = {}
    BY <1>1, OneWrote
  <1>6. LoginWrote(<<m>> \o all) /\ Listed(<<m>> \o all) = Listed(all)
    BY <1>3, <1>5, Joined
  <1>7. LoginWrote(<<m>> \o all \o invis) /\ Listed(<<m>> \o all \o invis) = Listed(all)
    BY <1>4, <1>6, Joined
  <1>8. /\ LoginWrote(<<m>> \o all \o invis \o vis)
        /\ Listed(<<m>> \o all \o invis \o vis) = Listed(all)
    BY <1>4, <1>7, Joined
  <1> QED
    BY <1>2, <1>3, <1>8

-----------------------------------------------------------------------------
(* Before the login the server knows nobody and has said nothing.           *)
LEMMA InitPresence == ASSUME OperatorInit PROVE PresenceInv
  <1>1. /\ Contacts = FirstContacts /\ listed = {} /\ ~logged
        /\ said = [u \in Uins |-> STATUS_OFFLINE]
    BY DEF OperatorInit, Init
  <1>2. FirstContacts \in Seq(Range(FirstContacts))
    BY ContactsAssumption
  <1>3. ASSUME NEW c \in Range(FirstContacts)
        PROVE  c \in Entries /\ c.status = STATUS_OFFLINE
    BY ContactsAssumption DEF Contact, Entries, Nicks, Statuses
  <1>4. Contacts \in Seq(Entries)
    BY <1>1, <1>2, <1>3
  <1>5. \A i \in DOMAIN Contacts : Contacts[i].status = STATUS_OFFLINE
    BY <1>1, <1>3 DEF Range
  <1>6. SaidIsShown
    <2> SUFFICES ASSUME NEW u \in Uins PROVE StatusOf(Contacts, u) = STATUS_OFFLINE
      BY <1>1 DEF SaidIsShown
    <2>1. Found(Contacts, u) = 0 \/ Found(Contacts, u) \in DOMAIN Contacts
      BY <1>4, FoundFirst
    <2> QED
      BY <1>5, <2>1 DEF StatusOf
  <1>7. ContactsTyped
    BY <1>1, <1>4 DEF ContactsTyped, Statuses
  <1> QED
    BY <1>1, <1>6, <1>7 DEF PresenceInv, ListedAreContacts, ContactsAreListed

(* The entry that a uin is found by takes the status the server gives it.   *)
LEMMA StatusGiven ==
  ASSUME PresenceInv, NEW u \in Uins, u \in listed, NEW s \in Statuses,
         SetPresence(u, s), said' = [said EXCEPT ![u] = s],
         UNCHANGED <<listed, logged>>
  PROVE  PresenceInv'
  <1> DEFINE C == Contacts
             D == Contacts'
             i == Found(C, u)
  <1>1. C \in Seq(Entries) /\ said \in [Uins -> Statuses]
    BY DEF PresenceInv, ContactsTyped
  <1>2. /\ i \in DOMAIN C /\ i # 0 /\ C[i].uin = u
        /\ \A j \in DOMAIN C : C[j].uin = u => i <= j
    BY <1>1, FoundFirst DEF PresenceInv, ListedAreContacts
  <1>3. D = [C EXCEPT ![i].status = s]
    BY <1>2 DEF SetPresence, UIN2Contact, Found
  <1>4. /\ D \in Seq(Entries) /\ DOMAIN D = DOMAIN C /\ D[i].status = s
        /\ \A j \in DOMAIN C : D[j].uin = C[j].uin
        /\ \A j \in DOMAIN C : j # i => D[j] = C[j]
    <2> HIDE DEF i
    <2>1. C[i] \in Entries
      BY <1>1, <1>2
    <2>2. [C[i] EXCEPT !.status = s] \in Entries
      BY <2>1 DEF Entries
    <2>3. [C[i] EXCEPT !.status = s].uin = C[i].uin
          /\ [C[i] EXCEPT !.status = s].status = s
      BY <2>1 DEF Entries
    <2>4. D = [C EXCEPT ![i] = [C[i] EXCEPT !.status = s]]
      BY <1>3
    <2> DEFINE c == [C[i] EXCEPT !.status = s]
    <2>5. c \in Entries /\ c.uin = C[i].uin /\ c.status = s /\ D = [C EXCEPT ![i] = c]
      BY <2>2, <2>3, <2>4
    <2> HIDE DEF c, C, D
    <2>6. D \in Seq(Entries) /\ DOMAIN D = DOMAIN C
      BY <1>1, <1>2, <2>5
    <2>7. D[i] = c /\ \A j \in DOMAIN C : j # i => D[j] = C[j]
      BY <1>1, <1>2, <2>5
    <2> QED
      BY <2>5, <2>6, <2>7
  <1> HIDE DEF C, D, i
  <1>5. People(D) = People(C)
    BY <1>4 DEF People
  <1>6. \A v : Found(D, v) = Found(C, v)
    BY <1>4 DEF Found
  <1>7. said' \in [Uins -> Statuses] /\ said'[u] = s
        /\ \A v \in Uins : v # u => said'[v] = said[v]
    BY <1>1
  <1>8. SaidIsShown'
    <2> SUFFICES ASSUME NEW v \in Uins PROVE said'[v] = StatusOf(D, v)
      BY DEF SaidIsShown, D
    <2>1. CASE v = u
      BY <1>2, <1>4, <1>6, <1>7, <2>1 DEF StatusOf, i
    <2>2. CASE v # u
      <3> DEFINE j == Found(C, v)
      <3>1. said[v] = IF j = 0 THEN STATUS_OFFLINE ELSE C[j].status
        BY DEF PresenceInv, SaidIsShown, StatusOf, C
      <3>2. j = 0 \/ (j \in DOMAIN C /\ j # 0 /\ C[j].uin = v)
        BY <1>1, FoundFirst DEF C
      <3>3. j # 0 => D[j] = C[j]
        BY <1>2, <1>4, <2>2, <3>2
      <3> HIDE DEF j
      <3>4. Found(D, v) = j
        BY <1>6 DEF j
      <3> QED
        BY <1>7, <2>2, <3>1, <3>3, <3>4 DEF StatusOf
    <2> QED
      BY <2>1, <2>2
  <1>9. ContactsTyped'
    BY <1>4, <1>7 DEF ContactsTyped, D
  <1>10. ListedAreContacts' /\ ContactsAreListed'
    BY <1>4, <1>5 DEF PresenceInv, ListedAreContacts, ContactsAreListed, C, D, People
  <1> QED
    BY <1>8, <1>9, <1>10 DEF PresenceInv

(* Whoever the server speaks of, by each of its three packets.              *)
LEMMA SaysPresence ==
  ASSUME PresenceInv, NEW u \in Uins,
         \/ SaysOffline(u)
         \/ \E s \in Others : SaysOnline(u, s) \/ SaysUpdate(u, s)
  PROVE  PresenceInv'
  <1>1. CASE SaysOffline(u)
    BY <1>1, StatusGiven DEF SaysOffline, Says, User_Offline, own, Statuses
  <1>2. ASSUME NEW s \in Others, SaysOnline(u, s)
        PROVE  PresenceInv'
    BY <1>2, StatusGiven DEF SaysOnline, Says, User_Online, own, Statuses
  <1>3. ASSUME NEW s \in Others, SaysUpdate(u, s)
        PROVE  PresenceInv'
    <2> DEFINE i == UIN2Contact(u)
    <2>1. /\ u \in listed /\ said' = [said EXCEPT ![u] = s]
          /\ UNCHANGED <<listed, logged>>
      BY <1>3 DEF SaysUpdate, Says, own
    <2>2. Contacts \in Seq(Entries) /\ (i = 0 \/ i \in DOMAIN Contacts)
      BY FoundFirst DEF PresenceInv, ContactsTyped, UIN2Contact, Found
    <2>3. CASE i # 0 /\ Contacts[i].status = s
      <3> HIDE DEF i
      <3>1. UNCHANGED Contacts
        BY <1>3, <2>3 DEF SaysUpdate, Status_Update, i
      <3>2. [Contacts[i] EXCEPT !.status = s] = Contacts[i]
        <4> DEFINE c == Contacts[i]
        <4>1. c \in Entries /\ c.status = s
          BY <2>2, <2>3
        <4> HIDE DEF c
        <4>2. [c EXCEPT !.status = s] = c
          BY <4>1 DEF Entries
        <4> QED
          BY <4>2 DEF c
      <3>3. [Contacts EXCEPT ![i].status = s] = Contacts
        BY <2>2, <2>3, <3>2
      <3>4. SetPresence(u, s)
        BY <2>3, <3>1, <3>3 DEF SetPresence, i
      <3> QED
        BY <2>1, <3>4, StatusGiven DEF Statuses
    <2>4. CASE ~(i # 0 /\ Contacts[i].status = s)
      <3>1. SetPresence(u, s)
        BY <1>3, <2>4 DEF SaysUpdate, Status_Update
      <3> QED
        BY <2>1, <3>1, StatusGiven DEF Statuses
    <2> QED
      BY <2>3, <2>4
  <1> QED
    BY <1>1, <1>2, <1>3

(* After the login everybody in the list is known to the server.            *)
LEMMA LoginPresence == ASSUME PresenceInv, LoginReply PROVE PresenceInv'
  <1>1. UNCHANGED <<Contacts, said>>
    BY DEF LoginReply
  <1>2. listed' = {Contacts[i].uin : i \in People(Contacts)}
    BY LoginLists DEF PresenceInv, UinsOf
  <1>3. ListedAreContacts' /\ ContactsAreListed'
    BY <1>1, <1>2 DEF ListedAreContacts, ContactsAreListed, People
  <1>4. SaidIsShown'
    BY <1>1 DEF PresenceInv, SaidIsShown
  <1> QED
    BY <1>1, <1>3, <1>4 DEF PresenceInv, ContactsTyped

(* Somebody added is told to the server with all the others, and is offline *)
(* unless found by an earlier entry.                                        *)
LEMMA AddPresence == ASSUME PresenceInv, Add_User PROVE PresenceInv'
  <1> DEFINE C == Contacts
             D == Contacts'
             n == Len(Contacts)
  <1>1. PICK u \in Uins : D = Append(C, Contact(u, NewNick, FALSE, FALSE))
    BY DEF Add_User
  <1>2. /\ out' = snd_contact_list(D)
        /\ listed' = listed \cup (IF logged THEN Listed(out') ELSE {})
        /\ UNCHANGED <<said, logged>>
    BY DEF Add_User, own
  <1>3. C \in Seq(Entries) /\ said \in [Uins -> Statuses]
    BY DEF PresenceInv, ContactsTyped
  <1>4. Contact(u, NewNick, FALSE, FALSE) \in Entries
    BY UinsAssumption DEF Contact, Entries, Nicks, Statuses
  <1>5. /\ D \in Seq(Entries) /\ n \in Nat
        /\ DOMAIN C = 1 .. n /\ DOMAIN D = 1 .. n + 1
        /\ \A i \in 1 .. n : D[i] = C[i]
        /\ D[n + 1].status = STATUS_OFFLINE
    <2> DEFINE c == Contact(u, NewNick, FALSE, FALSE)
    <2>1. c.status = STATUS_OFFLINE /\ c \in Entries
      BY <1>4 DEF Contact
    <2>2. D = Append(C, c) /\ n = Len(C)
      BY <1>1
    <2> HIDE DEF c, C, D, n
    <2>3. D \in Seq(Entries) /\ Len(D) = n + 1 /\ D[n + 1] = c
          /\ n \in Nat /\ DOMAIN C = 1 .. n
      BY <1>3, <2>1, <2>2
    <2>4. \A i \in 1 .. n : D[i] = C[i]
      BY <1>3, <2>1, <2>2
    <2> QED
      BY <2>1, <2>3, <2>4
  <1> HIDE DEF C, D, n
  <1>6. listed' = listed \cup (IF logged THEN {D[i].uin : i \in People(D)} ELSE {})
    BY <1>2, <1>5, ContactListWrote DEF UinsOf
  <1>7. ListedAreContacts'
    <2> SUFFICES ASSUME NEW v \in listed' PROVE \E i \in DOMAIN D : D[i].uin = v
      BY DEF ListedAreContacts, D
    <2>1. CASE v \in listed
      <3>1. PICK i \in DOMAIN C : C[i].uin = v
        BY <2>1 DEF PresenceInv, ListedAreContacts, C
      <3> QED
        BY <1>5, <3>1
    <2>2. CASE v \notin listed
      BY <1>6, <2>2 DEF People
    <2> QED
      BY <2>1, <2>2
  <1>8. ContactsAreListed'
    BY <1>2, <1>6 DEF ContactsAreListed, D
  <1>9. SaidIsShown'
    <2> SUFFICES ASSUME NEW v \in Uins PROVE said'[v] = StatusOf(D, v)
      BY DEF SaidIsShown, D
    <2> DEFINE i == Found(C, v)
               j == Found(D, v)
    <2>1. \/ i = 0 /\ \A k \in DOMAIN C : C[k].uin # v
          \/ /\ i \in DOMAIN C /\ i # 0 /\ C[i].uin = v
             /\ \A k \in DOMAIN C : C[k].uin = v => i <= k
      BY <1>3, FoundFirst DEF C
    <2>2. \/ j = 0 /\ \A k \in DOMAIN D : D[k].uin # v
          \/ /\ j \in DOMAIN D /\ j # 0 /\ D[j].uin = v
             /\ \A k \in DOMAIN D : D[k].uin = v => j <= k
      BY <1>5, FoundFirst
    <2>3. said[v] = IF i = 0 THEN STATUS_OFFLINE ELSE C[i].status
      BY DEF PresenceInv, SaidIsShown, StatusOf, C
    <2> HIDE DEF i, j
    <2>4. CASE i # 0
      <3>1. j = i
        BY <1>5, <2>1, <2>2, <2>4
      <3> QED
        BY <1>2, <1>5, <2>1, <2>3, <2>4, <3>1 DEF StatusOf, j
    <2>5. CASE i = 0
      <3>1. j = 0 \/ j = n + 1
        BY <1>5, <2>1, <2>2, <2>5
      <3> QED
        BY <1>2, <1>5, <2>3, <2>5, <3>1 DEF StatusOf, j
    <2> QED
      BY <2>4, <2>5
  <1>10. ContactsTyped'
    BY <1>2, <1>3, <1>5 DEF ContactsTyped, D
  <1> QED
    BY <1>7, <1>8, <1>9, <1>10 DEF PresenceInv

(* All that the invariant reads.                                            *)
presence == <<Contacts, listed, said, logged>>

(* Nothing that the invariant reads changes.                                *)
LEMMA SamePresence == ASSUME PresenceInv, UNCHANGED presence PROVE PresenceInv'
  BY DEF PresenceInv, presence, ContactsTyped, ListedAreContacts,
     ContactsAreListed, SaidIsShown

(* Who writes the list, and what the server knows of it.                    *)
LEMMA PacketsOfPresence ==
  ServerPacket =>
    \/ LoginReply
    \/ \E u \in Uins : SaysOffline(u)
                       \/ \E s \in Others : SaysOnline(u, s) \/ SaysUpdate(u, s)
    \/ UNCHANGED presence
  <1>1. ContactListDone => UNCHANGED presence
    BY DEF ContactListDone, presence, own
  <1>2. ASSUME NEW u \in Uins, Recv_Message(u)
        PROVE  UNCHANGED presence
    BY <1>2 DEF Recv_Message, presence, own, friends
  <1>3. ASSUME NEW u \in Uins, NEW k \in Kinds,
               AutoReply(u, k) \/ BotReply(u, k) \/ NoReply(u, k)
        PROVE  UNCHANGED presence
    BY <1>3 DEF AutoReply, BotReply, NoReply, presence, own, friends
  <1> QED
    BY <1>1, <1>2, <1>3 DEF ServerPacket, SRV_SYS_DELIVERED_MESS

(* ... and at the keyboard only the command that adds somebody.              *)
LEMMA KeyboardLeavesPresence ==
  Get_Input => Add_User \/ UNCHANGED presence
  <1> USE DEF presence, own, friends
  <1>1. Message_Function \/ Reply_Function \/ Again_Function \/ ToAll
          => UNCHANGED presence
    BY DEF Message_Function, Reply_Function, Again_Function, ToAll, Elsewhere
  <1>2. AboutOne \/ OneCommand => UNCHANGED presence
    BY DEF AboutOne, OneCommand, Elsewhere
  <1>3. ChangeStatus \/ SwitchBot \/ Auto_Function => UNCHANGED presence
    BY DEF ChangeStatus, SwitchBot, Auto_Function
  <1>4. Update \/ Search => UNCHANGED presence
    BY DEF Update, Search, Ask, Elsewhere
  <1>5. Do_Multiline \/ Do_Multiline_All => UNCHANGED presence
    BY DEF Do_Multiline, Do_Multiline_All, Elsewhere
  <1>6. Info_Update \/ Update_User_Info \/ User_Search => UNCHANGED presence
    BY DEF Info_Update, Update_User_Info, User_Search, Elsewhere
  <1> QED
    BY <1>1, <1>2, <1>3, <1>4, <1>5, <1>6 DEF Get_Input

(* Each step keeps the three in agreement.                                  *)
LEMMA PresenceStep == ASSUME PresenceInv, [Next]_vars PROVE PresenceInv'
  <1>1. Idle_Check \/ NothingIdle \/ NothingRead \/ Key \/ NoKey \/ Quit
          \/ UNCHANGED vars => UNCHANGED presence
    BY DEF Idle_Check, NothingIdle, NothingRead, Key, NoKey, Quit, vars, presence,
       own, friends
  <1>2. ASSUME ServerPacket PROVE PresenceInv'
    BY <1>2, PacketsOfPresence, LoginPresence, SaysPresence, SamePresence
  <1>3. ASSUME Get_Input PROVE PresenceInv'
    BY <1>3, KeyboardLeavesPresence, AddPresence, SamePresence
  <1> QED
    BY <1>1, <1>2, <1>3, SamePresence DEF Next, Background

(* The contact list, the server's view of it and what the server said of it *)
(* stay in step, whatever is added and whenever the login is answered.      *)
THEOREM PresenceInvariance == Spec => []PresenceInv
  <1>1. PresenceInv /\ [Next]_vars => PresenceInv'
    BY PresenceStep
  <1>2. OperatorInit => PresenceInv
    BY InitPresence
  <1> QED
    BY <1>1, <1>2, PTL DEF Spec

(* Everybody in the list was made known to the server, and is shown with    *)
(* the status that the server gave last, under its heading.                 *)
THEOREM PresenceIsShown == Spec => []PresenceKept
  <1>1. ASSUME PresenceInv PROVE PresenceKept
    <2> SUFFICES ASSUME NEW u \in Uins, UIN2Contact(u) # 0
                 PROVE  LET c == Contacts[UIN2Contact(u)]
                        IN  /\ logged => u \in listed
                            /\ c.status = said[u]
                            /\ ~c.invis_list => c \in IF said[u] = STATUS_OFFLINE
                                                     THEN ShownOffline ELSE ShownOnline
      BY DEF PresenceKept
    <2> DEFINE i == UIN2Contact(u)
    <2>1. i \in DOMAIN Contacts /\ Contacts[i].uin = u
      BY <1>1, FoundFirst DEF PresenceInv, ContactsTyped, UIN2Contact, Found
    <2>2. Contacts[i].status = said[u]
      BY <1>1 DEF PresenceInv, SaidIsShown, StatusOf, UIN2Contact, Found
    <2> HIDE DEF i
    <2>3. u > 0 /\ i \in People(Contacts)
      BY <2>1, UinsAssumption DEF People
    <2>4. logged => u \in listed
      BY <1>1, <2>1, <2>3 DEF PresenceInv, ContactsAreListed
    <2>5. ~Contacts[i].invis_list =>
            Contacts[i] \in IF said[u] = STATUS_OFFLINE THEN ShownOffline ELSE ShownOnline
      BY <2>1, <2>2, <2>3 DEF ShownOffline, ShownOnline, Shown, Range
    <2> QED
      BY <2>2, <2>4, <2>5 DEF i
  <1> QED
    BY <1>1, PresenceInvariance, PTL

-----------------------------------------------------------------------------
(* The dialogues.  multi_uin is the uin that the dialogue was begun for,    *)
(* as last_uin is between two lines of it, and each buffer holds what was   *)
(* typed into its dialogue, and nothing outside of it.                      *)
FieldsTyped ==
  /\ user \in [Fields -> Lines \cup {""}]
  /\ status = "new nick" => typed = <<>>
  /\ status = "new first" => typed = <<user.nick>>
  /\ status = "new last" => typed = <<user.nick, user.first>>
  /\ status = "new email" => typed = <<user.nick, user.first, user.last>>
  /\ status = "new auth" => typed = <<user.nick, user.first, user.last, user.email>>
  /\ status = "search email" => typed = <<>>
  /\ status = "search nick" => typed = <<user.email>>
  /\ status = "search first" => typed = <<user.email, user.nick>>
  /\ status = "search last" => typed = <<user.email, user.nick, user.first>>

MessagesTyped ==
  /\ status = "msg" => addressee = last_uin /\ msg = typed
  /\ status # "msg" => msg = <<>>
  /\ status = "msga" => msga = typed
  /\ status # "msga" => msga = <<>>

DialogueInv ==
  /\ multi_uin = last_uin
  /\ MessagesTyped
  /\ FieldsTyped

(* What no dialogue wrote.                                                  *)
FromElsewhere ==
  \A m \in Range(out') : m.by \notin {"msg", "msga", "update", "search"}

(* What SentAsTyped says of a step.                                         *)
AsTyped ==
  /\ \A m \in Written("msg") : m.to = addressee /\ m.text = typed
  /\ Written("msga") # {} =>
       /\ \A m \in Written("msga") : m.text = typed
       /\ UinsOf(Contacts, DOMAIN Contacts) = {m.to : m \in Written("msga")}
  /\ \A m \in Written("update") : m.text = typed
  /\ \A m \in Written("search") : m.text = Reordered(typed')

(* Packets that no dialogue writes are no concern of SentAsTyped.           *)
LEMMA ElsewhereAsTyped == FromElsewhere => AsTyped
  BY DEF FromElsewhere, AsTyped, Written

(* Nothing written is nothing written by a dialogue.                        *)
LEMMA QuietElsewhere == Quiet => FromElsewhere
  BY DEF Quiet, FromElsewhere, Range

(* The answer to the login writes lists of contacts only.                   *)
LEMMA LoginElsewhere ==
  ASSUME ContactsTyped, LoginReply
  PROVE  FromElsewhere
  BY LoginLists DEF LoginWrote, FromElsewhere

(* One packet of another handler is none of a dialogue.                     *)
LEMMA OneElsewhere ==
  ASSUME NEW m, out' = <<m>>, m.by \notin {"msg", "msga", "update", "search"}
  PROVE  FromElsewhere
  BY DEF FromElsewhere, Range

-----------------------------------------------------------------------------
(* Steps that leave the dialogues alone.                                    *)
LEMMA SameDialogue ==
  ASSUME DialogueInv, UNCHANGED dialogue
  PROVE  DialogueInv'
  BY DEF DialogueInv, MessagesTyped, FieldsTyped, dialogue

(* No packet of the server makes the client write for a dialogue.           *)
LEMMA PacketsElsewhere ==
  ASSUME ContactsTyped
  PROVE  ServerPacket => FromElsewhere
  <1>1. LoginReply => FromElsewhere
    BY LoginElsewhere
  <1>2. ContactListDone => FromElsewhere
    BY QuietElsewhere DEF ContactListDone
  <1>3. ASSUME NEW u \in Uins, SaysOffline(u) \/ Recv_Message(u)
        PROVE  FromElsewhere
    BY <1>3, QuietElsewhere DEF SaysOffline, Says, Recv_Message
  <1>4. ASSUME NEW u \in Uins, NEW s \in Others,
               SaysOnline(u, s) \/ SaysUpdate(u, s)
        PROVE  FromElsewhere
    BY <1>4, QuietElsewhere DEF SaysOnline, SaysUpdate, Says
  <1>5. ASSUME NEW u \in Uins, NEW k \in Kinds, AutoReply(u, k)
        PROVE  FromElsewhere
    <2>1. Quiet \/ out' = <<icq_sendmsg("auto", u, Current_Status)>>
      BY <1>5 DEF AutoReply, Quiet
    <2>2. icq_sendmsg("auto", u, Current_Status).by = "auto"
      BY DEF icq_sendmsg, Out
    <2> QED
      BY <2>1, <2>2, QuietElsewhere, OneElsewhere
  <1>6. ASSUME NEW u \in Uins, NEW k \in Kinds, BotReply(u, k)
        PROVE  FromElsewhere
    <2>1. Quiet \/ out' = <<icq_sendmsg("bot", u, "response")>>
      BY <1>6 DEF BotReply, Quiet
    <2>2. icq_sendmsg("bot", u, "response").by = "bot"
      BY DEF icq_sendmsg, Out
    <2> QED
      BY <2>1, <2>2, QuietElsewhere, OneElsewhere
  <1>7. ASSUME NEW u \in Uins, NEW k \in Kinds, NoReply(u, k)
        PROVE  FromElsewhere
    BY <1>7, QuietElsewhere DEF NoReply
  <1> QED
    BY <1>1, <1>2, <1>3, <1>4, <1>5, <1>6, <1>7
       DEF ServerPacket, SRV_SYS_DELIVERED_MESS

(* A change of status writes CMD_STATUS_CHANGE.                             *)
LEMMA ChangeElsewhere ==
  ASSUME NEW s, icq_change_status(s)
  PROVE  FromElsewhere
  <1>1. Out("CMD_STATUS_CHANGE", "status", 0, s).by = "status"
    BY DEF Out
  <1> QED
    BY <1>1, OneElsewhere DEF icq_change_status

(* What happens before the keyboard is read writes for no dialogue.         *)
LEMMA BackgroundElsewhere ==
  ASSUME ContactsTyped
  PROVE  Background => FromElsewhere
  <1>1. Idle_Check => FromElsewhere
    BY ChangeElsewhere DEF Idle_Check, Back, StillAway, GoAway
  <1>2. NothingIdle \/ NothingRead => FromElsewhere
    BY QuietElsewhere DEF NothingIdle, NothingRead
  <1> QED
    BY <1>1, <1>2, PacketsElsewhere DEF Background

(* Keys that end no line write nothing and leave the dialogues.             *)
LEMMA KeysElsewhere ==
  Key \/ NoKey \/ Quit => FromElsewhere /\ UNCHANGED dialogue
  <1>1. Key \/ NoKey => FromElsewhere /\ UNCHANGED dialogue
    BY QuietElsewhere DEF Key, NoKey
  <1>2. ToServer("CMD_SEND_TEXT_CODE").by = "command"
    BY DEF ToServer, Out
  <1>3. Quit => FromElsewhere /\ UNCHANGED dialogue
    BY <1>2, OneElsewhere DEF Quit
  <1> QED
    BY <1>1, <1>3

-----------------------------------------------------------------------------
(* Commands that open no dialogue, and those that open one.                 *)
LEMMA NoDialogue ==
  ASSUME DialogueInv, status = "command", status' = status, Buffers, EndOfInput
  PROVE  DialogueInv'
  BY DEF DialogueInv, MessagesTyped, FieldsTyped, Buffers, EndOfInput, NextUin

(* A command that begins a message empties the buffer.                      *)
LEMMA ComposeStep ==
  ASSUME DialogueInv, status = "command", NEW uin, Compose(uin), Buffers, EndOfInput
  PROVE  DialogueInv' /\ FromElsewhere
  BY QuietElsewhere DEF DialogueInv, MessagesTyped, FieldsTyped, Compose,
     Buffers, EndOfInput, NextUin

(* A message on the line of its command opens no dialogue.                  *)
LEMMA SendLineStep ==
  ASSUME DialogueInv, status = "command", NEW uin, NEW line, SendLine(uin, line),
         Buffers, EndOfInput
  PROVE  DialogueInv' /\ FromElsewhere
  <1>1. icq_sendmsg("line", uin, line).by = "line"
    BY DEF icq_sendmsg, Out
  <1>2. FromElsewhere
    BY <1>1, OneElsewhere DEF SendLine
  <1> QED
    BY <1>2, NoDialogue DEF SendLine

(* The four commands that write messages, with a text or without.           *)
LEMMA WriteStep ==
  ASSUME DialogueInv, EndOfInput,
         Message_Function \/ Reply_Function \/ Again_Function \/ ToAll
  PROVE  DialogueInv' /\ FromElsewhere
  <1>1. CASE Message_Function
    BY <1>1, ComposeStep, SendLineStep DEF Message_Function, Command
  <1>2. CASE Reply_Function
    BY <1>2, ComposeStep, SendLineStep DEF Reply_Function, Command
  <1>3. CASE Again_Function
    BY <1>3, ComposeStep, SendLineStep DEF Again_Function, Command
  <1>4. CASE ToAll
    BY <1>4, QuietElsewhere DEF ToAll, Command, DialogueInv, MessagesTyped,
       FieldsTyped, Buffers, EndOfInput, NextUin
  <1> QED
    BY <1>1, <1>2, <1>3, <1>4

(* The commands that send one request and open no dialogue.                 *)
LEMMA OtherCommandStep ==
  ASSUME DialogueInv, EndOfInput,
         AboutOne \/ OneCommand \/ ChangeStatus \/ SwitchBot \/ Auto_Function
  PROVE  DialogueInv' /\ FromElsewhere
  <1>1. CASE AboutOne
    <2>1. ASSUME NEW uin, icq_sendurl(uin) \/ icq_sendauthmsg(uin)
          PROVE  FromElsewhere
      BY <2>1, OneElsewhere DEF icq_sendurl, icq_sendauthmsg, icq_sendmsg, Out
    <2>2. ASSUME NEW uin, Info_Function(uin)
          PROVE  FromElsewhere
      <3> DEFINE m == Out("CMD_INFO_REQ", "info", uin, "")
                 n == Out("CMD_EXT_INFO_REQ", "info", uin, "")
      <3>1. m.by = "info" /\ n.by = "info" /\ out' = <<m, n>>
        BY <2>2 DEF Info_Function, Out
      <3> HIDE DEF m, n
      <3>2. Range(out') = {m, n}
        BY <3>1 DEF Range
      <3> QED
        BY <3>1, <3>2 DEF FromElsewhere
    <2>3. FromElsewhere
      BY <1>1, <2>1, <2>2 DEF AboutOne
    <2> QED
      BY <1>1, <2>3, NoDialogue DEF AboutOne, Command
  <1>2. CASE OneCommand
    <2>1. \A cmd : ToServer(cmd).by = "command"
      BY DEF ToServer, Out
    <2>2. \A f : start_search("command", f).by = "command"
      BY DEF start_search, Out
    <2>3. FromElsewhere
      BY <1>2, <2>1, <2>2, QuietElsewhere, OneElsewhere
         DEF OneCommand, Random_Function, Random_Set_Function, icq_rand_user_req,
             icq_rand_set, reg_new_user, Change_Password
    <2> QED
      BY <1>2, <2>3, NoDialogue DEF OneCommand, Command
  <1>3. CASE ChangeStatus
    BY <1>3, ChangeElsewhere, NoDialogue DEF ChangeStatus, Command
  <1>4. CASE SwitchBot
    BY <1>4, QuietElsewhere, NoDialogue DEF SwitchBot, Command
  <1>5. CASE Auto_Function
    BY <1>5, QuietElsewhere, NoDialogue DEF Auto_Function, Command
  <1> QED
    BY <1>1, <1>2, <1>3, <1>4, <1>5

(* The command that adds somebody writes lists of contacts.                 *)
LEMMA AddStep ==
  ASSUME PresenceInv, DialogueInv, EndOfInput, Add_User
  PROVE  DialogueInv' /\ FromElsewhere
  <1>1. FromElsewhere
    <2>1. Contacts' \in Seq(Entries)
      BY AddPresence DEF PresenceInv, ContactsTyped
    <2> QED
      BY <2>1, ContactListWrote DEF Add_User, LoginWrote, FromElsewhere
  <1> QED
    BY <1>1, NoDialogue DEF Add_User, Command

(* Update and search begin with no field filled in.                         *)
LEMMA AskStep ==
  ASSUME DialogueInv, EndOfInput, Update \/ Search
  PROVE  DialogueInv' /\ FromElsewhere
  BY QuietElsewhere DEF Update, Search, Command, Ask, DialogueInv, MessagesTyped,
     FieldsTyped, Buffers, EndOfInput, NextUin

-----------------------------------------------------------------------------
(* A line of a message.                                                     *)
LEMMA BufferStep ==
  ASSUME NEW lines, NEW line \in MessageLines
  PROVE  /\ GoesOn(lines, line) =>
              line \in Lines /\ After(lines, line) = Append(lines, line)
         /\ ~GoesOn(lines, line) => After(lines, line) = <<>>
         /\ Sends(lines, line) => ~GoesOn(lines, line)
  BY DEF MessageLines, GoesOn, After, Canceled, Sends, END_MSG_STR, CANCEL_MSG_STR

(* A line of a message to one: it is added, or ends the message.            *)
LEMMA MessageStep ==
  ASSUME DialogueInv, EndOfInput, Do_Multiline
  PROVE  DialogueInv' /\ AsTyped
  <1> PICK line \in MessageLines :
        /\ TypeLine(msg, line)
        /\ msg' = After(msg, line)
        /\ out' = IF Sends(msg, line)
                  THEN <<icq_sendmsg("msg", multi_uin, msg)>> ELSE <<>>
        /\ last_uin' = IF GoesOn(msg, line) THEN last_uin ELSE multi_uin
    BY DEF Do_Multiline
  <1>1. status = "msg" /\ UNCHANGED <<msga, user>>
    BY DEF Do_Multiline
  <1>2. multi_uin = last_uin /\ multi_uin = addressee /\ msg = typed /\ msga = <<>>
    BY <1>1 DEF DialogueInv, MessagesTyped
  <1>3. last_uin' = last_uin /\ multi_uin' = last_uin' /\ addressee' = addressee
    BY <1>2 DEF EndOfInput, NextUin, TypeLine
  <1>4. ASSUME GoesOn(msg, line)
        PROVE  DialogueInv'
    <2>1. status' = "msg" /\ msg' = typed'
      BY <1>1, <1>2, <1>4, BufferStep DEF TypeLine
    <2> QED
      BY <1>1, <1>2, <1>3, <2>1 DEF DialogueInv, MessagesTyped, FieldsTyped
  <1>5. ASSUME ~GoesOn(msg, line)
        PROVE  DialogueInv'
    <2>1. status' = "command" /\ msg' = <<>>
      BY <1>5, BufferStep DEF TypeLine
    <2> QED
      BY <1>1, <1>2, <1>3, <2>1 DEF DialogueInv, MessagesTyped, FieldsTyped
  <1>6. AsTyped
    <2> DEFINE m == icq_sendmsg("msg", multi_uin, msg)
    <2>1. m.by = "msg" /\ m.to = addressee /\ m.text = typed
      BY <1>2 DEF icq_sendmsg, Out
    <2>2. Quiet \/ out' = <<m>>
      BY DEF Quiet
    <2> HIDE DEF m
    <2>3. ASSUME out' = <<m>>
          PROVE  AsTyped
      <3>1. Range(out') = {m}
        BY <2>3 DEF Range
      <3> QED
        BY <2>1, <3>1 DEF AsTyped, Written
    <2> QED
      BY <2>2, <2>3, QuietElsewhere, ElsewhereAsTyped
  <1> QED
    BY <1>4, <1>5, <1>6

(* A line of a message to all, which goes to every contact alike.           *)
LEMMA MessageToAllStep ==
  ASSUME DialogueInv, EndOfInput, Do_Multiline_All
  PROVE  DialogueInv' /\ AsTyped
  <1> PICK line \in MessageLines :
        /\ TypeLine(msga, line)
        /\ msga' = After(msga, line)
        /\ out' = IF Sends(msga, line)
                  THEN [i \in DOMAIN Contacts |->
                          icq_sendmsg("msga", Contacts[i].uin, msga)]
                  ELSE <<>>
    BY DEF Do_Multiline_All
  <1>1. status = "msga" /\ UNCHANGED <<msg, user, last_uin>>
    BY DEF Do_Multiline_All
  <1>2. multi_uin = last_uin /\ msga = typed /\ msg = <<>>
    BY <1>1 DEF DialogueInv, MessagesTyped
  <1>3. multi_uin' = last_uin'
    BY DEF EndOfInput, NextUin
  <1>4. ASSUME GoesOn(msga, line)
        PROVE  DialogueInv'
    <2>1. status' = "msga" /\ msga' = typed'
      BY <1>1, <1>2, <1>4, BufferStep DEF TypeLine
    <2> QED
      BY <1>1, <1>2, <1>3, <2>1 DEF DialogueInv, MessagesTyped, FieldsTyped
  <1>5. ASSUME ~GoesOn(msga, line)
        PROVE  DialogueInv'
    <2>1. status' = "command" /\ msga' = <<>>
      BY <1>5, BufferStep DEF TypeLine
    <2> QED
      BY <1>1, <1>2, <1>3, <2>1 DEF DialogueInv, MessagesTyped, FieldsTyped
  <1>6. AsTyped
    <2> DEFINE m(i) == icq_sendmsg("msga", Contacts[i].uin, msga)
    <2>1. \A i \in DOMAIN Contacts :
            m(i).by = "msga" /\ m(i).to = Contacts[i].uin /\ m(i).text = typed
      BY <1>2 DEF icq_sendmsg, Out
    <2>2. Quiet \/ out' = [i \in DOMAIN Contacts |-> m(i)]
      BY DEF Quiet
    <2> HIDE DEF m
    <2>3. ASSUME out' = [i \in DOMAIN Contacts |-> m(i)]
          PROVE  AsTyped
      <3>1. Range(out') = {m(i) : i \in DOMAIN Contacts}
        BY <2>3 DEF Range
      <3>2. Written("msg") = {} /\ Written("update") = {} /\ Written("search") = {}
        BY <2>1, <3>1 DEF Written
      <3>3. Written("msga") = {m(i) : i \in DOMAIN Contacts}
        BY <2>1, <3>1 DEF Written
      <3>4. {k.to : k \in Written("msga")} = {Contacts[i].uin : i \in DOMAIN Contacts}
        BY <2>1, <3>3
      <3>5. UinsOf(Contacts, DOMAIN Contacts) = {Contacts[i].uin : i \in DOMAIN Contacts}
        BY DEF Range, UinsOf
      <3>6. \A k \in Written("msga") : k.text = typed
        BY <2>1, <3>3
      <3> QED
        BY <3>2, <3>4, <3>5, <3>6 DEF AsTyped
    <2> QED
      BY <2>2, <2>3, QuietElsewhere, ElsewhereAsTyped
  <1> QED
    BY <1>4, <1>5, <1>6

-----------------------------------------------------------------------------
(* A line of update or search.                                              *)
LEMMA FillStep ==
  ASSUME FieldsTyped, NEW line \in Lines, Fill(line), FieldOf(status) \in Fields
  PROVE  /\ user' \in [Fields -> Lines \cup {""}]
         /\ user'[FieldOf(status)] = line
         /\ \A f \in Fields \ {FieldOf(status)} : user'[f] = user[f]
         /\ typed' = Append(typed, line)
  BY DEF FieldsTyped, Fill, Typed

(* A sequence with one more element is told by its elements.               *)
LEMMA AppendIs ==
  ASSUME NEW S, NEW s \in Seq(S), NEW t \in Seq(S), NEW c \in S,
         Len(t) = Len(s) + 1, t[Len(t)] = c, \A i \in 1 .. Len(s) : t[i] = s[i]
  PROVE  Append(s, c) = t
  <1>1. Append(s, c) \in Seq(S) /\ Len(Append(s, c)) = Len(s) + 1
        /\ Append(s, c)[Len(s) + 1] = c
        /\ \A i \in 1 .. Len(s) : Append(s, c)[i] = s[i]
    OBVIOUS
  <1>2. \A i \in 1 .. Len(t) : Append(s, c)[i] = t[i]
    BY <1>1
  <1> QED
    BY <1>1, <1>2, SeqEqual

(* The fields typed so far and one more.                                   *)
LEMMA AppendFirst ==
  ASSUME NEW a
  PROVE  Append(<<>>, a) = <<a>>
  OBVIOUS

(* The second field.                                                        *)
LEMMA AppendSecond ==
  ASSUME NEW S, NEW a \in S, NEW b \in S
  PROVE  Append(<<a>>, b) = <<a, b>>
  <1> DEFINE s == <<a>>
             t == <<a, b>>
  <1>1. s \in Seq(S) /\ Len(s) = 1 /\ s[1] = a
    OBVIOUS
  <1>2. t \in Seq(S) /\ Len(t) = 2 /\ t[1] = a /\ t[2] = b
    OBVIOUS
  <1> HIDE DEF s, t
  <1>3. \A i \in 1 .. Len(s) : t[i] = s[i]
    BY <1>1, <1>2
  <1>4. Len(t) = Len(s) + 1 /\ t[Len(t)] = b
    BY <1>1, <1>2
  <1>5. Append(s, b) = t
    BY <1>1, <1>2, <1>3, <1>4, AppendIs
  <1> QED
    BY <1>5 DEF s, t

(* The third.                                                               *)
LEMMA AppendThird ==
  ASSUME NEW S, NEW a \in S, NEW b \in S, NEW c \in S
  PROVE  Append(<<a, b>>, c) = <<a, b, c>>
  <1> DEFINE s == <<a, b>>
             t == <<a, b, c>>
  <1>1. s \in Seq(S) /\ Len(s) = 2 /\ s[1] = a /\ s[2] = b
    OBVIOUS
  <1>2. t \in Seq(S) /\ Len(t) = 3 /\ t[1] = a /\ t[2] = b /\ t[3] = c
    OBVIOUS
  <1> HIDE DEF s, t
  <1>3. \A i \in 1 .. Len(s) : t[i] = s[i]
    <2>1. \A i \in 1 .. Len(s) : i = 1 \/ i = 2
      BY <1>1
    <2> QED
      BY <1>1, <1>2, <2>1
  <1>4. Len(t) = Len(s) + 1 /\ t[Len(t)] = c
    BY <1>1, <1>2
  <1>5. Append(s, c) = t
    BY <1>1, <1>2, <1>3, <1>4, AppendIs
  <1> QED
    BY <1>5 DEF s, t

(* The fourth.                                                              *)
LEMMA AppendFourth ==
  ASSUME NEW S, NEW a \in S, NEW b \in S, NEW c \in S, NEW d \in S
  PROVE  Append(<<a, b, c>>, d) = <<a, b, c, d>>
  <1> DEFINE s == <<a, b, c>>
             t == <<a, b, c, d>>
  <1>1. s \in Seq(S) /\ Len(s) = 3 /\ s[1] = a /\ s[2] = b /\ s[3] = c
    OBVIOUS
  <1>2. t \in Seq(S) /\ Len(t) = 4 /\ t[1] = a /\ t[2] = b /\ t[3] = c /\ t[4] = d
    OBVIOUS
  <1> HIDE DEF s, t
  <1>3. \A i \in 1 .. Len(s) : t[i] = s[i]
    <2>1. \A i \in 1 .. Len(s) : i = 1 \/ i = 2 \/ i = 3
      BY <1>1
    <2> QED
      BY <1>1, <1>2, <2>1
  <1>4. Len(t) = Len(s) + 1 /\ t[Len(t)] = d
    BY <1>1, <1>2
  <1>5. Append(s, d) = t
    BY <1>1, <1>2, <1>3, <1>4, AppendIs
  <1> QED
    BY <1>5 DEF s, t

(* The dialogues of fields ask for them in this order.                      *)
LEMMA Prompts ==
  /\ Updates[1] = "new nick" /\ Updates[2] = "new first" /\ Updates[3] = "new last"
  /\ Updates[4] = "new email" /\ Updates[5] = "new auth"
  /\ Searches[1] = "search email" /\ Searches[2] = "search nick"
  /\ Searches[3] = "search first" /\ Searches[4] = "search last"
  BY DEF Updates, Searches

(* A line of update or search leaves a message alone.                       *)
LEMMA BesideFields ==
  ASSUME DialogueInv, EndOfInput, UNCHANGED <<last_uin, msg, msga, addressee>>,
         status \notin {"msg", "msga"}, status' \notin {"msg", "msga"},
         FieldsTyped'
  PROVE  DialogueInv'
  BY DEF DialogueInv, MessagesTyped, EndOfInput, NextUin

(* One field of an update; the last one but the answer on auth.             *)
LEMMA UpdateFieldStep ==
  ASSUME DialogueInv, EndOfInput, Info_Update
  PROVE  DialogueInv' /\ FromElsewhere
  <1> PICK k \in 1 .. 4, line \in Lines :
        status = Updates[k] /\ Fill(line) /\ status' = Updates[k + 1] /\ Quiet
    BY DEF Info_Update
  <1>1. UNCHANGED <<last_uin, msg, msga, addressee>>
    BY DEF Info_Update
  <1>2. FromElsewhere
    BY QuietElsewhere
  <1>4. CASE k = 1
    <2>0. k + 1 = 2
      BY <1>4
    <2>1. status = "new nick" /\ status' = "new first"
      BY <1>4, <2>0, Prompts
    <2>2. FieldOf(status) = "nick"
      BY <2>1 DEF FieldOf
    <2>3. FieldsTyped /\ status' \notin {"msg", "msga"} /\ status \notin {"msg", "msga"}
      BY <2>1 DEF DialogueInv
    <2>4. /\ user' \in [Fields -> Lines \cup {""}]
          /\ typed' = Append(typed, user'.nick)
      BY <2>2, <2>3, FillStep DEF Fields
    <2>5. typed' = <<user'.nick>>
      <3>1. typed = <<>>
        BY <2>1, <2>3 DEF FieldsTyped
      <3> QED
        BY <2>4, <3>1, AppendFirst
    <2>6. FieldsTyped'
      BY <2>1, <2>4, <2>5 DEF FieldsTyped
    <2> QED
      BY <1>1, <1>2, <2>3, <2>6, BesideFields
  <1>5. CASE k = 2
    <2>0. k + 1 = 3
      BY <1>5
    <2>1. status = "new first" /\ status' = "new last"
      BY <1>5, <2>0, Prompts
    <2>2. FieldOf(status) = "first"
      BY <2>1 DEF FieldOf
    <2>3. FieldsTyped /\ status' \notin {"msg", "msga"} /\ status \notin {"msg", "msga"}
      BY <2>1 DEF DialogueInv
    <2>4. /\ user' \in [Fields -> Lines \cup {""}]
          /\ typed' = Append(typed, user'.first)
          /\ user'.nick = user.nick
      BY <2>2, <2>3, FillStep DEF Fields
    <2>5. typed' = <<user'.nick, user'.first>>
      <3>1. typed = <<user'.nick>>
        BY <2>1, <2>3, <2>4 DEF FieldsTyped
      <3>2. user'.nick \in Lines \cup {""} /\ user'.first \in Lines \cup {""}
        BY <2>4 DEF Fields
      <3>3. Append(<<user'.nick>>, user'.first)
              = <<user'.nick, user'.first>>
        BY <3>2, AppendSecond
      <3> QED
        BY <2>4, <3>1, <3>3
    <2>6. FieldsTyped'
      BY <2>1, <2>4, <2>5 DEF FieldsTyped
    <2> QED
      BY <1>1, <1>2, <2>3, <2>6, BesideFields
  <1>6. CASE k = 3
    <2>0. k + 1 = 4
      BY <1>6
    <2>1. status = "new last" /\ status' = "new email"
      BY <1>6, <2>0, Prompts
    <2>2. FieldOf(status) = "last"
      BY <2>1 DEF FieldOf
    <2>3. FieldsTyped /\ status' \notin {"msg", "msga"} /\ status \notin {"msg", "msga"}
      BY <2>1 DEF DialogueInv
    <2>4. /\ user' \in [Fields -> Lines \cup {""}]
          /\ typed' = Append(typed, user'.last)
          /\ user'.nick = user.nick /\ user'.first = user.first
      BY <2>2, <2>3, FillStep DEF Fields
    <2>5. typed' = <<user'.nick, user'.first, user'.last>>
      <3>1. typed = <<user'.nick, user'.first>>
        BY <2>1, <2>3, <2>4 DEF FieldsTyped
      <3>2. /\ user'.nick \in Lines \cup {""} /\ user'.first \in Lines \cup {""}
           /\ user'.last \in Lines \cup {""}
        BY <2>4 DEF Fields
      <3>3. Append(<<user'.nick, user'.first>>, user'.last)
              = <<user'.nick, user'.first, user'.last>>
        BY <3>2, AppendThird
      <3> QED
        BY <2>4, <3>1, <3>3
    <2>6. FieldsTyped'
      BY <2>1, <2>4, <2>5 DEF FieldsTyped
    <2> QED
      BY <1>1, <1>2, <2>3, <2>6, BesideFields
  <1>7. CASE k = 4
    <2>0. k + 1 = 5
      BY <1>7
    <2>1. status = "new email" /\ status' = "new auth"
      BY <1>7, <2>0, Prompts
    <2>2. FieldOf(status) = "email"
      BY <2>1 DEF FieldOf
    <2>3. FieldsTyped /\ status' \notin {"msg", "msga"} /\ status \notin {"msg", "msga"}
      BY <2>1 DEF DialogueInv
    <2>4. /\ user' \in [Fields -> Lines \cup {""}]
          /\ typed' = Append(typed, user'.email)
          /\ user'.nick = user.nick /\ user'.first = user.first /\ user'.last = user.last
      BY <2>2, <2>3, FillStep DEF Fields
    <2>5. typed' = <<user'.nick, user'.first, user'.last, user'.email>>
      <3> DEFINE S == Lines \cup {""}
                 a == user'.nick
                 b == user'.first
                 c == user'.last
                 d == user'.email
      <3>1. typed = <<a, b, c>> /\ typed' = Append(typed, d)
        BY <2>1, <2>3, <2>4 DEF FieldsTyped
      <3>2. a \in S /\ b \in S /\ c \in S /\ d \in S
        BY <2>4 DEF Fields
      <3> HIDE DEF S, a, b, c, d
      <3>3. typed' = <<a, b, c, d>>
        BY <3>1, <3>2, AppendFourth
      <3> QED
        BY <3>3 DEF a, b, c, d
    <2>6. FieldsTyped'
      BY <2>1, <2>4, <2>5 DEF FieldsTyped
    <2> QED
      BY <1>1, <1>2, <2>3, <2>6, BesideFields
  <1> QED
    BY <1>4, <1>5, <1>6, <1>7

(* The answer on authorization, which sends the update.                     *)
LEMMA AuthStep ==
  ASSUME DialogueInv, EndOfInput, Update_User_Info
  PROVE  DialogueInv' /\ AsTyped
  <1>1. status = "new auth" /\ UNCHANGED <<last_uin, msg, msga, addressee, typed>>
    BY DEF Update_User_Info
  <1>2. multi_uin' = last_uin'
    BY DEF EndOfInput, NextUin
  <1>3. CASE Quiet /\ UNCHANGED <<status, user>>
    <2>1. DialogueInv'
      BY <1>1, <1>2, <1>3 DEF DialogueInv, MessagesTyped, FieldsTyped
    <2> QED
      BY <1>3, <2>1, QuietElsewhere, ElsewhereAsTyped
  <1>4. ASSUME status' = "command", UNCHANGED user, NEW auth \in BOOLEAN,
               out' = <<Out("CMD_UPDATE_INFO", "update", 0, FourFields),
                        Out("CMD_AUTH_UPDATE", "auth", 0, ~auth)>>
        PROVE  DialogueInv' /\ AsTyped
    <2>1. DialogueInv'
      BY <1>1, <1>2, <1>4 DEF DialogueInv, MessagesTyped, FieldsTyped
    <2>2. FourFields = typed
      BY <1>1, <1>4 DEF DialogueInv, FieldsTyped, FourFields
    <2> DEFINE m == Out("CMD_UPDATE_INFO", "update", 0, FourFields)
               n == Out("CMD_AUTH_UPDATE", "auth", 0, ~auth)
    <2>3. m.by = "update" /\ m.text = typed /\ n.by = "auth"
      BY <2>2 DEF Out
    <2>4. out' = <<m, n>>
      BY <1>4
    <2> HIDE DEF m, n
    <2>5. Range(out') = {m, n}
      BY <2>4 DEF Range
    <2> QED
      BY <2>1, <2>3, <2>5 DEF AsTyped, Written
  <1> QED
    BY <1>3, <1>4 DEF Update_User_Info

(* One field of a search; the last one sends it.                            *)
LEMMA SearchStep ==
  ASSUME DialogueInv, EndOfInput, User_Search
  PROVE  DialogueInv' /\ AsTyped
  <1> PICK k \in 1 .. 4, line \in Lines :
        /\ status = Searches[k] /\ Fill(line)
        /\ IF k < 4 THEN status' = Searches[k + 1] /\ Quiet
           ELSE /\ status' = "command"
                /\ out' = <<start_search("search", FourFields)>>
    BY DEF User_Search
  <1>1. UNCHANGED <<last_uin, msg, msga, addressee>>
    BY DEF User_Search
  <1>2. k < 4 => AsTyped
    BY QuietElsewhere, ElsewhereAsTyped
  <1>3. /\ k < 4 => status' = Searches[k + 1]
        /\ k = 4 => /\ status' = "command"
                    /\ out' = <<start_search("search", FourFields)>>
    OBVIOUS
  <1>4. CASE k = 1
    <2>0. k + 1 = 2 /\ k < 4
      BY <1>4
    <2>1. status = "search email" /\ status' = "search nick"
      BY <1>3, <1>4, <2>0, Prompts
    <2>2. FieldOf(status) = "email"
      BY <2>1 DEF FieldOf
    <2>3. FieldsTyped /\ status' \notin {"msg", "msga"} /\ status \notin {"msg", "msga"}
      BY <2>1 DEF DialogueInv
    <2>4. /\ user' \in [Fields -> Lines \cup {""}]
          /\ typed' = Append(typed, user'.email)
      BY <2>2, <2>3, FillStep DEF Fields
    <2>5. typed' = <<user'.email>>
      <3>1. typed = <<>>
        BY <2>1, <2>3 DEF FieldsTyped
      <3> QED
        BY <2>4, <3>1, AppendFirst
    <2>6. FieldsTyped'
      BY <2>1, <2>4, <2>5 DEF FieldsTyped
    <2> QED
      BY <1>1, <1>2, <1>4, <2>3, <2>6, BesideFields
  <1>5. CASE k = 2
    <2>0. k + 1 = 3 /\ k < 4
      BY <1>5
    <2>1. status = "search nick" /\ status' = "search first"
      BY <1>3, <1>5, <2>0, Prompts
    <2>2. FieldOf(status) = "nick"
      BY <2>1 DEF FieldOf
    <2>3. FieldsTyped /\ status' \notin {"msg", "msga"} /\ status \notin {"msg", "msga"}
      BY <2>1 DEF DialogueInv
    <2>4. /\ user' \in [Fields -> Lines \cup {""}]
          /\ typed' = Append(typed, user'.nick)
          /\ user'.email = user.email
      BY <2>2, <2>3, FillStep DEF Fields
    <2>5. typed' = <<user'.email, user'.nick>>
      <3>1. typed = <<user'.email>>
        BY <2>1, <2>3, <2>4 DEF FieldsTyped
      <3>2. user'.email \in Lines \cup {""} /\ user'.nick \in Lines \cup {""}
        BY <2>4 DEF Fields
      <3>3. Append(<<user'.email>>, user'.nick)
              = <<user'.email, user'.nick>>
        BY <3>2, AppendSecond
      <3> QED
        BY <2>4, <3>1, <3>3
    <2>6. FieldsTyped'
      BY <2>1, <2>4, <2>5 DEF FieldsTyped
    <2> QED
      BY <1>1, <1>2, <1>5, <2>3, <2>6, BesideFields
  <1>6. CASE k = 3
    <2>0. k + 1 = 4 /\ k < 4
      BY <1>6
    <2>1. status = "search first" /\ status' = "search last"
      BY <1>3, <1>6, <2>0, Prompts
    <2>2. FieldOf(status) = "first"
      BY <2>1 DEF FieldOf
    <2>3. FieldsTyped /\ status' \notin {"msg", "msga"} /\ status \notin {"msg", "msga"}
      BY <2>1 DEF DialogueInv
    <2>4. /\ user' \in [Fields -> Lines \cup {""}]
          /\ typed' = Append(typed, user'.first)
          /\ user'.email = user.email /\ user'.nick = user.nick
      BY <2>2, <2>3, FillStep DEF Fields
    <2>5. typed' = <<user'.email, user'.nick, user'.first>>
      <3>1. typed = <<user'.email, user'.nick>>
        BY <2>1, <2>3, <2>4 DEF FieldsTyped
      <3>2. /\ user'.email \in Lines \cup {""} /\ user'.nick \in Lines \cup {""}
           /\ user'.first \in Lines \cup {""}
        BY <2>4 DEF Fields
      <3>3. Append(<<user'.email, user'.nick>>, user'.first)
              = <<user'.email, user'.nick, user'.first>>
        BY <3>2, AppendThird
      <3> QED
        BY <2>4, <3>1, <3>3
    <2>6. FieldsTyped'
      BY <2>1, <2>4, <2>5 DEF FieldsTyped
    <2> QED
      BY <1>1, <1>2, <1>6, <2>3, <2>6, BesideFields
  <1>7. CASE k = 4
    <2>0. k + 1 = 5
      BY <1>7
    <2>1. status = "search last" /\ status' = "command"
      BY <1>3, <1>7, <2>0, Prompts
    <2>2. FieldOf(status) = "last"
      BY <2>1 DEF FieldOf
    <2>3. FieldsTyped /\ status' \notin {"msg", "msga"} /\ status \notin {"msg", "msga"}
      BY <2>1 DEF DialogueInv
    <2>4. /\ user' \in [Fields -> Lines \cup {""}]
          /\ typed' = Append(typed, user'.last)
          /\ user'.email = user.email /\ user'.nick = user.nick /\ user'.first = user.first
      BY <2>2, <2>3, FillStep DEF Fields
    <2>5. typed' = <<user'.email, user'.nick, user'.first, user'.last>>
      <3> DEFINE S == Lines \cup {""}
                 a == user'.email
                 b == user'.nick
                 c == user'.first
                 d == user'.last
      <3>1. typed = <<a, b, c>> /\ typed' = Append(typed, d)
        BY <2>1, <2>3, <2>4 DEF FieldsTyped
      <3>2. a \in S /\ b \in S /\ c \in S /\ d \in S
        BY <2>4 DEF Fields
      <3> HIDE DEF S, a, b, c, d
      <3>3. typed' = <<a, b, c, d>>
        BY <3>1, <3>2, AppendFourth
      <3> QED
        BY <3>3 DEF a, b, c, d
    <2>6. FieldsTyped'
      BY <2>1, <2>4, <2>5 DEF FieldsTyped
    <2>7. FourFields = Reordered(typed')
      BY <2>5 DEF FourFields, Reordered
    <2> DEFINE m == start_search("search", FourFields)
    <2>8. m.by = "search" /\ m.text = Reordered(typed') /\ out' = <<m>>
      BY <1>7, <2>7 DEF start_search, Out
    <2> HIDE DEF m
    <2>9. Range(out') = {m}
      BY <2>8 DEF Range
    <2>10. AsTyped
      BY <2>8, <2>9 DEF AsTyped, Written
    <2> QED
      BY <1>1, <2>3, <2>6, <2>10, BesideFields
  <1> QED
    BY <1>4, <1>5, <1>6, <1>7

-----------------------------------------------------------------------------
(* At the start no dialogue is open and the buffers are empty.              *)
LEMMA DialogueInit == OperatorInit => DialogueInv
  BY DEF OperatorInit, DialogueInv, MessagesTyped, FieldsTyped, NoFields, Fields

(* Each step keeps the dialogues, and writes for them what was typed.       *)
LEMMA DialogueStep ==
  ASSUME PresenceInv, DialogueInv, Next
  PROVE  DialogueInv' /\ AsTyped
  <1>1. CASE Background /\ UNCHANGED dialogue
    BY <1>1, BackgroundElsewhere, SameDialogue, ElsewhereAsTyped DEF PresenceInv
  <1>2. CASE Key \/ NoKey \/ Quit
    BY <1>2, KeysElsewhere, SameDialogue, ElsewhereAsTyped
  <1>3. CASE Get_Input /\ EndOfInput
    BY <1>3, WriteStep, OtherCommandStep, AddStep, AskStep, MessageStep,
       MessageToAllStep, UpdateFieldStep, AuthStep, SearchStep, ElsewhereAsTyped
       DEF Get_Input
  <1> QED
    BY <1>1, <1>2, <1>3 DEF Next

(* Whatever comes between two lines, a dialogue sends what was typed into   *)
(* it since it was begun, to whom it was begun for.                         *)
THEOREM DialoguesSendWhatWasTyped == Spec => SentAsTyped
  <1>1. PresenceInv /\ DialogueInv /\ [Next]_vars => DialogueInv'
    BY DialogueStep, SameDialogue DEF vars
  <1>2. PresenceInv /\ DialogueInv /\ [Next]_vars => [AsTyped]_vars
    BY DialogueStep
  <1>3. AsTyped =>
          /\ \A m \in Written("msg") : m.to = addressee /\ m.text = typed
          /\ Written("msga") # {} =>
               /\ \A m \in Written("msga") : m.text = typed
               /\ UinsOf(Contacts, DOMAIN Contacts) = {m.to : m \in Written("msga")}
          /\ \A m \in Written("update") : m.text = typed
          /\ \A m \in Written("search") : m.text = Reordered(typed')
    BY DEF AsTyped
  <1> QED
    BY <1>1, <1>2, <1>3, DialogueInit, PresenceInvariance, PTL DEF Spec, SentAsTyped
=============================================================================
