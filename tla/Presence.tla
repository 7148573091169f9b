------------------------------ MODULE Presence ------------------------------
(***************************************************************************)
(* What the client knows of others and what others know of its user:       *)
(* the contact list and its presence, the user's own status and the        *)
(* automatic one of Idle_Check, and what incoming messages set off.        *)
(* One turn of main's loop is Idle_Check ("loop"), the wait for a packet   *)
(* of the server ("socket") and the keyboard ("input"); the keyboard is    *)
(* Operator's.  Packets come through a network that IcqClient models.      *)
(***************************************************************************)
EXTENDS Integers, Sequences, SequencesExt, FiniteSetsExt

CONSTANTS
  FirstContacts,     \* the contact list as read at the start
  Uins,              \* who may write; the server speaks of those it was told
  MAX_CONTS_PACKET,  \* contacts in one CMD_CONT_LIST
  set_status,        \* the status of .micqrc, which Login sends
  Others,            \* statuses of others
  Sessions           \* bound: what happens in a run, each a set of kinds

ASSUME PacketAssumption == MAX_CONTS_PACKET \in Nat \ {0}
ASSUME UinsAssumption == Uins \subseteq Nat \ {0}

VARIABLES
  pc,                \* "loop", "socket", "input", "exited"
  session,           \* the element of Sessions
  idle,              \* whole away_time's since idle_val, at most 2
  idle_flag,
  Current_Status, auto_resp, BotMode,
  Contacts, Done_Login,
  last_recv_uin,
  out,               \* the packets that the last step wrote
  told,              \* history: the status the server was last told
  logged, early,     \* history: the login is answered; told differed by then
  automatic,         \* history: Idle_Check set the status, nobody changed it since
  listed,            \* history: the uins the server was told
  said               \* history: the status the server last gave each uin

own == <<Current_Status, told, logged, early>>
replies == <<auto_resp, BotMode>>
timer == <<idle_flag, automatic>>
friends == <<Contacts, Done_Login, listed, said>>

STATUS_OFFLINE == "OFFLINE"
STATUS_ONLINE == "ONLINE"

Out(cmd, by, to, text) == [cmd |-> cmd, by |-> by, to |-> to, text |-> text]
Contact(uin, nick, vis, invis) ==
  [uin |-> uin, nick |-> nick, vis_list |-> vis, invis_list |-> invis,
   status |-> STATUS_OFFLINE]
ASSUME ContactsAssumption ==
  /\ FirstContacts \in Seq(Range(FirstContacts))
  /\ \A c \in Range(FirstContacts) :
       /\ c.uin \in Int /\ {c.vis_list, c.invis_list} \subseteq BOOLEAN
       /\ c = Contact(c.uin, c.nick, c.vis_list, c.invis_list)
icq_sendmsg(by, uin, text) == Out("CMD_SENDM", by, uin, text)
Quiet == out' = <<>>
-----------------------------------------------------------------------------
(* The contact list.  An alias has the uin of its contact with a minus.    *)
\* UIN2Contact, and the index Print_UIN_Name returns: 0 when there is none.
UIN2Contact(uin) ==
  LET i == {k \in DOMAIN Contacts : Contacts[k].uin = uin}
  IN  IF i = {} THEN 0 ELSE Min(i)

(* A name, its alias or a number; -1 when it is neither.                    *)
nick2uin(nick, numeric) ==
  LET i == {k \in DOMAIN Contacts : Contacts[k].nick = nick}
  IN  IF i # {}
      THEN LET u == Contacts[Min(i)].uin IN IF u > 0 THEN u ELSE -u
      ELSE IF nick \in DOMAIN numeric THEN numeric[nick] ELSE -1

\* The contacts that Show_Status and Show_Quick_Status list under their two
\* headings.
Shown(Test(_)) ==
  {c \in Range(Contacts) : c.uin > 0 /\ ~c.invis_list /\ Test(c.status)}
ShownOffline == Shown(LAMBDA s : s = STATUS_OFFLINE)
ShownOnline == Shown(LAMBDA s : s # STATUS_OFFLINE)

\* Where a list has people, not aliases, and how many up to place i.
People(contacts) == {i \in DOMAIN contacts : contacts[i].uin > 0}
Rank(contacts, i) == Cardinality({j \in People(contacts) : j <= i})

UinsOf(contacts, places) == {contacts[i].uin : i \in places}

(* The list goes in as many packets as it takes.  A last one of aliases     *)
(* only is sent empty; here it is left out.                                 *)
snd_contact_list(contacts) ==
  LET packets ==
        (Cardinality(People(contacts)) + MAX_CONTS_PACKET - 1) \div MAX_CONTS_PACKET
      Part(k) ==
        {i \in People(contacts) :
           Rank(contacts, i) \in (k - 1) * MAX_CONTS_PACKET + 1 .. k * MAX_CONTS_PACKET}
  IN  [k \in 1 .. packets |->
         Out("CMD_CONT_LIST", "login", 0, UinsOf(contacts, Part(k)))]

OneList(cmd, uins) == IF uins = {} THEN <<>> ELSE <<Out(cmd, "login", 0, uins)>>
snd_invis_list(contacts) ==
  OneList("CMD_INVIS_LIST",
          UinsOf(contacts, {i \in People(contacts) : contacts[i].invis_list}))
snd_vis_list(contacts) ==
  OneList("CMD_VIS_LIST",
          UinsOf(contacts, {i \in People(contacts) : contacts[i].vis_list}))

Listed(packets) ==
  UNION {m.text : m \in {p \in Range(packets) : p.cmd = "CMD_CONT_LIST"}}
-----------------------------------------------------------------------------
Init ==
  /\ pc = "loop" /\ session \in Sessions
  /\ idle = 0 /\ idle_flag = FALSE
  /\ Current_Status = STATUS_OFFLINE /\ auto_resp = TRUE /\ BotMode = TRUE
  /\ Contacts = FirstContacts /\ Done_Login = FALSE
  /\ last_recv_uin = 0
  /\ out = <<>>
  /\ told = set_status /\ logged = FALSE /\ early = FALSE
  /\ automatic = FALSE
  /\ listed = {} /\ said = [u \in Uins |-> STATUS_OFFLINE]

icq_change_status(status) ==
  /\ Current_Status' = status /\ told' = status
  /\ out' = <<Out("CMD_STATUS_CHANGE", "status", 0, status)>>
-----------------------------------------------------------------------------
(* Idle_Check.  With BotMode on it looks for random users instead, which   *)
(* RandomUser models.                                                      *)
Checks == pc = "loop" /\ pc' = "socket"

Back ==
  /\ idle_flag /\ Current_Status \in {"AWAY", "NA"} /\ idle = 0
  /\ icq_change_status(STATUS_ONLINE)
  /\ idle_flag' = FALSE /\ automatic' = FALSE

\* (Mutant: the flag stands for AWAY alone.)
FlagStillAwayDown == FALSE
FlagStillAway == idle_flag

StillAway ==
  /\ idle_flag /\ Current_Status = "AWAY" /\ idle = 2
  /\ icq_change_status("NA")
  /\ idle_flag' = FlagStillAway /\ automatic' = TRUE

GoAway ==
  /\ Current_Status \in {STATUS_ONLINE, "FREE_CHAT"} /\ idle > 0
  /\ icq_change_status("AWAY")
  /\ idle_flag' = TRUE /\ automatic' = TRUE

Idle_Check ==
  /\ Checks /\ ~BotMode
  /\ Back \/ StillAway \/ GoAway
  /\ UNCHANGED <<session, idle, replies, logged, early, friends, last_recv_uin>>

NothingIdle ==
  /\ Checks
  /\ BotMode \/ ~(\/ idle_flag /\ Current_Status \in {"AWAY", "NA"} /\ idle = 0
                  \/ idle_flag /\ Current_Status = "AWAY" /\ idle = 2
                  \/ Current_Status \in {STATUS_ONLINE, "FREE_CHAT"} /\ idle > 0)
  /\ Quiet
  /\ UNCHANGED <<session, idle, replies, own, timer, friends, last_recv_uin>>
-----------------------------------------------------------------------------
(* The wait for a packet: time may pass.                                   *)
Waits == pc = "socket" /\ pc' = "input"
Reads(kind) == Waits /\ kind \in session /\ idle' = idle

NothingRead ==
  /\ Waits /\ Quiet
  /\ idle' \in {idle} \cup (IF "time" \in session /\ idle < 2 THEN {idle + 1} ELSE {})
  /\ UNCHANGED <<session, replies, own, timer, friends, last_recv_uin>>

\* (Mutant: the one of a new .micqrc.)
StatusAtLoginNew == STATUS_ONLINE
StatusAtLogin == set_status

(* SRV_LOGIN_REPLY: the status is what the login asked for, whatever the    *)
(* server was told since, and also in place of an automatic one.            *)
LoginReply ==
  /\ Reads("login") /\ ~logged
  /\ out' = <<Out("CMD_LOGIN_1", "login", 0, <<>>)>> \o snd_contact_list(Contacts)
            \o snd_invis_list(Contacts) \o snd_vis_list(Contacts)
  /\ Current_Status' = StatusAtLogin
  /\ automatic' = FALSE
  /\ logged' = TRUE /\ early' = (told # set_status)
  /\ listed' = Listed(out')
  /\ UNCHANGED <<session, told, replies, idle_flag, Contacts, Done_Login, said,
                 last_recv_uin>>

\* SRV_X1: the list of contacts was received.
ContactListDone ==
  /\ Reads("login") /\ logged /\ Quiet
  /\ Done_Login' = TRUE
  /\ UNCHANGED <<session, own, replies, timer, Contacts, listed, said,
                 last_recv_uin>>

SetPresence(uin, status) ==
  LET i == UIN2Contact(uin)
  IN  Contacts' = IF i = 0 THEN Contacts ELSE [Contacts EXCEPT ![i].status = status]

(* Before the login is done and after it, User_Online sets the status.      *)
\* (Mutant: those who were online before are passed over.)
User_OnlineNews(uin, status) ==
  IF Done_Login THEN SetPresence(uin, status) ELSE UNCHANGED Contacts
User_Online(uin, status) == SetPresence(uin, status)
User_Offline(uin) == SetPresence(uin, STATUS_OFFLINE)
Status_Update(uin, status) ==
  LET i == UIN2Contact(uin)
  IN  IF i # 0 /\ Contacts[i].status = status THEN UNCHANGED Contacts
      ELSE SetPresence(uin, status)

Says(uin, status) ==
  /\ Reads("presence") /\ uin \in listed /\ uin \in Uins /\ Quiet
  /\ said' = [said EXCEPT ![uin] = status]
  /\ UNCHANGED <<session, own, replies, timer, Done_Login, listed, last_recv_uin>>

SaysOnline(uin, status) ==
  Says(uin, status) /\ said[uin] = STATUS_OFFLINE /\ User_Online(uin, status)
SaysOffline(uin) == Says(uin, STATUS_OFFLINE) /\ User_Offline(uin)
SaysUpdate(uin, status) ==
  Says(uin, status) /\ said[uin] # STATUS_OFFLINE /\ Status_Update(uin, status)
-----------------------------------------------------------------------------
(* Messages.  Do_Msg shows a message and ends its text at the first         *)
(* separator, unless it is plain text: only plain text that begins with a   *)
(* separator is not answered.                                               *)
Kinds == {"text", "separator", "url", "added", "auth"}
Do_Msg(kind) == kind # "separator"

AutoTexts == {"OCCUPIED", "AWAY", "DND", "INVISIBLE", "NA"}

\* A message that waited at the server: shown, never answered.
Recv_Message(uin) ==
  /\ Reads("message") /\ Quiet /\ last_recv_uin' = uin
  /\ UNCHANGED <<session, own, replies, timer, friends>>

AutoReplies == auto_resp /\ Current_Status \notin {STATUS_ONLINE, "FREE_CHAT"}

\* SRV_SYS_DELIVERED_MESS with the reply of the user's status.
AutoReply(uin, kind) ==
  /\ Reads("message") /\ Do_Msg(kind) /\ AutoReplies
  /\ out' = IF Current_Status \in AutoTexts
            THEN <<icq_sendmsg("auto", uin, Current_Status)>> ELSE <<>>
  /\ last_recv_uin' = uin
  /\ UNCHANGED <<session, own, replies, timer, friends>>

\* ... with an answer of chatty, or without one where it ignores the human.
BotReply(uin, kind) ==
  /\ Reads("message") /\ Do_Msg(kind) /\ ~AutoReplies /\ BotMode
  /\ out' \in {<<icq_sendmsg("bot", uin, "response")>>, <<>>}
  /\ last_recv_uin' = uin
  /\ UNCHANGED <<session, own, replies, timer, friends>>

NoReply(uin, kind) ==
  /\ Reads("message") /\ (Do_Msg(kind) => ~AutoReplies /\ ~BotMode)
  /\ Quiet /\ last_recv_uin' = uin
  /\ UNCHANGED <<session, own, replies, timer, friends>>

SRV_SYS_DELIVERED_MESS ==
  \E uin \in Uins, kind \in Kinds :
    AutoReply(uin, kind) \/ BotReply(uin, kind) \/ NoReply(uin, kind)

ServerPacket ==
  \/ LoginReply \/ ContactListDone
  \/ \E uin \in Uins : SaysOffline(uin) \/ Recv_Message(uin)
  \/ \E uin \in Uins, status \in Others : SaysOnline(uin, status) \/ SaysUpdate(uin, status)
  \/ SRV_SYS_DELIVERED_MESS
=============================================================================
