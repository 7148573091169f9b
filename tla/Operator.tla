------------------------------ MODULE Operator ------------------------------
(***************************************************************************)
(* The operator at the keyboard (ui.c): Get_Input with the dialogues it    *)
(* keeps open over several lines, while Presence goes on between them.     *)
(*                                                                         *)
(* A key restarts the idle time; the key that ends a line also runs        *)
(* Get_Input, which remembers in status whom the next line is for.         *)
(***************************************************************************)
EXTENDS Presence

CONSTANTS
  Lines,       \* what may be typed into a dialogue
  LineLength,  \* its length, of each of them
  LIMIT,       \* a composed message stays below (450)
  Names,       \* what may be typed for a contact
  Numeric,     \* those that are numbers, and which
  NewNick,     \* the name under which "add" adds somebody
  Places       \* bound on the contact list (100)

VARIABLES
  status,      \* the dialogue: "command", "msg", "msga", or a field asked for
  last_uin, multi_uin,
  msg, msga,   \* the lines in the buffers of the two Do_Multilines
  user,        \* the fields of update and search
  addressee, typed  \* history: of the dialogue that is open

dialogue == <<status, last_uin, multi_uin, msg, msga, user, addressee, typed>>
vars == <<pc, session, idle, own, replies, timer, friends, last_recv_uin, out,
          dialogue>>

Fields == {"nick", "first", "last", "email"}
NoFields == [f \in Fields |-> ""]
END_MSG_STR == "."
CANCEL_MSG_STR == "#"

OperatorInit ==
  /\ Init
  /\ status = "command" /\ last_uin = 0 /\ multi_uin = 0
  /\ msg = <<>> /\ msga = <<>> /\ user = NoFields
  /\ addressee = 0 /\ typed = <<>>
-----------------------------------------------------------------------------
\* A key that ends no line.
Key ==
  /\ pc = "input" /\ pc' = "loop" /\ idle' = 0 /\ Quiet
  /\ UNCHANGED <<session, own, replies, timer, friends, last_recv_uin, dialogue>>

NoKey ==
  /\ pc = "input" /\ pc' = "loop" /\ Quiet
  /\ UNCHANGED <<session, idle, own, replies, timer, friends, last_recv_uin,
                 dialogue>>

(* The end of Get_Input.                                                   *)
\* (Mutant: the next message is for whoever wrote last.)
NextUinRecv(last) == last_recv_uin
NextUin(last) == last

EndOfInput == multi_uin' = NextUin(last_uin')

Enter ==
  /\ pc = "input" /\ pc' = "loop" /\ idle' = 0
  /\ UNCHANGED <<session, last_recv_uin>>

\* What only a change of the dialogue leaves alone.
Elsewhere == UNCHANGED <<own, replies, timer, friends>>
Buffers == UNCHANGED <<msg, msga, user>>
-----------------------------------------------------------------------------
(* Commands.                                                               *)
Command(kind) == Enter /\ kind \in session /\ status = "command"

Compose(uin) ==
  /\ status' = "msg" /\ last_uin' = uin /\ addressee' = uin /\ typed' = <<>>
  /\ Quiet
SendLine(uin, line) ==
  /\ out' = <<icq_sendmsg("line", uin, line)>> /\ last_uin' = uin
  /\ UNCHANGED <<status, addressee, typed>>

Message_Function ==
  /\ Command("write")
  /\ \E name \in Names :
       LET uin == nick2uin(name, Numeric)
       IN  /\ uin # -1
           /\ Compose(uin) \/ \E line \in Lines : SendLine(uin, line)
  /\ Elsewhere /\ Buffers

Reply_Function ==
  /\ Command("write") /\ last_recv_uin # 0
  /\ Compose(last_recv_uin) \/ \E line \in Lines : SendLine(last_recv_uin, line)
  /\ Elsewhere /\ Buffers

Again_Function ==
  /\ Command("write") /\ last_uin # 0
  /\ Compose(last_uin) \/ \E line \in Lines : SendLine(last_uin, line)
  /\ Elsewhere /\ Buffers

ToAll ==
  /\ Command("write")
  /\ status' = "msga" /\ addressee' = 0 /\ typed' = <<>> /\ Quiet
  /\ UNCHANGED last_uin /\ Elsewhere /\ Buffers

\* "url", "auth" and "info": a packet for who is named.
icq_sendurl(uin) == out' = <<icq_sendmsg("url", uin, "url")>> /\ last_uin' = uin
icq_sendauthmsg(uin) ==
  out' = <<Out("CMD_SENDM", "auth", uin, "")>> /\ UNCHANGED last_uin
Info_Function(uin) ==
  /\ out' = <<Out("CMD_INFO_REQ", "info", uin, ""), Out("CMD_EXT_INFO_REQ", "info", uin, "")>>
  /\ UNCHANGED last_uin

AboutOne ==
  /\ Command("others")
  /\ \/ \E name \in Names :
          LET uin == nick2uin(name, Numeric)
          IN  uin # -1 /\ (icq_sendurl(uin) \/ icq_sendauthmsg(uin) \/ Info_Function(uin))
     \/ Info_Function(last_recv_uin)
  /\ UNCHANGED <<status, addressee, typed>> /\ Elsewhere /\ Buffers

\* Packets whose contents nothing here depends on.
ToServer(cmd) == Out(cmd, "command", 0, "")
icq_rand_user_req == ToServer("CMD_RAND_SEARCH")
icq_rand_set == ToServer("CMD_RAND_SET")
reg_new_user == ToServer("CMD_REG_NEW_USER")
Change_Password == ToServer("CMD_META_USER")
start_search(by, fields) == Out("CMD_SEARCH_USER", by, 0, fields)

\* "rand" and "set" list the groups unless one is named.
Random_Function == Quiet \/ out' = <<icq_rand_user_req>>
Random_Set_Function == Quiet \/ out' = <<icq_rand_set>>

\* These two, "reg", "pass" and "search" with an address.
OneCommand ==
  /\ Command("others")
  /\ \/ Random_Function
     \/ Random_Set_Function
     \/ \E m \in {reg_new_user, Change_Password,
                  start_search("command", <<"", "", "", "email">>)} : out' = <<m>>
  /\ UNCHANGED <<status, last_uin, addressee, typed>> /\ Elsewhere /\ Buffers

\* "change" and the commands named for a status, which leave idle_flag alone.
OwnStatuses == AutoTexts \cup {STATUS_ONLINE, "FREE_CHAT"}
ChangeStatus ==
  /\ Command("status")
  /\ \E s \in OwnStatuses : icq_change_status(s)
  /\ automatic' = FALSE
  /\ UNCHANGED <<status, last_uin, addressee, typed, logged, early>>
  /\ UNCHANGED <<idle_flag, replies, friends>> /\ Buffers

SwitchBot ==
  /\ Command("status") /\ Quiet
  /\ BotMode' = ~BotMode /\ auto_resp' = ~BotMode
  /\ UNCHANGED <<status, last_uin, addressee, typed, own, timer, friends>> /\ Buffers

Auto_Function ==
  /\ Command("status") /\ Quiet
  /\ auto_resp' \in BOOLEAN
  /\ UNCHANGED <<status, last_uin, addressee, typed, BotMode, own, timer, friends>>
  /\ Buffers

Add_User ==
  /\ Command("add") /\ Len(Contacts) < Places
  /\ \E uin \in Uins :
       Contacts' = Append(Contacts, Contact(uin, NewNick, FALSE, FALSE))
  /\ out' = snd_contact_list(Contacts')
  /\ listed' = listed \cup (IF logged THEN Listed(out') ELSE {})
  /\ UNCHANGED <<status, last_uin, addressee, typed, Done_Login, said>>
  /\ UNCHANGED <<own, replies, timer>> /\ Buffers

Ask(field) ==
  /\ status' = field /\ addressee' = 0 /\ typed' = <<>> /\ Quiet
  /\ UNCHANGED last_uin /\ Elsewhere /\ Buffers
Update == Command("fields") /\ Ask("new nick")
Search == Command("fields") /\ Ask("search email")

Quit ==
  /\ pc = "input" /\ pc' = "exited" /\ status = "command" /\ "others" \in session
  /\ out' = <<ToServer("CMD_SEND_TEXT_CODE")>>
  /\ UNCHANGED <<session, idle, own, replies, timer, friends, last_recv_uin,
                 dialogue>>
-----------------------------------------------------------------------------
(* The lines of a message, in one of two buffers: it is sent at the line    *)
(* END_MSG_STR, and also when the next line has no room in it, which then   *)
(* is dropped; the lines after that are commands again.                     *)
Length(lines) == FoldLeft(LAMBDA n, l : n + LineLength[l] + 2, 0, lines)
HasRoom(lines, line) == Length(lines) + LineLength[line] < LIMIT

Typed(line) == typed' = Append(typed, line)

\* (Mutant: what was typed before a cancel stays in the buffer.)
CanceledKept(lines) == lines
Canceled(lines) == <<>>

\* What a buffer holds after a line, and whether the dialogue goes on.
After(lines, line) ==
  IF line = END_MSG_STR THEN <<>>
  ELSE IF line = CANCEL_MSG_STR THEN Canceled(lines)
  ELSE IF HasRoom(lines, line) THEN Append(lines, line) ELSE <<>>
GoesOn(lines, line) ==
  line \notin {END_MSG_STR, CANCEL_MSG_STR} /\ HasRoom(lines, line)
Sends(lines, line) == ~GoesOn(lines, line) /\ line # CANCEL_MSG_STR

TypeLine(lines, line) ==
  /\ status' = IF GoesOn(lines, line) THEN status ELSE "command"
  /\ typed' = IF line \in Lines THEN Append(typed, line) ELSE typed
  /\ UNCHANGED addressee

MessageLines == Lines \cup {END_MSG_STR, CANCEL_MSG_STR}

Do_Multiline ==
  /\ Enter /\ status = "msg"
  /\ \E line \in MessageLines :
       /\ TypeLine(msg, line)
       /\ msg' = After(msg, line)
       /\ out' = IF Sends(msg, line)
                 THEN <<icq_sendmsg("msg", multi_uin, msg)>> ELSE <<>>
       /\ last_uin' = IF GoesOn(msg, line) THEN last_uin ELSE multi_uin
  /\ UNCHANGED <<msga, user>> /\ Elsewhere

\* To every entry, the aliases too, whose uin is no user's.
Do_Multiline_All ==
  /\ Enter /\ status = "msga"
  /\ \E line \in MessageLines :
       /\ TypeLine(msga, line)
       /\ msga' = After(msga, line)
       /\ out' = IF Sends(msga, line)
                 THEN [i \in DOMAIN Contacts |->
                         icq_sendmsg("msga", Contacts[i].uin, msga)]
                 ELSE <<>>
  /\ UNCHANGED <<msg, user, last_uin>> /\ Elsewhere
-----------------------------------------------------------------------------
(* The fields of "update" and "search", one line each.                      *)
Updates == <<"new nick", "new first", "new last", "new email", "new auth">>
Searches == <<"search email", "search nick", "search first", "search last">>
FieldOf(s) ==
  CASE s \in {"new nick", "search nick"} -> "nick"
    [] s \in {"new first", "search first"} -> "first"
    [] s \in {"new last", "search last"} -> "last"
    [] OTHER -> "email"

FourFields == <<user'.nick, user'.first, user'.last, user'.email>>

Fill(line) == user' = [user EXCEPT ![FieldOf(status)] = line] /\ Typed(line)

Info_Update ==
  /\ Enter
  /\ \E k \in 1 .. 4, line \in Lines :
       status = Updates[k] /\ Fill(line) /\ status' = Updates[k + 1] /\ Quiet
  /\ UNCHANGED <<last_uin, msg, msga, addressee>> /\ Elsewhere

\* Yes or no; any other line is asked again.
Update_User_Info ==
  /\ Enter /\ status = "new auth"
  /\ \/ /\ status' = "command" /\ UNCHANGED user
        /\ \E auth \in BOOLEAN :
             out' = <<Out("CMD_UPDATE_INFO", "update", 0, FourFields),
                      Out("CMD_AUTH_UPDATE", "auth", 0, ~auth)>>
     \/ Quiet /\ UNCHANGED <<status, user>>
  /\ UNCHANGED <<last_uin, msg, msga, addressee, typed>> /\ Elsewhere

User_Search ==
  /\ Enter
  /\ \E k \in 1 .. 4, line \in Lines :
       /\ status = Searches[k] /\ Fill(line)
       /\ IF k < 4 THEN status' = Searches[k + 1] /\ Quiet
          ELSE /\ status' = "command"
               /\ out' = <<start_search("search", FourFields)>>
  /\ UNCHANGED <<last_uin, msg, msga, addressee>> /\ Elsewhere
-----------------------------------------------------------------------------
Get_Input ==
  \/ Message_Function \/ Reply_Function \/ Again_Function \/ ToAll
  \/ AboutOne \/ OneCommand \/ ChangeStatus \/ SwitchBot \/ Auto_Function
  \/ Add_User \/ Update \/ Search
  \/ Do_Multiline \/ Do_Multiline_All
  \/ Info_Update \/ Update_User_Info \/ User_Search

Background == Idle_Check \/ NothingIdle \/ NothingRead \/ ServerPacket

Next ==
  \/ Background /\ UNCHANGED dialogue
  \/ Get_Input /\ EndOfInput
  \/ Key \/ NoKey \/ Quit

Spec == OperatorInit /\ [][Next]_vars
-----------------------------------------------------------------------------
Written(by) == {m \in Range(out') : m.by = by}
Reordered(f) == <<f[2], f[3], f[4], f[1]>>

(* Whatever arrives while the operator types, a composed message goes to   *)
(* the one who was named, or last wrote, when it was begun, one to all goes*)
(* to every contact, and both hold the lines typed since, and nothing of   *)
(* an earlier message; update and search send the four fields typed since. *)
SentAsTyped ==
  [][/\ \A m \in Written("msg") : m.to = addressee /\ m.text = typed
     /\ Written("msga") # {} =>
          /\ \A m \in Written("msga") : m.text = typed
          /\ UinsOf(Contacts, DOMAIN Contacts) = {m.to : m \in Written("msga")}
     /\ \A m \in Written("update") : m.text = typed
     /\ \A m \in Written("search") : m.text = Reordered(typed')]_vars

(* Once the login is answered the status the client shows and acts on is   *)
(* the one the server was told last, by the login, by the operator or by   *)
(* Idle_Check - unless it was changed before the answer came.               *)
StatusAgreed == logged /\ ~early => Current_Status = told

(* Whoever Idle_Check made AWAY is back with the first turn after a key,    *)
(* for the server too: also when AWAY has become NA, and whatever the       *)
(* operator, the bot and the login did before the absence.  idle_flag and   *)
(* the status are two records of it, with several writers each.             *)
BackIsShown ==
  [][pc = "loop" /\ automatic /\ ~BotMode /\ idle = 0
       => /\ Current_Status' = STATUS_ONLINE /\ told' = STATUS_ONLINE
          /\ ~automatic']_vars

(* Idle_Check leaves alone what the operator chose: other than ONLINE and   *)
(* FREE_CHAT, it changes only a status that it set itself.  Not so in the   *)
(* code: an AWAY or NA chosen while idle_flag is up from an automatic one   *)
(* counts as automatic (OperatorStatus.cfg).                                *)
OwnStatusKept ==
  [][pc = "loop" /\ Current_Status \notin {STATUS_ONLINE, "FREE_CHAT"} /\ ~automatic
       => Current_Status' = Current_Status]_vars

(* Everybody in the list was made known to the server.  The entry a        *)
(* contact is found by has the status that the server gave last, before    *)
(* the login was done or after it, and stands under that heading of "w".   *)
PresenceKept ==
  /\ logged => {u \in Uins : UIN2Contact(u) # 0} \subseteq listed
  /\ \A u \in Uins : UIN2Contact(u) # 0 =>
       LET c == Contacts[UIN2Contact(u)]
       IN  /\ c.status = said[u]
           /\ ~c.invis_list => c \in IF said[u] = STATUS_OFFLINE
                                    THEN ShownOffline ELSE ShownOnline
=============================================================================
