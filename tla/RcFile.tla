------------------------------- MODULE RcFile -------------------------------
(***************************************************************************)
(* The configuration file .micqrc and the contact list it holds            *)
(* (file_util.c, with the registration of util.c): the file is read when   *)
(* the program starts, written from its beginning by Save_RC, one          *)
(* M_fdprint after the other and never cut to its new length, and appended *)
(* to by Add_User.  The process may stop anywhere, in Save_RC too.         *)
(*                                                                         *)
(* A file is a sequence of characters; a keyword, with the space behind    *)
(* it, is one of them.  An alias of a contact is an entry of the list      *)
(* whose uin is negative, which its kind says here.                        *)
(***************************************************************************)
EXTENDS Integers, Sequences, FiniteSetsExt

CONSTANTS
  MAXCONTACTS,  \* places in Contacts (100)
  Chars,        \* the characters of a file
  Digits,       \* those that uins are made of
  Uins, Nicks,  \* what the operator adds: sequences of characters
  Statuses,     \* texts of a status
  Offline, Online, \* the texts of STATUS_OFFLINE and STATUS_ONLINE
  Messages,     \* automatic replies
  DefaultMessage,
  Own,          \* the UIN of an operator who has one
  Accounts,     \* UINs the server gives, in the order of the requests
  Files,        \* files the program is first started with
  NoFile,
  MaxCommands, MaxStops  \* bounds of the model

VARIABLES
  pc,        \* "down", "register", "save", "up", or "failed" at the start
  file,
  Contacts, UIN,
  Current_Status, set_status, auto_resp, reply,
  asked,     \* requests for a new UIN
  step,      \* in Save_RC: "settings", "contact", "line" or "aliases"
  this, that, \* the counters i and j of its loops
  pos,       \* where it writes
  saved,     \* history: what the last Save_RC to begin is to leave
  written,   \* history: the last contact whose line it wrote
  cut,       \* history: a stop in Save_RC
  added,     \* history: what Add_User added and no start has missed
  commands, stops

memory == <<Contacts, UIN, Current_Status, set_status, auto_resp, reply>>
saving == <<step, this, that, pos>>
history == <<saved, written, cut, added, commands, stops>>
file_vars == <<pc, file, memory, asked, saving, history>>

NL == "\n"
Space == " "
Marks == {"*", "~"}
Signs == {"-", "+"}
Keywords == {"UIN", "Status", "Auto", "Reply", "Contacts"}
Text == Chars \ {NL}

Zero == <<"0">>
UinTexts == {u \in Seq(Digits) : u # <<>> /\ (u[1] = "0" => u = Zero)}
Lists == Marks \cup {""}
Entries == [kind : {"person", "alias"}, uin : UinTexts, nick : Seq(Text),
            list : Lists]

ASSUME PlacesAssumption == MAXCONTACTS \in Nat

ASSUME CharsAssumption ==
  /\ Digits \subseteq Chars /\ {"0", "1", "2"} \subseteq Digits
  /\ {NL, Space, "#", "M", "a"} \cup Marks \cup Keywords \subseteq Chars
  /\ Digits \cap ({NL, Space, "#"} \cup Marks \cup Signs \cup Keywords) = {}

ASSUME TextsAssumption ==
  /\ Uins \subseteq UinTexts /\ Nicks \subseteq Seq(Text)
  /\ Statuses \cup {Offline, Online} \subseteq Seq(Text)
  /\ Messages \cup {DefaultMessage} \subseteq Seq(Text)
  /\ Own \in Seq(Text) /\ Accounts \in Seq(Seq(Text))
-----------------------------------------------------------------------------
(* The contact list.  An entry is found by the first place that fits.      *)
Entry(kind, uin, nick, list) ==
  [kind |-> kind, uin |-> uin, nick |-> nick, list |-> list]

\* A number with its sign, which zero has not.
Signed(uin, negative) == IF negative /\ uin # Zero THEN "alias" ELSE "person"

Places(contacts, uin) ==
  {k \in 1 .. Len(contacts) :
     contacts[k].kind = "person" /\ contacts[k].uin = uin}

\* (Mutant: the search goes on after it found an entry.)
UIN2nickLast(contacts, uin) ==
  LET k == Places(contacts, uin)
  IN  IF k = {} THEN <<>> ELSE <<contacts[Max(k)].nick>>
UIN2nick(contacts, uin) ==
  LET k == Places(contacts, uin)
  IN  IF k = {} THEN <<>> ELSE <<contacts[Min(k)].nick>>
-----------------------------------------------------------------------------
(* Read_RC_File, a character at a time.                                    *)

\* The first place of a character in ends, from a place on.
Place(line, from, ends) ==
  Min({k \in from .. Len(line) + 1 : k = Len(line) + 1 \/ line[k] \in ends})

\* atoi: the digits at the beginning, without zeros in front.
Uin(line) ==
  LET end == Place(line, 1, Chars \ Digits)
      first == Place(line, 1, Chars \ {"0"})
  IN  IF first >= end THEN Zero ELSE SubSeq(line, first, end - 1)

\* The name after the first space.
Nick(line) == SubSeq(line, Place(line, 1, {Space}) + 1, Len(line))

Contact(line) == Entry("person", Uin(line), Nick(line), "")

\* Someone in a list, whose number may have spaces and a sign before it.
Trimmed(line) == SubSeq(line, Place(line, 1, Chars \ {Space}), Len(line))
Listed(mark, line) ==
  LET uin == Uin(IF line[1] \in Signs THEN Tail(line) ELSE line)
  IN  Entry(Signed(uin, line[1] = "-"), uin, Nick(line), mark)

\* What strtok finds in a line of aliases: the words between the spaces.
Words(line) ==
  LET words[n \in 0 .. Len(line)] ==
        IF n = 0 THEN <<>>
        ELSE LET w == words[n - 1]
             IN  IF line[n] = Space THEN w
                 ELSE IF n = 1 \/ line[n - 1] = Space
                      THEN Append(w, <<line[n]>>)
                 ELSE [w EXCEPT ![Len(w)] = Append(@, line[n])]
  IN  words[Len(line)]

\* Aliases of the entry before, which has the other sign.  What lies before
\* the first place of Contacts is taken to be zero.
Aliases(contacts, line) ==
  LET before == IF contacts = <<>> THEN Entry("person", Zero, <<>>, "")
                ELSE contacts[Len(contacts)]
      kind == Signed(before.uin, before.kind = "person")
      words == Words(line)
  IN  [k \in 1 .. Len(words) |-> Entry(kind, before.uin, words[k], "")]

\* A line of a contact list that has room.
IsMark(line) == line # <<>> /\ line[1] \in Marks
NewEntries(contacts, line) ==
  IF line = <<>> \/ line[1] = "#" THEN <<>>
  ELSE IF line[1] \in Digits THEN <<Contact(line)>>
  ELSE IF IsMark(line) THEN <<Listed(line[1], Trimmed(Tail(line)))>>
  ELSE Aliases(contacts, line)

\* The last line with a keyword counts; without one the default stays.
Told(line, keyword, old) ==
  IF line # <<>> /\ line[1] = keyword THEN Tail(line) ELSE old

\* auto_resp is TRUE from the beginning, and a line Auto can but repeat it.
ReadSetting(r) ==
  [line |-> <<>>,
   part |-> IF r.line # <<>> /\ r.line[1] = "Contacts" THEN "contacts"
            ELSE "settings",
   settings |-> [UIN |-> Told(r.line, "UIN", r.settings.UIN),
                 Status |-> Told(r.line, "Status", r.settings.Status),
                 Reply |-> Told(r.line, "Reply", r.settings.Reply)],
   contacts |-> r.contacts]

\* A mark alone makes atoi read from NULL.
ReadContact(r) ==
  IF Len(r.contacts) = MAXCONTACTS THEN [r EXCEPT !.line = <<>>]
  ELSE IF IsMark(r.line) /\ Trimmed(Tail(r.line)) = <<>>
       THEN [r EXCEPT !.line = <<>>, !.part = "crash"]
  ELSE [line |-> <<>>, part |-> r.part, settings |-> r.settings,
        contacts |-> r.contacts \o NewEntries(r.contacts, r.line)]

\* The settings end with the line Contacts, which the reader waits for.  What
\* follows the last newline is no line.
ReadChar(r, c) ==
  IF r.part = "crash" THEN r
  ELSE IF c # NL THEN [r EXCEPT !.line = Append(@, c)]
  ELSE IF r.part = "settings" THEN ReadSetting(r) ELSE ReadContact(r)

Blank ==
  [line |-> <<>>, part |-> "settings",
   settings |-> [UIN |-> <<>>, Status |-> <<"0">>, Reply |-> DefaultMessage],
   contacts |-> <<>>]

Read_RC_File(f) ==
  LET after[n \in 0 .. Len(f)] ==
        IF n = 0 THEN Blank ELSE ReadChar(after[n - 1], f[n])
  IN  after[Len(f)]

\* A file to start from ends with a newline and has the line Contacts.
ASSUME FilesAssumption ==
  /\ NoFile \notin Seq(Chars)
  /\ \A f \in Files \ {NoFile} :
       /\ f \in Seq(Chars) /\ f # <<>> /\ f[Len(f)] = NL
       /\ Read_RC_File(f).part = "contacts"
-----------------------------------------------------------------------------
NotYet == [contacts |-> <<>>, settings |-> Blank.settings]
NoSave == step' = "settings" /\ this' = 1 /\ that' = 1 /\ pos' = 0

FileInit ==
  /\ pc = "down" /\ file \in Files
  /\ Contacts = <<>> /\ UIN = <<>> /\ auto_resp = TRUE
  /\ Current_Status = Offline /\ set_status = Offline
  /\ reply = DefaultMessage
  /\ step = "settings" /\ this = 1 /\ that = 1 /\ pos = 0 /\ asked = 0
  /\ saved = IF file = NoFile THEN NotYet
             ELSE LET r == Read_RC_File(file)
                  IN  [contacts |-> r.contacts, settings |-> r.settings]
  /\ written = Len(saved.contacts)
  /\ cut = FALSE /\ added = {} /\ commands = 0 /\ stops = 0

IsIn(a, contacts) ==
  \E k \in 1 .. Len(contacts) :
    /\ contacts[k].kind = "person"
    /\ contacts[k].uin = a.uin /\ contacts[k].nick = a.nick

\* Get_Unix_Config_Info with a file.  Without the line Contacts the reader
\* goes on at the end of the file for ever; without a UIN it exits.
Start ==
  /\ pc = "down" /\ file # NoFile
  /\ LET r == Read_RC_File(file)
     IN  IF r.part # "contacts" \/ r.settings.UIN \in {<<>>, Zero}
         THEN pc' = "failed" /\ UNCHANGED <<memory, added>>
         ELSE /\ pc' = "up"
              /\ Contacts' = r.contacts /\ UIN' = r.settings.UIN
              /\ auto_resp' = TRUE
              /\ set_status' = r.settings.Status /\ Current_Status' = Offline
              /\ reply' = r.settings.Reply
              /\ added' = {a \in added : IsIn(a, r.contacts)}
  /\ UNCHANGED <<file, asked, saving, saved, written, cut, commands, stops>>

\* Save_RC with what is now in memory.
BeginSave ==
  /\ pc' = "save" /\ written' = 0
  /\ saved' = [contacts |-> Contacts',
               settings |-> [UIN |-> UIN', Status |-> Current_Status',
                             Reply |-> reply']]
  /\ UNCHANGED <<saving, cut>>

TheAuthor == <<Entry("person", <<"1", "2">>, <<"M">>, ""),
               Entry("alias", <<"1", "2">>, <<"a">>, "")>>

\* The end of Initalize_RC_File, with the UIN of the operator or a new one.
Initalize_RC_File(uin) ==
  /\ Contacts' = TheAuthor /\ UIN' = uin /\ auto_resp' = TRUE
  /\ set_status' = Online /\ Current_Status' = Online
  /\ reply' = DefaultMessage
  /\ file' = <<>>
  /\ BeginSave
  /\ UNCHANGED <<asked, added, commands, stops>>

FirstStart == pc = "down" /\ file = NoFile /\ Initalize_RC_File(Own)

\* Init_New_User: the request is sent again whenever no answer or another
\* packet came; the answer to any of them will do.
reg_new_user ==
  /\ pc \in {"down", "register"} /\ file = NoFile /\ asked < Len(Accounts)
  /\ pc' = "register" /\ asked' = asked + 1
  /\ UNCHANGED <<file, memory, saving, history>>

Init_New_User ==
  /\ pc = "register"
  /\ \E k \in 1 .. asked : Initalize_RC_File(Accounts[k])
-----------------------------------------------------------------------------
(* Save_RC.                                                                *)

\* write at pos: what stood there is replaced, what stands after it stays.
Overwrite(f, p, chars) ==
  SubSeq(f, 1, p) \o chars \o SubSeq(f, p + Len(chars) + 1, Len(f))

\* One M_fdprint.
M_fdprint(chars) ==
  /\ pc = "save"
  /\ file' = Overwrite(file, pos, chars)
  /\ UNCHANGED <<memory, asked, saved, added, commands, stops>>

GoesOn(chars) == pos' = pos + Len(chars) /\ UNCHANGED <<pc, cut>>

\* (Mutant: the reply is only written when it is in use.)
SettingWritesInUse(uin, status, auto, message) ==
  << <<"UIN">> \o uin \o <<NL>>, <<"Status">> \o status \o <<NL>>,
     (IF auto THEN <<"Auto", NL, "Reply">> \o message ELSE <<"#", "Auto">>)
       \o <<NL>>,
     <<"Contacts", NL>> >>
SettingWrites(uin, status, auto, message) ==
  << <<"UIN">> \o uin \o <<NL>>, <<"Status">> \o status \o <<NL>>,
     (IF auto THEN <<"Auto">> ELSE <<"#", "Auto">>) \o <<NL>>,
     <<"Reply">> \o message \o <<NL>>, <<"Contacts", NL>> >>

SaveSetting ==
  /\ step = "settings"
  /\ LET writes == SettingWrites(UIN, Current_Status, auto_resp, reply)
     IN  /\ M_fdprint(writes[that]) /\ GoesOn(writes[that])
         /\ IF that < Len(writes) THEN that' = that + 1 /\ UNCHANGED step
            ELSE that' = 1 /\ step' = "contact"
  /\ UNCHANGED <<this, written>>

\* The loop over i: aliases are passed by.
NoPerson(i) == \A k \in this .. i - 1 : Contacts[k].kind = "alias"
IsNext(i) ==
  i \in this .. Len(Contacts) /\ Contacts[i].kind = "person" /\ NoPerson(i)

SaveMark(i) ==
  /\ step = "contact" /\ IsNext(i) /\ Contacts[i].list # ""
  /\ M_fdprint(<<Contacts[i].list>>) /\ GoesOn(<<Contacts[i].list>>)
  /\ step' = "line" /\ this' = i /\ UNCHANGED <<that, written>>

ContactLine(c) == c.uin \o <<Space>> \o c.nick \o <<NL>>

SaveLine(i) ==
  /\ \/ step = "contact" /\ IsNext(i) /\ Contacts[i].list = ""
     \/ step = "line" /\ i = this
  /\ M_fdprint(ContactLine(Contacts[i])) /\ GoesOn(ContactLine(Contacts[i]))
  /\ step' = "aliases" /\ this' = i /\ that' = 1 /\ written' = i

\* The loop over j: the entries with the negated uin, which zero has itself.
Names(d, c) == d.uin = c.uin /\ (d.kind = "alias" \/ c.uin = Zero)
NoAlias(j) == \A k \in that .. j - 1 : ~Names(Contacts[k], Contacts[this])

SaveAlias(j) ==
  /\ step = "aliases" /\ j \in that .. Len(Contacts)
  /\ Names(Contacts[j], Contacts[this]) /\ NoAlias(j)
  /\ M_fdprint(Contacts[j].nick \o <<Space>>)
  /\ GoesOn(Contacts[j].nick \o <<Space>>)
  /\ that' = j + 1 /\ UNCHANGED <<step, this, written>>

EndAliases ==
  /\ step = "aliases" /\ NoAlias(Len(Contacts) + 1)
  /\ M_fdprint(<<NL>>) /\ GoesOn(<<NL>>)
  /\ step' = "contact" /\ this' = this + 1 /\ that' = 1 /\ UNCHANGED written

\* The last newline, and the close.
EndSave ==
  /\ step = "contact" /\ NoPerson(Len(Contacts) + 1)
  /\ M_fdprint(<<NL>>)
  /\ pc' = "up" /\ NoSave
  /\ cut' = (cut /\ file'[Len(file')] # NL)
  /\ UNCHANGED written

Save_RC ==
  \/ SaveSetting \/ EndAliases \/ EndSave
  \/ \E i \in 1 .. Len(Contacts) : SaveMark(i) \/ SaveLine(i) \/ SaveAlias(i)
-----------------------------------------------------------------------------
Command == pc = "up" /\ commands < MaxCommands /\ commands' = commands + 1

SaveCommand ==
  /\ Command /\ UNCHANGED <<file, memory, asked, added, stops>>
  /\ BeginSave

\* Add_User, which appends to the file and to the list.  A list that is full
\* is left to the hazards: the model does not write past its end.
\* (Mutant: the file is opened without O_APPEND.)
AppendedInFront(f, chars) == Overwrite(f, 0, chars)
Appended(f, chars) == f \o chars

Add_User(uin, nick) ==
  /\ Command /\ Len(Contacts) < MAXCONTACTS
  /\ file' = Appended(file, ContactLine(Entry("person", uin, nick, "")))
  /\ Contacts' = Append(Contacts, Entry("person", uin, nick, ""))
  /\ added' = added \cup {[uin |-> uin, nick |-> nick]}
  /\ UNCHANGED <<pc, UIN, Current_Status, set_status, auto_resp, reply, asked,
                 saving, saved, written, cut, stops>>

SetReply(message) ==
  /\ Command /\ reply' = message
  /\ UNCHANGED <<pc, file, Contacts, UIN, Current_Status, set_status, auto_resp,
                 asked, saving, saved, written, cut, added, stops>>

SetAuto ==
  /\ Command /\ auto_resp' = ~auto_resp
  /\ UNCHANGED <<pc, file, Contacts, UIN, Current_Status, set_status, reply,
                 asked, saving, saved, written, cut, added, stops>>

\* The operator's, or by set_status the server's answer to the login.
SetStatus(status) ==
  /\ Command /\ Current_Status' = status
  /\ UNCHANGED <<pc, file, Contacts, UIN, set_status, auto_resp, reply,
                 asked, saving, saved, written, cut, added, stops>>

Stop ==
  /\ pc # "down" /\ stops < MaxStops
  /\ pc' = "down" /\ stops' = stops + 1
  /\ cut' = (cut \/ pc = "save")
  /\ NoSave /\ asked' = 0
  /\ Contacts' = <<>> /\ UIN' = <<>> /\ auto_resp' = TRUE
  /\ Current_Status' = Offline /\ set_status' = Offline
  /\ reply' = DefaultMessage
  /\ UNCHANGED <<file, saved, written, added, commands>>

FileNext ==
  \/ Start \/ FirstStart \/ reg_new_user \/ Init_New_User
  \/ Save_RC \/ SaveCommand \/ Stop
  \/ \E uin \in Uins, nick \in Nicks : Add_User(uin, nick)
  \/ \E message \in Messages : SetReply(message)
  \/ SetAuto
  \/ \E status \in Statuses \cup {set_status} : SetStatus(status)

FileSpec == FileInit /\ [][FileNext]_file_vars
-----------------------------------------------------------------------------
Found == Read_RC_File(file).contacts

\* The next start reads the file to its end, and the array holds it.
Readable == Read_RC_File(file).part = "contacts" /\ Len(Found) < MAXCONTACTS

\* A line of aliases that begins with a digit or a mark is one of a contact.
AliasesAreNames ==
  LET c == saved.contacts
  IN  \A i, j \in 1 .. Len(c) :
        /\ c[i].kind = "person" /\ Names(c[j], c[i]) /\ c[j].nick # <<>>
        /\ \A k \in 1 .. j - 1 : ~Names(c[k], c[i])
        => c[j].nick[1] \notin Digits \cup Marks

(* Whatever stands in the file behind them, and wherever Save_RC was cut   *)
(* short: the contacts it has written are found again by the next start    *)
(* under the names they had.                                               *)
SavedFoundAgain ==
  file # NoFile /\ Readable /\ AliasesAreNames =>
    LET contacts == SubSeq(saved.contacts, 1, written)
    IN  \A k \in 1 .. Len(contacts) :
          contacts[k].kind = "person" =>
            UIN2nick(Found, contacts[k].uin)
              = UIN2nick(contacts, contacts[k].uin)

(* Nobody whom the operator added is lost, unless a Save_RC was cut short  *)
(* and none that followed has mended the end of the file.                  *)
AddedIsListed ==
  pc # "save" /\ ~cut /\ file # NoFile /\ Readable =>
    \A a \in added : IsIn(a, Found)

(* Then a start also gets as far as the contacts, and with the account,    *)
(* the status and the automatic reply that were saved last.                *)
SettingsKept ==
  pc # "save" /\ ~cut /\ file # NoFile =>
    LET r == Read_RC_File(file)
    IN  r.part # "settings" /\ r.settings = saved.settings
=============================================================================
