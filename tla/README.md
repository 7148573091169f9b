# Verification of the Grumpy ICQ bot

Grumpy is an ICQ client of the 1990s (micq) with a chatbot (splotch) inside.
It is one process with one loop: it sleeps, waits on a UDP socket, handles one
packet, handles one line of the operator, sends keep alives and retransmits
what was not acknowledged. Around it there are a lossy network, a forked child
that logs in again, a second program (`splotch-relax`) that rewrites files of
the bot while it runs, and files that outlive the process.

The sources of the client are in `src/splicq/Micq/`; the files of the same name
one directory up are copies of them. Lines below refer to `src/splicq/Micq/`
unless a path is given.

## 1. Inventory

| Component | State | Operations | What makes it hard | What makes it correct |
|---|---|---|---|---|
| Resend queue (`msg_queue.c`, `sendmsg.c`) | the queue, `next_resend` | `SOCKWRITE`, `Do_Resend`, `Check_Queue`, `Dump_Queue` | late, repeated and missing acknowledgements; a timer cached in four places; a search that rotates the queue | nothing is lost, copied or sent too often; every packet is acknowledged or given up |
| Main loop and server packets (`micq.c`, `server.c`, `icq_response.c`, `ui.c`) | `seq_num`, `last_seq`, `Quit`, `next` | `main`, `Handle_Server_Response`, `Server_Response`, `Keep_Alive`, `Get_Input`, `Quit_ICQ` | duplicates, reordering, a dead server, `fork` | numbers are unique, acknowledgements match their packet, every delivery is acknowledged, messages are handled once, a dead server is noticed |
| Search for random users (`Idle_Check`, `icq_response.c`) | `mytime_seconds`, `delta`, `Last_Probed_Rand_User`, the file of UINs met | request, two replies, greeting | replies that interleave, crashes between recording and greeting, a clock tested for equality | nobody is greeted twice or by another's name; requests go on |
| Contacts, presence, auto-away (`Idle_Check`, `icq_response.c`, `contact.h`) | `Contacts`, `Current_Status`, `idle_flag`, `auto_resp` | login, four packets about presence, messages, the idle timer | two tables filled before and after the login is done; a status with three writers | the client shows what the server said and what the server was told |
| Text user interface (`ui.c`) | `status`, `last_uin`, `multi_uin`, static buffers of lines | `Get_Input` and its dialogues | a message is composed over many turns of the loop | what was typed goes to whom it was for |
| Configuration (`file_util.c`, `util.c`) | `.micqrc` | read, save, append, registration | the file is overwritten in place and never shortened; stops between two writes | contacts and settings are found again |
| Conversation (`chatty`, `ask`, ... of `splotch.c`, reply in `server.c`) | `State`, `main.act` files, ignore list | message, save, reset | several humans share one State | what belongs to one human is not used against or for another |
| Template matching and wording (`splotch.c`) | the templates' `tnext`, last questions and words; counts of affect | `buildtempl`, `trytempl`, `usetempl`, `pick_templ_winner`, `add_meta_remarks` | one buffer passed from key to key and from template to template; replacements in place | the best template answers; memory holds the human's words; words are turned once |
| Selection of responses (`splotch.c`, `splotch-relax.c`) | `.Act-*` files | draw, update, relax | a draw with rounding and off-by-one, two programs and one file | no quick repetition, no silence, every response has its turn |
| Sorting (`shell_sortr`) | none | one function | gaps, ties | a permutation in order |
| Packet encoding (`Wrinkle`, `Scramble_cc`, `Gen_Checksum`, `rus_conv.c`) | none | | bits, 32 bit arithmetic, bytes beyond the packet | the server can read it; letters come back |
| Calculator (`calculator.c`) | the table of variables, the last answer | a sum, an assignment | definitions of many questions that refer to each other | no circular definition, a sound table |
| Web front end (`www_grumpy.c`, `sock_comm.c`) | `question`, `oldanswer`, `newpath`, the connection | one request at a time | clients that leave, a server that dies, static variables | each client sees its own words in one conversation |
| Scripts and data | | | | not modelled |

The components meet in few places. The handlers of server packets and the
operator's commands call `SOCKWRITE`, which sends and queues; a `SRV_ACK` calls
`Check_Queue`; the loop calls `Do_Resend` when `next_resend` has passed. A
`SRV_SYS_DELIVERED_MESS` calls `chatty` and sends what it returns. `Idle_Check`
writes requests and greetings, and the replies come back through the handlers.
`chatty` draws words and phrases through `get_random_entry`.

The operator's dialogues run between the packets of the server, and both change
the contact list and the status, which `Save_RC` writes to `.micqrc`. The bot's
answers come from `chatty`, which the web front end calls as well.

The hazards, each at its line, are listed in `PROJECT.json` with the properties
that would catch them going wrong.

## 2. Modules

| Module | Models | Built on |
|---|---|---|
| `MsgQueue` | the queue as operators on a sequence of entries: push, retransmission, removal by an acknowledgement, the expiry of the head | |
| `PacketLedger` | abstract: what becomes of each packet, and how often it was sent | |
| `ResendQueue` | `SOCKWRITE`, `Do_Resend`, `Check_Queue` and `next_resend` under any callers and any acknowledgements | `MsgQueue`; implements `PacketLedger` |
| `FifoQueue` | abstract: a FIFO with `Check_Queue` | `MsgQueue` |
| `MsgList` | `msg_queue.c` with pointers and a heap | implements `FifoQueue` |
| `IcqClient` | main's loop, the handlers, the network, the forked child | `MsgQueue`; implements `PacketLedger` |
| `PacketCode` | check code, scrambling and wrinkling of a packet | |
| `RandomUser` | `Idle_Check` in bot mode, the replies, the file of UINs | |
| `Presence` | contact list, presence, own status, automatic replies, the idle timer | |
| `Operator` | the keyboard: commands and open dialogues | `Presence` |
| `RusConv` | the tables of the Russian code pages | |
| `RcFile` | `.micqrc`, written, cut short, appended to and read | |
| `Chatty` | the conversation with several humans, the ignore list, the saved files | |
| `Phrases` | texts as sequences of words: searching, synonyms, pronouns | |
| `Splotch` | the stand-alone chatbot: templates, replies, recalled topics, remarks | `Phrases` |
| `Entries` | `get_entry`, `number_of_entries` | |
| `Sorting` | `shell_sortr` | |
| `Activation` | the draw from a file of responses, and `splotch-relax` | |
| `Calculator` | lexer table, parser stack, assignments, evaluation | |
| `UrlText` | the decoding of the words of a web request | |
| `WebGrumpy` | the web front end and its clients | `UrlText` |
| `ResendQueueProof`, `IcqClientProof`, `OperatorProof`, `SplotchProof`, `WebGrumpyProof` | the proofs about the module they are named for | |
| `BotProof` | the proofs about `Chatty`, `RandomUser`, `Activation` and `Calculator` | |
| `ListAndFileProof` | the proofs about `MsgList` and `RcFile`, which are in one module only because they share no names | |
| `MsgQueueProof` | lemmas about the operators of `MsgQueue`, and induction over sets of numbers | |
| `MC...` | the instances for TLC, and the lemmas about pure functions that TLC evaluates (`ASSUME`) | |

Modules that are proved about together must not share a name, so some of them
name their specification for what it is about: `SearchSpec` in `RandomUser`,
`DrawSpec` in `Activation`, `SumSpec` in `Calculator`, `FileSpec` in `RcFile`.

### ResendQueue

`queue` is the list of `struct msg`, head first. An entry keeps the SEQ
doubleword, the command (the body, as far as `Do_Resend` looks at it),
`attempts` and `exp_time`. `next_resend` and `Quit` are the globals; `now` is
`time(NULL)`; `looping` says whether main has left its set-up. `fate` and
`sends` are history variables. `Retry`, `Discard` and `ResendNothing` are the
three outcomes of `Do_Resend`. The callers are open: any unused SEQ, any
command, any time. That SEQs are unused is the callers' duty, which `IcqClient`
checks (`UniqueSEQ`). `EnterLoop` is the assignment `next_resend = 10`
(`micq.c:549`), a date long past that takes the place of the expiry of the
login packet; it may come before or after a write, since the callers are open.

### MsgList

One variable holds head, tail, count and the fields of all nodes; `free` turns
the fields of a node into `FREED`, so a stale pointer would be seen by the
walk of `ListIntact` and by the contents compared with `FifoQueue`. The loops
of `Check_Queue` and `Dump_Queue` are functions from the number of turns to the
list they leave, stopped at the first turn at which the code's condition fails;
the bound is re-read at each turn, as in the code. They run to completion within
one action because nothing else runs in the process.

### IcqClient

`pc` follows the loop of main: `Idle_Check`, one read of the socket, the
operator, `Keep_Alive`, `Do_Resend`. Each handler is one action, with all the
packets it writes (`SendAll`), so the arithmetic of `seq_num` within a handler
is visible: `SOCKWRITE` takes back one increment for a `CMD_KEEP_ALIVE`, which
therefore shares its low word with the packet after it. The answer to a
`SRV_MULTI_PACKET` is that of its parts in their order; a part that is itself a
`SRV_ACK` is left out (its SEQ is cut to 16 bits there, so it matches nothing
and amounts to a lost acknowledgement). `SRV_TRY_AGAIN` adds a child, which logs
in later with its copy of `seq_num` and exits. The random base that is added to
the low word is left out: it shifts all numbers alike. Handlers that only print
or only change the contact list are the stutter of the handling: they are
acknowledged and write nothing.

The network keeps every packet of the client forever and gives it to the server
at any time or never; it delivers each server packet up to `MaxDeliveries`
times, in any order unless `ORDERED`. An acknowledgement can be delivered any
number of times. The server acknowledges all it receives and sends packets of
`SrvPackets` after it saw a login; it may die.

### RandomUser

One turn of `Idle_Check` is one action, except that the turn that greets is two:
the user is on disk before the second of sleep and the greeting
(`micq.c:421-427`), and the process may stop there. No reply is handled between
the two, as in the code. `mytime_seconds` is kept modulo `CYCLE`, a multiple of
all periods; the wrap of the `int` after 68 years is not modelled. Both replies
may come repeatedly and about any user asked for.

### Chatty

`State` becomes `current`, `topics`, `act`, `last_question` and `ntaboo_words`.
Topics are the templates with a priority above `SERIOUS_TOPIC`; all others are
one neutral template, which only lets the topics relax. (A template of priority
5 exactly could come back as a rambling without being in the history; it is
counted among the neutral ones.) Questions are reduced to who asked them. An
activation is the number of firings of other templates until it counts as 0.
`TabooMessage`, `TopicMessage` and `OtherMessage` are the paths through
`chatty`, each with the switch of humans before it and the look-up of the ignore
list after it. `ask` puts a topic into the history before `usetempl` looks for a
response; when a file gives none, `usetempl` returns before it remembers the
question (`splotch.c:1274-1276`), and the topic stays in the history with the
question of whoever fired it before. The history variable `answered` has the topics
of the current conversation for which that did not happen. Random draws, the choice
of templates and whether a file gives a response are nondeterministic.

### Activation

Activities are integers in hundredths, because the file holds two decimals and
is read back at each draw; `Recovered` is the RC filter with that rounding.
`Winner` describes `pick_winner` without its loop: which entries can be drawn
for some `pcrit` and some order of equal activities. `Norm` adds the unsorted
vector, as the code does (`splotch.c:512`). `splotch-relax` reads and writes in
two steps. `INHIBITED` lists the activities of a response in the draws after it
was drawn, as long as they are not positive; an assumption says that they are
what the inhibition and the recovery make them.

### Presence and Operator

One turn of main is three steps: `Idle_Check` (`pc = "loop"`), the wait for a
packet (`"socket"`), the keyboard (`"input"`). `idle` counts how many times
`away_time` has passed since the last key. `Contacts` is the array, an alias
being an entry with a negative uin, so the search for the first entry that fits
is the code's, also when a contact was added twice. `snd_contact_list`
splits the people of the list over packets by their rank in it; a packet is the
set of their uins. The packets a step writes are in `out`, with the handler that
wrote them (`by`); a history variable `told` has the status the server was told
last, `said` the one it gave last for each uin. `automatic` says that the status in
force was set by `Idle_Check` and by nobody since: unlike `idle_flag`, which only
`Idle_Check` writes, it ends with a status that the operator or the login sets.

`status` is the variable of `Get_Input` that says what the next line is for.
`Message_Function`, `Reply_Function`, `Again_Function`, `ToAll`, `Update` and
`Search` open a dialogue; `Do_Multiline`, `Do_Multiline_All`, `Info_Update`,
`Update_User_Info` and `User_Search` take one line of it. `last_uin` and
`multi_uin` are two variables, as in the code: the first is overwritten by what
a command names, the second is copied from it at the end of `Get_Input` and is
what the message is sent to. `After` describes the static buffer of
`Do_Multiline`: a line that has no room ends the message and is dropped
(`ui.c:90-111`). The names of the commands and what is printed are left out.

### RcFile

A file is a sequence of characters; a keyword is one of them.

The reader (`Read_RC_File`) is a machine that takes a character at a time:
`ReadChar` gathers a line, and at a newline `ReadSetting` or `ReadContact` looks
at it. `ReadSetting` keeps what the last line with a keyword said and waits for
the line `Contacts`. From there on a line that begins with a digit is a contact,
one with `*` or `~` a contact in that list, and everything else a line of aliases
of the entry before. What follows the last newline is no line. A mark alone ends
the program, since `strtok` finds nothing and `atoi` reads from `NULL`
(`file_util.c:293`, `314`).

The writer (`Save_RC`) is one step per `M_fdprint`, at `pos`, over what is there:
`SaveSetting` for the lines in front, then the loop over `i` (`this`) with
`SaveMark` and `SaveLine`, and in it the loop over `j` (`that`) with `SaveAlias`.
`Overwrite` keeps what stands behind, because the file is opened without
`O_TRUNC` (`file_util.c:444`). `Stop` may come between any two of these steps, and
a cut is only mended by a later save that runs to its end and leaves a newline
there (`cut`). `Add_User` appends a line to the file and an entry to the list.
`Init_New_User` asks for an account until one of the answers arrives.

A file the program is first started with ends with a newline and has the line
`Contacts` (`FilesAssumption`). Without the first, the first contact added would
be appended to the last line and lost; without the second, the program does not
start.

### Phrases, Splotch, Entries, Sorting

A text is a sequence of words and marks, which is what `phrasefind` looks at
(whole words only). `substitute_pattern`, `gswap` with its parity bit,
`chop_off_trailing_clauses` and the rest are operators, their loops recursive
functions of the number of turns. `Splotch` is the program
around them: `Type` is a line of the human, `TryTemplate` one turn of the loop
in `trytempl`, with the buffer `words` that the keys of one template leave to
the next; `UseWinner`, `UseNeutral` and `pick_templ_winner` are the calls of
`usetempl`, on the buffer or, for a recalled topic, on its `last_words` itself.
`FirstRemark` and `NextRemark` are `add_meta_remarks`, which asks the bot itself
for each remark. What the code draws at random (which alternative first, which
topic is active enough, "me" or "i", thresholds) is nondeterministic, and so
are the contents of words that were never set. `buildtempl` reads the dictionary
of the instance from its lines, with priorities and missing ones.

### Calculator

`Varname` and `Variable` are the table: names in the order they were met, and
their definitions. An expression is reduced to the places of the variables in
it, since numbers do not matter to the properties. The parser is the stack of
the yacc driver: `LexVariable` and `LexNumber` shift, `ReduceVariable`,
`Operation`, `Constant` and `Assign` are the rules, in any order the stack
allows, which includes every sentence of the grammar. `checkrecursion` and
`eval` follow definitions; both are stated with closed sets instead of
recursion. The lexer enters a name before anybody knows whether the sentence
parses, and a full table ends the program.

### WebGrumpy

`pc` follows the loop of main: accept, lines of the request,
`give_moved_message`, write, close. A client has sent none, one or both lines of
its request, and may hang up; then `full_read` returns nothing for ever
(`ReadNothing`). `Die` is the end of the process where it works for a client (a
host without a name, a client gone while the page is written); `Start` is
`do-www-grumpy`. `question` and `newpath` are the static variables that a
request without words leaves alone; each `Start` makes `oldanswer` "(sleeping)"
again, and each page is recorded with the life of the process (`life`) it was
given in. `cleanup` decodes in two passes over one buffer, as the code does;
a decoded percent sign is looked at again in the first of them.

### PacketCode, RusConv

Pure functions. A `DWORD` is the set of its bits, so shifts, masks and sums
modulo 2^32 are exact. What the server does to read a packet (put the bits of
the code back, take the key off) is modelled to say that nothing is lost.

## 3. Runs

| Run | Shows |
|---|---|
| `ResendQueue` | types; `TimerNeverLate`, `QueueIsPending`, `AttemptsSpent`; the refinement of `PacketLedger`; and, under fairness, `EveryPacketResolved` and `FatalPacketAckedOrQuit` |
| `MsgList` | `ListIntact` and the refinement of `FifoQueue` |
| `IcqClientSafe` | `UniqueSEQ`, `AckedWasReceived`, `DeliveriesAnswered` and the refinement of `PacketLedger` by the whole client, with contact list, messages, keep alives, duplicates and reordering; the `ASSUME`s of `MCIcqClient` that a wrinkled packet can be read |
| `IcqClientLive` | `HandledOnce` on a network that does not reorder; `DeadServerNoticed`, with forked logins and a wrapping `seq_num` |
| `RandomUser` | `GreetedOnce`, `GreetedByName`, `RequestedAgain` |
| `Operator` | `StatusAgreed`, `PresenceKept`, `SentAsTyped`, `BackIsShown`: packets, the idle timer and the dialogues of the operator interleave; the `ASSUME` that Russian letters come back |
| `RcFile` | `SavedFoundAgain`, `AddedIsListed`, `SettingsKept` over saves, appends, stops and restarts |
| `Chatty` | `IgnoredForOwnWords`, `IgnoredNotAnswered`, `HistoryOfCurrent` |
| `Splotch` | `NoBetterTemplate`, `MemoryKept`, `TurnedOnce`, `RobotOnlyIfRepeated`; the `ASSUME`s on pronouns, `shell_sortr` and `get_entry` over all small inputs |
| `Activation` | `NoQuickRepeat`, `SpeaksAgain` |
| `Calculator` | `NoCircle`, `TableSound`, `ShownWasTyped` |
| `WebGrumpy` | `AnswersItsWords`, `PagesContinue`, `ServedInTurn`; the `ASSUME` on `cleanup` |

### Counterexample configurations

These configurations are not among the runs. They ask for something the
repository says of the program or its user would expect, and TLC answers with a
trace in which the code does otherwise: `tlc -config ChattySaved.cfg
Chatty.tla`.

| Configuration, module | Property | What happens |
|---|---|---|
| `RetransmissionLate`, `ResendQueue` | `RetransmittedInTime` | `Check_Queue` pushes the entries before the acknowledged one to the tail and arms the timer for the new head. An overdue packet then waits for younger ones (`icq091.txt`: ten seconds) |
| `IcqClientReordered`, `MCIcqClient` | `HandledOnce` | only the last SEQ is compared; `serv_mess`, meant for this, is written and never read (`micq.c:77`, `243`) |
| `IcqClientFork`, `MCIcqClient` | `UniqueSEQ` | the child of `SRV_TRY_AGAIN` logs in with a number the parent gives out again; its queue entry is lost with it |
| `ChattySaved`, `Chatty` | `SavedPerHuman` | `save_splotch` is called with the new human's id and the old human's state |
| `ChattyRecalled`, `Chatty` | `RecalledWithOwnQuestion` | a topic is in the history before `usetempl` looks for a response; when a file gives none it keeps the question of an earlier human, or none, to be recalled with (`splotch.c:164-166`: kept "for correct reference", "reset between human_ID switches") |
| `OperatorStatus`, `MCOperator` | `OwnStatusKept` | `idle_flag` stays up when the operator replaces an automatic status; an AWAY or NA chosen then is taken for an automatic one and becomes ONLINE at the next turn (`micq.c:438-448`) |
| `ActivationStarved`, `MCActivation` | `EveryResponseUttered` | the index is one past the entry that crosses `pcrit`, and the norm is not that of the sorted vector |
| `WebHangs`, `MCWebGrumpy` | `ShutsDown` | a client that leaves before the empty line is read from for ever (`www_grumpy.c:371`: "listens to any incoming clients, and shuts the connection down") |

Other disagreements the modelling brought up, each a short variation of one of
these and not run on its own: the login packet is retransmitted in the first
turn of the loop, because of `next_resend = 10`; `seq_num` wraps after 65536
packets (`WORD` small in `IcqClientSafe` breaks `UniqueSEQ`); the reply to an
info request of the operator makes the bot greet that user like a random one; a
`delta` that does not divide the minute can miss every multiple at which a
random user is requested (`CtlFiles` with `<<3, 3>>` breaks `RequestedAgain`); a
rambling may quote what the human before said, as the comments admit
(`splotch.c:139-142`, `2387`); a write of `splotch-relax` undoes the inhibition
of a draw made since it read (`NoQuickRepeat` without `relaxed = 0` fails); the
answer to the login sets the status of `.micqrc` even when the operator changed
it meanwhile (`StatusAgreed` without `~early`); a contact added twice has an
entry that nothing updates (`PresenceKept` speaks of the one that is found); an
alias that begins with a digit becomes a contact (`AliasesAreNames` in
`RcFile`); an alias of a contact with the number 0 is its own contact, since the
sign is what tells the two apart (`Signed`); and a `*` or `~` alone on a line
ends the program at its start (`ReadContact`).

### Bounds, and why they are enough

* `ResendQueue`: three packets, two attempts, a timeout of 1 s, writes until
  time 4, the clock until 28. Three packets are what a rotation needs: one
  removed, one before it and one after. Two attempts have a first and a last.
  `EveryPacketResolved` would fail if the clock stopped at `MaxTime` with a
  packet pending, so that it passes shows the bound is late enough.
  The theorems below lift the safety part to all values. `RetransmissionLate`
  has a timeout of 4 s, so that two writes are apart.
* `MsgList`: four nodes, and two entries may carry the same SEQ.
* `IcqClient`: `MaxSrv` server packets, each delivered up to twice; unprompted
  packets until `seq_num` reaches `MaxSeq`. Answers and keep alives are not
  bounded but by the clock. In `IcqClientSafe` numbers do not wrap; in
  `IcqClientLive` they do (`WORD = 4`).
* `RandomUser`: three users, a minute of 2 s, periods of 1, 3 and 5 minutes.
* `Chatty`: two humans, two topics, a history of two, two taboo
  words before the list, one meta remark per reply; 1.2 million states.
* `Activation`: two responses and a third one added later, one run of
  `splotch-relax`, the constants of words (`ALPHA` 0.4, inhibition -2), which
  keep a response away for three draws.
* `Operator`: two contacts, an alias and a number that is in no list; an "add"
  may put any of three uins behind them. Two contacts fit one packet, so that the
  list takes two. What happens in a run is one of five `Sessions`, each a set of
  kinds; they overlap where parts touch (messages with dialogues, status with
  login and idle timer, contacts with presence). `LIMIT = 7` ends a message after
  two or three lines. 141055 states.
* `RcFile`: five commands, two stops, two files to start from (none, and one with
  aliases and both lists), an array of 7 contacts; 1.3 million states. The
  preconditions `Readable` and `AliasesAreNames` of its properties keep the array
  within its limit, the file without a mark alone, and the first alias of a
  contact without a digit or a mark in front: beyond them the code does otherwise
  (see above and the hazards). The theorems below lift all but these two.
* `Splotch`: a dictionary of six templates with every kind of key, a priority
  above `MAXPRIOR_TOPIC`, a missing one and a neutral one; three lines; a history
  of one topic, so that the second topic pushes the first out.
* `Calculator`: four names for four places, so that the next one ends the
  program, and three places on the parser's stack, which is a sum of two
  operands. Names are symmetric.
* `WebGrumpy`: three clients and a backlog of two, so that one has to wait for a
  place; two empty reads for a lost connection; requests with an escape within an
  escape, with a plus sign, and without words.

The `ASSUME`s of the `MC` modules evaluate pure functions on every input up to a
size: pronouns on texts of up to three words, `shell_sortr` on vectors of up to
five numbers, `get_entry` on files of up to six lines, `cleanup` on what a browser
can send in six characters, `Wrinkle` on packets of 25 to 28 bytes (each number
of bytes beyond a doubleword), and the Russian code pages on every byte: only
168 and 184, and back 163 and 179, the letter io, do not return.

`CHECK_DEADLOCK FALSE` is set where a bound on clock, commands or lines stops the
model, and where the program exits.

### Fairness

`ResendQueue`: main enters its loop, calls `Do_Resend` when it is due and the
clock advances (`WF` each). The callers and the server owe nothing.
`IcqClient`: `WF` of the client as a whole, a process that is not blocked (select
and the sleeps are bounded). Nothing is assumed of network, server or child.
`RandomUser`: `WF` of `Idle_Check`, which main calls at every turn, and finally
no more restarts. `Activation`: draws go on (`WF`), and a response that can be
drawn time and again is drawn time and again (`SF` of each `Draw(r)`), which is
what independent random numbers give; it is deliberately strong, so that
`EveryResponseUttered` cannot fail for bad luck. `WebGrumpy`: `WF` of the server,
of its start by `do-www-grumpy`, and of each client's next line; nothing makes a
client connect or hang up, and `ServedInTurn` is said of runs in which nobody
hangs up, because the code hangs with whoever does (`WebHangs`).

## 4. Proofs

The theorems hold for every value of the constants, under the assumptions that
the modules state and TLC evaluates in the runs. In each module the properties
are not inductive one by one; the conjunction that is carries a name.

| Module, inductive invariant | Theorems | Property of a run |
|---|---|---|
| `ResendQueueProof`, `QueueInv` | `TypeCorrect`, `TimerSafe`, `QueueExact`, `AttemptsExact` | `TypeOK`, `TimerNeverLate`, `QueueIsPending`, `AttemptsSpent` |
| | `LedgerImplemented` | `ImplementsLedger` |
| `ListAndFileProof`, `ListInv` | `ListAlwaysIntact`, `ListImplementsFifo` | `ListIntact`, `ImplementsFifo` |
| `IcqClientProof`, `DeliveryInv` | `AllDeliveriesAnswered`, `RepeatsHandledOnce` | `DeliveriesAnswered`, `HandledOnce` |
| `IcqClientProof`, `PacketInv` | `NumbersUnique`, `AcksAreTrue`, `ClientImplementsLedger` | `UniqueSEQ`, `AckedWasReceived`, `ImplementsLedger` |
| `BotProof`, `GreetInv` | `SearchTypes`, `NobodyGreetedTwice`, `NobodyMisnamed` | `GreetedOnce`, `GreetedByName` |
| `OperatorProof`, `StatusAgreed /\ AutoInv`, `DialogueInv` | `StatusIsTold`, `ReturnIsShown`, `DialoguesSendWhatWasTyped` | `StatusAgreed`, `BackIsShown`, `SentAsTyped` |
| `OperatorProof`, `PresenceInv` | `PresenceIsShown` | `PresenceKept` |
| `ListAndFileProof`, `FileInv` | `SavedAreFound`, `AddedStay`, `SettingsStay` | `SavedFoundAgain`, `AddedIsListed`, `SettingsKept` |
| `BotProof`, `TalkInv` | `OnlyTheRudeIgnored`, `TheIgnoredUnanswered`, `HistoryIsOwn` | `IgnoredForOwnWords`, `IgnoredNotAnswered`, `HistoryOfCurrent` |
| `SplotchProof`, `RobotInv` | `RobotsRepeat` | `RobotOnlyIfRepeated` |
| `SplotchProof`, `MatchInv` | `BestTemplateAnswers` | `NoBetterTemplate` |
| `SplotchProof`, `MemInv` | `OwnWordsRemembered` | `MemoryKept` |
| `BotProof`, `ActInv` | `RepetitionsAvoided` | `NoQuickRepeat` |
| `BotProof`, `CalculatorInv` | `SumTypes`, `NeverCircular`, `TableIsSound`, `RepliesToItsQuestion` | `NoCircle`, `TableSound`, `ShownWasTyped` |
| `WebGrumpyProof`, `WebInv` | `ClientsAreAnswered`, `ConversationContinues` | `AnswersItsWords`, `PagesContinue` |

**Induction.** The library's induction theorems take an operator, which the
provers at hand cannot instantiate. What they can do is cite a fact about sets:
`MsgQueueProof` proves from the well-foundedness of `<` that every set of naturals
with a member has a least one (`Least`), and from this that a set with 0 and the
successor of each of its members is `Nat` (`SetInduction`). A lemma by induction
then defines the set of numbers it holds of and shows it is all of them.
`SequenceInduction` (`ListAndFileProof`) is the same for sequences that grow at
their end. A loop written as a recursive function needs one such argument to show
that the function exists; after that its equation is a fact like any other.

**Resend queue.** The assumptions: `RESEND_TIMEOUT`, `INT_MAX` and the times are
naturals, `MAX_ATTEMPTS` is positive, and main starts at a time not before the
date it writes into `next_resend` (`STARTUP <= StartTime`: the year is after
1970). That the head has attempts left says something about `sends` only if an
entry's count is that of its packet (`QueueIsPending`), and removing an entry
keeps that only if no other entry carries the same packet (`OneEntryPerPacket`),
which a push keeps only if an unsent packet is not queued (`QueueIsPending`
again). `TimerNeverLate` survives `EnterLoop` only because no entry expires
before `STARTUP`. The lemmas come in two layers: `PushFacts`, `PopFacts`,
`RemoveFacts` and the `...Packets` lemmas say what the sequence operators do to
entries and to the set of packets; `SockWriteInv`, `RetryInv`, `DiscardInv`,
`AckInv` and `QueueUntouched` use them, one action each. `LedgerStep` maps each
action to a move of one packet or a stutter, under `QueueInv`.

**Client.** For any server packets, any number of deliveries and any writes of
the handlers. `HandledOnce` needs the network not to reorder (`ORDERED`). The
client remembers one number; `LastIsLatest` says that without reordering this is
the packet delivered last, so whatever was handled before and comes again is the
one remembered, a repeat. `HandledWasDelivered` makes a packet the server has just
sent a new one.

The second group of theorems is about the packets the client sends, for any
bundles of server packets and any writes of the handlers. Two things end it in
the code: `seq_num` wraps, and the child of `SRV_TRY_AGAIN` writes with a copy
of it (`IcqClientFork`). So the theorems say `Spec /\ [][NumbersGoOn]_vars =>
...`: as long as no step wraps `seq_num` or queues more packets than it has
values, and no child has been forked; the runs visit both the wrap and the
child. `PacketInv`: numbers on the wire lie below `seq_num` (`NumbersTaken`), an
entry of the queue is on the wire once, with the count of its transmissions
(`QueuedWasSent`), and what an acknowledgement took out is not in it any more
(`AckedOnce`). `CMD_KEEP_ALIVE` is the difficult packet, since it gives its low
word back to the next one; only their high words, 0 and the number, tell the two
apart. The answers to a bundle are flattened (`Flattened`) and sent one by one
(`SendAll`), each of them a move of the ledger, so that a handler is a row of
them. It is assumed that only `Keep_Alive` writes that command, as in the code,
and that the server answers a failed login by a packet of its own.

**Linked list.** `IsList(l, w, q)` says that the list `l` runs through the nodes
`w`, no node twice, and that these hold the messages `q`; `ListInv` says that there
are such `w` and `q`. The walk of `ListIntact` and `Contents` then yields `w` and
`q` (`WalkFacts`), push and pop change them by one element at an end, and the loop
of `Check_Queue` is followed turn by turn: after `k` turns without a match the
queue is `q` rotated by `k`, and the first match is where the FIFO finds it. The
messages and the nodes may be any sets.

**Random users.** Everybody greeted is in the file (`GreetedWasSeen`), a nick is
only used when its owner's info has come (`ReadyIsNamed`), and between the record
on disk and the greeting `Last_Probed_Rand_User` stays as it is
(`RecordedIsProbed`). A stop at any point keeps the file and forgets the user, who
then is not greeted at all.

**Status and dialogues.** `AutoInv`: while an automatic status is in force, it
is AWAY or NA and `idle_flag` is up, so `Idle_Check` ends it once a key was
pressed. The converse is false (`OperatorStatus.cfg`), so nothing is proved of
chosen statuses. `DialogueInv`: `multi_uin` is `last_uin` between two turns;
while a message is composed the addressee is `last_uin` and the buffer holds the
lines typed; both buffers are empty outside their dialogues; the fields of
update and search are those typed so far. The `FromElsewhere` lemmas say which
handler writes which packets. It is assumed that a `CMD_CONT_LIST` holds at
least one contact.

**Presence.** `PresenceInv`: the uins the server was told are those of contacts,
and after the login all of them are (`ListedAreContacts`, `ContactsAreListed`); the
status of the first entry of a uin is the one the server gave last (`SaidIsShown`).
The second needs that the packets of `snd_contact_list` together hold everybody: a
contact of rank `r` is in the packet that covers `r`, by the arithmetic of
dividing ranks by the size of a packet. It is assumed that uins are positive, that
a packet has room for one contact and that the list starts offline, which is what
the reader of `.micqrc` leaves.

**Conversation.** `CountIsStreak`: the count of taboo words is the length of the
current human's own row, which the longest row of that human is not below;
`NobodyIsNew`: before the first message the State is empty; `AnsweredIsOwn`: a topic
that got a response in this conversation keeps its question, also when it has left
the history and comes back with a file that gives nothing. `StartOfMessage` puts
them together: what `chatty` starts from is the human's own or empty.
`Shifted` is the history's move by one place. Which templates fire plays no part.

**Templates.** `RobotInv`: the row of identical lines counts the lines typed
last that equal the one before (`RowCounted`), and a remark still to come is
due, or it would not have been chosen (`RemarksDue`). `MatchInv`: while the
templates are tried, the best so far is one tried already that answers, and it
beats every template tried already that must answer, unless that one is hidden
by a topic of a priority above `MAXPRIOR_TOPIC`, which ends the search
(`Tried`). What a template answers is the search through its keys, one key after
the other with the buffer handed on (`KeyStep`, by induction `SearchAnswers`).
`MemInv`: the words kept are a stretch of the question, but for a mark skipped
in front of them (`Part`, `StretchIsPart`), through every key, the choice of a
winner and the memory of a recalled topic. That the operators of `Phrases` yield
texts at all (`Substituted`, `Normalized`) is again induction over their turns.
It is assumed that a line has its newline, that synonyms replace something, that
the dictionary holds a template and fits its array, and that its priorities are
positive.

**Configuration.** What the reader has made of a part of the file cannot be undone
by what follows: `Later` relates an earlier and a later state of it, and `ReadLater`
and `ReadPrefix` say that reading on leads to a later one. So `SaveInv` need only
say what the reader makes of the file up to `pos`, at each `M_fdprint`: the settings
written so far (`SettingsInv`), the contacts written so far under their names
(`Holds` in `ContactInv`), with the mark of the next one before it (`LineInv`), and
aliases that add no contact of their own (`Gathered` in `AliasesInv`; this is where
an alias in front of which a digit stands would break it). `NameKept` and `NameNew`
are about the first entry with a number, which is what `UIN2nick` finds: an entry
that is found stays found, and a new one only counts for a number not in the list.
Beside it, `Lasting` says that some part of the file holds what the last save
wrote, so that appended lines, an older file's rest and further saves cut before
their first contact do no harm; `Ended`, that the file ends with a newline unless
it was cut, so that an appended line is a line; `AddedKept`, that who was added is
in memory. `written` is what a save cut short has got to. It is assumed that
digits are not among the marks, signs and keywords, that texts hold no newline and
numbers no leading zeros, and the two things said of the first file above.

**Draws.** `StillInhibited`: while `splotch-relax` has not run, each response of
the last draws stands on disk with at most the activity that `INHIBITED` gives
for its age. It survives a draw because the recovery, rounded to two decimals,
keeps the order of activities (`RecoveredMonotone`), and it makes a second draw
within the window impossible because only positive activities are drawn. It is
assumed that `ALPHA` is an even number of tenths and that `INHIBITED` is the row
of recoveries of an inhibition, none of them positive.

**Calculator.** A table without circles is one in which every non-empty set of
variables has one that is defined without the others. `NoNewCircle`: an
assignment that `checkrecursion` lets pass makes none, by the closed set that
the check has searched; `NoCircleByUndefining`: nor does the removal of a
definition. `NewTop` is what a reduction does to the stack.
`RepliesToItsQuestion` needs that what stands on the stack was typed in this
question. The one assumption is that the table has a place.

**Web front end.** A client gets its page while its connection is open
(`ServedOnce`), so a page never takes the place of another that the conversation
goes through. `OldIsLast`: the old answer is the one this process gave last, and
is empty only when it has given none; the pages earlier than a new one are those
of its own life, since turns and lives only grow (`PagesNumbered`). The backlog
holds a client once (`BacklogWaits`); `newpath` is the current client's or empty
(`PathIsOfCur`). It is assumed that `cleanup` decodes the requests to what they
stand for, which the run evaluates on all short ones.

Only model-checked:

* all liveness, since fairness and ENABLED are out of the prover's reach:
  `EveryPacketResolved`, `FatalPacketAckedOrQuit`, `DeadServerNoticed`,
  `RequestedAgain`, `SpeaksAgain`, `ServedInTurn`;
* `TurnedOnce` of `Splotch`, which compares a text with its reply word by word and
  so cannot hold of every text: "did not be" becomes "weren't", and all behind it
  moves by two places. The run shows it for the lines of the instance;
* `Entries` and `Sorting`, which have recursive operators, and the other `ASSUME`s
  on pure functions (`PacketCode`, `RusConv`, `UrlText`), which TLC evaluates on all
  small inputs;
* the range of the activities in `Activation`.

## 5. Not modelled, and why

* The editing of a line (`mreadline.c`), the names of the commands and their
  change by `alter` (`ui.c:915`), help texts and all other printing: they change
  nothing the rest depends on but which command a line is. One thing to know:
  renaming the "auth" command writes to another command's name (`ui.c:962`).
* The password, the server's address and the commands' names in `.micqrc`: they
  are written and read as the UIN is.
* The layout of the packets' fields (`icq_response.c`, `sendmsg.c`): conversions
  without state. A wrinkled packet is modelled bit by bit, its contents are not.
* `SRV_ACK` within a `SRV_MULTI_PACKET`: its SEQ is cut to 16 bits, so that it
  matches nothing, which is the loss of an acknowledgement.
* `last_cmd`, indexed past its end from the 1025th packet on at some of its writes
  (`sendmsg.c:198`): debugging output; the memory behind it is not modelled. The
  same holds of the contacts beyond the hundredth (`file_util.c:339`).
* The values of the activations of templates and of the counts of affect, the good
  and bad words and the log files: which template is active enough, and which
  remark is due, is a free choice in `Chatty` and `Splotch`.
* The recovery of episodes (a tenth, which can fall between two hundredths), and a
  `.Act` file cut short by a stop, whose missing numbers are read from memory
  that was never set.
* The numbers of the calculator: its properties are about names.
* The options of the web front end (`init_catcher`), the comparison of host names,
  which nothing calls, and the client half of `sock_comm.c`.
* Word lists, dictionaries, logs, HTML and one-off scripts.

## 6. What is left to do

1. `pick_winner` as written, with its loop over the sorted vector, against
   `Winner`, and a proof of the range of the activities.
2. `.Act` files cut short, with the memory that was never set as a free choice.
3. `shell_sortr` as a recursive function, and a proof that it returns a
   permutation.
4. A condition on texts under which `TurnedOnce` holds, and its proof.
5. The contacts beyond the hundredth, which the loops over aliases and `Add_User`
   write past the array.
