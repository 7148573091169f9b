----------------------------- MODULE IcqClient -----------------------------
(***************************************************************************)
(* The client of micq as one process: main's loop with its timers, the     *)
(* handlers of server packets with every packet they write, the operator,  *)
(* and the UDP network between client and server, which loses, duplicates, *)
(* delays and reorders.  The server is external: it acknowledges what it   *)
(* receives and sends any of SrvPackets once a login reached it.           *)
(***************************************************************************)
EXTENDS MsgQueue, FiniteSets, SequencesExt

CONSTANTS
  WORD,           \* values of seq_num, a 16 bit unsigned: it wraps
  KEEP_ALIVE,     \* seconds between two keep alives (120 in main)
  STARTUP,        \* what main writes into next_resend before its loop (10)
  ContactWrites,  \* packets of snd_contact_list, snd_invis_list, snd_vis_list
  IdleWrites,     \* what a turn of Idle_Check may write
  InputWrites,    \* what one command of the operator may write
  SrvPackets,     \* packets the server may send, each the sequence of its
                  \* commands: several are the parts of a SRV_MULTI_PACKET
  ORDERED,        \* TRUE: the network does not let server packets overtake
  StartTime, LATENCY,  \* as in ResendQueue
  MaxSrv,         \* bound on the packets the server sends
  MaxDeliveries,  \* bound on the deliveries of each of them
  MaxSeq,         \* bound: nothing unprompted is written from this seq_num on
  DeadBy,         \* bound: the server does not die after this time
  MaxTime         \* bound on the clock

ASSUME WordAssumption == WORD \in Nat \ {0, 1} /\ MaxSrv \in Nat
ASSUME TimesAssumption ==
  /\ KEEP_ALIVE \in Nat /\ STARTUP \in Nat
  /\ StartTime \in Nat /\ LATENCY \in Nat
\* Nobody but Keep_Alive writes a CMD_KEEP_ALIVE.
ASSUME WritesAssumption ==
  \A cmds \in {ContactWrites} \cup IdleWrites \cup InputWrites :
    cmds \in Seq(STRING \ {"CMD_KEEP_ALIVE"})
ASSUME PartsAssumption == SrvPackets \subseteq Seq(STRING)
\* A login that fails is answered by a packet of its own.
ASSUME SrvAssumption ==
  \A parts \in SrvPackets :
    Len(parts) > 1 => {"SRV_BAD_PASS", "SRV_TRY_AGAIN"} \cap Range(parts) = {}

VARIABLES
  pc,          \* where main is: "login", the parts of its loop, "exited"
  now, next,   \* time(NULL), and when the next keep alive is due
  queue, next_resend,
  seq_num,
  last_seq,    \* the server packet handled last; 0 is the initial -1
  Quit,
  children,    \* the seq_num of each forked child that has yet to log in
  wire,        \* the packets transmitted at least once
  sends,       \* history: the bag of SEQs the client transmitted
  received,    \* the packets the server received and acknowledges
  acked,       \* history: the packets taken off the queue by an ack
  dead,        \* the server neither receives nor sends any more
  srv,         \* what the server sent so far; its SEQ is the position
  delivered, answered, handled  \* history, per server packet

link == <<wire, sends>>
server == <<received, dead, srv>>
history == <<delivered, answered, handled>>
vars == <<pc, now, next, queue, next_resend, seq_num, last_seq, Quit, children,
          link, acked, server, history>>

Packet(s, c, p) == [seq |-> s, cmd |-> c, by |-> p]
-----------------------------------------------------------------------------
(* The SEQ of a packet is a doubleword: seq_num in its low word (the random *)
(* base SOCKWRITE adds is left out) and again in its high word, which       *)
(* SOCKWRITE clears for a CMD_KEEP_ALIVE.                                   *)
\* (Mutant: the high word is not cleared.)
SEQBothWords(c, n) == <<n, n>>
SEQ(c, n) == <<n, IF c = "CMD_KEEP_ALIVE" THEN 0 ELSE n>>

(* SOCKWRITE takes back the increment of seq_num for a CMD_KEEP_ALIVE.      *)
\* (Mutant: the increment is taken back for CMD_KEEP_ALIVE2 as well.)
AdvanceNoKeepAlive(cmds) ==
  Cardinality({i \in DOMAIN cmds :
                 cmds[i] \notin {"CMD_KEEP_ALIVE", "CMD_KEEP_ALIVE2"}})
Advance(cmds) == Cardinality({i \in DOMAIN cmds : cmds[i] # "CMD_KEEP_ALIVE"})

NumberOf(cmds, i) == (seq_num + Advance(SubSeq(cmds, 1, i - 1))) % WORD

(* A handler that hands the packets cmds to SOCKWRITE, one after another,   *)
(* at time t.                                                               *)
SendAll(cmds, t) ==
  LET seq(i) == SEQ(cmds[i], NumberOf(cmds, i))
  IN  /\ queue' = queue \o [i \in DOMAIN cmds |-> NewEntry(seq(i), cmds[i], t)]
      /\ seq_num' = (seq_num + Advance(cmds)) % WORD
      /\ wire' = wire \cup {Packet(seq(i), cmds[i], "client") : i \in DOMAIN cmds}
      /\ sends' = sends (+) SetToBag({seq(i) : i \in DOMAIN cmds})

SendAt(cmds, t) ==
  /\ SendAll(cmds, t)
  /\ next_resend' = IF queue = <<>> /\ cmds # <<>> THEN HeadExpiry(queue')
                    ELSE next_resend

Send(cmds) == SendAt(cmds, now)

Goto(from, to) == pc = from /\ pc' = to
-----------------------------------------------------------------------------
Init ==
  /\ pc = "login"
  /\ now = StartTime /\ next = 0
  /\ queue = <<>> /\ next_resend = 0
  /\ seq_num = 1
  /\ last_seq = 0
  /\ Quit = FALSE
  /\ children = {}
  /\ wire = {} /\ sends = EmptyBag
  /\ received = {} /\ acked = {} /\ dead = FALSE /\ srv = <<>>
  /\ delivered = [e \in 1 .. MaxSrv |-> 0]
  /\ answered = delivered /\ handled = delivered

\* The packets that begin a session (the functions Login and snd_login_1).
LoginWrites == <<"CMD_LOGIN">>
snd_login_1 == <<"CMD_LOGIN_1">>

(* main before its loop.                                                   *)
Login ==
  /\ Goto("login", "loop")
  /\ SendAll(LoginWrites, now)
  /\ next' = now + KEEP_ALIVE
  /\ next_resend' = STARTUP
  /\ UNCHANGED <<now, last_seq, Quit, children, acked, server, history>>

(* The head of the loop, Idle_Check, which sleeps, and the wait in select.  *)
Idle_Check ==
  /\ Goto("loop", "socket") /\ ~Quit
  /\ now' \in now + 1 .. now + LATENCY /\ now' <= MaxTime
  /\ \/ seq_num < MaxSeq /\ \E cmds \in IdleWrites : SendAt(cmds, now')
     \/ SendAt(<<>>, now')
  /\ UNCHANGED <<next, last_seq, Quit, children, acked, server, history>>

Quit_ICQ ==
  /\ Goto("loop", "exited") /\ Quit
  /\ Send(<<"CMD_SEND_TEXT_CODE">>)
  /\ UNCHANGED <<now, next, last_seq, Quit, children, acked, server, history>>

(* select timed out, or Handle_Server_Response saw another session's packet.*)
NothingRead ==
  /\ Goto("socket", "input")
  /\ UNCHANGED <<now, next, queue, next_resend, seq_num, last_seq, Quit,
                 children, link, acked, server, history>>

(* A SRV_ACK: it is neither acknowledged nor compared with last_seq.        *)
ReadAck ==
  /\ Goto("socket", "input") /\ ~dead
  /\ \E p \in received :
       /\ p.seq \in QueuedSeqs(queue)
       /\ queue' = Check_Queue(queue, p.seq)
       /\ next_resend' = HeadExpiry(queue')
       /\ LET e == queue[FirstMatch(queue, p.seq)]
          IN  acked' = acked \cup {Packet(e.seq, e.cmd, "client")}
  /\ UNCHANGED <<now, next, seq_num, last_seq, Quit, children, link, server, history>>

(* What Server_Response writes in answer to one command.                    *)
Answers(c) ==
  CASE c = "SRV_LOGIN_REPLY" -> {snd_login_1 \o ContactWrites}
    [] c = "SRV_X2"          -> {<<"CMD_ACK_MESSAGES">>}
    [] c = "SRV_RAND_USER"   -> {<<"CMD_INFO_REQ", "CMD_EXT_INFO_REQ">>, <<>>}
    [] c = "SRV_SYS_DELIVERED_MESS" -> {<<"CMD_SENDM">>, <<>>}
    [] OTHER -> {<<>>}

(* Server_Response, over the parts of a SRV_MULTI_PACKET in their order.    *)
Server_Response(parts) ==
  /\ \E cmds \in {FlattenSeq(a) : a \in
        {f \in [DOMAIN parts -> UNION {Answers(parts[i]) : i \in DOMAIN parts}] :
           \A i \in DOMAIN parts : f[i] \in Answers(parts[i])}} : Send(cmds)
  /\ Quit' = (Quit \/ Range(parts) \cap {"SRV_GO_AWAY", "SRV_NOT_CONNECTED"} # {})
  /\ children' = children \cup
       (IF "SRV_TRY_AGAIN" \in Range(parts) THEN {seq_num} ELSE {})
  /\ pc' = IF "SRV_BAD_PASS" \in Range(parts) THEN "exited" ELSE "input"

(* Handle_Server_Response of server packet e that repeats the last one is   *)
(* acknowledged and dropped, unless it is a SRV_NEW_UIN.                    *)
\* (Mutant: only a SRV_NEW_UIN is dropped.)
RepeatsNewUin(e) == last_seq = e /\ srv[e] = <<"SRV_NEW_UIN">>
Repeats(e) == last_seq = e /\ srv[e] # <<"SRV_NEW_UIN">>

\* (Mutant: a repeat is dropped before it is acknowledged.)
ack_srv_new(e) ==
  answered' = IF Repeats(e) THEN answered ELSE [answered EXCEPT ![e] = @ + 1]
ack_srv(e) == answered' = [answered EXCEPT ![e] = @ + 1]

(* The network delivers server packet e, perhaps again, perhaps late.       *)
Arrives(e) ==
  /\ pc = "socket" /\ ~dead
  /\ delivered[e] < MaxDeliveries
  /\ ORDERED => \A f \in e + 1 .. Len(srv) : delivered[f] = 0
  /\ delivered' = [delivered EXCEPT ![e] = @ + 1]

ReadRepeated(e) ==
  /\ Arrives(e) /\ Repeats(e)
  /\ ack_srv(e)
  /\ pc' = "input"
  /\ UNCHANGED <<now, next, queue, next_resend, seq_num, last_seq, Quit, children,
                 link, acked, server, handled>>

ReadPacket(e) ==
  /\ Arrives(e) /\ ~Repeats(e)
  /\ last_seq' = e
  /\ ack_srv(e)
  /\ handled' = [handled EXCEPT ![e] = @ + 1]
  /\ Server_Response(srv[e])
  /\ UNCHANGED <<now, next, acked, server>>

Handle_Server_Response ==
  \/ ReadAck
  \/ \E e \in DOMAIN srv : ReadRepeated(e) \/ ReadPacket(e)

(* The operator: nothing, the quit command, or a command that writes.       *)
Get_Input ==
  /\ Goto("input", "keepalive")
  /\ \/ Send(<<>>) /\ Quit' = Quit
     \/ seq_num < MaxSeq /\ Quit' = Quit /\ \E cmds \in InputWrites : Send(cmds)
     \/ InputWrites # {} /\ Send(<<>>) /\ Quit' = TRUE
  /\ UNCHANGED <<now, next, last_seq, children, acked, server, history>>

Keep_Alive ==
  /\ Goto("keepalive", "resend")
  /\ IF now > next
     THEN next' = now + KEEP_ALIVE /\ Send(<<"CMD_KEEP_ALIVE", "CMD_KEEP_ALIVE2">>)
     ELSE next' = next /\ Send(<<>>)
  /\ UNCHANGED <<now, last_seq, Quit, children, acked, server, history>>

\* The packets without which there is no session.  (Mutant: keep alives do not
\* count.)
SessionPacketsLogin == {"CMD_LOGIN"}
SessionPackets == {"CMD_LOGIN", "CMD_KEEP_ALIVE"}

(* Do_Resend of a packet with attempts left.                                *)
Retry ==
  /\ Goto("resend", "loop") /\ now > next_resend /\ queue # <<>>
  /\ AttemptsLeft(Head(queue))
  /\ queue' = Requeue(queue, now)
  /\ next_resend' = HeadExpiry(queue')
  /\ sends' = sends (+) SetToBag({Head(queue).seq})
  /\ UNCHANGED <<now, next, seq_num, last_seq, Quit, children, wire, acked,
                 server, history>>

Discard ==
  /\ Goto("resend", "loop") /\ now > next_resend /\ queue # <<>>
  /\ ~AttemptsLeft(Head(queue))
  /\ queue' = Tail(queue)
  /\ next_resend' = HeadExpiry(queue')
  /\ Quit' = (Quit \/ Head(queue).cmd \in SessionPackets)
  /\ UNCHANGED <<now, next, seq_num, last_seq, children, link, acked, server, history>>

NothingToResend ==
  /\ Goto("resend", "loop") /\ (now > next_resend => queue = <<>>)
  /\ next_resend' = IF now > next_resend THEN INT_MAX ELSE next_resend
  /\ UNCHANGED <<now, next, queue, seq_num, last_seq, Quit, children, link, acked,
                 server, history>>

Do_Resend == Retry \/ Discard \/ NothingToResend

(* The child of SRV_TRY_AGAIN logs in with its copy of seq_num and exits:   *)
(* its queue and its increment of seq_num are lost with it.                 *)
ChildLogin ==
  \E n \in children :
    /\ children' = children \ {n}
    /\ wire' = wire \cup {Packet(SEQ("CMD_LOGIN", n), "CMD_LOGIN", "child")}
    /\ UNCHANGED <<pc, now, next, queue, next_resend, seq_num, last_seq, Quit,
                   sends, acked, server, history>>
-----------------------------------------------------------------------------
(* The server and the network, as the client relies on them.                *)
ServerReceives ==
  /\ ~dead
  /\ \E p \in wire \ received : received' = received \cup {p}
  /\ UNCHANGED <<pc, now, next, queue, next_resend, seq_num, last_seq, Quit,
                 children, link, acked, dead, srv, history>>

ServerSends ==
  /\ ~dead /\ Len(srv) < MaxSrv
  /\ \E p \in received : p.cmd = "CMD_LOGIN"
  /\ \E parts \in SrvPackets : srv' = Append(srv, parts)
  /\ UNCHANGED <<pc, now, next, queue, next_resend, seq_num, last_seq, Quit,
                 children, link, acked, received, dead, history>>

ServerDies ==
  /\ ~dead /\ now <= DeadBy
  /\ dead' = TRUE
  /\ UNCHANGED <<pc, now, next, queue, next_resend, seq_num, last_seq, Quit,
                 children, link, acked, received, srv, history>>

Client ==
  \/ Login \/ Idle_Check \/ Quit_ICQ
  \/ NothingRead \/ Handle_Server_Response
  \/ Get_Input \/ Keep_Alive \/ Do_Resend

Next == Client \/ ChildLogin \/ ServerReceives \/ ServerSends \/ ServerDies

Spec == Init /\ [][Next]_vars

(* A process that is neither blocked nor stopped keeps turning its loop.    *)
FairSpec == Spec /\ WF_vars(Client)
-----------------------------------------------------------------------------
Phases == {"login", "loop", "socket", "input", "keepalive", "resend", "exited"}

SEQs == {SEQ(c, n) : c \in {"CMD_KEEP_ALIVE", "CMD_KEEP_ALIVE2"}, n \in 0 .. WORD - 1}

ServerCounts == [1 .. MaxSrv -> 0 .. MaxDeliveries]

(* The types of the variables.                                             *)
TypeOK ==
  /\ pc \in Phases
  /\ now \in Nat /\ next \in Nat /\ next_resend \in Nat
  /\ \A e \in Range(queue) :
       e.seq \in SEQs /\ e.attempts \in 1 .. MAX_ATTEMPTS /\ e.exp_time \in Nat
  /\ seq_num \in 0 .. WORD - 1
  /\ last_seq \in 0 .. MaxSrv
  /\ Quit \in BOOLEAN /\ dead \in BOOLEAN
  /\ children \subseteq 0 .. WORD - 1
  /\ received \subseteq wire
  /\ \A p \in wire : p.seq \in SEQs
  /\ srv \in Seq(SrvPackets)
  /\ delivered \in ServerCounts /\ answered \in ServerCounts
  /\ handled \in ServerCounts

(* icq091.txt:231: packets have unique sequence numbers.  The number that  *)
(* acknowledgements are matched by is the whole SEQ doubleword.            *)
UniqueSEQ == \A p, q \in wire : p.seq = q.seq => p = q

(* A packet that an acknowledgement takes off the resend queue reached the *)
(* server: none is given up for lost because another was acknowledged.     *)
AckedWasReceived == acked \subseteq received

(* Each delivery of a server packet is acknowledged exactly once, also     *)
(* when it is dropped as a repeat and when its handler ends the program.   *)
DeliveriesAnswered == answered = delivered

(* micq.c:77: a message is not processed twice because it arrives twice    *)
(* with the same SEQ.  (SRV_NEW_UIN is exempt in the code and only prints.)*)
HandledOnce ==
  \A e \in DOMAIN srv : srv[e] # <<"SRV_NEW_UIN">> => handled[e] <= 1

(* What became of the packet with SEQ s, and how often it was sent.        *)
FateOf(s) ==
  IF ~BagIn(s, sends) THEN "unsent"
  ELSE IF s \in QueuedSeqs(queue) THEN "pending"
  ELSE IF \E p \in acked : p.seq = s THEN "acked" ELSE "discarded"

SendsOf(s) == IF BagIn(s, sends) THEN sends[s] ELSE 0

Ledger == INSTANCE PacketLedger WITH
  Packets <- SEQs,
  fate <- [s \in SEQs |-> FateOf(s)],
  sends <- [s \in SEQs |-> SendsOf(s)]

(* Every SEQ the client allocates goes through the ledger once: handlers   *)
(* that write several packets, keep alives that share a number and the     *)
(* timers of main together never reuse, lose or over-send one.             *)
ImplementsLedger == Ledger!Spec

(* Once the server is dead the program ends by itself: the login or a keep *)
(* alive runs out of attempts, however many other packets are queued.      *)
DeadServerNoticed == dead ~> pc = "exited"
=============================================================================
