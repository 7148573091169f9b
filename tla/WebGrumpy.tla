----------------------------- MODULE WebGrumpy -----------------------------
(***************************************************************************)
(* Grumpy as a web page (www_grumpy.c over sock_comm.c): one process that  *)
(* accepts a client, reads its request line by line, lets chatty answer    *)
(* the words in it, writes one page and closes the connection.  Clients    *)
(* may leave at any time.  The process may die where it works for a client *)
(* and is started again by do-www-grumpy.  All clients together are one    *)
(* human, "human-X", in one conversation; chatty itself is the turn it     *)
(* takes in that conversation.                                             *)
(***************************************************************************)
EXTENDS Integers, Sequences, UrlText

CONSTANTS
  Clients,   \* each opens one connection
  NoClient,
  NoWords,   \* a request without &txt=, such as that for an icon
  Requests,  \* the words clients send, still encoded, and NoWords
  BACKLOG,   \* connections listen() lets wait (5)
  MAXRETRY   \* empty reads full_read takes for a lost connection (5)

ASSUME RetryAssumption == MAXRETRY \in Nat \ {0} /\ NoClient \notin Clients
\* What clients send is decoded to what it stands for, by both passes.
ASSUME RequestsAssumption ==
  \A raw \in Requests \ {NoWords} : cleanup(raw) = Decoded(raw)

VARIABLES
  pc,       \* where the server is, "down" between two lives
  cur,      \* the client it works for
  backlog,  \* the clients waiting to be accepted
  conn,     \* the connection of each client
  words,    \* what each client sends in its request
  sent,     \* lines of the request sent so far: GET, then the empty line
  gone,     \* the clients that hung up
  lines,    \* lines of the request read so far
  retry,    \* empty reads in a row
  newpath, question, oldanswer,  \* of main and give_moved_message
  turn,     \* answers chatty gave
  life,     \* history: starts of the process
  pages     \* history: the page each client was given, and in which life

request == <<lines, retry, newpath>>
talk == <<question, oldanswer, turn, life, pages>>
vars == <<pc, cur, backlog, conn, words, sent, gone, request, talk>>

Sleeping == [to |-> <<>>, turn |-> 0]
NoPage == [old |-> Sleeping, question |-> <<>>, answer |-> Sleeping, life |-> 0]

Init ==
  /\ pc = "down" /\ cur = NoClient
  /\ backlog = <<>> /\ conn = [c \in Clients |-> "new"]
  /\ words \in [Clients -> Requests]
  /\ sent = [c \in Clients |-> 0] /\ gone = {}
  /\ lines = 0 /\ retry = 0 /\ newpath = NoWords
  /\ question = <<>> /\ oldanswer = Sleeping /\ turn = 0 /\ life = 0
  /\ pages = [c \in Clients |-> NoPage]
-----------------------------------------------------------------------------
(* The clients.                                                            *)
Connect(c) ==
  /\ conn[c] = "new" /\ pc # "down" /\ Len(backlog) < BACKLOG
  /\ conn' = [conn EXCEPT ![c] = "waiting"] /\ backlog' = Append(backlog, c)
  /\ UNCHANGED <<pc, cur, words, sent, gone, request, talk>>

SendLine(c) ==
  /\ conn[c] \in {"waiting", "open"} /\ c \notin gone /\ sent[c] < 2
  /\ sent' = [sent EXCEPT ![c] = @ + 1]
  /\ UNCHANGED <<pc, cur, backlog, conn, words, gone, request, talk>>

HangUp(c) ==
  /\ conn[c] \in {"waiting", "open"} /\ c \notin gone
  /\ gone' = gone \cup {c}
  /\ UNCHANGED <<pc, cur, backlog, conn, words, sent, request, talk>>
-----------------------------------------------------------------------------
(* main: a new process, whose oldanswer is (sleeping).                     *)
Start ==
  /\ pc = "down" /\ pc' = "accept"
  /\ newpath' = NoWords /\ question' = <<>> /\ oldanswer' = Sleeping
  /\ life' = life + 1
  /\ UNCHANGED <<cur, backlog, conn, words, sent, gone, lines, retry, turn, pages>>

(* accept_new_client with no time limit.                                   *)
accept_new_client ==
  /\ pc = "accept" /\ backlog # <<>>
  /\ cur' = Head(backlog) /\ backlog' = Tail(backlog)
  /\ conn' = [conn EXCEPT ![Head(backlog)] = "open"]
  /\ lines' = 0 /\ retry' = 0
  /\ pc' = "read"
  /\ UNCHANGED <<words, sent, gone, newpath, talk>>

(* get_request_line has a line, and empty_http_requests looks at it.  The  *)
(* last line of a request is a carriage return: one character.             *)
\* (Mutant: the line that ends a request has no character at all.)
EndsRequestAtNone(n) == FALSE
EndsRequest(n) == n = 2

ReadLine ==
  /\ pc = "read" /\ lines < sent[cur]
  /\ lines' = lines + 1 /\ retry' = 0
  /\ newpath' = IF lines = 0 THEN words[cur] ELSE newpath
  /\ pc' = IF EndsRequest(lines + 1) THEN "talk" ELSE "read"
  /\ UNCHANGED <<cur, backlog, conn, words, sent, gone, talk>>

(* The client is gone and read returns nothing, again and again: full_read *)
(* gives up after MAXRETRY times, which get_request_line takes for a line  *)
(* without characters and not for the end of the request.                  *)
ReadNothing ==
  /\ pc = "read" /\ lines = sent[cur] /\ cur \in gone
  /\ retry' = (retry + 1) % MAXRETRY
  /\ UNCHANGED <<pc, cur, backlog, conn, words, sent, gone, lines, newpath, talk>>

(* give_moved_message up to the call of chatty: words in the request       *)
(* replace the question, which otherwise is the one of an earlier client.  *)
\* (Mutant: the question is decoded twice.)
NextQuestionTwice == IF newpath = NoWords THEN question ELSE cleanup(cleanup(newpath))
NextQuestion == IF newpath = NoWords THEN question ELSE cleanup(newpath)

\* (Mutant: only a client with words replaces the old answer.)
OldAnswerWithWords(a) == IF newpath = NoWords THEN oldanswer ELSE a
OldAnswer(a) == a

give_moved_message ==
  /\ pc = "talk" /\ pc' = "write"
  /\ question' = NextQuestion
  /\ newpath' = NoWords
  /\ turn' = turn + 1
  /\ LET answer == [to |-> question', turn |-> turn + 1]
     IN  /\ pages' = [pages EXCEPT ![cur] = [old |-> oldanswer,
                                             question |-> question',
                                             answer |-> answer,
                                             life |-> life]]
         /\ oldanswer' = OldAnswer(answer)
  /\ UNCHANGED <<cur, backlog, conn, words, sent, gone, lines, retry, life>>

full_write ==
  /\ pc = "write" /\ pc' = "close"
  /\ UNCHANGED <<cur, backlog, conn, words, sent, gone, request, talk>>

close_connection ==
  /\ pc = "close" /\ pc' = "accept"
  /\ conn' = [conn EXCEPT ![cur] = "closed"]
  /\ cur' = NoClient
  /\ UNCHANGED <<backlog, words, sent, gone, request, talk>>

(* The process dies: the address of the client has no name, which          *)
(* get_remote_host does not expect, or the page is written to a client     *)
(* that has gone.  The kernel drops every connection.                      *)
Die ==
  /\ \/ pc = "talk"
     \/ pc = "write" /\ cur \in gone
  /\ pc' = "down" /\ cur' = NoClient
  /\ backlog' = <<>>
  /\ conn' = [c \in Clients |->
                IF conn[c] \in {"waiting", "open"} THEN "lost" ELSE conn[c]]
  /\ UNCHANGED <<words, sent, gone, request, talk>>

Server ==
  \/ accept_new_client \/ ReadLine \/ ReadNothing
  \/ give_moved_message \/ full_write \/ close_connection

Next ==
  \/ \E c \in Clients : Connect(c) \/ SendLine(c) \/ HangUp(c)
  \/ Start \/ Server \/ Die

Spec == Init /\ [][Next]_vars

(* The server runs, the port of a dead one becomes free again, and clients *)
(* that stay send what they have to say.                                   *)
FairSpec ==
  /\ Spec
  /\ WF_vars(Server) /\ WF_vars(Start)
  /\ \A c \in Clients : WF_vars(SendLine(c))
-----------------------------------------------------------------------------
Served(c) == pages[c] # NoPage

(* Whoever sends words is shown these words, decoded once, with an answer  *)
(* to them, whatever clients before it sent or left unsent.                *)
AnswersItsWords ==
  \A c \in Clients :
    Served(c) /\ words[c] # NoWords =>
      /\ pages[c].question = Decoded(words[c])
      /\ pages[c].answer.to = pages[c].question

(* The clients that were given a page before c by the same process.        *)
Earlier(c) ==
  {d \in Clients : /\ Served(d) /\ pages[d].life = pages[c].life
                   /\ pages[d].answer.turn < pages[c].answer.turn}

(* The pages of one life of the process make up one conversation: the      *)
(* first has no line of Grumpy's before the question, every other one      *)
(* repeats the answer of the page just before it, whoever that was for and *)
(* with or without words; nothing is carried over a death.                 *)
PagesContinue ==
  \A c \in Clients : Served(c) =>
    \/ Earlier(c) = {} /\ pages[c].old = Sleeping
    \/ \E d \in Earlier(c) :
         /\ pages[c].old = pages[d].answer
         /\ pages[d].answer.turn = pages[c].answer.turn - 1

(* As long as no client hangs up, each one that waits gets its page, or    *)
(* loses the connection with a server that died.                           *)
ServedInTurn ==
  (\A c \in Clients : []( c \notin gone)) =>
    \A c \in Clients : conn[c] = "waiting" ~> conn[c] \in {"closed", "lost"}

(* www_grumpy.c:371: the server listens to any incoming clients, and shuts *)
(* the connection down.  A client that leaves before the empty line keeps  *)
(* the server reading for ever.                                            *)
ShutsDown ==
  \A c \in Clients : conn[c] = "open" ~> conn[c] \in {"closed", "lost"}
=============================================================================
