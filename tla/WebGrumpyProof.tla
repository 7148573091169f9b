--------------------------- MODULE WebGrumpyProof ---------------------------
(***************************************************************************)
(* Proofs about WebGrumpy, for any clients, any requests and any length of *)
(* the backlog: whoever sends words is answered to these words, and the    *)
(* pages make up one conversation between two deaths of the process.       *)
(***************************************************************************)
EXTENDS WebGrumpy, SequenceTheorems, TLAPS

Working == pc \in {"read", "talk", "write", "close"}

(* The part of the types that the argument rests on.                        *)
WebTypes ==
  /\ pc \in {"down", "accept", "read", "talk", "write", "close"}
  /\ conn \in [Clients -> {"new", "waiting", "open", "closed", "lost"}]
  /\ backlog \in Seq(Clients)
  /\ words \in [Clients -> Requests]
  /\ lines \in Nat /\ turn \in Nat /\ life \in Nat
  /\ pages = [c \in Clients |-> pages[c]]

(* The backlog holds each waiting client at most once.                      *)
BacklogWaits ==
  /\ \A i \in DOMAIN backlog : conn[backlog[i]] = "waiting"
  /\ \A i, j \in DOMAIN backlog : backlog[i] = backlog[j] => i = j

WorksForOpen == Working => cur \in Clients /\ conn[cur] = "open"

(* A client gets its page while its connection is open, and only once.      *)
ServedOnce ==
  \A c \in Clients : Served(c) =>
    conn[c] \in {"closed", "lost"} \/ (c = cur /\ pc \in {"write", "close"})

(* Nothing of an earlier request is left when a client is accepted.         *)
PathIsOfCur ==
  /\ pc \in {"accept", "write", "close"} => newpath = NoWords
  /\ pc = "read" => newpath = IF lines = 0 THEN NoWords ELSE words[cur]
  /\ pc = "talk" => newpath = words[cur]

(* Pages are numbered by their answers and by the lives of the process.     *)
PagesNumbered ==
  \A c \in Clients : Served(c) =>
    /\ pages[c].answer.turn \in Nat /\ pages[c].answer.turn <= turn
    /\ pages[c].life \in Nat /\ pages[c].life <= life

(* The clients this process has given a page.                               *)
ServedNow == {d \in Clients : Served(d) /\ pages[d].life = life}

(* The old answer is the last one this process gave, if it gave any.        *)
OldIsLast ==
  \/ ServedNow = {} /\ oldanswer = Sleeping
  \/ \E d \in ServedNow : pages[d].answer = oldanswer /\ oldanswer.turn = turn

WebInv ==
  /\ WebTypes /\ BacklogWaits /\ WorksForOpen /\ ServedOnce
  /\ PathIsOfCur /\ PagesNumbered /\ OldIsLast
  /\ AnswersItsWords /\ PagesContinue
-----------------------------------------------------------------------------
(* At the start nobody is connected.                                        *)
LEMMA InitWeb == ASSUME Init PROVE WebInv
<1>1. \A c \in Clients : ~Served(c)
  BY DEF Init, Served
<1>2. WebTypes
  BY DEF Init, WebTypes
<1>3. BacklogWaits /\ WorksForOpen /\ PathIsOfCur
  BY DEF Init, BacklogWaits, WorksForOpen, Working, PathIsOfCur
<1>4. PagesNumbered /\ OldIsLast /\ ServedOnce /\ AnswersItsWords /\ PagesContinue
  BY <1>1 DEF Init, PagesNumbered, OldIsLast, ServedNow, ServedOnce, AnswersItsWords,
     PagesContinue
<1> QED BY <1>2, <1>3, <1>4 DEF WebInv

(* What holds of the pages.                                                 *)
PagesSound == AnswersItsWords /\ PagesContinue /\ PagesNumbered /\ OldIsLast

(* It holds on while no page is given and the process lives.                *)
LEMMA PagesUntouched ==
  ASSUME PagesSound, UNCHANGED <<pages, words, turn, life, oldanswer>>
  PROVE  PagesSound'
BY DEF PagesSound, AnswersItsWords, PagesContinue, Earlier, PagesNumbered, OldIsLast,
       ServedNow, Served

(* A client connects, and waits behind the others.                          *)
LEMMA ConnectWeb ==
  ASSUME WebInv, NEW c \in Clients, Connect(c) PROVE WebInv'
<1>1. /\ conn[c] = "new" /\ conn' = [conn EXCEPT ![c] = "waiting"]
      /\ backlog' = Append(backlog, c)
      /\ UNCHANGED <<pc, cur, words, lines, newpath, question, oldanswer, turn, life, pages>>
  BY DEF Connect, request, talk
<1>2. /\ conn \in [Clients -> {"new", "waiting", "open", "closed", "lost"}]
      /\ backlog \in Seq(Clients)
  BY DEF WebInv, WebTypes
<1>3. /\ backlog' \in Seq(Clients) /\ Len(backlog) \in Nat
      /\ DOMAIN backlog = 1 .. Len(backlog)
      /\ DOMAIN backlog' = 1 .. Len(backlog) + 1
      /\ \A i \in 1 .. Len(backlog) : backlog'[i] = backlog[i] /\ backlog[i] \in Clients
      /\ backlog'[Len(backlog) + 1] = c
  BY <1>1, <1>2, AppendProperties, LenProperties, ElementOfSeq
<1>4. \A d \in Clients : d # c => conn'[d] = conn[d]
  BY <1>1, <1>2
<1>5. \A i \in 1 .. Len(backlog) : conn[backlog[i]] = "waiting" /\ backlog[i] # c
  BY <1>1, <1>3 DEF WebInv, BacklogWaits
<1>6. WebTypes'
  BY <1>1, <1>2, <1>3 DEF WebInv, WebTypes
<1>7. BacklogWaits'
  <2>1. \A i \in DOMAIN backlog' : conn'[backlog'[i]] = "waiting"
    BY <1>1, <1>2, <1>3, <1>4, <1>5
  <2>2. ASSUME NEW i \in DOMAIN backlog', NEW j \in DOMAIN backlog',
               backlog'[i] = backlog'[j]
        PROVE  i = j
    <3>1. CASE i = Len(backlog) + 1 \/ j = Len(backlog) + 1
      BY <2>2, <3>1, <1>3, <1>5
    <3>2. CASE i # Len(backlog) + 1 /\ j # Len(backlog) + 1
      <4>1. i \in DOMAIN backlog /\ j \in DOMAIN backlog
        BY <3>2, <1>3
      <4> QED BY <4>1, <2>2, <1>3 DEF WebInv, BacklogWaits
    <3> QED BY <3>1, <3>2
  <2> QED BY <2>1, <2>2 DEF BacklogWaits
<1>8. WorksForOpen'
  BY <1>1, <1>4 DEF WebInv, WorksForOpen, Working
<1>9. ServedOnce'
  BY <1>1, <1>4 DEF WebInv, ServedOnce, Served, WorksForOpen, Working
<1>10. PathIsOfCur'
  BY <1>1 DEF WebInv, PathIsOfCur
<1>11. PagesSound'
  BY <1>1, PagesUntouched DEF WebInv, PagesSound
<1> QED BY <1>6, <1>7, <1>8, <1>9, <1>10, <1>11 DEF WebInv, PagesSound

(* What a client does besides changes nothing the argument is about.        *)
LEMMA OutsideWeb ==
  ASSUME WebInv,
         \/ \E c \in Clients : SendLine(c) \/ HangUp(c)
         \/ ReadNothing
         \/ UNCHANGED vars
  PROVE  WebInv'
<1>1. UNCHANGED <<pc, cur, backlog, conn, words, lines, newpath, talk>>
  BY DEF SendLine, HangUp, ReadNothing, request, vars
<1> QED BY <1>1 DEF talk, WebInv, WebTypes, BacklogWaits, WorksForOpen, Working,
           ServedOnce, Served, PathIsOfCur, PagesNumbered, OldIsLast, ServedNow,
           AnswersItsWords, PagesContinue, Earlier

(* The client accepted is at the head of the backlog and nowhere else in it.*)
LEMMA AcceptWeb == ASSUME WebInv, accept_new_client PROVE WebInv'
<1>1. /\ pc = "accept" /\ pc' = "read" /\ backlog # <<>>
      /\ cur' = Head(backlog) /\ backlog' = Tail(backlog)
      /\ conn' = [conn EXCEPT ![Head(backlog)] = "open"]
      /\ lines' = 0
      /\ UNCHANGED <<words, newpath, question, oldanswer, turn, life, pages>>
  BY DEF accept_new_client, talk
<1>2. /\ conn \in [Clients -> {"new", "waiting", "open", "closed", "lost"}]
      /\ backlog \in Seq(Clients)
  BY DEF WebInv, WebTypes
<1>3. /\ Len(backlog) \in Nat \ {0} /\ DOMAIN backlog = 1 .. Len(backlog)
      /\ cur' = backlog[1] /\ cur' \in Clients
      /\ backlog' \in Seq(Clients)
      /\ DOMAIN backlog' = 1 .. Len(backlog) - 1
      /\ \A i \in 1 .. Len(backlog) - 1 : backlog'[i] = backlog[i + 1]
      /\ \A i \in 1 .. Len(backlog) : backlog[i] \in Clients
  <2>1. Len(backlog) \in Nat \ {0} /\ DOMAIN backlog = 1 .. Len(backlog)
    BY <1>1, <1>2, EmptySeq, LenProperties
  <2>2. /\ Tail(backlog) \in Seq(Clients) /\ Len(Tail(backlog)) = Len(backlog) - 1
        /\ \A i \in 1 .. Len(Tail(backlog)) : Tail(backlog)[i] = backlog[i + 1]
        /\ Head(backlog) \in Clients
    BY <1>1, <1>2, HeadTailProperties
  <2>3. DOMAIN Tail(backlog) = 1 .. Len(backlog) - 1
    BY <2>2, LenProperties
  <2>4. Head(backlog) = backlog[1]
    OBVIOUS
  <2> QED BY <1>1, <1>2, <2>1, <2>2, <2>3, <2>4, ElementOfSeq
<1>4. /\ conn'[cur'] = "open" /\ conn[cur'] = "waiting"
      /\ \A d \in Clients : d # cur' => conn'[d] = conn[d]
  BY <1>1, <1>2, <1>3 DEF WebInv, BacklogWaits
<1>5. WebTypes'
  BY <1>1, <1>2, <1>3 DEF WebInv, WebTypes
<1>6. BacklogWaits'
  <2>1. ASSUME NEW i \in DOMAIN backlog'
        PROVE  /\ i + 1 \in DOMAIN backlog /\ backlog'[i] = backlog[i + 1]
               /\ backlog'[i] # cur' /\ backlog'[i] \in Clients
    <3>1. i + 1 \in DOMAIN backlog /\ 1 \in DOMAIN backlog /\ i + 1 # 1
          /\ backlog'[i] = backlog[i + 1]
      BY <1>3
    <3>2. backlog[i + 1] # backlog[1]
      BY <3>1 DEF WebInv, BacklogWaits
    <3> QED BY <3>1, <3>2, <1>3
  <2>2. ASSUME NEW i \in DOMAIN backlog' PROVE conn'[backlog'[i]] = "waiting"
    BY <2>1, <1>4 DEF WebInv, BacklogWaits
  <2>3. ASSUME NEW i \in DOMAIN backlog', NEW j \in DOMAIN backlog',
               backlog'[i] = backlog'[j]
        PROVE  i = j
    <3>1. i + 1 = j + 1
      BY <2>1, <2>3 DEF WebInv, BacklogWaits
    <3> QED BY <3>1, <1>3
  <2> QED BY <2>2, <2>3 DEF BacklogWaits
<1>7. WorksForOpen'
  BY <1>3, <1>4 DEF WorksForOpen
<1>8. ServedOnce'
  BY <1>1, <1>4 DEF WebInv, ServedOnce, Served
<1>9. PathIsOfCur'
  BY <1>1 DEF WebInv, PathIsOfCur
<1>10. PagesSound'
  BY <1>1, PagesUntouched DEF WebInv, PagesSound
<1> QED BY <1>5, <1>6, <1>7, <1>8, <1>9, <1>10 DEF WebInv, PagesSound

(* A line read from the client served.                                      *)
LEMMA ReadWeb == ASSUME WebInv, ReadLine PROVE WebInv'
<1>1. /\ pc = "read" /\ pc' \in {"read", "talk"}
      /\ pc' = "talk" => lines + 1 = 2
      /\ lines' = lines + 1
      /\ newpath' = IF lines = 0 THEN words[cur] ELSE newpath
      /\ UNCHANGED <<cur, backlog, conn, words, question, oldanswer, turn, life, pages>>
  BY DEF ReadLine, EndsRequest, talk
<1>2. lines \in Nat
  BY DEF WebInv, WebTypes
<1>3. WebTypes' /\ BacklogWaits' /\ WorksForOpen'
  BY <1>1, <1>2 DEF WebInv, WebTypes, BacklogWaits, WorksForOpen, Working
<1>4. ServedOnce'
  BY <1>1 DEF WebInv, ServedOnce, Served
<1>5. PathIsOfCur'
  BY <1>1, <1>2 DEF WebInv, PathIsOfCur
<1>6. PagesSound'
  BY <1>1, PagesUntouched DEF WebInv, PagesSound
<1> QED BY <1>3, <1>4, <1>5, <1>6 DEF WebInv, PagesSound

(* The page given answers the words of this client, and follows the one     *)
(* given last; no page given before is lost.                                *)
LEMMA TalkWeb == ASSUME WebInv, give_moved_message PROVE WebInv'
<1> DEFINE answer == [to |-> question', turn |-> turn + 1]
           page == [old |-> oldanswer, question |-> question', answer |-> answer,
                    life |-> life]
<1>1. /\ pc = "talk" /\ pc' = "write"
      /\ question' = NextQuestion /\ newpath' = NoWords /\ turn' = turn + 1
      /\ pages' = [pages EXCEPT ![cur] = page] /\ oldanswer' = answer
      /\ UNCHANGED <<cur, backlog, conn, words, lines, life>>
  BY DEF give_moved_message, OldAnswer
<1>2. /\ cur \in Clients /\ conn[cur] = "open" /\ newpath = words[cur]
      /\ turn \in Nat /\ life \in Nat /\ pages = [c \in Clients |-> pages[c]]
      /\ words[cur] \in Requests
  BY <1>1 DEF WebInv, WebTypes, WorksForOpen, Working, PathIsOfCur
<1>3. pages[cur] = NoPage
  BY <1>1, <1>2 DEF WebInv, ServedOnce, Served
<1>4. pages'[cur] = page /\ \A c \in Clients : c # cur => pages'[c] = pages[c]
  BY <1>1, <1>2
<1>5. page.old = oldanswer /\ page.question = question' /\ page.answer = answer
      /\ answer.to = question' /\ answer.turn = turn + 1 /\ page.life = life
      /\ page # NoPage
  <2>1. page.answer.turn = turn + 1 /\ NoPage.answer.turn = 0
    BY DEF NoPage, Sleeping
  <2>2. turn + 1 # 0
    BY <1>2
  <2> QED BY <2>1, <2>2
<1>6. words[cur] # NoWords => question' = Decoded(words[cur])
  BY <1>1, <1>2, RequestsAssumption DEF NextQuestion
<1> HIDE DEF answer, page
<1>7. WebTypes' /\ BacklogWaits'
  <2>1. pages' = [c \in Clients |-> pages'[c]]
    BY <1>1, <1>2
  <2> QED BY <1>1, <1>2, <2>1 DEF WebInv, WebTypes, BacklogWaits
<1>8. WorksForOpen' /\ PathIsOfCur'
  BY <1>1, <1>2 DEF WorksForOpen, PathIsOfCur
<1>9. ServedOnce'
  BY <1>1, <1>4 DEF WebInv, ServedOnce, Served
<1>10. \A c \in Clients : Served(c)' <=> c = cur \/ Served(c)
  BY <1>4, <1>5 DEF Served
<1>11. PagesNumbered'
  BY <1>1, <1>2, <1>4, <1>5, <1>10 DEF WebInv, PagesNumbered
<1>12. OldIsLast'
  <2>1. cur \in ServedNow'
    BY <1>1, <1>2, <1>4, <1>5, <1>10 DEF ServedNow
  <2> QED BY <2>1, <1>1, <1>4, <1>5 DEF OldIsLast
<1>13. AnswersItsWords'
  BY <1>1, <1>4, <1>5, <1>6 DEF WebInv, AnswersItsWords, Served
<1>14. /\ ~Served(cur)
       /\ \A c \in Clients : Served(c) =>
            pages[c].answer.turn \in Nat /\ pages[c].answer.turn <= turn
  BY <1>3 DEF Served, WebInv, PagesNumbered
<1>15. ASSUME NEW c \in Clients, c = cur PROVE Earlier(c)' = ServedNow
  BY <1>15, <1>2, <1>4, <1>5, <1>10, <1>14 DEF Earlier, ServedNow
<1>16. ASSUME NEW c \in Clients, c # cur, Served(c) PROVE Earlier(c)' = Earlier(c)
  BY <1>16, <1>2, <1>4, <1>5, <1>10, <1>14 DEF Earlier
<1>17. PagesContinue'
  <2> SUFFICES ASSUME NEW c \in Clients, Served(c)'
               PROVE  \/ Earlier(c)' = {} /\ pages'[c].old = Sleeping
                      \/ \E d \in Earlier(c)' :
                           /\ pages'[c].old = pages'[d].answer
                           /\ pages'[d].answer.turn = pages'[c].answer.turn - 1
    BY DEF PagesContinue
  <2>1. CASE c = cur
    <3>1. pages'[c].old = oldanswer /\ pages'[c].answer.turn - 1 = turn
      BY <2>1, <1>2, <1>4, <1>5
    <3>2. \A d \in ServedNow : d \in Clients /\ d # cur /\ pages'[d] = pages[d]
      BY <1>4, <1>14 DEF ServedNow
    <3> QED BY <2>1, <3>1, <3>2, <1>15 DEF WebInv, OldIsLast
  <2>2. CASE c # cur
    <3>1. Served(c) /\ pages'[c] = pages[c] /\ Earlier(c)' = Earlier(c)
      BY <2>2, <1>4, <1>10, <1>16
    <3>2. \A d \in Earlier(c) : pages'[d] = pages[d]
      BY <1>4, <1>14 DEF Earlier
    <3> QED BY <3>1, <3>2 DEF WebInv, PagesContinue
  <2> QED BY <2>1, <2>2
<1> QED BY <1>7, <1>8, <1>9, <1>11, <1>12, <1>13, <1>17 DEF WebInv

(* A page written to the client served.                                     *)
LEMMA WriteWeb == ASSUME WebInv, full_write PROVE WebInv'
<1>1. /\ pc = "write" /\ pc' = "close"
      /\ UNCHANGED <<cur, backlog, conn, words, lines, newpath, question,
                     oldanswer, turn, life, pages>>
  BY DEF full_write, request, talk
<1>2. WebTypes' /\ BacklogWaits' /\ WorksForOpen' /\ ServedOnce' /\ PathIsOfCur'
  BY <1>1 DEF WebInv, WebTypes, BacklogWaits, WorksForOpen, Working, ServedOnce,
     Served, PathIsOfCur
<1>3. PagesSound'
  BY <1>1, PagesUntouched DEF WebInv, PagesSound
<1> QED BY <1>2, <1>3 DEF WebInv, PagesSound

(* The connection closed after the page.                                    *)
LEMMA CloseWeb == ASSUME WebInv, close_connection PROVE WebInv'
<1>1. /\ pc = "close" /\ pc' = "accept" /\ cur' = NoClient
      /\ conn' = [conn EXCEPT ![cur] = "closed"]
      /\ UNCHANGED <<backlog, words, lines, newpath, question, oldanswer, turn, life, pages>>
  BY DEF close_connection, request, talk
<1>2. /\ cur \in Clients /\ conn[cur] = "open"
      /\ conn \in [Clients -> {"new", "waiting", "open", "closed", "lost"}]
  BY <1>1 DEF WebInv, WebTypes, WorksForOpen, Working
<1>3. /\ conn'[cur] = "closed"
      /\ \A d \in Clients : d # cur => conn'[d] = conn[d]
  BY <1>1, <1>2
<1>4. WebTypes'
  BY <1>1, <1>2 DEF WebInv, WebTypes
<1>5. BacklogWaits'
  <2>1. \A i \in DOMAIN backlog : backlog[i] \in Clients /\ backlog[i] # cur
    BY <1>2, LenProperties, ElementOfSeq DEF WebInv, WebTypes, BacklogWaits
  <2> QED BY <2>1, <1>1, <1>3 DEF WebInv, BacklogWaits
<1>6. WorksForOpen' /\ PathIsOfCur'
  BY <1>1 DEF WebInv, WorksForOpen, Working, PathIsOfCur
<1>7. ServedOnce'
  BY <1>1, <1>2, <1>3 DEF WebInv, ServedOnce, Served
<1>8. PagesSound'
  BY <1>1, PagesUntouched DEF WebInv, PagesSound
<1> QED BY <1>4, <1>5, <1>6, <1>7, <1>8 DEF WebInv, PagesSound

(* A new process knows nothing of the old answer.                           *)
LEMMA StartWeb == ASSUME WebInv, Start PROVE WebInv'
<1>1. /\ pc = "down" /\ pc' = "accept" /\ newpath' = NoWords
      /\ oldanswer' = Sleeping /\ life' = life + 1
      /\ UNCHANGED <<cur, backlog, conn, words, lines, turn, pages>>
  BY DEF Start
<1>2. WebTypes' /\ BacklogWaits' /\ WorksForOpen' /\ ServedOnce' /\ PathIsOfCur'
  BY <1>1 DEF WebInv, WebTypes, BacklogWaits, WorksForOpen, Working, ServedOnce,
     Served, PathIsOfCur
<1>3. AnswersItsWords' /\ PagesContinue'
  BY <1>1 DEF WebInv, AnswersItsWords, PagesContinue, Earlier, Served
<1>4. life \in Nat /\ \A c \in Clients : Served(c) => pages[c].life \in Nat /\ pages[c].life <= life
  BY DEF WebInv, WebTypes, PagesNumbered
<1>5. PagesNumbered'
  BY <1>1, <1>4 DEF WebInv, PagesNumbered, Served
<1>6. OldIsLast'
  <2>1. \A c \in Clients : Served(c)' => pages'[c].life # life'
    BY <1>1, <1>4 DEF Served
  <2> QED BY <2>1, <1>1 DEF OldIsLast, ServedNow
<1> QED BY <1>2, <1>3, <1>5, <1>6 DEF WebInv

(* A death takes all connections, also that of the client just served.      *)
LEMMA DieWeb == ASSUME WebInv, Die PROVE WebInv'
<1>1. /\ pc \in {"talk", "write"} /\ pc' = "down" /\ cur' = NoClient
      /\ backlog' = <<>>
      /\ conn' = [c \in Clients |->
                    IF conn[c] \in {"waiting", "open"} THEN "lost" ELSE conn[c]]
      /\ UNCHANGED <<words, lines, newpath, question, oldanswer, turn, life, pages>>
  BY DEF Die, request, talk
<1>2. WebTypes'
  BY <1>1 DEF WebInv, WebTypes
<1>3. BacklogWaits' /\ WorksForOpen' /\ PathIsOfCur'
  BY <1>1 DEF BacklogWaits, WorksForOpen, Working, PathIsOfCur
<1>4. ServedOnce'
  <2> SUFFICES ASSUME NEW c \in Clients, Served(c)
               PROVE  conn'[c] \in {"closed", "lost"}
    BY <1>1 DEF ServedOnce, Served
  <2>1. conn[c] \in {"closed", "lost", "open"}
    BY <1>1 DEF WebInv, ServedOnce, WorksForOpen, Working
  <2> QED BY <2>1, <1>1
<1>5. PagesSound'
  BY <1>1, PagesUntouched DEF WebInv, PagesSound
<1> QED BY <1>2, <1>3, <1>4, <1>5 DEF WebInv, PagesSound

(* One page per client, in the order of the answers.                        *)
THEOREM WebInvariance == Spec => []WebInv
<1>1. ASSUME WebInv, [Next]_vars PROVE WebInv'
  BY <1>1, ConnectWeb, OutsideWeb, AcceptWeb, ReadWeb, TalkWeb, WriteWeb, CloseWeb,
     StartWeb, DieWeb DEF Next, Server
<1> QED BY InitWeb, <1>1, PTL DEF Spec

(* Every page shows the words of the client it is given to and answers      *)
(* them, whatever the clients before it sent or left unsent and wherever    *)
(* the process died.                                                        *)
THEOREM ClientsAreAnswered == Spec => []AnswersItsWords
<1>1. WebInv => AnswersItsWords
  BY DEF WebInv
<1> QED BY WebInvariance, <1>1, PTL

(* The first page of a process has no answer to take up, and every other    *)
(* one takes up that of the page just before it.                            *)
THEOREM ConversationContinues == Spec => []PagesContinue
<1>1. WebInv => PagesContinue
  BY DEF WebInv
<1> QED BY WebInvariance, <1>1, PTL
=============================================================================
