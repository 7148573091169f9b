------------------------------ MODULE BotProof ------------------------------
(***************************************************************************)
(* Proofs about what the bot does of itself, for any users, files and      *)
(* limits.  Chatty: who is ignored was rude, who is ignored is not         *)
(* answered, and the history holds topics of the human it is used for,     *)
(* with that human's question once a response to them was found; what the  *)
(* templates fire (act) plays no part in it.  RandomUser: nobody           *)
(* is greeted twice, and nobody by another's name.  Activation: a response *)
(* drawn is not drawn again as long as its inhibition lasts.  Calculator:  *)
(* the table of variables is sound, their definitions never form a circle, *)
(* and a reply is about its own question.                                  *)
(*                                                                         *)
(* The four share no state, and each theorem is of one specification.     *)
(***************************************************************************)
EXTENDS Chatty, RandomUser, Activation, Calculator, SequenceTheorems, TLAPS

(* The part of the types that the argument rests on.                        *)
TalkTypes ==
  /\ current \in Humans \cup {NOBODY}
  /\ topics \in [1 .. HISTORY -> Topics \cup {NOTOPIC}]
  /\ last_question \in [Topics -> Humans \cup {NOBODY}]
  /\ ntaboo_words \in Nat
  /\ ignorable \subseteq Humans
  /\ rude \in [Humans -> Nat]

(* Before the first message, and after a restart, the State is empty.       *)
NobodyIsNew == current = NOBODY => topics = NoTopics /\ ntaboo_words = 0

(* The count of chatty is that of one human's messages in one conversation, *)
(* and no longer than the longest of these.                                 *)
CountIsStreak ==
  /\ ntaboo_words = streak
  /\ current # NOBODY => rude[current] >= streak

(* Topics that were answered keep the question, also when they have left    *)
(* the history and come back with a file that gives nothing.                *)
AnsweredIsOwn == \A t \in answered : t \in Topics /\ last_question[t] = current

TalkInv ==
  /\ TalkTypes /\ NobodyIsNew /\ CountIsStreak /\ AnsweredIsOwn
  /\ IgnoredForOwnWords /\ IgnoredNotAnswered /\ HistoryOfCurrent
-----------------------------------------------------------------------------
(* The longer of two streaks.                                               *)
LEMMA MaxOfTwo ==
  ASSUME NEW a \in Nat, NEW b \in Nat
  PROVE  Max({a, b}) \in Nat /\ Max({a, b}) >= a /\ Max({a, b}) >= b
<1>1. \E x \in {a, b} : \A y \in {a, b} : x >= y
  <2>1. CASE a >= b BY <2>1
  <2>2. CASE b >= a BY <2>2
  <2> QED BY <2>1, <2>2
<1>2. /\ Max({a, b}) \in {a, b}
      /\ \A y \in {a, b} : Max({a, b}) >= y
  BY <1>1 DEF Max
<1> QED BY <1>2

(* The history shifts by one place, and the topic takes the last.           *)
LEMMA Shifted ==
  ASSUME NEW s \in [1 .. HISTORY -> Topics \cup {NOTOPIC}], NEW t \in Topics
  PROVE  /\ Append(Tail(s), t) \in [1 .. HISTORY -> Topics \cup {NOTOPIC}]
         /\ \A i \in 1 .. HISTORY :
              Append(Tail(s), t)[i] = IF i = HISTORY THEN t ELSE s[i + 1]
<1> DEFINE T == Topics \cup {NOTOPIC}
<1>1. HISTORY \in Nat \ {0}
  BY SizeAssumption
<1>2. s \in Seq(T) /\ Len(s) = HISTORY /\ s # <<>>
  BY <1>1
<1>3. /\ Tail(s) \in Seq(T) /\ Len(Tail(s)) = HISTORY - 1
      /\ \A i \in 1 .. HISTORY - 1 : Tail(s)[i] = s[i + 1]
  BY <1>1, <1>2
<1> DEFINE a == Append(Tail(s), t)
<1>4. /\ a \in Seq(T) /\ Len(a) = HISTORY
      /\ a[HISTORY] = t
      /\ \A i \in 1 .. HISTORY - 1 : a[i] = Tail(s)[i]
  BY <1>1, <1>3
<1>5. a \in [1 .. HISTORY -> T]
  BY <1>4, LenProperties
<1>6. \A i \in 1 .. HISTORY : a[i] = IF i = HISTORY THEN t ELSE s[i + 1]
  BY <1>1, <1>3, <1>4
<1> QED BY <1>5, <1>6

(* The empty history.                                                       *)
LEMMA NoTopicsFacts ==
  /\ NoTopics \in [1 .. HISTORY -> Topics \cup {NOTOPIC}]
  /\ \A i \in 1 .. HISTORY : NoTopics[i] = NOTOPIC
BY DEF NoTopics

(* What chatty starts a message of h from: the State is h's own or empty.   *)
LEMMA StartOfMessage ==
  ASSUME TalkInv, NEW h \in Humans
  PROVE  /\ History(h) \in [1 .. HISTORY -> Topics \cup {NOTOPIC}]
         /\ \A i \in 1 .. HISTORY : History(h)[i] # NOTOPIC =>
              /\ History(h)[i] \in Topics
              /\ History(h)[i] \in Raised(h)
         /\ \A t \in Answered(h) : t \in Topics /\ last_question[t] = h
         /\ TabooWords(h) \in Nat /\ TabooWords(h) = Streak(h)
         /\ rude[h] \in Nat /\ rude[h] >= Streak(h)
<1>1. h # NOBODY
  BY NamesAssumption
<1>2. rude[h] \in Nat
  BY DEF TalkInv, TalkTypes
<1>3. CASE current = h
  <2>1. ~Switching(h)
    BY <1>3 DEF Switching
  <2>2. History(h) = topics /\ TabooWords(h) = ntaboo_words
    BY <2>1 DEF History, TabooWords
  <2>3. Raised(h) = raised /\ Answered(h) = answered /\ Streak(h) = streak
    BY <1>3 DEF Raised, Answered, Streak
  <2>4. /\ topics \in [1 .. HISTORY -> Topics \cup {NOTOPIC}]
        /\ \A i \in 1 .. HISTORY : topics[i] # NOTOPIC => topics[i] \in raised
        /\ \A t \in answered : t \in Topics /\ last_question[t] = h
    BY <1>3 DEF TalkInv, TalkTypes, HistoryOfCurrent, AnsweredIsOwn
  <2>5. /\ ntaboo_words \in Nat /\ ntaboo_words = streak /\ rude[h] >= streak
    BY <1>1, <1>3 DEF TalkInv, TalkTypes, CountIsStreak
  <2> QED BY <1>2, <2>2, <2>3, <2>4, <2>5
<1>4. CASE current # h
  <2>1. Raised(h) = {} /\ Answered(h) = {} /\ Streak(h) = 0
    BY <1>4 DEF Raised, Answered, Streak
  <2>2. History(h) = NoTopics /\ TabooWords(h) = 0
    <3>1. CASE current = NOBODY
      BY <3>1 DEF TalkInv, NobodyIsNew, Switching, History, TabooWords
    <3>2. CASE current # NOBODY
      BY <1>4, <3>2 DEF Switching, History, TabooWords
    <3> QED BY <3>1, <3>2
  <2> QED BY <1>2, <2>1, <2>2, NoTopicsFacts
<1> QED BY <1>3, <1>4

(* Only who is not on the list any more is answered.                        *)
LEMMA AnswerFacts ==
  ASSUME NEW h \in Humans, NEW ign \in SUBSET Humans, Answer(h, ign)
  PROVE  replied_to' \notin ign
BY NamesAssumption DEF Answer, Ignored
-----------------------------------------------------------------------------
(* Before the first message nobody is ignored and the history is empty.     *)
LEMMA InitTalk == ASSUME Init PROVE TalkInv
<1>1. TalkTypes
  BY NoTopicsFacts DEF Init, TalkTypes
<1>2. NobodyIsNew /\ CountIsStreak /\ IgnoredForOwnWords /\ IgnoredNotAnswered
  BY DEF Init, NobodyIsNew, CountIsStreak, IgnoredForOwnWords, IgnoredNotAnswered
<1>3. HistoryOfCurrent /\ AnsweredIsOwn
  BY NoTopicsFacts DEF Init, HistoryOfCurrent, AnsweredIsOwn
<1> QED BY <1>1, <1>2, <1>3 DEF TalkInv

(* A taboo word adds h to the list only when h alone made the count full.   *)
LEMMA TabooTalk ==
  ASSUME TalkInv, NEW h \in Humans, TabooMessage(h)
  PROVE  TalkInv'
<1>1. h # NOBODY /\ current' = h
  BY NamesAssumption DEF TabooMessage, SwitchTo
<1>2. /\ topics' = History(h) /\ raised' = Raised(h) /\ answered' = Answered(h)
      /\ UNCHANGED last_question
      /\ ntaboo_words' = TabooWords(h) + 1 /\ streak' = Streak(h) + 1
      /\ rude' = [rude EXCEPT ![h] = Max({@, streak'})]
  BY DEF TabooMessage
<1>3. ntaboo_words' = streak' /\ streak' \in Nat
  BY <1>2, StartOfMessage
<1>4. Max({rude[h], streak'}) \in Nat /\ Max({rude[h], streak'}) >= rude[h]
      /\ Max({rude[h], streak'}) >= streak'
  BY <1>3, StartOfMessage, MaxOfTwo
<1>5. /\ rude' \in [Humans -> Nat] /\ rude'[h] >= streak'
      /\ \A x \in Humans : rude'[x] >= rude[x]
  <2> DEFINE longest == Max({rude[h], streak'})
  <2>1. rude \in [Humans -> Nat] /\ rude' = [rude EXCEPT ![h] = longest]
    BY <1>2 DEF TalkInv, TalkTypes
  <2>2. longest \in Nat /\ longest >= rude[h] /\ longest >= streak'
    BY <1>4
  <2> HIDE DEF longest
  <2> QED BY <2>1, <2>2
<1>6. ignorable' \in SUBSET Humans
  BY DEF TabooMessage, Ignoring, TalkInv, TalkTypes
<1>7. TalkTypes'
  BY <1>1, <1>2, <1>3, <1>5, <1>6, StartOfMessage DEF TalkInv, TalkTypes
<1>8. NobodyIsNew' /\ CountIsStreak'
  BY <1>1, <1>3, <1>5 DEF NobodyIsNew, CountIsStreak
<1>9. IgnoredForOwnWords'
  <2> SUFFICES ASSUME NEW x \in ignorable' PROVE rude'[x] >= TABOO_LIMIT
    BY DEF IgnoredForOwnWords
  <2>1. CASE x \in ignorable
    <3>1. /\ x \in Humans /\ rude[x] \in Nat /\ rude'[x] \in Nat
          /\ rude[x] >= TABOO_LIMIT
      BY <2>1, <1>5 DEF TalkInv, TalkTypes, IgnoredForOwnWords
    <3> QED BY <3>1, <1>5, SizeAssumption
  <2>2. CASE x \notin ignorable
    <3>1. x = h /\ ntaboo_words' >= TABOO_LIMIT
      BY <2>2 DEF TabooMessage, Ignoring
    <3> QED BY <3>1, <1>3, <1>5, SizeAssumption
  <2> QED BY <2>1, <2>2
<1>10. IgnoredNotAnswered'
  BY <1>6, AnswerFacts DEF TabooMessage, IgnoredNotAnswered
<1>11. AnsweredIsOwn'
  BY <1>1, <1>2, StartOfMessage DEF AnsweredIsOwn
<1>12. HistoryOfCurrent'
  BY <1>1, <1>2, <1>11, StartOfMessage DEF HistoryOfCurrent, AnsweredIsOwn
<1> QED BY <1>7, <1>8, <1>9, <1>10, <1>11, <1>12 DEF TalkInv

(* What a reply leaves of the count and the list.                           *)
LEMMA ReplyTalk ==
  ASSUME TalkInv, NEW h \in Humans, NEW acts, Reply(h, acts), current' = h
  PROVE  /\ ntaboo_words' \in Nat /\ ignorable' \subseteq Humans
         /\ rude' \in [Humans -> Nat]
         /\ NobodyIsNew' /\ CountIsStreak'
         /\ IgnoredForOwnWords' /\ IgnoredNotAnswered'
<1>1. /\ ntaboo_words' = TabooWords(h) /\ streak' = Streak(h)
      /\ UNCHANGED <<ignorable, rude>> /\ Answer(h, ignorable)
  BY DEF Reply
<1>2. ignorable \in SUBSET Humans /\ rude \in [Humans -> Nat]
  BY DEF TalkInv, TalkTypes
<1>3. NobodyIsNew' /\ CountIsStreak'
  BY <1>1, StartOfMessage, NamesAssumption DEF NobodyIsNew, CountIsStreak
<1>4. IgnoredForOwnWords'
  BY <1>1 DEF TalkInv, IgnoredForOwnWords
<1>5. IgnoredNotAnswered'
  BY <1>1, <1>2, AnswerFacts DEF IgnoredNotAnswered
<1> QED BY <1>1, <1>2, <1>3, <1>4, <1>5, StartOfMessage

(* A topic raised joins the history, with the human's question once a       *)
(* response to it was found; no other topic's question changes.             *)
LEMMA TopicTalk ==
  ASSUME TalkInv, NEW h \in Humans, NEW t \in Topics, TopicMessage(h, t)
  PROVE  TalkInv'
<1>1. /\ current' = h /\ topics' = Append(Tail(History(h)), t)
      /\ raised' = Raised(h) \cup {t}
      /\ \/ /\ last_question' = [last_question EXCEPT ![t] = h]
            /\ answered' = Answered(h) \cup {t}
         \/ answered' = Answered(h) /\ UNCHANGED last_question
  BY DEF TopicMessage, SwitchTo, usetempl
<1>2. Reply(h, ask(act, t))
  BY DEF TopicMessage
<1>3. /\ topics' \in [1 .. HISTORY -> Topics \cup {NOTOPIC}]
      /\ \A i \in 1 .. HISTORY :
           topics'[i] = IF i = HISTORY THEN t ELSE History(h)[i + 1]
  <2>1. PICK s : s = History(h)
    OBVIOUS
  <2>2. s \in [1 .. HISTORY -> Topics \cup {NOTOPIC}]
    BY <2>1, StartOfMessage
  <2> QED BY <1>1, <2>1, <2>2, Shifted
<1>4. last_question \in [Topics -> Humans \cup {NOBODY}]
  BY DEF TalkInv, TalkTypes
<1>5. TalkTypes'
  <2>1. last_question' \in [Topics -> Humans \cup {NOBODY}]
    BY <1>1, <1>4
  <2>2. ntaboo_words' \in Nat /\ ignorable' \subseteq Humans /\ rude' \in [Humans -> Nat]
    BY <1>1, <1>2, ReplyTalk
  <2> QED BY <1>1, <1>3, <2>1, <2>2 DEF TalkTypes
<1>6. AnsweredIsOwn'
  BY <1>1, <1>4, StartOfMessage DEF AnsweredIsOwn
<1>7. HistoryOfCurrent'
  <2> SUFFICES ASSUME NEW i \in 1 .. HISTORY, topics'[i] # NOTOPIC
               PROVE  topics'[i] \in raised'
    BY <1>6 DEF HistoryOfCurrent, AnsweredIsOwn
  <2>1. CASE i = HISTORY
    BY <2>1, <1>1, <1>3
  <2>2. CASE i # HISTORY
    <3>1. i + 1 \in 1 .. HISTORY /\ topics'[i] = History(h)[i + 1]
      BY <2>2, <1>3, SizeAssumption
    <3> QED BY <3>1, <1>1, StartOfMessage
  <2> QED BY <2>1, <2>2
<1> QED BY <1>1, <1>2, <1>5, <1>6, <1>7, ReplyTalk DEF TalkInv

(* A message without a topic of its own leaves the history as it is.        *)
LEMMA OtherTalk ==
  ASSUME TalkInv, NEW h \in Humans, OtherMessage(h)
  PROVE  TalkInv'
<1>1. /\ current' = h /\ topics' = History(h) /\ raised' = Raised(h)
      /\ answered' = Answered(h) /\ UNCHANGED last_question
  BY DEF OtherMessage, SwitchTo
<1>2. PICK acts : Reply(h, acts)
  BY DEF OtherMessage
<1>3. TalkTypes'
  BY <1>1, <1>2, ReplyTalk, StartOfMessage DEF TalkInv, TalkTypes
<1>4. HistoryOfCurrent' /\ AnsweredIsOwn'
  BY <1>1, StartOfMessage DEF HistoryOfCurrent, AnsweredIsOwn
<1> QED BY <1>1, <1>2, <1>3, <1>4, ReplyTalk DEF TalkInv

(* A restart forgets the conversation and keeps the list.                   *)
LEMMA RestartTalk == ASSUME TalkInv, Restart PROVE TalkInv'
<1>1. TalkTypes'
  BY NoTopicsFacts DEF TalkInv, TalkTypes, Restart
<1>2. NobodyIsNew' /\ CountIsStreak' /\ IgnoredForOwnWords'
  BY DEF TalkInv, Restart, NobodyIsNew, CountIsStreak, IgnoredForOwnWords
<1>3. IgnoredNotAnswered'
  BY NamesAssumption DEF TalkInv, TalkTypes, Restart, IgnoredNotAnswered
<1>4. HistoryOfCurrent' /\ AnsweredIsOwn'
  BY NoTopicsFacts DEF Restart, HistoryOfCurrent, AnsweredIsOwn
<1> QED BY <1>1, <1>2, <1>3, <1>4 DEF TalkInv

(* Nothing happens.                                                         *)
LEMMA StutterTalk == ASSUME TalkInv, UNCHANGED vars PROVE TalkInv'
BY DEF vars, TalkInv, TalkTypes, NobodyIsNew, CountIsStreak, IgnoredForOwnWords,
       IgnoredNotAnswered, HistoryOfCurrent, AnsweredIsOwn

(* The conjunction that is inductive: the count ties the list to the human. *)
THEOREM TalkInvariance == Spec => []TalkInv
<1>1. ASSUME TalkInv, [Next]_vars PROVE TalkInv'
  BY <1>1, TabooTalk, TopicTalk, OtherTalk, RestartTalk, StutterTalk
     DEF Next, chatty
<1> QED BY InitTalk, <1>1, PTL DEF Spec

(* Only a human who used TABOO_LIMIT taboo words in one conversation, which *)
(* nobody interrupted, is ever on the list of the ignored.                  *)
THEOREM OnlyTheRudeIgnored == Spec => []IgnoredForOwnWords
<1>1. TalkInv => IgnoredForOwnWords
  BY DEF TalkInv
<1> QED BY TalkInvariance, <1>1, PTL

(* Who is on the list is not answered, also to the message that put them    *)
(* there.                                                                   *)
THEOREM TheIgnoredUnanswered == Spec => []IgnoredNotAnswered
<1>1. TalkInv => IgnoredNotAnswered
  BY DEF TalkInv
<1> QED BY TalkInvariance, <1>1, PTL

(* The history holds topics of the current human's own messages only, and   *)
(* those a response was found to go with that human's question.             *)
THEOREM HistoryIsOwn == Spec => []HistoryOfCurrent
<1>1. TalkInv => HistoryOfCurrent
  BY DEF TalkInv
<1> QED BY TalkInvariance, <1>1, PTL
-----------------------------------------------------------------------------
(* Whoever was greeted is in the file, which no crash takes back.           *)
GreetedWasSeen == \A u \in Users : hello[u] > 0 => u \in seen

(* A nick is only used once the info of its owner has arrived.              *)
ReadyIsNamed == Probed.ready => Probed.name = Probed.uin

(* Between the record and the greeting nothing else happens to the user:    *)
(* the one recorded is the one in Last_Probed_Rand_User, not greeted yet.   *)
RecordedIsProbed ==
  greeting # NO_UIN =>
    /\ Probed.uin = greeting /\ Probed.ready
    /\ greeting \in seen /\ hello[greeting] = 0

GreetInv ==
  /\ SearchTypeOK
  /\ GreetedOnce /\ GreetedByName
  /\ GreetedWasSeen /\ ReadyIsNamed /\ RecordedIsProbed
-----------------------------------------------------------------------------
ProbedType ==
  [uin : Users \cup {NO_UIN}, name : Users \cup {NO_UIN}, ready : BOOLEAN]

(* No user has been found yet.                                              *)
LEMMA UnprobedFacts ==
  /\ Unprobed \in ProbedType /\ Unprobed.uin = NO_UIN /\ ~Unprobed.ready
BY DEF Unprobed, ProbedType

(* What a reply of the server makes of Last_Probed_Rand_User.               *)
LEMMA ProbedFacts ==
  ASSUME SearchTypeOK, NEW u \in Users
  PROVE  /\ ProbedAfterSearch(u) \in ProbedType /\ ~ProbedAfterSearch(u).ready
         /\ [uin |-> u, name |-> u, ready |-> TRUE] \in ProbedType
BY DEF SearchTypeOK, ProbedType, ProbedAfterSearch

(* At the start nobody was met.                                             *)
LEMMA InitGreet == ASSUME SearchInit PROVE GreetInv
<1>1. Probed \in ProbedType /\ ~Probed.ready
  BY UnprobedFacts DEF SearchInit
<1>2. SearchTypeOK
  <2>1. mytime \in 0 .. CYCLE - 1 /\ delta \in Nat \ {0} /\ minutes \in Nat \ {0}
    BY ClockAssumption DEF SearchInit
  <2>2. seen \subseteq Users /\ asked \subseteq Users /\ hello \in [Users -> Nat]
    BY DEF SearchInit
  <2>3. searching \in BOOLEAN /\ misnamed \in BOOLEAN /\ requested \in BOOLEAN
    BY Zenon DEF SearchInit
  <2>4. greeting \in Users \cup {NO_UIN}
    BY DEF SearchInit
  <2> QED BY <1>1, <2>1, <2>2, <2>3, <2>4 DEF SearchTypeOK, ProbedType
<1>3. GreetedOnce /\ GreetedByName /\ GreetedWasSeen
  BY DEF SearchInit, GreetedOnce, GreetedByName, GreetedWasSeen
<1>4. ReadyIsNamed /\ RecordedIsProbed
  BY <1>1 DEF SearchInit, ReadyIsNamed, RecordedIsProbed
<1> QED BY <1>2, <1>3, <1>4 DEF GreetInv

(* The clock of Idle_Check stays within the cycle, whatever micq.ctl says.  *)
LEMMA ClockTypes ==
  ASSUME SearchTypeOK, TurnClock
  PROVE  /\ mytime' \in 0 .. CYCLE - 1
         /\ delta' \in Nat \ {0} /\ minutes' \in Nat \ {0}
<1>1. mytime' \in 0 .. CYCLE - 1
  BY ClockAssumption DEF SearchTypeOK, TurnClock
<1>2. ASSUME NEW c \in CtlFiles
      PROVE  AtLeast1(c[1]) \in Nat \ {0} /\ AtLeast1(c[2]) \in Nat \ {0}
  BY ClockAssumption DEF AtLeast1
<1>3. delta' \in Nat \ {0} /\ minutes' \in Nat \ {0}
  BY <1>2 DEF SearchTypeOK, TurnClock, ReadCtl
<1> QED BY <1>1, <1>3

(* A request for a random user greets nobody.                               *)
LEMMA RequestGreet == ASSUME GreetInv, IdleRequest PROVE GreetInv'
<1>1. SearchTypeOK'
  BY ClockTypes DEF GreetInv, SearchTypeOK, IdleRequest
<1>2. (GreetedOnce /\ GreetedByName /\ GreetedWasSeen /\ ReadyIsNamed /\ RecordedIsProbed)'
  BY DEF GreetInv, IdleRequest, GreetedOnce, GreetedByName, GreetedWasSeen,
         ReadyIsNamed, RecordedIsProbed
<1> QED BY <1>1, <1>2 DEF GreetInv

(* The user recorded was in no line of the file, so never greeted before.   *)
LEMMA RecordGreet == ASSUME GreetInv, IdleRecord PROVE GreetInv'
<1>1. Probed.uin \in Users /\ hello[Probed.uin] = 0
  <2>1. Probed.uin \in Users
    BY DEF GreetInv, SearchTypeOK, IdleRecord
  <2>2. ~(hello[Probed.uin] > 0)
    BY <2>1 DEF GreetInv, GreetedWasSeen, IdleRecord, Unseen
  <2>3. hello[Probed.uin] \in Nat
    BY <2>1 DEF GreetInv, SearchTypeOK
  <2> QED BY <2>1, <2>2, <2>3
<1>2. SearchTypeOK'
  BY <1>1, ClockTypes DEF GreetInv, SearchTypeOK, IdleRecord, Record
<1>3. (GreetedOnce /\ GreetedByName /\ ReadyIsNamed)'
  BY DEF GreetInv, IdleRecord, GreetedOnce, GreetedByName, ReadyIsNamed
<1>4. GreetedWasSeen'
  BY DEF GreetInv, GreetedWasSeen, IdleRecord, Record
<1>5. RecordedIsProbed'
  BY <1>1 DEF RecordedIsProbed, IdleRecord, Record
<1> QED BY <1>2, <1>3, <1>4, <1>5 DEF GreetInv

(* The user recorded is greeted for the first time, by the right name.      *)
LEMMA GreetGreet == ASSUME GreetInv, IdleGreet PROVE GreetInv'
<1>1. /\ Probed.uin = greeting /\ greeting \in Users /\ greeting \in seen
      /\ hello[greeting] = 0 /\ Probed.name = Probed.uin
  BY DEF GreetInv, SearchTypeOK, IdleGreet, RecordedIsProbed, ReadyIsNamed
<1>2. /\ hello' = [hello EXCEPT ![greeting] = 1]
      /\ hello' \in [Users -> Nat]
  BY <1>1 DEF GreetInv, SearchTypeOK, IdleGreet
<1>3. SearchTypeOK'
  BY <1>2 DEF GreetInv, SearchTypeOK, IdleGreet, clock
<1>4. GreetedOnce' /\ GreetedWasSeen'
  BY <1>1, <1>2 DEF GreetInv, SearchTypeOK, GreetedOnce, GreetedWasSeen, IdleGreet
<1>5. GreetedByName'
  BY <1>1 DEF GreetInv, GreetedByName, IdleGreet
<1>6. (ReadyIsNamed /\ RecordedIsProbed)'
  BY DEF GreetInv, SearchTypeOK, IdleGreet, ReadyIsNamed, RecordedIsProbed
<1> QED BY <1>3, <1>4, <1>5, <1>6 DEF GreetInv

(* A turn that finds nobody to greet.                                       *)
LEMMA NobodyGreet == ASSUME GreetInv, IdleNobody PROVE GreetInv'
<1>1. SearchTypeOK'
  BY ClockTypes DEF GreetInv, SearchTypeOK, IdleNobody
<1>2. (GreetedOnce /\ GreetedByName /\ GreetedWasSeen)'
  BY DEF GreetInv, IdleNobody, GreetedOnce, GreetedByName, GreetedWasSeen
<1>3. (ReadyIsNamed /\ RecordedIsProbed)'
  BY DEF GreetInv, SearchTypeOK, IdleNobody, ReadyIsNamed, RecordedIsProbed
<1> QED BY <1>1, <1>2, <1>3 DEF GreetInv

(* The replies wait for the greeting: none comes between the two halves.    *)
LEMMA ReplyGreet ==
  ASSUME GreetInv, NEW u \in Users,
         Display_Rand_User(u) \/ send_info_req(u) \/ Display_Info_Reply(u)
  PROVE  GreetInv'
<1>1. Probed' \in ProbedType
  BY ProbedFacts DEF GreetInv, SearchTypeOK, ProbedType, Display_Rand_User,
     send_info_req, Display_Info_Reply
<1>2. SearchTypeOK'
  BY <1>1 DEF GreetInv, SearchTypeOK, ProbedType, clock, Display_Rand_User,
     send_info_req, Display_Info_Reply
<1>3. GreetedOnce' /\ GreetedByName' /\ GreetedWasSeen'
  <2>1. UNCHANGED <<hello, misnamed, seen>>
    BY DEF Display_Rand_User, send_info_req, Display_Info_Reply
  <2> QED BY <2>1 DEF GreetInv, GreetedOnce, GreetedByName, GreetedWasSeen
<1>4. ReadyIsNamed'
  <2>1. CASE Display_Rand_User(u)
    BY <2>1, ProbedFacts DEF GreetInv, ReadyIsNamed, Display_Rand_User
  <2>2. CASE send_info_req(u)
    BY <2>2 DEF GreetInv, ReadyIsNamed, send_info_req
  <2>3. CASE Display_Info_Reply(u)
    BY <2>3 DEF ReadyIsNamed, Display_Info_Reply
  <2> QED BY <2>1, <2>2, <2>3
<1>5. RecordedIsProbed'
  BY DEF RecordedIsProbed, Display_Rand_User, send_info_req, Display_Info_Reply
<1> QED BY <1>2, <1>3, <1>4, <1>5 DEF GreetInv

(* A stop forgets the user recorded, who then is never greeted: once or     *)
(* not at all.                                                              *)
LEMMA RestartGreet == ASSUME GreetInv, SearchRestart PROVE GreetInv'
<1>1. SearchTypeOK'
  <2>1. (mytime \in 0 .. CYCLE - 1 /\ delta \in Nat \ {0} /\ minutes \in Nat \ {0})'
    BY ClockAssumption DEF SearchRestart
  <2>2. (seen \subseteq Users /\ asked \subseteq Users /\ hello \in [Users -> Nat])'
    BY DEF GreetInv, SearchTypeOK, SearchRestart
  <2>3. (searching \in BOOLEAN /\ misnamed \in BOOLEAN /\ requested \in BOOLEAN)'
    BY Zenon DEF GreetInv, SearchTypeOK, SearchRestart
  <2>4. (Probed \in ProbedType /\ greeting \in Users \cup {NO_UIN})'
    BY UnprobedFacts DEF SearchRestart
  <2> QED BY <2>1, <2>2, <2>3, <2>4 DEF SearchTypeOK, ProbedType
<1>2. (GreetedOnce /\ GreetedByName /\ GreetedWasSeen /\ ReadyIsNamed /\ RecordedIsProbed)'
  BY UnprobedFacts DEF GreetInv, SearchRestart, GreetedOnce, GreetedByName,
         GreetedWasSeen, ReadyIsNamed, RecordedIsProbed
<1> QED BY <1>1, <1>2 DEF GreetInv

(* Nothing happens.                                                         *)
LEMMA StutterGreet == ASSUME GreetInv, UNCHANGED search_vars PROVE GreetInv'
BY DEF GreetInv, search_vars, clock, SearchTypeOK, GreetedOnce, GreetedByName, GreetedWasSeen,
       ReadyIsNamed, RecordedIsProbed

(* The record before the greeting, and the reply before the readiness.      *)
THEOREM GreetInvariance == SearchSpec => []GreetInv
<1>1. ASSUME GreetInv, [SearchNext]_search_vars PROVE GreetInv'
  BY <1>1, RequestGreet, RecordGreet, GreetGreet, NobodyGreet, ReplyGreet,
     RestartGreet, StutterGreet DEF SearchNext, Idle_Check
<1> QED BY InitGreet, <1>1, PTL DEF SearchSpec

(* The variables of the search for random users keep their types, whatever  *)
(* the control file says.                                                   *)
THEOREM SearchTypes == SearchSpec => []SearchTypeOK
<1>1. GreetInv => SearchTypeOK
  BY DEF GreetInv
<1> QED BY GreetInvariance, <1>1, PTL

(* Nobody is greeted twice, with repeated and interleaved answers and stops *)
(* of the process between the record on disk and the greeting.              *)
THEOREM NobodyGreetedTwice == SearchSpec => []GreetedOnce
<1>1. GreetInv => GreetedOnce
  BY DEF GreetInv
<1> QED BY GreetInvariance, <1>1, PTL

(* A greeting carries the nick of the one it is sent to, although nick and  *)
(* UIN come in two packets.                                                 *)
THEOREM NobodyMisnamed == SearchSpec => []GreetedByName
<1>1. GreetInv => GreetedByName
  BY DEF GreetInv
<1> QED BY GreetInvariance, <1>1, PTL
-----------------------------------------------------------------------------
(* The part of the types that the argument rests on.                        *)
ActTypes ==
  /\ nentries \in Nat
  /\ activity \in Seq(Int) /\ relaxing \in Seq(Int)
  /\ recent \in [1 .. WINDOW -> Nat]
  /\ relaxed \in Nat

(* A run of splotch-relax in progress is counted.                           *)
RelaxingCounted == relaxing # NotRelaxing => relaxed > 0

(* What is on disk inhibits each response drawn, by as much as the draws    *)
(* since then leave of it.                                                  *)
StillInhibited ==
  relaxed = 0 =>
    \A i \in 1 .. WINDOW : recent[i] # 0 =>
      /\ Len(activity) = nentries /\ recent[i] \in 1 .. nentries
      /\ i > 1 => activity[recent[i]] <= INHIBITED[WINDOW - i + 1]

ActInv == ActTypes /\ RelaxingCounted /\ StillInhibited /\ NoQuickRepeat
-----------------------------------------------------------------------------
(* The activities of an inhibited response, draw after draw.                *)
LEMMA WindowFacts ==
  /\ Len(INHIBITED) \in Nat /\ WINDOW \in Nat \ {0}
  /\ WINDOW = Len(INHIBITED) + 1
  /\ \A k \in 1 .. Len(INHIBITED) : INHIBITED[k] \in Int /\ INHIBITED[k] <= 0
  /\ Len(INHIBITED) > 0 => INHIBITED[1] = -INHIBIT
  /\ \A k \in 1 .. Len(INHIBITED) - 1 :
       INHIBITED[k + 1] = Recovered(INHIBITED[k], ALPHA)
<1>1. /\ INHIBITED \in Seq(Int) /\ Len(INHIBITED) \in Nat
      /\ DOMAIN INHIBITED = 1 .. Len(INHIBITED)
  BY LenProperties, InhibitionAssumption
<1>2. WINDOW \in Nat \ {0} /\ WINDOW = Len(INHIBITED) + 1
  BY <1>1 DEF WINDOW
<1>3. \A k \in 1 .. Len(INHIBITED) : INHIBITED[k] \in Int /\ INHIBITED[k] <= 0
  BY <1>1, InhibitionAssumption
<1>4. Len(INHIBITED) > 0 => INHIBITED[1] = -INHIBIT
  BY <1>1, InhibitionAssumption
<1>5. ASSUME NEW k \in 1 .. Len(INHIBITED) - 1
      PROVE  INHIBITED[k + 1] = Recovered(INHIBITED[k], ALPHA)
  <2>1. k + 1 \in DOMAIN INHIBITED /\ k + 1 # 1 /\ (k + 1) - 1 = k
    BY <1>1
  <2> QED BY <2>1, InhibitionAssumption
<1> QED BY <1>1, <1>2, <1>3, <1>4, <1>5

(* The recovery, rounded as on disk, keeps the order of activities.         *)
LEMMA RecoveredMonotone ==
  ASSUME NEW v \in Int, NEW w \in Int
  PROVE  /\ Recovered(v, ALPHA) \in Int
         /\ v <= w => Recovered(v, ALPHA) <= Recovered(w, ALPHA)
<1>1. CASE ALPHA = 2 BY <1>1 DEF Recovered
<1>2. CASE ALPHA = 4 BY <1>2 DEF Recovered
<1>3. CASE ALPHA = 6 BY <1>3 DEF Recovered
<1>4. CASE ALPHA = 8 BY <1>4 DEF Recovered
<1> QED BY <1>1, <1>2, <1>3, <1>4, AlphaAssumption

(* The activities a draw starts from.                                       *)
LEMMA ReadFacts ==
  ASSUME ActTypes
  PROVE  /\ read_activities \in Seq(Int) /\ Len(read_activities) = nentries
         /\ DOMAIN read_activities = 1 .. nentries
         /\ Len(activity) = nentries => read_activities = activity
<1> DEFINE fresh == [i \in 1 .. nentries |-> ACT_INITIAL]
<1>1. fresh \in Seq(Int) /\ Len(fresh) = nentries
  BY FileAssumption DEF ActTypes
<1>2. read_activities \in Seq(Int) /\ Len(read_activities) = nentries
  BY <1>1 DEF ActTypes, read_activities
<1> QED BY <1>2, LenProperties DEF read_activities

(* The last draws shift by one place.                                       *)
LEMMA RecentShifted ==
  ASSUME ActTypes, NEW p \in Nat
  PROVE  /\ Append(Tail(recent), p) \in [1 .. WINDOW -> Nat]
         /\ \A i \in 1 .. WINDOW :
              Append(Tail(recent), p)[i] = IF i = WINDOW THEN p ELSE recent[i + 1]
<1>1. WINDOW \in Nat \ {0}
  BY WindowFacts
<1>2. recent \in Seq(Nat) /\ Len(recent) = WINDOW /\ recent # <<>>
  BY <1>1 DEF ActTypes
<1>3. /\ Tail(recent) \in Seq(Nat) /\ Len(Tail(recent)) = WINDOW - 1
      /\ \A i \in 1 .. WINDOW - 1 : Tail(recent)[i] = recent[i + 1]
  BY <1>1, <1>2
<1> DEFINE a == Append(Tail(recent), p)
<1>4. /\ a \in Seq(Nat) /\ Len(a) = WINDOW
      /\ a[WINDOW] = p
      /\ \A i \in 1 .. WINDOW - 1 : a[i] = Tail(recent)[i]
  BY <1>1, <1>3
<1>5. a \in [1 .. WINDOW -> Nat]
  BY <1>4, LenProperties
<1>6. \A i \in 1 .. WINDOW : a[i] = IF i = WINDOW THEN p ELSE recent[i + 1]
  BY <1>1, <1>3, <1>4
<1> QED BY <1>5, <1>6

(* What a draw writes: the response picked is inhibited, the others recover.*)
LEMMA UpdatedFacts ==
  ASSUME NEW a \in Seq(Int), NEW p \in Nat
  PROVE  /\ Updated(a, p) \in Seq(Int) /\ Len(Updated(a, p)) = Len(a)
         /\ \A i \in 1 .. Len(a) :
              Updated(a, p)[i] = IF i = p THEN -INHIBIT ELSE Recovered(a[i], ALPHA)
<1>1. DOMAIN a = 1 .. Len(a) /\ Len(a) \in Nat
  BY LenProperties
<1>2. ASSUME NEW i \in 1 .. Len(a)
      PROVE  (IF i = p THEN -INHIBIT ELSE Recovered(a[i], ALPHA)) \in Int
  <2>1. a[i] \in Int
    BY <1>1, ElementOfSeq
  <2> QED BY <2>1, RecoveredMonotone, FileAssumption
<1> DEFINE u == [i \in 1 .. Len(a) |-> IF i = p THEN -INHIBIT ELSE Recovered(a[i], ALPHA)]
<1>3. Updated(a, p) = u
  BY <1>1 DEF Updated
<1>4. u \in [1 .. Len(a) -> Int]
  BY <1>2
<1>5. u \in Seq(Int) /\ Len(u) = Len(a)
  BY <1>1, <1>4, IsASeq
<1> QED BY <1>3, <1>5
-----------------------------------------------------------------------------
(* Before the first draw nothing counts as drawn lately.                    *)
LEMMA InitAct == ASSUME DrawInit PROVE ActInv
<1>1. recent \in [1 .. WINDOW -> Nat] /\ \A i \in 1 .. WINDOW : recent[i] = 0
  BY DEF DrawInit
<1>2. ActTypes
  BY <1>1, FileAssumption DEF DrawInit, ActTypes, NotRelaxing
<1> QED BY <1>1, <1>2
        DEF DrawInit, ActInv, RelaxingCounted, StillInhibited, NoQuickRepeat

(* A draw takes a response that is not inhibited, and inhibits it; those    *)
(* drawn before have recovered by one step.                                 *)
LEMMA DrawAct ==
  ASSUME ActInv, NEW p \in 0 .. nentries, update_activities(p),
         p # 0 => read_activities[p] > 0
  PROVE  ActInv'
<1> DEFINE a == read_activities
<1>1. ActTypes
  BY DEF ActInv
<1>2. /\ activity' = Updated(a, p) /\ recent' = Append(Tail(recent), p)
      /\ UNCHANGED <<nentries, relaxing, relaxed>>
  BY DEF update_activities
<1>3. /\ a \in Seq(Int) /\ Len(a) = nentries /\ DOMAIN a = 1 .. nentries
      /\ Len(activity) = nentries => a = activity
  BY <1>1, ReadFacts
<1>4. p \in Nat /\ nentries \in Nat
  BY <1>1 DEF ActTypes
<1>5. /\ activity' \in Seq(Int) /\ Len(activity') = nentries
      /\ \A i \in 1 .. nentries :
           activity'[i] = IF i = p THEN -INHIBIT ELSE Recovered(a[i], ALPHA)
  BY <1>2, <1>3, <1>4, UpdatedFacts
<1>6. /\ recent' \in [1 .. WINDOW -> Nat]
      /\ \A i \in 1 .. WINDOW : recent'[i] = IF i = WINDOW THEN p ELSE recent[i + 1]
  BY <1>1, <1>2, <1>4, RecentShifted
<1> HIDE DEF a
<1>7. ActTypes'
  BY <1>1, <1>2, <1>5, <1>6 DEF ActTypes
<1>8. ASSUME relaxed = 0, NEW i \in 1 .. WINDOW - 1, recent[i + 1] # 0
      PROVE  /\ recent[i + 1] \in 1 .. nentries /\ recent[i + 1] # p
             /\ i > 1 => activity'[recent[i + 1]] <= INHIBITED[WINDOW - i + 1]
  <2> DEFINE r == recent[i + 1]
             k == WINDOW - i
  <2>1. k \in 1 .. Len(INHIBITED) /\ i + 1 \in 1 .. WINDOW /\ i + 1 > 1
        /\ WINDOW - (i + 1) + 1 = k
    BY WindowFacts
  <2>2. /\ Len(activity) = nentries /\ r \in 1 .. nentries
        /\ activity[r] <= INHIBITED[k]
    <3>1. /\ Len(activity) = nentries /\ r \in 1 .. nentries
          /\ activity[r] <= INHIBITED[WINDOW - (i + 1) + 1]
      BY <1>8, <2>1 DEF ActInv, StillInhibited
    <3> QED BY <3>1, <2>1
  <2>3. a = activity /\ a[r] \in Int
    BY <2>2, <1>3, ElementOfSeq
  <2>4. INHIBITED[k] \in Int /\ INHIBITED[k] <= 0
    BY <2>1, WindowFacts
  <2>5. r # p
    <3>1. a[r] <= 0
      BY <2>2, <2>3, <2>4
    <3>2. r # 0
      BY <1>8
    <3> QED BY <3>1, <3>2, <2>3 DEF a
  <2>6. ASSUME i > 1 PROVE activity'[r] <= INHIBITED[WINDOW - i + 1]
    <3>1. k \in 1 .. Len(INHIBITED) - 1 /\ WINDOW - i + 1 = k + 1
      BY <2>6, WindowFacts
    <3>2. INHIBITED[k + 1] = Recovered(INHIBITED[k], ALPHA)
      BY <3>1, WindowFacts
    <3>3. Recovered(a[r], ALPHA) <= Recovered(INHIBITED[k], ALPHA)
      BY <2>2, <2>3, <2>4, RecoveredMonotone
    <3>4. activity'[r] = Recovered(a[r], ALPHA)
      BY <1>5, <2>2, <2>5
    <3> QED BY <3>1, <3>2, <3>3, <3>4
  <2> QED BY <2>2, <2>5, <2>6
<1>9. StillInhibited'
  <2> SUFFICES ASSUME relaxed = 0, NEW i \in 1 .. WINDOW, recent'[i] # 0
               PROVE  /\ Len(activity') = nentries /\ recent'[i] \in 1 .. nentries
                      /\ i > 1 => activity'[recent'[i]] <= INHIBITED[WINDOW - i + 1]
    BY <1>2 DEF StillInhibited
  <2>1. CASE i = WINDOW
    <3>1. recent'[i] = p /\ p \in 1 .. nentries
      BY <2>1, <1>4, <1>6
    <3>2. activity'[p] = -INHIBIT
      BY <3>1, <1>5
    <3>3. i > 1 => INHIBITED[WINDOW - i + 1] = -INHIBIT
      <4>1. WINDOW - i + 1 = 1
        BY <2>1, WindowFacts
      <4>2. i > 1 => Len(INHIBITED) > 0
        BY <2>1, WindowFacts
      <4> QED BY <4>1, <4>2, WindowFacts
    <3> QED BY <3>1, <3>2, <3>3, <1>5, FileAssumption
  <2>2. CASE i # WINDOW
    <3>1. i \in 1 .. WINDOW - 1 /\ recent'[i] = recent[i + 1]
      BY <2>2, <1>6, WindowFacts
    <3> QED BY <3>1, <1>5, <1>8
  <2> QED BY <2>1, <2>2
<1>10. NoQuickRepeat'
  <2> SUFFICES ASSUME relaxed = 0, NEW i \in 1 .. WINDOW, NEW j \in 1 .. WINDOW,
                      i < j, recent'[i] # 0
               PROVE  recent'[i] # recent'[j]
    <3>1. \A x, y \in 1 .. WINDOW : x # y => x < y \/ y < x
      BY WindowFacts
    <3> QED BY <1>2, <3>1 DEF NoQuickRepeat
  <2>1. /\ i \in 1 .. WINDOW - 1 /\ recent'[i] = recent[i + 1]
        /\ i + 1 \in 1 .. WINDOW
    BY <1>6, WindowFacts
  <2>2. CASE j = WINDOW
    BY <2>1, <2>2, <1>6, <1>8
  <2>3. CASE j # WINDOW
    <3>1. recent'[j] = recent[j + 1]
      BY <2>3, <1>6
    <3>2. WINDOW \in Nat
      BY WindowFacts
    <3>3. j + 1 \in 1 .. WINDOW /\ i + 1 # j + 1
      BY <2>3, <3>2
    <3> QED BY <2>1, <3>1, <3>3 DEF ActInv, NoQuickRepeat
  <2> QED BY <2>2, <2>3
<1> QED BY <1>2, <1>7, <1>9, <1>10 DEF ActInv, RelaxingCounted

(* Each outcome of pick_winner is a response that is not inhibited, or none.*)
LEMMA RandomDrawAct ==
  ASSUME ActInv, get_random_entry_words
  PROVE  ActInv'
<1>1. ActTypes /\ nentries \in Nat /\ DOMAIN read_activities = 1 .. nentries
  BY ReadFacts DEF ActInv, ActTypes
<1>2. CASE \E r \in 1 .. MaxResponses : Draw(r)
  <2>1. PICK r \in 1 .. MaxResponses : Draw(r)
    BY <1>2
  <2>2. r \in 0 .. nentries
    BY <2>1, <1>1, FileAssumption DEF Draw
  <2> QED BY <2>1, <2>2, DrawAct DEF Draw
<1>3. CASE DrawFirst
  <2>1. PICK r \in 1 .. nentries : First(read_activities, r) /\ update_activities(r)
    BY <1>3 DEF DrawFirst
  <2>2. r \in 0 .. nentries /\ read_activities[r] > 0
    BY <2>1, <1>1 DEF First, Positive
  <2> QED BY <2>1, <2>2, DrawAct
<1>4. CASE DrawNothing
  <2>1. update_activities(0) /\ 0 \in 0 .. nentries
    BY <1>1, <1>4 DEF DrawNothing
  <2> QED BY <2>1, DrawAct
<1> QED BY <1>2, <1>3, <1>4 DEF get_random_entry_words

(* A line more in the file makes what is on disk void, and nothing counts   *)
(* as drawn lately.                                                         *)
LEMMA StoreAct == ASSUME ActInv, store_question PROVE ActInv'
<1>1. recent' \in [1 .. WINDOW -> Nat] /\ \A i \in 1 .. WINDOW : recent'[i] = 0
  BY DEF store_question
<1>2. ActTypes'
  BY <1>1 DEF ActInv, ActTypes, store_question
<1> QED BY <1>1, <1>2
        DEF ActInv, store_question, RelaxingCounted, StillInhibited, NoQuickRepeat

(* A run of splotch-relax is counted, and ends what is claimed of the draws.*)
LEMMA RelaxAct ==
  ASSUME ActInv, RelaxRead \/ RelaxWrite
  PROVE  ActInv'
<1>1. ActTypes
  BY DEF ActInv
<1>2. CASE RelaxRead
  <2>1. ActTypes' /\ relaxed' > 0
    BY <1>1, <1>2 DEF ActTypes, RelaxRead
  <2> QED BY <2>1 DEF ActInv, RelaxingCounted, StillInhibited, NoQuickRepeat, ActTypes
<1>3. CASE RelaxWrite
  <2>1. activity' \in Seq(Int)
    <3>1. DOMAIN relaxing = 1 .. Len(relaxing) /\ Len(relaxing) \in Nat
      BY <1>1, LenProperties DEF ActTypes
    <3>2. \A i \in 1 .. Len(relaxing) : Recovered(relaxing[i], ALPHA) \in Int
      BY <1>1, <3>1, ElementOfSeq, RecoveredMonotone DEF ActTypes
    <3>3. activity' = [i \in 1 .. Len(relaxing) |-> Recovered(relaxing[i], ALPHA)]
      BY <1>3, <3>1 DEF RelaxWrite
    <3>4. activity' \in [1 .. Len(relaxing) -> Int]
      BY <3>2, <3>3
    <3> QED BY <3>1, <3>4, IsASeq
  <2>2. ActTypes'
    BY <1>1, <1>3, <2>1 DEF ActTypes, RelaxWrite, NotRelaxing
  <2>3. relaxed' > 0
    BY <1>3 DEF ActInv, RelaxingCounted, RelaxWrite
  <2> QED BY <2>2, <2>3 DEF ActInv, RelaxingCounted, StillInhibited, NoQuickRepeat, ActTypes
<1> QED BY <1>2, <1>3

(* Nothing happens.                                                         *)
LEMMA StutterAct == ASSUME ActInv, UNCHANGED draw_vars PROVE ActInv'
BY DEF draw_vars, ActInv, ActTypes, RelaxingCounted, StillInhibited, NoQuickRepeat

(* Each draw finds those of the draws before it inhibited, on disk.         *)
THEOREM ActInvariance == DrawSpec => []ActInv
<1>1. ASSUME ActInv, [DrawNext]_draw_vars PROVE ActInv'
  BY <1>1, RandomDrawAct, StoreAct, RelaxAct, StutterAct DEF DrawNext
<1> QED BY InitAct, <1>1, PTL DEF DrawSpec

(* No response comes up twice within the draws that its inhibition lasts,   *)
(* however many responses there are and however strong the inhibition.      *)
THEOREM RepetitionsAvoided == DrawSpec => []NoQuickRepeat
<1>1. ActInv => NoQuickRepeat
  BY DEF ActInv
<1> QED BY ActInvariance, <1>1, PTL
-----------------------------------------------------------------------------
(* What checkrecursion has to guarantee: if V has no circle and i is not   *)
(* reached from e, then V with i defined as e has no circle either.  Given *)
(* a set S of variables, either a closed set C that contains e but not i   *)
(* misses S, and i itself is the one defined without the others, or it is  *)
(* found in S \cap C, where nothing changed and from where nothing leads   *)
(* out of C.                                                               *)
LEMMA NoNewCircle ==
  ASSUME NEW V \in [Places -> [defined : BOOLEAN, uses : Exprs]],
         NEW i \in Places, NEW e \in Exprs, NEW W,
         Acyclic(V),
         ~Reaches(V, e, i),
         W = [V EXCEPT ![i] = Definition(e)]
  PROVE  Acyclic(W)
  <1> USE DEF Acyclic
  <1> SUFFICES ASSUME NEW S \in SUBSET Places, S # {}
               PROVE  \E k \in S : W[k].uses \cap S = {}
    OBVIOUS
  <1>1. W[i].uses = e
    BY DEF Definition
  <1>2. \A k \in Places \ {i} : W[k].uses = V[k].uses
    OBVIOUS
  <1>3. CASE i \notin S
    <2>1. PICK k \in S : V[k].uses \cap S = {}
      OBVIOUS
    <2>2. W[k].uses \cap S = {}
      BY <1>2, <1>3, <2>1
    <2> QED
      BY <2>1, <2>2
  <1>4. CASE i \in S
    <2>1. PICK C \in SUBSET Places : e \subseteq C /\ Closed(V, C) /\ i \notin C
      BY DEF Reaches
    <2>2. CASE S \cap C = {}
      <3>1. W[i].uses \cap S = {}
        BY <1>1, <2>1, <2>2
      <3> QED
        BY <1>4, <3>1
    <2>3. CASE S \cap C # {}
      <3>1. PICK k \in S \cap C : V[k].uses \cap (S \cap C) = {}
        BY <2>3
      <3>2. V[k].uses \subseteq C
        BY <2>1, <3>1 DEF Closed
      <3>3. W[k].uses = V[k].uses
        BY <1>2, <2>1, <3>1
      <3>4. W[k].uses \cap S = {}
        BY <3>1, <3>2, <3>3
      <3> QED
        BY <3>1, <3>4
    <2> QED
      BY <2>2, <2>3
  <1> QED
    BY <1>3, <1>4

(* Taking a definition away makes no circle.                               *)
LEMMA NoCircleByUndefining ==
  ASSUME NEW V \in [Places -> [defined : BOOLEAN, uses : Exprs]],
         NEW i \in Places, NEW W,
         Acyclic(V),
         W = [V EXCEPT ![i] = ENULL]
  PROVE  Acyclic(W)
  <1> USE DEF Acyclic
  <1> SUFFICES ASSUME NEW S \in SUBSET Places, S # {}
               PROVE  \E k \in S : W[k].uses \cap S = {}
    OBVIOUS
  <1>1. PICK k \in S : V[k].uses \cap S = {}
    OBVIOUS
  <1>2. W[k].uses \subseteq V[k].uses
    BY DEF ENULL
  <1>3. W[k].uses \cap S = {}
    BY <1>1, <1>2
  <1> QED
    BY <1>1, <1>3

-----------------------------------------------------------------------------
(* What is on the stack in a running program: typed names, by their place. *)
Known(item) ==
  /\ item \in Items
  /\ item.name <= Nvar /\ item.uses \subseteq 1 .. Nvar
  /\ \A i \in item.uses \cup ({item.name} \ {0}) : Varname[i] \in typed

(* The actions that only exchange the top of the stack for another known   *)
(* item keep the invariant.                                                *)
LEMMA NewTop ==
  ASSUME CalculatorInv, pc = "parsing",
         UNCHANGED <<pc, Varname, res, typed>>,
         NEW k \in Nat, k <= Len(stack), NEW item, Known(item),
         stack' = Append(Drop(k), item),
         Variable' \in [Places -> [defined : BOOLEAN, uses : Exprs]],
         \A i \in Places : Variable'[i].uses \subseteq 1 .. Nvar,
         NoCircle'
  PROVE  CalculatorInv'
  <1> USE DEF CalculatorInv
  <1>1. stack \in Seq(Items) /\ item \in Items
    BY DEF SumTypeOK, Known
  <1>2. Drop(k) \in Seq(Items) /\ Len(Drop(k)) = Len(stack) - k
        /\ \A j \in 1 .. Len(stack) - k : Drop(k)[j] = stack[j]
    BY <1>1 DEF Drop
  <1>3. stack' \in Seq(Items)
    BY <1>1, <1>2
  <1>4. \A j \in DOMAIN stack' :
          stack'[j] = item \/ (j \in DOMAIN stack /\ stack'[j] = stack[j])
    BY <1>1, <1>2
  <1>5. SumTypeOK'
    BY <1>3 DEF SumTypeOK
  <1>6. TableSound'
    <2>1. Nvar' = Nvar
      BY DEF Nvar
    <2>2. \A j \in DOMAIN stack' :
            stack'[j].name <= Nvar /\ stack'[j].uses \subseteq 1 .. Nvar
      BY <1>4 DEF TableSound, Known
    <2> QED
      BY <2>1, <2>2 DEF TableSound
  <1>7. ShownWasTyped'
    BY DEF ShownWasTyped
  <1>8. (pc # "exited" =>
          \A j \in DOMAIN stack :
            \A i \in stack[j].uses \cup ({stack[j].name} \ {0}) :
              Varname[i] \in typed)'
    BY <1>4 DEF Known
  <1> QED
    BY <1>5, <1>6, <1>7, <1>8

(* The items of the stack are known.                                       *)
LEMMA StackKnown ==
  ASSUME CalculatorInv, pc = "parsing", NEW j \in DOMAIN stack
  PROVE  Known(stack[j])
  <1>1. stack[j] \in Items
    BY DEF CalculatorInv, SumTypeOK
  <1> QED
    BY <1>1 DEF CalculatorInv, TableSound, Known

-----------------------------------------------------------------------------
(* Before the first question there is no variable.                          *)
LEMMA SumInitInv == SumInit => CalculatorInv
  <1> SUFFICES ASSUME SumInit PROVE CalculatorInv
    OBVIOUS
  <1> USE DEF SumInit
  <1>1. SumTypeOK
    <2>1. Nothing \in [shown : SUBSET Names, value : Values]
      BY DEF Nothing, Values
    <2>2. Variable \in [Places -> [defined : BOOLEAN, uses : Exprs]]
      BY DEF ENULL, Exprs
    <2> QED
      BY <2>1, <2>2 DEF SumTypeOK
  <1>2. NoCircle
    BY DEF NoCircle, Acyclic, ENULL
  <1>3. TableSound
    <2>1. Nvar = 0 /\ Nvar < MAXVAR
      BY TableAssumption DEF Nvar
    <2>2. \A i \in Places : Variable[i].uses \subseteq 1 .. Nvar
      BY DEF ENULL
    <2> QED
      BY <2>1, <2>2 DEF TableSound
  <1>4. ShownWasTyped
    BY DEF ShownWasTyped, Nothing
  <1>5. stack = <<>>
    OBVIOUS
  <1> QED
    BY <1>1, <1>2, <1>3, <1>4, <1>5 DEF CalculatorInv

(* A new program starts like the first one.                                *)
LEMMA SumRestartInv == SumRestart => CalculatorInv'
  <1> SUFFICES ASSUME SumRestart PROVE CalculatorInv'
    OBVIOUS
  <1> USE DEF SumRestart
  <1>1. SumTypeOK'
    <2>1. Nothing \in [shown : SUBSET Names, value : Values]
      BY DEF Nothing, Values
    <2>2. Variable' \in [Places -> [defined : BOOLEAN, uses : Exprs]]
      BY DEF ENULL, Exprs
    <2> QED
      BY <2>1, <2>2 DEF SumTypeOK
  <1>2. NoCircle'
    BY DEF NoCircle, Acyclic, ENULL
  <1>3. TableSound'
    <2>1. Nvar' = 0 /\ Nvar' < MAXVAR
      BY TableAssumption DEF Nvar
    <2>2. \A i \in Places : Variable'[i].uses \subseteq 1 .. Nvar'
      BY DEF ENULL
    <2> QED
      BY <2>1, <2>2 DEF TableSound
  <1>4. ShownWasTyped'
    BY DEF ShownWasTyped, Nothing
  <1> QED
    BY <1>1, <1>2, <1>3, <1>4 DEF CalculatorInv

(* yylex: the table grows at its end, so that every place keeps its name.  *)
LEMMA LexVariableInv ==
  ASSUME CalculatorInv, NEW n \in Names, LexVariable(n)
  PROVE  CalculatorInv'
  <1> USE DEF CalculatorInv
  <1>1. Varname \in Seq(Names) /\ Nvar \in Nat /\ stack \in Seq(Items)
    BY DEF SumTypeOK, Nvar
  <1>2. /\ Varname' \in Seq(Names)
        /\ Len(Varname') \in Nvar .. Nvar + 1
        /\ \A i \in 1 .. Nvar : Varname'[i] = Varname[i]
        /\ \E i \in DOMAIN Varname' : Varname'[i] = n
        /\ \A i, j \in DOMAIN Varname' : Varname'[i] = Varname'[j] => i = j
    <2>1. \A i, j \in DOMAIN Varname : Varname[i] = Varname[j] => i = j
      BY DEF LexVariable, TableSound
    <2>2. CASE \E i \in DOMAIN Varname : Varname[i] = n
      <3>1. Varname' = Varname
        BY <2>2 DEF LexVariable, Enter
      <3> QED
        BY <1>1, <2>1, <2>2, <3>1 DEF Nvar
    <2>3. CASE ~\E i \in DOMAIN Varname : Varname[i] = n
      <3>1. Varname' = Append(Varname, n)
        BY <2>3 DEF LexVariable, Enter
      <3>2. /\ Len(Varname') = Nvar + 1 /\ Varname'[Nvar + 1] = n
            /\ \A i \in 1 .. Nvar : Varname'[i] = Varname[i]
        BY <1>1, <3>1 DEF Nvar
      <3>3. \A i, j \in DOMAIN Varname' : Varname'[i] = Varname'[j] => i = j
        BY <1>1, <2>1, <2>3, <3>1, <3>2 DEF Nvar
      <3> QED
        BY <1>1, <3>1, <3>2, <3>3 DEF Nvar
    <2> QED
      BY <2>2, <2>3
  <1>3. Nvar < MAXVAR
    BY DEF LexVariable, TableSound
  <1>4. NoCircle' /\ ShownWasTyped'
    BY DEF LexVariable, NoCircle, ShownWasTyped
  <1>5. CASE Full(Varname')
    <2>1. pc' = "exited" /\ stack' = stack
      BY <1>5 DEF LexVariable
    <2>2. SumTypeOK'
      BY <1>2, <2>1 DEF LexVariable, SumTypeOK
    <2> QED
      BY <1>4, <2>1, <2>2 DEF TableSound
  <1>6. CASE ~Full(Varname')
    <2> DEFINE p == PlaceOf(Varname', n)
    <2>1. p \in DOMAIN Varname' /\ Varname'[p] = n
      BY <1>2 DEF PlaceOf
    <2>2. p \in 1 .. Nvar' /\ Nvar' < MAXVAR /\ Nvar <= Nvar' /\ Nvar' \in Nat
      BY <1>1, <1>2, <1>3, <1>6, <2>1, TableAssumption DEF Nvar, Full
    <2>3. Token(p) \in Items
      BY <2>2, TableAssumption DEF Token, Items, Places, Exprs
    <2>4. pc' = pc /\ pc = "parsing" /\ stack' = Append(stack, Token(p))
      BY <1>6 DEF LexVariable, Shift
    <2>5. SumTypeOK'
      BY <1>1, <1>2, <2>3, <2>4 DEF LexVariable, SumTypeOK
    <2>6. \A j \in DOMAIN stack' :
            \/ stack'[j] = Token(p)
            \/ j \in DOMAIN stack /\ stack'[j] = stack[j]
      BY <1>1, <2>3, <2>4
    <2>7. \A j \in DOMAIN stack :
            stack[j].name \in 0 .. Nvar /\ stack[j].uses \subseteq 1 .. Nvar
      <3> SUFFICES ASSUME NEW j \in DOMAIN stack
                   PROVE  /\ stack[j].name \in 0 .. Nvar
                          /\ stack[j].uses \subseteq 1 .. Nvar
        OBVIOUS
      <3>1. stack[j] \in Items
        BY <1>1
      <3>2. stack[j].name \in Places \cup {0}
        BY <3>1 DEF Items
      <3>3. stack[j].name \in Nat
        BY <3>2, TableAssumption DEF Places
      <3> QED
        BY <1>1, <2>4, <3>3 DEF TableSound
    <2>8. TableSound'
      <3>1. \A i \in Places : Variable'[i].uses \subseteq 1 .. Nvar'
        <4>1. Variable' = Variable
          BY DEF LexVariable
        <4>2. \A i \in Places : Variable[i].uses \subseteq 1 .. Nvar
          BY <2>4 DEF TableSound
        <4>3. 1 .. Nvar \subseteq 1 .. Nvar'
          BY <1>1, <2>2
        <4> QED
          BY <4>1, <4>2, <4>3
      <3>2. \A j \in DOMAIN stack' :
              stack'[j].name <= Nvar' /\ stack'[j].uses \subseteq 1 .. Nvar'
        BY <1>1, <2>2, <2>6, <2>7 DEF Token
      <3> QED
        BY <1>2, <2>2, <3>1, <3>2 DEF TableSound
    <2>9. \A j \in DOMAIN stack' :
            \A i \in stack'[j].uses \cup ({stack'[j].name} \ {0}) :
              Varname'[i] \in typed'
      <3>1. \A j \in DOMAIN stack :
              \A i \in stack[j].uses \cup ({stack[j].name} \ {0}) :
                Varname'[i] \in typed'
        <4>1. \A j \in DOMAIN stack :
                \A i \in stack[j].uses \cup ({stack[j].name} \ {0}) : i \in 1 .. Nvar
          BY <1>1, <2>7
        <4>2. typed \subseteq typed'
          BY DEF LexVariable
        <4> QED
          BY <1>2, <2>4, <4>1, <4>2
      <3>2. \A i \in Token(p).uses \cup ({Token(p).name} \ {0}) :
              Varname'[i] \in typed'
        BY <2>1 DEF Token, LexVariable
      <3> QED
        BY <2>6, <3>1, <3>2
    <2> QED
      BY <1>4, <2>4, <2>5, <2>8, <2>9
  <1> QED
    BY <1>5, <1>6

-----------------------------------------------------------------------------
(* The other actions of the parser exchange the top of the stack.          *)
LEMMA ExchangeInv ==
  ASSUME CalculatorInv,
         LexNumber \/ ReduceVariable \/ (\E k \in 1 .. 3 : Operation(k)) \/ Constant
  PROVE  CalculatorInv'
  <1>1. /\ pc = "parsing" /\ UNCHANGED <<pc, Varname, Variable, res, typed>>
        /\ stack \in Seq(Items)
    BY DEF CalculatorInv, SumTypeOK, LexNumber, ReduceVariable, Operation, Constant
  <1>2. /\ Variable' \in [Places -> [defined : BOOLEAN, uses : Exprs]]
        /\ \A i \in Places : Variable'[i].uses \subseteq 1 .. Nvar
        /\ NoCircle'
    BY <1>1 DEF CalculatorInv, SumTypeOK, TableSound, NoCircle
  <1>3. \A j \in DOMAIN stack : Known(stack[j])
    BY <1>1, StackKnown
  <1>4. Known(Operand({}))
    BY <1>1, TableAssumption DEF Known, Operand, Items, Places, Exprs, Nvar,
       CalculatorInv, SumTypeOK
  <1>5. CASE LexNumber
    <2>1. stack' = Append(Drop(0), Operand({}))
      BY <1>1, <1>5 DEF LexNumber, Shift, Drop
    <2> QED
      BY <1>1, <1>2, <1>4, <2>1, NewTop
  <1>6. CASE ReduceVariable
    <2>1. PICK item : item = VariableNode(Top)
      OBVIOUS
    <2>2. stack # <<>> /\ Top.name # 0 /\ Known(Top)
      BY <1>1, <1>3, <1>6 DEF ReduceVariable, IsOperand, Top
    <2>3. Known(item)
      <3>1. Top.name \in Places /\ Top.name \in 1 .. Nvar
        BY <1>1, <2>2, TableAssumption DEF Known, Items, Places, Nvar,
           CalculatorInv, SumTypeOK
      <3>2. item.name = 0 /\ item.uses = {Top.name}
        BY <2>1 DEF VariableNode, Operand
      <3>3. item \in Items /\ 0 <= Nvar
        BY <1>1, <2>1, <3>1 DEF VariableNode, Operand, Items, Exprs, Nvar,
           CalculatorInv, SumTypeOK
      <3> QED
        BY <2>2, <3>1, <3>2, <3>3 DEF Known
    <2>4. stack' = Append(Drop(1), item) /\ 1 <= Len(stack)
      BY <1>1, <1>6, <2>1, <2>2 DEF ReduceVariable
    <2> QED
      BY <1>1, <1>2, <2>3, <2>4, NewTop
  <1>7. ASSUME NEW k \in 1 .. 3, Operation(k)
        PROVE  CalculatorInv'
    <2> DEFINE U == UNION {stack[j].uses : j \in Len(stack) - k + 1 .. Len(stack)}
    <2>1. PICK item : item = Operand(U)
      OBVIOUS
    <2>2. k <= Len(stack) /\ stack' = Append(Drop(k), item)
      BY <1>7, <2>1 DEF Operation
    <2>3. \A j \in Len(stack) - k + 1 .. Len(stack) :
            j \in DOMAIN stack /\ Known(stack[j])
      BY <1>1, <1>3, <2>2
    <2>4. U \subseteq Places /\ U \subseteq 1 .. Nvar /\ \A i \in U : Varname[i] \in typed
      BY <2>3 DEF Known, Items, Exprs
    <2>5. Known(item)
      BY <1>1, <2>1, <2>4, TableAssumption DEF Known, Operand, Items, Exprs, Nvar,
         CalculatorInv, SumTypeOK
    <2> QED
      BY <1>1, <1>2, <2>2, <2>5, NewTop
  <1>8. CASE Constant
    <2>1. stack' = Append(Drop(1), Operand({})) /\ 1 <= Len(stack)
      BY <1>1, <1>8 DEF Constant
    <2> QED
      BY <1>1, <1>2, <1>4, <2>1, NewTop
  <1> QED
    BY <1>5, <1>6, <1>7, <1>8

(* Assign: the only action that defines, after checkrecursion.             *)
LEMMA AssignInv ==
  ASSUME CalculatorInv, Assign
  PROVE  CalculatorInv'
  <1>1. /\ pc = "parsing" /\ UNCHANGED <<pc, Varname, res, typed>>
        /\ stack \in Seq(Items) /\ Len(stack) >= 2
        /\ Variable \in [Places -> [defined : BOOLEAN, uses : Exprs]]
    BY DEF CalculatorInv, SumTypeOK, Assign
  <1>2. Known(Top) /\ Known(Below) /\ Below.name # 0
    BY <1>1, StackKnown DEF Assign, IsOperand, Top, Below
  <1>3. PICK item : item = Top
    OBVIOUS
  <1>4. PICK i : i = Below.name
    OBVIOUS
  <1>5. i \in Places /\ item.uses \in Exprs /\ item.uses \subseteq 1 .. Nvar
    BY <1>2, <1>3, <1>4 DEF Known, Items
  <1>6. stack' = Append(Drop(2), item) /\ 2 <= Len(stack) /\ Known(item)
    BY <1>1, <1>2, <1>3 DEF Assign
  <1>7. /\ Acyclic(Variable)
        /\ \A k \in Places : Variable[k].uses \subseteq 1 .. Nvar
    BY <1>1 DEF CalculatorInv, NoCircle, TableSound
  <1> PICK V : V = Variable
    OBVIOUS
  <1> PICK W : W = Variable'
    OBVIOUS
  <1>8. CASE Reaches(Variable, item.uses, i)
    <2>1. Variable' = [Variable EXCEPT ![i] = ENULL]
      BY <1>3, <1>4, <1>8 DEF Assign, checkrecursion
    <2>2. ENULL \in [defined : BOOLEAN, uses : Exprs] /\ ENULL.uses = {}
      BY DEF ENULL, Exprs
    <2>3. Acyclic(W)
      <3>1. /\ V \in [Places -> [defined : BOOLEAN, uses : Exprs]]
            /\ Acyclic(V)
        BY <1>1, <1>7
      <3>2. W = [V EXCEPT ![i] = ENULL]
        BY <2>1
      <3> QED
        BY <1>5, <3>1, <3>2, NoCircleByUndefining
    <2>4. NoCircle'
      BY <2>3 DEF NoCircle
    <2> QED
      BY <1>1, <1>5, <1>6, <1>7, <2>1, <2>2, <2>4, NewTop
  <1>9. CASE ~Reaches(Variable, item.uses, i)
    <2>1. Variable' = [Variable EXCEPT ![i] = Definition(item.uses)]
      BY <1>3, <1>4, <1>9 DEF Assign, checkrecursion
    <2>2. /\ Definition(item.uses) \in [defined : BOOLEAN, uses : Exprs]
          /\ Definition(item.uses).uses = item.uses
      BY <1>5 DEF Definition
    <2>3. Acyclic(W)
      <3>1. /\ V \in [Places -> [defined : BOOLEAN, uses : Exprs]]
            /\ Acyclic(V)
        BY <1>1, <1>7
      <3>2. W = [V EXCEPT ![i] = Definition(item.uses)] /\ ~Reaches(V, item.uses, i)
        BY <2>1, <1>9
      <3> QED
        BY <1>5, <3>1, <3>2, NoNewCircle
    <2>4. NoCircle'
      BY <2>3 DEF NoCircle
    <2> QED
      BY <1>1, <1>5, <1>6, <1>7, <2>1, <2>2, <2>4, NewTop
  <1> QED
    BY <1>8, <1>9

(* Between two questions the stack is empty and the table is kept.         *)
LEMMA QuestionInv ==
  ASSUME CalculatorInv, NotASum \/ Ask \/ SyntaxError \/ Accept
  PROVE  CalculatorInv'
  <1> USE DEF CalculatorInv
  <1>1. /\ UNCHANGED <<Varname, Variable>> /\ pc # "exited" /\ pc' \in {"idle", "parsing"}
        /\ stack' = <<>> /\ <<>> \in Seq(Items)
    BY DEF NotASum, Ask, SyntaxError, Accept
  <1>2. res' \in [shown : SUBSET Names, value : Values] /\ ShownWasTyped'
        /\ typed' \in SUBSET Names
    <2>1. CASE NotASum \/ Ask
      BY <2>1 DEF NotASum, Ask, Nothing, Values, ShownWasTyped
    <2>2. CASE SyntaxError
      BY <2>2 DEF SyntaxError, Values, ShownWasTyped, SumTypeOK
    <2>3. CASE Accept
      <3>1. Known(Top)
        BY <2>3, StackKnown DEF Accept, Top, SumTypeOK
      <3>2. ptree(Top.uses) \subseteq typed
        BY <3>1 DEF Known, ptree
      <3>3. PICK v \in eval(Top.uses) : res' = [shown |-> ptree(Top.uses), value |-> v]
        BY <2>3 DEF Accept
      <3>4. v \in Values
        BY <3>3 DEF eval, Values
      <3> QED
        BY <2>3, <3>2, <3>3, <3>4 DEF Accept, SumTypeOK, ShownWasTyped
    <2> QED
      BY <2>1, <2>2, <2>3
  <1>3. SumTypeOK'
    BY <1>1, <1>2 DEF SumTypeOK
  <1>4. NoCircle'
    BY <1>1 DEF NoCircle
  <1>5. TableSound' /\ (pc # "exited" =>
          \A j \in DOMAIN stack :
            \A i \in stack[j].uses \cup ({stack[j].name} \ {0}) :
              Varname[i] \in typed)'
    BY <1>1 DEF TableSound, Nvar
  <1> QED
    BY <1>1, <1>2, <1>3, <1>4, <1>5

(* Every shift, reduction and answer keeps the table sound.                 *)
THEOREM SumInductive == CalculatorInv /\ [SumNext]_sum_vars => CalculatorInv'
  <1> SUFFICES ASSUME CalculatorInv, [SumNext]_sum_vars
               PROVE  CalculatorInv'
    OBVIOUS
  <1>1. CASE NotASum \/ Ask \/ SyntaxError \/ Accept
    BY <1>1, QuestionInv
  <1>2. ASSUME NEW n \in Names, LexVariable(n)
        PROVE  CalculatorInv'
    BY <1>2, LexVariableInv
  <1>3. CASE LexNumber \/ ReduceVariable \/ (\E k \in 1 .. 3 : Operation(k)) \/ Constant
    BY <1>3, ExchangeInv
  <1>4. CASE Assign
    BY <1>4, AssignInv
  <1>5. CASE SumRestart
    BY <1>5, SumRestartInv
  <1>6. CASE UNCHANGED sum_vars
    BY <1>6 DEF sum_vars, CalculatorInv, SumTypeOK, NoCircle, TableSound, ShownWasTyped, Nvar
  <1> QED
    BY <1>1, <1>2, <1>3, <1>4, <1>5, <1>6 DEF SumNext

(* The types of the calculator, for every table size.                      *)
THEOREM SumTypes == SumSpec => []SumTypeOK
  <1>1. CalculatorInv => SumTypeOK
    BY DEF CalculatorInv
  <1> QED
    BY <1>1, SumInitInv, SumInductive, PTL DEF SumSpec

(* However many questions were asked, no variable is defined by way of     *)
(* itself: eval and checkrecursion return.                                 *)
THEOREM NeverCircular == SumSpec => []NoCircle
  <1>1. CalculatorInv => NoCircle
    BY DEF CalculatorInv
  <1> QED
    BY <1>1, SumInitInv, SumInductive, PTL DEF SumSpec

(* Names and places stay in step, and the table does not overflow.         *)
THEOREM TableIsSound == SumSpec => []TableSound
  <1>1. CalculatorInv => TableSound
    BY DEF CalculatorInv
  <1> QED
    BY <1>1, SumInitInv, SumInductive, PTL DEF SumSpec

(* A reply shows only names that were typed in its question.               *)
THEOREM RepliesToItsQuestion == SumSpec => []ShownWasTyped
  <1>1. CalculatorInv => ShownWasTyped
    BY DEF CalculatorInv
  <1> QED
    BY <1>1, SumInitInv, SumInductive, PTL DEF SumSpec
=============================================================================
