------------------------------- MODULE Chatty -------------------------------
(***************************************************************************)
(* The conversation of the chatbot with several humans: chatty keeps one   *)
(* State for whoever wrote last, saves and resets it when another human    *)
(* writes, and ask picks the topics of a reply from it, each with the      *)
(* question it remembers.  Server_Response sends the reply unless the      *)
(* human is on the ignore list, a file.                                    *)
(***************************************************************************)
EXTENDS Integers, Sequences, SequencesExt

CONSTANTS
  Humans,       \* who writes to the bot, by UIN
  NOBODY,
  Topics,       \* templates of main.dict with a priority above SERIOUS_TOPIC
  NOTOPIC,      \* an empty slot of the history
  HISTORY,      \* slots of the history (20)
  TABOO_LIMIT,  \* taboo words that put a human on the ignore list (4)
  FRESH,        \* activation of a topic just fired, in firings of other
                \* templates until it is taken for 0 (> 0.00001 in save_splotch)
  HOT,          \* least activation that can bring a topic up again (where
                \* act * priority exceeds REACT_THRESHOLD)
  MaxTaboo,     \* bound on the messages with taboo words in one conversation
  MaxRemarks    \* bound on the meta remarks in one reply

ASSUME NamesAssumption == NOBODY \notin Humans /\ NOTOPIC \notin Topics
ASSUME SizeAssumption == HISTORY \in Nat \ {0} /\ TABOO_LIMIT \in Nat

VARIABLES
  current,        \* current_human; NOBODY until the first message
  topics,         \* the history, most recent last
  act,            \* activation of each topic
  last_question,  \* whose question each topic remembers
  ntaboo_words,
  saved,          \* the main.act file of each human: whose questions it holds
  ignorable,      \* the UINs in ignorable_uin.dat
  replied_to,     \* history: to whom the last message was answered
  raised,         \* history: topics raised since the human last changed
  answered,       \* history: those of them whose file gave a response
  streak,         \* history: taboo messages of current since the human changed
  rude            \* history: the longest streak of each human

vars == <<current, topics, act, last_question, ntaboo_words, saved, ignorable,
          replied_to, raised, answered, streak, rude>>

NoTopics == [i \in 1 .. HISTORY |-> NOTOPIC]

Init ==
  /\ current = NOBODY
  /\ topics = NoTopics
  /\ act = [t \in Topics |-> 0]
  /\ last_question = [t \in Topics |-> NOBODY]
  /\ ntaboo_words = 0
  /\ saved = [h \in Humans |-> {}]
  /\ ignorable = {}
  /\ replied_to = NOBODY
  /\ raised = {} /\ answered = {} /\ streak = 0
  /\ rude = [h \in Humans |-> 0]
-----------------------------------------------------------------------------
(* save_splotch writes the topics with an activation to the file of the     *)
(* human it is given: chatty gives it the one who is about to be current.   *)
save_splotch(h) ==
  saved' = [saved EXCEPT ![h] = {last_question[t] : t \in {u \in Topics : act[u] > 0}}]

Switching(h) == current \notin {NOBODY, h}

(* The State a message of h is processed with, after reset_splotch on a     *)
(* switch: history and counts start again, activations do not.              *)
\* (Mutants: the history, or the count, is kept.)
HistoryKept(h) == topics
TabooWordsKept(h) == ntaboo_words
History(h) == IF Switching(h) THEN NoTopics ELSE topics
TabooWords(h) == IF Switching(h) THEN 0 ELSE ntaboo_words

Raised(h) == IF current = h THEN raised ELSE {}
Answered(h) == IF current = h THEN answered ELSE {}
Streak(h) == IF current = h THEN streak ELSE 0

SwitchTo(h) ==
  /\ current' = h
  /\ IF Switching(h) THEN save_splotch(h) ELSE UNCHANGED saved

(* Activations after usetempl(t): t is excited, all the others relax.  A    *)
(* neutral template, which is no topic, only lets them relax.               *)
Fire(a, t) ==
  [u \in Topics |-> IF u = t THEN FRESH ELSE IF a[u] > 0 THEN a[u] - 1 ELSE 0]

FireAll(ts, a) == FoldLeft(Fire, a, ts)

(* pick_templ_winner appends ramblings on up to two hot topics.             *)
Ramblings(a) ==
  LET hot == {t \in Topics : a[t] >= HOT}
  IN  {<<>>} \cup {<<t>> : t \in hot} \cup {p \in hot \X hot : p[1] # p[2]}

(* The activations one call of ask leaves: those after the template found,  *)
(* then the ramblings.                                                      *)
ask(a, t) == {FireAll(more, Fire(a, t)) : more \in Ramblings(Fire(a, t))}

(* add_meta_remarks asks for a neutral template, each time for a remark.    *)
add_meta_remarks(acts) ==
  LET remarks[n \in 0 .. MaxRemarks] ==
        IF n = 0 THEN acts
        ELSE remarks[n - 1] \cup UNION {ask(a, NOTOPIC) : a \in remarks[n - 1]}
  IN  remarks[MaxRemarks]

\* ignorable_rand_user looks for a human in the file, or adds one to it.
Ignored(h, ign) == h \in ign
Ignoring(h) == ignorable \cup {h}

(* Server_Response answers unless the human is on the ignore list now.      *)
\* (Mutant: the list is looked up before chatty may add to it.)
AnswerBefore(h, ign) == replied_to' = IF Ignored(h, ignorable) THEN NOBODY ELSE h
Answer(h, ign) == replied_to' = IF Ignored(h, ign) THEN NOBODY ELSE h

(* A message with a taboo word: counted, never answered with a text.        *)
TabooMessage(h) ==
  /\ TabooWords(h) < MaxTaboo
  /\ SwitchTo(h)
  /\ topics' = History(h)
  /\ ntaboo_words' = TabooWords(h) + 1
  /\ ignorable' = IF ntaboo_words' >= TABOO_LIMIT THEN Ignoring(h) ELSE ignorable
  /\ Answer(h, ignorable')
  /\ raised' = Raised(h) /\ answered' = Answered(h)
  /\ streak' = Streak(h) + 1
  /\ rude' = [rude EXCEPT ![h] = Max({@, streak'})]
  /\ UNCHANGED <<act, last_question>>

(* A reply: what was asked leaves one of acts, and remarks may follow.      *)
Reply(h, acts) ==
  /\ act' \in add_meta_remarks(acts)
  /\ Answer(h, ignorable)
  /\ ntaboo_words' = TabooWords(h)
  /\ streak' = Streak(h)
  /\ UNCHANGED <<ignorable, rude>>

(* usetempl with the question of h for topic t: the question is remembered  *)
(* at its end, which it does not reach when a file gives no response.       *)
usetempl(h, t) ==
  \/ /\ last_question' = [last_question EXCEPT ![t] = h]
     /\ answered' = Answered(h) \cup {t}
  \/ /\ answered' = Answered(h)
     /\ UNCHANGED last_question

(* A message that matches topic t: the history shifts before t fires with   *)
(* it.                                                                      *)
TopicMessage(h, t) ==
  /\ SwitchTo(h)
  /\ topics' = Append(Tail(History(h)), t)
  /\ raised' = Raised(h) \cup {t}
  /\ usetempl(h, t)
  /\ Reply(h, ask(act, t))

(* A message that matches no topic: the result of a calculation, a neutral  *)
(* reply, or an old topic of the history with the question it remembers,    *)
(* which it keeps whether or not its file gives a response.                 *)
OtherMessage(h) ==
  /\ SwitchTo(h)
  /\ topics' = History(h)
  /\ raised' = Raised(h) /\ answered' = Answered(h)
  /\ Reply(h, {act} \cup UNION {ask(act, t) : t \in {NOTOPIC} \cup Range(History(h))})
  /\ UNCHANGED last_question

(* The process stops without saving and is started again.                   *)
Restart ==
  /\ current # NOBODY
  /\ current' = NOBODY /\ topics' = NoTopics /\ ntaboo_words' = 0
  /\ act' = [t \in Topics |-> 0]
  /\ last_question' = [t \in Topics |-> NOBODY]
  /\ replied_to' = NOBODY /\ raised' = {} /\ answered' = {} /\ streak' = 0
  /\ UNCHANGED <<saved, ignorable, rude>>

chatty(h) == TabooMessage(h) \/ (\E t \in Topics : TopicMessage(h, t)) \/ OtherMessage(h)

Next == (\E h \in Humans : chatty(h)) \/ Restart

Spec == Init /\ [][Next]_vars
-----------------------------------------------------------------------------
(* The types of the variables.                                              *)
TypeOK ==
  /\ current \in Humans \cup {NOBODY}
  /\ topics \in [1 .. HISTORY -> Topics \cup {NOTOPIC}]
  /\ act \in [Topics -> 0 .. FRESH]
  /\ last_question \in [Topics -> Humans \cup {NOBODY}]
  /\ ntaboo_words \in 0 .. MaxTaboo
  /\ saved \in [Humans -> SUBSET (Humans \cup {NOBODY})]
  /\ ignorable \subseteq Humans
  /\ replied_to \in Humans \cup {NOBODY}
  /\ raised \subseteq Topics /\ answered \subseteq raised /\ streak \in 0 .. MaxTaboo
  /\ rude \in [Humans -> 0 .. MaxTaboo]

(* A human is ignored for taboo words of their own, all of one conversation *)
(* that nobody else and no restart interrupted.                             *)
IgnoredForOwnWords == \A h \in ignorable : rude[h] >= TABOO_LIMIT

(* Nobody on the ignore list is answered, from the message on that put them *)
(* there, and across restarts.                                              *)
IgnoredNotAnswered == replied_to \notin ignorable

(* The history and what its topics remember are reset at different times:    *)
(* ask puts a topic into the history before usetempl looks for a response.  *)
(* Whatever is recalled was raised by the current human in this             *)
(* conversation, and once a response to it was found, the topic goes with   *)
(* that human's question, whoever fired it before.                          *)
HistoryOfCurrent ==
  \A i \in 1 .. HISTORY : topics[i] # NOTOPIC =>
    /\ topics[i] \in raised
    /\ topics[i] \in answered => last_question[topics[i]] = current

(* splotch.c:164-166: for each topic of the history its last question is    *)
(* kept "for correct reference", and the history is reset between humans.   *)
(* A recalled topic refers to a question of the human it is recalled for.   *)
(* Not so in the code: a topic whose file gave nothing keeps the question   *)
(* of an earlier human, or none (ChattyRecalled.cfg).                       *)
RecalledWithOwnQuestion ==
  \A i \in 1 .. HISTORY : topics[i] # NOTOPIC => last_question[topics[i]] = current

(* README.md:5 and logs/README-user-logs.txt: topics are kept per ICQ user, *)
(* over sessions, in a folder named after the UIN.  The file of a human     *)
(* holds what that human said.                                              *)
SavedPerHuman == \A h \in Humans : saved[h] \subseteq {h, NOBODY}
=============================================================================
