------------------------------- MODULE Splotch -------------------------------
(***************************************************************************)
(* The stand-alone chatbot (splotch.c with -DSTANDALONE): a human types    *)
(* lines; ask normalises a line, tries every template of main.dict on it,  *)
(* words a reply with the winner and recalls earlier topics; every few     *)
(* replies add_meta_remarks appends remarks on how the human writes.       *)
(***************************************************************************)
EXTENDS Phrases, FiniteSets

CONSTANTS
  MainDict,        \* the lines of main.dict, blank ones and comments alike
  SynDict,         \* the lines of syn.dict
  Entries,         \* the texts of the files that replies refer to
  Outputs,         \* what commands in replies give
  Lines,           \* what a human may type
  NAME,            \* the bot's name, in lower case
  HISTORY,         \* slots of the history (20)
  NTEMPL_MAX,      \* places for templates (5000)
  MAXPRIOR_TOPIC,  \* 9
  SERIOUS_TOPIC,   \* 5
  TOLD_ENOUGH,     \* words after which no topic is recalled (80 characters)
  ANSWERS_SINCE,   \* replies without remarks, at least (3)
  SUSPICION,       \* repetitions that make the human suspect (4) ...
  CERTAINTY,       \* ... or certain to be a robot (10)
  MaxLines         \* bound on the lines typed

NOTOPIC == 0

\* A line typed has its newline at least.
ASSUME TextAssumption ==
  /\ NAME \in STRING
  /\ \A l \in Lines : l.text \in Seq(STRING) \ {<<>>}
  /\ SynDict \in Seq([old : Seq(STRING) \ {<<>>}, new : Seq(STRING)])
ASSUME RobotAssumption == SUSPICION \in Nat /\ CERTAINTY \in Nat

VARIABLES
  stage,       \* where the program is: see Stages
  question,    \* what is asked now, a line or a meta question
  i, best,     \* the template to try next; the best so far and its priority
  words,       \* the buffer for what "%" stands for
  winwords,    \* what it held for the best so far; a search does not clear this
  templ,       \* of each template: tnext, fired, last_question, last_words
  topics,      \* the last serious topics, most recent last
  response,    \* the reply being made
  recalled,    \* the topics recalled for it
  asking,      \* why: "reply", "elsewhere" or "remarks"
  saved, todo, \* the reply with the remarks so far; the remarks to come
  cumul,       \* the counts over all lines of the human
  previous,    \* the line before
  since,       \* nanswers_since
  typed,       \* history: the lines typed
  spoiled      \* history: templates recalled with a file that could not be read

vars == <<stage, question, i, best, words, winwords, templ, topics, response, recalled,
          asking, saved, todo, cumul, previous, since, typed, spoiled>>
-----------------------------------------------------------------------------
(* buildtempl.  An entry is a line of keys, a priority, and replies that     *)
(* begin with an asterisk; the line after these is read and forgotten.      *)
\* A plain key, one with "%", and three kinds of conditions.
Keys == [kind : {"plain", "!", "&", "+"}, text : Seq(STRING)]
        \cup [kind : {"%"}, text : Seq(STRING), right : Seq(STRING)]

\* The entry at line l, and the line where the next one is looked for.
EntryAt(l) ==
  LET first == IF MainDict[l + 1].kind = "*" THEN l + 1 ELSE l + 2
      ends == {p \in first .. Len(MainDict) : MainDict[p].kind # "*"}
      last == IF ends = {} THEN Len(MainDict) ELSE Min(ends) - 1
  IN  [next |-> last + 2,
       templ |->
         [keys |-> MainDict[l].keys,
          priority |-> IF first = l + 2 /\ MainDict[l + 1].value # 0
                       THEN MainDict[l + 1].value ELSE MAXPRIOR_TOPIC,
          alts |-> [a \in 1 .. last - first + 1 |-> MainDict[first + a - 1].text]]]

buildtempl[l \in 1 .. Len(MainDict) + 2] ==
  IF l > Len(MainDict) THEN <<>>
  ELSE IF MainDict[l].kind = "blank" THEN buildtempl[l + 1]
  ELSE <<EntryAt(l).templ>> \o buildtempl[EntryAt(l).next]

Templ == buildtempl[1]
maxtempl == Len(Templ)
Templates == 1 .. maxtempl
ASSUME DictAssumption ==
  /\ maxtempl \in 1 .. NTEMPL_MAX - 1
  /\ \A t \in Templates :
       Templ[t].keys \in Seq(Keys) /\ Templ[t].priority \in Nat \ {0} /\ Templ[t].alts # <<>>

(* reset_text_affect, and the row of identical lines.                       *)
NoAffect == [nanswers |-> 0, nquestion |-> 0, nexclama |-> 0, nwords |-> 0,
             nletters |-> 0, nupper |-> 0, nidentical_row |-> 0]
Nothing == [winner |-> 0, score |-> 0]

(* init_splotch; every template starts with some alternative.               *)
Init ==
  /\ stage = "prompt"
  /\ question = <<>> /\ i = 1 /\ best = Nothing /\ words = <<>> /\ winwords = <<>>
  /\ \E start \in [Templates -> Nat \cap 1 .. 3] :
       /\ \A t \in Templates : start[t] <= Len(Templ[t].alts)
       /\ templ = [t \in Templates |->
            [tnext |-> start[t], fired |-> FALSE, last_question |-> <<"yes", "?">>,
             last_words |-> <<>>]]
  /\ topics = [j \in 1 .. HISTORY |-> NOTOPIC]
  /\ response = <<>> /\ recalled = {} /\ asking = "reply" /\ saved = <<>> /\ todo = <<>>
  /\ cumul = NoAffect /\ previous = <<>> /\ since = 0
  /\ typed = <<>> /\ spoiled = {}
-----------------------------------------------------------------------------
(* A line typed: it is counted, and asked under the bot's name.             *)

Count(s, w) == Cardinality({p \in DOMAIN s : s[p] = w})
nwords(s) == Cardinality({p \in DOMAIN s : p = 1 \/ IsWord(s[p])})

\* The row of lines that equal the one before.  (Mutant: a new line does not
\* end the row.)
RowNotEnded(s) ==
  IF s = previous THEN cumul.nidentical_row + 1 ELSE cumul.nidentical_row
Row(s) == IF s = previous THEN cumul.nidentical_row + 1 ELSE 0

\* add_text_affect leaves out the good and the bad words.
do_analyze_text_affect(l) ==
  /\ cumul' = [nanswers |-> cumul.nanswers + 1,
               nquestion |-> cumul.nquestion + Count(l.text, "?"),
               nexclama |-> cumul.nexclama + Count(l.text, "!"),
               nwords |-> cumul.nwords + nwords(l.text),
               nletters |-> cumul.nletters + l.nletters,
               nupper |-> cumul.nupper + l.nupper,
               nidentical_row |-> Row(l.text)]
  /\ previous' = l.text

\* The beginning of ask.  (Mutant: words keeps what the last search put there.)
AskKeepingWords(q) ==
  /\ stage' = "match" /\ question' = q
  /\ i' = 1 /\ best' = Nothing /\ words' = words
  /\ response' = <<>> /\ recalled' = {}
Ask(q) ==
  /\ stage' = "match" /\ question' = q
  /\ i' = 1 /\ best' = Nothing /\ words' = <<>>
  /\ response' = <<>> /\ recalled' = {}

Meta(remark) == <<"splotch", ":", remark>>

\* high_bits and call_process_expression answer by themselves.
Type(l) ==
  /\ stage = "prompt" /\ Len(typed) < MaxLines
  /\ do_analyze_text_affect(l)
  /\ typed' = Append(typed, l.text)
  /\ asking' = "reply"
  /\ \/ /\ l.kind = "sum"
        /\ stage' = "asked" /\ response' = <<"42">>
        /\ UNCHANGED <<question, i, best, words, recalled>>
     \/ l.kind = "foreign" /\ Ask(<<"meta_foreign_language">>)
     \/ l.kind = "text" /\ Ask(normalized_synonyms(<<NAME, ":">> \o l.text, SynDict))
  /\ UNCHANGED <<winwords, templ, topics, saved, todo, since, spoiled>>

Exit ==
  /\ stage = "prompt"
  /\ stage' = "exit"
  /\ UNCHANGED <<question, i, best, words, winwords, templ, topics, response, recalled,
                 asking, saved, todo, cumul, previous, since, typed, spoiled>>
-----------------------------------------------------------------------------
(* trytempl: one step for each template.  A search [found, done, words]     *)
(* goes through its keys.                                                   *)

\* What follows the key: a blank is skipped, or the mark or newline.
AfterKey(s) ==
  IF s = <<>> \/ IsWord(Head(s)) THEN s
  ELSE IF Len(s) = 1 THEN <<>> ELSE <<"">> \o Tail(s)

strlen_eff(s) == Len(SelectSeq(s, LAMBDA w : w \notin {"", NL}))

EndsWithMark(s) == ~ IsWord(Last(s)) /\ Last(s) # NL

Miss(w) == [hit |-> FALSE, words |-> w]
Hit(w) == [hit |-> TRUE, words |-> w]

\* "xxx %" takes the rest of the question; "xxx % yyy" what is in between, or
\* the rest when there is nothing, and not when the question ends with a mark.
Wildcard(key, w) ==
  LET p1 == phrasefind(question, 1, key.text)
      from == p1 + Len(key.text)
      p2 == phrasefind(question, p1 + 1, key.right)
      rest == SubSeq(question, from, Len(question))
  IN  IF p1 = 0 THEN Miss(w)
      ELSE IF key.right = <<>>
           THEN IF rest = <<>> THEN Miss(w) ELSE Hit(AfterKey(rest))
           ELSE IF p2 = 0 \/ EndsWithMark(question) THEN Miss(w)
                ELSE Hit(AfterKey(IF p2 > from THEN SubSeq(question, from, p2 - 1) ELSE rest))

\* A key that fails a condition ends the template.
Fails(key) ==
  CASE key.kind = "!" -> phrasefind(question, 1, key.text) # 0
    [] key.kind = "&" -> phrasefind(question, 1, key.text) = 0
    [] key.kind = "+" -> phrasefind(question, 1, <<NAME>>) = 0
    [] OTHER -> FALSE

\* (Mutant: after a failed condition the next keys still count.)
TryKeyOn(r, key) ==
  IF Fails(key) THEN [r EXCEPT !.found = FALSE]
  ELSE CASE key.kind = "%" -> LET wild == Wildcard(key, r.words)
                              IN  [r EXCEPT !.words = wild.words,
                                     !.found = (wild.hit \/ @) /\ strlen_eff(wild.words) > 0]
         [] key.kind = "plain" ->
              [r EXCEPT !.found = @ \/ phrasefind(question, 1, key.text) # 0]
         [] OTHER -> r
TryKey(r, key) ==
  IF r.done THEN r
  ELSE IF Fails(key) THEN [r EXCEPT !.found = FALSE, !.done = TRUE]
  ELSE CASE key.kind = "%" -> LET wild == Wildcard(key, r.words)
                              IN  [r EXCEPT !.words = wild.words,
                                     !.found = (wild.hit \/ @) /\ strlen_eff(wild.words) > 0]
         [] key.kind = "plain" ->
              [r EXCEPT !.found = @ \/ phrasefind(question, 1, key.text) # 0]
         [] OTHER -> r

Search(keys) ==
  LET after[k \in 0 .. Len(keys)] ==
        IF k = 0 THEN [found |-> FALSE, done |-> FALSE, words |-> words]
        ELSE TryKey(after[k - 1], keys[k])
  IN  after[Len(keys)]

\* The search ends after the last template, or at once with the highest
\* priority.  Without a winner it returns words that were never set: none, or
\* those of an earlier search.
TryTemplate ==
  LET r == Search(Templ[i].keys)
      better == r.found /\ Templ[i].priority > best.score
      stop == i = maxtempl \/ (r.found /\ Templ[i].priority = MAXPRIOR_TOPIC)
  IN  /\ stage = "match"
      /\ best' = IF better THEN [winner |-> i, score |-> Templ[i].priority] ELSE best
      /\ \/ better /\ winwords' = r.words
         \/ ~ better /\ winwords' = winwords
         \/ stop /\ best'.winner = 0 /\ winwords' = <<>>
      /\ words' = IF stop THEN winwords' ELSE r.words
      /\ i' = IF stop THEN 1 ELSE i + 1
      /\ stage' = IF stop THEN "use" ELSE "match"
      /\ UNCHANGED <<question, templ, topics, response, recalled, asking, saved, todo,
                     cumul, previous, since, typed, spoiled>>
-----------------------------------------------------------------------------
(* usetempl makes a reply with the next alternative of a template.  The     *)
(* buffer of the words is turned to the other person in place.              *)

Turned(w, you) ==
  secondary_correction_reversed_pronouns(
    reverse_pronouns(make_words_suitable_for_substitution(w, NAME), you))
Reworded(w, you) == fix_problems_with_grammar(Turned(w, you))

\* What usetempl leaves in its buffer.  (Mutant: the words are turned once more
\* when they go into the text of a file.)
BufferTwice(w, you) == Reworded(Reworded(w, you), you)
Buffer(w, you) == Reworded(w, you)

Alternative(t) == IF templ[t].tnext > Len(Templ[t].alts) THEN 1 ELSE templ[t].tnext

\* The text of the alternative, before files are read.
Worded(t, w, you) ==
  LET text == Templ[t].alts[Alternative(t)]
      filled == IF w = <<>> THEN text ELSE substitute_pattern(text, <<"%">>, Turned(w, you))
  IN  substitute_pattern(substitute_pattern(filled, <<NAME>>, <<"I">>), <<"%">>, <<>>)

Inserted(entry, w) == IF w = <<>> THEN entry ELSE substitute_pattern(entry, <<"%">>, w)

\* What can be made of it: "@" is a file, which may give nothing (Failed), and
\* "@<" a command, with its output or the note that it was run.
Failed == <<"failed">>
Texts(text, w) ==
  IF Contains(text, "@")
  THEN {Failed} \cup {substitute_pattern(text, <<"@">>, Inserted(e, w)) : e \in Entries}
  ELSE {substitute_pattern(text, <<"@<">>, o) : o \in Outputs}

\* usetempl remembers the words as they were on entry.  (Mutant: as they went
\* into the reply.)
InwordsReworded(w, you) == Reworded(w, you)
Inwords(w, you) == w

Used(t) == [templ[t] EXCEPT !.tnext = Alternative(t) + 1, !.fired = TRUE]

\* usetempl for the question that is asked, on the buffer of words: it returns
\* early when a file gives nothing.
UseForQuestion(t) ==
  \E you \in {"me", "i"} :
    /\ words' = Buffer(words, you)
    /\ \/ \E text \in Texts(Worded(t, words, you), words') \ {Failed} :
            /\ response' = response \o text
            /\ templ' = [templ EXCEPT ![t] =
                 [Used(t) EXCEPT !.last_question = question, !.last_words = Inwords(words, you)]]
            /\ spoiled' = spoiled \ {t}
       \/ /\ Failed \in Texts(Worded(t, words, you), words')
          /\ templ' = [templ EXCEPT ![t] = Used(t)]
          /\ UNCHANGED <<response, spoiled>>

\* usetempl for a topic recalled, on last_words itself: when it returns early,
\* these stay turned to the other person.
Recall(t) ==
  \E you \in {"me", "i"} :
    LET own == templ[t].last_words
        texts == Texts(Worded(t, own, you), Buffer(own, you))
    IN  \/ \E text \in texts \ {Failed} :
             /\ response' = response \o text
             /\ templ' = [templ EXCEPT ![t] = [Used(t) EXCEPT !.last_words = Inwords(own, you)]]
             /\ UNCHANGED <<words, spoiled>>
        \/ /\ Failed \in texts
           /\ templ' = [templ EXCEPT ![t] = [Used(t) EXCEPT !.last_words = Buffer(own, you)]]
           /\ spoiled' = spoiled \cup {t}
           /\ UNCHANGED <<words, response>>
-----------------------------------------------------------------------------
(* The rest of ask.                                                         *)

\* A serious topic enters the history.
UseWinner ==
  /\ stage = "use" /\ best.winner # 0
  /\ topics' = IF best.score > SERIOUS_TOPIC
               THEN Append(Tail(topics), best.winner) ELSE topics
  /\ UseForQuestion(best.winner)
  /\ stage' = "react"
  /\ UNCHANGED <<question, i, best, winwords, recalled, asking, saved, todo, cumul,
                 previous, since, typed>>

\* Nothing fits: a neutral reply, or a topic of the history.
UseNeutral ==
  /\ stage = "use" /\ best.winner = 0
  /\ \/ UseForQuestion(maxtempl)
     \/ \E j \in 1 .. HISTORY : topics[j] # NOTOPIC /\ Recall(topics[j])
  /\ stage' = "react"
  /\ UNCHANGED <<question, i, best, winwords, topics, recalled, asking, saved, todo,
                 cumul, previous, since, typed>>

\* pick_templ_winner recalls up to two serious topics; which ones are active
\* enough is left open.  The last template is never recalled.
pick_templ_winner ==
  /\ stage = "react" /\ Cardinality(recalled) < 2
  /\ strlen_eff(response) < TOLD_ENOUGH
  /\ \E t \in (1 .. maxtempl - 1) \ recalled :
       /\ templ[t].fired /\ Templ[t].priority >= SERIOUS_TOPIC
       /\ Recall(t)
       /\ recalled' = recalled \cup {t}
  /\ UNCHANGED <<stage, question, i, best, winwords, topics, asking, saved, todo, cumul,
                 previous, since, typed>>

Asked ==
  /\ stage = "react"
  /\ stage' = "asked"
  /\ UNCHANGED <<question, i, best, words, winwords, templ, topics, response, recalled,
                 asking, saved, todo, cumul, previous, since, typed, spoiled>>
-----------------------------------------------------------------------------
(* add_meta_remarks.                                                        *)

Emotional ==
  \/ cumul.nupper > 4 /\ 100 * cumul.nupper > 50 * cumul.nletters
  \/ 100 * (cumul.nexclama + cumul.nquestion) > 50 * cumul.nwords

\* A remark from a random threshold on, at most spread above the least.
Above(least, spread) ==
  {due \in BOOLEAN :
     /\ due => cumul.nidentical_row > least
     /\ cumul.nidentical_row >= least + spread => due}

Remark(condition, remark) == IF condition THEN <<remark>> ELSE <<>>

\* ntacit is never above 0 here: a line typed has its newline at least.
Remarks ==
  {Remark(100 * cumul.nquestion > 60 * cumul.nanswers, "meta_all_these_questions")
     \o Remark(100 * cumul.nexclama > 60 * cumul.nanswers, "meta_overconfident")
     \o Remark(Emotional, "meta_emotional")
     \o Remark(suspicious, "meta_robot_suspicion")
     \o Remark(certain, "meta_robot_certainty") :
     suspicious \in Above(SUSPICION, 2), certain \in Above(CERTAINTY, 5)}

\* A reply without text may be made up for first.
Elsewhere ==
  /\ stage = "asked" /\ asking = "reply" /\ strlen_eff(response) < 1
  /\ Ask(Meta("meta_something_else")) /\ asking' = "elsewhere"
  /\ UNCHANGED <<winwords, templ, topics, saved, todo, cumul, previous, since, typed,
                 spoiled>>

\* Too early for remarks.
NoRemarks ==
  /\ stage = "asked" /\ asking # "remarks" /\ since <= ANSWERS_SINCE
  /\ since' = since + 1
  /\ stage' = "prompt"
  /\ UNCHANGED <<question, i, best, words, winwords, templ, topics, response, recalled,
                 asking, saved, todo, cumul, previous, typed, spoiled>>

\* The next remark is asked for, or the reply is complete.
Continue(remarks) ==
  /\ todo' = remarks
  /\ \/ /\ remarks = <<>> /\ stage' = "prompt" /\ response' = saved'
        /\ UNCHANGED <<question, i, best, words, recalled>>
     \/ remarks # <<>> /\ Ask(Meta(Head(remarks)))

FirstRemark ==
  /\ stage = "asked" /\ asking # "remarks" /\ since > ANSWERS_SINCE
  /\ since' = 1
  /\ saved' = response /\ asking' = "remarks"
  /\ \E remarks \in Remarks : Continue(remarks)
  /\ UNCHANGED <<winwords, templ, topics, cumul, previous, typed, spoiled>>

NextRemark ==
  /\ stage = "asked" /\ asking = "remarks"
  /\ saved' = saved \o response
  /\ Continue(Tail(todo))
  /\ UNCHANGED <<winwords, templ, topics, asking, cumul, previous, since, typed, spoiled>>
-----------------------------------------------------------------------------
Next ==
  \/ \E l \in Lines : Type(l)
  \/ Exit \/ TryTemplate
  \/ UseWinner \/ UseNeutral \/ pick_templ_winner \/ Asked
  \/ Elsewhere \/ NoRemarks \/ FirstRemark \/ NextRemark

Spec == Init /\ [][Next]_vars
-----------------------------------------------------------------------------
(* Properties                                                               *)

Plain(t) == {k \in Range(Templ[t].keys) : k.kind = "plain"}
Wild(t) == {k \in Range(Templ[t].keys) : k.kind = "%"}
Matches(key) ==
  IF key.kind = "plain" THEN phrasefind(question, 1, key.text) # 0
  ELSE Wildcard(key, <<>>).hit /\ strlen_eff(Wildcard(key, <<>>).words) > 0
Allowed(t) == \A k \in Range(Templ[t].keys) : ~ Fails(k)

\* A template that may answer the question, and one that must, whatever was
\* tried before it: a "%" that finds nothing can cancel another key.
May(t) == Allowed(t) /\ \E k \in Plain(t) \cup Wild(t) : Matches(k)
Must(t) == May(t) /\ \A k \in Wild(t) : Matches(k)

\* A template with priority 9 that answers hides those after it (trytempl).
Hidden(t) == \E u \in 1 .. t - 1 : Templ[u].priority = MAXPRIOR_TOPIC /\ May(u)

\* The best so far is before t: by its priority, or by its place.
Beats(t) ==
  /\ best.winner # 0
  /\ \/ Templ[t].priority < best.score
     \/ Templ[t].priority = best.score /\ best.winner <= t

\* The reply is made with a template that answers the question, and no template
\* that must answer it has a higher priority, or the same and an earlier place.
NoBetterTemplate ==
  stage = "use" =>
    /\ best.winner # 0 => May(best.winner)
    /\ \A t \in Templates : Must(t) /\ ~ Hidden(t) => Beats(t)

\* The words without the mark that AfterKey skipped.
Unskipped(w) == IF w # <<>> /\ Head(w) = "" THEN Tail(w) ELSE w

\* What a topic remembers for a later reply are the human's own words, as they
\* stand in the question it remembers with them - except after it was recalled
\* with a file that could not be read, which leaves them turned to the other
\* person (usetempl); the neutral template takes words of older questions.
MemoryKept ==
  \A t \in 1 .. maxtempl - 1 :
    LET own == Unskipped(templ[t].last_words)
        q == templ[t].last_question
    IN  t \notin spoiled => \E p \in 1 .. Len(q) + 1 : At(q, p, own)

\* What a word may become in a reply.
Mirrors(w) ==
  CASE w = "you" -> {"me", "i", "I"} [] w \in {"i", "me"} -> {"you"}
    [] w = "my" -> {"your"} [] w = "your" -> {"my"}
    [] w = "mine" -> {"yours"} [] w = "yours" -> {"mine"}
    [] w = "myself" -> {"yourself"} [] w = "yourself" -> {"myself"}
    [] w \in {"am", "are"} -> {"am", "are"}
    [] OTHER -> {w}

\* Each word of the human is turned to the other person, and none is turned
\* back by a later replacement (reverse_pronouns, gswap).
TurnedOnce ==
  [][stage = "use" /\ best.winner # 0 =>
       \A p \in DOMAIN words' : words'[p] \in Mirrors(words[p])]_vars

\* Only a human whose last lines were all the same is taken for a robot.
RobotOnlyIfRepeated ==
  \A r \in {<<SUSPICION, "meta_robot_suspicion">>, <<CERTAINTY, "meta_robot_certainty">>} :
    asking = "remarks" /\ stage = "match" /\ question = Meta(r[2]) =>
      /\ Len(typed) >= r[1] + 2
      /\ \A p \in Len(typed) - r[1] - 1 .. Len(typed) : typed[p] = Last(typed)
=============================================================================
