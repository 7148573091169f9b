---------------------------- MODULE SplotchProof ----------------------------
(***************************************************************************)
(* Proofs about Splotch, for any dictionary, any lines and any choices:    *)
(* only who repeats a line is taken for a robot, the best template makes   *)
(* the reply, and a topic remembers the words of its question.             *)
(***************************************************************************)
EXTENDS Splotch, SequenceTheorems, TLAPS

\* For the facts on sets of numbers; they do not depend on the constants.
Numbers == INSTANCE MsgQueueProof WITH
  RESEND_TIMEOUT <- 10, MAX_ATTEMPTS <- 6, INT_MAX <- 2147483647

row == cumul.nidentical_row

(* The remarks that may be made on who repeated a line so often.           *)
Due ==
  {remark \in {"meta_all_these_questions", "meta_overconfident", "meta_emotional",
               "meta_robot_suspicion", "meta_robot_certainty"} :
     /\ remark = "meta_robot_suspicion" => row > SUSPICION
     /\ remark = "meta_robot_certainty" => row > CERTAINTY}

(* The row counts the lines typed last that equal the one before.          *)
RowCounted ==
  /\ typed \in Seq(Seq(STRING) \ {<<>>})
  /\ previous = IF typed = <<>> THEN <<>> ELSE typed[Len(typed)]
  /\ row \in Nat
  /\ IF typed = <<>> THEN row = 0 ELSE row < Len(typed)
  /\ typed # <<>> =>
       \A p \in Len(typed) - row .. Len(typed) : typed[p] = typed[Len(typed)]

(* The remarks still to come, and the one asked for, are due.              *)
RemarksDue ==
  /\ todo \in Seq(Due)
  /\ stage = "prompt" \/ asking # "remarks" => todo = <<>>
  /\ stage = "match" /\ asking = "remarks" =>
       \E remark \in Due : question = Meta(remark)

RobotInv == RowCounted /\ RemarksDue
-----------------------------------------------------------------------------
(* Nothing is typed at the start.                                          *)
LEMMA InitRobot == ASSUME Init PROVE RobotInv
BY DEF Init, RobotInv, RowCounted, RemarksDue, row, NoAffect

(* A line goes on with the row, or ends it.                                *)
LEMMA TypeRow ==
  ASSUME RobotInv, NEW l \in Lines, Type(l)
  PROVE  RobotInv'
<1>1. l.text \in Seq(STRING) \ {<<>>}
  BY TextAssumption
<1>2. /\ typed' = Append(typed, l.text) /\ previous' = l.text
      /\ row' = IF l.text = previous THEN row + 1 ELSE 0
      /\ asking' = "reply" /\ todo' = todo /\ stage = "prompt"
  BY DEF Type, do_analyze_text_affect, row, Row
<1>3. /\ typed \in Seq(Seq(STRING) \ {<<>>}) /\ row \in Nat
      /\ previous = IF typed = <<>> THEN <<>> ELSE typed[Len(typed)]
      /\ IF typed = <<>> THEN row = 0 ELSE row < Len(typed)
      /\ typed # <<>> =>
           \A p \in Len(typed) - row .. Len(typed) : typed[p] = typed[Len(typed)]
      /\ todo = <<>>
  BY <1>2 DEF RobotInv, RowCounted, RemarksDue
<1>4. PICK n \in Nat : n = Len(typed)
  BY <1>3, LenProperties
<1>5. /\ typed' \in Seq(Seq(STRING) \ {<<>>}) /\ Len(typed') = n + 1
      /\ typed'[n + 1] = l.text /\ \A p \in 1 .. n : typed'[p] = typed[p]
  BY <1>1, <1>2, <1>3, <1>4, AppendProperties
<1>6. typed' # <<>> /\ (typed = <<>> <=> n = 0)
  BY <1>3, <1>4, <1>5, EmptySeq
<1>7. RowCounted'
  <2>1. row' \in Nat /\ row' < n + 1
    BY <1>1, <1>2, <1>3, <1>4, <1>6
  <2>2. \A p \in n + 1 - row' .. n + 1 : typed'[p] = l.text
    <3> SUFFICES ASSUME NEW p \in n + 1 - row' .. n + 1 PROVE typed'[p] = l.text
      OBVIOUS
    <3>1. CASE p = n + 1
      BY <3>1, <1>5
    <3>2. CASE p # n + 1
      <4>1. row' # 0 /\ l.text = previous /\ row' = row + 1
        BY <3>2, <2>1, <1>2
      <4>2. n # 0 /\ l.text = typed[n]
        BY <4>1, <1>1, <1>3, <1>4, <1>6
      <4>4. row < n
        BY <4>2, <1>3, <1>4, <1>6
      <4>5. p \in n - row .. n /\ p \in 1 .. n
        BY <4>1, <4>4, <3>2, <2>1, <1>3
      <4>3. typed[p] = typed[n]
        BY <4>2, <4>5, <1>3, <1>4, <1>6
      <4> QED BY <4>2, <4>3, <4>5, <1>5
    <3> QED BY <3>1, <3>2
  <2>6. previous' = l.text
    BY <1>2
  <2>3. previous' = typed'[Len(typed')]
    BY <2>6, <1>5
  <2>4. \A p \in Len(typed') - row' .. Len(typed') : typed'[p] = typed'[Len(typed')]
    <3>1. PICK m : m = Len(typed')
      OBVIOUS
    <3>2. m = n + 1
      BY <3>1, <1>5
    <3>3. \A p \in m - row' .. m : typed'[p] = typed'[m]
      BY <3>2, <1>4, <2>1, <2>2
    <3> QED BY <3>1, <3>3, Zenon
  <2>5. row' < Len(typed')
    BY <1>5, <2>1
  <2> QED BY <1>5, <1>6, <2>1, <2>3, <2>4, <2>5 DEF RowCounted
<1>8. RemarksDue'
  <2>1. <<>> \in Seq(Due')
    OBVIOUS
  <2> QED BY <2>1, <1>2, <1>3 DEF RemarksDue
<1> QED BY <1>7, <1>8 DEF RobotInv

\* What the actions other than a line typed change neither row nor history.
RowUntouched == UNCHANGED <<typed, previous, cumul>>

(* The remarks of add_meta_remarks are due.                                *)
LEMMA RemarksAreDue ==
  ASSUME row \in Nat, NEW remarks \in Remarks
  PROVE  remarks \in Seq(Due)
<1>1. PICK suspicious \in Above(SUSPICION, 2), certain \in Above(CERTAINTY, 5) :
        remarks = Remark(100 * cumul.nquestion > 60 * cumul.nanswers, "meta_all_these_questions")
          \o Remark(100 * cumul.nexclama > 60 * cumul.nanswers, "meta_overconfident")
          \o Remark(Emotional, "meta_emotional")
          \o Remark(suspicious, "meta_robot_suspicion")
          \o Remark(certain, "meta_robot_certainty")
  BY DEF Remarks
<1>2. suspicious \in BOOLEAN /\ (suspicious => row > SUSPICION)
  BY <1>1, Zenon DEF Above, row
<1>3. certain \in BOOLEAN /\ (certain => row > CERTAINTY)
  BY <1>1, Zenon DEF Above, row
<1>4. ASSUME NEW c, NEW remark, c => remark \in Due
      PROVE  Remark(c, remark) \in Seq(Due)
  <2>1. CASE c
    <3>1. Remark(c, remark) = <<remark>> /\ remark \in Due
      BY <1>4, <2>1 DEF Remark
    <3> QED BY <3>1
  <2>2. CASE ~c
    <3>1. Remark(c, remark) = <<>>
      BY <2>2 DEF Remark
    <3> QED BY <3>1
  <2> QED BY <2>1, <2>2
<1>7. /\ "meta_all_these_questions" \in Due /\ "meta_overconfident" \in Due
      /\ "meta_emotional" \in Due
  BY DEF Due
<1>8. row > SUSPICION => "meta_robot_suspicion" \in Due
  BY DEF Due
<1>9. row > CERTAINTY => "meta_robot_certainty" \in Due
  BY DEF Due
<1> DEFINE r1 == Remark(100 * cumul.nquestion > 60 * cumul.nanswers, "meta_all_these_questions")
           r2 == Remark(100 * cumul.nexclama > 60 * cumul.nanswers, "meta_overconfident")
           r3 == Remark(Emotional, "meta_emotional")
           r4 == Remark(suspicious, "meta_robot_suspicion")
           r5 == Remark(certain, "meta_robot_certainty")
<1>5. /\ r1 \in Seq(Due) /\ r2 \in Seq(Due) /\ r3 \in Seq(Due)
      /\ r4 \in Seq(Due) /\ r5 \in Seq(Due)
  <2>1. r1 \in Seq(Due) /\ r2 \in Seq(Due) /\ r3 \in Seq(Due)
    BY <1>4, <1>7
  <2>2. r4 \in Seq(Due)
    BY <1>2, <1>4, <1>8
  <2>3. r5 \in Seq(Due)
    BY <1>3, <1>4, <1>9
  <2> QED BY <2>1, <2>2, <2>3
<1> HIDE DEF r1, r2, r3, r4, r5
<1>6. remarks = r1 \o r2 \o r3 \o r4 \o r5
  BY <1>1 DEF r1, r2, r3, r4, r5
<1> QED BY <1>5, <1>6, ConcatProperties

(* The next remark that add_meta_remarks asks for is the first to come.    *)
LEMMA ContinueDue ==
  ASSUME RobotInv, RowUntouched, stage = "asked", asking' = "remarks",
         NEW remarks \in Seq(Due), Continue(remarks)
  PROVE  RobotInv'
<1>1. row' = row /\ Due' = Due
  BY DEF RowUntouched, row, Due
<1>2. RowCounted'
  BY <1>1 DEF RobotInv, RowCounted, RowUntouched
<1>3. todo' = remarks /\ todo' \in Seq(Due')
  <2>1. todo' = remarks
    BY DEF Continue
  <2> QED BY <1>1, <2>1
<1>4. RemarksDue'
  <2>1. CASE remarks = <<>>
    <3>1. stage' = "prompt" /\ todo' = <<>>
      BY <1>3, <2>1 DEF Continue
    <3> QED BY <1>3, <3>1 DEF RemarksDue
  <2>2. CASE remarks # <<>>
    <3>1. question' = Meta(Head(remarks)) /\ stage' = "match"
      BY <2>2 DEF Continue, Ask
    <3>2. Head(remarks) \in Due
      BY <2>2, HeadTailProperties
    <3>3. Head(remarks) \in Due'
      BY <1>1, <3>2
    <3> QED BY <1>3, <3>1, <3>3 DEF RemarksDue
  <2> QED BY <2>1, <2>2
<1> QED BY <1>2, <1>4 DEF RobotInv

(* The other actions that make remarks or end the reply.                   *)
LEMMA RemarksRobot ==
  ASSUME RobotInv, FirstRemark \/ NextRemark
  PROVE  RobotInv'
<1>1. /\ RowUntouched /\ stage = "asked" /\ asking' = "remarks"
      /\ row \in Nat /\ todo \in Seq(Due)
  BY DEF FirstRemark, NextRemark, RowUntouched, RobotInv, RowCounted, RemarksDue
<1>2. CASE FirstRemark
  <2>1. PICK remarks \in Remarks : Continue(remarks)
    BY <1>2 DEF FirstRemark
  <2> QED BY <1>1, <2>1, RemarksAreDue, ContinueDue
<1>3. CASE NextRemark
  <2>1. Continue(Tail(todo))
    BY <1>3 DEF NextRemark
  <2>2. CASE todo # <<>>
    <3>1. Tail(todo) \in Seq(Due)
      BY <1>1, <2>2, HeadTailProperties
    <3> QED BY <1>1, <2>1, <3>1, ContinueDue
  <2>3. CASE todo = <<>>
    <3>1. Tail(todo) = <<>> /\ <<>> \in Seq(Due)
      BY <2>3, EmptySeq
    <3> QED BY <1>1, <2>1, <3>1, ContinueDue
  <2> QED BY <2>2, <2>3
<1> QED BY <1>2, <1>3

(* What changes neither the lines typed nor the remarks to come, and asks   *)
(* no remark.                                                              *)
LEMMA KeepsRobot ==
  ASSUME RobotInv, RowUntouched, todo' = todo,
         stage' = "prompt" => asking # "remarks" \/ stage = "prompt",
         \/ /\ asking' = asking
            /\ stage' = "match" => stage = "match" /\ question' = question
         \/ asking # "remarks" /\ asking' # "remarks"
  PROVE  RobotInv'
<1>1. row' = row /\ Due' = Due
  BY DEF RowUntouched, row, Due
<1>2. RowCounted'
  BY <1>1 DEF RobotInv, RowCounted, RowUntouched
<1>3. RemarksDue'
  <2>1. todo' \in Seq(Due')
    BY <1>1 DEF RobotInv, RemarksDue
  <2>2. stage' = "prompt" \/ asking' # "remarks" => todo' = <<>>
    BY DEF RobotInv, RemarksDue
  <2>3. stage' = "match" /\ asking' = "remarks" =>
          \E remark \in Due' : question' = Meta(remark)
    BY <1>1 DEF RobotInv, RemarksDue
  <2> QED BY <2>1, <2>2, <2>3 DEF RemarksDue
<1> QED BY <1>2, <1>3 DEF RobotInv

(* Each step keeps what the remark about robots rests on.                   *)
LEMMA StepRobot == ASSUME RobotInv, [Next]_vars PROVE RobotInv'
<1>1. ASSUME NEW l \in Lines, Type(l) PROVE RobotInv'
  BY <1>1, TypeRow
<1>2. CASE FirstRemark \/ NextRemark
  BY <1>2, RemarksRobot
<1>3. CASE Exit \/ NoRemarks \/ Elsewhere \/ Asked
  BY <1>3, KeepsRobot DEF Exit, NoRemarks, Elsewhere, Asked, Ask, RowUntouched
<1>4. CASE TryTemplate
  BY <1>4, KeepsRobot DEF TryTemplate, RowUntouched
<1>5. CASE UseWinner \/ UseNeutral \/ pick_templ_winner
  BY <1>5, KeepsRobot DEF UseWinner, UseNeutral, pick_templ_winner, RowUntouched
<1>6. CASE UNCHANGED vars
  BY <1>6, KeepsRobot DEF vars, RowUntouched
<1> QED BY <1>1, <1>2, <1>3, <1>4, <1>5, <1>6 DEF Next

(* The count of repeated lines is that of the last lines typed, and a       *)
(* remark asked for is due by it.                                          *)
THEOREM RobotInvariance == Spec => []RobotInv
<1>1. Init => RobotInv
  BY InitRobot
<1>2. RobotInv /\ [Next]_vars => RobotInv'
  BY StepRobot
<1> QED BY <1>1, <1>2, PTL DEF Spec

(* However many lines are typed and whenever remarks are due: only a human  *)
(* whose last lines were all the same is taken for a robot.                *)
THEOREM RobotsRepeat == Spec => []RobotOnlyIfRepeated
<1>1. ASSUME RobotInv PROVE RobotOnlyIfRepeated
  <2> SUFFICES ASSUME NEW r \in {<<SUSPICION, "meta_robot_suspicion">>,
                                 <<CERTAINTY, "meta_robot_certainty">>},
                      asking = "remarks", stage = "match", question = Meta(r[2])
               PROVE  /\ Len(typed) >= r[1] + 2
                      /\ \A p \in Len(typed) - r[1] - 1 .. Len(typed) :
                           typed[p] = Last(typed)
    BY DEF RobotOnlyIfRepeated
  <2>1. PICK remark \in Due : question = Meta(remark)
    BY <1>1 DEF RobotInv, RemarksDue
  <2>2. remark = r[2]
    BY <2>1 DEF Meta
  <2>3. row > r[1] /\ r[1] \in Nat
    BY <2>1, <2>2, RobotAssumption DEF Due
  <2>4. typed # <<>> /\ row < Len(typed) /\ Len(typed) \in Nat /\ row \in Nat
    BY <1>1, <2>3, LenProperties DEF RobotInv, RowCounted
  <2>5. \A p \in Len(typed) - row .. Len(typed) : typed[p] = typed[Len(typed)]
    BY <1>1, <2>4 DEF RobotInv, RowCounted
  <2>6. \A p \in Len(typed) - r[1] - 1 .. Len(typed) : p \in Len(typed) - row .. Len(typed)
    BY <2>3, <2>4
  <2> QED BY <2>3, <2>4, <2>5, <2>6 DEF Last
<1> QED BY RobotInvariance, <1>1, PTL
-----------------------------------------------------------------------------
\* A search before its first key.
Fresh == [found |-> FALSE, done |-> FALSE, words |-> words]

(* The states that a search goes through, key after key.                   *)
IsSearch(after, keys) ==
  /\ after[0] = Fresh
  /\ \A k \in 1 .. Len(keys) : after[k] = TryKey(after[k - 1], keys[k])
  /\ Search(keys) = after[Len(keys)]

(* The function that Search defines does one key after the other.           *)
LEMMA Searches ==
  ASSUME NEW keys, Len(keys) \in Nat
  PROVE  \E after : IsSearch(after, keys)
<1> DEFINE Steps(g, k) ==
             g = [n \in 0 .. k |-> IF n = 0 THEN Fresh ELSE TryKey(g[n - 1], keys[n])]
           K == {k \in Nat : \E g : Steps(g, k)}
<1>1. 0 \in K
  <2> DEFINE g == [n \in 0 .. 0 |-> Fresh]
             after(n) == IF n = 0 THEN Fresh ELSE TryKey(g[n - 1], keys[n])
  <2>1. \A n \in 0 .. 0 : after(n) = Fresh
    OBVIOUS
  <2>2. [n \in 0 .. 0 |-> after(n)] = [n \in 0 .. 0 |-> Fresh]
    <3> HIDE DEF after
    <3> QED BY <2>1
  <2>3. Steps(g, 0)
    BY <2>2, Zenon
  <2> HIDE DEF Steps
  <2> QED BY <2>3
<1>2. ASSUME NEW k \in K PROVE k + 1 \in K
  <2>1. PICK g : Steps(g, k)
    OBVIOUS
  <2> DEFINE after(n) == IF n = 0 THEN Fresh ELSE TryKey(g[n - 1], keys[n])
  <2>2. PICK h : h = [n \in 0 .. k + 1 |-> after(n)]
    OBVIOUS
  <2>3. \A n \in 0 .. k : g[n] = after(n)
    BY <2>1
  <2>4. \A n \in 0 .. k + 1 : n = 0 \/ n - 1 \in 0 .. k
    OBVIOUS
  <2> HIDE DEF after
  <2>5. \A n \in 0 .. k : h[n] = g[n]
    BY <2>2, <2>3
  <2>6. \A n \in 0 .. k + 1 :
          after(n) = IF n = 0 THEN Fresh ELSE TryKey(h[n - 1], keys[n])
    BY <2>4, <2>5 DEF after
  <2>7. PICK r : r = [n \in 0 .. k + 1 |-> IF n = 0 THEN Fresh ELSE TryKey(h[n - 1], keys[n])]
    OBVIOUS
  <2>8. \A n \in 0 .. k + 1 : r[n] = after(n)
    BY <2>6, <2>7
  <2>9. r = [n \in 0 .. k + 1 |-> r[n]] /\ h = [n \in 0 .. k + 1 |-> h[n]]
    BY <2>2, <2>7
  <2>10. \A n \in 0 .. k + 1 : r[n] = h[n]
    BY <2>2, <2>8
  <2>11. r = h
    BY <2>9, <2>10
  <2>12. h = [n \in 0 .. k + 1 |-> IF n = 0 THEN Fresh ELSE TryKey(h[n - 1], keys[n])]
    BY <2>7, <2>11, Zenon
  <2>13. Steps(h, k + 1)
    BY <2>12, Zenon
  <2> HIDE DEF Steps
  <2> QED BY <2>13
<1>3. K = Nat
  <2> HIDE DEF K
  <2>1. K \in SUBSET Nat
    BY DEF K
  <2> QED BY <1>1, <1>2, <2>1, Numbers!SetInduction
<1>4. PICK g : Steps(g, Len(keys))
  BY <1>3
<1> DEFINE after == CHOOSE a : Steps(a, Len(keys))
<1>5. Steps(after, Len(keys))
  <2> HIDE DEF Steps
  <2> QED BY <1>4
<1>6. Search(keys) = after[Len(keys)]
  BY DEF Search, Fresh
<1> HIDE DEF after
<1>7. \A n \in 0 .. Len(keys) :
        after[n] = IF n = 0 THEN Fresh ELSE TryKey(after[n - 1], keys[n])
  BY <1>5
<1>8. after[0] = Fresh
  BY <1>7
<1>9. \A n \in 1 .. Len(keys) : after[n] = TryKey(after[n - 1], keys[n])
  BY <1>7
<1>10. IsSearch(after, keys)
  BY <1>6, <1>8, <1>9 DEF IsSearch
<1> QED BY <1>10

(* What a key with "%" finds does not depend on the words before it.       *)
LEMMA WildcardFound ==
  ASSUME NEW key, NEW w
  PROVE  /\ Wildcard(key, w) = IF Wildcard(key, <<>>).hit THEN Wildcard(key, <<>>) ELSE Miss(w)
         /\ Wildcard(key, w).hit \in BOOLEAN
<1> DEFINE p1 == phrasefind(question, 1, key.text)
           from == p1 + Len(key.text)
           p2 == phrasefind(question, p1 + 1, key.right)
           rest == SubSeq(question, from, Len(question))
           part == AfterKey(IF p2 > from THEN SubSeq(question, from, p2 - 1) ELSE rest)
           all == AfterKey(rest)
<1>1. \A v : Wildcard(key, v) =
        IF p1 = 0 THEN Miss(v)
        ELSE IF key.right = <<>> THEN IF rest = <<>> THEN Miss(v) ELSE Hit(all)
        ELSE IF p2 = 0 \/ EndsWithMark(question) THEN Miss(v) ELSE Hit(part)
  BY DEF Wildcard
<1> HIDE DEF p1, p2, rest, part, all
<1>2. \A v : ~Miss(v).hit /\ Hit(v).hit /\ Miss(v).hit \in BOOLEAN /\ Hit(v).hit \in BOOLEAN
  BY DEF Miss, Hit
<1>3. CASE p1 = 0 \/ (key.right = <<>> /\ rest = <<>>)
           \/ (key.right # <<>> /\ (p2 = 0 \/ EndsWithMark(question)))
  <2>1. \A v : Wildcard(key, v) = Miss(v)
    BY <1>1, <1>3, Zenon
  <2> QED BY <1>2, <2>1
<1>4. CASE p1 # 0 /\ key.right = <<>> /\ rest # <<>>
  <2>1. \A v : Wildcard(key, v) = Hit(all)
    BY <1>1, <1>4, Zenon
  <2> QED BY <1>2, <2>1
<1>5. CASE p1 # 0 /\ key.right # <<>> /\ ~(p2 = 0 \/ EndsWithMark(question))
  <2>1. \A v : Wildcard(key, v) = Hit(part)
    BY <1>1, <1>5, Zenon
  <2> QED BY <1>2, <2>1
<1> QED BY <1>3, <1>4, <1>5, Zenon

\* What a search is.
IsState(r) ==
  /\ r = [found |-> r.found, done |-> r.done, words |-> r.words]
  /\ r.found \in BOOLEAN /\ r.done \in BOOLEAN

\* What a key of either kind that answers finds in the question.
Answers(key) == key.kind \in {"plain", "%"} /\ Matches(key)

(* One key: a condition that fails ends the search without success, a plain *)
(* key can only help, and one with "%" also takes back what was found when  *)
(* there are no words.                                                     *)
KeyStep(r, key, n) ==
  /\ IsState(n)
  /\ r.done => n = r
  /\ ~r.done /\ Fails(key) => n.done /\ ~n.found
  /\ ~r.done /\ ~Fails(key) =>
       /\ ~n.done
       /\ n.found => r.found \/ Answers(key)
       /\ Answers(key) => n.found
       /\ r.found /\ key.kind # "%" => n.found
  /\ \/ n.words = r.words
     \/ /\ key.kind = "%" /\ Wildcard(key, <<>>).hit
        /\ n.words = Wildcard(key, <<>>).words

(* Whatever comes of a key, it is a step that KeyStep allows.               *)
LEMMA KeyTried ==
  ASSUME NEW r, IsState(r), NEW key
  PROVE  KeyStep(r, key, TryKey(r, key))
<1> SUFFICES ASSUME NEW n, n = TryKey(r, key) PROVE KeyStep(r, key, n)
  OBVIOUS
<1> USE DEF KeyStep
<1>1. CASE r.done
  <2>1. n = r
    BY <1>1 DEF TryKey
  <2> QED BY <1>1, <2>1
<1>2. CASE ~r.done /\ Fails(key)
  <2>1. n = [r EXCEPT !.found = FALSE, !.done = TRUE]
    BY <1>2 DEF TryKey
  <2>2. n = [found |-> FALSE, done |-> TRUE, words |-> r.words]
    BY <2>1 DEF IsState
  <2> QED BY <1>2, <2>2 DEF IsState
<1>3. CASE ~r.done /\ ~Fails(key) /\ key.kind = "%"
  <2> DEFINE wild == Wildcard(key, r.words)
             free == Wildcard(key, <<>>)
             found == (wild.hit \/ r.found) /\ strlen_eff(wild.words) > 0
  <2>1. n = [r EXCEPT !.words = wild.words, !.found = (wild.hit \/ @) /\ strlen_eff(wild.words) > 0]
    BY <1>3 DEF TryKey
  <2>2. wild = (IF free.hit THEN free ELSE Miss(r.words)) /\ wild.hit \in BOOLEAN
    BY WildcardFound
  <2>3. free.hit \in BOOLEAN
    BY WildcardFound
  <2>4. Answers(key) <=> free.hit /\ strlen_eff(free.words) > 0
    BY <1>3 DEF Answers, Matches
  <2> HIDE DEF wild, free
  <2>5. n = [found |-> found, done |-> r.done, words |-> wild.words] /\ found \in BOOLEAN
    BY <2>1 DEF IsState
  <2>6. Miss(r.words).hit = FALSE /\ Miss(r.words).words = r.words
    BY DEF Miss
  <2>7. CASE free.hit
    <3>1. wild = free
      BY <2>2, <2>7
    <3>3. found \in BOOLEAN /\ (found <=> strlen_eff(free.words) > 0)
      BY <2>5, <2>7, <3>1
    <3> HIDE DEF found
    <3>2. IsState(n) /\ ~n.done /\ (n.found <=> strlen_eff(free.words) > 0) /\ n.words = free.words
      BY <1>3, <2>5, <3>1, <3>3 DEF IsState
    <3> QED BY <1>3, <2>4, <2>7, <3>2 DEF free
  <2>8. CASE ~free.hit
    <3>1. wild = Miss(r.words)
      BY <2>2, <2>8
    <3>2. IsState(n) /\ ~n.done /\ (n.found => r.found) /\ n.words = r.words
      BY <1>3, <2>5, <2>6, <3>1 DEF IsState
    <3> QED BY <1>3, <2>4, <2>8, <3>2
  <2> QED BY <2>7, <2>8
<1>4. CASE ~r.done /\ ~Fails(key) /\ key.kind = "plain"
  <2>1. n = [r EXCEPT !.found = @ \/ phrasefind(question, 1, key.text) # 0]
    BY <1>4 DEF TryKey
  <2> DEFINE found == r.found \/ phrasefind(question, 1, key.text) # 0
  <2>2. n = [found |-> found, done |-> r.done, words |-> r.words] /\ found \in BOOLEAN
    BY <2>1 DEF IsState
  <2>3. Answers(key) <=> phrasefind(question, 1, key.text) # 0
    BY <1>4 DEF Answers, Matches
  <2>6. found <=> r.found \/ Answers(key)
    BY <2>3
  <2> HIDE DEF found
  <2>4. n.done = r.done /\ n.words = r.words /\ n.found \in BOOLEAN
        /\ (n.found <=> r.found \/ Answers(key))
    BY <2>2, <2>6
  <2>5. IsState(n)
    BY <2>2, <2>4 DEF IsState
  <2> QED BY <1>4, <2>4, <2>5
<1>5. CASE ~r.done /\ ~Fails(key) /\ key.kind \notin {"plain", "%"}
  <2>1. n = r
    BY <1>5 DEF TryKey
  <2> QED BY <1>5, <2>1 DEF Answers
<1> QED BY <1>1, <1>2, <1>3, <1>4, <1>5

(* A search that succeeds found a key that answers, and no condition that   *)
(* fails; and it succeeds when every key with "%" answers.                 *)
LEMMA SearchAnswers ==
  ASSUME NEW t \in Templates
  PROVE  LET r == Search(Templ[t].keys)
         IN  /\ r.found \in BOOLEAN
             /\ r.found => May(t)
             /\ Must(t) => r.found
<1> DEFINE keys == Templ[t].keys
           n == Len(keys)
<1>1. keys \in Seq(Keys) /\ n \in Nat
  BY DictAssumption, LenProperties
<1>2. PICK after : IsSearch(after, keys)
  BY <1>1, Searches
<1> HIDE DEF keys
<1>3. \A key : key \in Range(keys) <=> \E j \in 1 .. n : key = keys[j]
  <2>1. DOMAIN keys = 1 .. n
    BY <1>1, LenProperties
  <2> QED BY <2>1 DEF Range
<1>4. Allowed(t) <=> \A j \in 1 .. n : ~Fails(keys[j])
  BY <1>3 DEF Allowed, keys
<1>5. May(t) <=> Allowed(t) /\ \E j \in 1 .. n : Answers(keys[j])
  BY <1>3 DEF May, Plain, Wild, Answers, keys
<1>6. Must(t) <=> May(t) /\ \A j \in 1 .. n : keys[j].kind = "%" => Answers(keys[j])
  BY <1>3 DEF Must, Wild, Answers, keys
<1> DEFINE Holds(k) ==
             /\ IsState(after[k])
             /\ after[k].done => ~after[k].found /\ ~Allowed(t)
             /\ ~after[k].done => \A j \in 1 .. k : ~Fails(keys[j])
             /\ after[k].found => \E j \in 1 .. k : Answers(keys[j])
             /\ Must(t) /\ (\E j \in 1 .. k : Answers(keys[j])) => after[k].found
           K == {k \in Nat : k <= n => Holds(k)}
<1>7. 0 \in K
  <2>1. after[0] = Fresh
    BY <1>2 DEF IsSearch
  <2>2. IsState(Fresh) /\ ~Fresh.found /\ ~Fresh.done
    BY DEF Fresh, IsState
  <2>3. Holds(0)
    BY <2>1, <2>2
  <2> QED BY <2>3
<1>8. ASSUME NEW k \in K PROVE k + 1 \in K
  <2> SUFFICES ASSUME k + 1 <= n PROVE Holds(k + 1)
    OBVIOUS
  <2>1. k \in Nat /\ k + 1 \in 1 .. n /\ Holds(k)
    BY <1>1
  <2> DEFINE key == keys[k + 1]
             a == after[k]
             b == after[k + 1]
  <2>2. (k + 1) - 1 = k
    BY <2>1
  <2>3. b = TryKey(a, key)
    BY <1>2, <2>1, <2>2 DEF IsSearch
  <2>12. IsState(a)
    BY <2>1
  <2> HIDE DEF key, a, b
  <2>13. KeyStep(a, key, b)
    BY <2>3, <2>12, KeyTried, Zenon
  <2>4. /\ IsState(b)
        /\ a.done => b = a
        /\ ~a.done /\ Fails(key) => b.done /\ ~b.found
        /\ ~a.done /\ ~Fails(key) =>
             /\ ~b.done
             /\ b.found => a.found \/ Answers(key)
             /\ Answers(key) => b.found
             /\ a.found /\ key.kind # "%" => b.found
    BY <2>13 DEF KeyStep
  <2>5. \A j : j \in 1 .. k + 1 <=> j \in 1 .. k \/ j = k + 1
    BY <2>1
  <2>6. /\ a.done => ~a.found /\ ~Allowed(t)
        /\ ~a.done => \A j \in 1 .. k : ~Fails(keys[j])
        /\ a.found => \E j \in 1 .. k : Answers(keys[j])
        /\ Must(t) /\ (\E j \in 1 .. k : Answers(keys[j])) => a.found
    BY <2>1 DEF a
  <2>7. /\ Fails(key) => ~Allowed(t)
        /\ Must(t) => Allowed(t)
        /\ Must(t) /\ key.kind = "%" => Answers(key)
    BY <1>4, <1>5, <1>6, <2>1 DEF key
  <2>8. b.done => ~b.found /\ ~Allowed(t)
    BY <2>4, <2>6, <2>7
  <2>9. ~b.done => \A j \in 1 .. k + 1 : ~Fails(keys[j])
    BY <2>4, <2>5, <2>6 DEF key
  <2>10. b.found => \E j \in 1 .. k + 1 : Answers(keys[j])
    BY <2>4, <2>5, <2>6, <2>8 DEF key
  <2>11. Must(t) /\ (\E j \in 1 .. k + 1 : Answers(keys[j])) => b.found
    BY <2>4, <2>5, <2>6, <2>7 DEF key
  <2> QED BY <2>4, <2>8, <2>9, <2>10, <2>11 DEF b
<1>9. Holds(n)
  <2> HIDE DEF Holds
  <2>1. K \in SUBSET Nat
    OBVIOUS
  <2> HIDE DEF K
  <2>2. K = Nat
    BY <1>7, <1>8, <2>1, Numbers!SetInduction
  <2>3. n \in K
    BY <1>1, <2>2
  <2> QED BY <1>1, <2>3 DEF K
<1>10. Search(keys) = after[n]
  BY <1>2 DEF IsSearch
<1>11. after[n].found \in BOOLEAN
  BY <1>9 DEF IsState
<1>12. after[n].found => May(t)
  BY <1>4, <1>5, <1>9
<1>13. Must(t) => after[n].found
  BY <1>5, <1>6, <1>9
<1> QED BY <1>10, <1>11, <1>12, <1>13 DEF keys

-----------------------------------------------------------------------------
\* The best so far is a template tried already that answers, with its priority.
BestAnswers ==
  IF best.winner = 0 THEN best.score = 0
  ELSE /\ best.winner \in 1 .. i - 1
       /\ best.score = Templ[best.winner].priority
       /\ May(best.winner)

(* While the templates are tried: none of those tried already is better     *)
(* than the best so far.                                                   *)
Tried ==
  /\ i \in Templates
  /\ BestAnswers
  /\ \A t \in 1 .. i - 1 : Must(t) /\ ~ Hidden(t) => Beats(t)

MatchInv == (stage = "match" => Tried) /\ NoBetterTemplate

(* What answers a question depends on nothing else.                        *)
LEMMA SameQuestion ==
  ASSUME question' = question
  PROVE  /\ \A t : May(t)' <=> May(t)
         /\ \A t : Must(t)' <=> Must(t)
         /\ \A t : Hidden(t)' <=> Hidden(t)
<1>1. /\ \A key : Fails(key)' <=> Fails(key)
      /\ \A key, w : Wildcard(key, w)' = Wildcard(key, w)
  BY DEF Fails, Wildcard, EndsWithMark
<1>2. \A key : Matches(key)' <=> Matches(key)
  BY <1>1 DEF Matches
<1>3. \A t : Allowed(t)' <=> Allowed(t)
  BY <1>1 DEF Allowed
<1>4. \A t : May(t)' <=> May(t)
  BY <1>2, <1>3 DEF May
<1>5. \A t : Must(t)' <=> Must(t)
  BY <1>2, <1>4 DEF Must
<1>6. \A t : Hidden(t)' <=> Hidden(t)
  BY <1>4 DEF Hidden
<1> QED BY <1>4, <1>5, <1>6

(* A question is asked from the first template on.                         *)
LEMMA AskMatch == ASSUME NEW q, Ask(q) PROVE MatchInv'
<1>1. stage' = "match" /\ i' = 1 /\ best' = Nothing
  BY DEF Ask
<1>2. 1 \in Templates
  BY DictAssumption DEF Templates
<1>3. Tried'
  BY <1>1, <1>2 DEF Tried, BestAnswers, Nothing
<1> QED BY <1>1, <1>3 DEF MatchInv, NoBetterTemplate

(* One template more is tried.                                             *)
LEMMA TryMatch == ASSUME MatchInv, TryTemplate PROVE MatchInv'
<1> DEFINE prio == Templ[i].priority
           found == Search(Templ[i].keys).found
           better == found /\ prio > best.score
           stop == i = maxtempl \/ (found /\ prio = MAXPRIOR_TOPIC)
<1>1. Tried /\ question' = question
  BY DEF MatchInv, TryTemplate
<1>2. /\ best' = IF better THEN [winner |-> i, score |-> prio] ELSE best
      /\ i' = IF stop THEN 1 ELSE i + 1
      /\ stage' = IF stop THEN "use" ELSE "match"
  BY DEF TryTemplate
<1>3. i \in Templates /\ maxtempl \in Nat /\ i \in Nat \ {0}
  BY <1>1, DictAssumption DEF Tried, Templates
<1>4. prio \in Nat \ {0} /\ \A t \in Templates : Templ[t].priority \in Nat \ {0}
  BY <1>3, DictAssumption
<1>5. found \in BOOLEAN /\ (found => May(i)) /\ (Must(i) => found)
  BY <1>3, SearchAnswers
<1>6. /\ \A t : May(t)' <=> May(t)
      /\ \A t : Must(t)' <=> Must(t)
      /\ \A t : Hidden(t)' <=> Hidden(t)
  BY <1>1, SameQuestion
<1>7. BestAnswers /\ \A t \in 1 .. i - 1 : Must(t) /\ ~ Hidden(t) => Beats(t)
  BY <1>1 DEF Tried
<1>12. \A t \in 1 .. i : t \in Templates
  BY <1>3 DEF Templates
<1> HIDE DEF prio, found
\* The best after this template.
<1>8. IF best'.winner = 0 THEN best'.score = 0
      ELSE /\ best'.winner \in 1 .. i
           /\ best'.score = Templ[best'.winner].priority
           /\ May(best'.winner)
  <2>1. CASE better
    <3>1. best'.winner = i /\ best'.score = prio
      BY <1>2, <2>1
    <3> QED BY <1>3, <1>5, <2>1, <3>1 DEF prio
  <2>2. CASE ~ better
    <3>1. best' = best
      BY <1>2, <2>2
    <3> QED BY <1>3, <1>7, <3>1 DEF BestAnswers
  <2> QED BY <2>1, <2>2
<1>9. \A t \in 1 .. i : Must(t) /\ ~ Hidden(t) => Beats(t)'
  <2> SUFFICES ASSUME NEW t \in 1 .. i, Must(t), ~ Hidden(t) PROVE Beats(t)'
    OBVIOUS
  <2>1. Templ[t].priority \in Nat
    BY <1>4, <1>12
  <2>5. best.score \in Nat
    BY <1>3, <1>4, <1>7, <1>12 DEF BestAnswers
  <2>2. CASE better
    <3>1. best'.winner = i /\ best'.score = prio
      BY <1>2, <2>2
    <3>2. CASE t = i
      BY <1>3, <3>1, <3>2 DEF Beats, prio
    <3>3. CASE t # i
      <4>1. t \in 1 .. i - 1
        BY <1>3, <3>3
      <4>2. Beats(t)
        BY <1>7, <4>1
      <4>3. Templ[t].priority < prio
        BY <2>1, <2>2, <2>5, <4>2, <1>4 DEF Beats
      <4> QED BY <1>3, <3>1, <4>3 DEF Beats
    <3> QED BY <3>2, <3>3
  <2>3. CASE ~ better
    <3>1. best' = best
      BY <1>2, <2>3
    <3>2. CASE t = i
      <4>1. prio <= best.score
        BY <1>4, <1>5, <2>3, <2>5, <3>2
      <4>2. best.winner # 0 /\ best.winner < i
        BY <1>3, <1>4, <1>7, <4>1, <2>5 DEF BestAnswers
      <4>3. Templ[t].priority < best.score \/ Templ[t].priority = best.score
        BY <1>4, <2>5, <3>2, <4>1 DEF prio
      <4>4. best.winner <= t
        BY <1>3, <1>7, <3>2, <4>2 DEF BestAnswers
      <4> QED BY <3>1, <4>2, <4>3, <4>4 DEF Beats
    <3>3. CASE t # i
      <4>1. t \in 1 .. i - 1
        BY <1>3, <3>3
      <4> QED BY <1>7, <3>1, <4>1 DEF Beats
    <3> QED BY <3>2, <3>3
  <2> QED BY <2>2, <2>3
<1>10. CASE stop
  <2>1. \A t \in Templates : Must(t) /\ ~ Hidden(t) => t \in 1 .. i
    <3> SUFFICES ASSUME NEW t \in Templates, t > i PROVE Hidden(t)
      BY <1>3 DEF Templates
    <3>1. prio = MAXPRIOR_TOPIC /\ May(i)
      BY <1>3, <1>5, <1>10 DEF Templates
    <3>2. i \in 1 .. t - 1
      BY <1>3 DEF Templates
    <3> QED BY <3>1, <3>2 DEF Hidden, prio
  <2>2. \A t \in Templates : Must(t)' /\ ~ Hidden(t)' => Beats(t)'
    BY <1>6, <1>9, <2>1
  <2>3. best'.winner # 0 => May(best'.winner)
    BY <1>8
  <2>4. best'.winner # 0 => May(best.winner)'
    BY <2>3, <1>1 DEF May, Matches, Allowed, Fails, Wildcard, EndsWithMark
  <2>5. NoBetterTemplate'
    BY <2>2, <2>4 DEF NoBetterTemplate
  <2> QED BY <1>2, <1>10, <2>5 DEF MatchInv
<1>11. CASE ~ stop
  <2>1. i' = i + 1 /\ stage' = "match" /\ i' \in Templates
    BY <1>2, <1>3, <1>11 DEF Templates
  <2>2. 1 .. i' - 1 = 1 .. i
    BY <1>3, <2>1
  <2>3. best'.winner # 0 => May(best.winner)'
    BY <1>8, <1>1 DEF May, Matches, Allowed, Fails, Wildcard, EndsWithMark
  <2>4. BestAnswers'
    BY <1>8, <2>2, <2>3 DEF BestAnswers
  <2>5. \A t \in 1 .. i' - 1 : Must(t)' /\ ~ Hidden(t)' => Beats(t)'
    BY <1>6, <1>9, <2>2
  <2>6. Tried'
    BY <2>1, <2>4, <2>5 DEF Tried
  <2> QED BY <2>1, <2>6 DEF MatchInv, NoBetterTemplate
<1> QED BY <1>10, <1>11

(* Each step keeps the state of the search and of its winner.               *)
LEMMA StepMatch == ASSUME MatchInv, [Next]_vars PROVE MatchInv'
<1>1. ASSUME NEW q, Ask(q) PROVE MatchInv'
  BY <1>1, AskMatch
<1>2. CASE TryTemplate
  BY <1>2, TryMatch
<1>3. CASE stage' \notin {"match", "use"}
  BY <1>3 DEF MatchInv, NoBetterTemplate
<1>4. CASE UNCHANGED vars
  <2>1. /\ question' = question /\ stage' = stage /\ i' = i /\ best' = best
    BY <1>4 DEF vars
  <2>2. /\ \A t : May(t)' <=> May(t)
        /\ \A t : Must(t)' <=> Must(t)
        /\ \A t : Hidden(t)' <=> Hidden(t)
    BY <2>1, SameQuestion
  <2>3. \A t : Beats(t)' <=> Beats(t)
    BY <2>1 DEF Beats
  <2>4. May(best.winner)' <=> May(best.winner)
    BY <2>1 DEF May, Matches, Allowed, Fails, Wildcard, EndsWithMark
  <2>5. NoBetterTemplate'
    BY <2>1, <2>2, <2>3, <2>4 DEF MatchInv, NoBetterTemplate
  <2>6. Tried => Tried'
    BY <2>1, <2>2, <2>3, <2>4 DEF Tried, BestAnswers
  <2> QED BY <2>1, <2>5, <2>6 DEF MatchInv
<1>5. ASSUME NEW l \in Lines, Type(l) PROVE MatchInv'
  BY <1>1, <1>3, <1>5 DEF Type
<1>6. CASE Exit \/ UseWinner \/ UseNeutral \/ pick_templ_winner \/ Asked \/ NoRemarks
  BY <1>3, <1>6 DEF Exit, UseWinner, UseNeutral, pick_templ_winner, Asked, NoRemarks
<1>7. CASE Elsewhere \/ FirstRemark \/ NextRemark
  BY <1>1, <1>3, <1>7 DEF Elsewhere, FirstRemark, NextRemark, Continue
<1> QED BY <1>2, <1>4, <1>5, <1>6, <1>7 DEF Next

(* For any dictionary: the reply is made with a template that answers the   *)
(* question, and no template that must answer it is better.                *)
THEOREM BestTemplateAnswers == Spec => []NoBetterTemplate
<1>1. Init => MatchInv
  BY DEF Init, MatchInv, NoBetterTemplate
<1>2. MatchInv /\ [Next]_vars => MatchInv'
  BY StepMatch
<1>3. MatchInv => NoBetterTemplate
  BY DEF MatchInv
<1> QED BY <1>1, <1>2, <1>3, PTL DEF Spec

-----------------------------------------------------------------------------
\* A sequence of any words.
IsText(s) == s \in Seq(Range(s))

(* A sequence is a text, whatever it is made of.                            *)
LEMMA TextIsText == ASSUME NEW S, NEW s \in Seq(S) PROVE IsText(s)
<1>1. Len(s) \in Nat /\ DOMAIN s = 1 .. Len(s) /\ s = [p \in 1 .. Len(s) |-> s[p]]
  BY LenProperties
<1>2. \A p \in 1 .. Len(s) : s[p] \in Range(s)
  BY <1>1 DEF Range
<1> DEFINE R == Range(s)
<1> HIDE DEF R
<1>3. s \in [1 .. Len(s) -> R]
  BY <1>1, <1>2 DEF R
<1>4. s \in Seq(R)
  BY <1>1, <1>3
<1> QED BY <1>4 DEF IsText, R

(* What is put for a phrase is put into a text of the same words.          *)
LEMMA Substituted ==
  ASSUME NEW S, NEW s \in Seq(S), NEW old, Len(old) \in Nat \ {0}, NEW new \in Seq(S)
  PROVE  substitute_pattern(s, old, new) \in Seq(S)
<1> DEFINE n == Len(s)
           m == Len(old)
           Text(f, p) ==
             IF p + Len(old) > Len(s) + 1 THEN SubSeq(s, p, Len(s))
             ELSE IF At(s, p, old) THEN new \o f[p + Len(old)]
             ELSE <<s[p]>> \o f[p + 1]
           Steps(f, k) == f = [p \in n + 1 - k .. n + 1 |-> Text(f, p)]
           K == {k \in Nat : k <= n => \E f : Steps(f, k)}
<1>1. n \in Nat /\ m \in Nat \ {0}
  BY LenProperties
<1>2. /\ \A f, p : p + m > n + 1 => Text(f, p) = SubSeq(s, p, n)
      /\ \A f, p : ~ (p + m > n + 1) =>
           Text(f, p) = new \o f[p + m] \/ (Text(f, p) = <<s[p]>> \o f[p + 1] /\ ~ At(s, p, old))
  OBVIOUS
<1>3. \A f, g, p : (~ (p + m > n + 1) => f[p + m] = g[p + m] /\ f[p + 1] = g[p + 1])
                     => Text(f, p) = Text(g, p)
  OBVIOUS
<1> HIDE DEF Text
<1>4. 0 \in K
  <2>1. PICK f : f = [p \in n + 1 - 0 .. n + 1 |-> SubSeq(s, p, n)]
    OBVIOUS
  <2>2. \A p \in n + 1 - 0 .. n + 1 : Text(f, p) = SubSeq(s, p, n)
    BY <1>1, <1>2
  <2>3. Steps(f, 0)
    BY <2>1, <2>2
  <2> HIDE DEF Steps
  <2> QED BY <2>3
<1>5. ASSUME NEW k \in K PROVE k + 1 \in K
  <2> SUFFICES ASSUME k + 1 <= n PROVE \E f : Steps(f, k + 1)
    OBVIOUS
  <2>1. PICK g : Steps(g, k)
    BY <1>1
  <2>2. k \in Nat
    OBVIOUS
  <2>3. PICK h : h = [p \in n + 1 - (k + 1) .. n + 1 |-> Text(g, p)]
    OBVIOUS
  <2>4. \A p \in n + 1 - k .. n + 1 : h[p] = g[p]
    <3>1. \A p \in n + 1 - k .. n + 1 : g[p] = Text(g, p)
      BY <2>1
    <3>2. \A p \in n + 1 - k .. n + 1 : p \in n + 1 - (k + 1) .. n + 1
      BY <1>1, <2>2
    <3> QED BY <2>3, <3>1, <3>2
  <2>5. \A p \in n + 1 - (k + 1) .. n + 1 : Text(g, p) = Text(h, p)
    <3> SUFFICES ASSUME NEW p \in n + 1 - (k + 1) .. n + 1, ~ (p + m > n + 1)
                 PROVE  g[p + m] = h[p + m] /\ g[p + 1] = h[p + 1]
      BY <1>3
    <3>1. p + m \in n + 1 - k .. n + 1 /\ p + 1 \in n + 1 - k .. n + 1
      BY <1>1, <2>2
    <3> QED BY <2>4, <3>1
  <2>6. h = [p \in n + 1 - (k + 1) .. n + 1 |-> Text(h, p)]
    BY <2>3, <2>5
  <2>7. Steps(h, k + 1)
    BY <2>6
  <2> HIDE DEF Steps
  <2> QED BY <2>7
<1>6. K = Nat
  <2> HIDE DEF K
  <2>1. K \in SUBSET Nat
    BY DEF K
  <2> QED BY <1>4, <1>5, <2>1, Numbers!SetInduction
<1>7. PICK g : Steps(g, n)
  BY <1>1, <1>6
<1>8. 1 .. n + 1 = n + 1 - n .. n + 1
  BY <1>1
<1> DEFINE from == CHOOSE f : f = [p \in 1 .. Len(s) + 1 |-> Text(f, p)]
<1>9. from = [p \in 1 .. n + 1 |-> Text(from, p)]
  <2>1. g = [p \in 1 .. Len(s) + 1 |-> Text(g, p)]
    BY <1>7, <1>8
  <2> QED BY <2>1
<1>10. substitute_pattern(s, old, new) = from[1]
  BY DEF substitute_pattern, Text
<1> HIDE DEF from
<1>11. \A p \in 1 .. n + 1 : from[p] = Text(from, p)
  BY <1>9
<1> DEFINE L == {k \in Nat : \A j \in 0 .. k : j <= n => from[n + 1 - j] \in Seq(S)}
<1>12. 0 \in L
  <2>1. n + 1 \in 1 .. n + 1 /\ (n + 1) + m > n + 1
    BY <1>1
  <2>2. from[n + 1] = SubSeq(s, n + 1, n)
    BY <1>2, <1>11, <2>1
  <2>3. from[n + 1] = <<>>
    BY <1>1, <2>2, SubSeqProperties
  <2>4. \A j \in 0 .. 0 : n + 1 - j = n + 1
    BY <1>1
  <2>5. from[n + 1] \in Seq(S)
    BY <2>3
  <2> QED BY <2>4, <2>5
<1>13. ASSUME NEW k \in L PROVE k + 1 \in L
  <2> SUFFICES ASSUME k + 1 <= n PROVE from[n + 1 - (k + 1)] \in Seq(S)
    BY <1>1
  <2>1. PICK p \in 1 .. n : p = n + 1 - (k + 1)
    BY <1>1
  <2>2. \A r \in p + 1 .. n + 1 : from[r] \in Seq(S)
    <3> TAKE r \in p + 1 .. n + 1
    <3>1. PICK j \in 0 .. k : r = n + 1 - j
      <4>1. n + 1 - r \in 0 .. k /\ r = n + 1 - (n + 1 - r)
        BY <1>1, <2>1
      <4> QED BY <4>1
    <3>2. j <= n
      BY <1>1, <3>1
    <3> QED BY <3>1, <3>2
  <2>5. from[p] = Text(from, p)
    BY <1>1, <1>11, <2>1
  <2>3. CASE p + m > n + 1
    <3>1. from[p] = SubSeq(s, p, n)
      BY <1>2, <2>3, <2>5
    <3> QED BY <1>1, <2>1, <3>1, SubSeqProperties
  <2>4. CASE ~ (p + m > n + 1)
    <3>1. p + m \in p + 1 .. n + 1 /\ p + 1 \in p + 1 .. n + 1
      BY <1>1, <2>4
    <3>2. from[p + m] \in Seq(S) /\ from[p + 1] \in Seq(S)
      BY <2>2, <3>1
    <3>3. <<s[p]>> \in Seq(S)
      BY <1>1, ElementOfSeq
    <3>4. from[p] = new \o from[p + m] \/ from[p] = <<s[p]>> \o from[p + 1]
      BY <1>2, <2>4, <2>5
    <3>5. new \o from[p + m] \in Seq(S) /\ <<s[p]>> \o from[p + 1] \in Seq(S)
      BY <3>2, <3>3, ConcatProperties
    <3> QED BY <2>1, <3>4, <3>5
  <2> QED BY <2>3, <2>4
<1>14. L = Nat
  <2> HIDE DEF L
  <2>1. L \in SUBSET Nat
    BY DEF L
  <2> QED BY <1>12, <1>13, <2>1, Numbers!SetInduction
<1>15. from[n + 1 - n] \in Seq(S)
  BY <1>1, <1>14
<1>16. n + 1 - n = 1
  BY <1>1
<1> QED BY <1>10, <1>15, <1>16


\* The words of a line, its name, and the colon after the name.
Word == STRING \cup {":"}

(* A line in which the synonyms were replaced is a text.                   *)
LEMMA Normalized ==
  ASSUME NEW s \in Seq(Word)
  PROVE  normalized_synonyms(s, SynDict) \in Seq(Word)
<1> DEFINE n == Len(SynDict)
           Text(f, k) ==
             IF k = 0 THEN s
             ELSE substitute_pattern(f[k - 1], SynDict[k].old, SynDict[k].new)
           Steps(f, k) == f = [j \in 0 .. k |-> Text(f, j)]
           K == {k \in Nat : \E f : Steps(f, k)}
<1>1. n \in Nat /\ \A k \in 1 .. n : /\ Len(SynDict[k].old) \in Nat \ {0}
                                     /\ SynDict[k].new \in Seq(Word)
  <2>1. SynDict \in Seq([old : Seq(STRING) \ {<<>>}, new : Seq(STRING)])
    BY TextAssumption
  <2>2. n \in Nat
    BY <2>1, LenProperties
  <2>3. ASSUME NEW k \in 1 .. n
        PROVE  Len(SynDict[k].old) \in Nat \ {0} /\ SynDict[k].new \in Seq(Word)
    <3>1. SynDict[k] \in [old : Seq(STRING) \ {<<>>}, new : Seq(STRING)]
      BY <2>1, <2>2, ElementOfSeq
    <3>2. SynDict[k].old \in Seq(STRING) \ {<<>>} /\ SynDict[k].new \in Seq(STRING)
      BY <3>1
    <3>3. Len(SynDict[k].old) \in Nat \ {0}
      BY <3>2, LenProperties, EmptySeq
    <3>4. SynDict[k].new \in Seq(Word)
      BY <3>2 DEF Word
    <3> QED BY <3>3, <3>4
  <2> QED BY <2>2, <2>3
<1>2. /\ \A f : Text(f, 0) = s
      /\ \A f, k : k # 0 =>
           Text(f, k) = substitute_pattern(f[k - 1], SynDict[k].old, SynDict[k].new)
      /\ \A f, g, k : k = 0 \/ f[k - 1] = g[k - 1] => Text(f, k) = Text(g, k)
  OBVIOUS
<1> HIDE DEF Text
<1>3. 0 \in K
  <2>1. PICK f : f = [j \in 0 .. 0 |-> s]
    OBVIOUS
  <2>2. \A j \in 0 .. 0 : Text(f, j) = s
    BY <1>2
  <2>3. Steps(f, 0)
    BY <2>1, <2>2
  <2> HIDE DEF Steps
  <2> QED BY <2>3
<1>4. ASSUME NEW k \in K PROVE k + 1 \in K
  <2>1. PICK g : Steps(g, k)
    OBVIOUS
  <2>2. k \in Nat
    OBVIOUS
  <2>3. PICK h : h = [j \in 0 .. k + 1 |-> Text(g, j)]
    OBVIOUS
  <2>4. \A j \in 0 .. k : h[j] = g[j]
    <3>1. \A j \in 0 .. k : g[j] = Text(g, j)
      BY <2>1
    <3>2. \A j \in 0 .. k : j \in 0 .. k + 1
      BY <2>2
    <3> QED BY <2>3, <3>1, <3>2
  <2>5. \A j \in 0 .. k + 1 : Text(g, j) = Text(h, j)
    <3>1. \A j \in 0 .. k + 1 : j = 0 \/ j - 1 \in 0 .. k
      BY <2>2
    <3>2. \A j \in 0 .. k + 1 : j = 0 \/ g[j - 1] = h[j - 1]
      BY <2>4, <3>1
    <3> QED BY <1>2, <3>2
  <2>6. h = [j \in 0 .. k + 1 |-> Text(h, j)]
    BY <2>3, <2>5
  <2>7. Steps(h, k + 1)
    BY <2>6
  <2> HIDE DEF Steps
  <2> QED BY <2>2, <2>7
<1>5. K = Nat
  <2> HIDE DEF K
  <2>1. K \in SUBSET Nat
    BY DEF K
  <2> QED BY <1>3, <1>4, <2>1, Numbers!SetInduction
<1>6. PICK g : Steps(g, n)
  BY <1>1, <1>5
<1> DEFINE after == CHOOSE f : f = [k \in 0 .. Len(SynDict) |-> Text(f, k)]
<1>7. after = [k \in 0 .. n |-> Text(after, k)]
  BY <1>6
<1>8. normalized_synonyms(s, SynDict) = after[n]
  BY DEF normalized_synonyms, Text
<1> HIDE DEF after
<1>9. \A k \in 0 .. n : after[k] = Text(after, k)
  BY <1>7
<1> DEFINE L == {k \in Nat : k <= n => after[k] \in Seq(Word)}
<1>10. 0 \in L
  BY <1>1, <1>2, <1>9
<1>11. ASSUME NEW k \in L PROVE k + 1 \in L
  <2> SUFFICES ASSUME k + 1 <= n PROVE after[k + 1] \in Seq(Word)
    OBVIOUS
  <2>1. k + 1 \in 0 .. n /\ k + 1 \in 1 .. n /\ k + 1 # 0 /\ (k + 1) - 1 = k /\ k <= n
    BY <1>1
  <2>2. after[k] \in Seq(Word)
    BY <2>1
  <2>3. after[k + 1] = substitute_pattern(after[k], SynDict[k + 1].old, SynDict[k + 1].new)
    BY <1>2, <1>9, <2>1
  <2> HIDE DEF L
  <2> QED BY <1>1, <2>1, <2>2, <2>3, Substituted
<1>12. L = Nat
  <2> HIDE DEF L
  <2>1. L \in SUBSET Nat
    BY DEF L
  <2> QED BY <1>10, <1>11, <2>1, Numbers!SetInduction
<1>13. after[n] \in Seq(Word)
  BY <1>1, <1>12
<1> QED BY <1>8, <1>13


(* The place of a phrase that is found.                                    *)
LEMMA PhraseFound ==
  ASSUME NEW s, Len(s) \in Nat, NEW p \in Nat \ {0}, NEW t, phrasefind(s, p, t) # 0
  PROVE  phrasefind(s, p, t) \in p .. Len(s) /\ At(s, phrasefind(s, p, t), t)
<1> DEFINE places == {q \in p .. Len(s) : At(s, q, t)}
<1>1. places # {} /\ phrasefind(s, p, t) = Min(places)
  BY DEF phrasefind
<1>2. \A q \in places : q \in Nat
  OBVIOUS
<1> HIDE DEF places
<1>3. \E q \in places : \A r \in places : q <= r
  BY <1>1, <1>2, Numbers!Least
<1>4. Min(places) \in places
  BY <1>3 DEF Min
<1> QED BY <1>1, <1>4 DEF places

\* The words stand in the question, but for the mark before them.
Part(w, q) == \E p \in 1 .. Len(q) + 1 : At(q, p, Unskipped(w))

(* What stands for a skipped mark is not a word.                           *)
LEMMA MarkSkipped ==
  ASSUME NEW S, NEW v \in Seq(S)
  PROVE  Unskipped(<<"">> \o v) = v
<1>1. PICK e : e = ""
  OBVIOUS
<1>2. PICK T : T = S \cup {e}
  OBVIOUS
<1>3. <<e>> \in Seq(T) /\ Len(<<e>>) = 1 /\ <<e>>[1] = e
  BY <1>2
<1>4. v \in Seq(T) /\ Len(v) \in Nat
  BY <1>2, SeqMonotonic, LenProperties
<1> DEFINE w == <<e>> \o v
<1>5. /\ w \in Seq(T) /\ Len(w) = 1 + Len(v)
      /\ \A j \in 1 .. 1 + Len(v) : w[j] = IF j <= 1 THEN <<e>>[j] ELSE v[j - 1]
  BY <1>3, <1>4, ConcatProperties
<1> HIDE DEF w
<1>6. w # <<>> /\ w[1] = e
  <2>1. 1 \in 1 .. 1 + Len(v)
    BY <1>4
  <2>2. w[1] = e
    BY <1>3, <1>5, <2>1
  <2>3. Len(w) # 0
    BY <1>4, <1>5
  <2> QED BY <2>2, <2>3, <1>5, EmptySeq
<1>7. /\ Tail(w) \in Seq(T) /\ Len(Tail(w)) = Len(v)
      /\ \A j \in 1 .. Len(v) : Tail(w)[j] = v[j]
  <2>1. /\ Tail(w) \in Seq(T) /\ Len(Tail(w)) = Len(w) - 1
        /\ \A j \in 1 .. Len(Tail(w)) : Tail(w)[j] = w[j + 1]
    BY <1>5, <1>6, HeadTailProperties
  <2>2. PICK n \in Nat : n = Len(v)
    BY <1>4
  <2>3. Len(Tail(w)) = n
    BY <1>5, <2>1, <2>2
  <2>4. \A j \in 1 .. n : j + 1 \in 1 .. 1 + n /\ ~ (j + 1 <= 1) /\ (j + 1) - 1 = j
    OBVIOUS
  <2>5. \A j \in 1 .. n : w[j + 1] = v[j]
    BY <1>5, <2>2, <2>4
  <2> QED BY <2>1, <2>2, <2>3, <2>5
<1>8. Tail(w) = v
  BY <1>4, <1>7, SeqEqual
<1>9. Head(w) = w[1]
  BY <1>5, <1>6
<1>10. Unskipped(w) = v
  BY <1>1, <1>6, <1>8, <1>9 DEF Unskipped
<1> QED BY <1>1, <1>10 DEF w

(* A stretch of a text, and the mark that AfterKey takes from its front.    *)
LEMMA StretchIsPart ==
  ASSUME NEW S, NEW q \in Seq(S), NEW a \in 1 .. Len(q) + 1, NEW b \in a - 1 .. Len(q)
  PROVE  Part(AfterKey(SubSeq(q, a, b)), q)
<1> DEFINE s == SubSeq(q, a, b)
<1>1. Len(q) \in Nat
  BY LenProperties
<1>2. /\ s \in Seq(S) /\ Len(s) = b - a + 1
      /\ \A j \in 1 .. b - a + 1 : s[j] = q[a + j - 1]
  <2>1. \A j \in a .. b : j \in 1 .. Len(q)
    BY <1>1
  <2> QED BY <1>1, <2>1, SubSeqProperties
<1>3. At(q, a, s)
  <2>1. a + Len(s) - 1 = b
    BY <1>1, <1>2
  <2> QED BY <1>1, <2>1 DEF At
<1>4. ASSUME s # <<>> PROVE a + 1 \in 1 .. Len(q) + 1 /\ At(q, a + 1, Tail(s))
  <2>1. a <= b
    BY <1>1, <1>2, <1>4, EmptySeq
  <2>2. a + 1 \in 1 .. Len(q) + 1
    BY <1>1, <2>1
  <2>3. /\ Tail(s) \in Seq(S) /\ Len(Tail(s)) = b - a
        /\ \A j \in 1 .. b - a : Tail(s)[j] = s[j + 1]
    BY <1>1, <1>2, <1>4, HeadTailProperties
  <2>4. \A j \in 1 .. b - a : Tail(s)[j] = q[a + 1 + j - 1]
    BY <1>1, <1>2, <2>3
  <2>5. (a + 1) + Len(Tail(s)) - 1 = b
    <3>1. PICK n : n = Len(Tail(s))
      OBVIOUS
    <3>2. (a + 1) + n - 1 = b
      BY <1>1, <2>3, <3>1
    <3> QED BY <3>1, <3>2, Zenon
  <2>6. SubSeq(q, a + 1, b) = Tail(s)
    <3>1. SubSeq(q, a + 1, b) \in Seq(S) /\ Len(SubSeq(q, a + 1, b)) = b - a
          /\ \A j \in 1 .. b - a : SubSeq(q, a + 1, b)[j] = q[a + 1 + j - 1]
      <4>1. \A j \in a + 1 .. b : j \in 1 .. Len(q)
        BY <1>1
      <4>2. a + 1 \in Nat /\ b \in Nat /\ b - (a + 1) + 1 = b - a
        BY <1>1
      <4> QED BY <1>1, <2>1, <4>1, <4>2, SubSeqProperties
    <3> QED BY <2>3, <2>4, <3>1, SeqEqual
  <2>7. ASSUME NEW t, (a + 1) + Len(t) - 1 = b, SubSeq(q, a + 1, b) = t
        PROVE  At(q, a + 1, t)
    BY <1>1, <2>7 DEF At
  <2>8. At(q, a + 1, Tail(s))
    <3> HIDE DEF s
    <3> QED BY <2>5, <2>6, <2>7
  <2> QED BY <2>2, <2>8
<1> HIDE DEF s
<1>5. CASE s = <<>>
  <2>1. AfterKey(s) = s /\ Unskipped(s) = s
    BY <1>5 DEF AfterKey, Unskipped
  <2> QED BY <1>3, <2>1 DEF Part, s
<1>6. CASE s # <<>> /\ IsWord(Head(s))
  <2>1. AfterKey(s) = s
    BY <1>6 DEF AfterKey
  <2>2. Unskipped(s) = s \/ Unskipped(s) = Tail(s)
    BY <1>6 DEF Unskipped
  <2> QED BY <1>3, <1>4, <1>6, <2>1, <2>2 DEF Part, s
<1>7. CASE s # <<>> /\ ~ IsWord(Head(s)) /\ Len(s) # 1
  <2>1. AfterKey(s) = <<"">> \o Tail(s)
    BY <1>7 DEF AfterKey
  <2>2. Tail(s) \in Seq(S)
    BY <1>2, <1>7, HeadTailProperties
  <2>3. Unskipped(<<"">> \o Tail(s)) = Tail(s)
    BY <2>2, MarkSkipped
  <2> QED BY <1>4, <1>7, <2>1, <2>3 DEF Part, s
<1>8. CASE s # <<>> /\ ~ IsWord(Head(s)) /\ Len(s) = 1
  <2>1. AfterKey(s) = <<>> /\ Unskipped(<<>>) = <<>>
    BY <1>8 DEF AfterKey, Unskipped
  <2>2. Tail(s) = <<>>
    <3>1. Tail(s) \in Seq(S) /\ Len(Tail(s)) = 0
      BY <1>2, <1>8, HeadTailProperties
    <3> QED BY <3>1, EmptySeq
  <2> QED BY <1>4, <1>8, <2>1, <2>2 DEF Part, s
<1> QED BY <1>5, <1>6, <1>7, <1>8


(* What a key with "%" finds in the question is part of it.                *)
LEMMA WildcardPart ==
  ASSUME IsText(question), NEW key \in Keys, key.kind = "%", Wildcard(key, <<>>).hit
  PROVE  Part(Wildcard(key, <<>>).words, question)
<1> DEFINE S == Range(question)
           n == Len(question)
           p1 == phrasefind(question, 1, key.text)
           from == p1 + Len(key.text)
           p2 == phrasefind(question, p1 + 1, key.right)
           rest == SubSeq(question, from, Len(question))
           part == AfterKey(IF p2 > from THEN SubSeq(question, from, p2 - 1) ELSE rest)
           all == AfterKey(rest)
<1>1. question \in Seq(S) /\ n \in Nat
  BY LenProperties DEF IsText
<1>2. key.text \in Seq(STRING) /\ key.right \in Seq(STRING)
  BY DEF Keys
<1>3. Wildcard(key, <<>>) =
        IF p1 = 0 THEN Miss(<<>>)
        ELSE IF key.right = <<>> THEN IF rest = <<>> THEN Miss(<<>>) ELSE Hit(all)
        ELSE IF p2 = 0 \/ EndsWithMark(question) THEN Miss(<<>>) ELSE Hit(part)
  BY DEF Wildcard
<1>4. ~ Miss(<<>>).hit /\ Hit(all).words = all /\ Hit(part).words = part
  BY DEF Miss, Hit
<1>5. p1 # 0 => p1 \in 1 .. n /\ from \in 1 .. n + 1
  <2> SUFFICES ASSUME p1 # 0 PROVE p1 \in 1 .. n /\ from \in 1 .. n + 1
    OBVIOUS
  <2>1. p1 \in 1 .. n /\ At(question, p1, key.text)
    BY <1>1, PhraseFound
  <2>2. PICK m \in Nat : m = Len(key.text)
    BY <1>2, LenProperties
  <2>3. p1 + m - 1 <= n
    BY <2>1, <2>2 DEF At
  <2> QED BY <1>1, <2>1, <2>2, <2>3
<1>6. p1 # 0 /\ p2 # 0 => p2 \in 1 .. n
  <2> SUFFICES ASSUME p1 # 0, p2 # 0 PROVE p2 \in 1 .. n
    OBVIOUS
  <2>1. p1 \in 1 .. n
    BY <1>5
  <2>2. PICK p \in Nat \ {0} : p = p1 + 1
    BY <1>1, <2>1
  <2>3. p2 \in p .. n
    BY <1>1, <2>2, PhraseFound
  <2> QED BY <1>1, <2>2, <2>3
<1> HIDE DEF S, p1, p2, from
<1>7. p1 # 0 => Part(all, question)
  <2> SUFFICES ASSUME p1 # 0 PROVE Part(all, question)
    OBVIOUS
  <2>1. from \in 1 .. n + 1 /\ n \in from - 1 .. n
    BY <1>1, <1>5
  <2> QED BY <1>1, <2>1, StretchIsPart
<1>8. p1 # 0 /\ p2 # 0 => Part(part, question)
  <2> SUFFICES ASSUME p1 # 0, p2 # 0 PROVE Part(part, question)
    OBVIOUS
  <2>1. CASE p2 > from
    <3>1. from \in 1 .. n + 1 /\ p2 - 1 \in from - 1 .. n
      BY <1>1, <1>5, <1>6, <2>1
    <3>2. Part(AfterKey(SubSeq(question, from, p2 - 1)), question)
      BY <1>1, <3>1, StretchIsPart
    <3> QED BY <2>1, <3>2
  <2>2. CASE ~ (p2 > from)
    BY <1>7, <2>2
  <2> QED BY <2>1, <2>2
<1> HIDE DEF part, all, rest
<1> QED BY <1>3, <1>4, <1>7, <1>8

(* The words that a search leaves are part of the question, as those were   *)
(* that it began with.                                                     *)
LEMMA SearchPart ==
  ASSUME IsText(question), Part(words, question), NEW t \in Templates
  PROVE  Part(Search(Templ[t].keys).words, question)
<1> DEFINE keys == Templ[t].keys
           n == Len(keys)
<1>1. keys \in Seq(Keys) /\ n \in Nat
  BY DictAssumption, LenProperties
<1>2. PICK after : IsSearch(after, keys)
  BY <1>1, Searches
<1>3. \A k \in 1 .. n : keys[k] \in Keys
  BY <1>1, ElementOfSeq
<1> HIDE DEF keys
<1> DEFINE Holds(k) == IsState(after[k]) /\ Part(after[k].words, question)
           K == {k \in Nat : k <= n => Holds(k)}
<1>4. 0 \in K
  <2>1. after[0] = Fresh
    BY <1>2 DEF IsSearch
  <2>2. IsState(Fresh) /\ Fresh.words = words
    BY DEF Fresh, IsState
  <2>3. Holds(0)
    BY <2>1, <2>2
  <2> QED BY <2>3
<1>5. ASSUME NEW k \in K PROVE k + 1 \in K
  <2> SUFFICES ASSUME k + 1 <= n PROVE Holds(k + 1)
    OBVIOUS
  <2>1. k \in Nat /\ k + 1 \in 1 .. n /\ Holds(k) /\ (k + 1) - 1 = k
    BY <1>1
  <2> DEFINE key == keys[k + 1]
             a == after[k]
             b == after[k + 1]
  <2>2. b = TryKey(a, key) /\ key \in Keys
    BY <1>2, <1>3, <2>1 DEF IsSearch
  <2>3. IsState(a) /\ Part(a.words, question)
    BY <2>1
  <2> HIDE DEF key, a, b
  <2>4. KeyStep(a, key, b)
    BY <2>2, <2>3, KeyTried, Zenon
  <2>5. IsState(b)
    BY <2>4 DEF KeyStep
  <2>6. Part(b.words, question)
    <3>1. CASE b.words = a.words
      BY <2>3, <3>1
    <3>2. CASE b.words # a.words
      <4>1. /\ key.kind = "%" /\ Wildcard(key, <<>>).hit
            /\ b.words = Wildcard(key, <<>>).words
        BY <2>4, <3>2 DEF KeyStep
      <4> QED BY <2>2, <4>1, WildcardPart
    <3> QED BY <3>1, <3>2
  <2> QED BY <2>5, <2>6 DEF b
<1>6. Holds(n)
  <2> HIDE DEF Holds
  <2>1. K \in SUBSET Nat
    OBVIOUS
  <2> HIDE DEF K
  <2>2. K = Nat
    BY <1>4, <1>5, <2>1, Numbers!SetInduction
  <2>3. n \in K
    BY <1>1, <2>2
  <2> QED BY <1>1, <2>3 DEF K
<1>7. Search(keys) = after[n]
  BY <1>2 DEF IsSearch
<1> QED BY <1>6, <1>7 DEF keys

-----------------------------------------------------------------------------
\* The words kept so far are part of the question that is asked.
WordsAsked ==
  /\ stage = "match" => /\ Part(words, question)
                        /\ best.winner # 0 => Part(winwords, question)
  /\ stage = "use" /\ best.winner # 0 => Part(words, question)

IsTemplate(r) ==
  r = [tnext |-> r.tnext, fired |-> r.fired, last_question |-> r.last_question,
       last_words |-> r.last_words]

Remembers(r) == Part(r.last_words, r.last_question)

(* What is kept of the question goes into the memory of the winner.        *)
MemInv ==
  /\ IsText(question)
  /\ WordsAsked
  /\ templ = [t \in Templates |-> templ[t]]
  /\ \A t \in Templates : IsTemplate(templ[t])
  /\ \A t \in 1 .. maxtempl - 1 : t \notin spoiled => Remembers(templ[t])

(* No words are part of any question.                                       *)
LEMMA NoWordsPart == ASSUME NEW q, Len(q) \in Nat PROVE Part(<<>>, q)
<1>1. Unskipped(<<>>) = <<>>
  BY DEF Unskipped
<1>2. SubSeq(q, 1, 0) = <<>>
  BY SubSeqEmpty
<1>3. Len(<<>>) = 0 /\ 1 \in 1 .. Len(q) + 1
  OBVIOUS
<1>4. At(q, 1, <<>>)
  BY <1>2, <1>3 DEF At
<1> QED BY <1>1, <1>3, <1>4 DEF Part

(* At the start nothing is remembered.                                      *)
LEMMA InitMemory == ASSUME Init PROVE MemInv
<1>1. question = <<>> /\ stage = "prompt"
  BY DEF Init
<1>2. PICK start : templ = [t \in Templates |->
            [tnext |-> start[t], fired |-> FALSE, last_question |-> <<"yes", "?">>,
             last_words |-> <<>>]]
  BY DEF Init
<1>3. IsText(question)
  BY <1>1 DEF IsText
<1>4. WordsAsked
  BY <1>1 DEF WordsAsked
<1>5. templ = [t \in Templates |-> templ[t]] /\ \A t \in Templates : IsTemplate(templ[t])
  BY <1>2 DEF IsTemplate
<1>6. \A t \in 1 .. maxtempl - 1 : Remembers(templ[t])
  <2> TAKE t \in 1 .. maxtempl - 1
  <2>1. t \in Templates
    BY DictAssumption DEF Templates
  <2>2. templ[t].last_words = <<>> /\ templ[t].last_question = <<"yes", "?">>
    BY <1>2, <2>1
  <2>3. Len(<<"yes", "?">>) \in Nat
    OBVIOUS
  <2> QED BY <2>2, <2>3, NoWordsPart DEF Remembers
<1> QED BY <1>3, <1>4, <1>5, <1>6 DEF MemInv

\* What the actions that ask a question leave to the templates.
MemoryUntouched == UNCHANGED <<templ, spoiled>>

(* A question that is a text is asked without any words.                   *)
LEMMA AskMemory ==
  ASSUME MemInv, MemoryUntouched, NEW q, Ask(q), IsText(q)
  PROVE  MemInv'
<1>1. stage' = "match" /\ question' = q /\ best' = Nothing /\ words' = <<>>
  BY DEF Ask
<1>2. Len(q) \in Nat
  BY LenProperties DEF IsText
<1>3. WordsAsked'
  BY <1>1, <1>2, NoWordsPart DEF WordsAsked, Nothing
<1>4. IsText(question)'
  BY <1>1 DEF IsText
<1> QED BY <1>3, <1>4 DEF MemInv, MemoryUntouched

(* Stages without words of the question.                                   *)
LEMMA OtherMemory ==
  ASSUME MemInv, MemoryUntouched, question' = question, stage' \notin {"match", "use"}
  PROVE  MemInv'
<1>1. WordsAsked'
  BY DEF WordsAsked
<1>2. IsText(question)'
  BY DEF MemInv, IsText
<1> QED BY <1>1, <1>2 DEF MemInv, MemoryUntouched

(* What a remark asks is a text.                                            *)
LEMMA MetaText == ASSUME NEW remark PROVE IsText(Meta(remark))
<1>1. PICK a, b : a = "splotch" /\ b = ":"
  OBVIOUS
<1>2. <<a, b, remark>> \in Seq({a, b, remark})
  OBVIOUS
<1> QED BY <1>1, <1>2, TextIsText DEF Meta

(* A line typed is asked under the name, or as a remark on its language.    *)
LEMMA TypeMemory == ASSUME MemInv, NEW l \in Lines, Type(l) PROVE MemInv'
<1>1. MemoryUntouched
  BY DEF Type, MemoryUntouched
<1>2. CASE stage' = "asked" /\ question' = question
  BY <1>1, <1>2, OtherMemory
<1>3. CASE Ask(<<"meta_foreign_language">>)
  <2>1. PICK a : a = "meta_foreign_language"
    OBVIOUS
  <2>2. <<a>> \in Seq({a})
    OBVIOUS
  <2> QED BY <1>1, <1>3, <2>1, <2>2, TextIsText, AskMemory
<1>4. CASE Ask(normalized_synonyms(<<NAME, ":">> \o l.text, SynDict))
  <2>1. l.text \in Seq(STRING) /\ NAME \in STRING
    BY TextAssumption
  <2>2. l.text \in Seq(Word)
    BY <2>1, SeqMonotonic DEF Word
  <2>3. PICK a, b : a = NAME /\ b = ":" /\ a \in Word /\ b \in Word
    BY <2>1 DEF Word
  <2>4. <<a, b>> \in Seq(Word)
    BY <2>3
  <2>5. <<NAME, ":">> \o l.text \in Seq(Word)
    BY <2>2, <2>3, <2>4, ConcatProperties
  <2>6. IsText(normalized_synonyms(<<NAME, ":">> \o l.text, SynDict))
    BY <2>5, Normalized, TextIsText
  <2> QED BY <1>1, <1>4, <2>6, AskMemory
<1> QED BY <1>2, <1>3, <1>4 DEF Type

(* The words of the best template so far are part of the question.         *)
LEMMA TryMemory ==
  ASSUME MemInv, i \in Templates, stage = "match", TryTemplate
  PROVE  MemInv'
<1> DEFINE r == Search(Templ[i].keys)
           better == r.found /\ Templ[i].priority > best.score
           stop == i = maxtempl \/ (r.found /\ Templ[i].priority = MAXPRIOR_TOPIC)
<1>1. /\ best' = IF better THEN [winner |-> i, score |-> Templ[i].priority] ELSE best
      /\ \/ better /\ winwords' = r.words
         \/ ~ better /\ winwords' = winwords
         \/ stop /\ best'.winner = 0 /\ winwords' = <<>>
      /\ words' = IF stop THEN winwords' ELSE r.words
      /\ stage' = IF stop THEN "use" ELSE "match"
      /\ question' = question /\ MemoryUntouched
  BY DEF TryTemplate, MemoryUntouched
<1>2. /\ IsText(question) /\ Part(words, question)
      /\ best.winner # 0 => Part(winwords, question)
  BY DEF MemInv, WordsAsked
<1>3. Part(r.words, question)
  BY <1>2, SearchPart
<1> HIDE DEF r
<1>4. best'.winner # 0 => Part(winwords', question)
  BY <1>1, <1>2, <1>3
<1>5. WordsAsked'
  BY <1>1, <1>3, <1>4 DEF WordsAsked
<1>6. IsText(question)'
  BY <1>1, <1>2 DEF IsText
<1> QED BY <1>1, <1>5, <1>6 DEF MemInv, MemoryUntouched

(* One template changes, and remembers its question or is spoiled.         *)
LEMMA OneMemory ==
  ASSUME MemInv, question' = question, stage' \notin {"match", "use"},
         NEW t, NEW r, templ' = [templ EXCEPT ![t] = r],
         t \in Templates => IsTemplate(r),
         \A u : u # t => (u \in spoiled' <=> u \in spoiled),
         t \in 1 .. maxtempl - 1 /\ t \notin spoiled' => Remembers(r)
  PROVE  MemInv'
<1>1. WordsAsked'
  BY DEF WordsAsked
<1>2. IsText(question)'
  BY DEF MemInv, IsText
<1>3. templ = [u \in Templates |-> templ[u]]
  BY DEF MemInv
<1>4. templ' = [u \in Templates |-> IF u = t THEN r ELSE templ[u]]
  BY <1>3
<1>5. \A u \in Templates : templ'[u] = IF u = t THEN r ELSE templ[u]
  BY <1>4
<1>6. templ' = [u \in Templates |-> templ'[u]]
  BY <1>4
<1>7. \A u \in Templates : IsTemplate(templ'[u])
  BY <1>5 DEF MemInv
<1>8. \A u \in 1 .. maxtempl - 1 : u \in Templates
  BY DictAssumption DEF Templates
<1>9. \A u \in 1 .. maxtempl - 1 : u \notin spoiled' => Remembers(templ'[u])
  BY <1>5, <1>8 DEF MemInv
<1> QED BY <1>1, <1>2, <1>6, <1>7, <1>9 DEF MemInv

(* What a template that is used becomes, with the question and the words    *)
(* that it is to remember.                                                 *)
Template(n, q, w) ==
  [tnext |-> n, fired |-> TRUE, last_question |-> q, last_words |-> w]

(* Such a template, taken apart again.                                      *)
LEMMA TemplateFields ==
  ASSUME NEW n, NEW q, NEW w
  PROVE  /\ IsTemplate(Template(n, q, w))
         /\ Template(n, q, w).last_question = q
         /\ Template(n, q, w).last_words = w
<1>1. PICK x : x = TRUE
  OBVIOUS
<1>2. PICK r : r = [tnext |-> n, fired |-> x, last_question |-> q, last_words |-> w]
  OBVIOUS
<1>3. r = [tnext |-> r.tnext, fired |-> r.fired, last_question |-> r.last_question,
           last_words |-> r.last_words]
  BY <1>2
<1>4. IsTemplate(r) /\ r.last_question = q /\ r.last_words = w
  BY <1>2, <1>3 DEF IsTemplate
<1>5. r = Template(n, q, w)
  BY <1>1, <1>2, Zenon DEF Template
<1> QED BY <1>4, <1>5, Zenon

(* A use keeps the question and the words remembered.                       *)
LEMMA UsedTemplate ==
  ASSUME NEW t, IsTemplate(templ[t])
  PROVE  Used(t) = Template(Alternative(t) + 1, templ[t].last_question,
                            templ[t].last_words)
<1>1. PICK r, n, x : r = templ[t] /\ n = Alternative(t) + 1 /\ x = TRUE
  OBVIOUS
<1>2. PICK a, b, c, d : r = [tnext |-> a, fired |-> b, last_question |-> c, last_words |-> d]
  BY <1>1 DEF IsTemplate
<1>3. PICK s : s = [r EXCEPT !.tnext = n]
  OBVIOUS
<1>4. s = [tnext |-> n, fired |-> b, last_question |-> c, last_words |-> d]
  BY <1>2, <1>3
<1>5. [s EXCEPT !.fired = x] = [tnext |-> n, fired |-> x, last_question |-> c, last_words |-> d]
  BY <1>4
<1>6. Used(t) = [s EXCEPT !.fired = x]
  BY <1>1, <1>3, Zenon DEF Used
<1>7. r.last_question = c /\ r.last_words = d
  BY <1>2
<1>8. Used(t) = [tnext |-> n, fired |-> x, last_question |-> r.last_question,
                 last_words |-> r.last_words]
  BY <1>5, <1>6, <1>7, Zenon
<1> QED BY <1>1, <1>8, Zenon DEF Template

(* A template that was used, with the words or the question as well        *)
(* replaced.                                                               *)
Remember(u, q, w) == [u EXCEPT !.last_question = q, !.last_words = w]

(* ... or replaces the words, or both.                                      *)
LEMMA TemplateRemembers ==
  ASSUME NEW t, IsTemplate(templ[t]), NEW q, NEW w
  PROVE  /\ [Used(t) EXCEPT !.last_words = w] =
              Template(Alternative(t) + 1, templ[t].last_question, w)
         /\ Remember(Used(t), q, w) = Template(Alternative(t) + 1, q, w)
<1>1. PICK a, b, c, d : a = Alternative(t) + 1 /\ b = TRUE /\ c = templ[t].last_question
                         /\ d = templ[t].last_words
  OBVIOUS
<1>2. PICK u : u = Used(t)
  OBVIOUS
<1>3. u = [tnext |-> a, fired |-> b, last_question |-> c, last_words |-> d]
  BY <1>1, <1>2, UsedTemplate, Zenon DEF Template
<1>4. [u EXCEPT !.last_words = w] =
        [tnext |-> a, fired |-> b, last_question |-> c, last_words |-> w]
  BY <1>3
<1>5. PICK s : s = [u EXCEPT !.last_question = q]
  OBVIOUS
<1>6. s = [tnext |-> a, fired |-> b, last_question |-> q, last_words |-> d]
  BY <1>3, <1>5
<1>7. [s EXCEPT !.last_words = w] =
        [tnext |-> a, fired |-> b, last_question |-> q, last_words |-> w]
  BY <1>6
<1>8. Remember(u, q, w) = [s EXCEPT !.last_words = w]
  BY <1>5, Zenon DEF Remember
<1>9. Remember(u, q, w) =
        [tnext |-> a, fired |-> b, last_question |-> q, last_words |-> w]
  BY <1>7, <1>8, Zenon
<1> QED BY <1>1, <1>2, <1>4, <1>9, Zenon DEF Template

(* A template used for the question remembers it with its own words; one    *)
(* that gave nothing remembers what it did.                                *)
LEMMA UseMemory ==
  ASSUME MemInv, question' = question, stage' \notin {"match", "use"},
         NEW t, UseForQuestion(t),
         t \in 1 .. maxtempl - 1 => Part(words, question)
  PROVE  MemInv'
<1>1. PICK you \in {"me", "i"} :
        \/ /\ templ' = [templ EXCEPT ![t] =
                [Used(t) EXCEPT !.last_question = question, !.last_words = Inwords(words, you)]]
           /\ spoiled' = spoiled \ {t}
        \/ /\ templ' = [templ EXCEPT ![t] = Used(t)]
           /\ spoiled' = spoiled
  BY DEF UseForQuestion
<1> DEFINE n == Alternative(t) + 1
           after == Template(n, question, words)
           asBefore == Template(n, templ[t].last_question, templ[t].last_words)
<1>2. t \in 1 .. maxtempl - 1 => t \in Templates
  BY DictAssumption DEF Templates
<1>3. t \in Templates =>
        /\ Used(t) = asBefore
        /\ [Used(t) EXCEPT !.last_question = question, !.last_words = words] = after
  <2> SUFFICES ASSUME t \in Templates
               PROVE  /\ Used(t) = asBefore
                      /\ [Used(t) EXCEPT !.last_question = question,
                                         !.last_words = words] = after
    OBVIOUS
  <2>1. IsTemplate(templ[t])
    BY DEF MemInv
  <2>2. Used(t) = asBefore
    BY <2>1, UsedTemplate, Zenon
  <2>3. [Used(t) EXCEPT !.last_question = question, !.last_words = words] = after
    <3>1. Remember(Used(t), question, words) = after
      BY <2>1, TemplateRemembers
    <3> QED BY <3>1, Zenon DEF Remember
  <2> QED BY <2>2, <2>3
<1>4. CASE /\ templ' = [templ EXCEPT ![t] =
                [Used(t) EXCEPT !.last_question = question, !.last_words = Inwords(words, you)]]
           /\ spoiled' = spoiled \ {t}
  <2>1. PICK r : r = [Used(t) EXCEPT !.last_question = question, !.last_words = words]
    OBVIOUS
  <2>2. t \in Templates => r = after
    BY <1>3, <2>1
  <2>3. t \in Templates => IsTemplate(r)
    BY <2>2, TemplateFields
  <2>4. t \in 1 .. maxtempl - 1 => Remembers(r)
    BY <1>2, <2>2, TemplateFields DEF Remembers
  <2>5. templ' = [templ EXCEPT ![t] = r]
    BY <1>4, <2>1, Zenon DEF Inwords
  <2> QED BY <1>4, <2>3, <2>4, <2>5, OneMemory
<1>5. CASE templ' = [templ EXCEPT ![t] = Used(t)] /\ spoiled' = spoiled
  <2>1. t \in Templates => IsTemplate(Used(t))
    BY <1>3, TemplateFields
  <2>2. t \in 1 .. maxtempl - 1 /\ t \notin spoiled' => Remembers(Used(t))
    <3> SUFFICES ASSUME t \in 1 .. maxtempl - 1, t \notin spoiled PROVE Remembers(Used(t))
      BY <1>5
    <3>1. Used(t) = asBefore /\ Remembers(templ[t])
      BY <1>2, <1>3 DEF MemInv
    <3> QED BY <3>1, TemplateFields DEF Remembers
  <2> QED BY <1>5, <2>1, <2>2, OneMemory
<1> QED BY <1>1, <1>4, <1>5

(* A topic recalled keeps its words, or is spoiled.                        *)
LEMMA RecallMemory ==
  ASSUME MemInv, question' = question, stage' \notin {"match", "use"},
         NEW t, Recall(t)
  PROVE  MemInv'
<1> DEFINE own == templ[t].last_words
           r(w) == [Used(t) EXCEPT !.last_words = w]
<1>1. PICK you \in {"me", "i"} :
        \/ templ' = [templ EXCEPT ![t] = r(Inwords(own, you))] /\ spoiled' = spoiled
        \/ templ' = [templ EXCEPT ![t] = r(Buffer(own, you))] /\ spoiled' = spoiled \cup {t}
  BY DEF Recall
<1>2. t \in 1 .. maxtempl - 1 => t \in Templates
  BY DictAssumption DEF Templates
<1>3. \A w : t \in Templates =>
        r(w) = Template(Alternative(t) + 1, templ[t].last_question, w)
  BY TemplateRemembers DEF MemInv
<1> HIDE DEF r
<1>4. \A w : t \in Templates => IsTemplate(r(w))
  BY <1>3, TemplateFields
<1>5. CASE templ' = [templ EXCEPT ![t] = r(Inwords(own, you))] /\ spoiled' = spoiled
  <2>1. t \in 1 .. maxtempl - 1 /\ t \notin spoiled' => Remembers(r(own))
    <3> SUFFICES ASSUME t \in 1 .. maxtempl - 1, t \notin spoiled PROVE Remembers(r(own))
      BY <1>5
    <3>1. /\ Remembers(templ[t])
          /\ r(own) = Template(Alternative(t) + 1, templ[t].last_question, own)
      BY <1>2, <1>3 DEF MemInv
    <3> QED BY <3>1, TemplateFields DEF Remembers
  <2>2. templ' = [templ EXCEPT ![t] = r(own)]
    BY <1>5 DEF Inwords
  <2> QED BY <1>4, <1>5, <2>1, <2>2, OneMemory
<1>6. CASE templ' = [templ EXCEPT ![t] = r(Buffer(own, you))] /\ spoiled' = spoiled \cup {t}
  <2>1. PICK w : w = Buffer(own, you)
    OBVIOUS
  <2>2. templ' = [templ EXCEPT ![t] = r(w)]
    BY <1>6, <2>1
  <2> QED BY <1>4, <1>6, <2>2, OneMemory
<1> QED BY <1>1, <1>5, <1>6

(* Each step keeps words of the human in the memory.                        *)
LEMMA StepMemory == ASSUME MatchInv, MemInv, [Next]_vars PROVE MemInv'
<1>1. ASSUME NEW l \in Lines, Type(l) PROVE MemInv'
  BY <1>1, TypeMemory
<1>2. CASE TryTemplate
  <2>1. stage = "match" /\ i \in Templates
    BY <1>2 DEF TryTemplate, MatchInv, Tried
  <2> QED BY <1>2, <2>1, TryMemory
<1>3. CASE UseWinner
  <2>1. /\ question' = question /\ stage' = "react" /\ UseForQuestion(best.winner)
        /\ Part(words, question)
    BY <1>3 DEF UseWinner, MemInv, WordsAsked
  <2> QED BY <2>1, UseMemory
<1>4. CASE UseNeutral
  <2>1. question' = question /\ stage' = "react"
    BY <1>4 DEF UseNeutral
  <2>2. CASE UseForQuestion(maxtempl)
    <3>1. maxtempl \notin 1 .. maxtempl - 1
      BY DictAssumption
    <3> QED BY <2>1, <2>2, <3>1, UseMemory
  <2>3. ASSUME NEW j \in 1 .. HISTORY, Recall(topics[j]) PROVE MemInv'
    BY <2>1, <2>3, RecallMemory
  <2> QED BY <1>4, <2>2, <2>3 DEF UseNeutral
<1>5. CASE pick_templ_winner
  <2>1. question' = question /\ stage' = "react"
    BY <1>5 DEF pick_templ_winner
  <2>2. PICK t : Recall(t)
    BY <1>5 DEF pick_templ_winner
  <2> QED BY <2>1, <2>2, RecallMemory
<1>6. CASE Exit \/ Asked \/ NoRemarks
  BY <1>6, OtherMemory DEF Exit, Asked, NoRemarks, MemoryUntouched
<1>7. CASE Elsewhere
  BY <1>7, AskMemory, MetaText DEF Elsewhere, MemoryUntouched
<1>8. ASSUME MemoryUntouched, NEW remarks, Continue(remarks) PROVE MemInv'
  <2>1. CASE stage' = "prompt" /\ question' = question
    BY <1>8, <2>1, OtherMemory
  <2>2. CASE Ask(Meta(Head(remarks)))
    BY <1>8, <2>2, AskMemory, MetaText
  <2> QED BY <1>8, <2>1, <2>2 DEF Continue
<1>9. CASE FirstRemark \/ NextRemark
  BY <1>8, <1>9 DEF FirstRemark, NextRemark, MemoryUntouched
<1>10. CASE UNCHANGED vars
  BY <1>10 DEF vars, MemInv, WordsAsked, IsText
<1> QED BY <1>1, <1>2, <1>3, <1>4, <1>5, <1>6, <1>7, <1>9, <1>10 DEF Next

(* For any dictionary: what a topic remembers are the words of the question *)
(* it remembers, unless it was recalled with a file that gave nothing.     *)
THEOREM OwnWordsRemembered == Spec => []MemoryKept
<1>1. Init => MatchInv /\ MemInv
  BY InitMemory DEF Init, MatchInv, NoBetterTemplate
<1>2. MatchInv /\ MemInv /\ [Next]_vars => (MatchInv /\ MemInv)'
  BY StepMatch, StepMemory
<1>3. MemInv => MemoryKept
  BY DEF MemInv, MemoryKept, Remembers, Part
<1> QED BY <1>1, <1>2, <1>3, PTL DEF Spec
=============================================================================
