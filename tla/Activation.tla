----------------------------- MODULE Activation -----------------------------
(***************************************************************************)
(* How a reply is chosen from a file of responses (splotch.c): every       *)
(* response has an activity, kept on disk next to the file; a draw favours *)
(* high activities, inhibits what it drew and lets all others recover.     *)
(* A second program, splotch-relax, lifts the activities on disk while the *)
(* bot runs.  Activities are integers in hundredths, as "%5.2f" writes     *)
(* them.                                                                   *)
(***************************************************************************)
EXTENDS Integers, Sequences, FiniteSets, SequencesExt

CONSTANTS
  Responses,     \* lines the file has at the start, 1 .. Responses
  MaxResponses,  \* bound on the lines
  ALPHA,         \* recovery in tenths (4 for words, 2 for phrases)
  INHIBIT,       \* a response just drawn has activity -INHIBIT (200, 400)
  ACT_INITIAL,   \* activity of a response not on disk yet (50)
  INHIBITED,     \* activities of a response in the draws after it was drawn,
                 \* as long as they keep it from being drawn again
  MaxRelax       \* bound on the runs of splotch-relax

ASSUME FileAssumption ==
  /\ MaxResponses \in Nat /\ Responses \in 1 .. MaxResponses
  /\ INHIBIT \in Int /\ ACT_INITIAL \in Int
\* With an odd number of tenths a recovery may fall between two hundredths.
ASSUME AlphaAssumption == ALPHA \in {2, 4, 6, 8}

VARIABLES
  nentries,  \* lines of the file of responses
  activity,  \* the activities on disk; <<>> when there is no such file
  recent,    \* history: the last draws, 0 where nothing was drawn
  relaxing,  \* what a run of splotch-relax has read and not yet written
  relaxed    \* how often it was started

\* The draws within which a response drawn once is not drawn again.
WINDOW == Len(INHIBITED) + 1

draw_vars == <<nentries, activity, recent, relaxing, relaxed>>

NotRelaxing == <<>>

DrawInit ==
  /\ nentries = Responses
  /\ activity = <<>>
  /\ recent = [i \in 1 .. WINDOW |-> 0]
  /\ relaxing = NotRelaxing /\ relaxed = 0
-----------------------------------------------------------------------------
(* read_activities: what is on disk counts only if the file of responses    *)
(* has as many lines as when it was written.                                *)
read_activities ==
  IF Len(activity) = nentries THEN activity ELSE [i \in 1 .. nentries |-> ACT_INITIAL]

Positive(a) == {i \in DOMAIN a : a[i] > 0}
Total(a, S) == MapThenSumSet(LAMBDA i : a[i], S)
Lowest(a, S) == Min({a[i] : i \in S})

(* The norm of pick_winner: it adds the first entries of the unsorted       *)
(* vector, as many as are positive.                                         *)
Norm(a) == Total(a, 1 .. Cardinality(Positive(a)))

(* pick_winner with 0 < pcrit draws the entry after the one whose partial   *)
(* sum reaches pcrit: r is drawn if some B comes before it in the sorted    *)
(* order and the sum of B without its last entry can stay below pcrit.      *)
Winner(a, r) ==
  \E B \in SUBSET (Positive(a) \ {r}) \ {{}} :
    /\ \A b \in B : a[b] >= a[r]
    /\ \A c \in Positive(a) \ (B \cup {r}) : a[c] <= a[r]
    /\ \/ Norm(a) > 0 /\ Total(a, B) - Lowest(a, B) < Norm(a)
       \/ Norm(a) = 0 /\ Cardinality(B) = 1

(* With pcrit = 0, one draw in 2^48, it takes the first entry.              *)
First(a, r) == r \in Positive(a) /\ \A c \in Positive(a) : a[c] <= a[r]

(* All five tries find no partial sum that reaches pcrit in time.           *)
NoWinner(a) ==
  LET used == Positive(a)
  IN  \/ Cardinality(used) <= 1
      \/ Norm(a) < 0
      \/ Norm(a) > 0 /\ Total(a, used) - Lowest(a, used) < Norm(a)

\* A recovery towards 1, written with two decimals.  (Mutant: towards 0.)
RecoveredTo0(v, tenths) == ((10 - tenths) * v + 5) \div 10
Recovered(v, tenths) == (100 * tenths + (10 - tenths) * v + 5) \div 10

\* An inhibited response recovers step by step and is out of reach so long.
ASSUME InhibitionAssumption ==
  /\ INHIBITED \in Seq(Int)
  /\ \A k \in DOMAIN INHIBITED :
       /\ INHIBITED[k] <= 0
       /\ INHIBITED[k] = IF k = 1 THEN -INHIBIT ELSE Recovered(INHIBITED[k - 1], ALPHA)

\* (Mutants: the response just drawn recovers at once; the others fall to 0.)
UpdatedAll(a, picked) ==
  [i \in DOMAIN a |-> Recovered(IF i = picked THEN -INHIBIT ELSE a[i], ALPHA)]
UpdatedTo0(a, picked) ==
  [i \in DOMAIN a |-> IF i = picked THEN -INHIBIT ELSE RecoveredTo0(a[i], ALPHA)]
Updated(a, picked) ==
  [i \in DOMAIN a |-> IF i = picked THEN -INHIBIT ELSE Recovered(a[i], ALPHA)]

(* update_activities, after a draw of response picked, or of none.          *)
update_activities(picked) ==
  /\ activity' = Updated(read_activities, picked)
  /\ recent' = Append(Tail(recent), picked)
  /\ UNCHANGED <<nentries, relaxing, relaxed>>
-----------------------------------------------------------------------------
(* get_random_entry_words, with each outcome of pick_winner.                *)
Draw(r) ==
  /\ r <= nentries /\ read_activities[r] > 0
  /\ Winner(read_activities, r)
  /\ update_activities(r)

DrawFirst ==
  \E r \in 1 .. nentries : First(read_activities, r) /\ update_activities(r)

DrawNothing == NoWinner(read_activities) /\ update_activities(0)

get_random_entry_words ==
  (\E r \in 1 .. MaxResponses : Draw(r)) \/ DrawFirst \/ DrawNothing

(* A line is appended to the file of responses, as store_question does to   *)
(* those of the humans' own words; what is on disk is void then.            *)
store_question ==
  /\ nentries < MaxResponses
  /\ nentries' = nentries + 1
  /\ recent' = [i \in 1 .. WINDOW |-> 0]
  /\ UNCHANGED <<activity, relaxing, relaxed>>

(* splotch-relax reads all activities, and writes them some time later.     *)
RelaxRead ==
  /\ relaxing = NotRelaxing /\ activity # <<>> /\ relaxed < MaxRelax
  /\ relaxing' = activity
  /\ relaxed' = relaxed + 1
  /\ UNCHANGED <<nentries, activity, recent>>

RelaxWrite ==
  /\ relaxing # NotRelaxing
  /\ activity' = [i \in DOMAIN relaxing |-> Recovered(relaxing[i], ALPHA)]
  /\ relaxing' = NotRelaxing
  /\ UNCHANGED <<nentries, recent, relaxed>>

DrawNext == get_random_entry_words \/ store_question \/ RelaxRead \/ RelaxWrite

DrawSpec == DrawInit /\ [][DrawNext]_draw_vars

(* The bot keeps drawing, and pcrit is random: a response that can be drawn *)
(* time and again is drawn time and again.                                  *)
FairSpec ==
  /\ DrawSpec
  /\ WF_draw_vars(get_random_entry_words)
  /\ \A r \in 1 .. MaxResponses : SF_draw_vars(Draw(r))
-----------------------------------------------------------------------------
Activities == -INHIBIT .. 100

(* The types of the variables, and the range of the activities.             *)
ActivitiesOK ==
  /\ nentries \in 1 .. MaxResponses
  /\ Len(activity) <= nentries /\ Range(activity) \subseteq Activities
  /\ recent \in [1 .. WINDOW -> 0 .. nentries]
  /\ Len(relaxing) <= nentries /\ Range(relaxing) \subseteq Activities
  /\ relaxed \in 0 .. MaxRelax

(* splotch.c:151: the inhibition of a response just drawn keeps it from     *)
(* coming up again for WINDOW - 1 draws, while the file of responses is not *)
(* edited and splotch-relax, which may undo an inhibition, has not run.     *)
NoQuickRepeat ==
  relaxed = 0 => \A i, j \in 1 .. WINDOW : recent[i] = recent[j] /\ recent[i] # 0 => i = j

(* The bot does not fall silent: inhibited responses recover, and neither   *)
(* the norm of the unsorted vector nor the failed tries can block a file of *)
(* two responses or more for good.                                          *)
SpeaksAgain == []<>(recent[WINDOW] # 0)

(* splotch.c:503: the activities are a probability distribution from which  *)
(* a random draw is taken.  Every response is drawn time and again.         *)
EveryResponseUttered ==
  \A r \in 1 .. Responses : []<>(recent[WINDOW] = r)
=============================================================================
