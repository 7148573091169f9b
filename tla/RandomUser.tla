----------------------------- MODULE RandomUser -----------------------------
(***************************************************************************)
(* How the bot finds people to talk to: Idle_Check asks the server for a   *)
(* random user every so often, the answers fill Last_Probed_Rand_User, and *)
(* a user not met before is greeted.  Users met are kept in a file, which  *)
(* survives the process; the process may stop between any two steps, also  *)
(* between the recording of a user and the greeting.                       *)
(***************************************************************************)
EXTENDS Integers, FiniteSets

CONSTANTS
  Users,        \* UINs, positive
  NO_UIN,       \* the initial uin of Last_Probed_Rand_User: 0
  SEC_PER_MIN,  \* 60 in Idle_Check
  READ_CTL,     \* minutes between two readings of micq.ctl (5)
  CtlFiles,     \* what micq.ctl may say: delta and minutes_rand_select
  DELTA, MINUTES,  \* their initial values (1 and 5)
  CYCLE         \* a multiple of every period that mytime is tested against:
                \* mytime is kept modulo CYCLE, which leaves the tests as they are

ASSUME NobodyAssumption == NO_UIN \notin Users
ASSUME ClockAssumption ==
  /\ CYCLE \in Nat \ {0} /\ DELTA \in Nat \ {0} /\ MINUTES \in Nat \ {0}
  /\ CtlFiles \subseteq Int \X Int
ASSUME CycleAssumption ==
  \A c \in CtlFiles \cup {<<DELTA, MINUTES>>} :
    /\ CYCLE % (READ_CTL * SEC_PER_MIN) = 0
    /\ CYCLE % ((IF c[2] < 1 THEN 1 ELSE c[2]) * SEC_PER_MIN) = 0

VARIABLES
  mytime, delta, minutes,  \* the static variables of Idle_Check
  Probed,     \* Last_Probed_Rand_User; name is the user whose nick it holds
  seen,       \* the UINs in seen_rand_uin.dat
  searching,  \* a random search was requested, and may be answered
  asked,      \* the users whose info was requested, and may be answered
  hello,      \* history: how often each user was greeted
  misnamed,   \* history: a greeting used the name of somebody else
  requested,  \* the last turn of Idle_Check requested a random user
  greeting    \* the user recorded by a turn of Idle_Check, not yet greeted

clock == <<mytime, delta, minutes>>
search_vars ==
  <<clock, Probed, seen, searching, asked, hello, misnamed, requested, greeting>>

Unprobed == [uin |-> NO_UIN, name |-> NO_UIN, ready |-> FALSE]

SearchInit ==
  /\ mytime = 0 /\ delta = DELTA /\ minutes = MINUTES
  /\ Probed = Unprobed
  /\ seen = {}
  /\ searching = FALSE /\ asked = {}
  /\ hello = [u \in Users |-> 0]
  /\ misnamed = FALSE /\ requested = FALSE
  /\ greeting = NO_UIN
-----------------------------------------------------------------------------
(* One turn of the clock of Idle_Check, with the control file when due.     *)
AtLeast1(n) == IF n < 1 THEN 1 ELSE n

\* (Mutant: delta is taken as the file says it.)
ReadCtlDelta(t) ==
  \/ \E c \in CtlFiles :
       /\ t % (READ_CTL * SEC_PER_MIN) = 0
       /\ delta' = c[1] /\ minutes' = AtLeast1(c[2])
  \/ UNCHANGED <<delta, minutes>>
ReadCtl(t) ==
  \/ \E c \in CtlFiles :
       /\ t % (READ_CTL * SEC_PER_MIN) = 0
       /\ delta' = AtLeast1(c[1]) /\ minutes' = AtLeast1(c[2])
  \/ UNCHANGED <<delta, minutes>>   \* not due, or no file to read

\* (Mutant: due one second past the minute.)
RequestDueOneLater == mytime' % (minutes' * SEC_PER_MIN) = 1
RequestDue == mytime' % (minutes' * SEC_PER_MIN) = 0

TurnClock ==
  /\ mytime' = (mytime + delta) % CYCLE
  /\ ReadCtl(mytime')

(* unseen_rand_user finds no line with the UIN, and appends one.            *)
Unseen(u) == u \notin seen
\* (Mutant: the file is opened to be written, not appended to.)
RecordOnly(u) == seen' = {u}
Record(u) == seen' = seen \cup {u}

(* A turn that requests a random user leaves a user who is ready for later. *)
IdleRequest ==
  /\ greeting = NO_UIN
  /\ TurnClock /\ RequestDue
  /\ searching' = TRUE /\ requested' = TRUE
  /\ UNCHANGED <<Probed, seen, asked, hello, misnamed, greeting>>

(* A turn that records the user who is ready, and is about to greet.        *)
IdleRecord ==
  /\ greeting = NO_UIN
  /\ TurnClock /\ ~RequestDue
  /\ Probed.uin # NO_UIN /\ Probed.ready /\ Unseen(Probed.uin)
  /\ Record(Probed.uin)
  /\ greeting' = Probed.uin
  /\ requested' = FALSE
  /\ UNCHANGED <<Probed, searching, asked, hello, misnamed>>

(* The rest of that turn, a second later: make_first_call, icq_sendmsg.     *)
IdleGreet ==
  /\ greeting # NO_UIN
  /\ hello' = [hello EXCEPT ![Probed.uin] = @ + 1]
  /\ misnamed' = (misnamed \/ Probed.name # Probed.uin)
  /\ Probed' = [Probed EXCEPT !.ready = FALSE]
  /\ greeting' = NO_UIN
  /\ UNCHANGED <<clock, seen, searching, asked, requested>>

(* A turn with nobody to greet.                                             *)
IdleNobody ==
  /\ greeting = NO_UIN
  /\ TurnClock /\ ~RequestDue
  /\ ~(Probed.uin # NO_UIN /\ Probed.ready /\ Unseen(Probed.uin))
  /\ Probed' = [Probed EXCEPT !.ready = FALSE]
  /\ requested' = FALSE
  /\ UNCHANGED <<seen, searching, asked, hello, misnamed, greeting>>

Idle_Check == IdleRequest \/ IdleRecord \/ IdleGreet \/ IdleNobody

\* A user found by a random search is not ready before the info arrives.
\* (Mutant: the readiness of the user before is kept.)
ProbedKeepsReady(u) == [Probed EXCEPT !.uin = u]
ProbedAfterSearch(u) == [Probed EXCEPT !.uin = u, !.ready = FALSE]

(* The answer to a random search, which the network may repeat.             *)
Display_Rand_User(u) ==
  /\ searching /\ greeting = NO_UIN
  /\ asked' = asked \cup {u}
  /\ Probed' = ProbedAfterSearch(u)
  /\ UNCHANGED <<clock, seen, searching, hello, misnamed, requested, greeting>>

(* The operator asks for the info of a user.                                *)
send_info_req(u) ==
  /\ greeting = NO_UIN
  /\ asked' = asked \cup {u}
  /\ UNCHANGED <<clock, Probed, seen, searching, hello, misnamed, requested, greeting>>

(* The answer to any info request, which the network may repeat.            *)
Display_Info_Reply(u) ==
  /\ u \in asked /\ greeting = NO_UIN
  /\ Probed' = [uin |-> u, name |-> u, ready |-> TRUE]
  /\ UNCHANGED <<clock, seen, searching, asked, hello, misnamed, requested, greeting>>

(* The process stops and is started again: only the file is left.           *)
SearchRestart ==
  /\ mytime' = 0 /\ delta' = DELTA /\ minutes' = MINUTES
  /\ Probed' = Unprobed
  /\ searching' = FALSE /\ asked' = {}
  /\ requested' = FALSE /\ greeting' = NO_UIN
  /\ UNCHANGED <<seen, hello, misnamed>>

SearchNext ==
  \/ Idle_Check
  \/ \E u \in Users :
       Display_Rand_User(u) \/ send_info_req(u) \/ Display_Info_Reply(u)
  \/ SearchRestart

SearchSpec == SearchInit /\ [][SearchNext]_search_vars

(* The loop of main calls Idle_Check at every turn.                         *)
RunSpec == SearchSpec /\ WF_search_vars(Idle_Check) /\ <>[][~SearchRestart]_search_vars
-----------------------------------------------------------------------------
(* The types of the variables.                                              *)
SearchTypeOK ==
  /\ mytime \in 0 .. CYCLE - 1
  /\ delta \in Nat \ {0} /\ minutes \in Nat \ {0}
  /\ Probed \in [uin : Users \cup {NO_UIN}, name : Users \cup {NO_UIN}, ready : BOOLEAN]
  /\ seen \subseteq Users /\ asked \subseteq Users
  /\ hello \in [Users -> Nat]
  /\ searching \in BOOLEAN /\ misnamed \in BOOLEAN /\ requested \in BOOLEAN
  /\ greeting \in Users \cup {NO_UIN}

(* Nobody is greeted twice, however often a user is found, however the      *)
(* answers are repeated or interleaved, and across restarts at any point.   *)
GreetedOnce == \A u \in Users : hello[u] <= 1

(* A greeting names the user it goes to, although the search and the info   *)
(* replies fill Last_Probed_Rand_User in two packets that may interleave    *)
(* with those about other users.                                            *)
GreetedByName == ~misnamed

(* Random users keep being requested while the program runs: minutes is the *)
(* time between two requests (micq.c:391).                                  *)
RequestedAgain == []<>requested
=============================================================================
