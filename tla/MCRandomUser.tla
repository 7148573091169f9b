---------------------------- MODULE MCRandomUser ----------------------------
(***************************************************************************)
(* Instances of RandomUser for TLC, with a minute of 2 s.                  *)
(***************************************************************************)
EXTENDS RandomUser

\* Steps that divide the minute; values below 1 are raised to 1.  With steps
\* that do not, <<3, 3>> say, RequestedAgain fails.
CtlInStep == {<<0, 0>>, <<2, 3>>}
=============================================================================
