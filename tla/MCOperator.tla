----------------------------- MODULE MCOperator -----------------------------
(***************************************************************************)
(* An instance of Operator for TLC.  A session is a part of what can       *)
(* happen; the sessions overlap where parts touch.                         *)
(***************************************************************************)
EXTENDS Operator, RusConv

TheContacts ==
  <<Contact(1, "A", FALSE, TRUE), Contact(-1, "a", FALSE, FALSE),
    Contact(2, "B", TRUE, FALSE)>>
TheUins == {1, 2, 3}
TheOthers == {"ONLINE", "AWAY"}
TheSessions ==
  {{"write", "message", "add"}, {"fields", "write"},
   {"status", "login", "time", "message"}, {"status", "write"},
   {"add", "login", "presence", "others"}}
TheLines == {"x", "yy"}
TheLengths == [l \in TheLines |-> IF l = "x" THEN 1 ELSE 2]
TheNames == {"A", "a", "3", "nobody"}
TheNumbers == [n \in {"3"} |-> 3]

ASSUME ComesBack("kw", "wk", {168, 184}) /\ ComesBack("wk", "kw", {163, 179})
=============================================================================
