----------------------------- MODULE MCRcFile ------------------------------
(***************************************************************************)
(* An instance of RcFile for TLC: a first start without a file, and one    *)
(* with a file somebody wrote, with an alias and a contact who never sees  *)
(* the user.                                                               *)
(***************************************************************************)
EXTENDS RcFile

TheChars ==
  {NL, Space, "#", "M", "A", "B", "C", "a", "b", "h", "e", "y", "7", "-", "own", "new1", "new2"}
    \cup Marks \cup Keywords \cup {"0", "1", "2"}
TheDigits == {"0", "1", "2"}
TheUins == {<<"2">>, <<"1", "2">>}
TheNicks == {<<"B">>}
OfflineText == <<"-", "1">>
OnlineText == <<"0">>
TheStatuses == {<<"1", "7">>}
Short == <<"h">>
TheMessages == {Short, <<"h", "e", "y">>}
TheOwn == <<"own">>
TheAccounts == <<<<"new1">>, <<"new2">>>>

Written ==
  <<"UIN", "own", NL, "Status", "0", NL, "Reply", "h", "e", "y", NL,
    "Contacts", NL, "2", Space, "A", NL, "a", Space, "b", NL,
    "~", "1", Space, "C", NL>>
TheFiles == {NoFile, Written}
=============================================================================
