------------------------------- MODULE RusConv -------------------------------
(* rus_conv.c: Russian letters between the code pages of this client (koi8)  *)
(* and of the other users (cp1251), by a table for each way.  A text is a    *)
(* sequence of bytes.                                                        *)
EXTENDS Integers, Sequences

\* A table has the upper half of the bytes: signs, of which one or two change,
\* and letters, whose second half is the first half in the other case.
Table(signs, letters) ==
  [c \in 128 .. 255 |->
     CASE c \in 192 .. 223 -> letters[c - 191]
       [] c \in 224 .. 255 -> letters[c - 223] - 32
       [] c \in DOMAIN signs -> signs[c]
       [] OTHER -> c]

kw == Table([c \in {163, 179} |-> IF c = 163 THEN 184 ELSE 168],
  <<254, 224, 225, 246, 228, 229, 244, 227, 245, 232, 233, 234, 235, 236, 237, 238,
    239, 255, 240, 241, 242, 243, 230, 226, 252, 251, 231, 248, 253, 249, 247, 250>>)
wk == Table([c \in {168, 184} |-> IF c = 168 THEN 179 ELSE 163],
  <<225, 226, 247, 231, 228, 229, 246, 250, 233, 234, 235, 236, 237, 238, 239, 240,
    242, 243, 244, 245, 230, 232, 227, 254, 251, 253, 255, 249, 248, 252, 224, 241>>)

\* Another name for to is only complained about.
rus_conv(to, text, russian) ==
  IF ~russian \/ to \notin {"kw", "wk"} THEN text
  ELSE LET table == IF to = "kw" THEN kw ELSE wk
       IN  [i \in DOMAIN text |-> IF text[i] < 128 THEN text[i] ELSE table[text[i]]]
-----------------------------------------------------------------------------
\* What is written comes back as it was: each letter, and each sign but for the
\* two whose codes the other code page uses for a letter.
ComesBack(there, back, lost) ==
  \A c \in 1 .. 255 : c \notin lost =>
    /\ rus_conv(back, rus_conv(there, <<c>>, TRUE), TRUE) = <<c>>
    /\ rus_conv(there, <<c>>, FALSE) = <<c>>
=============================================================================
