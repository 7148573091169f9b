------------------------------ MODULE UrlText ------------------------------
(***************************************************************************)
(* The words of a web request: cleanup of www_grumpy.c, which turns + into *)
(* a space and decodes the escapes in place, in two passes over the same   *)
(* characters, and what it is for.  Characters are their codes.            *)
(***************************************************************************)
EXTENDS Integers, Sequences

Percent == 37
Plus == 43
Space == 32
HexDigits == (48 .. 57) \cup (65 .. 70) \cup (97 .. 102)

\* A char is signed.
Char(n) == ((n + 128) % 256) - 128

\* x2c: what & 0xdf turns a lower case letter into its upper case.
Upper(d) == IF d >= 97 THEN d - 32 ELSE d
DigitValue(d) == IF d >= 65 THEN Upper(d) - 65 + 10 ELSE d - 48
x2c(a, b) == Char(16 * DigitValue(a) + DigitValue(b))

plustospace(url) == [x \in DOMAIN url |-> IF url[x] = Plus THEN Space ELSE url[x]]

\* The first pass writes the decoded character over the first digit, from
\* where it goes on: the decoded character is looked at again.  So the
\* character behind one that is a percent sign by then is decoded.
Decode(url) ==
  LET looked[x \in 1 .. Len(url)] ==
        IF x > 1 /\ looked[x - 1] = Percent /\ x < Len(url)
        THEN x2c(url[x], url[x + 1]) ELSE url[x]
  IN  looked

\* The second pass moves the characters together.
CloseUp(url) ==
  LET from[y \in 1 .. Len(url) + 3] ==
        IF y > Len(url) THEN <<>>
        ELSE IF url[y] = Percent THEN <<url[y + 1]>> \o from[y + 3]
        ELSE <<url[y]>> \o from[y + 1]
  IN  from[1]

unescape_url(url) == CloseUp(Decode(url))

cleanup(raw) == unescape_url(plustospace(raw))
-----------------------------------------------------------------------------
(* The reference: a text is a sequence of characters and escapes, and each *)
(* of them stands for one character.                                       *)
Decoded(raw) ==
  LET from[y \in 1 .. Len(raw) + 3] ==
        IF y > Len(raw) THEN <<>>
        ELSE IF raw[y] = Percent THEN <<x2c(raw[y + 1], raw[y + 2])>> \o from[y + 3]
        ELSE <<IF raw[y] = Plus THEN Space ELSE raw[y]>> \o from[y + 1]
  IN  from[1]

\* What a browser sends: every % is followed by its two digits.
WellFormed(raw) ==
  LET from[y \in 1 .. Len(raw) + 3] ==
        \/ y > Len(raw)
        \/ raw[y] # Percent /\ from[y + 1]
        \/ /\ raw[y] = Percent /\ y + 2 <= Len(raw)
           /\ {raw[y + 1], raw[y + 2]} \subseteq HexDigits
           /\ from[y + 3]
  IN  from[1]
=============================================================================
