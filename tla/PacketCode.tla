----------------------------- MODULE PacketCode -----------------------------
(***************************************************************************)
(* How sendmsg.c wrinkles a packet before it leaves: a check code over a   *)
(* few of its bytes and two random numbers, the bytes xored with a key     *)
(* made of that code, and the code put in with its bits in another order.  *)
(*                                                                         *)
(* A packet is a function from 0 on to bytes.  A DWORD is the set of its   *)
(* bits, 0 to 31 (DW_2_Chars writes no others).                            *)
(***************************************************************************)
EXTENDS Integers, FiniteSets, FiniteSetsExt

CONSTANT table   \* 256 bytes

Bits == 0 .. 31
Byte(n) == {k \in 0 .. 7 : (n \div 2 ^ k) % 2 = 1}
Value(bits) == MapThenSumSet(LAMBDA k : 2 ^ k, bits)

Up(d, n) == {k + n : k \in d} \cap Bits
Down(d, n) == {k - n : k \in d} \cap Bits
Xor(a, b) == (a \ b) \cup (b \ a)

\* Modulo 2^32: bit k of the sum, with what is carried into it.
Plus(a, b) ==
  LET carry[k \in Bits] ==
        k > 0 /\ \/ k - 1 \in a \cap b
                 \/ k - 1 \in a \cup b /\ carry[k - 1]
  IN  {k \in Bits : (k \in Xor(a, b)) # carry[k]}
Times(n, d) ==
  LET product[m \in 0 .. n] == IF m = 0 THEN {} ELSE Plus(product[m - 1], d)
  IN  product[n]

\* The low byte comes first.
Chars_2_DW(buf, at) == UNION {Up(Byte(buf[at + i]), 8 * i) : i \in 0 .. 3}
DW_2_Chars(buf, at, d) ==
  [i \in DOMAIN buf |->
     IF i \in at .. at + 3 THEN Value(Down(d, 8 * (i - at)) \cap 0 .. 7) ELSE buf[i]]
-----------------------------------------------------------------------------
CHECK == 20      \* where the check code stands

\* Four bytes as one DWORD, the first on top.
Four(a, b, c, d) ==
  Up(Byte(a), 24) \cup Up(Byte(b), 16) \cup Up(Byte(c), 8) \cup Byte(d)

\* The random numbers are a place behind the header and an entry of the table.
checkcode(buf, r1, r2) ==
  Xor(Four(buf[8], buf[4], buf[2], buf[6]),
      Xor(Four(r1, buf[r1], r2, table[r2]), 0 .. 7 \cup 16 .. 23))

Scramble_cc(cc) ==
  Up(cc \cap 0 .. 4, 12)
    \cup Up(cc \cap (5 .. 9 \cup 21 .. 25), 1)
    \cup Down(cc \cap ({10} \cup 27 .. 31), 10)
    \cup Up(cc \cap 11 .. 15, 16)
    \cup Down(cc \cap (16 .. 20 \cup {26}), 15)

HELL == Four(104, 101, 108, 108)   \* 0x68656c6c

\* The key changes from one DWORD of the packet to the next; the last of these
\* may reach beyond the packet.
Key(len, cc, pos) == Plus(Plus(Times(len, HELL), cc), Byte(table[pos % 256]))
Crypt(buf, len, cc) ==
  [i \in DOMAIN buf |->
     IF i < 10 THEN buf[i]
     ELSE LET pos == i - ((i - 10) % 4)
          IN  IF pos >= len THEN buf[i]
              ELSE Value(Xor(Byte(buf[i]),
                             Down(Key(len, cc, pos), 8 * (i - pos)) \cap 0 .. 7))]

\* The buffer holds three bytes more than the packet.
Wrinkle(buf, len, r1, r2) ==
  LET cc == checkcode(buf, r1, r2)
      coded == DW_2_Chars(buf, CHECK, cc)
  IN  DW_2_Chars(Crypt(coded, len, cc), CHECK, Scramble_cc(cc))
-----------------------------------------------------------------------------
(* What the server does with a packet: it puts the bits of the code back,   *)
(* takes the key off and looks whether the code fits.                       *)
Unscramble(sc) == UNION {{k} : k \in {j \in Bits : Scramble_cc({j}) \subseteq sc}}
Sent(p, len) == [i \in 0 .. len - 1 |-> p[i]]
CodeOf(p) == Unscramble(Chars_2_DW(p, CHECK))

\* Every bit has a place of its own.
ScrambleLosesNothing ==
  /\ \A k \in Bits : Cardinality(Scramble_cc({k})) = 1
  /\ \A j, k \in Bits : Scramble_cc({j}) = Scramble_cc({k}) => j = k

\* The packet comes back but for the four bytes of the code, from the bytes
\* that are sent alone, and the code is that of the packet.
ReadBack(buf, len, r1, r2) ==
  LET p == Sent(Wrinkle(buf, len, r1, r2), len)
      read == Crypt(p, len, CodeOf(p))
  IN  /\ \A i \in 0 .. len - 1 : i \notin CHECK .. CHECK + 3 => read[i] = buf[i]
      /\ CodeOf(p) = checkcode(read, r1, r2)
=============================================================================
