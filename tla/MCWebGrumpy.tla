---------------------------- MODULE MCWebGrumpy ----------------------------
(***************************************************************************)
(* Three clients for TLC, and the decoding of every short text.            *)
(***************************************************************************)
EXTENDS WebGrumpy

\* %25 4 1, an encoded escape; a + %2B; and no words at all.
NoText == <<>>
Words == {<<37, 50, 53, 52, 49>>, <<97, 43, 37, 50, 66>>, <<>>}

\* Every text a browser can send of up to six of these characters, %, 2, 5,
\* B and +, is decoded to what it stands for: the second look at a decoded
\* percent sign does no harm.
Alphabet == {37, 50, 53, 66, 43}
ASSUME DecodingAssumption ==
  \A n \in 0 .. 6 : \A raw \in [1 .. n -> Alphabet] :
    WellFormed(raw) => cleanup(raw) = Decoded(raw)
=============================================================================
