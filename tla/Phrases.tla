------------------------------- MODULE Phrases -------------------------------
(***************************************************************************)
(* What splotch.c does with texts: searching a phrase, replacing synonyms, *)
(* cutting the words of a human down to a clause and turning them to the   *)
(* other person.  A text is a sequence of words and punctuation marks; one *)
(* blank stands before each word but the first, none before a mark or the  *)
(* newline that ends a line typed.                                         *)
(***************************************************************************)
EXTENDS Integers, Sequences, SequencesExt

LOCAL Marks == {",", ".", "?", ";", "!", ":"}
NL == "\n"

IsWord(w) == w \notin Marks \cup {NL}

\* Position p of text s begins with phrase t.
At(s, p, t) == p + Len(t) - 1 <= Len(s) /\ SubSeq(s, p, p + Len(t) - 1) = t

\* phrasefind: the first place of t in s from place p on, 0 if there is none.
phrasefind(s, p, t) ==
  LET places == {q \in p .. Len(s) : At(s, q, t)}
  IN  IF places = {} THEN 0 ELSE Min(places)

\* substitute_pattern: every place of old, read from left to right, becomes new.
substitute_pattern(s, old, new) ==
  LET from[p \in 1 .. Len(s) + 1] ==  \* what becomes of s from place p on
        IF p + Len(old) > Len(s) + 1 THEN SubSeq(s, p, Len(s))
        ELSE IF At(s, p, old) THEN new \o from[p + Len(old)]
        ELSE <<s[p]>> \o from[p + 1]
  IN  from[1]

\* normalized_synonyms: the lines of syn.dict in their order, each with what
\* replaces and what is replaced.
normalized_synonyms(s, syn_dict) ==
  LET after[k \in 0 .. Len(syn_dict)] ==
        IF k = 0 THEN s
        ELSE substitute_pattern(after[k - 1], syn_dict[k].old, syn_dict[k].new)
  IN  after[Len(syn_dict)]
-----------------------------------------------------------------------------
(* The words of the human, as they go into a reply.                         *)

UpToPlace(s, places) == IF places = {} THEN s ELSE SubSeq(s, 1, Min(places) - 1)
UpTo(s, S) == UpToPlace(s, {p \in 1 .. Len(s) : s[p] \in S})

\* A full stop counts where a word or where two more of them follow.
chop_off_trailing_clauses(s) ==
  LET stop(t) == {p \in 1 .. Len(t) - 1 : t[p] = "." /\ IsWord(t[p + 1])}
      dots(t) == {p \in 1 .. Len(t) : At(t, p, <<".", ".", ".">>)}
      first == UpTo(s, {","})
      second == UpToPlace(first, stop(first))
  IN  UpTo(UpToPlace(second, dots(second)), {"?", ";", "!", ":"})

\* The name of the bot, as in "are you tired grumpy", unless it is compared to.
UpToNick(s, nick) ==
  LET names == {p \in 2 .. Len(s) : s[p] = nick}
  IN  IF \E p \in names : s[p - 1] = "than" THEN s ELSE UpToPlace(s, names)

UpToPlease(s) == UpToPlace(s, {p \in 2 .. Len(s) : s[p] \in {"please", "pleased"}})

UpToDash(s) == IF s # <<>> /\ Head(s) = "--" THEN s ELSE UpTo(s, {"--"})

WithoutLastMark(s) == IF s # <<>> /\ Last(s) \in Marks THEN Front(s) ELSE s

make_words_suitable_for_substitution(s, nick) ==
  WithoutLastMark(UpToDash(UpToPlease(UpToNick(chop_off_trailing_clauses(s), nick))))
-----------------------------------------------------------------------------
(* Replacing with marks: gswap sets the parity bit of what it puts in, so   *)
(* that a later gswap does not find it.                                     *)

Unmarked(s) == [p \in 1 .. Len(s) |-> [w |-> s[p], mark |-> FALSE]]
Marked(s) == [p \in 1 .. Len(s) |-> [w |-> s[p], mark |-> TRUE]]
clear_substitution_flags(t) == [p \in 1 .. Len(t) |-> t[p].w]

\* old is at place p, and a blank or the end of the text after it.
Found(t, p, old) ==
  /\ At(t, p, Unmarked(old))
  /\ Len(t) >= p + Len(old) => IsWord(t[p + Len(old)].w)

gswap(old, new, t) ==
  LET from[p \in 1 .. Len(t) + 1] ==
        IF p + Len(old) > Len(t) + 1 THEN SubSeq(t, p, Len(t))
        ELSE IF Found(t, p, old) THEN Marked(new) \o from[p + Len(old)]
        ELSE <<t[p]>> \o from[p + 1]
  IN  from[1]

Swaps(t, pairs) == FoldLeft(LAMBDA u, p : gswap(p[1], p[2], u), t, pairs)

\* One pass over a text: marked while it lasts, cleared afterwards.
Pass(s, pairs) == clear_substitution_flags(Swaps(Unmarked(s), pairs))

\* The coin decides what "you" becomes.
reverse_pronouns(s, you) ==
  Pass(s, << << <<"that", "you">>, <<"that", "I">> >>,
             << <<"you", "say">>, <<"i", "say">> >>,
             << <<"i", "say">>, <<"you", "say">> >>,
             << <<"my">>, <<"your">> >>, << <<"your">>, <<"my">> >>,
             << <<"you">>, <<you>> >>, << <<"me">>, <<"you">> >>,
             << <<"mine">>, <<"yours">> >>, << <<"am">>, <<"are">> >>,
             << <<"yours">>, <<"mine">> >>,
             << <<"yourself">>, <<"myself">> >>, << <<"myself">>, <<"yourself">> >>,
             << <<"are">>, <<"am">> >>, << <<"i">>, <<"you">> >> >>)

secondary_correction_reversed_pronouns(s) ==
  Pass(s, << << <<"me", "had">>, <<"I", "had">> >>,
             << <<"me", "was">>, <<"i", "was">> >> >>)

\* The two pairs that end with a blank ("r u ", "wher ") find nothing in a
\* text with single blanks.
fix_problems_with_grammar(s) ==
  Pass(s, << << <<"i", "are">>, <<"I", "am">> >>, << <<"me", "have">>, <<"I", "have">> >>,
             << <<"me", "don't">>, <<"I", "don't">> >>,
             << <<"you", "am">>, <<"you", "are">> >>,
             << <<"me", "am">>, <<"I", "am">> >>, << <<"me", "is">>, <<"I", "am">> >>,
             << <<"i">>, <<"I">> >>, << <<"did", "not", "be">>, <<"weren't">> >> >>)
=============================================================================
