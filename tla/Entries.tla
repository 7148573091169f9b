------------------------------- MODULE Entries -------------------------------
(***************************************************************************)
(* Files of words, phrases and episodes as get_entry of splotch.c reads    *)
(* them: one line each, or the lines between lemmas such as ".phrase".  A  *)
(* file is its lines, and whether a newline ends the last one.             *)
(***************************************************************************)
EXTENDS Integers, Sequences, FiniteSets, SequencesExt

CONSTANTS
  Lemma,          \* the line with the separator
  NRESPONSE_MAX   \* entries counted at most (5000)

Ended == [ok |-> FALSE, str |-> <<>>, rest |-> <<>>]

\* Up to the next lemma, which is read as well.
UntilLemma(str, lines) ==
  LET at == SelectInSeq(lines, LAMBDA l : l = Lemma)
  IN  IF at = 0 THEN [ok |-> TRUE, str |-> str \o lines, rest |-> <<>>]
      ELSE [ok |-> TRUE, str |-> str \o SubSeq(lines, 1, at - 1),
            rest |-> SubSeq(lines, at + 1, Len(lines))]

\* The line after a lemma is taken as it is; a single line does not count when
\* the file ends in it.
get_entry(lines, lemmas, terminated) ==
  IF lines = <<>> THEN Ended
  ELSE IF lemmas
       THEN IF Head(lines) # Lemma THEN UntilLemma(<<Head(lines)>>, Tail(lines))
            ELSE IF Len(lines) = 1 THEN Ended
            ELSE UntilLemma(<<lines[2]>>, SubSeq(lines, 3, Len(lines)))
       ELSE IF Len(lines) = 1 /\ ~terminated THEN Ended
            ELSE [ok |-> TRUE, str |-> <<Head(lines)>>, rest |-> Tail(lines)]

\* The entries of a file, one call of get_entry after another.
RECURSIVE AllEntries(_, _, _)
AllEntries(lines, lemmas, terminated) ==
  LET e == get_entry(lines, lemmas, terminated)
  IN  IF ~e.ok THEN <<>> ELSE <<e.str>> \o AllEntries(e.rest, lemmas, terminated)

\* Files that cannot be read, and those without a known suffix, have none.
number_of_entries(readable, lines, lemmas, terminated) ==
  LET n == Len(AllEntries(lines, lemmas, terminated))
  IN  IF ~readable THEN 0 ELSE IF n > NRESPONSE_MAX THEN NRESPONSE_MAX ELSE n
-----------------------------------------------------------------------------
(* What the entries of a file with lemmas should be: the stretches of lines *)
(* between them.  They are, unless three lemmas follow one another, or two  *)
(* at the start, where a lemma becomes the text of an entry.                *)
Starts(lines) ==
  {i \in DOMAIN lines : lines[i] # Lemma /\ (i = 1 \/ lines[i - 1] = Lemma)}
Stretch(lines, i) ==
  LET ends == {j \in i .. Len(lines) : j = Len(lines) \/ lines[j + 1] = Lemma}
  IN  SubSeq(lines, i, Min(ends))

WellFormed(lines) ==
  /\ ~ IsPrefix(<<Lemma, Lemma>>, lines)
  /\ \A i \in 1 .. Len(lines) - 2 : SubSeq(lines, i, i + 2) # <<Lemma, Lemma, Lemma>>

ReadsStretches(lines) ==
  LET entries == AllEntries(lines, TRUE, TRUE)
  IN  /\ Len(entries) = Cardinality(Starts(lines))
      /\ Range(entries) = {Stretch(lines, i) : i \in Starts(lines)}
      /\ FlattenSeq(entries) = SelectSeq(lines, LAMBDA l : l # Lemma)
=============================================================================
