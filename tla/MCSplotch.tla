----------------------------- MODULE MCSplotch -----------------------------
(* A small main.dict and the lines that meet its templates.                *)
EXTENDS Splotch, Sorting, Entries

K(kind, text) == [kind |-> kind, text |-> text]
W(left, right) == [kind |-> "%", text |-> left, right |-> right]
KeyLine(ks) == [kind |-> "keys", keys |-> ks]
Prio(n) == [kind |-> "priority", value |-> n]
Alt(text) == [kind |-> "*", text |-> text]
Blank == [kind |-> "blank"]

MCMainDict ==
  <<KeyLine(<<W(<<"i", "am">>, <<>>), K("!", <<"not">>), K("plain", <<"happy">>)>>), Prio(5),
    Alt(<<"why", "are", "you", "%">>), Blank,
    KeyLine(<<W(<<"i">>, <<"you">>), K("plain", <<"dull">>)>>), Prio(5),
    Alt(<<"so", "you", "%", NAME>>), Blank,
    KeyLine(<<K("plain", <<"dull">>), K("&", <<"my">>), K("+", <<>>)>>),
    Alt(<<"@">>), Blank, Blank,
    KeyLine(<<K("plain", <<"tired">>)>>), Prio(100), Alt(<<"@<">>), Blank,
    KeyLine(<<K("plain", <<"meta_robot_suspicion">>)>>), Prio(1), Alt(<<"robot">>), Blank,
    KeyLine(<<K("plain", <<"zzz">>)>>), Prio(1), Alt(<<"%", "@">>)>>

MCSynDict == <<[old |-> <<"i'm">>, new |-> <<"i", "am">>], [old |-> <<"boring">>, new |-> <<"dull">>]>>

Line(kind, text) == [kind |-> kind, text |-> text \o <<NL>>, nletters |-> 10, nupper |-> 0]
MCLines ==
  {Line("text", <<"i'm", "not", "happy", ".">>),
   Line("text", <<"i", "am", "what", "you", "are", ",", "tired">>),
   Line("text", <<"i", "say", "my", "you", "are", "boring", "!">>),
   Line("text", <<"i", "like", "you">>),
   [Line("sum", <<"6", "*", "7", "?">>) EXCEPT !.nupper = 8],
   Line("foreign", <<"?">>)}

\* The file that "@" stands for.
MCLemma == <<".phrase">>
PhraseFile == <<MCLemma, <<"%", "maybe">>, MCLemma>>
MCEntries == {FlattenSeq(e) : e \in Range(AllEntries(PhraseFile, TRUE, TRUE))}
MCOutputs == {<<>>, <<"sleep">>}

\* reverse_pronouns and its corrections on every short text of these words.
Vocabulary == {"i", "you", "me", "my", "your", "mine", "yourself", "are", "am", "that", "say", "had"}
ASSUME \A n \in 1 .. 3 : \A s \in [1 .. n -> Vocabulary] : \A you \in {"me", "i"} :
         LET t == Reworded(s, you)
         IN  Len(t) = n /\ \A p \in 1 .. n : t[p] \in Mirrors(s[p])

\* shell_sortr on every vector of up to five small numbers.
ASSUME \A n \in 0 .. 5 : \A reals \in [1 .. n -> -1 .. 2] :
         Sorts(reals, 1) /\ Sorts(reals, -1)

\* get_entry on every file of up to six lines, and a last line without newline.
ASSUME \A n \in 0 .. 6 : \A lines \in [1 .. n -> {Lemma, <<"a">>, <<"b">>}] :
         /\ WellFormed(lines) => ReadsStretches(lines)
         /\ number_of_entries(TRUE, lines, FALSE, TRUE) = Min({n, NRESPONSE_MAX})
         /\ n > 0 => number_of_entries(TRUE, lines, FALSE, FALSE) = Min({n - 1, NRESPONSE_MAX})
=============================================================================
