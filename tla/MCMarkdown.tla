------------------------------- MODULE MCMarkdown -------------------------------
(* Instances of Markdown for TLC: every text of at most MaxPieces pieces,   *)
(* and texts of more spans than there are digits, as a full game's answer.  *)
EXTENDS Markdown, SequencesExt

CONSTANTS
    MaxPieces,
    Counts          \* how many spans the long texts have

Code == <<Tick, "a", Tick>>
Link == <<"[", "a", "]", "(", "a", ")">>
MCNumerals == [k \in 1..100 |-> ToString(k - 1)]

Pieces ==
    {<<"a">>, <<"0">>, <<"\\">>, <<"\n">>, <<Tick>>, Code, Fence, Under,
     <<"_", "_", "b", "_", "_">>, <<"[">>, <<"[", "a", "]", "(">>,
     <<"]", "(">>, <<"(">>, <<")">>}
ShortTexts == {FlattenSeq(w) : w \in SeqOf(Pieces, MaxPieces)}

(* n spans with the character c between the first and the rest.             *)
LongText(span, n, c) == span \o <<c>> \o FlattenSeq([k \in 1..n - 1 |-> span])
LongTexts ==
    {LongText(span, n, c) : span \in {Code, Link}, n \in Counts, c \in {"a"} \cup {ToString(n) : n \in Counts}}

(* Two numbers side by side are one. *)
Proper(s) == \A i \in 1..Len(s) - 1 : s[i] # "0" \/ s[i + 1] # "0"
MCInputs == {s \in ShortTexts \cup LongTexts : Proper(s)}
===============================================================================
