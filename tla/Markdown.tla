-------------------------------- MODULE Markdown --------------------------------
(***************************************************************************)
(* EscapeMarkdownV2Smart: the text of every message is rewritten from the  *)
(* markup the commands use to the one Telegram reads.  Each stage takes    *)
(* the spans of one kind out of the text, puts a placeholder there, and    *)
(* keeps the span, escaped; the rest is escaped, and the placeholders are  *)
(* filled in, in the order they were made.  Then Telegram reads the text.  *)
(*                                                                         *)
(* A text is a sequence of characters; an escaped one stands for itself    *)
(* and the backslash before it.  A number, all the digits that stand side  *)
(* by side, is one character: nothing in the code comes between them.      *)
(***************************************************************************)
EXTENDS Naturals, Sequences, FiniteSets

CONSTANTS
    Inputs,         \* the texts to rewrite
    Numerals        \* Numerals[k]: the number k - 1 in decimal

Tick == "tick"      \* SANY takes no backquote
Special == {"_", "*", "[", "]", "(", ")", "~", Tick, ">", "#", "+", "-", "=", "|", "{", "}", ".", "!"}

(* What is no markup, and the rewriting must not lose. *)
Letter(c) == c \notin Special \cup {"\\", "\n"}

(* The control character that the placeholders are made with is in no text. *)
SOH == "SOH"
ASSUME InputsAssumption == Inputs \subseteq Seq(STRING \ {SOH})

(* No two numbers read alike; there is one for each span a text can have.   *)
ASSUME NumeralsAssumption ==
    /\ Numerals \in Seq(STRING \ {SOH})
    /\ \A k \in DOMAIN Numerals : Letter(Numerals[k])
    /\ \A k, l \in DOMAIN Numerals : Numerals[k] = Numerals[l] => k = l
    /\ \A s \in Inputs : Len(s) <= Len(Numerals)

VARIABLES
    input,      \* history: the text the commands gave
    text,       \* the text as rewritten so far
    spans,      \* spans[k]: kind and value of the span of placeholder k - 1
    stage,      \* the stage: 1 to 4 take spans out, 5 escapes, 6 + k fills k in
    scan,       \* where in the text the stage, or Telegram, has come to
    split,      \* history: a number between two placeholders read like one
    meet,       \* history: two italic placeholders stood side by side
    open        \* Telegram: the entities that are not closed, innermost first

vars == <<input, text, spans, stage, scan, split, meet, open>>

Stages == <<"pre", "code", "link", "italic">>

(* History: from..to is the piece of the input that the character stands    *)
(* for (empty: to = from - 1), and in the entity it is written to be read   *)
(* in, or the mark of several characters that it goes on with.              *)
Char(c, from, to, in) ==
    [char |-> c, escaped |-> FALSE, from |-> from, to |-> to, in |-> in]

(* The characters chars, written for the piece from..to. *)
Marks(chars, ins, from, to) ==
    [k \in DOMAIN chars |-> Char(chars[k], IF k = 1 THEN from ELSE to + 1, to, ins[k])]

Init ==
    /\ input \in Inputs
    /\ text = [i \in DOMAIN input |-> Char(input[i], i, i, "plain")]
    /\ spans = <<>>
    /\ stage = 1
    /\ scan = 1
    /\ split = FALSE
    /\ meet = FALSE
    /\ open = <<>>

-------------------------------------------------------------------------------
(* Escaping.                                                                *)

Escape(s, chars, in) ==
    [k \in DOMAIN s |-> [s[k] EXCEPT !.escaped = s[k].char \in chars, !.in = in]]

EscapeBaseNoBackslash(s, in) == Escape(s, Special, in)             \* mutant
EscapeBase(s, in) == Escape(s, Special \cup {"\\"}, in)
EscapeCode(s, in) == Escape(s, {"\\", Tick}, in)
EscapeURL(s, in) == Escape(s, {"\\", ")"}, in)

-------------------------------------------------------------------------------
(* The spans that start at i: {} or one, as [last, value].                  *)

At(s, i, mark) ==
    /\ i + Len(mark) <= Len(s) + 1
    /\ \A k \in DOMAIN mark : s[i + k - 1].char = mark[k] /\ ~s[i + k - 1].escaped
Within(s, i, j) == {s[k].char : k \in i..j}
Earliest(S) == {k \in S : \A l \in S : k <= l}

Fence == <<Tick, Tick, Tick>>
OpenFence(s, i) == Marks(Fence \o <<"\n">>, <<"plain", "pre 2", "pre 3", "pre">>, s[i].from, s[i + 2].to)
CloseFence(s, i) == Marks(<<"\n">> \o Fence, <<"pre", "pre", "end 2", "end 3">>, s[i].from, s[i + 2].to)
Mark(c, in, s, i) == Marks(<<c>>, <<in>>, s[i].from, s[i].to)

PreAt(s, i) ==
    {[last |-> j + 2,
      value |-> OpenFence(s, i) \o EscapeCode(SubSeq(s, i + 3, j - 1), "pre") \o CloseFence(s, j)] :
        j \in Earliest({k \in i + 3..Len(s) : At(s, i, Fence) /\ At(s, k, Fence)})}

InTicks(s, i, j) == At(s, i, <<Tick>>) /\ At(s, j, <<Tick>>) /\ Within(s, i + 1, j - 1) \cap {Tick, "\n"} = {}
CodeAtShort(s, i) ==                                               \* mutant
    {[last |-> j,
      value |-> Mark(Tick, "plain", s, i) \o EscapeCode(SubSeq(s, i + 1, j - 2), "code")
                  \o Mark(Tick, "code", s, j)] : j \in {k \in i + 2..Len(s) : InTicks(s, i, k)}}
CodeAt(s, i) ==
    {[last |-> j,
      value |-> Mark(Tick, "plain", s, i) \o EscapeCode(SubSeq(s, i + 1, j - 1), "code")
                  \o Mark(Tick, "code", s, j)] : j \in {k \in i + 2..Len(s) : InTicks(s, i, k)}}

Under == <<"_", "_">>
Italic(in, s, i) == Marks(<<"_">>, <<in>>, s[i].from, s[i + 1].to)
ItalicAt(s, i) ==
    {[last |-> j + 1,
      value |-> Italic("plain", s, i) \o EscapeBase(SubSeq(s, i + 2, j - 1), "italic") \o Italic("italic", s, j)] :
        j \in Earliest({k \in i + 3..Len(s) :
                          At(s, i, Under) /\ At(s, k, Under) /\ "\n" \notin Within(s, i + 2, k - 1)})}

(* A backslash hides the next byte from the search that starts at i.        *)
Hidden(s, i, j) ==
    \E n \in 1..j - i :
        /\ n % 2 = 1
        /\ \A k \in j - n..j - 1 : s[k].char = "\\"
        /\ j - n > i => s[j - n - 1].char # "\\"
Seen(c, s, i, j) == {k \in i..j : s[k].char = c /\ ~Hidden(s, i, k)}

(* The place of ], and of the ) that matches the ( before i.                *)
ClosingBracket(s, i) == Earliest(Seen("]", s, i, Len(s)))
ClosingParen(s, i) ==
    Earliest({k \in Seen(")", s, i, Len(s)) :
                Cardinality(Seen(")", s, i, k)) = Cardinality(Seen("(", s, i, k)) + 1})

LinkFrom(s, i, b) ==
    {[last |-> p,
      value |-> Mark("[", "plain", s, i) \o EscapeBase(SubSeq(s, i + 1, b - 1), "link")
                  \o Marks(<<"]", "(">>, <<"link", "link 2">>, s[b].from, s[b + 1].to)
                  \o EscapeURL(SubSeq(s, b + 2, p - 1), "url") \o Mark(")", "url", s, p)] :
        p \in ClosingParen(s, b + 2)}
LinkAt(s, i) ==
    UNION {LinkFrom(s, i, b) :
             b \in {c \in ClosingBracket(s, i + 1) : At(s, i, <<"[">>) /\ At(s, c + 1, <<"(">>)}}

SpanAt(kind, s, i) ==
    CASE kind = "pre" -> PreAt(s, i)
      [] kind = "code" -> CodeAt(s, i)
      [] kind = "link" -> LinkAt(s, i)
      [] kind = "italic" -> ItalicAt(s, i)

-------------------------------------------------------------------------------
(* The stages.                                                              *)

(* Characters i to j of s, replaced by v. *)
Splice(s, i, j, v) == SubSeq(s, 1, i - 1) \o v \o SubSeq(s, j + 1, Len(s))

Id(k) == <<SOH, Numerals[k], SOH>>      \* of spans[k]
Placeholder(k, from, to) == Marks(Id(k), <<"plain", "plain", "plain">>, from, to)

SpanStarts == {i \in scan..Len(text) : SpanAt(Stages[stage], text, i) # {}}

Replace ==
    /\ stage <= 4
    /\ \E i \in Earliest(SpanStarts) : \E span \in SpanAt(Stages[stage], text, i) :
         /\ text' = Splice(text, i, span.last,
                           Placeholder(Len(spans) + 1, text[i].from, text[span.last].to))
         /\ spans' = Append(spans, [kind |-> Stages[stage], value |-> span.value])
         /\ scan' = i + 3
    /\ UNCHANGED <<input, stage, split, meet, open>>

NextStage ==
    /\ stage <= 4
    /\ SpanStarts = {}
    /\ stage' = stage + 1 /\ scan' = 1
    /\ UNCHANGED <<input, text, spans, split, meet, open>>

(* Between two placeholders, the number of a span reads like a third.       *)
Reads(s, i) == \E k \in DOMAIN spans : At(s, i, Id(k))
Ambiguous(s) == \E i \in DOMAIN s : Reads(s, i) /\ Reads(s, i + 2)

(* Two italic spans with nothing between them: their marks meet as __.      *)
ItalicsMeet ==
    \E k, l \in DOMAIN spans :
        /\ spans[k].kind = "italic" /\ spans[l].kind = "italic"
        /\ \E i \in DOMAIN text : At(text, i, Id(k)) /\ At(text, i + 3, Id(l))

Base ==
    /\ stage = 5
    /\ text' = EscapeBase(text, "plain")
    /\ split' = (Ambiguous(text) \/ \E k \in DOMAIN spans : Ambiguous(spans[k].value))
    /\ meet' = ItalicsMeet
    /\ stage' = 6 /\ scan' = 1
    /\ UNCHANGED <<input, spans, open>>

Filling == stage - 5    \* the span that is being filled in
Places == {i \in scan..Len(text) : At(text, i, Id(Filling))}
Done == stage >= 6 /\ Filling > Len(spans)

Restore ==
    /\ stage >= 6 /\ ~Done
    /\ \E i \in Earliest(Places) :
         /\ text' = Splice(text, i, i + 2, spans[Filling].value)
         /\ scan' = i + Len(spans[Filling].value)
    /\ UNCHANGED <<input, spans, stage, split, meet, open>>

NextPlaceholder ==
    /\ stage >= 6 /\ ~Done
    /\ Places = {}
    /\ stage' = stage + 1 /\ scan' = 1
    /\ UNCHANGED <<input, text, spans, split, meet, open>>

-------------------------------------------------------------------------------
(* How Telegram reads a MarkdownV2 text.                                    *)

Entity(stack) == IF stack = <<>> THEN "plain" ELSE Head(stack)

(* What it makes of the text from i on: how many characters it takes, and   *)
(* what is open then; {} if it refuses the text.  A backslash that is open  *)
(* hides the next one, which may be the backslash of an escaped character.  *)
Reading(s, i, stack) ==
    LET hidden == Entity(stack) = "\\"
        rest == IF hidden THEN Tail(stack) ELSE stack
        in == Entity(rest)
        c == s[i].char
        Comes(mark) == At(s, i + 1, mark)
        To(n, entity) == {[takes |-> n, open |-> <<entity>> \o rest]}
        Back(n) == {[takes |-> n, open |-> Tail(rest)]}
        Stay == {[takes |-> 1, open |-> rest]}
        Verbatim ==
            CASE in = "url" -> IF c = ")" THEN Back(1) ELSE Stay
              [] in = "code" -> IF c = Tick THEN Back(1) ELSE Stay
              [] in = "pre" -> IF c # Tick THEN Stay ELSE IF Comes(<<Tick, Tick>>) THEN Back(3) ELSE {}
        Marked ==
            CASE c = Tick -> IF Comes(<<Tick, Tick>>) THEN To(3, "pre") ELSE To(1, "code")
              [] c = "_" /\ Comes(<<"_">>) -> IF in = "underline" THEN Back(2) ELSE To(2, "underline")
              [] c = "_" /\ ~Comes(<<"_">>) -> IF in = "italic" THEN Back(1) ELSE To(1, "italic")
              [] c = "[" -> To(1, "link")
              [] c = "]" /\ in = "link" ->
                   IF Comes(<<"(">>) THEN {[takes |-> 2, open |-> <<"url">> \o Tail(rest)]} ELSE Back(1)
              [] OTHER -> IF c \in Special THEN {} ELSE Stay
    IN  IF hidden # s[i].escaped THEN Stay
        ELSE IF c = "\\" /\ i < Len(s) THEN To(1, "\\")
        ELSE IF in \in {"url", "code", "pre"} THEN Verbatim
        ELSE Marked

Read ==
    /\ Done /\ scan <= Len(text)
    /\ \E r \in Reading(text, scan, open) : scan' = scan + r.takes /\ open' = r.open
    /\ UNCHANGED <<input, text, spans, stage, split, meet>>

Next == Replace \/ NextStage \/ Base \/ Restore \/ NextPlaceholder \/ Read
Spec == Init /\ [][Next]_vars

-------------------------------------------------------------------------------
(* Properties.                                                              *)

(* A span whose text holds the placeholder of an earlier one: the code of a *)
(* link's text, a link in italics.  The inner one is never filled in.       *)
Nested == \E k \in DOMAIN spans : SOH \in Within(spans[k].value, 1, Len(spans[k].value))

Kept(e, i) == e.char = input[i] /\ e.from = i /\ e.to = i

(* The letters of the text reach Telegram, all of them and in their order,  *)
(* and no placeholder with them, unless spans nest or the number of a span  *)
(* stands alone between two spans and reads like its placeholder.           *)
LettersKept ==
    Done /\ ~Nested /\ ~split =>
        /\ \A i \in DOMAIN input : Letter(input[i]) => \E p \in DOMAIN text : Kept(text[p], i)
        /\ \A p \in DOMAIN text : Letter(text[p].char) =>
             /\ text[p].from \in DOMAIN input /\ Kept(text[p], text[p].from)
             /\ \A q \in 1..p - 1 : Letter(text[q].char) => text[q].from < text[p].from

(* Telegram accepts every text, whatever is open, broken, crossed or nested *)
(* in the one the commands gave, and reads every character in the entity it *)
(* was written for, unless the number of a span stands alone between two or *)
(* two italic spans meet.                                                   *)
ReadAsMeant ==
    Done /\ ~split /\ ~meet =>
        IF scan > Len(text) THEN open = <<>>
        ELSE Entity(open) = text[scan].in /\ Reading(text, scan, open) # {}
===============================================================================
