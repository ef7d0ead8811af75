---------------------------- MODULE MarkdownProofs ----------------------------
(***************************************************************************)
(* Proofs about Markdown.  A text is a chain: each character stands for    *)
(* the piece of the input after that of the one before, a placeholder is   *)
(* whole, and what Telegram has open after a character is what the next    *)
(* one is written for.  Taking out, escaping and filling in keep chains.   *)
(***************************************************************************)
EXTENDS Markdown, FiniteSetTheorems, SequenceTheorems, WellFoundedInduction, TLAPS

(* The characters; no prover knows that a literal is a STRING.  Only special *)
(* ones are ever escaped.                                                   *)
Chars == STRING \cup Special \cup {SOH, "\\", "\n"}
Digits == {Numerals[k] : k \in DOMAIN Numerals}
Entities == {"plain", "pre", "code", "link", "url", "italic"}
Ins == Entities \cup {"pre 2", "pre 3", "end 2", "end 3", "link 2"}
Escapable == Special \cup {"\\"}
Elem ==
    {e \in [char : Chars, escaped : BOOLEAN, from : Nat, to : Nat, in : Ins] :
        e.escaped => e.char \in Escapable}

(* The parts of a placeholder: only the first stands for a piece.           *)
Opening(e) == e.char = SOH /\ e.from <= e.to
Number(e) == e.char \in Digits /\ e.to < e.from
Closing(e) == e.char = SOH /\ e.to < e.from
IdPart(e) == e.char = SOH \/ Number(e)
IdBefore(e) == IF Number(e) THEN 1 ELSE IF Closing(e) THEN 2 ELSE 0
IdAfter(e) == IF Opening(e) THEN 1 ELSE IF Number(e) THEN 2 ELSE 0

(* What Telegram may have open after e, if it has e.in open before.         *)
Danger(in) ==
    CASE in \in {"pre", "code"} -> {"\\", Tick}
      [] in = "url" -> {"\\", ")"}
      [] OTHER -> Special \cup {"\\"}
Turns ==
    {<<"plain", Tick, "code">>, <<"code", Tick, "plain">>,
     <<"plain", Tick, "pre 2">>, <<"pre 2", Tick, "pre 3">>, <<"pre 3", Tick, "pre">>,
     <<"pre", Tick, "end 2">>, <<"end 2", Tick, "end 3">>, <<"end 3", Tick, "plain">>,
     <<"plain", "[", "link">>, <<"link", "]", "link 2">>, <<"link 2", "(", "url">>,
     <<"url", ")", "plain">>, <<"plain", "_", "italic">>, <<"italic", "_", "plain">>}
Leads(e, in) ==
    \/ in = e.in /\ e.in \in Entities /\ (e.escaped \/ e.char \notin Danger(e.in))
    \/ ~e.escaped /\ <<e.in, e.char, in>> \in Turns

(* A chain of characters for lo..hi, read from entity x to y (unless raw).  *)
Begins(raw, e, lo, x) == e.from = lo /\ IdBefore(e) = 0 /\ (raw \/ e.in = x)
Finishes(raw, e, hi, y) == e.to = hi /\ IdAfter(e) = 0 /\ (raw \/ Leads(e, y))
Link(raw, a, b) == b.from = a.to + 1 /\ IdBefore(b) = IdAfter(a) /\ (raw \/ Leads(a, b.in))
Piece(raw, s, lo, hi, x, y) ==
    /\ s \in Seq(Elem)
    /\ \A p \in 1..Len(s) : s[p].from <= s[p].to + 1
    /\ IF s = <<>> THEN hi + 1 = lo /\ (raw \/ x = y)
       ELSE /\ Begins(raw, s[1], lo, x) /\ Finishes(raw, s[Len(s)], hi, y)
            /\ \A p \in 1..Len(s) - 1 : Link(raw, s[p], s[p + 1])

(* The characters of a text. *)
Own(e) == e.from = e.to /\ e.from \in 1..Len(input) /\ e.char = input[e.from]
Blank(e) == ~Letter(e.char) /\ \A i \in e.from..e.to : i \in 1..Len(input) /\ ~Letter(input[i])
Sound(e) == Own(e) \/ Blank(e) \/ IdPart(e)
Raw(e) == (Own(e) \/ IdPart(e)) /\ ~e.escaped /\ e.in = "plain"

(* Two marks that Telegram would take for one, and a fake placeholder.      *)
Plainly(e, c) == e.char = c /\ ~e.escaped
Double(a, b) ==
    \/ Plainly(a, Tick) /\ a.in = "plain" /\ b.in = "code" /\ Plainly(b, Tick)
    \/ Plainly(a, "_") /\ a.in \in {"plain", "italic"} /\ Plainly(b, "_")
NoDouble(s) == \A p \in 1..Len(s) - 1 : ~Double(s[p], s[p + 1])
Used == {Numerals[k] : k \in 1..Len(spans)}
NoFake(s) ==
    \A p \in 2..Len(s) - 1 :
        s[p].char \in Used /\ ~Number(s[p]) => s[p - 1].char # SOH \/ s[p + 1].char # SOH

(* The value of a span. *)
Bare(c) == c # SOH /\ c \notin Digits
Ends(v, kind) ==
    /\ v # <<>> /\ v[1].from <= v[Len(v)].to
    /\ v[1].in = "plain" /\ Bare(v[1].char) /\ Bare(v[Len(v)].char)
    /\ \A p \in 2..Len(v) : v[p].in # "plain"
    /\ (v[1].char = "_" \/ v[Len(v)].char = "_") => kind = "italic"
Older(v, k) == \A p \in 1..Len(v) - 1 : Opening(v[p]) => \E m \in 1..k - 1 : v[p + 1].char = Numerals[m]
Value(k, v, kind) ==
    /\ Piece(FALSE, v, v[1].from, v[Len(v)].to, "plain", "plain")
    /\ Ends(v, kind) /\ NoDouble(v) /\ Older(v, k)
    /\ \A p \in 1..Len(v) : Sound(v[p])

(* The placeholder at p is that of spans[k]. *)
Names(s, p, k, v) ==
    s[p + 1].char = Numerals[k] /\ s[p].from = v[1].from /\ s[p].to = v[Len(v)].to
Of(s, p, k) == Names(s, p, k, spans[k].value)
ItalicNumerals == {Numerals[k] : k \in {m \in 1..Len(spans) : spans[m].kind = "italic"}}
ItalicId(s, p, N) ==
    p + 2 <= Len(s) /\ Opening(s[p]) /\ s[p].in = "plain" /\ s[p + 1].char \in N
Apart(s, N) ==
    \A p \in 1..Len(s) :
        /\ Plainly(s[p], "_") /\ s[p].in = "italic" => ~ItalicId(s, p + 1, N)
        /\ ItalicId(s, p, N) /\ p + 3 <= Len(s) => ~Plainly(s[p + 3], "_") /\ ~ItalicId(s, p + 3, N)

(* The placeholder at p is to be filled in, f and those after it being left  *)
(* from character "from" on; or it is one that a span holds.                *)
Waiting(s, p, from, f) ==
    s[p].in = "plain" /\ \E k \in f..Len(spans) : Of(s, p, k) /\ (p < from => k > f)
Buried(s, p, f) ==
    s[p].in # "plain" /\ Nested /\ \E k \in 1..f - 1 : s[p + 1].char = Numerals[k]

MdTypes ==
    /\ input \in Seq(STRING \ {SOH})
    /\ text \in Seq(Elem)
    /\ spans \in Seq([kind : {"pre", "code", "link", "italic"}, value : Seq(Elem)])
    /\ Len(spans) <= Len(Numerals) /\ Len(input) <= Len(Numerals)
    /\ stage \in Nat /\ stage >= 1 /\ stage <= 6 + Len(spans)
    /\ scan \in Nat \ {0}
    /\ split \in BOOLEAN /\ meet \in BOOLEAN

Values == \A k \in 1..Len(spans) : Value(k, spans[k].value, spans[k].kind)

(* Each span begins at a place of its own, which the text has lost: so there *)
(* are no more of them than places, and than numbers.                       *)
StartsApart ==
    \A k \in 1..Len(spans) :
        /\ spans[k].value[1].from \in 1..Len(input)
        /\ \A l \in 1..Len(spans) : spans[l].value[1].from = spans[k].value[1].from => l = k
        /\ \A p \in 1..Len(text) : Own(text[p]) => text[p].from # spans[k].value[1].from

(* Before the text is escaped. *)
RawInv ==
    stage <= 5 =>
        /\ Piece(TRUE, text, 1, Len(input), "plain", "plain")
        /\ \A p \in 1..Len(text) : Raw(text[p])
        /\ \A p \in 1..Len(text) - 1 :
              Opening(text[p]) => \E k \in 1..Len(spans) : Of(text, p, k)
        /\ StartsApart
        /\ open = <<>>

(* And after, unless a number of the text reads like a placeholder. *)
ReadyInv ==
    stage >= 6 /\ ~split =>
        /\ Piece(FALSE, text, 1, Len(input), "plain", "plain")
        /\ \A p \in 1..Len(text) : Sound(text[p])
        /\ NoFake(text) /\ \A k \in 1..Len(spans) : NoFake(spans[k].value)
        /\ \A p \in 1..Len(text) - 1 : Opening(text[p]) =>
              Waiting(text, p, scan, Filling) \/ Buried(text, p, Filling)
        /\ ~meet => NoDouble(text) /\ Apart(text, ItalicNumerals)

Stack(in) == IF in = "plain" THEN <<>> ELSE <<in>>
ReadTo(s, p, stack) ==
    \/ p = Len(s) + 1 /\ stack = <<>>
    \/ p \in 1..Len(s) /\ s[p].in \in Entities /\ stack = Stack(s[p].in)
ReadInv ==
    /\ ~Done => open = <<>>
    /\ Done /\ ~split /\ ~meet => ReadTo(text, scan, open)

MdInv == MdTypes /\ Values /\ RawInv /\ ReadyInv /\ ReadInv

-------------------------------------------------------------------------------
(* Chains.                                                                  *)

LEMMA ConcatAt ==
    ASSUME NEW a \in Seq(Elem), NEW b \in Seq(Elem)
    PROVE  /\ a \o b \in Seq(Elem) /\ Len(a \o b) = Len(a) + Len(b)
           /\ \A p \in 1..Len(a) : (a \o b)[p] = a[p]
           /\ \A p \in 1..Len(b) : (a \o b)[Len(a) + p] = b[p]
  BY ConcatProperties, SMT

LEMMA PieceConcat ==
    ASSUME NEW raw \in BOOLEAN, NEW a, NEW b,
           NEW lo \in Int, NEW m \in Int, NEW hi \in Int, NEW x, NEW y, NEW z,
           Piece(raw, a, lo, m, x, y), Piece(raw, b, m + 1, hi, y, z)
    PROVE  Piece(raw, a \o b, lo, hi, x, z)
  <1> DEFINE c == a \o b
  <1>1. /\ a \in Seq(Elem) /\ b \in Seq(Elem)
        /\ \A p \in 1..Len(a) : a[p].from <= a[p].to + 1
        /\ \A p \in 1..Len(b) : b[p].from <= b[p].to + 1
    BY DEF Piece
  <1>2. /\ c \in Seq(Elem) /\ Len(c) = Len(a) + Len(b)
        /\ \A p \in 1..Len(a) : c[p] = a[p]
        /\ \A p \in 1..Len(b) : c[Len(a) + p] = b[p]
    BY <1>1, ConcatAt
  <1>3. Len(a) \in Nat /\ Len(b) \in Nat
    BY <1>1, LenProperties
  <1>4. CASE a = <<>>
    <2>1. c = b
      BY <1>1, <1>4, ConcatEmptySeq
    <2>2. lo = m + 1 /\ (raw \/ x = y)
      BY <1>4 DEF Piece
    <2> HIDE DEF c
    <2>3. Piece(raw, c, lo, hi, x, z)
      BY <2>1, <2>2 DEF Piece, Begins
    <2> QED
      BY <2>3 DEF c
  <1>5. CASE b = <<>>
    <2>1. c = a
      BY <1>1, <1>5, ConcatEmptySeq
    <2>2. hi = m /\ (raw \/ z = y)
      BY <1>5 DEF Piece
    <2> HIDE DEF c
    <2>3. Piece(raw, c, lo, hi, x, z)
      BY <2>1, <2>2 DEF Piece, Finishes
    <2> QED
      BY <2>3 DEF c
  <1>6. CASE a # <<>> /\ b # <<>>
    <2>1. /\ Begins(raw, a[1], lo, x) /\ Finishes(raw, a[Len(a)], m, y)
          /\ \A p \in 1..Len(a) - 1 : Link(raw, a[p], a[p + 1])
          /\ Begins(raw, b[1], m + 1, y) /\ Finishes(raw, b[Len(b)], hi, z)
          /\ \A p \in 1..Len(b) - 1 : Link(raw, b[p], b[p + 1])
      BY <1>6 DEF Piece
    <2>2. Len(a) > 0 /\ Len(b) > 0
      BY <1>1, <1>6, EmptySeq
    <2> HIDE DEF c
    <2>3. c # <<>> /\ c[1] = a[1] /\ c[Len(c)] = b[Len(b)]
      BY <1>2, <1>3, <2>2, EmptySeq
    <2>4. Link(raw, a[Len(a)], b[1])
      BY <2>1 DEF Begins, Finishes, Link
    <2>5. ASSUME NEW p \in 1..Len(c) - 1 PROVE Link(raw, c[p], c[p + 1])
      <3>1. CASE p < Len(a)
        <4>1. p \in 1..Len(a) - 1 /\ c[p] = a[p] /\ c[p + 1] = a[p + 1]
          BY <1>2, <1>3, <3>1
        <4> QED
          BY <4>1, <2>1
      <3>2. CASE p = Len(a)
        <4>1. c[p] = a[Len(a)] /\ c[p + 1] = b[1]
          BY <1>2, <1>3, <2>2, <3>2
        <4> QED
          BY <4>1, <2>4
      <3>3. CASE p > Len(a)
        <4> DEFINE r == p - Len(a)
        <4>1. r \in 1..Len(b) - 1 /\ p = Len(a) + r /\ p + 1 = Len(a) + (r + 1)
          BY <1>2, <1>3, <3>3
        <4> HIDE DEF r
        <4>2. c[p] = b[r] /\ c[p + 1] = b[r + 1]
          BY <4>1, <1>2, <1>3
        <4> QED
          BY <4>1, <4>2, <2>1
      <3> QED
        BY <3>1, <3>2, <3>3, <1>2, <1>3
    <2>6. ASSUME NEW p \in 1..Len(c) PROVE c[p].from <= c[p].to + 1
      <3>1. CASE p <= Len(a)
        BY <3>1, <1>1, <1>2, <1>3
      <3>2. CASE p > Len(a)
        <4> DEFINE r == p - Len(a)
        <4>1. r \in 1..Len(b) /\ p = Len(a) + r
          BY <1>2, <1>3, <3>2
        <4> HIDE DEF r
        <4> QED
          BY <4>1, <1>1, <1>2
      <3> QED
        BY <3>1, <3>2, <1>2, <1>3
    <2>7. Piece(raw, c, lo, hi, x, z)
      BY <1>2, <2>1, <2>3, <2>5, <2>6 DEF Piece
    <2> QED
      BY <2>7 DEF c
  <1> QED
    BY <1>4, <1>5, <1>6

LEMMA ElemAt ==
    ASSUME NEW s \in Seq(Elem), NEW p \in 1..Len(s)
    PROVE  /\ s # <<>> /\ s[p] \in Elem
           /\ s[p].char \in Chars /\ s[p].from \in Nat /\ s[p].to \in Nat
           /\ s[p].in \in Ins /\ s[p].escaped \in BOOLEAN
           /\ s[p].escaped => s[p].char \in Escapable
  <1>1. s # <<>> /\ s[p] \in Elem
    BY EmptySeq, ElementOfSeq
  <1> QED
    BY <1>1 DEF Elem

LEMMA SubAt ==
    ASSUME NEW s \in Seq(Elem), NEW i \in 1..Len(s) + 1, NEW j \in 0..Len(s), i <= j + 1
    PROVE  /\ SubSeq(s, i, j) \in Seq(Elem) /\ Len(SubSeq(s, i, j)) = j + 1 - i
           /\ \A p \in 1..j + 1 - i : SubSeq(s, i, j)[p] = s[i + p - 1]
  <1>1. Len(s) \in Nat
    BY LenProperties
  <1>2. \A p \in i..j : s[p] \in Elem
    BY <1>1, ElementOfSeq
  <1> QED
    BY <1>1, <1>2, SubSeqProperties, SMT

(* What precedes character i, what follows it, and what stands between two. *)
LEMMA PieceLeft ==
    ASSUME NEW raw \in BOOLEAN, NEW s, NEW lo \in Int, NEW hi \in Int, NEW x, NEW y,
           Piece(raw, s, lo, hi, x, y), NEW i \in 1..Len(s), IdBefore(s[i]) = 0
    PROVE  Piece(raw, SubSeq(s, 1, i - 1), lo, s[i].from - 1, x, s[i].in)
  <1> DEFINE c == SubSeq(s, 1, i - 1)
  <1>1. s \in Seq(Elem) /\ Len(s) \in Nat
    BY LenProperties DEF Piece
  <1>2. c \in Seq(Elem) /\ Len(c) = i - 1 /\ \A p \in 1..i - 1 : c[p] = s[p]
    BY <1>1, SubAt
  <1>3. s # <<>> /\ s[i] \in Elem /\ s[i].from \in Nat
    BY <1>1, ElemAt
  <1>4. /\ Begins(raw, s[1], lo, x) /\ \A p \in 1..Len(s) - 1 : Link(raw, s[p], s[p + 1])
        /\ \A p \in 1..Len(s) : s[p].from <= s[p].to + 1
    BY <1>3 DEF Piece
  <1> HIDE DEF c
  <1>5. CASE i = 1
    <2>1. c = <<>>
      BY <1>2, <1>5, EmptySeq
    <2> QED
      BY <1>2, <1>3, <1>4, <1>5, <2>1 DEF Piece, Begins, c
  <1>6. CASE i > 1
    <2>1. c # <<>> /\ c[1] = s[1] /\ c[Len(c)] = s[i - 1]
      BY <1>1, <1>2, <1>6, EmptySeq
    <2>2. s[i - 1] \in Elem /\ s[i - 1].to \in Nat /\ Link(raw, s[i - 1], s[i])
      <3>1. i - 1 \in 1..Len(s) /\ i - 1 \in 1..Len(s) - 1 /\ (i - 1) + 1 = i
        BY <1>1, <1>6
      <3>2. Link(raw, s[i - 1], s[(i - 1) + 1])
        BY <3>1, <1>4
      <3> QED
        BY <1>1, <3>1, <3>2, ElemAt
    <2>3. Finishes(raw, c[Len(c)], s[i].from - 1, s[i].in)
      BY <2>1, <2>2 DEF Link, Finishes
    <2>4. \A p \in 1..Len(c) - 1 : Link(raw, c[p], c[p + 1])
      <3> TAKE p \in 1..Len(c) - 1
      <3>1. p \in 1..i - 1 /\ p + 1 \in 1..i - 1 /\ p \in 1..Len(s) - 1
        BY <1>1, <1>2
      <3>2. c[p] = s[p] /\ c[p + 1] = s[p + 1]
        BY <1>2, <3>1
      <3> QED
        BY <1>4, <3>1, <3>2
    <2>5. \A p \in 1..Len(c) : c[p].from <= c[p].to + 1
      <3> TAKE p \in 1..Len(c)
      <3>1. p \in 1..i - 1 /\ p \in 1..Len(s)
        BY <1>1, <1>2
      <3>2. c[p] = s[p]
        BY <1>2, <3>1
      <3> QED
        BY <1>4, <3>1, <3>2
    <2>6. Piece(raw, c, lo, s[i].from - 1, x, s[i].in)
      BY <1>2, <1>4, <2>1, <2>3, <2>4, <2>5 DEF Piece
    <2> QED
      BY <2>6 DEF c
  <1> QED
    BY <1>1, <1>5, <1>6

LEMMA PieceRight ==
    ASSUME NEW raw \in BOOLEAN, NEW s, NEW lo \in Int, NEW hi \in Int, NEW x, NEW y,
           Piece(raw, s, lo, hi, x, y), NEW j \in 1..Len(s), IdAfter(s[j]) = 0
    PROVE  \E w : /\ raw \/ Leads(s[j], w)
                  /\ Piece(raw, SubSeq(s, j + 1, Len(s)), s[j].to + 1, hi, w, y)
  <1> DEFINE c == SubSeq(s, j + 1, Len(s))
  <1>1. s \in Seq(Elem) /\ Len(s) \in Nat
    BY LenProperties DEF Piece
  <1>2. c \in Seq(Elem) /\ Len(c) = Len(s) - j /\ \A p \in 1..Len(s) - j : c[p] = s[j + p]
    BY <1>1, SubAt
  <1>3. s # <<>> /\ s[j] \in Elem /\ s[j].to \in Nat
    BY <1>1, ElemAt
  <1>4. /\ Finishes(raw, s[Len(s)], hi, y) /\ \A p \in 1..Len(s) - 1 : Link(raw, s[p], s[p + 1])
        /\ \A p \in 1..Len(s) : s[p].from <= s[p].to + 1
    BY <1>3 DEF Piece
  <1> HIDE DEF c
  <1>5. CASE j = Len(s)
    <2>1. c = <<>>
      BY <1>1, <1>2, <1>5, EmptySeq
    <2>2. Piece(raw, c, s[j].to + 1, hi, y, y) /\ (raw \/ Leads(s[j], y))
      BY <1>2, <1>3, <1>4, <1>5, <2>1 DEF Piece, Finishes
    <2> QED
      BY <2>2 DEF c
  <1>6. CASE j < Len(s)
    <2>1. c # <<>> /\ c[1] = s[j + 1] /\ c[Len(c)] = s[Len(s)]
      <3>1. Len(c) > 0 /\ j + Len(c) = Len(s) /\ 1 \in 1..Len(s) - j /\ Len(c) \in 1..Len(s) - j
        BY <1>1, <1>2, <1>6
      <3>2. c[1] = s[j + 1] /\ c[Len(c)] = s[j + Len(c)]
        BY <1>2, <3>1
      <3> QED
        BY <1>2, <3>1, <3>2, EmptySeq
    <2>2. Link(raw, s[j], s[j + 1])
      BY <1>1, <1>4, <1>6
    <2>3. Begins(raw, c[1], s[j].to + 1, s[j + 1].in) /\ (raw \/ Leads(s[j], s[j + 1].in))
      BY <2>1, <2>2 DEF Link, Begins
    <2>4. \A p \in 1..Len(c) - 1 : Link(raw, c[p], c[p + 1])
      <3> TAKE p \in 1..Len(c) - 1
      <3>1. /\ p \in 1..Len(s) - j /\ p + 1 \in 1..Len(s) - j
            /\ j + p \in 1..Len(s) - 1 /\ j + (p + 1) = (j + p) + 1
        BY <1>1, <1>2
      <3>2. c[p] = s[j + p]
        BY <1>2, <3>1
      <3>3. c[p + 1] = s[j + (p + 1)]
        BY <1>2, <3>1
      <3>4. Link(raw, s[j + p], s[(j + p) + 1])
        BY <1>4, <3>1
      <3> QED
        BY <3>1, <3>2, <3>3, <3>4
    <2>5. \A p \in 1..Len(c) : c[p].from <= c[p].to + 1
      <3> TAKE p \in 1..Len(c)
      <3>1. p \in 1..Len(s) - j /\ j + p \in 1..Len(s)
        BY <1>1, <1>2
      <3>2. c[p] = s[j + p]
        BY <1>2, <3>1
      <3> QED
        BY <1>4, <3>1, <3>2
    <2>6. Piece(raw, c, s[j].to + 1, hi, s[j + 1].in, y)
      BY <1>2, <1>4, <2>1, <2>3, <2>4, <2>5 DEF Piece
    <2> QED
      BY <2>3, <2>6 DEF c
  <1> QED
    BY <1>1, <1>5, <1>6

LEMMA PieceBetween ==
    ASSUME NEW s, NEW lo \in Int, NEW hi \in Int, NEW x, NEW y, NEW z,
           Piece(TRUE, s, lo, hi, x, y), NEW i \in 1..Len(s), NEW j \in 1..Len(s), i < j,
           IdAfter(s[i]) = 0, IdBefore(s[j]) = 0
    PROVE  Piece(TRUE, SubSeq(s, i + 1, j - 1), s[i].to + 1, s[j].from - 1, z, z)
  <1> DEFINE c == SubSeq(s, i + 1, j - 1)
  <1>1. s \in Seq(Elem) /\ Len(s) \in Nat
    BY LenProperties DEF Piece
  <1>2. c \in Seq(Elem) /\ Len(c) = j - i - 1 /\ \A p \in 1..j - i - 1 : c[p] = s[i + p]
    <2>1. i + 1 \in 1..Len(s) + 1 /\ j - 1 \in 0..Len(s) /\ i + 1 <= (j - 1) + 1
      BY <1>1
    <2>2. /\ c \in Seq(Elem) /\ Len(c) = (j - 1) + 1 - (i + 1)
          /\ \A p \in 1..(j - 1) + 1 - (i + 1) : c[p] = s[(i + 1) + p - 1]
      BY <1>1, <2>1, SubAt
    <2> HIDE DEF c
    <2>3. \A p \in 1..j - i - 1 : c[p] = s[i + p]
      <3> TAKE p \in 1..j - i - 1
      <3>1. p \in 1..(j - 1) + 1 - (i + 1) /\ (i + 1) + p - 1 = i + p
        BY <1>1
      <3> QED
        BY <2>2, <3>1
    <2> QED
      BY <1>1, <2>2, <2>3
  <1>3. /\ s # <<>> /\ s[i] \in Elem /\ s[j] \in Elem /\ s[j - 1] \in Elem
        /\ s[i].to \in Nat /\ s[j].from \in Nat /\ s[j - 1].to \in Nat
    <2>1. j - 1 \in 1..Len(s)
      BY <1>1
    <2> QED
      BY <1>1, <2>1, ElemAt
  <1>4. /\ \A p \in 1..Len(s) - 1 : Link(TRUE, s[p], s[p + 1])
        /\ \A p \in 1..Len(s) : s[p].from <= s[p].to + 1
    BY <1>3 DEF Piece
  <1>5. Link(TRUE, s[i], s[i + 1]) /\ Link(TRUE, s[j - 1], s[j])
    <2>1. i \in 1..Len(s) - 1 /\ j - 1 \in 1..Len(s) - 1 /\ (j - 1) + 1 = j
      BY <1>1
    <2> QED
      BY <1>4, <2>1
  <1> HIDE DEF c
  <1>6. CASE j = i + 1
    <2>1. c = <<>>
      BY <1>2, <1>6, EmptySeq
    <2> QED
      BY <1>2, <1>3, <1>5, <1>6, <2>1 DEF Piece, Link, c
  <1>7. CASE j > i + 1
    <2>1. c # <<>> /\ c[1] = s[i + 1] /\ c[Len(c)] = s[j - 1]
      BY <1>1, <1>2, <1>7, EmptySeq
    <2>2. Begins(TRUE, c[1], s[i].to + 1, z)
      BY <2>1, <1>5 DEF Link, Begins
    <2>3. Finishes(TRUE, c[Len(c)], s[j].from - 1, z)
      BY <2>1, <1>5, <1>3 DEF Link, Finishes
    <2>4. \A p \in 1..Len(c) - 1 : Link(TRUE, c[p], c[p + 1])
      <3> TAKE p \in 1..Len(c) - 1
      <3>1. /\ p \in 1..j - i - 1 /\ p + 1 \in 1..j - i - 1
            /\ i + p \in 1..Len(s) - 1 /\ i + (p + 1) = (i + p) + 1
        BY <1>1, <1>2
      <3>2. c[p] = s[i + p]
        BY <1>2, <3>1
      <3>3. c[p + 1] = s[i + (p + 1)]
        BY <1>2, <3>1
      <3>4. Link(TRUE, s[i + p], s[(i + p) + 1])
        BY <1>4, <3>1
      <3> QED
        BY <3>1, <3>2, <3>3, <3>4
    <2>5. \A p \in 1..Len(c) : c[p].from <= c[p].to + 1
      <3> TAKE p \in 1..Len(c)
      <3>1. p \in 1..j - i - 1 /\ i + p \in 1..Len(s)
        BY <1>1, <1>2
      <3>2. c[p] = s[i + p]
        BY <1>2, <3>1
      <3> QED
        BY <1>4, <3>1, <3>2
    <2>6. Piece(TRUE, c, s[i].to + 1, s[j].from - 1, z, z)
      BY <1>2, <2>1, <2>2, <2>3, <2>4, <2>5 DEF Piece
    <2> QED
      BY <2>6 DEF c
  <1>8. j = i + 1 \/ j > i + 1
    BY <1>1
  <1> QED
    BY <1>6, <1>7, <1>8

(* c is s with v in place of the characters i to j. *)
Spliced(c, s, v, i, j) ==
    /\ c \in Seq(Elem) /\ Len(c) = Len(s) + Len(v) - (j - i + 1)
    /\ \A p \in 1..i - 1 : c[p] = s[p]
    /\ \A p \in 1..Len(v) : c[i - 1 + p] = v[p]
    /\ \A p \in 1..Len(s) - j : c[i - 1 + Len(v) + p] = s[j + p]

LEMMA SpliceAt ==
    ASSUME NEW s \in Seq(Elem), NEW v \in Seq(Elem),
           NEW i \in 1..Len(s), NEW j \in 1..Len(s), i <= j
    PROVE  Spliced(Splice(s, i, j, v), s, v, i, j)
  <1> DEFINE l == SubSeq(s, 1, i - 1)
             r == SubSeq(s, j + 1, Len(s))
  <1>1. Len(s) \in Nat /\ Len(v) \in Nat
    BY LenProperties
  <1>2. l \in Seq(Elem) /\ Len(l) = i - 1 /\ \A p \in 1..i - 1 : l[p] = s[p]
    BY <1>1, SubAt
  <1>3. r \in Seq(Elem) /\ Len(r) = Len(s) - j /\ \A p \in 1..Len(s) - j : r[p] = s[j + p]
    BY <1>1, SubAt
  <1> DEFINE lv == l \o v
  <1>4. Splice(s, i, j, v) = lv \o r
    BY DEF Splice
  <1> HIDE DEF l, r
  <1>5. /\ lv \in Seq(Elem) /\ Len(lv) = i - 1 + Len(v)
        /\ \A p \in 1..i - 1 : lv[p] = s[p]
        /\ \A p \in 1..Len(v) : lv[i - 1 + p] = v[p]
    <2>1. /\ lv \in Seq(Elem) /\ Len(lv) = Len(l) + Len(v)
          /\ \A p \in 1..Len(l) : lv[p] = l[p]
          /\ \A p \in 1..Len(v) : lv[Len(l) + p] = v[p]
      BY <1>2, ConcatAt
    <2> HIDE DEF lv
    <2> QED
      BY <1>2, <2>1
  <1> HIDE DEF lv
  <1> DEFINE t == lv \o r
  <1>6. /\ t \in Seq(Elem) /\ Len(t) = i - 1 + Len(v) + (Len(s) - j)
        /\ \A p \in 1..i - 1 + Len(v) : t[p] = lv[p]
        /\ \A p \in 1..Len(s) - j : t[i - 1 + Len(v) + p] = s[j + p]
    <2>1. /\ t \in Seq(Elem) /\ Len(t) = Len(lv) + Len(r)
          /\ \A p \in 1..Len(lv) : t[p] = lv[p]
          /\ \A p \in 1..Len(r) : t[Len(lv) + p] = r[p]
      BY <1>3, <1>5, ConcatAt
    <2> HIDE DEF t
    <2> QED
      BY <1>3, <1>5, <2>1
  <1> HIDE DEF t
  <1>7. \A p \in 1..i - 1 : t[p] = s[p]
    BY <1>1, <1>5, <1>6
  <1>8. \A p \in 1..Len(v) : t[i - 1 + p] = v[p]
    BY <1>1, <1>5, <1>6
  <1>9. t = Splice(s, i, j, v)
    BY <1>4 DEF t
  <1>10. Len(t) = Len(s) + Len(v) - (j - i + 1)
    BY <1>1, <1>6
  <1>11. Spliced(t, s, v, i, j)
    BY <1>6, <1>7, <1>8, <1>10 DEF Spliced
  <1> QED
    BY <1>9, <1>11

LEMMA PieceSplice ==
    ASSUME NEW raw \in BOOLEAN, NEW s, NEW v, NEW lo \in Int, NEW hi \in Int,
           Piece(raw, s, lo, hi, "plain", "plain"),
           NEW i \in 1..Len(s), NEW j \in 1..Len(s), i <= j,
           IdBefore(s[i]) = 0, IdAfter(s[j]) = 0,
           Piece(raw, v, s[i].from, s[j].to, "plain", "plain"),
           raw \/ (s[i].in = "plain" /\ \A w : Leads(s[j], w) => w = "plain")
    PROVE  Piece(raw, Splice(s, i, j, v), lo, hi, "plain", "plain")
  <1> DEFINE l == SubSeq(s, 1, i - 1)
             r == SubSeq(s, j + 1, Len(s))
  <1>1. s \in Seq(Elem) /\ s[i] \in Elem /\ s[j] \in Elem /\ s[i].from \in Nat /\ s[j].to \in Nat
    <2>1. s \in Seq(Elem)
      BY DEF Piece
    <2> QED
      BY <2>1, ElemAt
  <1>2. Piece(raw, l, lo, s[i].from - 1, "plain", s[i].in)
    BY PieceLeft
  <1>3. PICK w : (raw \/ Leads(s[j], w)) /\ Piece(raw, r, s[j].to + 1, hi, w, "plain")
    BY PieceRight
  <1>4. Piece(raw, l, lo, s[i].from - 1, "plain", "plain")
    BY <1>2 DEF Piece, Finishes
  <1>5. Piece(raw, r, s[j].to + 1, hi, "plain", "plain")
    BY <1>3 DEF Piece, Begins
  <1> HIDE DEF l, r
  <1>6. Piece(raw, v, (s[i].from - 1) + 1, s[j].to, "plain", "plain")
    BY <1>1
  <1>7. Piece(raw, l \o v, lo, s[j].to, "plain", "plain")
    BY <1>1, <1>4, <1>6, PieceConcat
  <1>8. Piece(raw, (l \o v) \o r, lo, hi, "plain", "plain")
    BY <1>1, <1>5, <1>7, PieceConcat
  <1> QED
    BY <1>8 DEF Splice, l, r

-------------------------------------------------------------------------------
(* What the code writes: marks, placeholders, escaped text.                 *)

LEMMA DigitAt ==
    ASSUME NEW d \in Digits
    PROVE  d \in STRING /\ d # SOH /\ Letter(d)
  <1>1. PICK k \in DOMAIN Numerals : d = Numerals[k]
    BY DEF Digits
  <1>2. Numerals[k] \in STRING \ {SOH} /\ Letter(Numerals[k])
    BY NumeralsAssumption
  <1> QED
    BY <1>1, <1>2

LEMMA NumeralAt ==
    /\ Len(Numerals) \in Nat /\ DOMAIN Numerals = 1..Len(Numerals)
    /\ \A k \in 1..Len(Numerals) : Numerals[k] \in Digits /\ Numerals[k] # SOH /\ Numerals[k] \in Chars
    /\ \A k, l \in 1..Len(Numerals) : Numerals[k] = Numerals[l] => k = l
  <1>1. Len(Numerals) \in Nat /\ DOMAIN Numerals = 1..Len(Numerals)
    BY NumeralsAssumption, LenProperties
  <1>2. \A k \in 1..Len(Numerals) : Numerals[k] \in Digits
    BY <1>1 DEF Digits
  <1>3. \A k \in 1..Len(Numerals) : Numerals[k] # SOH /\ Numerals[k] \in Chars
    BY <1>2, DigitAt DEF Chars
  <1>4. \A k, l \in 1..Len(Numerals) : Numerals[k] = Numerals[l] => k = l
    BY <1>1, NumeralsAssumption
  <1> QED
    BY <1>1, <1>2, <1>3, <1>4

LEMMA DigitsBare == SOH \notin Digits /\ \A d \in Digits : d \notin Special \cup {"\\", "\n"}
  BY DigitAt DEF Letter

(* M is the characters chars in ins, the first of them for from..to. *)
Written(M, n, chars, ins, from, to) ==
    /\ M \in Seq(Elem) /\ Len(M) = n
    /\ \A k \in 1..n :
         /\ M[k].char = chars[k] /\ M[k].in = ins[k] /\ ~M[k].escaped
         /\ M[k].from = (IF k = 1 THEN from ELSE to + 1) /\ M[k].to = to

LEMMA MarksAt ==
    ASSUME NEW n \in Nat, NEW chars, NEW ins, DOMAIN chars = 1..n,
           \A k \in 1..n : chars[k] \in Chars /\ ins[k] \in Ins,
           NEW from \in Nat, NEW to \in Nat
    PROVE  Written(Marks(chars, ins, from, to), n, chars, ins, from, to)
  <1> DEFINE M == Marks(chars, ins, from, to)
             E(k) == Char(chars[k], IF k = 1 THEN from ELSE to + 1, to, ins[k])
  <1>2. M = [k \in 1..n |-> E(k)]
    BY DEF Marks
  <1>4. ASSUME NEW k \in 1..n
        PROVE /\ E(k) \in Elem /\ E(k).char = chars[k] /\ E(k).in = ins[k] /\ ~E(k).escaped
              /\ E(k).from = (IF k = 1 THEN from ELSE to + 1) /\ E(k).to = to
    BY DEF Char, Elem
  <1> HIDE DEF E
  <1>5. M \in [1..n -> Elem] /\ \A k \in 1..n : M[k] = E(k)
    BY <1>2, <1>4
  <1> HIDE DEF M
  <1>6. M \in Seq(Elem) /\ Len(M) = n
    BY <1>5
  <1>7. \A k \in 1..n :
           /\ M[k].char = chars[k] /\ M[k].in = ins[k] /\ ~M[k].escaped
           /\ M[k].from = (IF k = 1 THEN from ELSE to + 1) /\ M[k].to = to
    BY <1>4, <1>5
  <1> QED
    BY <1>6, <1>7 DEF M, Written

(* A mark that nothing escapes leads from one entity to the next. *)
Turn(c, in, n) == <<in, c, n>> \in Turns \/ (n = in /\ in \in Entities /\ c \notin Danger(in))

LEMMA MarksPiece ==
    ASSUME NEW n \in Nat \ {0}, NEW chars, NEW ins, DOMAIN chars = 1..n,
           \A k \in 1..n : chars[k] \in Chars /\ ins[k] \in Ins,
           NEW from \in Nat, NEW to \in Nat, from <= to + 1, NEW y,
           \A k \in 1..n : Bare(chars[k]),
           \A k \in 1..n - 1 : Turn(chars[k], ins[k], ins[k + 1]),
           Turn(chars[n], ins[n], y)
    PROVE  Piece(FALSE, Marks(chars, ins, from, to), from, to, ins[1], y)
  <1> DEFINE M == Marks(chars, ins, from, to)
  <1>1. /\ M \in Seq(Elem) /\ Len(M) = n
        /\ \A k \in 1..Len(M) :
             /\ M[k].char = chars[k] /\ M[k].in = ins[k] /\ ~M[k].escaped
             /\ M[k].from = (IF k = 1 THEN from ELSE to + 1) /\ M[k].to = to
    <2>1. n \in Nat
      OBVIOUS
    <2>2. Written(M, n, chars, ins, from, to)
      BY <2>1, MarksAt
    <2> HIDE DEF M
    <2> QED
      BY <2>2 DEF Written
  <1> HIDE DEF M
  <1>2. \A k \in 1..Len(M) : IdBefore(M[k]) = 0 /\ IdAfter(M[k]) = 0
    BY <1>1 DEF IdBefore, IdAfter, Bare, Number, Closing, Opening
  <1>3. M # <<>>
    BY <1>1
  <1>4. Begins(FALSE, M[1], from, ins[1])
    BY <1>1, <1>2 DEF Begins
  <1>5. Finishes(FALSE, M[Len(M)], to, y)
    <2>1. Len(M) \in 1..Len(M)
      BY <1>1
    <2> QED
      BY <1>1, <1>2, <2>1 DEF Finishes, Leads, Turn
  <1>6. ASSUME NEW k \in 1..Len(M) - 1 PROVE Link(FALSE, M[k], M[k + 1])
    <2>1. k \in 1..Len(M) /\ k + 1 \in 1..Len(M) /\ k + 1 # 1 /\ k \in 1..n - 1
      BY <1>1
    <2> QED
      BY <1>1, <1>2, <2>1 DEF Link, Leads, Turn
  <1>7. Piece(FALSE, M, from, to, ins[1], y)
    <2>1. \A k \in 1..Len(M) : M[k].from <= M[k].to + 1
      BY <1>1
    <2> QED
      BY <1>1, <1>3, <1>4, <1>5, <1>6, <2>1 DEF Piece
  <1> QED
    BY <1>7 DEF M

LEMMA PlaceholderAt ==
    ASSUME NEW k \in 1..Len(Numerals), NEW from \in Nat, NEW to \in Nat, from <= to
    PROVE  LET h == Placeholder(k, from, to)
           IN  /\ h \in Seq(Elem) /\ Len(h) = 3
               /\ Opening(h[1]) /\ h[1].from = from /\ h[1].to = to
               /\ Number(h[2]) /\ h[2].char = Numerals[k] /\ Closing(h[3])
               /\ \A p \in 1..3 : IdPart(h[p]) /\ ~h[p].escaped /\ h[p].in = "plain"
               /\ Piece(TRUE, h, from, to, "plain", "plain")
  <1> DEFINE h == Placeholder(k, from, to)
  <1>1. Numerals[k] \in Chars /\ Numerals[k] \in Digits /\ Numerals[k] # SOH
    BY NumeralAt
  <1>2. /\ DOMAIN Id(k) = 1..3
        /\ Id(k)[1] = SOH /\ Id(k)[2] = Numerals[k] /\ Id(k)[3] = SOH
    BY DEF Id
  <1> DEFINE ins == <<"plain", "plain", "plain">>
  <1>3. ins[1] = "plain" /\ ins[2] = "plain" /\ ins[3] = "plain"
    OBVIOUS
  <1> HIDE DEF ins
  <1>4. h = Marks(Id(k), ins, from, to)
    BY DEF Placeholder, ins
  <1>5. /\ h \in Seq(Elem) /\ Len(h) = 3
        /\ \A p \in 1..3 :
             /\ h[p].char = Id(k)[p] /\ h[p].in = ins[p] /\ ~h[p].escaped
             /\ h[p].from = (IF p = 1 THEN from ELSE to + 1) /\ h[p].to = to
    <2>1. \A p \in 1..3 : Id(k)[p] \in Chars /\ ins[p] \in Ins
      <3>1. \A p \in 1..3 : p = 1 \/ p = 2 \/ p = 3
        OBVIOUS
      <3> QED
        BY <1>1, <1>2, <1>3, <3>1 DEF Chars, Ins, Entities
    <2> HIDE DEF h
    <2> DEFINE M == Marks(Id(k), ins, from, to)
    <2>2. Written(M, 3, Id(k), ins, from, to)
      <3>1. 3 \in Nat
        OBVIOUS
      <3> QED
        BY <1>2, <2>1, <3>1, MarksAt
    <2> QED
      BY <1>4, <2>2 DEF Written
  <1> HIDE DEF h
  <1>6. /\ h[1].char = SOH /\ h[1].from = from /\ h[1].to = to /\ h[1].in = "plain" /\ ~h[1].escaped
        /\ h[2].char = Numerals[k] /\ h[2].from = to + 1 /\ h[2].to = to /\ h[2].in = "plain" /\ ~h[2].escaped
        /\ h[3].char = SOH /\ h[3].from = to + 1 /\ h[3].to = to /\ h[3].in = "plain" /\ ~h[3].escaped
    BY <1>2, <1>3, <1>5
  <1>7. /\ Opening(h[1]) /\ Number(h[2]) /\ Closing(h[3])
        /\ ~Number(h[1]) /\ ~Closing(h[1]) /\ ~Opening(h[2]) /\ ~Closing(h[2]) /\ ~Opening(h[3]) /\ ~Number(h[3])
    BY <1>1, <1>6, DigitsBare DEF Opening, Number, Closing
  <1>8. \A p \in 1..3 : IdPart(h[p]) /\ ~h[p].escaped /\ h[p].in = "plain"
    <2>1. \A p \in 1..3 : p = 1 \/ p = 2 \/ p = 3
      OBVIOUS
    <2> QED
      BY <1>6, <1>7, <2>1 DEF IdPart
  <1>9. Piece(TRUE, h, from, to, "plain", "plain")
    <2>1. Begins(TRUE, h[1], from, "plain") /\ Finishes(TRUE, h[3], to, "plain")
      BY <1>6, <1>7 DEF Begins, Finishes, IdBefore, IdAfter
    <2>2. Link(TRUE, h[1], h[2]) /\ Link(TRUE, h[2], h[3])
      BY <1>6, <1>7 DEF Link, IdBefore, IdAfter
    <2>3. \A p \in 1..Len(h) - 1 : Link(TRUE, h[p], h[p + 1])
      <3> TAKE p \in 1..Len(h) - 1
      <3>1. (p = 1 /\ p + 1 = 2) \/ (p = 2 /\ p + 1 = 3)
        BY <1>5
      <3> QED
        BY <2>2, <3>1
    <2>4. \A p \in 1..Len(h) : h[p].from <= h[p].to + 1
      <3>1. \A p \in 1..Len(h) : p = 1 \/ p = 2 \/ p = 3
        BY <1>5
      <3> QED
        BY <1>6, <3>1
    <2>5. h # <<>>
      <3>1. h \in Seq(Elem) /\ 1 \in 1..Len(h)
        BY <1>5
      <3> QED
        BY <3>1, ElemAt
    <2> QED
      BY <1>5, <2>1, <2>3, <2>4, <2>5 DEF Piece
  <1> QED
    BY <1>5, <1>6, <1>7, <1>8, <1>9 DEF h

(* e is s with the characters chars escaped, written in. *)
Escaped(e, s, chars, in) ==
    /\ e \in Seq(Elem) /\ Len(e) = Len(s)
    /\ \A p \in 1..Len(s) :
         /\ e[p].char = s[p].char /\ e[p].from = s[p].from /\ e[p].to = s[p].to
         /\ e[p].in = in /\ (e[p].escaped <=> s[p].char \in chars)

LEMMA EscapeAt ==
    ASSUME NEW s \in Seq(Elem), NEW chars, NEW in \in Ins, chars \subseteq Escapable
    PROVE  Escaped(Escape(s, chars, in), s, chars, in)
  <1> DEFINE E(p) == [s[p] EXCEPT !.escaped = s[p].char \in chars, !.in = in]
             T == Escape(s, chars, in)
  <1>1. DOMAIN s = 1..Len(s) /\ Len(s) \in Nat
    BY LenProperties
  <1>2. T = [p \in 1..Len(s) |-> E(p)]
    BY <1>1 DEF Escape
  <1>3. ASSUME NEW p \in 1..Len(s)
        PROVE /\ E(p) \in Elem /\ E(p).char = s[p].char /\ E(p).from = s[p].from /\ E(p).to = s[p].to
              /\ E(p).in = in /\ (E(p).escaped <=> s[p].char \in chars)
    <2>1. s[p] \in Elem
      BY ElemAt
    <2>2. \A e \in Elem : \A b \in BOOLEAN : (b => e.char \in Escapable) =>
             LET f == [e EXCEPT !.escaped = b, !.in = in]
             IN  f \in Elem /\ f.char = e.char /\ f.from = e.from /\ f.to = e.to /\ f.in = in /\ f.escaped = b
      BY DEF Elem
    <2>3. (s[p].char \in chars) \in BOOLEAN
      OBVIOUS
    <2> QED
      BY <2>1, <2>2, <2>3
  <1> HIDE DEF E
  <1>4. T \in [1..Len(s) -> Elem] /\ \A p \in 1..Len(s) : T[p] = E(p)
    BY <1>2, <1>3
  <1> HIDE DEF T
  <1>5. T \in Seq(Elem) /\ Len(T) = Len(s)
    BY <1>1, <1>4
  <1> QED
    BY <1>3, <1>4, <1>5 DEF T, Escaped

LEMMA EscapePiece ==
    ASSUME NEW s, NEW lo \in Int, NEW hi \in Int, NEW x, NEW y, NEW chars, NEW in \in Entities,
           Piece(TRUE, s, lo, hi, x, y), Danger(in) \subseteq chars, chars \subseteq Escapable
    PROVE  Piece(FALSE, Escape(s, chars, in), lo, hi, in, in)
  <1> DEFINE T == Escape(s, chars, in)
  <1>1. s \in Seq(Elem) /\ in \in Ins /\ Len(s) \in Nat
    <2>1. s \in Seq(Elem) /\ in \in Ins
      BY DEF Piece, Ins
    <2> QED
      BY <2>1, LenProperties
  <1>2. /\ T \in Seq(Elem) /\ Len(T) = Len(s)
        /\ \A p \in 1..Len(s) :
             /\ T[p].char = s[p].char /\ T[p].from = s[p].from /\ T[p].to = s[p].to
             /\ T[p].in = in /\ (T[p].escaped <=> s[p].char \in chars)
    <2>1. Escaped(T, s, chars, in)
      BY <1>1, EscapeAt
    <2> QED
      BY <2>1 DEF Escaped
  <1> HIDE DEF T
  <1>3. \A p \in 1..Len(s) : /\ IdBefore(T[p]) = IdBefore(s[p]) /\ IdAfter(T[p]) = IdAfter(s[p])
                             /\ Leads(T[p], in)
    BY <1>2 DEF IdBefore, IdAfter, Number, Closing, Opening, Leads
  <1>4. CASE s = <<>>
    <2>1. T = <<>>
      BY <1>2, <1>4
    <2>2. Piece(FALSE, T, lo, hi, in, in)
      BY <1>2, <1>4, <2>1 DEF Piece
    <2> QED
      BY <2>2 DEF T
  <1>5. CASE s # <<>>
    <2>1. T # <<>> /\ Len(s) > 0
      BY <1>1, <1>2, <1>5, EmptySeq
    <2>2. /\ Begins(TRUE, s[1], lo, x) /\ Finishes(TRUE, s[Len(s)], hi, y)
          /\ \A p \in 1..Len(s) - 1 : Link(TRUE, s[p], s[p + 1])
          /\ \A p \in 1..Len(s) : s[p].from <= s[p].to + 1
      BY <1>5 DEF Piece
    <2>3. 1 \in 1..Len(s) /\ Len(s) \in 1..Len(s)
      BY <1>1, <2>1
    <2>4. Begins(FALSE, T[1], lo, in)
      BY <1>2, <1>3, <2>2, <2>3 DEF Begins
    <2>5. Finishes(FALSE, T[Len(T)], hi, in)
      BY <1>2, <1>3, <2>2, <2>3 DEF Finishes
    <2>6. ASSUME NEW p \in 1..Len(T) - 1 PROVE Link(FALSE, T[p], T[p + 1])
      <3>1. p \in 1..Len(s) /\ p + 1 \in 1..Len(s) /\ p \in 1..Len(s) - 1
        BY <1>1, <1>2
      <3> QED
        BY <1>2, <1>3, <2>2, <3>1 DEF Link
    <2>7. \A p \in 1..Len(T) : T[p].from <= T[p].to + 1
      BY <1>2, <2>2
    <2>8. Piece(FALSE, T, lo, hi, in, in)
      BY <1>2, <2>1, <2>4, <2>5, <2>6, <2>7 DEF Piece
    <2> QED
      BY <2>8 DEF T
  <1> QED
    BY <1>4, <1>5

-------------------------------------------------------------------------------
(* The values of spans.                                                     *)

LEMMA AtOne ==
    ASSUME NEW s, NEW i \in Nat, NEW c, Len(s) \in Nat, At(s, i, <<c>>)
    PROVE  i <= Len(s) /\ s[i].char = c /\ ~s[i].escaped
  <1>1. Len(<<c>>) = 1 /\ DOMAIN <<c>> = 1..1 /\ <<c>>[1] = c
    OBVIOUS
  <1>2. i + 1 <= Len(s) + 1 /\ 1 \in DOMAIN <<c>> /\ i + 1 - 1 = i
    BY <1>1 DEF At
  <1> QED
    BY <1>1, <1>2 DEF At

LEMMA AtTwo ==
    ASSUME NEW s, NEW i \in Nat, NEW c, NEW d, Len(s) \in Nat, At(s, i, <<c, d>>)
    PROVE  i + 1 <= Len(s) /\ s[i].char = c /\ s[i + 1].char = d
  <1>1. Len(<<c, d>>) = 2 /\ DOMAIN <<c, d>> = 1..2 /\ <<c, d>>[1] = c /\ <<c, d>>[2] = d
    OBVIOUS
  <1>2. /\ i + 2 <= Len(s) + 1 /\ 1 \in DOMAIN <<c, d>> /\ 2 \in DOMAIN <<c, d>>
        /\ i + 1 - 1 = i /\ i + 2 - 1 = i + 1
    BY <1>1 DEF At
  <1> QED
    BY <1>1, <1>2 DEF At

LEMMA AtThree ==
    ASSUME NEW s, NEW i \in Nat, NEW c, NEW d, NEW e, Len(s) \in Nat
    PROVE  At(s, i, <<c, d, e>>) <=>
             /\ i + 2 <= Len(s)
             /\ s[i].char = c /\ s[i + 1].char = d /\ s[i + 2].char = e
             /\ ~s[i].escaped /\ ~s[i + 1].escaped /\ ~s[i + 2].escaped
  <1> DEFINE m == <<c, d, e>>
  <1>1. Len(m) = 3 /\ DOMAIN m = 1..3 /\ m[1] = c /\ m[2] = d /\ m[3] = e
    OBVIOUS
  <1> HIDE DEF m
  <1>2. /\ 1 \in DOMAIN m /\ 2 \in DOMAIN m /\ 3 \in DOMAIN m
        /\ i + 1 - 1 = i /\ i + 2 - 1 = i + 1 /\ i + 3 - 1 = i + 2
        /\ (i + 3 <= Len(s) + 1 <=> i + 2 <= Len(s))
        /\ \A k \in DOMAIN m : k = 1 \/ k = 2 \/ k = 3
    BY <1>1
  <1>3. At(s, i, m) =>
          /\ i + 2 <= Len(s)
          /\ s[i].char = c /\ s[i + 1].char = d /\ s[i + 2].char = e
          /\ ~s[i].escaped /\ ~s[i + 1].escaped /\ ~s[i + 2].escaped
    <2> SUFFICES ASSUME At(s, i, m)
                 PROVE  /\ i + 2 <= Len(s)
                        /\ s[i].char = c /\ s[i + 1].char = d /\ s[i + 2].char = e
                        /\ ~s[i].escaped /\ ~s[i + 1].escaped /\ ~s[i + 2].escaped
      OBVIOUS
    <2>1. i + 3 <= Len(s) + 1 /\ \A k \in DOMAIN m : s[i + k - 1].char = m[k] /\ ~s[i + k - 1].escaped
      BY <1>1 DEF At
    <2>2. s[i].char = c /\ ~s[i].escaped
      BY <1>1, <1>2, <2>1
    <2>3. s[i + 1].char = d /\ ~s[i + 1].escaped
      BY <1>1, <1>2, <2>1
    <2>4. s[i + 2].char = e /\ ~s[i + 2].escaped
      BY <1>1, <1>2, <2>1
    <2> QED
      BY <1>2, <2>1, <2>2, <2>3, <2>4
  <1>4. ASSUME i + 2 <= Len(s),
               s[i].char = c /\ s[i + 1].char = d /\ s[i + 2].char = e,
               ~s[i].escaped /\ ~s[i + 1].escaped /\ ~s[i + 2].escaped
        PROVE At(s, i, m)
    <2>1. ASSUME NEW k \in DOMAIN m PROVE s[i + k - 1].char = m[k] /\ ~s[i + k - 1].escaped
      BY <1>1, <1>2, <1>4
    <2> QED
      BY <1>1, <1>2, <1>4, <2>1 DEF At
  <1> QED
    BY <1>3, <1>4 DEF m

LEMMA InputAt ==
    ASSUME MdTypes, NEW i \in 1..Len(input)
    PROVE  input[i] \in STRING /\ input[i] # SOH
  BY ElementOfSeq DEF MdTypes

(* A text that is not escaped yet, with placeholders before spans[k].       *)
RawText(s, k) ==
    /\ Piece(TRUE, s, 1, Len(input), "plain", "plain") /\ Older(s, k)
    /\ \A p \in 1..Len(s) : Raw(s[p])

LEMMA BareRaw ==
    ASSUME NEW e, Raw(e), Bare(e.char)
    PROVE  Own(e) /\ IdBefore(e) = 0 /\ IdAfter(e) = 0 /\ e.in = "plain" /\ ~e.escaped
  BY DEF Raw, Bare, IdPart, IdBefore, IdAfter, Number, Closing, Opening

(* A part of the value of spans[k]. *)
Part(v, k, lo, hi, x, y) ==
    Piece(FALSE, v, lo, hi, x, y) /\ Older(v, k) /\ \A p \in 1..Len(v) : Sound(v[p])

Joined(c, a, b) ==
    /\ c \in Seq(Elem) /\ Len(c) = Len(a) + Len(b)
    /\ \A p \in 1..Len(a) : c[p] = a[p]
    /\ \A p \in 1..Len(b) : c[Len(a) + p] = b[p]

LEMMA PartConcat ==
    ASSUME NEW k \in Nat, NEW a, NEW b,
           NEW lo \in Int, NEW m \in Int, NEW hi \in Int, NEW x, NEW y, NEW z,
           Part(a, k, lo, m, x, y), Part(b, k, m + 1, hi, y, z)
    PROVE  Part(a \o b, k, lo, hi, x, z) /\ Joined(a \o b, a, b)
  <1> DEFINE c == a \o b
  <1>1. Piece(FALSE, a, lo, m, x, y) /\ Piece(FALSE, b, m + 1, hi, y, z)
    BY DEF Part
  <1>2. a \in Seq(Elem) /\ b \in Seq(Elem)
    BY <1>1 DEF Piece
  <1>3. Len(a) \in Nat /\ Len(b) \in Nat
    BY <1>2, LenProperties
  <1>4. Piece(FALSE, c, lo, hi, x, z)
    BY <1>1, PieceConcat
  <1>5. /\ c \in Seq(Elem) /\ Len(c) = Len(a) + Len(b)
        /\ \A p \in 1..Len(a) : c[p] = a[p]
        /\ \A p \in 1..Len(b) : c[Len(a) + p] = b[p]
    BY <1>2, ConcatAt
  <1> HIDE DEF c
  <1>6. \A p \in 1..Len(c) : p \in 1..Len(a) \/ (p - Len(a) \in 1..Len(b) /\ p = Len(a) + (p - Len(a)))
    BY <1>3, <1>5
  <1>7. ASSUME NEW p \in 1..Len(c) PROVE Sound(c[p])
    <2>1. \A q \in 1..Len(a) : Sound(a[q])
      BY DEF Part
    <2>2. \A q \in 1..Len(b) : Sound(b[q])
      BY DEF Part
    <2> QED
      BY <1>5, <1>6, <2>1, <2>2
  <1>8. Older(c, k)
    <2> SUFFICES ASSUME NEW p \in 1..Len(c) - 1, Opening(c[p])
                 PROVE  \E r \in 1..k - 1 : c[p + 1].char = Numerals[r]
      BY DEF Older
    <2>1. CASE p < Len(a)
      <3>1. p \in 1..Len(a) - 1 /\ p \in 1..Len(a) /\ p + 1 \in 1..Len(a)
        BY <1>3, <1>5, <2>1
      <3>2. c[p] = a[p] /\ c[p + 1] = a[p + 1]
        BY <1>5, <3>1
      <3> QED
        BY <3>1, <3>2 DEF Part, Older
    <2>2. CASE p = Len(a)
      <3>1. a # <<>> /\ c[p] = a[Len(a)]
        BY <1>3, <1>5, <2>2
      <3>2. IdAfter(a[Len(a)]) = 0
        BY <1>1, <3>1 DEF Piece, Finishes
      <3> QED
        BY <3>1, <3>2 DEF IdAfter
    <2>3. CASE p > Len(a)
      <3> DEFINE q == p - Len(a)
      <3>1. q \in 1..Len(b) - 1 /\ p = Len(a) + q /\ p + 1 = Len(a) + (q + 1)
        BY <1>3, <1>5, <2>3
      <3> HIDE DEF q
      <3>2. q \in 1..Len(b) /\ q + 1 \in 1..Len(b)
        BY <1>3, <3>1
      <3>3. c[Len(a) + q] = b[q] /\ c[Len(a) + (q + 1)] = b[q + 1]
        BY <1>5, <3>2
      <3>4. c[p] = b[q] /\ c[p + 1] = b[q + 1]
        BY <3>1, <3>3
      <3> QED
        BY <3>1, <3>4 DEF Part, Older
    <2> QED
      BY <1>3, <1>5, <2>1, <2>2, <2>3
  <1>9. Part(c, k, lo, hi, x, z)
    BY <1>4, <1>7, <1>8 DEF Part
  <1> QED
    BY <1>5, <1>9 DEF c, Joined

(* The characters of marks. *)
MarkChars == {Tick, "_", "[", "]", "(", ")", "\n"}
LEMMA MarkCharsBare ==
    ASSUME NEW c \in MarkChars
    PROVE  c \in Chars /\ Bare(c) /\ ~Letter(c)
  <1>1. c # SOH /\ c \in Special \cup {"\n"}
    BY DEF MarkChars, Special, SOH, Tick
  <1> QED
    BY <1>1, DigitsBare DEF Bare, Letter, Chars

(* The input under s[i] up to s[j], whose characters are all marks.         *)
Markup(from, to) ==
    /\ from \in Nat /\ to \in Nat /\ from <= to
    /\ \A p \in from..to : p \in 1..Len(input) /\ ~Letter(input[p])

LEMMA Unlettered ==
    ASSUME NEW s, NEW k, RawText(s, k), NEW i \in Nat, NEW n \in 0..2, i > 0, i + n <= Len(s),
           \A p \in i..i + n : s[p].char \in MarkChars
    PROVE  Markup(s[i].from, s[i + n].to)
  <1>1. s \in Seq(Elem)
    BY DEF RawText, Piece
  <1>2. Len(s) \in Nat
    BY <1>1, LenProperties
  <1>3. ASSUME NEW p \in i..i + n
        PROVE p \in 1..Len(s) /\ Own(s[p]) /\ s[p].from \in Nat /\ s[p].to \in Nat /\ ~Letter(s[p].char)
    <2>1. p \in 1..Len(s)
      BY <1>2
    <2>2. Bare(s[p].char) /\ ~Letter(s[p].char) /\ Raw(s[p])
      BY <2>1, MarkCharsBare DEF RawText
    <2> QED
      BY <1>1, <2>1, <2>2, BareRaw, ElemAt
  <1>4. ASSUME NEW p \in i..i + n - 1 PROVE s[p + 1].from = s[p].to + 1
    <2>1. p \in 1..Len(s) - 1 /\ s # <<>>
      BY <1>1, <1>2
    <2> QED
      BY <2>1 DEF RawText, Piece, Link
  <1>5. i \in i..i + n /\ i + n \in i..i + n
    OBVIOUS
  <1>6. CASE n = 0
    <2>1. i + n = i
      BY <1>6
    <2> QED
      BY <1>3, <1>5, <2>1 DEF Own, Markup
  <1>7. CASE n = 1
    <2>1. i + n = i + 1 /\ i \in i..i + n - 1 /\ i + 1 \in i..i + n
      BY <1>7
    <2>2. s[i + 1].from = s[i].to + 1
      BY <1>4, <2>1
    <2> QED
      BY <1>3, <1>5, <2>1, <2>2 DEF Own, Markup
  <1>8. CASE n = 2
    <2>1. /\ i + n = i + 2 /\ i \in i..i + n - 1 /\ i + 1 \in i..i + n /\ i + 1 \in i..i + n - 1
          /\ (i + 1) + 1 = i + 2
      BY <1>8
    <2>2. s[i + 1].from = s[i].to + 1 /\ s[i + 2].from = s[i + 1].to + 1
      BY <1>4, <2>1
    <2>3. /\ Own(s[i]) /\ Own(s[i + 1]) /\ Own(s[i + 2])
          /\ s[i].from \in Nat /\ s[i].to \in Nat /\ s[i + 1].from \in Nat /\ s[i + 1].to \in Nat
          /\ s[i + 2].from \in Nat /\ s[i + 2].to \in Nat
          /\ ~Letter(s[i].char) /\ ~Letter(s[i + 1].char) /\ ~Letter(s[i + 2].char)
      BY <1>3, <1>5, <2>1
    <2>7. s[i].from = s[i].to /\ s[i + 1].from = s[i + 1].to /\ s[i + 2].from = s[i + 2].to
      BY <2>3 DEF Own
    <2>4. /\ s[i].to = s[i].from /\ s[i + 1].from = s[i].from + 1 /\ s[i + 1].to = s[i].from + 1
          /\ s[i + 2].from = s[i].from + 2 /\ s[i + 2].to = s[i].from + 2
      <3>1. s[i + 1].from = s[i].from + 1 /\ s[i + 1].to = s[i].from + 1
        BY <2>2, <2>7
      <3>2. s[i + 2].from = (s[i].from + 1) + 1
        BY <2>2, <3>1
      <3>3. (s[i].from + 1) + 1 = s[i].from + 2
        <4>1. \A a \in Nat : (a + 1) + 1 = a + 2
          OBVIOUS
        <4> QED
          BY <2>3, <4>1
      <3> QED
        BY <2>7, <3>1, <3>2, <3>3
    <2>5. \A p \in s[i].from..s[i + 2].to : p = s[i].from \/ p = s[i + 1].from \/ p = s[i + 2].from
      <3>1. \A a \in Nat : \A p \in a..a + 2 : p = a \/ p = a + 1 \/ p = a + 2
        OBVIOUS
      <3>2. s[i].from \in Nat
        BY <2>3
      <3> QED
        BY <2>4, <3>1, <3>2
    <2>6. \A p \in s[i].from..s[i + 2].to : p \in 1..Len(input) /\ ~Letter(input[p])
      BY <2>3, <2>5 DEF Own
    <2> QED
      BY <2>1, <2>3, <2>4, <2>6 DEF Markup
  <1> QED
    BY <1>6, <1>7, <1>8

(* The n marks of chars, in ins, lead to entity y. *)
Leading(n, chars, ins, y) ==
    /\ DOMAIN chars = 1..n
    /\ \A j \in 1..n : chars[j] \in MarkChars /\ ins[j] \in Ins
    /\ \A j \in 1..n - 1 : Turn(chars[j], ins[j], ins[j + 1])
    /\ Turn(chars[n], ins[n], y)

LEMMA MarksPart ==
    ASSUME NEW k \in Nat, NEW n \in Nat \ {0}, NEW chars, NEW ins, NEW y, NEW from, NEW to,
           Leading(n, chars, ins, y), Markup(from, to)
    PROVE  /\ Part(Marks(chars, ins, from, to), k, from, to, ins[1], y)
           /\ Written(Marks(chars, ins, from, to), n, chars, ins, from, to)
  <1> DEFINE M == Marks(chars, ins, from, to)
  <1>1. /\ n \in Nat /\ from \in Nat /\ to \in Nat /\ from <= to + 1 /\ DOMAIN chars = 1..n
        /\ \A j \in 1..n : chars[j] \in Chars /\ ins[j] \in Ins
        /\ \A j \in 1..n : Bare(chars[j]) /\ ~Letter(chars[j])
    <2>1. n \in Nat /\ from \in Nat /\ to \in Nat /\ from <= to + 1
      BY DEF Markup
    <2>2. DOMAIN chars = 1..n /\ \A j \in 1..n : chars[j] \in MarkChars /\ ins[j] \in Ins
      BY DEF Leading
    <2>3. \A j \in 1..n : chars[j] \in Chars /\ Bare(chars[j]) /\ ~Letter(chars[j])
      BY <2>2, MarkCharsBare
    <2> QED
      BY <2>1, <2>2, <2>3
  <1>2. Written(M, n, chars, ins, from, to)
    BY <1>1, MarksAt
  <1>3. Piece(FALSE, M, from, to, ins[1], y)
    <2>1. \A j \in 1..n - 1 : Turn(chars[j], ins[j], ins[j + 1])
      BY DEF Leading
    <2>2. Turn(chars[n], ins[n], y)
      BY DEF Leading
    <2> QED
      BY <1>1, <2>1, <2>2, MarksPiece
  <1> HIDE DEF M
  <1>4. ASSUME NEW p \in 1..Len(M) PROVE Sound(M[p]) /\ ~Opening(M[p])
    <2>1. p \in 1..n /\ M[p].char = chars[p] /\ M[p].to = to /\ (M[p].from = from \/ M[p].from = to + 1)
      BY <1>2 DEF Written
    <2>2. Blank(M[p])
      BY <1>1, <2>1 DEF Blank, Markup
    <2> QED
      BY <1>1, <2>1, <2>2 DEF Sound, Opening, Bare
  <1>5. Older(M, k)
    BY <1>4 DEF Older
  <1>6. Part(M, k, from, to, ins[1], y)
    BY <1>3, <1>4, <1>5 DEF Part
  <1> QED
    BY <1>2, <1>6 DEF M

(* e is what stands between the marks that end at i and start at j, escaped. *)
Contained(e, k, s, i, j, chars, in) ==
    /\ Part(e, k, s[i].to + 1, s[j].from - 1, in, in)
    /\ e \in Seq(Elem) /\ Len(e) = j - i - 1
    /\ \A p \in 1..Len(e) : e[p].in = in /\ (e[p].escaped <=> e[p].char \in chars)

LEMMA Content ==
    ASSUME NEW k \in Nat, NEW s, RawText(s, k), NEW i \in 1..Len(s), NEW j \in 1..Len(s), i < j,
           Bare(s[i].char), Bare(s[j].char),
           NEW in \in Entities, NEW chars, Danger(in) \subseteq chars, chars \subseteq Escapable,
           Len(input) \in Nat
    PROVE  Contained(Escape(SubSeq(s, i + 1, j - 1), chars, in), k, s, i, j, chars, in)
  <1> DEFINE c == SubSeq(s, i + 1, j - 1)
             e == Escape(c, chars, in)
  <1>1. Piece(TRUE, s, 1, Len(input), "plain", "plain") /\ s \in Seq(Elem) /\ Len(s) \in Nat
    <2>1. s \in Seq(Elem)
      BY DEF RawText, Piece
    <2> QED
      BY <2>1, LenProperties DEF RawText
  <1>2. /\ IdAfter(s[i]) = 0 /\ IdBefore(s[j]) = 0
    BY BareRaw DEF RawText
  <1>3. Piece(TRUE, c, s[i].to + 1, s[j].from - 1, "plain", "plain")
    <2>1. 1 \in Int /\ Len(input) \in Int
      OBVIOUS
    <2> QED
      BY <1>1, <1>2, <2>1, PieceBetween
  <1>4. s[i].to + 1 \in Int /\ s[j].from - 1 \in Int
    <2>1. s[i].to \in Nat /\ s[j].from \in Nat
      BY <1>1, ElemAt
    <2> QED
      BY <2>1
  <1>5. c \in Seq(Elem) /\ Len(c) = j - i - 1 /\ \A p \in 1..j - i - 1 : c[p] = s[i + p]
    <2>1. i + 1 \in 1..Len(s) + 1 /\ j - 1 \in 0..Len(s) /\ i + 1 <= (j - 1) + 1
      BY <1>1
    <2>2. /\ c \in Seq(Elem) /\ Len(c) = (j - 1) + 1 - (i + 1)
          /\ \A p \in 1..(j - 1) + 1 - (i + 1) : c[p] = s[(i + 1) + p - 1]
      BY <1>1, <2>1, SubAt
    <2> HIDE DEF c
    <2>3. \A p \in 1..j - i - 1 : c[p] = s[i + p]
      <3> TAKE p \in 1..j - i - 1
      <3>1. p \in 1..(j - 1) + 1 - (i + 1) /\ (i + 1) + p - 1 = i + p
        BY <1>1
      <3> QED
        BY <2>2, <3>1
    <2> QED
      BY <1>1, <2>2, <2>3
  <1> HIDE DEF c
  <1>6. Piece(FALSE, e, s[i].to + 1, s[j].from - 1, in, in)
    BY <1>3, <1>4, EscapePiece
  <1>7. /\ e \in Seq(Elem) /\ Len(e) = Len(c)
        /\ \A p \in 1..Len(c) :
             /\ e[p].char = c[p].char /\ e[p].from = c[p].from /\ e[p].to = c[p].to
             /\ e[p].in = in /\ (e[p].escaped <=> c[p].char \in chars)
    <2>1. in \in Ins
      BY DEF Ins
    <2>2. Escaped(e, c, chars, in)
      BY <1>5, <2>1, EscapeAt
    <2> HIDE DEF e
    <2> QED
      BY <2>2 DEF Escaped
  <1> HIDE DEF e
  <1>8. ASSUME NEW p \in 1..Len(e)
        PROVE /\ i + p \in 1..Len(s) /\ e[p].char = s[i + p].char
              /\ e[p].from = s[i + p].from /\ e[p].to = s[i + p].to
              /\ e[p].in = in /\ (e[p].escaped <=> e[p].char \in chars)
    BY <1>1, <1>5, <1>7
  <1>9. \A p \in 1..Len(e) : Sound(e[p])
    <2> TAKE p \in 1..Len(e)
    <2>1. Raw(s[i + p])
      BY <1>8 DEF RawText
    <2> QED
      BY <1>8, <2>1 DEF Raw, Sound, Own, IdPart, Number
  <1>10. Older(e, k)
    <2> SUFFICES ASSUME NEW p \in 1..Len(e) - 1, Opening(e[p])
                 PROVE  \E m \in 1..k - 1 : e[p + 1].char = Numerals[m]
      BY DEF Older
    <2>1. /\ p \in 1..Len(e) /\ p + 1 \in 1..Len(e)
          /\ i + p \in 1..Len(s) - 1 /\ (i + p) + 1 = i + (p + 1)
      BY <1>1, <1>5, <1>7
    <2>2. Opening(s[i + p]) /\ e[p + 1].char = s[(i + p) + 1].char
      BY <1>8, <2>1 DEF Opening
    <2> QED
      BY <2>1, <2>2 DEF RawText, Older
  <1>11. Part(e, k, s[i].to + 1, s[j].from - 1, in, in)
    BY <1>6, <1>9, <1>10 DEF Part
  <1> QED
    BY <1>5, <1>7, <1>8, <1>11 DEF e, c, Contained

(* Later characters stand for later pieces. *)
LEMMA Rising ==
    ASSUME NEW raw \in BOOLEAN, NEW s, NEW lo, NEW hi, NEW x, NEW y, Piece(raw, s, lo, hi, x, y),
           NEW i \in 1..Len(s), NEW j \in 1..Len(s), i < j
    PROVE  s[i].to < s[j].from
  <1>1. /\ s \in Seq(Elem) /\ s # <<>> /\ Len(s) \in Nat
        /\ \A p \in 1..Len(s) - 1 : s[p + 1].from = s[p].to + 1
        /\ \A p \in 1..Len(s) : s[p].from <= s[p].to + 1 /\ s[p].from \in Nat /\ s[p].to \in Nat
    <2>1. s \in Seq(Elem) /\ Len(s) \in Nat
      BY LenProperties DEF Piece
    <2>2. s # <<>> /\ \A p \in 1..Len(s) : s[p].from \in Nat /\ s[p].to \in Nat
      BY <2>1, ElemAt
    <2> QED
      BY <2>1, <2>2 DEF Piece, Link
  <1> DEFINE Bad == {p \in 1..Len(s) : i < p /\ s[p].from <= s[i].to}
  <1>2. Bad = {}
    <2> SUFFICES ASSUME Bad # {} PROVE FALSE
      OBVIOUS
    <2>1. Bad \in SUBSET Nat
      OBVIOUS
    <2>2. PICK p \in Bad : \A q \in Bad : ~(<<q, p>> \in OpToRel(<, Nat))
      BY <2>1, NatLessThanWellFounded, WFMin
    <2>3. \A q \in Bad : ~(q < p)
      BY <2>1, <2>2 DEF OpToRel
    <2>4. p \in 1..Len(s) /\ i < p /\ s[p].from <= s[i].to /\ p - 1 \in 1..Len(s) - 1
      BY <1>1
    <2>5. s[(p - 1) + 1].from = s[p - 1].to + 1 /\ (p - 1) + 1 = p
      BY <1>1, <2>4
    <2>6. CASE p - 1 = i
      BY <1>1, <2>4, <2>5, <2>6
    <2>7. CASE p - 1 # i
      <3>1. p - 1 \notin Bad /\ p - 1 \in 1..Len(s) /\ i < p - 1
        BY <1>1, <2>3, <2>4, <2>7
      <3>2. s[i].to < s[p - 1].from
        BY <1>1, <2>4, <3>1
      <3>3. /\ s[p - 1].from <= s[p - 1].to + 1 /\ s[p - 1].from \in Nat /\ s[p - 1].to \in Nat
            /\ s[i].to \in Nat /\ s[p].from \in Nat
        BY <1>1, <2>4, <3>1
      <3>4. s[p].from = s[p - 1].to + 1
        BY <2>5
      <3>5. \A a, b, d \in Nat : (a < b /\ b <= d + 1) => ~(d + 1 <= a)
        OBVIOUS
      <3>6. ~(s[p - 1].to + 1 <= s[i].to)
        BY <3>2, <3>3, <3>5
      <3> QED
        BY <2>4, <3>4, <3>6
    <2> QED
      BY <2>6, <2>7
  <1>3. ~(s[j].from <= s[i].to) /\ s[j].from \in Nat /\ s[i].to \in Nat
    BY <1>1, <1>2
  <1> QED
    BY <1>3

(* The characters of a value between the first and the last, and its front. *)
Middle(e, kind) ==
    /\ e.in # "plain"
    /\ Plainly(e, "_") => e.in # "italic" /\ kind # "italic"
    /\ e.in = "code" => kind = "code" /\ ~Plainly(e, Tick)
Italics(c, kind) == c = "_" => kind = "italic"
Front(v, k, kind, lo, hi, y) ==
    /\ Part(v, k, lo, hi, "plain", y)
    /\ v # <<>> /\ v[1].in = "plain" /\ Bare(v[1].char)
    /\ Italics(v[1].char, kind)
    /\ \A p \in 2..Len(v) : Middle(v[p], kind)

LEMMA Grow ==
    ASSUME NEW k \in Nat, NEW kind, NEW a, NEW b,
           NEW lo \in Int, NEW m \in Int, NEW hi \in Int, NEW x, NEW y,
           Front(a, k, kind, lo, m, x), Part(b, k, m + 1, hi, x, y),
           \A p \in 1..Len(b) : Middle(b[p], kind)
    PROVE  Front(a \o b, k, kind, lo, hi, y) /\ Joined(a \o b, a, b)
  <1> DEFINE v == a \o b
  <1>1. Part(a, k, lo, m, "plain", x)
    BY DEF Front
  <1>2. Part(v, k, lo, hi, "plain", y) /\ Joined(v, a, b)
    BY <1>1, PartConcat
  <1> HIDE DEF v
  <1>3. a \in Seq(Elem) /\ b \in Seq(Elem)
    BY <1>1 DEF Part, Piece
  <1>4. Len(a) \in Nat /\ Len(b) \in Nat /\ Len(a) # 0
    BY <1>3, LenProperties, EmptySeq DEF Front
  <1>5. v # <<>> /\ v[1] = a[1]
    BY <1>2, <1>4, EmptySeq DEF Joined
  <1>6. ASSUME NEW p \in 2..Len(v) PROVE Middle(v[p], kind)
    <2>1. CASE p <= Len(a)
      <3>1. p \in 2..Len(a) /\ v[p] = a[p]
        BY <1>2, <1>4, <2>1 DEF Joined
      <3> QED
        BY <3>1 DEF Front
    <2>2. CASE p > Len(a)
      <3> DEFINE q == p - Len(a)
      <3>1. q \in 1..Len(b) /\ p = Len(a) + q
        BY <1>2, <1>4, <2>2 DEF Joined
      <3> HIDE DEF q
      <3> QED
        BY <1>2, <3>1 DEF Joined
    <2> QED
      BY <1>2, <1>4, <2>1, <2>2 DEF Joined
  <1>7. Front(v, k, kind, lo, hi, y)
    BY <1>2, <1>5, <1>6 DEF Front
  <1> QED
    BY <1>2, <1>7 DEF v

(* v is a value for lo..hi. *)
Whole(v, k, kind, lo, hi) ==
    Value(k, v, kind) /\ v[1].from = lo /\ v[Len(v)].to = hi /\ v \in Seq(Elem)

(* The mark that closes a value. *)
Last(b, kind) ==
    /\ \A p \in 1..Len(b) - 1 : Middle(b[p], kind)
    /\ b # <<>> /\ b[Len(b)].in # "plain" /\ Bare(b[Len(b)].char)
    /\ Italics(b[Len(b)].char, kind)

LEMMA Close ==
    ASSUME NEW k \in Nat, NEW kind, NEW a, NEW b,
           NEW lo \in Int, NEW m \in Int, NEW hi \in Int, NEW x, lo <= hi,
           Front(a, k, kind, lo, m, x), Part(b, k, m + 1, hi, x, "plain"),
           Last(b, kind), Len(a) + Len(b) >= 3
    PROVE  Whole(a \o b, k, kind, lo, hi)
  <1> DEFINE v == a \o b
  <1>1. Part(a, k, lo, m, "plain", x)
    BY DEF Front
  <1>2. Part(v, k, lo, hi, "plain", "plain") /\ Joined(v, a, b)
    BY <1>1, PartConcat
  <1> HIDE DEF v
  <1>3. a \in Seq(Elem) /\ b \in Seq(Elem)
    BY <1>1 DEF Part, Piece
  <1>4. Len(a) \in Nat /\ Len(b) \in Nat /\ Len(a) # 0 /\ Len(b) # 0
    BY <1>3, LenProperties, EmptySeq DEF Front, Last
  <1>5. v # <<>> /\ v[1] = a[1] /\ v[Len(v)] = b[Len(b)] /\ Len(v) >= 3 /\ Len(v) \in Nat
    BY <1>2, <1>4, EmptySeq DEF Joined
  <1>6. ASSUME NEW p \in 2..Len(v) - 1 PROVE Middle(v[p], kind)
    <2>1. CASE p <= Len(a)
      <3>1. p \in 2..Len(a) /\ v[p] = a[p]
        BY <1>2, <1>4, <2>1 DEF Joined
      <3> QED
        BY <3>1 DEF Front
    <2>2. CASE p > Len(a)
      <3> DEFINE q == p - Len(a)
      <3>1. q \in 1..Len(b) - 1 /\ q \in 1..Len(b) /\ p = Len(a) + q
        BY <1>2, <1>4, <2>2 DEF Joined
      <3> HIDE DEF q
      <3> QED
        BY <1>2, <3>1 DEF Joined, Last
    <2> QED
      BY <1>2, <1>4, <2>1, <2>2 DEF Joined
  <1>7. /\ v[1].in = "plain" /\ Bare(v[1].char) /\ (v[1].char = "_" => kind = "italic")
        /\ v[Len(v)].in # "plain" /\ Bare(v[Len(v)].char)
        /\ v[Len(v)].char = "_" => kind = "italic"
    BY <1>5 DEF Front, Last, Italics
  <1>8. NoDouble(v)
    <2> SUFFICES ASSUME NEW p \in 1..Len(v) - 1, Double(v[p], v[p + 1]) PROVE FALSE
      BY DEF NoDouble
    <2>1. CASE p = 1
      <3>1. p + 1 \in 2..Len(v) - 1
        BY <1>5, <2>1
      <3>2. Middle(v[p + 1], kind)
        BY <1>6, <3>1
      <3> QED
        BY <1>7, <2>1, <3>2 DEF Double, Middle, Plainly, Tick
    <2>2. CASE p # 1
      <3>1. p \in 2..Len(v) - 1
        BY <1>5, <2>2
      <3>2. Middle(v[p], kind)
        BY <1>6, <3>1
      <3> QED
        BY <3>2 DEF Double, Middle
    <2> QED
      BY <2>1, <2>2
  <1>9. \A p \in 2..Len(v) : v[p].in # "plain"
    <2> TAKE p \in 2..Len(v)
    <2>1. CASE p = Len(v)
      BY <1>7, <2>1
    <2>2. CASE p # Len(v)
      <3>1. p \in 2..Len(v) - 1
        BY <1>5, <2>2
      <3> QED
        BY <1>6, <3>1 DEF Middle
    <2> QED
      BY <2>1, <2>2
  <1>10. /\ Piece(FALSE, v, lo, hi, "plain", "plain") /\ Older(v, k)
         /\ \A p \in 1..Len(v) : Sound(v[p])
    BY <1>2 DEF Part
  <1>11. v[1].from = lo /\ v[Len(v)].to = hi /\ v \in Seq(Elem)
    BY <1>5, <1>10 DEF Piece, Begins, Finishes
  <1>12. Ends(v, kind)
    BY <1>5, <1>7, <1>9, <1>11 DEF Ends
  <1>13. Whole(v, k, kind, lo, hi)
    BY <1>8, <1>10, <1>11, <1>12 DEF Value, Whole
  <1> QED
    BY <1>13 DEF v

LEMMA Entering ==
    /\ \A c, in, y : <<in, c, y>> \in Turns => Turn(c, in, y)
    /\ Entities \subseteq Ins
    /\ {"plain", "pre", "code", "link", "url", "italic", "pre 2", "pre 3", "end 2", "end 3", "link 2"} \subseteq Ins
    /\ {"plain", "pre", "code", "link", "url", "italic"} \subseteq Entities
    /\ {Tick, "_", "[", "]", "(", ")", "\n"} \subseteq MarkChars
    /\ Danger("code") = {"\\", Tick} /\ Danger("pre") = {"\\", Tick} /\ Danger("url") = {"\\", ")"}
    /\ Danger("link") = Special \cup {"\\"} /\ Danger("italic") = Special \cup {"\\"}
    /\ Danger("plain") = Special \cup {"\\"}
    /\ {"\\", Tick} \subseteq Escapable /\ {"\\", ")"} \subseteq Escapable
    /\ Special \cup {"\\"} \subseteq Escapable
  BY DEF Turn, Ins, Entities, MarkChars, Danger, Escapable, Special

(* A mark of one character. *)
OneMarkOK(M, k, c, in, y, from, to) ==
    Part(M, k, from, to, in, y) /\ Len(M) = 1 /\ M[1].char = c /\ M[1].in = in /\ ~M[1].escaped

LEMMA OneMark ==
    ASSUME NEW k \in Nat, NEW c \in MarkChars, NEW in \in Ins, NEW y, <<in, c, y>> \in Turns,
           NEW from, NEW to, Markup(from, to)
    PROVE  OneMarkOK(Marks(<<c>>, <<in>>, from, to), k, c, in, y, from, to)
  <1> DEFINE chars == <<c>>
             ins == <<in>>
             M == Marks(chars, ins, from, to)
  <1>1. DOMAIN chars = 1..1 /\ chars[1] = c /\ ins[1] = in
    OBVIOUS
  <1> HIDE DEF chars, ins
  <1>2. Leading(1, chars, ins, y)
    <2>1. \A j \in 1..1 - 1 : Turn(chars[j], ins[j], ins[j + 1])
      OBVIOUS
    <2>2. Turn(chars[1], ins[1], y)
      BY <1>1, Entering
    <2> QED
      BY <1>1, <2>1, <2>2 DEF Leading
  <1>3. 1 \in Nat \ {0}
    OBVIOUS
  <1>4. Part(M, k, from, to, ins[1], y) /\ Written(M, 1, chars, ins, from, to)
    BY <1>2, <1>3, MarksPart
  <1> HIDE DEF M
  <1>5. Len(M) = 1 /\ M[1].char = c /\ M[1].in = in /\ ~M[1].escaped
    BY <1>1, <1>4 DEF Written
  <1>6. OneMarkOK(M, k, c, in, y, from, to)
    BY <1>1, <1>4, <1>5 DEF OneMarkOK
  <1> QED
    BY <1>6 DEF M, chars, ins

LEMMA OneFront ==
    ASSUME NEW v, NEW k, NEW c, NEW kind, NEW y, NEW from, NEW to, c \in MarkChars,
           OneMarkOK(v, k, c, "plain", y, from, to), Italics(c, kind)
    PROVE  Front(v, k, kind, from, to, y)
  <1>1. v \in Seq(Elem)
    BY DEF OneMarkOK, Part, Piece
  <1>2. v # <<>> /\ \A p \in 2..Len(v) : FALSE
    <2>1. Len(v) = 1
      BY DEF OneMarkOK
    <2> QED
      BY <1>1, <2>1
  <1> QED
    BY <1>2, MarkCharsBare DEF OneMarkOK, Front

LEMMA OneLast ==
    ASSUME NEW v, NEW k, NEW c, NEW kind, NEW in, NEW y, NEW from, NEW to, c \in MarkChars,
           OneMarkOK(v, k, c, in, y, from, to), Italics(c, kind), in # "plain"
    PROVE  Last(v, kind)
  <1>1. v \in Seq(Elem)
    BY DEF OneMarkOK, Part, Piece
  <1>2. v # <<>> /\ \A p \in 1..Len(v) - 1 : FALSE
    <2>1. Len(v) = 1
      BY DEF OneMarkOK
    <2> QED
      BY <1>1, <2>1
  <1> QED
    BY <1>2, MarkCharsBare DEF OneMarkOK, Last

(* What SpanAt promises of a span of spans[k] that starts at i. *)
Spanned(s, k, i, kind, span) ==
    /\ span.last \in i + 1..Len(s)
    /\ Bare(s[i].char) /\ Bare(s[span.last].char)
    /\ Whole(span.value, k, kind, s[i].from, s[span.last].to)

LEMMA RawSeq ==
    ASSUME NEW s, NEW k, RawText(s, k)
    PROVE  s \in Seq(Elem) /\ Len(s) \in Nat
  <1>1. s \in Seq(Elem)
    BY DEF RawText, Piece
  <1> QED
    BY <1>1, LenProperties

(* A mark of a text that is not escaped yet. *)
LEMMA MarkAt ==
    ASSUME NEW s, NEW k, RawText(s, k), NEW p \in 1..Len(s), s[p].char \in MarkChars
    PROVE  Bare(s[p].char) /\ Markup(s[p].from, s[p].to)
  <1>1. s \in Seq(Elem) /\ Len(s) \in Nat
    BY RawSeq
  <1>2. p \in Nat /\ p > 0 /\ p + 0 = p /\ 0 \in 0..2 /\ p + 0 <= Len(s)
    BY <1>1
  <1>3. \A q \in p..p + 0 : s[q].char \in MarkChars
    BY <1>2
  <1>4. Markup(s[p].from, s[p + 0].to)
    BY <1>2, <1>3, Unlettered
  <1> QED
    BY <1>2, <1>4, MarkCharsBare

LEMMA CodeSpan ==
    ASSUME NEW s, NEW k \in Nat, RawText(s, k), NEW i \in Nat \ {0}, Len(input) \in Nat,
           NEW span \in CodeAt(s, i)
    PROVE  Spanned(s, k, i, "code", span)
  <1>1. s \in Seq(Elem) /\ Len(s) \in Nat
    BY RawSeq
  <1>2. PICK j \in {n \in i + 2..Len(s) : InTicks(s, i, n)} :
           span = [last |-> j,
                   value |-> Mark(Tick, "plain", s, i) \o EscapeCode(SubSeq(s, i + 1, j - 1), "code")
                               \o Mark(Tick, "code", s, j)]
    BY DEF CodeAt
  <1> DEFINE A == Mark(Tick, "plain", s, i)
             E == EscapeCode(SubSeq(s, i + 1, j - 1), "code")
             B == Mark(Tick, "code", s, j)
  <1>3. j \in Nat /\ i \in 1..Len(s) /\ j \in 1..Len(s) /\ i + 2 <= j /\ i < j
    BY <1>1
  <1>4. s[i].char = Tick /\ s[j].char = Tick
    <2>1. At(s, i, <<Tick>>) /\ At(s, j, <<Tick>>)
      BY DEF InTicks
    <2> QED
      BY <1>1, <1>3, <2>1, AtOne
  <1>5. Tick \in MarkChars /\ "code" \in Ins /\ "plain" \in Ins /\ "code" \in Entities
    BY Entering
  <1>6. Markup(s[i].from, s[i].to) /\ Markup(s[j].from, s[j].to) /\ Bare(s[i].char) /\ Bare(s[j].char)
    BY <1>3, <1>4, <1>5, MarkAt
  <1>7. OneMarkOK(A, k, Tick, "plain", "code", s[i].from, s[i].to)
    <2>1. <<"plain", Tick, "code">> \in Turns
      BY DEF Turns
    <2> QED
      BY <1>5, <1>6, <2>1, OneMark DEF Mark
  <1>8. OneMarkOK(B, k, Tick, "code", "plain", s[j].from, s[j].to)
    <2>1. <<"code", Tick, "plain">> \in Turns
      BY DEF Turns
    <2> QED
      BY <1>5, <1>6, <2>1, OneMark DEF Mark
  <1>9. Contained(E, k, s, i, j, {"\\", Tick}, "code")
    <2>1. Danger("code") \subseteq {"\\", Tick} /\ {"\\", Tick} \subseteq Escapable
      BY Entering
    <2> QED
      BY <1>3, <1>5, <1>6, <2>1, Content DEF EscapeCode
  <1>10. Italics(Tick, "code") /\ "code" # "plain" /\ "code" # "italic"
    BY DEF Tick, Italics
  <1> HIDE DEF A, E, B
  <1>11. Front(A, k, "code", s[i].from, s[i].to, "code")
    BY <1>5, <1>7, <1>10, OneFront
  <1>12. Last(B, "code")
    BY <1>5, <1>8, <1>10, OneLast
  <1>13. s[i].from \in Int /\ s[i].to \in Int /\ s[j].from - 1 \in Int /\ s[j].to \in Int
         /\ (s[j].from - 1) + 1 = s[j].from
    BY <1>6 DEF Markup
  <1>14. \A p \in 1..Len(E) : Middle(E[p], "code")
    BY <1>9, <1>10 DEF Contained, Middle, Plainly
  <1>15. Front(A \o E, k, "code", s[i].from, s[j].from - 1, "code") /\ Joined(A \o E, A, E)
    <2>1. Part(E, k, s[i].to + 1, s[j].from - 1, "code", "code")
      BY <1>9 DEF Contained
    <2> QED
      BY <1>11, <1>13, <1>14, <2>1, Grow
  <1> DEFINE C == A \o E
  <1>16. Len(C) + Len(B) >= 3
    <2>1. Len(A) = 1 /\ Len(B) = 1 /\ Len(E) = j - i - 1
      BY <1>7, <1>8, <1>9 DEF OneMarkOK, Contained
    <2>2. Len(C) = Len(A) + Len(E)
      BY <1>15 DEF Joined
    <2> HIDE DEF C
    <2> QED
      BY <1>3, <2>1, <2>2
  <1>17. s[i].from <= s[j].to
    <2>1. s[i].to < s[j].from
      <3>1. Piece(TRUE, s, 1, Len(input), "plain", "plain")
        BY DEF RawText
      <3> QED
        BY <1>3, <3>1, Rising
    <2> QED
      BY <1>6, <2>1 DEF Markup
  <1>18. Whole(C \o B, k, "code", s[i].from, s[j].to)
    <2>1. Part(B, k, (s[j].from - 1) + 1, s[j].to, "code", "plain")
      BY <1>8, <1>13 DEF OneMarkOK
    <2>2. Front(C, k, "code", s[i].from, s[j].from - 1, "code")
      BY <1>15
    <2> HIDE DEF C
    <2> QED
      BY <1>12, <1>13, <1>16, <1>17, <2>1, <2>2, Close
  <1>19. span.last = j /\ span.value = C \o B
    BY <1>2 DEF A, E, B
  <1> HIDE DEF C
  <1>20. j \in i + 1..Len(s)
    BY <1>3
  <1> QED
    BY <1>6, <1>18, <1>19, <1>20 DEF Spanned

(* The parts of a placeholder are never escaped. *)
LEMMA IdBare ==
    ASSUME NEW e \in Elem, e.char = SOH \/ e.char \in Digits
    PROVE  ~e.escaped
  <1>1. SOH \notin Escapable /\ \A d \in Digits : d \notin Escapable
    BY DigitsBare DEF Escapable, SOH, Special, Tick
  <1> QED
    BY <1>1 DEF Elem

LEMMA NotEmpty ==
    ASSUME NEW v \in Seq(Elem), Len(v) # 0
    PROVE  v # <<>>
  OBVIOUS

LEMMA Fences ==
    ASSUME NEW s, NEW i, NEW k \in Nat, Markup(s[i].from, s[i + 2].to)
    PROVE  /\ Front(OpenFence(s, i), k, "pre", s[i].from, s[i + 2].to, "pre") /\ Len(OpenFence(s, i)) = 4
           /\ Part(CloseFence(s, i), k, s[i].from, s[i + 2].to, "pre", "plain") /\ Last(CloseFence(s, i), "pre")
  <1> DEFINE from == s[i].from
             to == s[i + 2].to
             oc == Fence \o <<"\n">>
             oi == <<"plain", "pre 2", "pre 3", "pre">>
             cc == <<"\n">> \o Fence
             ci == <<"pre", "pre", "end 2", "end 3">>
             O == OpenFence(s, i)
             C == CloseFence(s, i)
  <1>1. /\ DOMAIN oc = 1..4 /\ oc[1] = Tick /\ oc[2] = Tick /\ oc[3] = Tick /\ oc[4] = "\n"
        /\ DOMAIN cc = 1..4 /\ cc[1] = "\n" /\ cc[2] = Tick /\ cc[3] = Tick /\ cc[4] = Tick
    BY DEF Fence
  <1>2. /\ oi[1] = "plain" /\ oi[2] = "pre 2" /\ oi[3] = "pre 3" /\ oi[4] = "pre"
        /\ ci[1] = "pre" /\ ci[2] = "pre" /\ ci[3] = "end 2" /\ ci[4] = "end 3"
    OBVIOUS
  <1>3. O = Marks(oc, oi, from, to) /\ C = Marks(cc, ci, from, to)
    BY DEF OpenFence, CloseFence
  <1> HIDE DEF oc, oi, cc, ci, from, to, O, C
  <1>4. Markup(from, to)
    BY DEF from, to
  <1>5. \A p \in 1..4 : p = 1 \/ p = 2 \/ p = 3 \/ p = 4
    OBVIOUS
  <1>6. \A p \in 1..4 - 1 : (p = 1 /\ p + 1 = 2) \/ (p = 2 /\ p + 1 = 3) \/ (p = 3 /\ p + 1 = 4)
    OBVIOUS
  <1>7. /\ Turn(Tick, "plain", "pre 2") /\ Turn(Tick, "pre 2", "pre 3") /\ Turn(Tick, "pre 3", "pre")
        /\ Turn(Tick, "pre", "end 2") /\ Turn(Tick, "end 2", "end 3") /\ Turn(Tick, "end 3", "plain")
    BY DEF Turns, Turn
  <1>8. Turn("\n", "pre", "pre")
    BY Entering DEF Turn, Tick
  <1>9. Leading(4, oc, oi, "pre")
    <2>1. \A p \in 1..4 : oc[p] \in MarkChars /\ oi[p] \in Ins
      BY <1>1, <1>2, <1>5, Entering
    <2>2. \A p \in 1..4 - 1 : Turn(oc[p], oi[p], oi[p + 1])
      BY <1>1, <1>2, <1>6, <1>7
    <2> QED
      BY <1>1, <1>2, <1>8, <2>1, <2>2 DEF Leading
  <1>10. Leading(4, cc, ci, "plain")
    <2>1. \A p \in 1..4 : cc[p] \in MarkChars /\ ci[p] \in Ins
      BY <1>1, <1>2, <1>5, Entering
    <2>2. \A p \in 1..4 - 1 : Turn(cc[p], ci[p], ci[p + 1])
      BY <1>1, <1>2, <1>6, <1>7, <1>8
    <2> QED
      BY <1>1, <1>2, <1>7, <2>1, <2>2 DEF Leading
  <1>11. 4 \in Nat \ {0}
    OBVIOUS
  <1>12. Part(O, k, from, to, oi[1], "pre") /\ Written(O, 4, oc, oi, from, to)
    BY <1>3, <1>4, <1>9, <1>11, MarksPart
  <1>13. Part(C, k, from, to, ci[1], "plain") /\ Written(C, 4, cc, ci, from, to)
    BY <1>3, <1>4, <1>10, <1>11, MarksPart
  <1>14. /\ Len(O) = 4 /\ O # <<>> /\ O[1].in = "plain" /\ O[1].char = Tick /\ O[2].in = "pre 2"
         /\ O[3].in = "pre 3" /\ O[4].in = "pre" /\ O[4].char = "\n"
    <2>1. Len(O) = 4 /\ O \in Seq(Elem)
      BY <1>12 DEF Written
    <2>2. \A p \in 1..4 : O[p].char = oc[p] /\ O[p].in = oi[p]
      BY <1>12 DEF Written
    <2>3. O # <<>>
      <3>1. Len(O) # 0
        BY <2>1
      <3> QED
        BY <2>1, <3>1, NotEmpty
    <2>4. 1 \in 1..4 /\ 2 \in 1..4 /\ 3 \in 1..4 /\ 4 \in 1..4
      OBVIOUS
    <2> QED
      BY <1>1, <1>2, <2>1, <2>2, <2>3, <2>4
  <1>15. /\ Len(C) = 4 /\ C # <<>> /\ C[1].in = "pre" /\ C[1].char = "\n" /\ C[2].in = "pre"
         /\ C[3].in = "end 2" /\ C[4].in = "end 3" /\ C[4].char = Tick
    <2>1. Len(C) = 4 /\ C \in Seq(Elem)
      BY <1>13 DEF Written
    <2>2. \A p \in 1..4 : C[p].char = cc[p] /\ C[p].in = ci[p]
      BY <1>13 DEF Written
    <2>3. C # <<>>
      <3>1. Len(C) # 0
        BY <2>1
      <3> QED
        BY <2>1, <3>1, NotEmpty
    <2>4. 1 \in 1..4 /\ 2 \in 1..4 /\ 3 \in 1..4 /\ 4 \in 1..4
      OBVIOUS
    <2> QED
      BY <1>1, <1>2, <2>1, <2>2, <2>3, <2>4
  <1>16. Bare(Tick) /\ Italics(Tick, "pre")
    BY Entering, MarkCharsBare DEF Italics, Tick
  <1>17. \A e : \A in \in {"pre 2", "pre 3", "pre", "end 2"} : e.in = in => Middle(e, "pre")
    BY DEF Middle
  <1>18. Front(O, k, "pre", from, to, "pre")
    <2>1. \A p \in 2..Len(O) : Middle(O[p], "pre")
      <3>1. \A p \in 2..4 : p = 2 \/ p = 3 \/ p = 4
        OBVIOUS
      <3>2. Middle(O[2], "pre") /\ Middle(O[3], "pre") /\ Middle(O[4], "pre")
        <4>1. O[2].in = "pre 2" /\ O[3].in = "pre 3" /\ O[4].in = "pre"
          BY <1>14
        <4> QED
          BY <1>17, <4>1
      <3>3. Len(O) = 4
        BY <1>14
      <3> QED
        BY <3>1, <3>2, <3>3
    <2> QED
      BY <1>2, <1>12, <1>14, <1>16, <2>1 DEF Front
  <1>19. Last(C, "pre")
    <2>1. \A p \in 1..Len(C) - 1 : Middle(C[p], "pre")
      <3>1. \A p \in 1..4 - 1 : p = 1 \/ p = 2 \/ p = 3
        OBVIOUS
      <3>2. Middle(C[1], "pre") /\ Middle(C[2], "pre") /\ Middle(C[3], "pre")
        <4>1. C[1].in = "pre" /\ C[2].in = "pre" /\ C[3].in = "end 2"
          BY <1>15
        <4> QED
          BY <1>17, <4>1
      <3>3. Len(C) = 4
        BY <1>15
      <3> QED
        BY <3>1, <3>2, <3>3
    <2> QED
      BY <1>15, <1>16, <2>1 DEF Last
  <1> QED
    BY <1>2, <1>13, <1>14, <1>18, <1>19 DEF O, C, from, to

(* Three marks in a row. *)
LEMMA MarksAtThree ==
    ASSUME NEW s, NEW k, RawText(s, k), NEW i \in Nat \ {0}, At(s, i, Fence)
    PROVE  /\ i + 2 <= Len(s) /\ Bare(s[i].char) /\ Bare(s[i + 2].char)
           /\ Markup(s[i].from, s[i + 2].to)
  <1>1. s \in Seq(Elem) /\ Len(s) \in Nat
    BY RawSeq
  <1>2. /\ i + 2 <= Len(s)
        /\ s[i].char = Tick /\ s[i + 1].char = Tick /\ s[i + 2].char = Tick
    BY <1>1, AtThree DEF Fence
  <1>3. \A q \in i..i + 2 : s[q].char \in MarkChars
    <2>1. \A q \in i..i + 2 : q = i \/ q = i + 1 \/ q = i + 2
      OBVIOUS
    <2> QED
      BY <1>2, <2>1, Entering
  <1>4. Markup(s[i].from, s[i + 2].to)
    <2>1. i \in Nat /\ i > 0 /\ 2 \in 0..2
      OBVIOUS
    <2> QED
      BY <1>2, <1>3, <2>1, Unlettered
  <1> QED
    BY <1>2, <1>4, Entering, MarkCharsBare

LEMMA PreSpan ==
    ASSUME NEW s, NEW k \in Nat, RawText(s, k), NEW i \in Nat \ {0}, Len(input) \in Nat,
           NEW span \in PreAt(s, i)
    PROVE  Spanned(s, k, i, "pre", span)
  <1>1. s \in Seq(Elem) /\ Len(s) \in Nat
    BY RawSeq
  <1>2. PICK j \in Earliest({n \in i + 3..Len(s) : At(s, i, Fence) /\ At(s, n, Fence)}) :
           span = [last |-> j + 2,
                   value |-> OpenFence(s, i) \o EscapeCode(SubSeq(s, i + 3, j - 1), "pre") \o CloseFence(s, j)]
    BY DEF PreAt
  <1> DEFINE A == OpenFence(s, i)
             E == EscapeCode(SubSeq(s, i + 3, j - 1), "pre")
             B == CloseFence(s, j)
             m == i + 2
  <1>3. j \in Nat /\ i + 3 <= j /\ j <= Len(s) /\ At(s, i, Fence) /\ At(s, j, Fence)
    BY <1>1 DEF Earliest
  <1>4. /\ i + 2 <= Len(s) /\ Bare(s[i].char) /\ Bare(s[i + 2].char) /\ Markup(s[i].from, s[i + 2].to)
    BY <1>3, MarksAtThree
  <1>5. /\ j + 2 <= Len(s) /\ Bare(s[j].char) /\ Bare(s[j + 2].char) /\ Markup(s[j].from, s[j + 2].to)
    <2>1. j \in Nat \ {0}
      BY <1>3
    <2> QED
      BY <1>3, <2>1, MarksAtThree
  <1>6. /\ Front(A, k, "pre", s[i].from, s[i + 2].to, "pre") /\ Len(A) = 4
        /\ Part(B, k, s[j].from, s[j + 2].to, "pre", "plain") /\ Last(B, "pre")
    BY <1>4, <1>5, Fences
  <1>7. Contained(E, k, s, m, j, {"\\", Tick}, "pre")
    <2>1. Danger("pre") \subseteq {"\\", Tick} /\ {"\\", Tick} \subseteq Escapable /\ "pre" \in Entities
      BY Entering
    <2>2. m \in 1..Len(s) /\ j \in 1..Len(s) /\ m < j /\ m + 1 = i + 3
      BY <1>1, <1>3
    <2>3. Bare(s[m].char)
      BY <1>4
    <2>4. E = Escape(SubSeq(s, m + 1, j - 1), {"\\", Tick}, "pre")
      BY <2>2 DEF EscapeCode
    <2> HIDE DEF m, E
    <2>5. Contained(Escape(SubSeq(s, m + 1, j - 1), {"\\", Tick}, "pre"), k, s, m, j, {"\\", Tick}, "pre")
      BY <1>5, <2>1, <2>2, <2>3, Content
    <2> QED
      BY <2>4, <2>5
  <1> HIDE DEF A, E, B
  <1>8. /\ s[i].from \in Int /\ s[i + 2].to \in Int /\ s[j].from - 1 \in Int /\ s[j + 2].to \in Int
        /\ (s[j].from - 1) + 1 = s[j].from
    <2>1. s[i].from \in Nat /\ s[i + 2].to \in Nat /\ s[j].from \in Nat /\ s[j + 2].to \in Nat
      BY <1>4, <1>5 DEF Markup
    <2>2. \A a \in Nat : a \in Int /\ a - 1 \in Int /\ (a - 1) + 1 = a
      OBVIOUS
    <2>3. s[i].from \in Int /\ s[i + 2].to \in Int /\ s[j + 2].to \in Int
      BY <2>1, <2>2
    <2>4. s[j].from - 1 \in Int /\ (s[j].from - 1) + 1 = s[j].from
      BY <2>1, <2>2
    <2> QED
      BY <2>3, <2>4
  <1>9. \A p \in 1..Len(E) : Middle(E[p], "pre")
    BY <1>7 DEF Contained, Middle
  <1>10. Part(E, k, s[i + 2].to + 1, s[j].from - 1, "pre", "pre")
    BY <1>7 DEF Contained
  <1>11. Front(A \o E, k, "pre", s[i].from, s[j].from - 1, "pre") /\ Joined(A \o E, A, E)
    BY <1>6, <1>8, <1>9, <1>10, Grow
  <1> DEFINE C == A \o E
  <1>12. Len(C) + Len(B) >= 3
    <2>1. Len(E) \in Nat /\ Len(B) \in Nat
      <3>1. E \in Seq(Elem) /\ B \in Seq(Elem)
        BY <1>6, <1>7 DEF Contained, Part, Piece
      <3> QED
        BY <3>1, LenProperties
    <2>2. Len(C) = Len(A) + Len(E)
      BY <1>11 DEF Joined
    <2> HIDE DEF C
    <2> QED
      BY <1>6, <2>1, <2>2
  <1>13. s[i].from <= s[j + 2].to
    <2>1. s[i].to < s[j + 2].from /\ s[i].to \in Nat /\ s[j + 2].from \in Nat
      <3>1. Piece(TRUE, s, 1, Len(input), "plain", "plain")
        BY DEF RawText
      <3>2. i \in 1..Len(s) /\ j + 2 \in 1..Len(s) /\ i < j + 2
        BY <1>1, <1>3, <1>5
      <3> QED
        BY <1>1, <3>1, <3>2, Rising, ElemAt
    <2>2. Own(s[i]) /\ Own(s[j + 2])
      <3>1. i \in 1..Len(s) /\ j + 2 \in 1..Len(s)
        BY <1>1, <1>3, <1>5
      <3>2. Raw(s[i]) /\ Raw(s[j + 2])
        BY <3>1 DEF RawText
      <3> QED
        BY <1>4, <1>5, <3>2, BareRaw
    <2> QED
      BY <1>4, <1>5, <2>1, <2>2 DEF Own
  <1>14. Whole(C \o B, k, "pre", s[i].from, s[j + 2].to)
    <2>1. Part(B, k, (s[j].from - 1) + 1, s[j + 2].to, "pre", "plain")
      BY <1>6, <1>8
    <2>2. Front(C, k, "pre", s[i].from, s[j].from - 1, "pre")
      BY <1>11
    <2> HIDE DEF C
    <2> QED
      BY <1>6, <1>8, <1>12, <1>13, <2>1, <2>2, Close
  <1>15. span.last = j + 2 /\ span.value = C \o B
    BY <1>2 DEF A, E, B
  <1> HIDE DEF C
  <1>16. j + 2 \in i + 1..Len(s)
    BY <1>1, <1>3, <1>5
  <1> QED
    BY <1>4, <1>5, <1>14, <1>15, <1>16 DEF Spanned

(* Two marks in a row. *)
LEMMA MarksAtTwo ==
    ASSUME NEW s, NEW k, RawText(s, k), NEW i \in Nat \ {0}, NEW c \in MarkChars, NEW d \in MarkChars,
           s[i].char = c, s[i + 1].char = d, i + 1 <= Len(s)
    PROVE  /\ i \in 1..Len(s) /\ i + 1 \in 1..Len(s) /\ Bare(s[i].char) /\ Bare(s[i + 1].char)
           /\ Markup(s[i].from, s[i + 1].to)
  <1>1. s \in Seq(Elem) /\ Len(s) \in Nat
    BY RawSeq
  <1>2. \A q \in i..i + 1 : s[q].char \in MarkChars
    <2>1. \A q \in i..i + 1 : q = i \/ q = i + 1
      OBVIOUS
    <2> QED
      BY <2>1
  <1>3. i \in Nat /\ i > 0 /\ 1 \in 0..2
    OBVIOUS
  <1>4. Markup(s[i].from, s[i + 1].to)
    BY <1>2, <1>3, Unlettered
  <1> QED
    BY <1>1, <1>4, MarkCharsBare

LEMMA ItalicSpan ==
    ASSUME NEW s, NEW k \in Nat, RawText(s, k), NEW i \in Nat \ {0}, Len(input) \in Nat,
           NEW span \in ItalicAt(s, i)
    PROVE  Spanned(s, k, i, "italic", span)
  <1>1. s \in Seq(Elem) /\ Len(s) \in Nat
    BY RawSeq
  <1>2. PICK j \in Earliest({n \in i + 3..Len(s) :
                               At(s, i, Under) /\ At(s, n, Under) /\ "\n" \notin Within(s, i + 2, n - 1)}) :
           span = [last |-> j + 1,
                   value |-> Italic("plain", s, i) \o EscapeBase(SubSeq(s, i + 2, j - 1), "italic")
                               \o Italic("italic", s, j)]
    BY DEF ItalicAt
  <1> DEFINE A == Italic("plain", s, i)
             E == EscapeBase(SubSeq(s, i + 2, j - 1), "italic")
             B == Italic("italic", s, j)
             m == i + 1
             S == Special \cup {"\\"}
  <1>3. j \in Nat /\ j # 0 /\ i + 3 <= j /\ j <= Len(s) /\ At(s, i, Under) /\ At(s, j, Under)
    BY <1>1 DEF Earliest
  <1>4. "_" \in MarkChars /\ "italic" \in Ins /\ "plain" \in Ins /\ "italic" \in Entities
    BY Entering
  <1>5. /\ i \in 1..Len(s) /\ i + 1 \in 1..Len(s) /\ Bare(s[i].char) /\ Bare(s[i + 1].char)
        /\ Markup(s[i].from, s[i + 1].to)
    <2>1. i + 1 <= Len(s) /\ s[i].char = "_" /\ s[i + 1].char = "_"
      BY <1>1, <1>3, AtTwo DEF Under
    <2> QED
      BY <1>4, <2>1, MarksAtTwo
  <1>6. /\ j \in 1..Len(s) /\ j + 1 \in 1..Len(s) /\ Bare(s[j].char) /\ Bare(s[j + 1].char)
        /\ Markup(s[j].from, s[j + 1].to)
    <2>1. j + 1 <= Len(s) /\ s[j].char = "_" /\ s[j + 1].char = "_"
      BY <1>1, <1>3, AtTwo DEF Under
    <2>2. j \in Nat \ {0}
      BY <1>3
    <2> QED
      BY <1>4, <2>1, <2>2, MarksAtTwo
  <1>7. OneMarkOK(A, k, "_", "plain", "italic", s[i].from, s[i + 1].to)
    <2>1. <<"plain", "_", "italic">> \in Turns
      BY DEF Turns
    <2> QED
      BY <1>4, <1>5, <2>1, OneMark DEF Italic
  <1>8. OneMarkOK(B, k, "_", "italic", "plain", s[j].from, s[j + 1].to)
    <2>1. <<"italic", "_", "plain">> \in Turns
      BY DEF Turns
    <2> QED
      BY <1>4, <1>6, <2>1, OneMark DEF Italic
  <1>9. Contained(E, k, s, m, j, S, "italic")
    <2>1. Danger("italic") \subseteq S /\ S \subseteq Escapable
      BY Entering
    <2>2. m \in 1..Len(s) /\ j \in 1..Len(s) /\ m < j /\ m + 1 = i + 2
      BY <1>1, <1>3
    <2>3. Bare(s[m].char)
      BY <1>5
    <2>4. E = Escape(SubSeq(s, m + 1, j - 1), S, "italic")
      BY <2>2 DEF EscapeBase
    <2> HIDE DEF m, E, S
    <2>5. Contained(Escape(SubSeq(s, m + 1, j - 1), S, "italic"), k, s, m, j, S, "italic")
      BY <1>4, <1>6, <2>1, <2>2, <2>3, Content
    <2> QED
      BY <2>4, <2>5
  <1>10. Italics("_", "italic") /\ "italic" # "plain" /\ "_" \in S
    BY DEF Italics, Special
  <1> HIDE DEF A, E, B, S
  <1>11. Front(A, k, "italic", s[i].from, s[i + 1].to, "italic")
    BY <1>4, <1>7, <1>10, OneFront
  <1>12. Last(B, "italic")
    BY <1>4, <1>8, <1>10, OneLast
  <1>13. /\ s[i].from \in Int /\ s[i + 1].to \in Int /\ s[j].from - 1 \in Int /\ s[j + 1].to \in Int
         /\ (s[j].from - 1) + 1 = s[j].from
    <2>1. s[i].from \in Nat /\ s[i + 1].to \in Nat /\ s[j].from \in Nat /\ s[j + 1].to \in Nat
      BY <1>5, <1>6 DEF Markup
    <2>2. \A n \in Nat : n \in Int /\ n - 1 \in Int /\ (n - 1) + 1 = n
      OBVIOUS
    <2> QED
      BY <2>1, <2>2
  <1>14. \A p \in 1..Len(E) : Middle(E[p], "italic")
    <2>1. ASSUME NEW p \in 1..Len(E) PROVE Middle(E[p], "italic")
      <3>1. E[p].in = "italic" /\ (E[p].escaped <=> E[p].char \in S)
        BY <1>9 DEF Contained
      <3>2. ~Plainly(E[p], "_")
        BY <1>10, <3>1 DEF Plainly
      <3> QED
        BY <3>1, <3>2 DEF Middle
    <2> QED
      BY <2>1
  <1>15. Front(A \o E, k, "italic", s[i].from, s[j].from - 1, "italic") /\ Joined(A \o E, A, E)
    <2>1. Part(E, k, s[i + 1].to + 1, s[j].from - 1, "italic", "italic")
      BY <1>9 DEF Contained
    <2> QED
      BY <1>11, <1>13, <1>14, <2>1, Grow
  <1> DEFINE C == A \o E
  <1>16. Len(C) + Len(B) >= 3
    <2>1. Len(A) = 1 /\ Len(B) = 1 /\ Len(E) = j - m - 1
      BY <1>7, <1>8, <1>9 DEF OneMarkOK, Contained
    <2>2. Len(C) = Len(A) + Len(E)
      BY <1>15 DEF Joined
    <2> HIDE DEF C
    <2> QED
      BY <1>3, <2>1, <2>2
  <1>17. s[i].from <= s[j + 1].to
    <2>1. s[i].to < s[j + 1].from /\ s[i].to \in Nat /\ s[j + 1].from \in Nat
      <3>1. Piece(TRUE, s, 1, Len(input), "plain", "plain")
        BY DEF RawText
      <3>2. i < j + 1
        BY <1>1, <1>3
      <3> QED
        BY <1>1, <1>5, <1>6, <3>1, <3>2, Rising, ElemAt
    <2>2. Own(s[i]) /\ Own(s[j + 1])
      <3>1. Raw(s[i]) /\ Raw(s[j + 1])
        BY <1>5, <1>6 DEF RawText
      <3> QED
        BY <1>5, <1>6, <3>1, BareRaw
    <2> QED
      BY <1>13, <2>1, <2>2 DEF Own
  <1>18. Whole(C \o B, k, "italic", s[i].from, s[j + 1].to)
    <2>1. Part(B, k, (s[j].from - 1) + 1, s[j + 1].to, "italic", "plain")
      BY <1>8, <1>13 DEF OneMarkOK
    <2>2. Front(C, k, "italic", s[i].from, s[j].from - 1, "italic")
      BY <1>15
    <2> HIDE DEF C
    <2> QED
      BY <1>12, <1>13, <1>16, <1>17, <2>1, <2>2, Close
  <1>19. span.last = j + 1 /\ span.value = C \o B
    BY <1>2 DEF A, E, B
  <1> HIDE DEF C
  <1>20. j + 1 \in i + 1..Len(s)
    BY <1>1, <1>3, <1>6
  <1> QED
    BY <1>5, <1>6, <1>18, <1>19, <1>20 DEF Spanned

(* The marks between a link's text and its address. *)
LEMMA LinkMarks ==
    ASSUME NEW k \in Nat, NEW from, NEW to, Markup(from, to)
    PROVE  /\ Part(Marks(<<"]", "(">>, <<"link", "link 2">>, from, to), k, from, to, "link", "url")
           /\ Written(Marks(<<"]", "(">>, <<"link", "link 2">>, from, to), 2, <<"]", "(">>, <<"link", "link 2">>, from, to)
  <1> DEFINE c == <<"]", "(">>
             n == <<"link", "link 2">>
  <1>1. DOMAIN c = 1..2 /\ c[1] = "]" /\ c[2] = "(" /\ n[1] = "link" /\ n[2] = "link 2"
    OBVIOUS
  <1> HIDE DEF c, n
  <1>2. Leading(2, c, n, "url")
    <2>1. \A p \in 1..2 : p = 1 \/ p = 2
      OBVIOUS
    <2>2. \A p \in 1..2 - 1 : p = 1 /\ p + 1 = 2
      OBVIOUS
    <2>3. \A p \in 1..2 : c[p] \in MarkChars /\ n[p] \in Ins
      BY <1>1, <2>1, Entering
    <2>4. Turn("]", "link", "link 2") /\ Turn("(", "link 2", "url")
      BY DEF Turn, Turns
    <2>5. \A p \in 1..2 - 1 : Turn(c[p], n[p], n[p + 1])
      BY <1>1, <2>2, <2>4
    <2> QED
      BY <1>1, <2>3, <2>4, <2>5 DEF Leading
  <1>3. 2 \in Nat \ {0}
    OBVIOUS
  <1>4. Part(Marks(c, n, from, to), k, from, to, n[1], "url") /\ Written(Marks(c, n, from, to), 2, c, n, from, to)
    BY <1>2, <1>3, MarksPart
  <1> QED
    BY <1>1, <1>4 DEF c, n

LEMMA LinkSpan ==
    ASSUME NEW s, NEW k \in Nat, RawText(s, k), NEW i \in Nat \ {0}, Len(input) \in Nat,
           NEW span \in LinkAt(s, i)
    PROVE  Spanned(s, k, i, "link", span)
  <1>1. s \in Seq(Elem) /\ Len(s) \in Nat
    BY RawSeq
  <1>2. PICK b \in {c \in ClosingBracket(s, i + 1) : At(s, i, <<"[">>) /\ At(s, c + 1, <<"(">>)} :
           span \in LinkFrom(s, i, b)
    BY DEF LinkAt
  <1>3. PICK j \in ClosingParen(s, b + 2) :
           span = [last |-> j,
                   value |-> Mark("[", "plain", s, i) \o EscapeBase(SubSeq(s, i + 1, b - 1), "link")
                               \o Marks(<<"]", "(">>, <<"link", "link 2">>, s[b].from, s[b + 1].to)
                               \o EscapeURL(SubSeq(s, b + 2, j - 1), "url") \o Mark(")", "url", s, j)]
    BY <1>2 DEF LinkFrom
  <1> DEFINE A == Mark("[", "plain", s, i)
             E == EscapeBase(SubSeq(s, i + 1, b - 1), "link")
             M == Marks(<<"]", "(">>, <<"link", "link 2">>, s[b].from, s[b + 1].to)
             U == EscapeURL(SubSeq(s, b + 2, j - 1), "url")
             B == Mark(")", "url", s, j)
             m == b + 1
             S == Special \cup {"\\"}
             T == {"\\", ")"}
  <1>4. b \in i + 1..Len(s) /\ s[b].char = "]"
    BY <1>1 DEF ClosingBracket, Earliest, Seen
  <1>5. j \in b + 2..Len(s) /\ s[j].char = ")"
    BY <1>1 DEF ClosingParen, Earliest, Seen
  <1>6. s[i].char = "[" /\ s[b + 1].char = "("
    <2>1. At(s, i, <<"[">>) /\ At(s, b + 1, <<"(">>) /\ b + 1 \in Nat
      BY <1>1, <1>4
    <2> QED
      BY <1>1, <2>1, AtOne
  <1>7. /\ b \in Nat /\ b # 0 /\ j \in Nat /\ i < b /\ b < j /\ m < j
        /\ i \in 1..Len(s) /\ b \in 1..Len(s) /\ m \in 1..Len(s) /\ j \in 1..Len(s)
        /\ b + 1 <= Len(s)
    BY <1>1, <1>4, <1>5
  <1>8. /\ {"[", "]", "(", ")"} \subseteq MarkChars /\ {"link", "url", "plain", "link 2"} \subseteq Ins
        /\ {"link", "url"} \subseteq Entities
    BY Entering
  <1>9. /\ Markup(s[i].from, s[i].to) /\ Bare(s[i].char)
        /\ Markup(s[j].from, s[j].to) /\ Bare(s[j].char)
    BY <1>5, <1>6, <1>7, <1>8, MarkAt
  <1>10. Markup(s[b].from, s[b + 1].to) /\ Bare(s[b].char) /\ Bare(s[b + 1].char)
    <2>1. b \in Nat \ {0} /\ "]" \in MarkChars /\ "(" \in MarkChars
      BY <1>7, <1>8
    <2> QED
      BY <1>4, <1>6, <1>7, <2>1, MarksAtTwo
  <1>11. OneMarkOK(A, k, "[", "plain", "link", s[i].from, s[i].to)
    <2>1. <<"plain", "[", "link">> \in Turns
      BY DEF Turns
    <2> QED
      BY <1>8, <1>9, <2>1, OneMark DEF Mark
  <1>12. OneMarkOK(B, k, ")", "url", "plain", s[j].from, s[j].to)
    <2>1. <<"url", ")", "plain">> \in Turns
      BY DEF Turns
    <2> QED
      BY <1>8, <1>9, <2>1, OneMark DEF Mark
  <1>13. /\ Part(M, k, s[b].from, s[b + 1].to, "link", "url")
         /\ Written(M, 2, <<"]", "(">>, <<"link", "link 2">>, s[b].from, s[b + 1].to)
    BY <1>10, LinkMarks
  <1>14. Contained(E, k, s, i, b, S, "link")
    <2>1. Danger("link") \subseteq S /\ S \subseteq Escapable /\ "link" \in Entities
      BY Entering
    <2>2. E = Escape(SubSeq(s, i + 1, b - 1), S, "link")
      BY DEF EscapeBase
    <2> HIDE DEF E, S
    <2>3. Contained(Escape(SubSeq(s, i + 1, b - 1), S, "link"), k, s, i, b, S, "link")
      BY <1>7, <1>9, <1>10, <2>1, Content
    <2> QED
      BY <2>2, <2>3
  <1>15. Contained(U, k, s, m, j, T, "url")
    <2>1. Danger("url") \subseteq T /\ T \subseteq Escapable /\ "url" \in Entities
      BY Entering
    <2>2. U = Escape(SubSeq(s, m + 1, j - 1), T, "url")
      <3>1. m + 1 = b + 2
        BY <1>7
      <3> HIDE DEF m
      <3> QED
        BY <3>1 DEF EscapeURL
    <2>3. Bare(s[m].char)
      BY <1>10
    <2> HIDE DEF m, U, T
    <2>4. Contained(Escape(SubSeq(s, m + 1, j - 1), T, "url"), k, s, m, j, T, "url")
      BY <1>7, <1>9, <2>1, <2>3, Content
    <2> QED
      BY <2>2, <2>4
  <1>16. Italics("[", "link") /\ Italics(")", "link")
    BY DEF Italics
  <1>17. span.last = j /\ span.value = (((A \o E) \o M) \o U) \o B
    BY <1>3
  <1>18. /\ s[i].from \in Int /\ s[i].to \in Int /\ s[b].from - 1 \in Int /\ s[m].to \in Int
         /\ s[j].from - 1 \in Int /\ s[j].to \in Int
         /\ (s[b].from - 1) + 1 = s[b].from /\ (s[j].from - 1) + 1 = s[j].from
    <2>1. /\ s[i].from \in Nat /\ s[i].to \in Nat /\ s[b].from \in Nat /\ s[m].to \in Nat
          /\ s[j].from \in Nat /\ s[j].to \in Nat
      BY <1>9, <1>10 DEF Markup
    <2> HIDE DEF m
    <2>2. \A x \in Nat : x \in Int /\ x - 1 \in Int /\ (x - 1) + 1 = x
      OBVIOUS
    <2> QED
      BY <2>1, <2>2
  <1>19. Part(M, k, s[b].from, s[m].to, "link", "url")
    BY <1>13
  <1>20. \A p \in 1..Len(M) : Middle(M[p], "link")
    <2> DEFINE c == <<"]", "(">>
               n == <<"link", "link 2">>
    <2>1. c[1] = "]" /\ c[2] = "(" /\ n[1] = "link" /\ n[2] = "link 2"
      OBVIOUS
    <2>2. Len(M) = 2 /\ M[1].in = n[1] /\ M[2].in = n[2]
      <3>1. 1 \in 1..2 /\ 2 \in 1..2
        OBVIOUS
      <3> HIDE DEF c, n, M
      <3>2. Written(M, 2, c, n, s[b].from, s[b + 1].to)
        BY <1>13 DEF c, n, M
      <3> QED
        BY <3>1, <3>2 DEF Written
    <2> HIDE DEF c, n, M
    <2>3. Middle(M[1], "link") /\ Middle(M[2], "link")
      BY <2>1, <2>2 DEF Middle
    <2>4. \A p \in 1..2 : p = 1 \/ p = 2
      OBVIOUS
    <2>5. Len(M) = 2
      BY <2>2
    <2> QED
      BY <2>3, <2>4, <2>5
  <1>21. Len(M) = 2
    BY <1>13 DEF Written
  <1> HIDE DEF A, E, M, U, B, S, T
  <1>22. \A p \in 1..Len(E) : Middle(E[p], "link")
    BY <1>14 DEF Contained, Middle
  <1>23. \A p \in 1..Len(U) : Middle(U[p], "link")
    BY <1>15 DEF Contained, Middle
  <1> HIDE DEF m
  <1>24. Front(A, k, "link", s[i].from, s[i].to, "link")
    BY <1>8, <1>11, <1>16, OneFront
  <1>25. Last(B, "link")
    BY <1>8, <1>12, <1>16, OneLast
  <1> DEFINE AE == A \o E
             AM == AE \o M
             AU == AM \o U
  <1>26. Front(AE, k, "link", s[i].from, s[b].from - 1, "link") /\ Joined(AE, A, E)
    <2>1. Part(E, k, s[i].to + 1, s[b].from - 1, "link", "link")
      BY <1>14 DEF Contained
    <2> QED
      BY <1>18, <1>22, <1>24, <2>1, Grow
  <1> HIDE DEF AE
  <1>27. Front(AM, k, "link", s[i].from, s[m].to, "url") /\ Joined(AM, AE, M)
    <2>1. Part(M, k, (s[b].from - 1) + 1, s[m].to, "link", "url")
      BY <1>18, <1>19
    <2>2. Front(AE, k, "link", s[i].from, s[b].from - 1, "link")
      BY <1>26
    <2> QED
      BY <1>18, <1>20, <2>1, <2>2, Grow
  <1> HIDE DEF AM
  <1>28. Front(AU, k, "link", s[i].from, s[j].from - 1, "url") /\ Joined(AU, AM, U)
    <2>1. Part(U, k, s[m].to + 1, s[j].from - 1, "url", "url")
      BY <1>15 DEF Contained
    <2>2. Front(AM, k, "link", s[i].from, s[m].to, "url")
      BY <1>27
    <2> QED
      BY <1>18, <1>23, <2>1, <2>2, Grow
  <1> HIDE DEF AU
  <1>29. Len(AU) + Len(B) >= 3
    <2>1. Len(AE) \in Nat /\ Len(U) \in Nat
      <3>1. AE \in Seq(Elem) /\ U \in Seq(Elem)
        BY <1>15, <1>26 DEF Joined, Contained
      <3> QED
        BY <3>1, LenProperties
    <2>2. Len(AM) = Len(AE) + 2 /\ Len(AU) = Len(AM) + Len(U) /\ Len(B) = 1
      BY <1>12, <1>21, <1>27, <1>28 DEF Joined, OneMarkOK
    <2> QED
      BY <2>1, <2>2
  <1>30. s[i].from <= s[j].to
    <2>1. s[i].to < s[j].from /\ s[i].to \in Nat /\ s[j].from \in Nat
      <3>1. Piece(TRUE, s, 1, Len(input), "plain", "plain")
        BY DEF RawText
      <3>2. i < j
        BY <1>7
      <3> QED
        BY <1>1, <1>7, <3>1, <3>2, Rising, ElemAt
    <2>2. s[i].from <= s[i].to /\ s[j].from <= s[j].to
      BY <1>9 DEF Markup
    <2>3. \A x, y, z, w \in Int : x <= y /\ y < z /\ z <= w => x <= w
      OBVIOUS
    <2>4. s[j].from \in Int
      BY <2>1
    <2> QED
      BY <1>18, <2>1, <2>2, <2>3, <2>4
  <1>31. Whole(AU \o B, k, "link", s[i].from, s[j].to)
    <2>1. Part(B, k, (s[j].from - 1) + 1, s[j].to, "url", "plain")
      BY <1>12, <1>18 DEF OneMarkOK
    <2>2. Front(AU, k, "link", s[i].from, s[j].from - 1, "url")
      BY <1>28
    <2> QED
      BY <1>18, <1>25, <1>29, <1>30, <2>1, <2>2, Close
  <1>32. span.value = AU \o B
    BY <1>17 DEF AU, AM, AE
  <1>33. j \in i + 1..Len(s)
    BY <1>1, <1>7
  <1> QED
    BY <1>9, <1>17, <1>31, <1>32, <1>33 DEF Spanned

LEMMA SpanOK ==
    ASSUME NEW s, NEW k \in Nat, RawText(s, k), NEW i \in Nat \ {0}, Len(input) \in Nat,
           NEW n \in 1..4, NEW span \in SpanAt(Stages[n], s, i)
    PROVE  Spanned(s, k, i, Stages[n], span)
  <1>1. /\ Stages[1] = "pre" /\ Stages[2] = "code" /\ Stages[3] = "link" /\ Stages[4] = "italic"
        /\ (n = 1 \/ n = 2 \/ n = 3 \/ n = 4)
    BY DEF Stages
  <1>2. /\ SpanAt("pre", s, i) = PreAt(s, i) /\ SpanAt("code", s, i) = CodeAt(s, i)
        /\ SpanAt("link", s, i) = LinkAt(s, i) /\ SpanAt("italic", s, i) = ItalicAt(s, i)
    BY DEF SpanAt
  <1> QED
    BY <1>1, <1>2, PreSpan, CodeSpan, LinkSpan, ItalicSpan

-------------------------------------------------------------------------------
(* Splicing.                                                                *)

(* Where each character of c comes from, *)
FromLeft(c, s, i, p) == p \in 1..i - 1 /\ c[p] = s[p]
FromValue(c, v, i, p) == \E q \in 1..Len(v) : p = i - 1 + q /\ c[p] = v[q]
FromRight(c, s, v, i, j, p) ==
    \E q \in j + 1..Len(s) : p = q - j + (i - 1 + Len(v)) /\ c[p] = s[q]

LEMMA SpliceOne ==
    ASSUME NEW s \in Seq(Elem), NEW v \in Seq(Elem), NEW c,
           NEW i \in 1..Len(s), NEW j \in 1..Len(s), i <= j, Spliced(c, s, v, i, j),
           NEW p \in 1..Len(c)
    PROVE  FromLeft(c, s, i, p) \/ FromValue(c, v, i, p) \/ FromRight(c, s, v, i, j, p)
  <1>1. Len(s) \in Nat /\ Len(v) \in Nat
    BY LenProperties
  <1>2. Len(c) = Len(s) + Len(v) - (j - i + 1)
    BY DEF Spliced
  <1>3. CASE p < i
    BY <1>1, <1>2, <1>3 DEF Spliced, FromLeft
  <1>4. CASE i <= p /\ p < i + Len(v)
    <2> DEFINE q == p - (i - 1)
    <2>1. q \in 1..Len(v) /\ p = i - 1 + q
      BY <1>1, <1>2, <1>4
    <2> HIDE DEF q
    <2> QED
      BY <2>1 DEF Spliced, FromValue
  <1>5. CASE i + Len(v) <= p
    <2> DEFINE q == p - (i - 1 + Len(v))
               r == j + q
    <2>1. /\ q \in 1..Len(s) - j /\ p = i - 1 + Len(v) + q
          /\ r \in j + 1..Len(s) /\ p = r - j + (i - 1 + Len(v))
      BY <1>1, <1>2, <1>5
    <2>2. c[p] = s[r]
      <3> HIDE DEF q
      <3> QED
        BY <2>1 DEF Spliced
    <2> HIDE DEF q, r
    <2> QED
      BY <2>1, <2>2 DEF FromRight
  <1> QED
    BY <1>1, <1>2, <1>3, <1>4, <1>5

(* and each pair of neighbours.                                             *)
PairLeft(c, s, i, p) == p \in 1..i - 2 /\ c[p] = s[p] /\ c[p + 1] = s[p + 1]
PairEnter(c, s, v, i, p) == p = i - 1 /\ p \in 1..Len(s) - 1 /\ c[p] = s[p] /\ c[p + 1] = v[1]
PairValue(c, v, i, p) ==
    \E q \in 1..Len(v) - 1 : p = i - 1 + q /\ c[p] = v[q] /\ c[p + 1] = v[q + 1]
PairLeave(c, s, v, i, j, p) ==
    p = i - 1 + Len(v) /\ j \in 1..Len(s) - 1 /\ c[p] = v[Len(v)] /\ c[p + 1] = s[j + 1]
PairRight(c, s, v, i, j, p) ==
    \E q \in j + 1..Len(s) - 1 : p = q - j + (i - 1 + Len(v)) /\ c[p] = s[q] /\ c[p + 1] = s[q + 1]

LEMMA SplicePair ==
    ASSUME NEW s \in Seq(Elem), NEW v \in Seq(Elem), NEW c, v # <<>>,
           NEW i \in 1..Len(s), NEW j \in 1..Len(s), i <= j, Spliced(c, s, v, i, j),
           NEW p \in 1..Len(c) - 1
    PROVE  \/ PairLeft(c, s, i, p) \/ PairEnter(c, s, v, i, p) \/ PairValue(c, v, i, p)
           \/ PairLeave(c, s, v, i, j, p) \/ PairRight(c, s, v, i, j, p)
  <1>1. Len(s) \in Nat /\ Len(v) \in Nat /\ Len(v) > 0
    BY LenProperties, EmptySeq
  <1>2. Len(c) = Len(s) + Len(v) - (j - i + 1)
    BY DEF Spliced
  <1>3. CASE p + 1 < i
    <2>1. p \in 1..i - 2 /\ p \in 1..i - 1 /\ p + 1 \in 1..i - 1
      BY <1>1, <1>2, <1>3
    <2> QED
      BY <2>1 DEF Spliced, PairLeft
  <1>4. CASE p + 1 = i
    <2>1. /\ p = i - 1 /\ p \in 1..Len(s) - 1 /\ p \in 1..i - 1
          /\ 1 \in 1..Len(v) /\ p + 1 = i - 1 + 1
      BY <1>1, <1>2, <1>4
    <2>2. c[i - 1 + 1] = v[1]
      BY <2>1 DEF Spliced
    <2> QED
      BY <2>1, <2>2 DEF Spliced, PairEnter
  <1>5. CASE i <= p /\ p + 1 < i + Len(v)
    <2> DEFINE q == p - (i - 1)
    <2>1. /\ q \in 1..Len(v) - 1 /\ q \in 1..Len(v) /\ q + 1 \in 1..Len(v)
          /\ p = i - 1 + q /\ p + 1 = i - 1 + (q + 1)
      BY <1>1, <1>2, <1>5
    <2> HIDE DEF q
    <2>2. c[p] = v[q] /\ c[p + 1] = v[q + 1]
      BY <2>1 DEF Spliced
    <2> QED
      BY <2>1, <2>2 DEF PairValue
  <1>6. CASE p + 1 = i + Len(v)
    <2>1. /\ p = i - 1 + Len(v) /\ j \in 1..Len(s) - 1 /\ Len(v) \in 1..Len(v)
          /\ 1 \in 1..Len(s) - j /\ p + 1 = i - 1 + Len(v) + 1
      BY <1>1, <1>2, <1>6
    <2>2. c[i - 1 + Len(v)] = v[Len(v)] /\ c[i - 1 + Len(v) + 1] = s[j + 1]
      BY <2>1 DEF Spliced
    <2> QED
      BY <2>1, <2>2 DEF PairLeave
  <1>7. CASE i + Len(v) <= p
    <2> DEFINE q == p - (i - 1 + Len(v))
               r == j + q
    <2>1. /\ q \in 1..Len(s) - j /\ p = i - 1 + Len(v) + q
          /\ q + 1 \in 1..Len(s) - j /\ p + 1 = i - 1 + Len(v) + (q + 1)
          /\ r \in j + 1..Len(s) - 1 /\ p = r - j + (i - 1 + Len(v)) /\ r + 1 = j + (q + 1)
      BY <1>1, <1>2, <1>7
    <2>2. c[p] = s[r] /\ c[p + 1] = s[r + 1]
      <3>1. c[i - 1 + Len(v) + q] = s[j + q] /\ c[i - 1 + Len(v) + (q + 1)] = s[j + (q + 1)]
        <4> HIDE DEF q
        <4> QED
          BY <2>1 DEF Spliced
      <3> HIDE DEF q
      <3> QED
        BY <2>1, <3>1
    <2> HIDE DEF q, r
    <2> QED
      BY <2>1, <2>2 DEF PairRight
  <1> QED
    BY <1>1, <1>2, <1>3, <1>4, <1>5, <1>6, <1>7

(* A placeholder is whole. *)
LEMMA PieceAt ==
    ASSUME NEW raw \in BOOLEAN, NEW s, NEW lo \in Int, NEW hi \in Int, NEW x, NEW y,
           Piece(raw, s, lo, hi, x, y)
    PROVE  /\ s \in Seq(Elem) /\ Len(s) \in Nat
           /\ \A p \in 1..Len(s) : /\ s[p] \in Elem /\ s[p].from <= s[p].to + 1
                                   /\ s[p].from \in Nat /\ s[p].to \in Nat
           /\ \A p \in 1..Len(s) - 1 : Link(raw, s[p], s[p + 1])
           /\ Len(s) > 0 => Begins(raw, s[1], lo, x) /\ Finishes(raw, s[Len(s)], hi, y)
  <1>1. s \in Seq(Elem) /\ Len(s) \in Nat
    BY LenProperties DEF Piece
  <1>2. \A p \in 1..Len(s) : s[p] \in Elem /\ s[p].from \in Nat /\ s[p].to \in Nat /\ s # <<>>
    BY <1>1, ElemAt
  <1>3. Len(s) > 0 => s # <<>>
    BY <1>1
  <1>4. \A p \in 1..Len(s) : s[p].from <= s[p].to + 1
    BY DEF Piece
  <1>5. s # <<>> => /\ \A p \in 1..Len(s) - 1 : Link(raw, s[p], s[p + 1])
                    /\ Begins(raw, s[1], lo, x) /\ Finishes(raw, s[Len(s)], hi, y)
    BY DEF Piece
  <1>6. \A p \in 1..Len(s) - 1 : Link(raw, s[p], s[p + 1])
    <2> TAKE p \in 1..Len(s) - 1
    <2>1. p \in 1..Len(s)
      BY <1>1
    <2> QED
      BY <1>2, <1>5, <2>1
  <1> QED
    BY <1>1, <1>2, <1>3, <1>4, <1>5, <1>6

(* How the parts of a placeholder are told apart. *)
LEMMA IdKinds ==
    ASSUME NEW e \in Elem
    PROVE  /\ IdAfter(e) \in {0, 1, 2} /\ IdBefore(e) \in {0, 1, 2}
           /\ IdAfter(e) = 1 <=> Opening(e)
           /\ IdAfter(e) = 2 <=> Number(e)
           /\ IdBefore(e) = 1 <=> Number(e)
           /\ IdBefore(e) = 2 <=> Closing(e)
           /\ e.char = SOH <=> Opening(e) \/ Closing(e)
           /\ ~(Opening(e) /\ Number(e)) /\ ~(Opening(e) /\ Closing(e)) /\ ~(Number(e) /\ Closing(e))
  <1>1. e.from \in Nat /\ e.to \in Nat
    BY DEF Elem
  <1>2. e.from <= e.to \/ e.to < e.from
    BY <1>1
  <1>3. ~(e.from <= e.to /\ e.to < e.from)
    BY <1>1
  <1>4. ~(Opening(e) /\ Number(e)) /\ ~(Opening(e) /\ Closing(e)) /\ ~(Number(e) /\ Closing(e))
    BY <1>3, DigitsBare DEF Opening, Number, Closing
  <1>5. e.char = SOH <=> Opening(e) \/ Closing(e)
    BY <1>2 DEF Opening, Closing
  <1> QED
    BY <1>4, <1>5 DEF IdAfter, IdBefore

WholeId(s, p) ==
    /\ p + 2 \in 1..Len(s) /\ p + 1 \in 1..Len(s) /\ p \in 1..Len(s)
    /\ Opening(s[p]) /\ Number(s[p + 1]) /\ Closing(s[p + 2])
    /\ s[p + 2].to = s[p].to

LEMMA OpeningWhole ==
    ASSUME NEW raw \in BOOLEAN, NEW s, NEW lo \in Int, NEW hi \in Int, NEW x, NEW y,
           Piece(raw, s, lo, hi, x, y), NEW p \in 1..Len(s), Opening(s[p])
    PROVE  WholeId(s, p)
  <1>1. /\ s \in Seq(Elem) /\ Len(s) \in Nat
        /\ \A q \in 1..Len(s) : /\ s[q] \in Elem /\ s[q].from <= s[q].to + 1
                                /\ s[q].from \in Nat /\ s[q].to \in Nat
        /\ \A q \in 1..Len(s) - 1 : Link(raw, s[q], s[q + 1])
        /\ Len(s) > 0 => Finishes(raw, s[Len(s)], hi, y)
    BY PieceAt
  <1>2. IdAfter(s[p]) = 1 /\ IdAfter(s[Len(s)]) = 0
    BY <1>1, IdKinds DEF Finishes
  <1>3. p \in 1..Len(s) - 1 /\ p + 1 \in 1..Len(s)
    BY <1>1, <1>2
  <1>4. Link(raw, s[p], s[p + 1])
    BY <1>1, <1>3
  <1>5. Number(s[p + 1]) /\ s[p + 1].from = s[p].to + 1
    BY <1>1, <1>2, <1>3, <1>4, IdKinds DEF Link
  <1>6. IdAfter(s[p + 1]) = 2
    BY <1>1, <1>3, <1>5, IdKinds
  <1>7. p + 1 \in 1..Len(s) - 1 /\ p + 2 \in 1..Len(s) /\ (p + 1) + 1 = p + 2
    BY <1>1, <1>2, <1>3, <1>6
  <1>8. Link(raw, s[p + 1], s[p + 2])
    BY <1>1, <1>7
  <1>9. Closing(s[p + 2]) /\ s[p + 2].from = s[p + 1].to + 1
    BY <1>1, <1>6, <1>7, <1>8, IdKinds DEF Link
  <1>10. s[p + 2].to = s[p].to
    <2>1. /\ s[p].to \in Nat /\ s[p + 1].from \in Nat /\ s[p + 1].to \in Nat
          /\ s[p + 2].from \in Nat /\ s[p + 2].to \in Nat
          /\ s[p + 1].from <= s[p + 1].to + 1 /\ s[p + 2].from <= s[p + 2].to + 1
      BY <1>1, <1>3, <1>7
    <2>2. s[p + 1].to < s[p + 1].from /\ s[p + 2].to < s[p + 2].from
      BY <1>5, <1>9 DEF Number, Closing
    <2>3. \A a, b, c, d, e \in Nat :
             b <= c + 1 /\ d <= e + 1 /\ c < b /\ e < d /\ b = a + 1 /\ d = c + 1 => e = a
      OBVIOUS
    <2> QED
      BY <1>5, <1>9, <2>1, <2>2, <2>3
  <1> QED
    BY <1>3, <1>5, <1>7, <1>9, <1>10 DEF WholeId

LEMMA InputNat ==
    ASSUME MdTypes
    PROVE  Len(input) \in Nat /\ Len(spans) \in Nat /\ Len(text) \in Nat
  BY LenProperties DEF MdTypes

(* No part of a placeholder is a character of the text. *)
LEMMA OwnPlain ==
    ASSUME MdTypes, NEW e, Own(e)
    PROVE  ~IdPart(e) /\ e.from \in 1..Len(input) /\ e.to = e.from
  <1>1. /\ \A i \in 1..Len(input) : input[i] \in STRING \ {SOH}
        /\ Len(input) \in Nat
    BY InputNat, ElementOfSeq DEF MdTypes
  <1>2. e.from \in 1..Len(input) /\ e.to = e.from /\ e.char = input[e.from]
    BY DEF Own
  <1>3. e.char # SOH /\ ~(e.to < e.from)
    BY <1>1, <1>2
  <1> QED
    BY <1>2, <1>3 DEF IdPart, Number

LEMMA RawTextHolds ==
    ASSUME MdTypes, RawInv, stage <= 5
    PROVE  RawText(text, Len(spans) + 1)
  <1>1. Older(text, Len(spans) + 1)
    <2> SUFFICES ASSUME NEW p \in 1..Len(text) - 1, Opening(text[p])
                 PROVE  \E m \in 1..Len(spans) + 1 - 1 : text[p + 1].char = Numerals[m]
      BY DEF Older
    <2>1. PICK k \in 1..Len(spans) : Of(text, p, k)
      BY DEF RawInv
    <2>2. k \in 1..Len(spans) + 1 - 1
      BY InputNat
    <2> QED
      BY <2>1, <2>2 DEF Of, Names
  <1> QED
    BY <1>1 DEF RawText, RawInv

(* The placeholder is a chain for the span it stands for. *)
Held(h, k, from, to) ==
    /\ h \in Seq(Elem) /\ Len(h) = 3 /\ h # <<>>
    /\ Opening(h[1]) /\ h[1].from = from /\ h[1].to = to
    /\ h[2].char = Numerals[k] /\ ~Opening(h[2]) /\ ~Opening(h[3])
    /\ \A p \in 1..3 : Raw(h[p]) /\ IdPart(h[p])
    /\ Piece(TRUE, h, from, to, "plain", "plain")

LEMMA PlaceholderHeld ==
    ASSUME NEW k \in 1..Len(Numerals), NEW from \in Nat, NEW to \in Nat, from <= to
    PROVE  Held(Placeholder(k, from, to), k, from, to)
  <1> DEFINE h == Placeholder(k, from, to)
  <1>1. /\ h \in Seq(Elem) /\ Len(h) = 3
        /\ Opening(h[1]) /\ h[1].from = from /\ h[1].to = to
        /\ Number(h[2]) /\ h[2].char = Numerals[k] /\ Closing(h[3])
        /\ \A p \in 1..3 : IdPart(h[p]) /\ ~h[p].escaped /\ h[p].in = "plain"
        /\ Piece(TRUE, h, from, to, "plain", "plain")
    BY PlaceholderAt
  <1> HIDE DEF h
  <1>2. h[2] \in Elem /\ h[3] \in Elem /\ h # <<>>
    <2>1. h \in Seq(Elem) /\ 2 \in 1..Len(h) /\ 3 \in 1..Len(h)
      BY <1>1
    <2> QED
      BY <2>1, ElemAt
  <1>3. ~Opening(h[2]) /\ ~Opening(h[3])
    BY <1>1, <1>2, IdKinds
  <1>4. \A p \in 1..3 : Raw(h[p]) /\ IdPart(h[p])
    BY <1>1 DEF Raw
  <1>5. Held(h, k, from, to)
    BY <1>1, <1>2, <1>3, <1>4 DEF Held
  <1> QED
    BY <1>5 DEF h

-------------------------------------------------------------------------------
(* Every step keeps the invariant.                                          *)

LEMMA SameInput ==
    ASSUME UNCHANGED input, NEW e
    PROVE  /\ Own(e)' <=> Own(e)
           /\ Blank(e)' <=> Blank(e)
           /\ Sound(e)' <=> Sound(e)
           /\ Raw(e)' <=> Raw(e)
  <1>1. Own(e)' <=> Own(e)
    BY DEF Own
  <1>2. Blank(e)' <=> Blank(e)
    BY DEF Blank
  <1> QED
    BY <1>1, <1>2 DEF Sound, Raw

LEMMA ValueSame ==
    ASSUME UNCHANGED input, NEW k, NEW v, NEW kind
    PROVE  Value(k, v, kind)' <=> Value(k, v, kind)
  BY SameInput DEF Value

(* A span that begins at a place of its own has a number of its own.        *)
LEMMA RoomForSpan ==
    ASSUME MdTypes, StartsApart, NEW i \in 1..Len(text), Own(text[i])
    PROVE  Len(spans) + 1 \in 1..Len(Numerals)
  <1> DEFINE n == Len(spans) + 1
             start(k) == IF k = n THEN text[i].from ELSE spans[k].value[1].from
             f == [k \in 1..n |-> start(k)]
             T == 1..Len(input)
  <1>1. /\ Len(spans) \in Nat /\ Len(input) \in Nat /\ Len(Numerals) \in Nat
        /\ Len(input) <= Len(Numerals) /\ n \in Nat
    BY InputNat, NumeralAt DEF MdTypes
  <1>2. \A k \in 1..n : k = n \/ (k \in 1..Len(spans) /\ k # n)
    BY <1>1
  <1>3. \A k \in 1..n : start(k) \in T
    BY <1>2 DEF StartsApart, Own
  <1>4. ASSUME NEW k \in 1..n, NEW l \in 1..n, start(k) = start(l) PROVE k = l
    <2>1. CASE k = n /\ l = n
      BY <2>1
    <2>2. CASE k = n /\ l # n
      <3>1. l \in 1..Len(spans) /\ text[i].from = spans[l].value[1].from
        BY <1>2, <1>4, <2>2
      <3> QED
        BY <3>1 DEF StartsApart
    <2>3. CASE k # n /\ l = n
      <3>1. k \in 1..Len(spans) /\ text[i].from = spans[k].value[1].from
        BY <1>2, <1>4, <2>3
      <3> QED
        BY <3>1 DEF StartsApart
    <2>4. CASE k # n /\ l # n
      <3>1. k \in 1..Len(spans) /\ l \in 1..Len(spans) /\ spans[k].value[1].from = spans[l].value[1].from
        BY <1>2, <1>4, <2>4
      <3> QED
        BY <3>1 DEF StartsApart
    <2> QED
      BY <2>1, <2>2, <2>3, <2>4
  <1> HIDE DEF start
  <1>5. f \in Injection(1..n, T)
    BY <1>3, <1>4 DEF Injection, IsInjective
  <1>6. /\ IsFiniteSet(1..n) /\ Cardinality(1..n) = n
        /\ IsFiniteSet(T) /\ Cardinality(T) = Len(input)
    <2>1. 1 \in Int /\ n \in Int /\ Len(input) \in Int
      BY <1>1
    <2>2. /\ IsFiniteSet(1..n) /\ IsFiniteSet(1..Len(input))
          /\ Cardinality(1..n) = (IF 1 > n THEN 0 ELSE n - 1 + 1)
          /\ Cardinality(1..Len(input)) = (IF 1 > Len(input) THEN 0 ELSE Len(input) - 1 + 1)
      <3> HIDE DEF n
      <3> QED
        BY <2>1, FS_Interval
    <2> QED
      BY <1>1, <2>2
  <1>7. Cardinality(1..n) <= Cardinality(T)
    <2> HIDE DEF f, T
    <2> QED
      BY <1>5, <1>6, FS_Injection
  <1> QED
    BY <1>1, <1>6, <1>7

LEMMA ReplaceKeeps ==
    ASSUME MdTypes, Values, RawInv, Replace
    PROVE  /\ MdTypes' /\ Values' /\ RawInv'
           /\ stage' <= 4 /\ stage' \in Nat /\ open' = <<>>
  <1> DEFINE k == Len(spans) + 1
  <1>1. /\ stage \in 1..4 /\ stage <= 5 /\ k \in Nat /\ k # 0
        /\ Len(spans) \in Nat /\ Len(input) \in Nat /\ Len(text) \in Nat /\ text \in Seq(Elem)
    <2>1. /\ Len(spans) \in Nat /\ Len(input) \in Nat /\ Len(text) \in Nat /\ text \in Seq(Elem)
      BY InputNat DEF MdTypes
    <2>2. stage \in Nat /\ stage >= 1
      BY DEF MdTypes
    <2>3. stage <= 4
      BY DEF Replace
    <2> QED
      BY <2>1, <2>2, <2>3
  <1>2. PICK i \in Earliest(SpanStarts) : \E z \in SpanAt(Stages[stage], text, i) :
         /\ text' = Splice(text, i, z.last, Placeholder(Len(spans) + 1, text[i].from, text[z.last].to))
         /\ spans' = Append(spans, [kind |-> Stages[stage], value |-> z.value])
         /\ scan' = i + 3
    BY DEF Replace
  <1>3. PICK span \in SpanAt(Stages[stage], text, i) :
         /\ text' = Splice(text, i, span.last, Placeholder(Len(spans) + 1, text[i].from, text[span.last].to))
         /\ spans' = Append(spans, [kind |-> Stages[stage], value |-> span.value])
         /\ scan' = i + 3
    BY <1>2
  <1>4. i \in Nat \ {0} /\ i \in 1..Len(text)
    BY <1>1 DEF Earliest, SpanStarts, MdTypes
  <1>5. RawText(text, k)
    BY <1>1, RawTextHolds
  <1> DEFINE j == span.last
             lo == text[i].from
             hi == text[j].to
             h == Placeholder(k, lo, hi)
             c == Splice(text, i, j, h)
             rec == [kind |-> Stages[stage], value |-> span.value]
  <1>6. text' = c /\ spans' = Append(spans, rec) /\ scan' = i + 3
    BY <1>3
  <1> HIDE DEF k
  <1>7. Spanned(text, k, i, Stages[stage], span)
    BY <1>1, <1>3, <1>4, <1>5, SpanOK
  <1>8. /\ j \in i + 1..Len(text) /\ Bare(text[i].char) /\ Bare(text[j].char)
        /\ Value(k, span.value, Stages[stage]) /\ span.value[1].from = lo
        /\ span.value[Len(span.value)].to = hi /\ span.value \in Seq(Elem)
    BY <1>7 DEF Spanned, Whole
  <1>9. lo <= hi
    BY <1>8 DEF Value, Ends
  <1>10. j \in 1..Len(text) /\ i <= j
    BY <1>1, <1>4, <1>8
  <1>11. lo \in Nat /\ hi \in Nat
    BY <1>1, <1>4, <1>10, ElemAt
  <1>12. IdBefore(text[i]) = 0 /\ IdAfter(text[j]) = 0 /\ Own(text[i])
    <2>1. Raw(text[i]) /\ Raw(text[j])
      BY <1>4, <1>5, <1>10 DEF RawText
    <2> QED
      BY <1>8, <2>1, BareRaw
  <1>12a. StartsApart
    BY <1>1 DEF RawInv
  <1>12b. k \in 1..Len(Numerals)
    BY <1>4, <1>12, <1>12a, RoomForSpan DEF k
  <1>13. Held(h, k, lo, hi)
    <2> HIDE DEF lo, hi
    <2> QED
      BY <1>9, <1>11, <1>12b, PlaceholderHeld
  <1> HIDE DEF h, rec
  <1>14. h \in Seq(Elem) /\ Len(h) = 3 /\ h # <<>> /\ Piece(TRUE, h, lo, hi, "plain", "plain")
    BY <1>13 DEF Held
  <1>15. Piece(TRUE, c, 1, Len(input), "plain", "plain")
    <2>1. Piece(TRUE, text, 1, Len(input), "plain", "plain")
      BY <1>5 DEF RawText
    <2>2. 1 \in Int /\ Len(input) \in Int
      BY <1>1
    <2> HIDE DEF j
    <2> QED
      BY <1>4, <1>10, <1>12, <1>14, <2>1, <2>2, PieceSplice
  <1>16. Spliced(c, text, h, i, j)
    <2> HIDE DEF j
    <2> QED
      BY <1>1, <1>4, <1>10, <1>14, SpliceAt
  <1> HIDE DEF c, j, lo, hi
  <1>17. c \in Seq(Elem) /\ Len(c) \in Nat
    BY <1>16, LenProperties DEF Spliced
  <1>18. ASSUME NEW p \in 1..Len(c) PROVE Raw(c[p])
    <2>1. FromLeft(c, text, i, p) \/ FromValue(c, h, i, p) \/ FromRight(c, text, h, i, j, p)
      BY <1>1, <1>4, <1>10, <1>14, <1>16, SpliceOne
    <2>2. \A q \in 1..Len(text) : Raw(text[q])
      BY <1>5 DEF RawText
    <2>3. \A q \in 1..Len(h) : Raw(h[q])
      BY <1>13 DEF Held
    <2>4. CASE FromLeft(c, text, i, p)
      <3>1. p \in 1..Len(text) /\ c[p] = text[p]
        BY <1>1, <1>4, <2>4 DEF FromLeft
      <3> QED
        BY <2>2, <3>1
    <2>5. CASE FromValue(c, h, i, p)
      BY <2>3, <2>5 DEF FromValue
    <2>6. CASE FromRight(c, text, h, i, j, p)
      <3>1. PICK q \in j + 1..Len(text) : c[p] = text[q]
        BY <2>6 DEF FromRight
      <3>2. q \in 1..Len(text)
        BY <1>1, <1>10
      <3> QED
        BY <2>2, <3>1, <3>2
    <2> QED
      BY <2>1, <2>4, <2>5, <2>6
  <1>19. spans' \in Seq([kind : {"pre", "code", "link", "italic"}, value : Seq(Elem)])
         /\ Len(spans') = k /\ spans'[k] = rec /\ \A m \in 1..Len(spans) : spans'[m] = spans[m]
    <2> DEFINE R == [kind : {"pre", "code", "link", "italic"}, value : Seq(Elem)]
    <2>1. spans \in Seq(R)
      BY DEF MdTypes
    <2>2. Stages[stage] \in {"pre", "code", "link", "italic"}
      <3>1. /\ Stages[1] = "pre" /\ Stages[2] = "code" /\ Stages[3] = "link" /\ Stages[4] = "italic"
            /\ (stage = 1 \/ stage = 2 \/ stage = 3 \/ stage = 4)
        BY <1>1 DEF Stages
      <3> QED
        BY <3>1
    <2>3. rec \in R
      BY <1>8, <2>2 DEF rec
    <2> HIDE DEF R
    <2>4. /\ Append(spans, rec) \in Seq(R) /\ Len(Append(spans, rec)) = Len(spans) + 1
          /\ \A m \in 1..Len(spans) : Append(spans, rec)[m] = spans[m]
          /\ Append(spans, rec)[Len(spans) + 1] = rec
      BY <2>1, <2>3, AppendProperties
    <2>5. /\ spans' \in Seq(R) /\ Len(spans') = Len(spans) + 1
          /\ \A m \in 1..Len(spans) : spans'[m] = spans[m]
          /\ spans'[Len(spans) + 1] = rec
      BY <1>6, <2>4
    <2> QED
      BY <2>5 DEF k, R
  <1>20. rec.kind = Stages[stage] /\ rec.value = span.value
    BY DEF rec
  <1>21. UNCHANGED <<input, stage, split, meet, open>>
    BY DEF Replace
  <1>22. MdTypes'
    <2>1. /\ input' \in Seq(STRING \ {SOH}) /\ split' \in BOOLEAN /\ meet' \in BOOLEAN
          /\ stage' = stage /\ Len(input') <= Len(Numerals)
      BY <1>21 DEF MdTypes
    <2>2. text' \in Seq(Elem) /\ scan' \in Nat \ {0}
      BY <1>4, <1>6, <1>17
    <2>3. Len(spans') \in Nat /\ Len(spans') <= Len(Numerals)
      <3>1. Len(Numerals) \in Nat
        BY NumeralAt
      <3> QED
        BY <1>1, <1>19, <1>12b, <3>1
    <2>4. stage \in Nat /\ stage >= 1 /\ stage <= 6 + Len(spans')
      BY <1>1, <2>3
    <2> QED
      BY <1>19, <2>1, <2>2, <2>3, <2>4 DEF MdTypes
  <1>23. Values'
    <2>1. ASSUME NEW m \in 1..Len(spans') PROVE Value(m, spans'[m].value, spans'[m].kind)
      <3>1. CASE m = k
        BY <1>8, <1>19, <1>20, <3>1
      <3>2. CASE m # k
        <4>1. m \in 1..Len(spans) /\ spans'[m] = spans[m]
          BY <1>1, <1>19, <3>2 DEF k
        <4> QED
          BY <4>1 DEF Values
      <3> QED
        BY <3>1, <3>2
    <2>2. \A m, v, kind : Value(m, v, kind)' <=> Value(m, v, kind)
      BY <1>21, ValueSame
    <2> QED
      BY <2>1, <2>2 DEF Values
  <1>24. ASSUME NEW p \in 1..Len(c) - 1, Opening(c[p])
         PROVE  \E m \in 1..k : Names(c, p, m, spans'[m].value)
    <2>1. \/ PairLeft(c, text, i, p) \/ PairEnter(c, text, h, i, p) \/ PairValue(c, h, i, p)
          \/ PairLeave(c, text, h, i, j, p) \/ PairRight(c, text, h, i, j, p)
      BY <1>1, <1>4, <1>10, <1>14, <1>16, SplicePair
    <2>2. ASSUME NEW q \in 1..Len(text) - 1, c[p] = text[q], c[p + 1] = text[q + 1]
          PROVE  \E m \in 1..k : Names(c, p, m, spans'[m].value)
      <3>1. Opening(text[q])
        BY <1>24, <2>2
      <3>2. PICK m \in 1..Len(spans) : Of(text, q, m)
        BY <1>1, <3>1 DEF RawInv
      <3>3. m \in 1..k /\ spans'[m] = spans[m]
        BY <1>1, <1>19 DEF k
      <3>4. Names(c, p, m, spans'[m].value)
        BY <2>2, <3>2, <3>3 DEF Of, Names
      <3> QED
        BY <3>3, <3>4
    <2>3. CASE PairLeft(c, text, i, p)
      <3>1. p \in 1..Len(text) - 1 /\ c[p] = text[p] /\ c[p + 1] = text[p + 1]
        BY <1>1, <1>4, <2>3 DEF PairLeft
      <3> QED
        BY <2>2, <3>1
    <2>4. CASE PairEnter(c, text, h, i, p)
      <3>1. p \in 1..Len(text) - 1 /\ p + 1 = i /\ c[p] = text[p] /\ p \in 1..Len(text)
        BY <1>1, <1>4, <2>4 DEF PairEnter
      <3>2. Opening(text[p])
        BY <1>24, <3>1
      <3>3. WholeId(text, p)
        <4>1. Piece(TRUE, text, 1, Len(input), "plain", "plain")
          BY <1>5 DEF RawText
        <4>2. 1 \in Int /\ Len(input) \in Int
          BY <1>1
        <4> QED
          BY <3>1, <3>2, <4>1, <4>2, OpeningWhole
      <3> QED
        BY <1>12, <3>1, <3>3 DEF WholeId, IdBefore
    <2>5. CASE PairValue(c, h, i, p)
      <3>1. PICK q \in 1..Len(h) - 1 : p = i - 1 + q /\ c[p] = h[q] /\ c[p + 1] = h[q + 1]
        BY <2>5 DEF PairValue
      <3>2. q = 1 \/ q = 2
        BY <1>14
      <3>3. q = 1
        BY <1>13, <1>24, <3>1, <3>2 DEF Held
      <3>4. c[p] = h[1] /\ c[p + 1] = h[2]
        BY <3>1, <3>3
      <3>5. Names(c, p, k, spans'[k].value)
        BY <1>8, <1>13, <1>19, <1>20, <3>4 DEF Names, Held
      <3>6. k \in 1..k
        BY <1>1
      <3> QED
        BY <3>5, <3>6
    <2>6. CASE PairLeave(c, text, h, i, j, p)
      BY <1>13, <1>24, <2>6 DEF PairLeave, Held
    <2>7. CASE PairRight(c, text, h, i, j, p)
      <3>1. PICK q \in j + 1..Len(text) - 1 : c[p] = text[q] /\ c[p + 1] = text[q + 1]
        BY <2>7 DEF PairRight
      <3>2. q \in 1..Len(text) - 1
        BY <1>1, <1>10
      <3> QED
        BY <2>2, <3>1, <3>2
    <2> QED
      BY <2>1, <2>3, <2>4, <2>5, <2>6, <2>7
  <1>25. open' = <<>>
    BY <1>1, <1>21 DEF RawInv
  <1>25a. ASSUME NEW p \in 1..Len(c), Own(c[p])
         PROVE  \E q \in 1..Len(text) : q # i /\ c[p] = text[q]
    <2>1. FromLeft(c, text, i, p) \/ FromValue(c, h, i, p) \/ FromRight(c, text, h, i, j, p)
      BY <1>1, <1>4, <1>10, <1>14, <1>16, SpliceOne
    <2>2. CASE FromLeft(c, text, i, p)
      <3>1. p \in 1..Len(text) /\ p # i /\ c[p] = text[p]
        BY <1>1, <1>4, <2>2 DEF FromLeft
      <3> QED
        BY <3>1
    <2>3. CASE FromValue(c, h, i, p)
      <3>1. PICK q \in 1..Len(h) : c[p] = h[q]
        BY <2>3 DEF FromValue
      <3>2. IdPart(h[q])
        BY <1>13 DEF Held
      <3> QED
        BY <1>25a, <3>1, <3>2, OwnPlain
    <2>4. CASE FromRight(c, text, h, i, j, p)
      <3>1. PICK q \in j + 1..Len(text) : c[p] = text[q]
        BY <2>4 DEF FromRight
      <3>2. q \in 1..Len(text) /\ q # i
        BY <1>1, <1>4, <1>10
      <3> QED
        BY <3>1, <3>2
    <2> QED
      BY <2>1, <2>2, <2>3, <2>4
  <1>25b. lo \in 1..Len(input) /\ lo = text[i].from
    BY <1>12, OwnPlain DEF lo
  <1>25c. ASSUME NEW p \in 1..Len(c), Own(c[p])
         PROVE  c[p].from # lo /\ \A m \in 1..Len(spans) : c[p].from # spans[m].value[1].from
    <2>1. PICK q \in 1..Len(text) : q # i /\ c[p] = text[q]
      BY <1>25a, <1>25c
    <2>2. text[q].from # text[i].from
      <3>1. text[q].to = text[q].from /\ text[i].to = text[i].from /\ text[q].from \in Nat /\ text[i].from \in Nat
        BY <1>1, <1>12, <1>25c, <2>1, OwnPlain
      <3>2. Piece(TRUE, text, 1, Len(input), "plain", "plain")
        BY <1>5 DEF RawText
      <3>3. CASE q < i
        <4>1. text[q].to < text[i].from
          BY <1>4, <3>2, <3>3, Rising
        <4> QED
          BY <3>1, <4>1
      <3>4. CASE i < q
        <4>1. text[i].to < text[q].from
          BY <1>4, <3>2, <3>4, Rising
        <4> QED
          BY <3>1, <4>1
      <3> QED
        BY <1>1, <1>4, <2>1, <3>3, <3>4
    <2>3. \A m \in 1..Len(spans) : text[q].from # spans[m].value[1].from
      BY <1>12a, <1>25c, <2>1 DEF StartsApart
    <2> QED
      BY <1>25b, <2>1, <2>2, <2>3
  <1>25d. StartsApart'
    <2> DEFINE start(m) == spans'[m].value[1].from
    <2>1. start(k) = lo
      BY <1>8, <1>19, <1>20
    <2>2. \A m \in 1..Len(spans) : start(m) = spans[m].value[1].from
      BY <1>19
    <2>3. \A m \in 1..Len(spans') : m = k \/ m \in 1..Len(spans)
      BY <1>1, <1>19 DEF k
    <2> HIDE DEF start
    <2>4. \A m \in 1..Len(spans) : start(m) \in 1..Len(input) /\ start(m) # lo
      BY <1>4, <1>12, <1>12a, <1>25b, <2>2 DEF StartsApart
    <2>5. \A m \in 1..Len(spans') : start(m) \in 1..Len(input)
      BY <1>25b, <2>1, <2>3, <2>4
    <2>6. ASSUME NEW m \in 1..Len(spans'), NEW n \in 1..Len(spans'), start(n) = start(m) PROVE n = m
      <3>1. ASSUME m \in 1..Len(spans), n \in 1..Len(spans) PROVE n = m
        BY <1>12a, <2>2, <2>6, <3>1 DEF StartsApart
      <3> QED
        BY <2>1, <2>3, <2>4, <2>6, <3>1
    <2>7. \A p \in 1..Len(text') : Own(text'[p]) => \A m \in 1..Len(spans') : text'[p].from # start(m)
      BY <1>6, <1>25c, <2>1, <2>2, <2>3
    <2>8. \A e : Own(e)' <=> Own(e)
      BY <1>21, SameInput
    <2> QED
      BY <1>21, <2>5, <2>6, <2>7, <2>8 DEF StartsApart, start
  <1>26. RawInv'
    <2>1. Piece(TRUE, text', 1, Len(input'), "plain", "plain")
      BY <1>6, <1>15, <1>21
    <2>2. \A p \in 1..Len(text') : Raw(text'[p])
      BY <1>6, <1>18
    <2>3. \A e : Raw(e)' <=> Raw(e)
      BY <1>21, SameInput
    <2>4. \A p \in 1..Len(text') - 1 :
             Opening(text'[p]) => \E m \in 1..Len(spans') : Names(text', p, m, spans'[m].value)
      BY <1>6, <1>19, <1>24
    <2> QED
      BY <1>25, <1>25d, <2>1, <2>2, <2>3, <2>4 DEF RawInv, Of
  <1>27. stage' <= 4 /\ stage' \in Nat
    BY <1>1, <1>21
  <1> QED
    BY <1>22, <1>23, <1>25, <1>26, <1>27

LEMMA InitHolds ==
    ASSUME Init
    PROVE  MdInv
  <1>1. input \in Seq(STRING \ {SOH}) /\ Len(input) <= Len(Numerals)
    BY InputsAssumption, NumeralsAssumption DEF Init
  <1>2. /\ Len(input) \in Nat /\ DOMAIN input = 1..Len(input)
        /\ \A i \in 1..Len(input) : input[i] \in STRING \ {SOH}
    BY <1>1, LenProperties, ElementOfSeq
  <1> DEFINE n == Len(input)
             E(i) == Char(input[i], i, i, "plain")
  <1>3. text = [i \in 1..n |-> E(i)]
    BY <1>2 DEF Init
  <1>4. ASSUME NEW i \in 1..n
        PROVE  /\ E(i) \in Elem /\ E(i).char = input[i] /\ E(i).from = i /\ E(i).to = i
               /\ E(i).in = "plain" /\ ~E(i).escaped
    <2>1. input[i] \in Chars /\ "plain" \in Ins /\ i \in Nat
      BY <1>2 DEF Chars, Ins, Entities
    <2> QED
      BY <2>1 DEF Char, Elem
  <1> HIDE DEF E
  <1>5. text \in [1..n -> Elem] /\ \A i \in 1..n : text[i] = E(i)
    BY <1>3, <1>4
  <1>6. text \in Seq(Elem) /\ Len(text) = n
    BY <1>2, <1>5
  <1>7. ASSUME NEW i \in 1..n
        PROVE  /\ text[i].char = input[i] /\ text[i].from = i /\ text[i].to = i
               /\ text[i].in = "plain" /\ ~text[i].escaped /\ text[i].char # SOH
    BY <1>2, <1>4, <1>5
  <1>8. ASSUME NEW i \in 1..n
        PROVE  /\ Raw(text[i]) /\ IdBefore(text[i]) = 0 /\ IdAfter(text[i]) = 0 /\ ~Opening(text[i])
    <2>1. Own(text[i])
      BY <1>7 DEF Own
    <2>2. ~Opening(text[i]) /\ ~Closing(text[i])
      BY <1>7 DEF Opening, Closing
    <2>3. ~Number(text[i])
      BY <1>7 DEF Number
    <2> QED
      BY <1>7, <2>1, <2>2, <2>3 DEF Raw, IdBefore, IdAfter
  <1>9. Piece(TRUE, text, 1, n, "plain", "plain")
    <2>1. \A p \in 1..Len(text) : text[p].from <= text[p].to + 1
      <3> TAKE p \in 1..Len(text)
      <3>1. text[p].from = p /\ text[p].to = p /\ p \in Nat
        BY <1>6, <1>7
      <3> QED
        BY <3>1
    <2>2. CASE n = 0
      <3>1. text = <<>>
        BY <1>6, <2>2, EmptySeq
      <3> QED
        BY <1>6, <2>1, <2>2, <3>1 DEF Piece
    <2>3. CASE n # 0
      <3>1. text # <<>>
        BY <1>6, <2>3, NotEmpty
      <3>2. 1 \in 1..n /\ n \in 1..n
        BY <1>2, <2>3
      <3>3. Begins(TRUE, text[1], 1, "plain") /\ Finishes(TRUE, text[Len(text)], n, "plain")
        BY <1>6, <1>7, <1>8, <3>2 DEF Begins, Finishes
      <3>4. ASSUME NEW p \in 1..Len(text) - 1 PROVE Link(TRUE, text[p], text[p + 1])
        <4>1. p \in 1..n /\ p + 1 \in 1..n
          BY <1>2, <1>6
        <4> QED
          BY <1>7, <1>8, <4>1 DEF Link
      <3> QED
        BY <1>6, <2>1, <3>1, <3>3, <3>4 DEF Piece
    <2> QED
      BY <2>2, <2>3
  <1>10. /\ spans = <<>> /\ stage = 1 /\ scan = 1 /\ split = FALSE /\ meet = FALSE /\ open = <<>>
         /\ Len(spans) = 0
    BY DEF Init
  <1>11. MdTypes
    <2>1. spans \in Seq([kind : {"pre", "code", "link", "italic"}, value : Seq(Elem)])
      BY <1>10
    <2>2. Len(spans) <= Len(Numerals) /\ stage \in Nat /\ stage >= 1 /\ stage <= 6 + Len(spans)
      BY <1>10, NumeralAt
    <2>3. scan \in Nat \ {0}
      BY <1>10
    <2>4. split \in BOOLEAN /\ meet \in BOOLEAN
      BY <1>10
    <2> QED
      BY <1>1, <1>6, <2>1, <2>2, <2>3, <2>4 DEF MdTypes
  <1>12. Values
    BY <1>10 DEF Values
  <1>13. RawInv
    <2>1. \A p \in 1..Len(text) - 1 : ~Opening(text[p])
      <3> TAKE p \in 1..Len(text) - 1
      <3>1. p \in 1..n
        BY <1>2, <1>6
      <3> QED
        BY <1>8, <3>1
    <2>2. StartsApart
      BY <1>10 DEF StartsApart
    <2> QED
      BY <1>6, <1>8, <1>9, <1>10, <2>1, <2>2 DEF RawInv
  <1>14. ReadyInv
    BY <1>10 DEF ReadyInv
  <1>15. ReadInv
    <2>1. ~Done /\ open = <<>>
      BY <1>10 DEF Done
    <2> QED
      BY <2>1 DEF ReadInv
  <1> QED
    BY <1>11, <1>12, <1>13, <1>14, <1>15 DEF MdInv

LEMMA NextStageKeeps ==
    ASSUME MdTypes, Values, RawInv, NextStage
    PROVE  /\ MdTypes' /\ Values' /\ RawInv'
           /\ stage' <= 5 /\ stage' \in Nat /\ open' = <<>>
  <1>1. UNCHANGED <<input, text, spans, split, meet, open>> /\ stage' = stage + 1 /\ scan' = 1 /\ stage <= 4
    BY DEF NextStage
  <1>2. stage \in Nat /\ stage >= 1 /\ Len(spans) \in Nat
    BY InputNat DEF MdTypes
  <1>3. stage' <= 5 /\ stage' \in Nat /\ stage' >= 1 /\ stage' <= 6 + Len(spans) /\ scan' \in Nat \ {0}
    BY <1>1, <1>2
  <1>4. MdTypes'
    BY <1>1, <1>3 DEF MdTypes
  <1>5. Values'
    <2>1. \A m, v, kind : Value(m, v, kind)' <=> Value(m, v, kind)
      BY <1>1, ValueSame
    <2> QED
      BY <1>1, <2>1 DEF Values
  <1>6. RawInv'
    <2>1. \A e : Raw(e)' <=> Raw(e)
      BY <1>1, SameInput
    <2>2. stage <= 5
      BY <1>1, <1>2
    <2>3. StartsApart'
      <3>1. \A e : Own(e)' <=> Own(e)
        BY <1>1, SameInput
      <3> QED
        BY <1>1, <2>2, <3>1 DEF RawInv, StartsApart
    <2> QED
      BY <1>1, <2>1, <2>2, <2>3 DEF RawInv, Of
  <1>7. open' = <<>>
    <2>1. stage <= 5
      BY <1>1, <1>2
    <2> QED
      BY <1>1, <2>1 DEF RawInv
  <1> QED
    BY <1>3, <1>4, <1>5, <1>6, <1>7

LEMMA ClosingWhole ==
    ASSUME NEW raw \in BOOLEAN, NEW s, NEW lo \in Int, NEW hi \in Int, NEW x, NEW y,
           Piece(raw, s, lo, hi, x, y), NEW p \in 1..Len(s)
    PROVE  /\ Closing(s[p]) => p - 1 \in 1..Len(s) /\ Number(s[p - 1])
           /\ Number(s[p]) => p - 1 \in 1..Len(s) /\ Opening(s[p - 1])
  <1>1. /\ s \in Seq(Elem) /\ Len(s) \in Nat
        /\ \A q \in 1..Len(s) : s[q] \in Elem
        /\ \A q \in 1..Len(s) - 1 : Link(raw, s[q], s[q + 1])
        /\ Len(s) > 0 => Begins(raw, s[1], lo, x)
    BY PieceAt
  <1>2. CASE p = 1
    <2>1. IdBefore(s[p]) = 0
      BY <1>1, <1>2 DEF Begins
    <2> QED
      BY <1>1, <2>1, IdKinds
  <1>3. CASE p # 1
    <2>1. p - 1 \in 1..Len(s) /\ p - 1 \in 1..Len(s) - 1 /\ (p - 1) + 1 = p
      BY <1>1, <1>3
    <2>2. Link(raw, s[p - 1], s[p])
      BY <1>1, <2>1
    <2>3. s[p] \in Elem /\ s[p - 1] \in Elem /\ IdBefore(s[p]) = IdAfter(s[p - 1])
      BY <1>1, <2>1, <2>2 DEF Link
    <2> QED
      BY <2>1, <2>3, IdKinds
  <1> QED
    BY <1>2, <1>3

LEMMA UsedDigits ==
    ASSUME MdTypes
    PROVE  Used \subseteq Digits /\ \A k \in 1..Len(spans) : k \in 1..Len(Numerals)
  <1>1. \A k \in 1..Len(spans) : k \in 1..Len(Numerals)
    BY InputNat, NumeralAt DEF MdTypes
  <1> QED
    BY <1>1, NumeralAt DEF Used

(* Only the number of a span between two placeholders looks like a third.   *)
LEMMA NotFaked ==
    ASSUME MdTypes, NEW raw \in BOOLEAN, NEW s, NEW lo \in Int, NEW hi \in Int, NEW x, NEW y,
           Piece(raw, s, lo, hi, x, y), ~Ambiguous(s),
           \A p \in 1..Len(s) - 1 : Opening(s[p]) => s[p + 1].char \in Used
    PROVE  NoFake(s)
  <1> SUFFICES ASSUME NEW p \in 2..Len(s) - 1, s[p].char \in Used, ~Number(s[p]),
                      s[p - 1].char = SOH, s[p + 1].char = SOH
               PROVE  FALSE
    BY DEF NoFake
  <1>1. /\ s \in Seq(Elem) /\ Len(s) \in Nat
        /\ \A q \in 1..Len(s) : s[q] \in Elem
        /\ \A q \in 1..Len(s) - 1 : Link(raw, s[q], s[q + 1])
    BY PieceAt
  <1>2. /\ p \in 1..Len(s) /\ p - 1 \in 1..Len(s) /\ p + 1 \in 1..Len(s)
        /\ p - 1 \in 1..Len(s) - 1 /\ (p - 1) + 1 = p /\ (p - 1) + 2 = p + 1 /\ p - 1 \in Nat
    BY <1>1
  <1>3. s[p] \in Elem /\ s[p - 1] \in Elem /\ s[p + 1] \in Elem
    BY <1>1, <1>2
  <1>4. Link(raw, s[p - 1], s[p])
    BY <1>1, <1>2
  <1>5. ~Opening(s[p - 1])
    BY <1>3, <1>4, IdKinds DEF Link
  <1>6. Closing(s[p - 1])
    BY <1>3, <1>5, IdKinds
  <1> DEFINE q == p - 1
             r == p - 2
             o == p - 3
  <1>7. r \in 1..Len(s) /\ Number(s[r])
    <2>1. q \in 1..Len(s) /\ Closing(s[q]) /\ q - 1 = r
      BY <1>2, <1>6
    <2>2. q - 1 \in 1..Len(s) /\ Number(s[q - 1])
      <3> HIDE DEF q
      <3> QED
        BY <2>1, ClosingWhole
    <2> HIDE DEF q, r
    <2> QED
      BY <2>1, <2>2
  <1>8. o \in 1..Len(s) /\ Opening(s[o])
    <2>1. r - 1 = o
      BY <1>2
    <2>2. r - 1 \in 1..Len(s) /\ Opening(s[r - 1])
      <3> HIDE DEF r
      <3> QED
        BY <1>7, ClosingWhole
    <2> HIDE DEF r, o
    <2> QED
      BY <2>1, <2>2
  <1>9. /\ o \in Nat /\ o + 1 = r /\ o + 2 = q /\ o + 2 <= Len(s) /\ q + 1 = p /\ q + 2 = p + 1 /\ q + 2 <= Len(s)
        /\ q \in Nat
    BY <1>2, <1>8
  <1>10. s[o].char = SOH /\ s[r].char \in Digits /\ s[q].char = SOH /\ s[p].char \in Digits
    BY <1>7, <1>8, UsedDigits DEF Opening, Number
  <1>10a. s[r].char \in Used
    <2>1. o \in 1..Len(s) - 1
      BY <1>1, <1>8, <1>9
    <2> HIDE DEF o, r
    <2> QED
      BY <1>8, <1>9, <2>1
  <1>11. s[o] \in Elem /\ s[r] \in Elem /\ s[q] \in Elem
    BY <1>1, <1>3, <1>7, <1>8
  <1>12. ~s[o].escaped /\ ~s[r].escaped /\ ~s[q].escaped /\ ~s[p].escaped /\ ~s[p + 1].escaped
    BY <1>3, <1>10, <1>11, IdBare
  <1> HIDE DEF o, r, q
  <1>13. At(s, o, <<SOH, s[r].char, SOH>>)
    BY <1>1, <1>9, <1>10, <1>12, AtThree
  <1>14. At(s, q, <<SOH, s[p].char, SOH>>)
    BY <1>1, <1>9, <1>10, <1>12, AtThree
  <1>14a. \A i : \A d \in Used : At(s, i, <<SOH, d, SOH>>) => Reads(s, i)
    <2>1. DOMAIN spans = 1..Len(spans)
      BY DEF MdTypes
    <2> QED
      BY <2>1 DEF Reads, Used, Id
  <1>15. Reads(s, o) /\ Reads(s, o + 2)
    BY <1>9, <1>13, <1>14, <1>10a, <1>14a
  <1>16. o \in DOMAIN s
    BY <1>1, <1>8 DEF q
  <1> QED
    BY <1>15, <1>16 DEF Ambiguous

LEMMA ReadStart ==
    ASSUME NEW s, NEW lo \in Int, NEW hi \in Int, Piece(FALSE, s, lo, hi, "plain", "plain")
    PROVE  ReadTo(s, 1, <<>>)
  <1>1. /\ s \in Seq(Elem) /\ Len(s) \in Nat
        /\ Len(s) > 0 => Begins(FALSE, s[1], lo, "plain")
    BY PieceAt
  <1>2. CASE Len(s) = 0
    BY <1>2 DEF ReadTo
  <1>3. CASE Len(s) > 0
    <2>1. s[1].in = "plain" /\ 1 \in 1..Len(s)
      BY <1>1, <1>3 DEF Begins
    <2>2. "plain" \in Entities /\ Stack("plain") = <<>>
      BY DEF Entities, Stack
    <2> QED
      BY <2>1, <2>2 DEF ReadTo
  <1> QED
    BY <1>1, <1>2, <1>3

LEMMA SameSpans ==
    ASSUME UNCHANGED spans
    PROVE  /\ \A s, p, from, f : Waiting(s, p, from, f)' <=> Waiting(s, p, from, f)
           /\ \A s, p, f : Buried(s, p, f)' <=> Buried(s, p, f)
           /\ ItalicNumerals' = ItalicNumerals /\ Used' = Used
  <1>1. \A s, p, from, f : Waiting(s, p, from, f)' <=> Waiting(s, p, from, f)
    BY DEF Waiting, Of
  <1>2. \A s, p, f : Buried(s, p, f)' <=> Buried(s, p, f)
    <2>1. Nested' <=> Nested
      BY DEF Nested
    <2> QED
      BY <2>1 DEF Buried
  <1>3. ItalicNumerals' = ItalicNumerals /\ Used' = Used
    BY DEF ItalicNumerals, Used
  <1> QED
    BY <1>1, <1>2, <1>3

(* The text as ReadyInv wants it, spans[f] being filled in from "from" on.  *)
Ready(s, from, f, met) ==
    /\ Piece(FALSE, s, 1, Len(input), "plain", "plain")
    /\ \A p \in 1..Len(s) : Sound(s[p])
    /\ NoFake(s) /\ \A k \in 1..Len(spans) : NoFake(spans[k].value)
    /\ \A p \in 1..Len(s) - 1 : Opening(s[p]) => Waiting(s, p, from, f) \/ Buried(s, p, f)
    /\ ~met => NoDouble(s) /\ Apart(s, ItalicNumerals)

LEMMA ReadyNext ==
    ASSUME UNCHANGED <<input, spans>>, stage' >= 6 /\ ~split' => Ready(text', scan', stage' - 5, meet')
    PROVE  ReadyInv'
  <1>1. /\ \A s, p, from, f : Waiting(s, p, from, f)' <=> Waiting(s, p, from, f)
        /\ \A s, p, f : Buried(s, p, f)' <=> Buried(s, p, f)
        /\ ItalicNumerals' = ItalicNumerals /\ \A e : Sound(e)' <=> Sound(e)
    BY SameSpans, SameInput
  <1>2. \A s : NoFake(s)' <=> NoFake(s)
    BY SameSpans DEF NoFake
  <1> QED
    BY <1>1, <1>2 DEF ReadyInv, Ready, Filling

(* What does not change keeps the facts about it. *)
LEMMA Unchanged ==
    ASSUME UNCHANGED <<input, spans>>, MdTypes, Values
    PROVE  Values' /\ Len(spans') = Len(spans) /\ Len(input') = Len(input)
  <1>1. \A m, v, kind : Value(m, v, kind)' <=> Value(m, v, kind)
    BY ValueSame
  <1> QED
    BY <1>1 DEF Values

LEMMA BaseKeeps ==
    ASSUME MdTypes, Values, RawInv, Base
    PROVE  MdInv'
  <1> DEFINE T == EscapeBase(text, "plain")
             S == Special \cup {"\\"}
  <1>1. /\ stage = 5 /\ stage' = 6 /\ scan' = 1 /\ UNCHANGED <<input, spans, open>> /\ text' = T
        /\ meet' = ItalicsMeet
        /\ split' = (Ambiguous(text) \/ \E k \in DOMAIN spans : Ambiguous(spans[k].value))
    BY DEF Base
  <1>2. text \in Seq(Elem) /\ Len(text) \in Nat /\ Len(spans) \in Nat /\ Len(input) \in Nat
    BY InputNat DEF MdTypes
  <1>3. /\ Piece(TRUE, text, 1, Len(input), "plain", "plain") /\ \A p \in 1..Len(text) : Raw(text[p])
        /\ \A p \in 1..Len(text) - 1 : Opening(text[p]) => \E k \in 1..Len(spans) : Of(text, p, k)
        /\ open = <<>>
    <2>1. stage <= 5
      BY <1>1
    <2> QED
      BY <2>1 DEF RawInv
  <1>4. "plain" \in Ins /\ "plain" \in Entities /\ S \subseteq Escapable /\ Danger("plain") \subseteq S
    BY Entering
  <1>5. Escaped(T, text, S, "plain")
    <2>1. T = Escape(text, S, "plain")
      BY DEF EscapeBase
    <2> HIDE DEF T, S
    <2>2. Escaped(Escape(text, S, "plain"), text, S, "plain")
      BY <1>2, <1>4, EscapeAt
    <2> QED
      BY <2>1, <2>2
  <1>6. Piece(FALSE, T, 1, Len(input), "plain", "plain")
    <2>1. T = Escape(text, S, "plain")
      BY DEF EscapeBase
    <2>2. 1 \in Int /\ Len(input) \in Int
      BY <1>2
    <2> HIDE DEF T, S
    <2>3. Piece(FALSE, Escape(text, S, "plain"), 1, Len(input), "plain", "plain")
      BY <1>3, <1>4, <2>2, EscapePiece
    <2> QED
      BY <2>1, <2>3
  <1>7. Tick \in S /\ "_" \in S
    BY DEF Special
  <1> HIDE DEF T, S
  <1>8. /\ T \in Seq(Elem) /\ Len(T) = Len(text)
        /\ \A p \in 1..Len(text) :
             /\ T[p].char = text[p].char /\ T[p].from = text[p].from /\ T[p].to = text[p].to
             /\ T[p].in = "plain" /\ (T[p].escaped <=> text[p].char \in S)
    BY <1>5 DEF Escaped
  <1>9. \A p \in 1..Len(T) : Sound(T[p])
    <2> TAKE p \in 1..Len(T)
    <2>1. Raw(text[p])
      BY <1>3, <1>8
    <2> QED
      BY <1>8, <2>1 DEF Raw, Sound, Own, IdPart, Number
  <1>10. \A p \in 1..Len(T) : ~Plainly(T[p], Tick) /\ ~Plainly(T[p], "_")
    BY <1>7, <1>8 DEF Plainly
  <1>11. NoDouble(T)
    <2> SUFFICES ASSUME NEW p \in 1..Len(T) - 1 PROVE ~Double(T[p], T[p + 1])
      BY DEF NoDouble
    <2>1. p \in 1..Len(T)
      BY <1>2, <1>8
    <2> QED
      BY <1>10, <2>1 DEF Double
  <1>12. ASSUME ~Ambiguous(text) PROVE NoFake(T)
    <2>1. NoFake(text)
      <3>1. 1 \in Int /\ Len(input) \in Int
        BY <1>2
      <3>2. \A p \in 1..Len(text) - 1 : Opening(text[p]) => text[p + 1].char \in Used
        BY <1>3 DEF Of, Names, Used
      <3> QED
        BY <1>3, <1>12, <3>1, <3>2, NotFaked
    <2> SUFFICES ASSUME NEW p \in 2..Len(T) - 1, T[p].char \in Used, ~Number(T[p])
                 PROVE  T[p - 1].char # SOH \/ T[p + 1].char # SOH
      BY DEF NoFake
    <2>2. p \in 1..Len(text) /\ p - 1 \in 1..Len(text) /\ p + 1 \in 1..Len(text) /\ p \in 2..Len(text) - 1
      BY <1>2, <1>8
    <2> QED
      BY <1>8, <2>1, <2>2 DEF NoFake, Number
  <1>13. ASSUME ~split', NEW k \in 1..Len(spans) PROVE NoFake(spans[k].value)
    <2> DEFINE v == spans[k].value
    <2>1. ~Ambiguous(v)
      <3>1. k \in DOMAIN spans
        BY DEF MdTypes
      <3> QED
        BY <1>1, <1>13, <3>1
    <2>2. Piece(FALSE, v, v[1].from, v[Len(v)].to, "plain", "plain") /\ v # <<>>
      BY DEF Values, Value, Ends
    <2> HIDE DEF v
    <2>3. v[1].from \in Int /\ v[Len(v)].to \in Int
      <3>1. v \in Seq(Elem)
        BY <2>2 DEF Piece
      <3>2. Len(v) \in Nat /\ Len(v) # 0
        BY <2>2, <3>1, LenProperties, EmptySeq
      <3>3. 1 \in 1..Len(v) /\ Len(v) \in 1..Len(v)
        BY <3>2
      <3>4. v[1].from \in Nat /\ v[Len(v)].to \in Nat
        BY <3>1, <3>3, ElemAt
      <3> QED
        BY <3>4
    <2>3a. \A p \in 1..Len(v) - 1 : Opening(v[p]) => v[p + 1].char \in Used
      <3>1. Older(v, k)
        BY DEF Values, Value, v
      <3>2. 1..k - 1 \subseteq 1..Len(spans)
        BY <1>2
      <3> QED
        BY <3>1, <3>2 DEF Older, Used
    <2>4. NoFake(v)
      BY <2>1, <2>2, <2>3, <2>3a, NotFaked
    <2> QED
      BY <2>4 DEF v
  <1>14. ASSUME NEW p \in 1..Len(T) - 1, Opening(T[p]) PROVE Waiting(T, p, 1, 1)
    <2>1. p \in 1..Len(text) - 1 /\ p \in 1..Len(text) /\ p + 1 \in 1..Len(text) /\ ~(p < 1)
      BY <1>2, <1>8
    <2>2. Opening(text[p])
      BY <1>8, <1>14, <2>1 DEF Opening
    <2>3. PICK k \in 1..Len(spans) : Of(text, p, k)
      BY <1>3, <2>1, <2>2
    <2>4. Of(T, p, k)
      BY <1>8, <2>1, <2>3 DEF Of, Names
    <2> QED
      BY <1>8, <2>1, <2>4 DEF Waiting
  <1>15. ASSUME ~ItalicsMeet PROVE Apart(T, ItalicNumerals)
    <2>1. ASSUME NEW p \in 1..Len(T), ItalicId(T, p, ItalicNumerals)
          PROVE  \E k \in DOMAIN spans : spans[k].kind = "italic" /\ At(text, p, Id(k))
      <3>1. p + 2 <= Len(T) /\ Opening(T[p]) /\ T[p + 1].char \in ItalicNumerals
        BY <2>1 DEF ItalicId
      <3>2. p \in 1..Len(text) /\ p + 1 \in 1..Len(text) /\ p + 2 \in 1..Len(text) /\ p + 2 <= Len(text) /\ p \in Nat
        BY <1>2, <1>8, <3>1
      <3>3. Opening(text[p])
        BY <1>8, <3>1, <3>2 DEF Opening
      <3>4. WholeId(text, p)
        <4>1. 1 \in Int /\ Len(input) \in Int
          BY <1>2
        <4> QED
          BY <1>3, <3>2, <3>3, <4>1, OpeningWhole
      <3>5. /\ text[p].char = SOH /\ text[p + 1].char \in Digits /\ text[p + 2].char = SOH
        BY <3>4 DEF WholeId, Opening, Number, Closing
      <3>6. ~text[p].escaped /\ ~text[p + 1].escaped /\ ~text[p + 2].escaped
        BY <1>2, <3>2, <3>5, ElemAt, IdBare
      <3>7. PICK k \in 1..Len(spans) : spans[k].kind = "italic" /\ T[p + 1].char = Numerals[k]
        BY <3>1 DEF ItalicNumerals
      <3>8. text[p + 1].char = Numerals[k]
        BY <1>8, <3>2, <3>7
      <3>9. At(text, p, <<SOH, Numerals[k], SOH>>)
        BY <1>2, <3>2, <3>5, <3>6, <3>8, AtThree
      <3>10. k \in DOMAIN spans
        BY DEF MdTypes
      <3> QED
        BY <3>7, <3>9, <3>10 DEF Id
    <2> SUFFICES ASSUME NEW p \in 1..Len(T)
                 PROVE  /\ Plainly(T[p], "_") /\ T[p].in = "italic" => ~ItalicId(T, p + 1, ItalicNumerals)
                        /\ ItalicId(T, p, ItalicNumerals) /\ p + 3 <= Len(T) =>
                             ~Plainly(T[p + 3], "_") /\ ~ItalicId(T, p + 3, ItalicNumerals)
      BY DEF Apart
    <2>2. ~Plainly(T[p], "_")
      BY <1>10
    <2>3. ASSUME p + 3 <= Len(T), ItalicId(T, p, ItalicNumerals)
          PROVE  ~Plainly(T[p + 3], "_") /\ ~ItalicId(T, p + 3, ItalicNumerals)
      <3>1. p + 3 \in 1..Len(T) /\ p \in DOMAIN text
        BY <1>2, <1>8, <2>3
      <3>2. ~Plainly(T[p + 3], "_")
        BY <1>10, <3>1
      <3>3. ASSUME ItalicId(T, p + 3, ItalicNumerals) PROVE FALSE
        <4>1. PICK k \in DOMAIN spans : spans[k].kind = "italic" /\ At(text, p, Id(k))
          BY <2>1, <2>3
        <4>2. PICK l \in DOMAIN spans : spans[l].kind = "italic" /\ At(text, p + 3, Id(l))
          BY <2>1, <3>1, <3>3
        <4> QED
          BY <1>15, <3>1, <4>1, <4>2 DEF ItalicsMeet
      <3> QED
        BY <3>2, <3>3
    <2> QED
      BY <2>2, <2>3
  <1>16. ASSUME ~split' PROVE Ready(T, 1, 1, meet')
    <2>1. ~Ambiguous(text)
      BY <1>1, <1>16
    <2> QED
      BY <1>1, <1>6, <1>9, <1>11, <1>12, <1>13, <1>14, <1>15, <1>16, <2>1 DEF Ready
  <1>17. ReadyInv'
    <2>1. stage' - 5 = 1
      BY <1>1
    <2> QED
      BY <1>1, <1>16, <2>1, ReadyNext
  <1>18. MdTypes'
    <2>1. meet' \in BOOLEAN /\ split' \in BOOLEAN
      <3>1. ItalicsMeet \in BOOLEAN
        BY DEF ItalicsMeet
      <3>2. (Ambiguous(text) \/ \E k \in DOMAIN spans : Ambiguous(spans[k].value)) \in BOOLEAN
        OBVIOUS
      <3> QED
        BY <1>1, <3>1, <3>2
    <2>2. stage' \in Nat /\ stage' >= 1 /\ stage' <= 6 + Len(spans') /\ scan' \in Nat \ {0}
      BY <1>1, <1>2
    <2>3. text' \in Seq(Elem)
      BY <1>1, <1>8
    <2> QED
      BY <1>1, <2>1, <2>2, <2>3 DEF MdTypes
  <1>19. ReadInv'
    <2>1. open' = <<>>
      BY <1>1, <1>3
    <2>2. ReadTo(T, 1, <<>>)
      <3>1. 1 \in Int /\ Len(input) \in Int
        BY <1>2
      <3> QED
        BY <1>6, <3>1, ReadStart
    <2> QED
      BY <1>1, <2>1, <2>2 DEF ReadInv
  <1>20. RawInv'
    <2>1. ~(stage' <= 5)
      BY <1>1
    <2> QED
      BY <2>1 DEF RawInv
  <1> QED
    BY <1>1, <1>17, <1>18, <1>19, <1>20, Unchanged DEF MdInv

(* Nothing turns on a part of a placeholder. *)
LEMMA IdLeads ==
    ASSUME NEW e \in Elem, IdPart(e), NEW w, Leads(e, w)
    PROVE  w = e.in
  <1>1. ~Bare(e.char)
    BY DEF IdPart, Number, Bare
  <1>2. \A a, c, z : <<a, c, z>> \in Turns => c \in MarkChars
    BY DEF Turns, MarkChars
  <1>3. <<e.in, e.char, w>> \notin Turns
    BY <1>1, <1>2, MarkCharsBare
  <1> QED
    BY <1>3 DEF Leads

(* What is taken for the placeholder of the span that is being filled in is it. *)
Match(s, i, v) ==
    /\ WholeId(s, i) /\ s[i].in = "plain" /\ s[i + 1].in = "plain" /\ s[i + 2].in = "plain"
    /\ Names(s, i, Filling, v)
    /\ IdBefore(s[i]) = 0 /\ IdAfter(s[i + 2]) = 0
    /\ s[i] \in Elem /\ s[i + 1] \in Elem /\ s[i + 2] \in Elem

LEMMA Matching ==
    ASSUME MdTypes, stage >= 6, ~Done, Ready(text, scan, Filling, meet), NEW i \in Places
    PROVE  Match(text, i, spans[Filling].value)
  <1>1. /\ text \in Seq(Elem) /\ Len(text) \in Nat /\ Len(spans) \in Nat /\ Len(input) \in Nat
        /\ scan \in Nat /\ scan # 0 /\ stage \in Nat
    BY InputNat DEF MdTypes
  <1>2. /\ Piece(FALSE, text, 1, Len(input), "plain", "plain") /\ NoFake(text)
        /\ \A p \in 1..Len(text) - 1 : Opening(text[p]) =>
              Waiting(text, p, scan, Filling) \/ Buried(text, p, Filling)
    BY DEF Ready
  <1>3. 1 \in Int /\ Len(input) \in Int
    BY <1>1
  <1>4. /\ \A q \in 1..Len(text) : text[q] \in Elem
        /\ \A q \in 1..Len(text) - 1 : Link(FALSE, text[q], text[q + 1])
    BY <1>2, <1>3, PieceAt
  <1>5. i \in scan..Len(text) /\ At(text, i, Id(Filling)) /\ i \in Nat
    BY <1>1 DEF Places
  <1>6. /\ i + 2 <= Len(text) /\ text[i].char = SOH /\ text[i + 1].char = Numerals[Filling]
        /\ text[i + 2].char = SOH
    BY <1>1, <1>5, AtThree DEF Id
  <1>7. /\ i \in 1..Len(text) /\ i + 1 \in 1..Len(text) /\ i + 2 \in 1..Len(text)
        /\ i \in 1..Len(text) - 1 /\ i + 1 \in 1..Len(text) - 1 /\ (i + 1) + 1 = i + 2
        /\ i + 1 \in 2..Len(text) - 1 /\ (i + 1) - 1 = i
    BY <1>1, <1>5, <1>6
  <1>8. text[i] \in Elem /\ text[i + 1] \in Elem /\ text[i + 2] \in Elem
    BY <1>4, <1>7
  <1>9. Filling \in 1..Len(spans) /\ Filling <= Len(spans)
    <2>1. stage - 5 <= Len(spans)
      BY <1>1 DEF Done, Filling
    <2> QED
      BY <1>1, <2>1 DEF Filling
  <1>10. Opening(text[i])
    <2>1. CASE Number(text[i + 1])
      <3>1. Link(FALSE, text[i], text[i + 1])
        BY <1>4, <1>7
      <3> QED
        BY <1>8, <2>1, <3>1, IdKinds DEF Link
    <2>2. CASE ~Number(text[i + 1])
      <3>1. text[i + 1].char \in Used
        BY <1>6, <1>9 DEF Used
      <3>2. text[(i + 1) - 1].char # SOH \/ text[(i + 1) + 1].char # SOH
        BY <1>2, <1>7, <2>2, <3>1 DEF NoFake
      <3> QED
        BY <1>6, <1>7, <3>2
    <2> QED
      BY <2>1, <2>2
  <1>11. WholeId(text, i)
    BY <1>2, <1>3, <1>7, <1>10, OpeningWhole
  <1>12. text[i].in = "plain" /\ Of(text, i, Filling)
    <2>1. ASSUME NEW k \in 1..Len(spans), text[i + 1].char = Numerals[k] PROVE k = Filling
      <3>1. k \in 1..Len(Numerals) /\ Filling \in 1..Len(Numerals)
        BY <1>9, UsedDigits
      <3> QED
        BY <1>6, <2>1, <3>1, NumeralAt
    <2>2. CASE Waiting(text, i, scan, Filling)
      <3>1. PICK k \in Filling..Len(spans) : Of(text, i, k)
        BY <2>2 DEF Waiting
      <3>2. k \in 1..Len(spans)
        BY <1>1, <1>9
      <3>3. k = Filling
        BY <2>1, <3>1, <3>2 DEF Of, Names
      <3> QED
        BY <2>2, <3>1, <3>3 DEF Waiting
    <2>3. CASE Buried(text, i, Filling)
      <3>1. PICK k \in 1..Filling - 1 : text[i + 1].char = Numerals[k]
        BY <2>3 DEF Buried
      <3>2. k \in 1..Len(spans) /\ k # Filling
        BY <1>1, <1>9
      <3> QED
        BY <2>1, <3>1, <3>2
    <2> QED
      BY <1>2, <1>7, <1>10, <2>2, <2>3
  <1>13. IdPart(text[i]) /\ IdPart(text[i + 1]) /\ IdPart(text[i + 2])
    BY <1>11 DEF WholeId, IdPart, Opening, Closing
  <1>14. text[i + 1].in = "plain" /\ text[i + 2].in = "plain"
    <2>1. Leads(text[i], text[i + 1].in)
      BY <1>4, <1>7 DEF Link
    <2>2. Leads(text[i + 1], text[i + 2].in)
      <3>1. Link(FALSE, text[i + 1], text[(i + 1) + 1])
        BY <1>4, <1>7
      <3> QED
        BY <1>7, <3>1 DEF Link
    <2> QED
      BY <1>8, <1>12, <1>13, <2>1, <2>2, IdLeads
  <1>15. IdBefore(text[i]) = 0 /\ IdAfter(text[i + 2]) = 0
    BY <1>8, <1>11, IdKinds DEF WholeId
  <1> QED
    BY <1>8, <1>11, <1>12, <1>14, <1>15 DEF Match, Of

(* c is s with the value v in place of its placeholder at i. *)
Filled(c, s, i, k, v, kind) ==
    /\ Piece(FALSE, s, 1, Len(input), "plain", "plain") /\ Len(input) \in Nat
    /\ Match(s, i, v) /\ Value(k, v, kind)
    /\ c = Splice(s, i, i + 2, v)

LEMMA ValueAt ==
    ASSUME NEW k, NEW v, NEW kind, Value(k, v, kind)
    PROVE  /\ v \in Seq(Elem) /\ Len(v) \in Nat /\ Len(v) > 0 /\ v # <<>>
           /\ Bare(v[1].char) /\ Bare(v[Len(v)].char) /\ v[1].in = "plain"
           /\ v[1] \in Elem /\ v[Len(v)] \in Elem
  <1>1. v \in Seq(Elem) /\ v # <<>> /\ Bare(v[1].char) /\ Bare(v[Len(v)].char) /\ v[1].in = "plain"
    BY DEF Value, Ends, Piece
  <1>2. Len(v) \in Nat /\ Len(v) > 0
    BY <1>1, LenProperties, EmptySeq
  <1>3. 1 \in 1..Len(v) /\ Len(v) \in 1..Len(v)
    BY <1>2
  <1> QED
    BY <1>1, <1>2, <1>3, ElemAt

Fits(c, s, i, v) ==
    /\ s \in Seq(Elem) /\ Len(s) \in Nat /\ i \in 1..Len(s) /\ i + 2 \in 1..Len(s) /\ i <= i + 2
    /\ i + 1 \in 1..Len(s) /\ i \in Nat
    /\ Spliced(c, s, v, i, i + 2) /\ c \in Seq(Elem) /\ Len(c) \in Nat
    /\ Len(c) = Len(s) + Len(v) - 3
    /\ Piece(FALSE, c, 1, Len(input), "plain", "plain")
LEMMA FilledAt ==
    ASSUME NEW c, NEW s, NEW i, NEW k, NEW v, NEW kind, Filled(c, s, i, k, v, kind)
    PROVE  Fits(c, s, i, v)
  <1>1. /\ Piece(FALSE, s, 1, Len(input), "plain", "plain") /\ WholeId(s, i)
        /\ Match(s, i, v) /\ c = Splice(s, i, i + 2, v)
    BY DEF Filled, Match
  <1>2. 1 \in Int /\ Len(input) \in Int
    BY DEF Filled
  <1>3. s \in Seq(Elem) /\ Len(s) \in Nat
    BY <1>1, <1>2, PieceAt
  <1>4. i \in 1..Len(s) /\ i + 1 \in 1..Len(s) /\ i + 2 \in 1..Len(s)
    BY <1>1 DEF WholeId
  <1>5. i \in Nat /\ i <= i + 2
    BY <1>3, <1>4
  <1>6. v \in Seq(Elem) /\ Len(v) \in Nat
    BY ValueAt DEF Filled
  <1>7. Spliced(c, s, v, i, i + 2)
    BY <1>1, <1>3, <1>4, <1>5, <1>6, SpliceAt
  <1>8. c \in Seq(Elem) /\ Len(c) \in Nat /\ Len(c) = Len(s) + Len(v) - 3
    <2>1. c \in Seq(Elem) /\ Len(c) = Len(s) + Len(v) - ((i + 2) - i + 1)
      BY <1>7 DEF Spliced
    <2>2. (i + 2) - i + 1 = 3
      BY <1>5
    <2> QED
      BY <2>1, <2>2, LenProperties
  <1>9. Piece(FALSE, c, 1, Len(input), "plain", "plain")
    <2>1. Piece(FALSE, v, s[i].from, s[i + 2].to, "plain", "plain")
      <3>1. s[i].from = v[1].from /\ s[i].to = v[Len(v)].to /\ s[i + 2].to = s[i].to
        BY <1>1 DEF Match, Names, WholeId
      <3>2. Piece(FALSE, v, v[1].from, v[Len(v)].to, "plain", "plain")
        BY DEF Filled, Value
      <3> QED
        BY <3>1, <3>2
    <2>2. IdBefore(s[i]) = 0 /\ IdAfter(s[i + 2]) = 0 /\ s[i].in = "plain"
      BY <1>1 DEF Match
    <2>3. \A w : Leads(s[i + 2], w) => w = "plain"
      <3>1. IdPart(s[i + 2]) /\ s[i + 2] \in Elem /\ s[i + 2].in = "plain"
        BY <1>1 DEF Match, WholeId, IdPart, Closing
      <3> QED
        BY <3>1, IdLeads
    <2>4. Piece(FALSE, Splice(s, i, i + 2, v), 1, Len(input), "plain", "plain")
      BY <1>1, <1>2, <1>4, <1>5, <2>1, <2>2, <2>3, PieceSplice
    <2> QED
      BY <1>1, <2>4
  <1> QED
    BY <1>3, <1>4, <1>5, <1>7, <1>8, <1>9 DEF Fits

LEMMA FilledFake ==
    ASSUME NEW c, NEW s, NEW i, NEW k, NEW v, NEW kind, Filled(c, s, i, k, v, kind),
           NoFake(s), NoFake(v), Used \subseteq Digits
    PROVE  NoFake(c)
  <1>1. /\ s \in Seq(Elem) /\ Len(s) \in Nat /\ i \in 1..Len(s) /\ i + 2 \in 1..Len(s) /\ i <= i + 2
        /\ i \in Nat /\ Spliced(c, s, v, i, i + 2) /\ Len(c) \in Nat /\ Len(c) = Len(s) + Len(v) - 3
    <2>1. Fits(c, s, i, v)
      BY FilledAt
    <2> QED
      BY <2>1 DEF Fits
  <1>2. /\ v \in Seq(Elem) /\ Len(v) \in Nat /\ Len(v) > 0
        /\ Bare(v[1].char) /\ Bare(v[Len(v)].char)
    BY ValueAt DEF Filled
  <1> SUFFICES ASSUME NEW p \in 2..Len(c) - 1, c[p].char \in Used, ~Number(c[p]),
                      c[p - 1].char = SOH, c[p + 1].char = SOH
               PROVE  FALSE
    BY DEF NoFake
  <1>3. /\ p \in 1..Len(c) /\ p - 1 \in 1..Len(c) - 1 /\ (p - 1) + 1 = p /\ p \in 1..Len(c) - 1
    BY <1>1
  <1>4. /\ \A q \in 1..i - 1 : c[q] = s[q]
        /\ \A q \in 1..Len(v) : c[i - 1 + q] = v[q]
        /\ \A q \in 1..Len(s) - (i + 2) : c[i - 1 + Len(v) + q] = s[(i + 2) + q]
    BY <1>1 DEF Spliced
  <1>5. v[1].char # SOH /\ v[1].char \notin Digits /\ v[Len(v)].char # SOH /\ v[Len(v)].char \notin Digits
    BY <1>2 DEF Bare
  <1>6. c[i] = v[1] /\ c[i - 1 + Len(v)] = v[Len(v)]
    <2>1. 1 \in 1..Len(v) /\ Len(v) \in 1..Len(v) /\ i - 1 + 1 = i
      BY <1>1, <1>2
    <2> QED
      BY <1>4, <2>1
  <1>7. p # i /\ p + 1 # i /\ p # i - 1 + Len(v) /\ p - 1 # i - 1 + Len(v)
    BY <1>5, <1>6
  <1>8. CASE p + 1 < i
    <2>1. p - 1 \in 1..i - 1 /\ p \in 1..i - 1 /\ p + 1 \in 1..i - 1 /\ p \in 2..Len(s) - 1
      BY <1>1, <1>3, <1>8
    <2> QED
      BY <1>4, <2>1 DEF NoFake
  <1>9. CASE i < p /\ p < i - 1 + Len(v)
    <2> DEFINE q == p - (i - 1)
    <2>1. /\ q \in 2..Len(v) - 1 /\ q \in 1..Len(v) /\ q - 1 \in 1..Len(v) /\ q + 1 \in 1..Len(v)
          /\ p = i - 1 + q /\ p - 1 = i - 1 + (q - 1) /\ p + 1 = i - 1 + (q + 1)
      BY <1>1, <1>2, <1>3, <1>9
    <2> HIDE DEF q
    <2>2. c[p] = v[q] /\ c[p - 1] = v[q - 1] /\ c[p + 1] = v[q + 1]
      BY <1>4, <2>1
    <2> QED
      BY <2>1, <2>2 DEF NoFake
  <1>10. CASE i + Len(v) < p
    <2> DEFINE q == p - (i - 1 + Len(v))
               r == (i + 2) + q
    <2>1. /\ q \in 1..Len(s) - (i + 2) /\ q - 1 \in 1..Len(s) - (i + 2) /\ q + 1 \in 1..Len(s) - (i + 2)
          /\ p = i - 1 + Len(v) + q /\ p - 1 = i - 1 + Len(v) + (q - 1) /\ p + 1 = i - 1 + Len(v) + (q + 1)
          /\ (i + 2) + (q - 1) = r - 1 /\ (i + 2) + (q + 1) = r + 1 /\ r \in 2..Len(s) - 1
      BY <1>1, <1>2, <1>3, <1>10
    <2>2. (i + 2) + q = r
      OBVIOUS
    <2> HIDE DEF q, r
    <2>3. c[p] = s[(i + 2) + q] /\ c[p - 1] = s[(i + 2) + (q - 1)] /\ c[p + 1] = s[(i + 2) + (q + 1)]
      BY <1>4, <2>1
    <2>4. c[p] = s[r] /\ c[p - 1] = s[r - 1] /\ c[p + 1] = s[r + 1]
      BY <2>1, <2>2, <2>3
    <2> QED
      BY <2>1, <2>4 DEF NoFake
  <1>11. p + 1 < i \/ (i < p /\ p < i - 1 + Len(v)) \/ i + Len(v) < p
    <2>1. i \in Nat /\ Len(v) \in Nat /\ p \in Nat
      BY <1>1, <1>2, <1>3
    <2> QED
      BY <1>7, <2>1
  <1> QED
    BY <1>8, <1>9, <1>10, <1>11

(* The placeholder of an italic span stands where its value is put.         *)
LEMMA FilledItalic ==
    ASSUME MdTypes, NEW c, NEW s, NEW i, Filling \in 1..Len(spans),
           Filled(c, s, i, Filling, spans[Filling].value, spans[Filling].kind),
           spans[Filling].kind = "italic"
    PROVE  ItalicId(s, i, ItalicNumerals)
  <1> DEFINE v == spans[Filling].value
  <1>1. Fits(c, s, i, v)
    BY FilledAt
  <1>2. i + 2 <= Len(s)
    <2> HIDE DEF v
    <2> QED
      BY <1>1 DEF Fits
  <1>3. Match(s, i, v)
    BY DEF Filled
  <1>4. Opening(s[i]) /\ s[i].in = "plain" /\ s[i + 1].char = Numerals[Filling]
    <2> HIDE DEF v
    <2> QED
      BY <1>3 DEF Match, WholeId, Names
  <1>5. s[i + 1].char \in ItalicNumerals
    BY <1>4 DEF ItalicNumerals
  <1> QED
    BY <1>2, <1>4, <1>5 DEF ItalicId

LEMMA ValueItalic ==
    ASSUME NEW k, NEW v, NEW kind, Value(k, v, kind), v[1].char = "_" \/ v[Len(v)].char = "_"
    PROVE  kind = "italic"
  BY DEF Value, Ends

LEMMA FilledDouble ==
    ASSUME NEW c, NEW s, NEW i, NEW k, NEW v, NEW kind, NEW N,
           Filled(c, s, i, k, v, kind), NoDouble(s), Apart(s, N),
           kind = "italic" => ItalicId(s, i, N)
    PROVE  NoDouble(c)
  <1>1. Fits(c, s, i, v)
    BY FilledAt
  <1>2. /\ s \in Seq(Elem) /\ Len(s) \in Nat /\ i \in 1..Len(s) /\ i + 2 \in 1..Len(s) /\ i <= i + 2
        /\ i \in Nat /\ Spliced(c, s, v, i, i + 2) /\ Len(c) \in Nat
        /\ Piece(FALSE, c, 1, Len(input), "plain", "plain")
    BY <1>1 DEF Fits
  <1>3. Match(s, i, v) /\ Value(k, v, kind)
        /\ Piece(FALSE, s, 1, Len(input), "plain", "plain") /\ 1 \in Int /\ Len(input) \in Int
    <2>1. Len(input) \in Nat
      BY DEF Filled
    <2>2. 1 \in Int /\ Len(input) \in Int
      BY <2>1
    <2> QED
      BY <2>2 DEF Filled
  <1>4. /\ v \in Seq(Elem) /\ v # <<>> /\ v[1].in = "plain" /\ Len(v) \in Nat
    BY <1>3, ValueAt
  <1>5. \A q \in 1..Len(s) - 1 : Link(FALSE, s[q], s[q + 1])
    BY <1>3, PieceAt
  <1> SUFFICES ASSUME NEW p \in 1..Len(c) - 1, Double(c[p], c[p + 1])
               PROVE  FALSE
    BY DEF NoDouble
  <1>6. \/ PairLeft(c, s, i, p) \/ PairEnter(c, s, v, i, p) \/ PairValue(c, v, i, p)
        \/ PairLeave(c, s, v, i, i + 2, p) \/ PairRight(c, s, v, i, i + 2, p)
    BY <1>2, <1>4, SplicePair
  <1>7. CASE PairLeft(c, s, i, p)
    <2>1. p \in 1..Len(s) - 1 /\ c[p] = s[p] /\ c[p + 1] = s[p + 1]
      BY <1>2, <1>7 DEF PairLeft
    <2> QED
      BY <2>1 DEF NoDouble
  <1>8. CASE PairEnter(c, s, v, i, p)
    <2>1. p \in 1..Len(s) - 1 /\ p + 1 = i /\ c[p] = s[p] /\ c[p + 1] = v[1] /\ p \in 1..Len(s)
      BY <1>2, <1>8 DEF PairEnter
    <2>2. Plainly(s[p], "_") /\ s[p].in \in {"plain", "italic"} /\ v[1].char = "_"
      BY <1>4, <2>1 DEF Double, Plainly
    <2>3. ItalicId(s, i, N)
      BY <1>3, <2>2, ValueItalic
    <2>4. s[p].in # "italic"
      BY <2>1, <2>2, <2>3 DEF Apart
    <2>5. s[p].in = "plain" /\ Leads(s[p], "plain")
      <3>1. Link(FALSE, s[p], s[p + 1])
        BY <1>5, <2>1
      <3>2. s[p + 1].in = "plain"
        BY <1>3, <2>1 DEF Match
      <3> QED
        BY <2>2, <2>4, <3>1, <3>2 DEF Link
    <2>6. ~s[p].escaped /\ s[p].char = "_"
      BY <2>2 DEF Plainly
    <2>7. "_" \in Danger("plain") /\ <<"plain", "_", "plain">> \notin Turns
      BY Entering DEF Turns, Special
    <2> QED
      BY <2>5, <2>6, <2>7 DEF Leads
  <1>9. CASE PairValue(c, v, i, p)
    <2>1. PICK q \in 1..Len(v) - 1 : c[p] = v[q] /\ c[p + 1] = v[q + 1]
      BY <1>9 DEF PairValue
    <2>2. NoDouble(v)
      BY <1>3 DEF Value
    <2> QED
      BY <2>1, <2>2 DEF NoDouble
  <1>10. CASE PairLeave(c, s, v, i, i + 2, p)
    <2> DEFINE e == v[Len(v)]
    <2>1. c[p] = e /\ c[p + 1] = s[i + 3] /\ i + 3 <= Len(s)
      <3>1. c[p] = e /\ c[p + 1] = s[(i + 2) + 1] /\ i + 2 \in 1..Len(s) - 1
        BY <1>10 DEF PairLeave
      <3>2. (i + 2) + 1 = i + 3
        BY <1>2
      <3> QED
        BY <1>2, <3>1, <3>2
    <2>2. Leads(e, "plain")
      BY <1>3, <1>4 DEF Value, Piece, Finishes
    <2> HIDE DEF e
    <2>3. CASE Plainly(e, Tick) /\ e.in = "plain"
      <3>1. Tick \in Danger("plain") /\ <<"plain", Tick, "plain">> \notin Turns
        BY Entering DEF Turns, Special, Tick
      <3>2. ~e.escaped /\ e.char = Tick
        BY <2>3 DEF Plainly
      <3> QED
        BY <2>2, <2>3, <3>1, <3>2 DEF Leads
    <2>4. CASE Plainly(e, "_") /\ Plainly(s[i + 3], "_")
      <3>1. e.char = "_"
        BY <2>4 DEF Plainly
      <3>2. ItalicId(s, i, N)
        BY <1>3, <3>1, ValueItalic DEF e
      <3> QED
        BY <1>2, <2>1, <2>4, <3>2 DEF Apart
    <2> QED
      BY <2>1, <2>3, <2>4 DEF Double
  <1>11. CASE PairRight(c, s, v, i, i + 2, p)
    <2>1. PICK q \in (i + 2) + 1..Len(s) - 1 : c[p] = s[q] /\ c[p + 1] = s[q + 1]
      BY <1>11 DEF PairRight
    <2>2. q \in 1..Len(s) - 1
      BY <1>2
    <2> QED
      BY <2>1, <2>2 DEF NoDouble
  <1> QED
    BY <1>6, <1>7, <1>8, <1>9, <1>10, <1>11

(* The characters of c, by their places in s and v. *)
LEMMA FilledPlaces ==
    ASSUME NEW c, NEW s, NEW i, NEW v, Fits(c, s, i, v), Len(v) \in Nat, Len(v) > 0
    PROVE  /\ \A q \in 1..i - 1 : c[q] = s[q]
           /\ c[i] = v[1] /\ c[i - 1 + Len(v)] = v[Len(v)]
           /\ \A q \in i + 3..Len(s) : c[q + Len(v) - 3] = s[q]
  <1>1. /\ Len(s) \in Nat /\ i \in Nat
        /\ \A q \in 1..i - 1 : c[q] = s[q]
        /\ \A q \in 1..Len(v) : c[i - 1 + q] = v[q]
        /\ \A q \in 1..Len(s) - (i + 2) : c[i - 1 + Len(v) + q] = s[(i + 2) + q]
    BY DEF Fits, Spliced
  <1>2. 1 \in 1..Len(v) /\ Len(v) \in 1..Len(v) /\ i - 1 + 1 = i
    BY <1>1
  <1>3. ASSUME NEW q \in i + 3..Len(s) PROVE c[q + Len(v) - 3] = s[q]
    <2> DEFINE r == q - (i + 2)
    <2>1. r \in 1..Len(s) - (i + 2) /\ i - 1 + Len(v) + r = q + Len(v) - 3 /\ (i + 2) + r = q
      BY <1>1
    <2> HIDE DEF r
    <2>2. c[i - 1 + Len(v) + r] = s[(i + 2) + r]
      BY <1>1, <2>1
    <2> QED
      BY <2>1, <2>2
  <1> QED
    BY <1>1, <1>2, <1>3

FromItalic(c, s, i, v, p, N) ==
    \/ p + 2 < i /\ ItalicId(s, p, N)
    \/ \E q \in i + 3..Len(s) : p = q + Len(v) - 3 /\ ItalicId(s, q, N)

LEMMA FilledIds ==
    ASSUME NEW c, NEW s, NEW i, NEW k, NEW v, NEW kind, NEW N, Filled(c, s, i, k, v, kind),
           NEW p \in Nat, p > 0, ItalicId(c, p, N)
    PROVE  FromItalic(c, s, i, v, p, N)
  <1>1. Fits(c, s, i, v)
    BY FilledAt
  <1>2. /\ s \in Seq(Elem) /\ Len(s) \in Nat /\ i \in 1..Len(s) /\ i + 2 \in 1..Len(s) /\ i <= i + 2
        /\ i \in Nat /\ Spliced(c, s, v, i, i + 2) /\ Len(c) \in Nat
    BY <1>1 DEF Fits
  <1>3. Match(s, i, v) /\ Value(k, v, kind)
        /\ Piece(FALSE, s, 1, Len(input), "plain", "plain") /\ 1 \in Int /\ Len(input) \in Int
    <2>1. Len(input) \in Nat
      BY DEF Filled
    <2>2. 1 \in Int /\ Len(input) \in Int
      BY <2>1
    <2> QED
      BY <2>2 DEF Filled
  <1>4. v \in Seq(Elem) /\ v # <<>> /\ Len(v) \in Nat /\ Bare(v[1].char) /\ Bare(v[Len(v)].char)
    BY <1>3, ValueAt
  <1>5. p + 2 <= Len(c) /\ Opening(c[p]) /\ c[p].in = "plain" /\ c[p + 1].char \in N
    BY DEF ItalicId
  <1>6. p \in 1..Len(c) - 1
    BY <1>2, <1>5
  <1>7. \/ PairLeft(c, s, i, p) \/ PairEnter(c, s, v, i, p) \/ PairValue(c, v, i, p)
        \/ PairLeave(c, s, v, i, i + 2, p) \/ PairRight(c, s, v, i, i + 2, p)
    BY <1>2, <1>4, <1>6, SplicePair
  <1>8. ASSUME NEW q \in 1..Len(s), Opening(s[q]) PROVE WholeId(s, q)
    BY <1>3, <1>8, OpeningWhole
  <1>9. CASE PairLeft(c, s, i, p)
    <2>1. p \in 1..Len(s) /\ c[p] = s[p] /\ c[p + 1] = s[p + 1] /\ p <= i - 2
      BY <1>2, <1>9 DEF PairLeft
    <2>2. WholeId(s, p)
      BY <1>5, <1>8, <2>1
    <2>3. p + 2 # i
      BY <1>3, <2>2, IdKinds DEF WholeId, Match
    <2>4. ItalicId(s, p, N)
      <3>1. p + 2 <= Len(s)
        BY <1>2, <2>1
      <3> QED
        BY <1>5, <2>1, <3>1 DEF ItalicId
    <2>5. p + 2 < i
      BY <1>2, <2>1, <2>3
    <2> QED
      BY <2>4, <2>5 DEF FromItalic
  <1>10. CASE PairEnter(c, s, v, i, p)
    <2>1. p \in 1..Len(s) /\ c[p] = s[p] /\ p + 1 = i
      BY <1>2, <1>10 DEF PairEnter
    <2>2. Number(s[i])
      BY <1>5, <1>8, <2>1 DEF WholeId
    <2> QED
      BY <1>3, <2>2, IdKinds DEF Match, WholeId
  <1>11. CASE PairValue(c, v, i, p)
    <2>1. PICK q \in 1..Len(v) - 1 : c[p] = v[q]
      BY <1>11 DEF PairValue
    <2>2. CASE q = 1
      BY <1>4, <1>5, <2>1, <2>2 DEF Opening, Bare
    <2>3. CASE q # 1
      <3>1. q \in 2..Len(v)
        BY <1>4, <2>3
      <3>2. v[q].in # "plain"
        BY <1>3, <3>1 DEF Value, Ends
      <3> QED
        BY <1>5, <2>1, <3>2
    <2> QED
      BY <2>2, <2>3
  <1>12. CASE PairLeave(c, s, v, i, i + 2, p)
    BY <1>4, <1>5, <1>12 DEF PairLeave, Opening, Bare
  <1>13. CASE PairRight(c, s, v, i, i + 2, p)
    <2>1. PICK q \in (i + 2) + 1..Len(s) - 1 : /\ p = q - (i + 2) + (i - 1 + Len(v))
                                               /\ c[p] = s[q] /\ c[p + 1] = s[q + 1]
      BY <1>13 DEF PairRight
    <2>2. q \in 1..Len(s) /\ q \in i + 3..Len(s) /\ p = q + Len(v) - 3
      BY <1>2, <1>4, <2>1
    <2>3. WholeId(s, q)
      BY <1>5, <1>8, <2>1, <2>2
    <2>4. q + 2 <= Len(s)
      BY <1>2, <2>3 DEF WholeId
    <2>5. ItalicId(s, q, N)
      BY <1>5, <2>1, <2>4 DEF ItalicId
    <2> QED
      BY <2>2, <2>5 DEF FromItalic
  <1> QED
    BY <1>7, <1>9, <1>10, <1>11, <1>12, <1>13

LEMMA FilledApart ==
    ASSUME NEW c, NEW s, NEW i, NEW k, NEW v, NEW kind, NEW N,
           Filled(c, s, i, k, v, kind), Apart(s, N),
           kind = "italic" => ItalicId(s, i, N)
    PROVE  Apart(c, N)
  <1>1. Fits(c, s, i, v)
    BY FilledAt
  <1>2. /\ s \in Seq(Elem) /\ Len(s) \in Nat /\ i \in 1..Len(s) /\ i + 2 \in 1..Len(s)
        /\ i \in Nat /\ Len(c) \in Nat /\ Len(c) = Len(s) + Len(v) - 3
    BY <1>1 DEF Fits
  <1>3. Value(k, v, kind) /\ Len(v) \in Nat /\ Len(v) > 0
    BY ValueAt DEF Filled
  <1>4. /\ \A q \in 1..i - 1 : c[q] = s[q]
        /\ c[i] = v[1] /\ c[i - 1 + Len(v)] = v[Len(v)]
        /\ \A q \in i + 3..Len(s) : c[q + Len(v) - 3] = s[q]
    BY <1>1, <1>3, FilledPlaces
  <1>5. ASSUME NEW p \in 1..Len(c), Plainly(c[p], "_"), c[p].in = "italic", ItalicId(c, p + 1, N)
        PROVE  FALSE
    <2>1. FromItalic(c, s, i, v, p + 1, N)
      <3>1. p + 1 \in Nat /\ p + 1 > 0
        BY <1>2
      <3> QED
        BY <1>5, <3>1, FilledIds
    <2>2. CASE (p + 1) + 2 < i /\ ItalicId(s, p + 1, N)
      <3>1. p \in 1..i - 1 /\ p \in 1..Len(s)
        BY <1>2, <2>2
      <3>2. c[p] = s[p]
        BY <1>4, <3>1
      <3> QED
        BY <1>5, <2>2, <3>1, <3>2 DEF Apart
    <2>3. ASSUME NEW q \in i + 3..Len(s), p + 1 = q + Len(v) - 3, ItalicId(s, q, N)
          PROVE  FALSE
      <3>1. CASE q = i + 3
        <4>1. p = i - 1 + Len(v) /\ i + 3 <= Len(s)
          BY <1>2, <1>3, <2>3, <3>1
        <4>2. v[Len(v)].char = "_"
          BY <1>4, <1>5, <4>1 DEF Plainly
        <4>3. ItalicId(s, i, N)
          BY <1>3, <4>2, ValueItalic
        <4> QED
          BY <1>2, <2>3, <3>1, <4>1, <4>3 DEF Apart
      <3>2. CASE q # i + 3
        <4> DEFINE r == q - 1
        <4>1. r \in i + 3..Len(s) /\ p = r + Len(v) - 3 /\ r \in 1..Len(s) /\ r + 1 = q
          BY <1>2, <1>3, <2>3, <3>2
        <4> HIDE DEF r
        <4>2. c[p] = s[r]
          BY <1>4, <4>1
        <4> QED
          BY <1>5, <2>3, <4>1, <4>2 DEF Apart
      <3> QED
        BY <3>1, <3>2
    <2> QED
      BY <2>1, <2>2, <2>3 DEF FromItalic
  <1>6. ASSUME NEW p \in 1..Len(c), ItalicId(c, p, N), p + 3 <= Len(c)
        PROVE  ~Plainly(c[p + 3], "_") /\ ~ItalicId(c, p + 3, N)
    <2>1. p \in Nat /\ p > 0 /\ p + 3 \in Nat /\ p + 3 > 0
      BY <1>2
    <2>2. FromItalic(c, s, i, v, p, N)
      BY <1>6, <2>1, FilledIds
    <2>3. ItalicId(c, p + 3, N) => FromItalic(c, s, i, v, p + 3, N)
      BY <2>1, FilledIds
    <2>4. CASE p + 2 < i /\ ItalicId(s, p, N)
      <3>1. p \in 1..Len(s) /\ p + 3 <= Len(s) /\ p + 3 <= i
        BY <1>2, <2>1, <2>4
      <3>2. ~Plainly(s[p + 3], "_") /\ ~ItalicId(s, p + 3, N)
        BY <2>4, <3>1 DEF Apart
      <3>3. ~ItalicId(c, p + 3, N)
        <4>1. \A q \in i + 3..Len(s) : p + 3 # q + Len(v) - 3
          BY <1>2, <1>3, <2>1, <3>1
        <4> QED
          BY <2>3, <3>2, <4>1 DEF FromItalic
      <3>4. ~Plainly(c[p + 3], "_")
        <4>1. CASE p + 3 < i
          <5>1. p + 3 \in 1..i - 1
            BY <1>2, <2>1, <4>1
          <5> QED
            BY <1>4, <3>2, <5>1
        <4>2. CASE p + 3 = i
          <5>1. kind # "italic"
            BY <3>2, <4>2
          <5>2. v[1].char # "_"
            BY <1>3, <5>1, ValueItalic
          <5> QED
            BY <1>4, <4>2, <5>2 DEF Plainly
        <4>3. \A a, b \in Nat : a <= b => a < b \/ a = b
          OBVIOUS
        <4>4. p + 3 < i \/ p + 3 = i
          BY <1>2, <2>1, <3>1, <4>3
        <4> QED
          BY <4>1, <4>2, <4>4
      <3> QED
        BY <3>3, <3>4
    <2>5. ASSUME NEW q \in i + 3..Len(s), p = q + Len(v) - 3, ItalicId(s, q, N)
          PROVE  ~Plainly(c[p + 3], "_") /\ ~ItalicId(c, p + 3, N)
      <3> DEFINE r == q + 3
      <3>1. r \in i + 3..Len(s) /\ p + 3 = r + Len(v) - 3 /\ q \in 1..Len(s) /\ q + 3 <= Len(s) /\ r = q + 3
        BY <1>2, <1>3, <1>6, <2>5
      <3>2. ~Plainly(s[q + 3], "_") /\ ~ItalicId(s, q + 3, N)
        BY <2>5, <3>1 DEF Apart
      <3> HIDE DEF r
      <3>3. c[p + 3] = s[r]
        BY <1>4, <3>1
      <3>4. \A z \in i + 3..Len(s) : p + 3 = z + Len(v) - 3 => z = r
        BY <1>2, <1>3, <3>1
      <3>5. ~((p + 3) + 2 < i)
        BY <1>2, <1>3, <2>1, <3>1
      <3>6. ~ItalicId(c, p + 3, N)
        BY <2>3, <3>1, <3>2, <3>4, <3>5 DEF FromItalic
      <3> QED
        BY <3>1, <3>2, <3>3, <3>6
    <2> QED
      BY <2>2, <2>4, <2>5 DEF FromItalic
  <1> QED
    BY <1>5, <1>6 DEF Apart

LEMMA FilledSound ==
    ASSUME NEW c, NEW s, NEW i, NEW k, NEW v, NEW kind, Filled(c, s, i, k, v, kind),
           \A p \in 1..Len(s) : Sound(s[p])
    PROVE  \A p \in 1..Len(c) : Sound(c[p])
  <1>1. Fits(c, s, i, v)
    BY FilledAt
  <1>2. /\ s \in Seq(Elem) /\ Len(s) \in Nat /\ i \in 1..Len(s) /\ i + 2 \in 1..Len(s) /\ i <= i + 2
        /\ Spliced(c, s, v, i, i + 2)
    BY <1>1 DEF Fits
  <1>3. v \in Seq(Elem) /\ \A q \in 1..Len(v) : Sound(v[q])
    BY ValueAt DEF Filled, Value
  <1> SUFFICES ASSUME NEW p \in 1..Len(c) PROVE Sound(c[p])
    OBVIOUS
  <1>4. FromLeft(c, s, i, p) \/ FromValue(c, v, i, p) \/ FromRight(c, s, v, i, i + 2, p)
    BY <1>2, <1>3, SpliceOne
  <1>5. CASE FromLeft(c, s, i, p)
    <2>1. p \in 1..Len(s) /\ c[p] = s[p]
      BY <1>2, <1>5 DEF FromLeft
    <2> QED
      BY <2>1
  <1>6. CASE FromValue(c, v, i, p)
    BY <1>3, <1>6 DEF FromValue
  <1>7. CASE FromRight(c, s, v, i, i + 2, p)
    <2>1. PICK q \in (i + 2) + 1..Len(s) : c[p] = s[q]
      BY <1>7 DEF FromRight
    <2>2. q \in 1..Len(s)
      BY <1>2, <2>1
    <2> QED
      BY <2>1, <2>2
  <1> QED
    BY <1>4, <1>5, <1>6, <1>7

(* Every placeholder of the span that is being filled in is one of Places. *)
LEMMA PlaceHere ==
    ASSUME MdTypes, stage >= 6, ~Done, Piece(FALSE, text, 1, Len(input), "plain", "plain"),
           NEW p \in 1..Len(text), p >= scan, Opening(text[p]), Of(text, p, Filling)
    PROVE  p \in Places
  <1>1. /\ text \in Seq(Elem) /\ Len(text) \in Nat /\ Len(input) \in Nat /\ scan \in Nat
    BY InputNat DEF MdTypes
  <1>2. 1 \in Int /\ Len(input) \in Int
    BY <1>1
  <1>3. WholeId(text, p)
    BY <1>2, OpeningWhole
  <1>4. p \in 1..Len(text) /\ p + 1 \in 1..Len(text) /\ p + 2 \in 1..Len(text)
    BY <1>3 DEF WholeId
  <1>5. text[p] \in Elem /\ text[p + 1] \in Elem /\ text[p + 2] \in Elem
    BY <1>1, <1>4, ElemAt
  <1>6. /\ text[p].char = SOH /\ text[p + 1].char = Numerals[Filling] /\ text[p + 2].char = SOH
        /\ text[p + 1].char \in Digits
    BY <1>3 DEF WholeId, Opening, Number, Closing, Of, Names
  <1>7. ~text[p].escaped /\ ~text[p + 1].escaped /\ ~text[p + 2].escaped
    BY <1>5, <1>6, IdBare
  <1>8. p \in Nat /\ p + 2 <= Len(text)
    BY <1>1, <1>4
  <1>9. At(text, p, <<SOH, Numerals[Filling], SOH>>)
    BY <1>1, <1>6, <1>7, <1>8, AtThree
  <1>10. p \in scan..Len(text)
    BY <1>1
  <1> QED
    BY <1>9, <1>10 DEF Places, Id

(* A placeholder that is moved, and not to be filled in any more. *)
LEMMA Carried ==
    ASSUME NEW c, NEW s, NEW p, NEW q, NEW from, NEW to, NEW f \in Nat, Len(spans) \in Nat,
           c[p] = s[q], c[p + 1] = s[q + 1], Waiting(s, q, from, f) \/ Buried(s, q, f),
           p < to => q < from \/ ~Of(s, q, f)
    PROVE  Waiting(c, p, to, f) \/ Buried(c, p, f)
  <1>1. \A k : Of(s, q, k) => Of(c, p, k)
    BY DEF Of, Names
  <1>2. CASE Buried(s, q, f)
    BY <1>2 DEF Buried
  <1>3. CASE Waiting(s, q, from, f)
    <2>1. PICK k \in f..Len(spans) : Of(s, q, k) /\ (q < from => k > f)
      BY <1>3 DEF Waiting
    <2>2. p < to => k > f
      BY <2>1
    <2>3. c[p].in = "plain"
      BY <1>3 DEF Waiting
    <2> QED
      BY <1>1, <2>1, <2>2, <2>3 DEF Waiting
  <1> QED
    BY <1>2, <1>3

LEMMA FilledOpenings ==
    ASSUME MdTypes, Values, stage >= 6, ~Done, Ready(text, scan, Filling, meet),
           NEW i \in Earliest(Places), NEW v, v = spans[Filling].value, NEW kind, NEW c,
           Filled(c, text, i, Filling, v, kind), NEW p \in 1..Len(c) - 1, Opening(c[p])
    PROVE  Waiting(c, p, i + Len(v), Filling) \/ Buried(c, p, Filling)
  <1>1. Fits(c, text, i, v)
    BY FilledAt
  <1>2. /\ text \in Seq(Elem) /\ Len(text) \in Nat /\ i \in 1..Len(text) /\ i + 2 \in 1..Len(text)
        /\ i <= i + 2 /\ i \in Nat /\ Spliced(c, text, v, i, i + 2) /\ Len(c) \in Nat
    BY <1>1 DEF Fits
  <1>3. Match(text, i, v) /\ Value(Filling, v, kind)
        /\ Piece(FALSE, text, 1, Len(input), "plain", "plain") /\ 1 \in Int /\ Len(input) \in Int
    <2>1. Len(input) \in Nat
      BY DEF Filled
    <2>2. 1 \in Int /\ Len(input) \in Int
      BY <2>1
    <2> QED
      BY <2>2 DEF Filled
  <1>4. /\ v \in Seq(Elem) /\ v # <<>> /\ Len(v) \in Nat /\ Len(v) > 0
        /\ Bare(v[1].char) /\ Bare(v[Len(v)].char)
    BY <1>3, ValueAt
  <1>5. \/ PairLeft(c, text, i, p) \/ PairEnter(c, text, v, i, p) \/ PairValue(c, v, i, p)
        \/ PairLeave(c, text, v, i, i + 2, p) \/ PairRight(c, text, v, i, i + 2, p)
    BY <1>2, <1>4, SplicePair
  <1>6. Filling \in Nat /\ Filling >= 1 /\ Filling <= Len(spans) /\ Len(spans) \in Nat /\ scan \in Nat
    <2>1. stage - 5 <= Len(spans) /\ Len(spans) \in Nat /\ stage \in Nat /\ scan \in Nat
      BY InputNat DEF Done, Filling, MdTypes
    <2> QED
      BY <2>1 DEF Filling
  <1>7. \A q \in 1..Len(text) - 1 : Opening(text[q]) =>
              Waiting(text, q, scan, Filling) \/ Buried(text, q, Filling)
    BY DEF Ready
  <1>8. CASE PairLeft(c, text, i, p)
    <2>1. /\ p \in 1..Len(text) /\ p \in 1..Len(text) - 1 /\ p < i
          /\ c[p] = text[p] /\ c[p + 1] = text[p + 1]
      BY <1>2, <1>8 DEF PairLeft
    <2>2. p < scan \/ ~Of(text, p, Filling)
      <3> SUFFICES ASSUME ~(p < scan), Of(text, p, Filling) PROVE FALSE
        OBVIOUS
      <3>1. p >= scan
        BY <1>6, <2>1
      <3>2. p \in Places
        BY <1>3, <2>1, <3>1, PlaceHere
      <3>3. i <= p
        BY <3>2 DEF Earliest
      <3> QED
        BY <1>2, <2>1, <3>3
    <2>3. Waiting(text, p, scan, Filling) \/ Buried(text, p, Filling)
      BY <1>7, <2>1
    <2> QED
      BY <1>6, <2>1, <2>2, <2>3, Carried
  <1>9. CASE PairEnter(c, text, v, i, p)
    <2>1. p \in 1..Len(text) /\ c[p] = text[p] /\ p + 1 = i
      BY <1>2, <1>9 DEF PairEnter
    <2>2. WholeId(text, p)
      BY <1>3, <2>1, OpeningWhole
    <2>3. Number(text[i])
      BY <2>1, <2>2 DEF WholeId
    <2> QED
      BY <1>3, <2>3, IdKinds DEF Match, WholeId
  <1>10. CASE PairValue(c, v, i, p)
    <2>1. PICK q \in 1..Len(v) - 1 : c[p] = v[q] /\ c[p + 1] = v[q + 1]
      BY <1>10 DEF PairValue
    <2>2. q # 1
      BY <1>4, <2>1 DEF Opening, Bare
    <2>3. q \in 2..Len(v) /\ q \in 1..Len(v)
      BY <1>4, <2>2
    <2>4. v[q].in # "plain"
      BY <1>3, <2>3 DEF Value, Ends
    <2>5. PICK m \in 1..Filling - 1 : v[q + 1].char = Numerals[m]
      BY <1>3, <2>1 DEF Value, Older
    <2>6. Nested
      <3>1. v[q].char = SOH
        BY <2>1 DEF Opening
      <3>2. SOH \in Within(v, 1, Len(v))
        BY <2>3, <3>1 DEF Within
      <3>3. Filling \in DOMAIN spans
        <4>1. Filling \in 1..Len(spans)
          BY <1>6
        <4> QED
          BY <4>1 DEF MdTypes
      <3> QED
        BY <3>2, <3>3 DEF Nested
    <2> QED
      BY <2>1, <2>4, <2>5, <2>6 DEF Buried
  <1>11. CASE PairLeave(c, text, v, i, i + 2, p)
    BY <1>4, <1>11 DEF PairLeave, Opening, Bare
  <1>12. CASE PairRight(c, text, v, i, i + 2, p)
    <2>1. PICK q \in (i + 2) + 1..Len(text) - 1 :
                 p = q - (i + 2) + (i - 1 + Len(v)) /\ c[p] = text[q] /\ c[p + 1] = text[q + 1]
      BY <1>12 DEF PairRight
    <2>2. q \in 1..Len(text) - 1
      BY <1>2, <2>1
    <2>3. ~(p < i + Len(v))
      BY <1>2, <1>4, <2>1
    <2>4. Waiting(text, q, scan, Filling) \/ Buried(text, q, Filling)
      BY <1>7, <2>1, <2>2
    <2> QED
      BY <1>6, <2>1, <2>3, <2>4, Carried
  <1> QED
    BY <1>5, <1>8, <1>9, <1>10, <1>11, <1>12

LEMMA RestoreKeeps ==
    ASSUME MdInv, Restore
    PROVE  MdInv'
  <1> DEFINE v == spans[Filling].value
             kind == spans[Filling].kind
  <1>1. MdTypes /\ Values /\ ReadyInv /\ ReadInv
    BY DEF MdInv
  <1>2. PICK i \in Earliest(Places) : text' = Splice(text, i, i + 2, v) /\ scan' = i + Len(v)
    BY DEF Restore
  <1>3. /\ stage >= 6 /\ ~Done /\ UNCHANGED <<input, spans, stage, split, meet, open>>
    BY DEF Restore
  <1>4. /\ text \in Seq(Elem) /\ Len(text) \in Nat /\ Len(spans) \in Nat /\ Len(input) \in Nat
        /\ scan \in Nat /\ scan # 0 /\ stage \in Nat
    BY <1>1, InputNat DEF MdTypes
  <1>5. i \in Places
    BY DEF Earliest
  <1>6. Filling \in 1..Len(spans)
    <2>1. stage - 5 <= Len(spans)
      BY <1>3, <1>4 DEF Done, Filling
    <2> QED
      BY <1>3, <1>4, <2>1 DEF Filling
  <1>7. Value(Filling, v, kind)
    BY <1>1, <1>6 DEF Values
  <1> HIDE DEF v, kind
  <1>8. v \in Seq(Elem) /\ Len(v) \in Nat /\ Len(v) > 0
    BY <1>7, ValueAt
  <1>9. i \in 1..Len(text) /\ i + 2 \in 1..Len(text) /\ i <= i + 2 /\ i \in Nat
    <2>1. i \in scan..Len(text) /\ At(text, i, <<SOH, Numerals[Filling], SOH>>)
      BY <1>5 DEF Places, Id
    <2>2. i \in Nat /\ i \in 1..Len(text)
      BY <1>4, <2>1
    <2>3. i + 2 <= Len(text)
      BY <1>4, <2>1, <2>2, AtThree
    <2> QED
      BY <1>4, <2>2, <2>3
  <1>10. text' \in Seq(Elem)
    BY <1>2, <1>4, <1>8, <1>9, SpliceAt DEF Spliced
  <1>11. MdTypes'
    <2>1. scan' \in Nat \ {0}
      BY <1>2, <1>8, <1>9
    <2> QED
      BY <1>1, <1>3, <1>10, <2>1 DEF MdTypes
  <1>12. Values'
    BY <1>1, <1>3, Unchanged
  <1>13. RawInv'
    <2>1. ~(stage' <= 5)
      BY <1>3, <1>4
    <2> QED
      BY <2>1 DEF RawInv
  <1>14. ReadInv'
    <2>1. ~Done'
      BY <1>3 DEF Done, Filling
    <2> QED
      BY <1>1, <1>3, <2>1 DEF ReadInv
  <1>15. ReadyInv'
    <2>1. SUFFICES ASSUME ~split PROVE Ready(text', scan', Filling, meet)
      BY <1>3, ReadyNext DEF Filling
    <2>2. Ready(text, scan, Filling, meet)
      BY <1>1, <1>3, <2>1 DEF ReadyInv, Ready
    <2>3. Match(text, i, v)
      BY <1>1, <1>3, <1>5, <2>2, Matching DEF v
    <2>4. Piece(FALSE, text, 1, Len(input), "plain", "plain")
      BY <2>2 DEF Ready
    <2>5. Filled(text', text, i, Filling, v, kind)
      BY <1>2, <1>4, <1>7, <2>3, <2>4 DEF Filled
    <2>6. Piece(FALSE, text', 1, Len(input), "plain", "plain") /\ Len(text') \in Nat
      <3>1. Fits(text', text, i, v)
        BY <2>5, FilledAt
      <3> QED
        BY <3>1 DEF Fits
    <2>7. \A p \in 1..Len(text') : Sound(text'[p])
      <3>1. \A p \in 1..Len(text) : Sound(text[p])
        BY <2>2 DEF Ready
      <3> QED
        BY <2>5, <3>1, FilledSound
    <2>8. NoFake(text') /\ \A k \in 1..Len(spans) : NoFake(spans[k].value)
      <3>1. NoFake(text) /\ \A k \in 1..Len(spans) : NoFake(spans[k].value)
        BY <2>2 DEF Ready
      <3>2. NoFake(v)
        BY <1>6, <3>1 DEF v
      <3> QED
        BY <1>1, <2>5, <3>1, <3>2, FilledFake, UsedDigits
    <2>9. \A p \in 1..Len(text') - 1 : Opening(text'[p]) =>
              Waiting(text', p, scan', Filling) \/ Buried(text', p, Filling)
      <3> SUFFICES ASSUME NEW p \in 1..Len(text') - 1, Opening(text'[p])
                   PROVE  Waiting(text', p, scan', Filling) \/ Buried(text', p, Filling)
        OBVIOUS
      <3>1. v = spans[Filling].value
        BY DEF v
      <3>2. Waiting(text', p, i + Len(v), Filling) \/ Buried(text', p, Filling)
        BY <1>1, <1>3, <2>2, <2>5, <3>1, FilledOpenings
      <3> QED
        BY <1>2, <3>2
    <2>10. ASSUME ~meet PROVE NoDouble(text') /\ Apart(text', ItalicNumerals)
      <3>1. NoDouble(text) /\ Apart(text, ItalicNumerals)
        BY <2>2, <2>10 DEF Ready
      <3>2. kind = "italic" => ItalicId(text, i, ItalicNumerals)
        BY <1>1, <1>6, <2>5, FilledItalic DEF v, kind
      <3>3. NoDouble(text')
        BY <2>5, <3>1, <3>2, FilledDouble
      <3>4. Apart(text', ItalicNumerals)
        BY <2>5, <3>1, <3>2, FilledApart
      <3> QED
        BY <3>3, <3>4
    <2> QED
      BY <2>6, <2>7, <2>8, <2>9, <2>10 DEF Ready
  <1> QED
    BY <1>11, <1>12, <1>13, <1>14, <1>15 DEF MdInv

LEMMA NextPlaceholderKeeps ==
    ASSUME MdInv, NextPlaceholder
    PROVE  MdInv'
  <1>1. MdTypes /\ Values /\ ReadyInv /\ ReadInv
    BY DEF MdInv
  <1>2. /\ stage >= 6 /\ ~Done /\ Places = {} /\ stage' = stage + 1 /\ scan' = 1
        /\ UNCHANGED <<input, text, spans, split, meet, open>>
    BY DEF NextPlaceholder
  <1>3. /\ text \in Seq(Elem) /\ Len(text) \in Nat /\ Len(spans) \in Nat /\ Len(input) \in Nat
        /\ scan \in Nat /\ stage \in Nat
    BY <1>1, InputNat DEF MdTypes
  <1>4. stage - 5 <= Len(spans)
    BY <1>2, <1>3 DEF Done, Filling
  <1>5. MdTypes'
    <2>1. stage' \in Nat /\ stage' >= 1 /\ stage' <= 6 + Len(spans') /\ scan' \in Nat \ {0}
      BY <1>2, <1>3, <1>4
    <2> QED
      BY <1>1, <1>2, <2>1 DEF MdTypes
  <1>6. Values'
    BY <1>1, <1>2, Unchanged
  <1>7. RawInv'
    <2>1. ~(stage' <= 5)
      BY <1>2, <1>3
    <2> QED
      BY <2>1 DEF RawInv
  <1>8. ASSUME ~split PROVE Ready(text, scan, Filling, meet)
    BY <1>1, <1>2, <1>8 DEF ReadyInv, Ready
  <1>9. ReadyInv'
    <2> DEFINE f == stage' - 5
    <2>1. f = Filling + 1 /\ Filling \in Nat /\ f - 1 = Filling
      BY <1>2, <1>3 DEF Filling
    <2> HIDE DEF f
    <2>2. ASSUME ~split PROVE Ready(text, 1, f, meet)
      <3>1. Ready(text, scan, Filling, meet)
        BY <1>8, <2>2
      <3>2. Piece(FALSE, text, 1, Len(input), "plain", "plain")
        BY <3>1 DEF Ready
      <3>3. ASSUME NEW p \in 1..Len(text) - 1, Opening(text[p])
            PROVE  Waiting(text, p, 1, f) \/ Buried(text, p, f)
        <4>1. Waiting(text, p, scan, Filling) \/ Buried(text, p, Filling)
          BY <3>1, <3>3 DEF Ready
        <4>2. CASE Waiting(text, p, scan, Filling)
          <5>1. PICK k \in Filling..Len(spans) : Of(text, p, k) /\ (p < scan => k > Filling)
            BY <4>2 DEF Waiting
          <5>2. k # Filling
            <6> SUFFICES ASSUME k = Filling PROVE FALSE
              OBVIOUS
            <6>1. p \in 1..Len(text) /\ p >= scan
              BY <1>3, <2>1, <5>1
            <6>2. p \in Places
              BY <1>1, <1>2, <3>2, <3>3, <5>1, <6>1, PlaceHere
            <6> QED
              BY <1>2, <6>2
          <5>3. k \in f..Len(spans) /\ ~(p < 1)
            BY <1>3, <2>1, <5>1, <5>2
          <5>4. text[p].in = "plain"
            BY <4>2 DEF Waiting
          <5> QED
            BY <5>1, <5>3, <5>4 DEF Waiting
        <4>3. CASE Buried(text, p, Filling)
          <5>1. PICK k \in 1..Filling - 1 : text[p + 1].char = Numerals[k]
            BY <4>3 DEF Buried
          <5>2. k \in 1..f - 1
            BY <2>1, <5>1
          <5> QED
            BY <4>3, <5>1, <5>2 DEF Buried
        <4> QED
          BY <4>1, <4>2, <4>3
      <3> QED
        BY <3>1, <3>3 DEF Ready
    <2> QED
      BY <1>2, <2>2, ReadyNext DEF f
  <1>10. ReadInv'
    <2>1. open' = <<>>
      BY <1>1, <1>2 DEF ReadInv
    <2>2. ASSUME ~split PROVE ReadTo(text, 1, <<>>)
      <3>1. Piece(FALSE, text, 1, Len(input), "plain", "plain")
        BY <1>8, <2>2 DEF Ready
      <3>2. 1 \in Int /\ Len(input) \in Int
        BY <1>3
      <3> QED
        BY <3>1, <3>2, ReadStart
    <2> QED
      BY <1>2, <2>1, <2>2 DEF ReadInv
  <1> QED
    BY <1>5, <1>6, <1>7, <1>9, <1>10 DEF MdInv

-------------------------------------------------------------------------------
(* Telegram reads a chain as it was meant.                                  *)

Takes(n, stack) == {[takes |-> n, open |-> stack]}
LEMMA StackAt ==
    ASSUME NEW in \in Entities
    PROVE  Entity(Stack(in)) = in /\ in # "\\"
  BY DEF Entities, Stack, Entity

LEMMA Stacking ==
    /\ \A e : Tail(<<e>>) = <<>>
    /\ \A e : <<e>> \o <<>> = <<e>>
    /\ Stack("plain") = <<>> /\ \A in \in Entities : in # "plain" => Stack(in) = <<in>>
  <1>1. \A e : Tail(<<e>>) = <<>>
    OBVIOUS
  <1>2. \A e : <<e>> \o <<>> = <<e>>
    <2> TAKE e
    <2>1. <<e>> \in Seq({e})
      OBVIOUS
    <2> QED
      BY <2>1, ConcatEmptySeq
  <1> QED
   BY <1>1, <1>2 DEF Stack

(* What an escaped character, a letter and a mark are read as. *)
LEMMA Hides ==
    ASSUME NEW s, NEW i, NEW stack, Entity(stack) # "\\", s[i].escaped = TRUE
    PROVE  Reading(s, i, stack) = Takes(1, stack)
  BY DEF Reading, Takes

LEMMA Letters ==
    ASSUME NEW s, NEW i, NEW in \in Entities, s[i].escaped = FALSE, s[i].char \notin Danger(in)
    PROVE  Reading(s, i, Stack(in)) = Takes(1, Stack(in))
  <1>1. s[i].char # "\\"
    BY DEF Danger
  <1>2. Entity(Stack(in)) = in /\ in # "\\"
    BY StackAt
  <1> DEFINE stack == Stack(in)
  <1> HIDE DEF stack
  <1>3. CASE in = "url"
    <2>1. s[i].char # ")"
      BY <1>3 DEF Danger
    <2> QED
      BY <1>1, <1>2, <1>3, <2>1 DEF Reading, Takes
  <1>4. CASE in \in {"pre", "code"}
    <2>1. s[i].char # Tick
      BY <1>4 DEF Danger
    <2> QED
      BY <1>1, <1>2, <1>4, <2>1 DEF Reading, Takes
  <1>5. CASE in \in {"plain", "link", "italic"}
    <2>1. s[i].char \notin Special /\ s[i].char \notin {Tick, "_", "[", "]"}
      BY <1>5 DEF Danger, Special
    <2> QED
      BY <1>1, <1>2, <1>5, <2>1 DEF Reading, Takes
  <1> QED
    BY <1>3, <1>4, <1>5 DEF Entities

LEMMA TurnsRead ==
    ASSUME NEW s, NEW i, s[i].escaped = FALSE
    PROVE  /\ s[i].char = Tick /\ At(s, i + 1, <<Tick, Tick>>) => Reading(s, i, <<>>) = Takes(3, <<"pre">>)
           /\ s[i].char = Tick /\ ~At(s, i + 1, <<Tick, Tick>>) => Reading(s, i, <<>>) = Takes(1, <<"code">>)
           /\ s[i].char = Tick => Reading(s, i, <<"code">>) = Takes(1, <<>>)
           /\ s[i].char = Tick /\ At(s, i + 1, <<Tick, Tick>>) => Reading(s, i, <<"pre">>) = Takes(3, <<>>)
           /\ s[i].char = "_" /\ ~At(s, i + 1, <<"_">>) =>
                Reading(s, i, <<>>) = Takes(1, <<"italic">>) /\ Reading(s, i, <<"italic">>) = Takes(1, <<>>)
           /\ s[i].char = "[" => Reading(s, i, <<>>) = Takes(1, <<"link">>)
           /\ s[i].char = "]" /\ At(s, i + 1, <<"(">>) => Reading(s, i, <<"link">>) = Takes(2, <<"url">>)
           /\ s[i].char = ")" => Reading(s, i, <<"url">>) = Takes(1, <<>>)
  <1>1. /\ Entity(<<>>) = "plain" /\ Entity(<<"code">>) = "code" /\ Entity(<<"pre">>) = "pre"
        /\ Entity(<<"italic">>) = "italic" /\ Entity(<<"link">>) = "link" /\ Entity(<<"url">>) = "url"
    BY DEF Entity
  <1>2. /\ \A e : Tail(<<e>>) = <<>>
        /\ \A e : <<e>> \o <<>> = <<e>>
    BY Stacking
  <1>3. Tick \notin {"\\", "_", "[", "]", ")"}
    BY DEF Tick
  <1>4. s[i].char = Tick /\ At(s, i + 1, <<Tick, Tick>>) => Reading(s, i, <<>>) = Takes(3, <<"pre">>)
    BY <1>1, <1>2, <1>3 DEF Reading, Takes
  <1>5. s[i].char = Tick /\ ~At(s, i + 1, <<Tick, Tick>>) => Reading(s, i, <<>>) = Takes(1, <<"code">>)
    BY <1>1, <1>2, <1>3 DEF Reading, Takes
  <1>6. s[i].char = Tick => Reading(s, i, <<"code">>) = Takes(1, <<>>)
    BY <1>1, <1>2, <1>3 DEF Reading, Takes
  <1>7. s[i].char = Tick /\ At(s, i + 1, <<Tick, Tick>>) => Reading(s, i, <<"pre">>) = Takes(3, <<>>)
    BY <1>1, <1>2, <1>3 DEF Reading, Takes
  <1>8. s[i].char = "_" /\ ~At(s, i + 1, <<"_">>) => Reading(s, i, <<>>) = Takes(1, <<"italic">>)
    BY <1>1, <1>2, <1>3 DEF Reading, Takes
  <1>9. s[i].char = "_" /\ ~At(s, i + 1, <<"_">>) => Reading(s, i, <<"italic">>) = Takes(1, <<>>)
    BY <1>1, <1>2, <1>3 DEF Reading, Takes
  <1>10. s[i].char = "[" => Reading(s, i, <<>>) = Takes(1, <<"link">>)
    BY <1>1, <1>2, <1>3 DEF Reading, Takes
  <1>11. s[i].char = "]" /\ At(s, i + 1, <<"(">>) => Reading(s, i, <<"link">>) = Takes(2, <<"url">>)
    BY <1>1, <1>2, <1>3 DEF Reading, Takes
  <1>12. s[i].char = ")" => Reading(s, i, <<"url">>) = Takes(1, <<>>)
    BY <1>1, <1>2, <1>3 DEF Reading, Takes
  <1> QED
    BY <1>4, <1>5, <1>6, <1>7, <1>8, <1>9, <1>10, <1>11, <1>12

(* The entity that the character after s[p] is written in. *)
After(s, p) == IF p < Len(s) THEN s[p + 1].in ELSE "plain"

LEMMA Following ==
    ASSUME NEW s, NEW lo \in Int, NEW hi \in Int, Piece(FALSE, s, lo, hi, "plain", "plain"),
           NEW p \in 1..Len(s)
    PROVE  /\ Leads(s[p], After(s, p)) /\ s[p] \in Elem /\ Len(s) \in Nat
           /\ After(s, p) # "plain" => p + 1 \in 1..Len(s) /\ s[p + 1].in = After(s, p)
           /\ After(s, p) \in Entities => ReadTo(s, p + 1, Stack(After(s, p)))
  <1>1. /\ Len(s) \in Nat /\ \A q \in 1..Len(s) : s[q] \in Elem
        /\ \A q \in 1..Len(s) - 1 : Link(FALSE, s[q], s[q + 1])
        /\ Len(s) > 0 => Finishes(FALSE, s[Len(s)], hi, "plain")
    BY PieceAt
  <1>2. CASE p < Len(s)
    <2>1. p \in 1..Len(s) - 1 /\ p + 1 \in 1..Len(s)
      BY <1>1, <1>2
    <2>2. After(s, p) = s[p + 1].in
      BY <1>2 DEF After
    <2>3. Leads(s[p], After(s, p))
      BY <1>1, <2>1, <2>2 DEF Link
    <2> QED
      BY <1>1, <2>1, <2>2, <2>3 DEF ReadTo
  <1>3. CASE ~(p < Len(s))
    <2>1. p = Len(s) /\ Len(s) > 0 /\ p + 1 = Len(s) + 1
      BY <1>1, <1>3
    <2>2. After(s, p) = "plain" /\ Stack("plain") = <<>>
      BY <1>3 DEF After, Stack
    <2>3. Leads(s[p], After(s, p))
      BY <1>1, <2>1, <2>2 DEF Finishes
    <2> QED
      BY <1>1, <2>1, <2>2, <2>3 DEF ReadTo
  <1> QED
    BY <1>2, <1>3

LEMMA AtMark ==
    ASSUME NEW s, NEW i \in Nat, NEW c, Len(s) \in Nat, i <= Len(s), Plainly(s[i], c)
    PROVE  At(s, i, <<c>>)
  <1>1. Len(<<c>>) = 1 /\ DOMAIN <<c>> = 1..1 /\ <<c>>[1] = c
    OBVIOUS
  <1>2. i + 1 <= Len(s) + 1 /\ i + 1 - 1 = i
    OBVIOUS
  <1> QED
    BY <1>1, <1>2 DEF At, Plainly

LEMMA AtMarks ==
    ASSUME NEW s, NEW i \in Nat, NEW c, NEW d, Len(s) \in Nat
    PROVE  At(s, i, <<c, d>>) <=> i + 1 <= Len(s) /\ Plainly(s[i], c) /\ Plainly(s[i + 1], d)
  <1> DEFINE m == <<c, d>>
  <1>1. Len(m) = 2 /\ DOMAIN m = {1, 2} /\ m[1] = c /\ m[2] = d
    OBVIOUS
  <1> HIDE DEF m
  <1>2. (i + 2 <= Len(s) + 1 <=> i + 1 <= Len(s)) /\ i + 1 - 1 = i /\ i + 2 - 1 = i + 1
    OBVIOUS
  <1>3. At(s, i, m) <=> i + 1 <= Len(s) /\ Plainly(s[i], c) /\ Plainly(s[i + 1], d)
    BY <1>1, <1>2 DEF At, Plainly
  <1> QED
    BY <1>3 DEF m

(* What is open after a mark, by what is open before it. *)
LEMMA Turning ==
    ASSUME NEW e, NEW n, Leads(e, n), NEW in, e.in = in
    PROVE  /\ in \in Entities \/ (~e.escaped /\ <<in, e.char, n>> \in Turns)
           /\ in = "pre 2" => Plainly(e, Tick) /\ n = "pre 3"
           /\ in = "pre 3" => Plainly(e, Tick) /\ n = "pre"
           /\ in = "end 2" => Plainly(e, Tick) /\ n = "end 3"
           /\ in = "end 3" => Plainly(e, Tick) /\ n = "plain"
           /\ in = "link 2" => Plainly(e, "(") /\ n = "url"
  <1>1. in \in Entities \/ (~e.escaped /\ <<in, e.char, n>> \in Turns)
    BY DEF Leads
  <1>2. in \in {"pre 2", "pre 3", "end 2", "end 3", "link 2"} => in \notin Entities
    BY DEF Entities
  <1> QED
    BY <1>1, <1>2 DEF Turns, Plainly

(* The rest of a fence. *)
LEMMA FenceAt ==
    ASSUME NEW s, NEW lo \in Int, NEW hi \in Int, Piece(FALSE, s, lo, hi, "plain", "plain"),
           NEW p \in 1..Len(s)
    PROVE  /\ After(s, p) = "pre 2" => At(s, p + 1, <<Tick, Tick>>) /\ ReadTo(s, p + 3, <<"pre">>)
           /\ After(s, p) = "end 2" => At(s, p + 1, <<Tick, Tick>>) /\ ReadTo(s, p + 3, <<>>)
           /\ After(s, p) = "link 2" => At(s, p + 1, <<"(">>) /\ ReadTo(s, p + 2, <<"url">>)
  <1>1. Len(s) \in Nat /\ p \in Nat /\ p + 1 \in Nat
    BY Following
  <1>2. \A q \in 1..Len(s) : /\ Leads(s[q], After(s, q))
                             /\ After(s, q) # "plain" => q + 1 \in 1..Len(s) /\ s[q + 1].in = After(s, q)
                             /\ After(s, q) \in Entities => ReadTo(s, q + 1, Stack(After(s, q)))
    BY Following
  <1> DEFINE q == p + 1
             r == p + 2
  <1>3. q + 1 = r /\ r + 1 = p + 3 /\ p + 1 = q /\ r = p + 2 /\ q \in Nat
    BY <1>1
  <1> HIDE DEF q, r
  <1>7. \A x \in 1..Len(s) : x <= Len(s)
    BY <1>1
  <1>4. CASE After(s, p) = "pre 2"
    <2>1. q \in 1..Len(s) /\ s[q].in = "pre 2"
      BY <1>2, <1>3, <1>4
    <2>2. Leads(s[q], After(s, q))
      BY <1>2, <2>1
    <2>3. Plainly(s[q], Tick) /\ After(s, q) = "pre 3"
      BY <2>1, <2>2, Turning
    <2>4. r \in 1..Len(s) /\ s[r].in = "pre 3"
      BY <1>2, <1>3, <2>1, <2>3
    <2>5. Leads(s[r], After(s, r))
      BY <1>2, <2>4
    <2>6. Plainly(s[r], Tick) /\ After(s, r) = "pre"
      BY <2>4, <2>5, Turning
    <2>7. ReadTo(s, p + 3, <<"pre">>)
      <3>1. "pre" \in Entities /\ Stack("pre") = <<"pre">>
        BY DEF Entities, Stack
      <3> QED
        BY <1>2, <1>3, <2>4, <2>6, <3>1
    <2>8. q + 1 <= Len(s)
      BY <1>3, <1>7, <2>4
    <2> QED
      BY <1>1, <1>3, <1>4, <2>3, <2>6, <2>7, <2>8, AtMarks
  <1>5. CASE After(s, p) = "end 2"
    <2>1. q \in 1..Len(s) /\ s[q].in = "end 2"
      BY <1>2, <1>3, <1>5
    <2>2. Leads(s[q], After(s, q))
      BY <1>2, <2>1
    <2>3. Plainly(s[q], Tick) /\ After(s, q) = "end 3"
      BY <2>1, <2>2, Turning
    <2>4. r \in 1..Len(s) /\ s[r].in = "end 3"
      BY <1>2, <1>3, <2>1, <2>3
    <2>5. Leads(s[r], After(s, r))
      BY <1>2, <2>4
    <2>6. Plainly(s[r], Tick) /\ After(s, r) = "plain"
      BY <2>4, <2>5, Turning
    <2>7. ReadTo(s, p + 3, <<>>)
      <3>1. "plain" \in Entities /\ Stack("plain") = <<>>
        BY DEF Entities, Stack
      <3> QED
        BY <1>2, <1>3, <2>4, <2>6, <3>1
    <2>8. q + 1 <= Len(s)
      BY <1>3, <1>7, <2>4
    <2> QED
      BY <1>1, <1>3, <1>5, <2>3, <2>6, <2>7, <2>8, AtMarks
  <1>6. CASE After(s, p) = "link 2"
    <2>1. q \in 1..Len(s) /\ s[q].in = "link 2"
      BY <1>2, <1>3, <1>6
    <2>2. Leads(s[q], After(s, q))
      BY <1>2, <2>1
    <2>3. Plainly(s[q], "(") /\ After(s, q) = "url"
      BY <2>1, <2>2, Turning
    <2>4. ReadTo(s, p + 2, <<"url">>)
      <3>1. "url" \in Entities /\ Stack("url") = <<"url">>
        BY DEF Entities, Stack
      <3> QED
        BY <1>2, <1>3, <2>1, <2>3, <3>1
    <2>5. q <= Len(s)
      BY <1>7, <2>1
    <2> QED
      BY <1>1, <1>3, <1>6, <2>3, <2>4, <2>5, AtMark
  <1> QED
    BY <1>4, <1>5, <1>6

Taken(s, i, stack) ==
    /\ Reading(s, i, stack) # {}
    /\ \A r \in Reading(s, i, stack) : r.takes \in {1, 2, 3} /\ ReadTo(s, i + r.takes, r.open)

LEMMA TakenAs ==
    ASSUME NEW s, NEW i, NEW stack, NEW n \in {1, 2, 3}, NEW st,
           Reading(s, i, stack) = Takes(n, st), ReadTo(s, i + n, st)
    PROVE  Taken(s, i, stack)
  BY DEF Taken, Takes

TurnIs(in, c, n) ==
    \/ in = "plain" /\ c = Tick /\ n = "code"
    \/ in = "plain" /\ c = Tick /\ n = "pre 2"
    \/ in = "plain" /\ c = "[" /\ n = "link"
    \/ in = "plain" /\ c = "_" /\ n = "italic"
    \/ in = "code" /\ c = Tick /\ n = "plain"
    \/ in = "pre" /\ c = Tick /\ n = "end 2"
    \/ in = "link" /\ c = "]" /\ n = "link 2"
    \/ in = "url" /\ c = ")" /\ n = "plain"
    \/ in = "italic" /\ c = "_" /\ n = "plain"

LEMMA TurnsFrom ==
    ASSUME NEW in \in Entities, NEW c, NEW n, <<in, c, n>> \in Turns
    PROVE  TurnIs(in, c, n)
  <1>1. in \notin {"pre 2", "pre 3", "end 2", "end 3", "link 2"}
    BY DEF Entities
  <1> QED
    BY <1>1 DEF Turns, TurnIs

LEMMA ReadingOK ==
    ASSUME NEW s, NEW lo \in Int, NEW hi \in Int, Piece(FALSE, s, lo, hi, "plain", "plain"),
           NoDouble(s), NEW p \in 1..Len(s), NEW stack, ReadTo(s, p, stack)
    PROVE  /\ Taken(s, p, stack) /\ Entity(stack) = s[p].in
  <1> DEFINE e == s[p]
             in == s[p].in
             n == After(s, p)
  <1>1. Leads(e, n) /\ e \in Elem /\ Len(s) \in Nat /\ p \in Nat /\ p + 1 \in Nat
        /\ (n # "plain" => p + 1 \in 1..Len(s) /\ s[p + 1].in = n)
        /\ (n \in Entities => ReadTo(s, p + 1, Stack(n)))
    <2>1. /\ Leads(s[p], After(s, p)) /\ s[p] \in Elem /\ Len(s) \in Nat
          /\ After(s, p) # "plain" => p + 1 \in 1..Len(s) /\ s[p + 1].in = After(s, p)
          /\ After(s, p) \in Entities => ReadTo(s, p + 1, Stack(After(s, p)))
      BY Following
    <2>2. p \in Nat /\ p + 1 \in Nat
      BY <2>1
    <2> QED
      BY <2>1, <2>2
  <1>2. p + 1 <= Len(s) => p \in 1..Len(s) - 1
    BY <1>1
  <1>3. in \in Entities /\ stack = Stack(in)
    <2>1. p # Len(s) + 1
      BY <1>1
    <2> QED
      BY <2>1 DEF ReadTo
  <1>4. Entity(stack) = in /\ in # "\\"
    BY <1>3, StackAt
  <1>5. e.escaped \in BOOLEAN
    BY <1>1 DEF Elem
  <1>6. CASE e.escaped
    <2>1. n = in
      BY <1>1, <1>6 DEF Leads
    <2>2. Reading(s, p, stack) = Takes(1, stack)
      BY <1>4, <1>5, <1>6, Hides
    <2>3. ReadTo(s, p + 1, stack)
      BY <1>1, <1>3, <2>1
    <2> QED
      BY <1>4, <2>2, <2>3, TakenAs
  <1>7. CASE n = in /\ ~e.escaped /\ e.char \notin Danger(in)
    <2>1. e.escaped = FALSE
      BY <1>5, <1>7
    <2>2. Reading(s, p, stack) = Takes(1, stack)
      BY <1>3, <1>7, <2>1, Letters
    <2>3. ReadTo(s, p + 1, stack)
      BY <1>1, <1>3, <1>7
    <2> QED
      BY <1>4, <2>2, <2>3, TakenAs
  <1>8. ASSUME ~e.escaped, TurnIs(in, e.char, n) PROVE Taken(s, p, stack)
    <2>1. s[p].escaped = FALSE
      BY <1>5, <1>8
    <2> DEFINE c == s[p].char
    <2>2. /\ Stack("plain") = <<>> /\ \A x \in Entities : x # "plain" => Stack(x) = <<x>>
          /\ {"plain", "code", "pre", "link", "url", "italic"} \subseteq Entities
      BY Stacking DEF Entities
    <2>3. n = "code" /\ in = "plain" /\ c = Tick => ~At(s, p + 1, <<Tick, Tick>>)
      <3> SUFFICES ASSUME n = "code", in = "plain", c = Tick, At(s, p + 1, <<Tick, Tick>>) PROVE FALSE
        OBVIOUS
      <3>1. Plainly(s[p + 1], Tick) /\ s[p + 1].in = "code" /\ p \in 1..Len(s) - 1
        BY <1>1, AtMarks
      <3>2. Double(s[p], s[p + 1])
        BY <2>1, <3>1 DEF Double, Plainly
      <3> QED
        BY <3>1, <3>2 DEF NoDouble
    <2>4. c = "_" /\ in \in {"plain", "italic"} => ~At(s, p + 1, <<"_">>)
      <3> SUFFICES ASSUME c = "_", in \in {"plain", "italic"}, At(s, p + 1, <<"_">>) PROVE FALSE
        OBVIOUS
      <3>1. p + 1 <= Len(s) /\ Plainly(s[p + 1], "_")
        BY <1>1, AtOne DEF Plainly
      <3>2. p \in 1..Len(s) - 1
        BY <1>2, <3>1
      <3>3. Double(s[p], s[p + 1])
        BY <2>1, <3>1 DEF Double, Plainly
      <3> QED
        BY <3>2, <3>3 DEF NoDouble
    <2>5. ReadTo(s, p + 1, <<>>) \/ n # "plain"
      BY <1>1, <2>2
    <2>6. \A x \in {"code", "link", "italic"} : n = x => ReadTo(s, p + 1, <<x>>)
      BY <1>1, <2>2
    <2> HIDE DEF n, in, c
    <2>7. CASE in = "plain" /\ c = Tick /\ n = "code"
      <3>1. Reading(s, p, stack) = Takes(1, <<"code">>)
        BY <1>3, <2>1, <2>2, <2>3, <2>7, TurnsRead DEF c
      <3> QED
        BY <2>6, <2>7, <3>1, TakenAs
    <2>8. CASE in = "plain" /\ c = Tick /\ n = "pre 2"
      <3>1. At(s, p + 1, <<Tick, Tick>>) /\ ReadTo(s, p + 3, <<"pre">>)
        BY <2>8, FenceAt DEF n
      <3>2. Reading(s, p, stack) = Takes(3, <<"pre">>)
        BY <1>3, <2>1, <2>2, <2>8, <3>1, TurnsRead DEF c
      <3> QED
        BY <3>1, <3>2, TakenAs
    <2>9. CASE in = "plain" /\ c = "[" /\ n = "link"
      <3>1. Reading(s, p, stack) = Takes(1, <<"link">>)
        BY <1>3, <2>1, <2>2, <2>9, TurnsRead DEF c
      <3> QED
        BY <2>6, <2>9, <3>1, TakenAs
    <2>10. CASE in = "plain" /\ c = "_" /\ n = "italic"
      <3>1. Reading(s, p, stack) = Takes(1, <<"italic">>)
        BY <1>3, <2>1, <2>2, <2>4, <2>10, TurnsRead DEF c
      <3> QED
        BY <2>6, <2>10, <3>1, TakenAs
    <2>11. CASE in = "code" /\ c = Tick /\ n = "plain"
      <3>1. Reading(s, p, stack) = Takes(1, <<>>)
        BY <1>3, <2>1, <2>2, <2>11, TurnsRead DEF c
      <3> QED
        BY <2>5, <2>11, <3>1, TakenAs
    <2>12. CASE in = "pre" /\ c = Tick /\ n = "end 2"
      <3>1. At(s, p + 1, <<Tick, Tick>>) /\ ReadTo(s, p + 3, <<>>)
        BY <2>12, FenceAt DEF n
      <3>2. Reading(s, p, stack) = Takes(3, <<>>)
        BY <1>3, <2>1, <2>2, <2>12, <3>1, TurnsRead DEF c
      <3> QED
        BY <3>1, <3>2, TakenAs
    <2>13. CASE in = "link" /\ c = "]" /\ n = "link 2"
      <3>1. At(s, p + 1, <<"(">>) /\ ReadTo(s, p + 2, <<"url">>)
        BY <2>13, FenceAt DEF n
      <3>2. Reading(s, p, stack) = Takes(2, <<"url">>)
        BY <1>3, <2>1, <2>2, <2>13, <3>1, TurnsRead DEF c
      <3> QED
        BY <3>1, <3>2, TakenAs
    <2>14. CASE in = "url" /\ c = ")" /\ n = "plain"
      <3>1. Reading(s, p, stack) = Takes(1, <<>>)
        BY <1>3, <2>1, <2>2, <2>14, TurnsRead DEF c
      <3> QED
        BY <2>5, <2>14, <3>1, TakenAs
    <2>15. CASE in = "italic" /\ c = "_" /\ n = "plain"
      <3>1. Reading(s, p, stack) = Takes(1, <<>>)
        BY <1>3, <2>1, <2>2, <2>4, <2>15, TurnsRead DEF c
      <3> QED
        BY <2>5, <2>15, <3>1, TakenAs
    <2> QED
      BY <1>8, <2>7, <2>8, <2>9, <2>10, <2>11, <2>12, <2>13, <2>14, <2>15 DEF TurnIs, c
  <1>9. e.escaped \/ (n = in /\ ~e.escaped /\ e.char \notin Danger(in))
        \/ (~e.escaped /\ TurnIs(in, e.char, n))
    <2>1. CASE n = in /\ (e.escaped \/ e.char \notin Danger(in))
      BY <2>1
    <2>2. CASE ~e.escaped /\ <<in, e.char, n>> \in Turns
      BY <1>3, <2>2, TurnsFrom
    <2> QED
      BY <1>1, <2>1, <2>2 DEF Leads
  <1> QED
    BY <1>4, <1>6, <1>7, <1>8, <1>9

LEMMA TakesSome ==
    ASSUME NEW s, NEW i, NEW stack, NEW r \in Reading(s, i, stack)
    PROVE  r.takes \in {1, 2, 3}
  <1> DEFINE hidden == Entity(stack) = "\\"
             rest == IF hidden THEN Tail(stack) ELSE stack
             in == Entity(rest)
             c == s[i].char
             R == Reading(s, i, stack)
  <1>1. \A n \in {1, 2, 3} : \A st : R = Takes(n, st) => r.takes = n
    BY DEF Takes
  <1>2. CASE hidden # s[i].escaped
    <2>1. R = Takes(1, rest)
      BY <1>2 DEF Reading, Takes
    <2> QED
      BY <1>1, <2>1
  <1>3. CASE ~(hidden # s[i].escaped) /\ c = "\\" /\ i < Len(s)
    <2>1. R = Takes(1, <<"\\">> \o rest)
      BY <1>3 DEF Reading, Takes
    <2> QED
      BY <1>1, <2>1
  <1>4. CASE ~(hidden # s[i].escaped) /\ ~(c = "\\" /\ i < Len(s)) /\ in \in {"url", "code", "pre"}
    BY <1>4 DEF Reading
  <1>5. CASE ~(hidden # s[i].escaped) /\ ~(c = "\\" /\ i < Len(s)) /\ in \notin {"url", "code", "pre"}
    <2>1. CASE c = Tick
      BY <1>5, <2>1 DEF Reading, Tick
    <2>2. CASE c = "_" /\ At(s, i + 1, <<"_">>) /\ in = "underline"
      <3>1. R = Takes(2, Tail(rest))
        BY <1>5, <2>2 DEF Reading, Takes, Tick
      <3> QED
        BY <1>1, <3>1
    <2>3. CASE c = "_" /\ At(s, i + 1, <<"_">>) /\ in # "underline"
      <3>1. R = Takes(2, <<"underline">> \o rest)
        BY <1>5, <2>3 DEF Reading, Takes, Tick
      <3> QED
        BY <1>1, <3>1
    <2>4. CASE c = "_" /\ ~At(s, i + 1, <<"_">>) /\ in = "italic"
      <3>1. R = Takes(1, Tail(rest))
        BY <1>5, <2>4 DEF Reading, Takes, Tick
      <3> QED
        BY <1>1, <3>1
    <2>5. CASE c = "_" /\ ~At(s, i + 1, <<"_">>) /\ in # "italic"
      <3>1. R = Takes(1, <<"italic">> \o rest)
        BY <1>5, <2>5 DEF Reading, Takes, Tick
      <3> QED
        BY <1>1, <3>1
    <2>6. CASE c = "["
      BY <1>5, <2>6 DEF Reading, Tick
    <2>7. CASE c = "]" /\ in = "link"
      BY <1>5, <2>7 DEF Reading, Tick
    <2>8. CASE c \notin {Tick, "_", "["} /\ ~(c = "]" /\ in = "link") /\ c \in Special
      <3>1. R = {}
        BY <1>5, <2>8 DEF Reading
      <3> QED
        BY <3>1
    <2>9. CASE c \notin {Tick, "_", "["} /\ ~(c = "]" /\ in = "link") /\ c \notin Special
      <3>1. R = Takes(1, rest)
        BY <1>5, <2>9 DEF Reading, Takes
      <3> QED
        BY <1>1, <3>1
    <2> QED
      BY <2>1, <2>2, <2>3, <2>4, <2>5, <2>6, <2>7, <2>8, <2>9
  <1> QED
    BY <1>2, <1>3, <1>4, <1>5

LEMMA ReadKeeps ==
    ASSUME MdInv, Read
    PROVE  MdInv'
  <1>1. MdTypes /\ Values /\ ReadyInv /\ ReadInv
    BY DEF MdInv
  <1>2. Done /\ scan <= Len(text) /\ UNCHANGED <<input, text, spans, stage, split, meet>>
    BY DEF Read
  <1>3. PICK r \in Reading(text, scan, open) : scan' = scan + r.takes /\ open' = r.open
    BY DEF Read
  <1>4. /\ text \in Seq(Elem) /\ Len(text) \in Nat /\ Len(spans) \in Nat /\ Len(input) \in Nat
        /\ scan \in Nat /\ scan # 0 /\ stage \in Nat
    BY <1>1, InputNat DEF MdTypes
  <1>5. stage >= 6 /\ Filling > Len(spans) /\ Done'
    BY <1>2 DEF Done, Filling
  <1>6. MdTypes'
    <2>1. r.takes \in {1, 2, 3}
      BY TakesSome
    <2>2. scan' \in Nat \ {0}
      BY <1>3, <1>4, <2>1
    <2> QED
      BY <1>1, <1>2, <2>2 DEF MdTypes
  <1>7. Values'
    BY <1>1, <1>2, Unchanged
  <1>8. RawInv'
    <2>1. ~(stage' <= 5)
      BY <1>2, <1>4, <1>5
    <2> QED
      BY <2>1 DEF RawInv
  <1>9. ASSUME ~split PROVE Ready(text, scan, Filling, meet)
    BY <1>1, <1>5, <1>9 DEF ReadyInv, Ready
  <1>10. ReadyInv'
    <2>1. ASSUME ~split PROVE Ready(text, scan', Filling, meet)
      <3>1. Ready(text, scan, Filling, meet)
        BY <1>9, <2>1
      <3>2. \A p : ~Waiting(text, p, scan, Filling)
        <4>1. \A k : k \notin Filling..Len(spans)
          <5>1. Filling \in Int
            BY <1>4 DEF Filling
          <5> QED
            BY <1>4, <1>5, <5>1
        <4> QED
          BY <4>1 DEF Waiting
      <3> QED
        BY <3>1, <3>2 DEF Ready
    <2> QED
      BY <1>2, <2>1, ReadyNext DEF Filling
  <1>11. ReadInv'
    <2>1. ASSUME ~split, ~meet PROVE ReadTo(text, scan', open')
      <3>1. Ready(text, scan, Filling, meet)
        BY <1>9, <2>1
      <3>2. Piece(FALSE, text, 1, Len(input), "plain", "plain") /\ NoDouble(text)
        BY <2>1, <3>1 DEF Ready
      <3>3. ReadTo(text, scan, open)
        BY <1>1, <1>2, <2>1 DEF ReadInv
      <3>4. scan \in 1..Len(text) /\ 1 \in Int /\ Len(input) \in Int
        BY <1>2, <1>4
      <3>5. Taken(text, scan, open)
        BY <3>2, <3>3, <3>4, ReadingOK
      <3> QED
        BY <1>3, <3>5 DEF Taken
    <2> QED
      BY <1>2, <1>5, <2>1 DEF ReadInv, ReadTo
  <1> QED
    BY <1>6, <1>7, <1>8, <1>10, <1>11 DEF MdInv

LEMMA EarlyKeeps ==
    ASSUME MdTypes', Values', RawInv', stage' \in Nat, stage' <= 5, open' = <<>>
    PROVE  MdInv'
  <1>1. ~(stage' >= 6)
    OBVIOUS
  <1>2. ReadyInv'
    BY <1>1 DEF ReadyInv
  <1>3. ReadInv'
    BY <1>1 DEF ReadInv, Done
  <1> QED
    BY <1>2, <1>3 DEF MdInv

LEMMA StutterKeeps ==
    ASSUME MdInv, UNCHANGED vars
    PROVE  MdInv'
  <1>1. MdTypes /\ Values /\ RawInv /\ ReadyInv /\ ReadInv
    BY DEF MdInv
  <1>2. UNCHANGED <<input, text, spans, stage, scan, split, meet, open>>
    BY DEF vars
  <1>3. MdTypes'
    BY <1>1, <1>2 DEF MdTypes
  <1>4. Values'
    BY <1>1, <1>2, Unchanged
  <1>5. RawInv'
    <2>1. \A e : (Raw(e)' <=> Raw(e)) /\ (Own(e)' <=> Own(e))
      BY <1>2, SameInput
    <2>2. StartsApart => StartsApart'
      BY <1>2, <2>1 DEF StartsApart
    <2> QED
      BY <1>1, <1>2, <2>1, <2>2 DEF RawInv, Of
  <1>6. ReadyInv'
    <2>1. stage >= 6 /\ ~split => Ready(text, scan, stage - 5, meet)
      BY <1>1 DEF ReadyInv, Ready, Filling
    <2> QED
      BY <1>2, <2>1, ReadyNext
  <1>7. ReadInv'
    BY <1>1, <1>2 DEF ReadInv, Done, Filling, ReadTo
  <1> QED
    BY <1>3, <1>4, <1>5, <1>6, <1>7 DEF MdInv

(* Through every stage of EscapeMarkdownV2Smart, and while Telegram reads   *)
(* the result, text and spans are chains as MdInv has them.                 *)
THEOREM ChainsHold == Spec => []MdInv
  <1>1. Init => MdInv
    BY InitHolds
  <1>2. MdInv /\ [Next]_vars => MdInv'
    <2> SUFFICES ASSUME MdInv, [Next]_vars PROVE MdInv'
      OBVIOUS
    <2>1. MdTypes /\ Values /\ RawInv
      BY DEF MdInv
    <2>2. CASE Replace
      <3>1. MdTypes' /\ Values' /\ RawInv' /\ stage' \in Nat /\ stage' <= 4 /\ open' = <<>>
        BY <2>1, <2>2, ReplaceKeeps
      <3>2. stage' <= 5
        BY <3>1
      <3> QED
        BY <3>1, <3>2, EarlyKeeps
    <2>3. CASE NextStage
      <3>1. MdTypes' /\ Values' /\ RawInv' /\ stage' \in Nat /\ stage' <= 5 /\ open' = <<>>
        BY <2>1, <2>3, NextStageKeeps
      <3> QED
        BY <3>1, EarlyKeeps
    <2>4. CASE Base
      BY <2>1, <2>4, BaseKeeps
    <2>5. CASE Restore
      BY <2>5, RestoreKeeps
    <2>6. CASE NextPlaceholder
      BY <2>6, NextPlaceholderKeeps
    <2>7. CASE Read
      BY <2>7, ReadKeeps
    <2>8. CASE UNCHANGED vars
      BY <2>8, StutterKeeps
    <2> QED
      BY <2>2, <2>3, <2>4, <2>5, <2>6, <2>7, <2>8 DEF Next
  <1> QED
    BY <1>1, <1>2, PTL DEF Spec

LEMMA MeantByInv ==
    ASSUME MdInv
    PROVE  ReadAsMeant
  <1>1. MdTypes /\ ReadyInv /\ ReadInv
    BY DEF MdInv
  <1> SUFFICES ASSUME Done, ~split, ~meet
               PROVE  IF scan > Len(text) THEN open = <<>>
                      ELSE Entity(open) = text[scan].in /\ Reading(text, scan, open) # {}
    BY DEF ReadAsMeant
  <1>2. Len(text) \in Nat /\ Len(input) \in Nat /\ scan \in Nat /\ scan # 0
    BY <1>1, InputNat DEF MdTypes
  <1>3. ReadTo(text, scan, open)
    BY <1>1 DEF ReadInv
  <1>4. CASE scan > Len(text)
    <2>1. scan \notin 1..Len(text)
      BY <1>2, <1>4
    <2> QED
      BY <1>3, <1>4, <2>1 DEF ReadTo
  <1>5. CASE ~(scan > Len(text))
    <2>1. scan \in 1..Len(text) /\ 1 \in Int /\ Len(input) \in Int
      BY <1>2, <1>5
    <2>2. Piece(FALSE, text, 1, Len(input), "plain", "plain") /\ NoDouble(text)
      BY <1>1 DEF ReadyInv, Done
    <2>3. Taken(text, scan, open) /\ Entity(open) = text[scan].in
      BY <1>3, <2>1, <2>2, ReadingOK
    <2> QED
      BY <1>5, <2>3 DEF Taken
  <1> QED
    BY <1>4, <1>5

(* The variables keep their types: every character of the text and of the   *)
(* spans has its piece of the input, and only special ones are escaped.     *)
THEOREM TypeCorrect == Spec => []MdTypes
  <1>1. MdInv => MdTypes
    BY DEF MdInv
  <1> QED
    BY <1>1, ChainsHold, PTL

(* Telegram refuses no text and reads each character in the entity that the *)
(* stages wrote it for, however the marks of the commands' text are broken, *)
(* crossed or nested: what is open is what the chain says is open.          *)
THEOREM ReadsAsWritten == Spec => []ReadAsMeant
  <1>1. MdInv => ReadAsMeant
    BY MeantByInv
  <1> QED
    BY <1>1, ChainsHold, PTL

(* A chain for the whole input has a character for each of its places. *)
LEMMA Covered ==
    ASSUME NEW raw \in BOOLEAN, NEW s, NEW n \in Nat, NEW x, NEW y, Piece(raw, s, 1, n, x, y),
           NEW i \in 1..n
    PROVE  \E p \in 1..Len(s) : s[p].from <= i /\ i <= s[p].to
  <1>1. 1 \in Int /\ n \in Int /\ i \in Nat /\ i >= 1 /\ i <= n
    OBVIOUS
  <1>2. /\ s \in Seq(Elem) /\ Len(s) \in Nat
        /\ \A p \in 1..Len(s) : s[p].from \in Nat /\ s[p].to \in Nat
        /\ \A p \in 1..Len(s) - 1 : Link(raw, s[p], s[p + 1])
        /\ Len(s) > 0 => Begins(raw, s[1], 1, x) /\ Finishes(raw, s[Len(s)], n, y)
    BY <1>1, PieceAt
  <1>3. Len(s) > 0
    <2>1. s # <<>>
      <3> SUFFICES ASSUME s = <<>> PROVE FALSE
        OBVIOUS
      <3>1. n + 1 = 1
        BY DEF Piece
      <3> QED
        BY <1>1, <3>1
    <2> QED
      BY <1>2, <2>1, EmptySeq
  <1> DEFINE S == {p \in 1..Len(s) : i <= s[p].to}
  <1>4. Len(s) \in S
    <2>1. s[Len(s)].to = n /\ Len(s) \in 1..Len(s)
      BY <1>2, <1>3 DEF Finishes
    <2> QED
      BY <1>1, <2>1
  <1>5. S \in SUBSET Nat
    OBVIOUS
  <1>6. PICK p \in S : \A q \in S : ~(<<q, p>> \in OpToRel(<, Nat))
    BY <1>4, <1>5, NatLessThanWellFounded, WFMin
  <1>7. \A q \in S : ~(q < p)
    BY <1>5, <1>6 DEF OpToRel
  <1>8. p \in 1..Len(s) /\ i <= s[p].to
    OBVIOUS
  <1>9. s[p].from <= i
    <2>1. CASE p = 1
      BY <1>1, <1>2, <1>3, <2>1 DEF Begins
    <2>2. CASE p # 1
      <3>1. p - 1 \in 1..Len(s) - 1 /\ p - 1 \in 1..Len(s) /\ (p - 1) + 1 = p /\ p - 1 < p
        BY <1>2, <1>8, <2>2
      <3>2. p - 1 \notin S
        BY <1>7, <3>1
      <3>3. ~(i <= s[p - 1].to)
        BY <3>1, <3>2
      <3>4. s[p].from = s[p - 1].to + 1
        <4>1. Link(raw, s[p - 1], s[(p - 1) + 1])
          BY <1>2, <3>1
        <4> QED
          BY <3>1, <4>1 DEF Link
      <3>5. s[p - 1].to \in Nat
        BY <1>2, <3>1
      <3> QED
        BY <1>1, <3>3, <3>4, <3>5
    <2> QED
      BY <2>1, <2>2
  <1> QED
    BY <1>8, <1>9

LEMMA NoneLeft ==
    ASSUME MdInv, Done, ~Nested, ~split
    PROVE  \A p \in 1..Len(text) : ~IdPart(text[p])
  <1>1. MdTypes /\ ReadyInv
    BY DEF MdInv
  <1>2. stage >= 6 /\ Filling > Len(spans)
    BY DEF Done
  <1>3. Len(text) \in Nat /\ Len(input) \in Nat /\ Len(spans) \in Nat /\ stage \in Nat
    BY <1>1, InputNat DEF MdTypes
  <1>4. /\ Piece(FALSE, text, 1, Len(input), "plain", "plain")
        /\ \A p \in 1..Len(text) - 1 : Opening(text[p]) =>
              Waiting(text, p, scan, Filling) \/ Buried(text, p, Filling)
    BY <1>1, <1>2 DEF ReadyInv
  <1>5. 1 \in Int /\ Len(input) \in Int
    BY <1>3
  <1>6. \A p : ~Waiting(text, p, scan, Filling) /\ ~Buried(text, p, Filling)
    <2>1. \A k : k \notin Filling..Len(spans)
      <3>1. Filling \in Int
        BY <1>3 DEF Filling
      <3> QED
        BY <1>2, <1>3, <3>1
    <2> QED
      BY <2>1 DEF Waiting, Buried
  <1>7. ASSUME NEW p \in 1..Len(text) PROVE ~Opening(text[p])
    <2> SUFFICES ASSUME Opening(text[p]) PROVE FALSE
      OBVIOUS
    <2>1. WholeId(text, p)
      BY <1>4, <1>5, OpeningWhole
    <2>2. p \in 1..Len(text) - 1
      <3>1. p + 1 \in 1..Len(text)
        BY <2>1 DEF WholeId
      <3> QED
        BY <1>3, <3>1
    <2> QED
      BY <1>4, <1>6, <2>2
  <1>8. ASSUME NEW p \in 1..Len(text) PROVE ~Number(text[p])
    BY <1>4, <1>5, <1>7, ClosingWhole
  <1>9. ASSUME NEW p \in 1..Len(text) PROVE ~Closing(text[p])
    BY <1>4, <1>5, <1>8, ClosingWhole
  <1>10. ASSUME NEW p \in 1..Len(text) PROVE ~IdPart(text[p])
    <2>1. text[p] \in Elem
      BY <1>4, <1>5, PieceAt
    <2> QED
      BY <1>7, <1>8, <1>9, <2>1, IdKinds DEF IdPart
  <1> QED
    BY <1>10

LEMMA KeptByInv ==
    ASSUME MdInv
    PROVE  LettersKept
  <1>1. MdTypes /\ ReadyInv
    BY DEF MdInv
  <1> SUFFICES ASSUME Done, ~Nested, ~split
               PROVE  /\ \A i \in DOMAIN input : Letter(input[i]) => \E p \in DOMAIN text : Kept(text[p], i)
                      /\ \A p \in DOMAIN text : Letter(text[p].char) =>
                           /\ text[p].from \in DOMAIN input /\ Kept(text[p], text[p].from)
                           /\ \A q \in 1..p - 1 : Letter(text[q].char) => text[q].from < text[p].from
    BY DEF LettersKept
  <1>2. Len(text) \in Nat /\ Len(input) \in Nat /\ DOMAIN text = 1..Len(text) /\ DOMAIN input = 1..Len(input)
    BY <1>1, InputNat, LenProperties DEF MdTypes
  <1>3. Piece(FALSE, text, 1, Len(input), "plain", "plain") /\ \A p \in 1..Len(text) : Sound(text[p])
    BY <1>1 DEF ReadyInv, Done
  <1>4. \A p \in 1..Len(text) : Own(text[p]) \/ Blank(text[p])
    BY <1>3, NoneLeft DEF Sound
  <1>5. ASSUME NEW p \in 1..Len(text), Letter(text[p].char)
        PROVE  text[p].from \in 1..Len(input) /\ Kept(text[p], text[p].from)
    BY <1>4, <1>5 DEF Blank, Own, Kept
  <1>6. ASSUME NEW i \in 1..Len(input), Letter(input[i])
        PROVE  \E p \in 1..Len(text) : Kept(text[p], i)
    <2>1. PICK p \in 1..Len(text) : text[p].from <= i /\ i <= text[p].to
      BY <1>2, <1>3, Covered
    <2>2. text[p].from \in Nat /\ text[p].to \in Nat
      <3>1. 1 \in Int /\ Len(input) \in Int
        BY <1>2
      <3> QED
        BY <1>3, <3>1, PieceAt
    <2>3. i \in text[p].from..text[p].to /\ (text[p].from = text[p].to => text[p].from = i)
      BY <1>2, <2>1, <2>2
    <2>4. ~Blank(text[p])
      BY <1>6, <2>3 DEF Blank
    <2>5. Kept(text[p], i)
      BY <1>4, <2>3, <2>4 DEF Own, Kept
    <2> QED
      BY <2>5
  <1>7. ASSUME NEW p \in 1..Len(text), Letter(text[p].char),
               NEW q \in 1..p - 1, Letter(text[q].char)
        PROVE  text[q].from < text[p].from
    <2>1. q \in 1..Len(text) /\ q < p
      BY <1>2
    <2>2. text[q].to < text[p].from
      BY <1>3, <2>1, Rising
    <2>3. text[q].from = text[q].to
      BY <1>4, <1>7, <2>1 DEF Blank, Own
    <2> QED
      BY <2>2, <2>3
  <1> QED
    BY <1>2, <1>5, <1>6, <1>7

(* No letter of the text is lost, doubled or moved by the four stages, the  *)
(* escaping and the filling in, and no placeholder is left: the chain goes  *)
(* over the whole input in order.                                           *)
THEOREM LettersArrive == Spec => []LettersKept
  <1>1. MdInv => LettersKept
    BY KeptByInv
  <1> QED
    BY <1>1, ChainsHold, PTL

===============================================================================
