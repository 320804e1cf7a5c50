---------------------------- MODULE TextFormats ----------------------------
(***************************************************************************)
(* The text forms of arrays, composite values and hstores: how the daemon  *)
(* reads what PostgreSQL writes, and what it writes for PostgreSQL to read *)
(* (pq-raii/libpq-raii.hpp).                                               *)
(*                                                                         *)
(* A text is a sequence of characters.  "=>" counts as one character, and  *)
(* so does the word "NULL".  Positions count from 0 and 0 also means       *)
(* "none yet", as in the code.                                             *)
(***************************************************************************)
EXTENDS Integers, SequencesExt

CONSTANTS
  Null,
  Character      \* what texts are made of

Quote == "\""
Escape == "\\"
Comma == ","
Space == " "
LeftBrace == "{"
RightBrace == "}"
LeftParenthesis == "("
RightParenthesis == ")"
EqualSign == "="
Arrow == "=>"
NullWord == <<"NULL">>

Text == Seq(Character)

ASSUME TextAssumption ==
  /\ {Quote, Escape, Comma, Space, LeftBrace, RightBrace, LeftParenthesis, RightParenthesis,
      EqualSign, Arrow, "NULL"} \subseteq Character
  /\ Null \notin Text

At(in, i) == in[i + 1]

(* in.substr(start, end - start + 1) in unsigned numbers. *)
Substr(in, start, end) ==
  SubSeq(in, start + 1, IF end < start - 1 THEN Len(in) ELSE Min({end + 1, Len(in)}))

(* The loop over the positions of a text. *)
Loop(Step(_, _), s, in) ==
  LET after[n \in 0..Len(in)] == IF n = 0 THEN s ELSE Step(after[n - 1], n - 1)
  IN after[Len(in)]

(* std::remove() of a character. *)
Without(text, c) == FlattenSeq([n \in DOMAIN text |-> IF text[n] = c THEN <<>> ELSE <<text[n]>>])

(* Whether position i holds a quote that no escape character precedes. *)
QuoteAt(in, i) == At(in, i) = Quote /\ (i = 0 \/ At(in, i - 1) # Escape)

----------------------------------------------------------------------------
(* Arrays and composite values *)

(* Where the item that begins or ends at position i does so, and where the
   next item of an array begins. *)
Mark(in, s, i, opening, closing) ==
  LET is(c) == At(in, i) = c /\ ~s.quoted IN
  CASE is(opening) -> [s EXCEPT !.depth = @ + 1, !.start = IF s.depth = 0 THEN i + 1 ELSE @]
    [] is(closing) -> IF s.depth = 1 /\ s.end = 0
                      THEN [s EXCEPT !.depth = 0, !.end = i - 1, !.next = 0]
                      ELSE [s EXCEPT !.depth = @ - 1]
    [] is(Comma) -> [s EXCEPT !.end = i - 1, !.next = i + 1]
    [] QuoteAt(in, i) /\ s.quoted ->
         [s EXCEPT !.end = i - 1, !.next = i + 2, !.quoted = FALSE]
    [] QuoteAt(in, i) /\ ~s.quoted -> [s EXCEPT !.start = i + 1, !.quoted = TRUE]
    [] OTHER -> s

Complete(s) == s.start > 0 /\ s.end > 0

(* Deviation: the next item would begin where the quote ends. *)
PushMemberAtQuote(in, s) ==
  [s EXCEPT !.out = Append(@, Without(Substr(in, s.start, s.end), Escape)),
            !.done = s.next = 0, !.end = 0, !.start = s.next, !.resume = s.end + 1]

(* The item of an array: all its escape characters are erased, and reading
   goes on at the next item. *)
PushMember(in, s) ==
  [s EXCEPT !.out = Append(@, Without(Substr(in, s.start, s.end), Escape)),
            !.done = s.next = 0, !.end = 0, !.start = s.next, !.resume = s.next]

ArrayBegin == [depth |-> 0, quoted |-> FALSE, start |-> 1, end |-> 0, next |-> 0,
               resume |-> 0, done |-> FALSE, out |-> <<>>]

ArrayStep(in, s, i) ==
  IF s.done \/ i < s.resume THEN s
  ELSE LET t == Mark(in, s, i, LeftBrace, RightBrace) IN IF Complete(t) THEN PushMember(in, t) ELSE t

from_text_array(in) == Loop(LAMBDA s, i : ArrayStep(in, s, i), ArrayBegin, in).out

(* Deviation: the next field would begin with the comma. *)
PushFieldBeforeComma(in, s, i) ==
  [s EXCEPT !.out = Append(@, IF s.end = s.start - 1 THEN Null ELSE Substr(in, s.start, s.end)),
            !.start = i, !.end = 0]

(* The field of a composite value: nothing at all is NULL. *)
PushField(in, s, i) ==
  [s EXCEPT !.out = Append(@, IF s.end = s.start - 1 THEN Null ELSE Substr(in, s.start, s.end)),
            !.start = i + 1, !.end = 0]

RecordBegin == [depth |-> 0, quoted |-> FALSE, start |-> 0, end |-> 0, next |-> 0, out |-> <<>>]

RecordStep(in, s, i) ==
  LET t == Mark(in, s, i, LeftParenthesis, RightParenthesis) IN IF Complete(t) THEN PushField(in, t, i) ELSE t

from_text_composite_value(in) == Loop(LAMBDA s, i : RecordStep(in, s, i), RecordBegin, in).out

----------------------------------------------------------------------------
(* hstores *)

(* Deviation: the text would stay as it is. *)
KeepEscapes(escaped) == escaped

(* An escape character goes, unless another one precedes it, and the
   character after it stays. *)
UnescapeStep(escaped, s, i) ==
  IF ~s.after /\ At(escaped, i) = Escape /\ (i = 0 \/ At(escaped, i - 1) # Escape)
  THEN [s EXCEPT !.after = TRUE]
  ELSE [after |-> FALSE, out |-> Append(s.out, At(escaped, i))]

unescape_hstore_text(escaped) ==
  Loop(LAMBDA s, i : UnescapeStep(escaped, s, i), [after |-> FALSE, out |-> <<>>], escaped).out

NoPair == [keyStart |-> 0, keyEnd |-> 0, valStart |-> 0]

(* The value in quotes ends before position i; the word NULL is no value. *)
AddPair(in, s, i) ==
  LET raw == Substr(in, s.pair.valStart, i - 1)
      key == Substr(in, s.pair.keyStart, s.pair.keyEnd)
      value == IF raw = NullWord THEN Null ELSE unescape_hstore_text(raw)
  IN [quoted |-> FALSE, pair |-> NoPair,
      out |-> [k \in DOMAIN s.out \cup {key} |-> IF k = key THEN value ELSE s.out[k]]]

HstoreBegin == [quoted |-> FALSE, pair |-> NoPair, out |-> <<>>]

HstoreStep(in, s, i) ==
  CASE ~QuoteAt(in, i) -> s
    [] QuoteAt(in, i) /\ ~s.quoted ->
         [s EXCEPT !.quoted = TRUE,
                   !.pair.keyStart = IF @ = 0 THEN i + 1 ELSE @,
                   !.pair.valStart = IF s.pair.keyStart # 0 /\ @ = 0 THEN i + 1 ELSE @]
    [] QuoteAt(in, i) /\ s.quoted /\ s.pair.keyEnd = 0 ->
         [s EXCEPT !.quoted = FALSE, !.pair.keyEnd = i - 1]
    [] OTHER -> AddPair(in, s, i)

from_text_hstore(in) == Loop(LAMBDA s, i : HstoreStep(in, s, i), HstoreBegin, in).out

----------------------------------------------------------------------------
(* What the daemon writes *)

(* Deviation: only quotes would be escaped. *)
EscapeQuotesIn(text, special) ==
  FlattenSeq([n \in DOMAIN text |-> IF text[n] = Quote THEN <<Escape, Quote>> ELSE <<text[n]>>])

EscapeIn(text, special) ==
  FlattenSeq([n \in DOMAIN text |-> IF text[n] \in special THEN <<Escape, text[n]>> ELSE <<text[n]>>])

double_quote(text) == <<Quote>> \o EscapeIn(text, {Quote, Escape}) \o <<Quote>>

OrNull(member) == IF member = Null THEN NullWord ELSE double_quote(member)

Commas(items) ==
  FlattenSeq([n \in DOMAIN items |-> IF n = 1 THEN items[n] ELSE <<Comma>> \o items[n]])

as_text_array(members) == <<LeftBrace>> \o Commas([n \in DOMAIN members |-> OrNull(members[n])]) \o <<RightBrace>>

as_text_composite_value(fields) ==
  <<LeftParenthesis>> \o Commas([n \in DOMAIN fields |-> OrNull(fields[n])]) \o <<RightParenthesis>>

(* The pairs come in the order of the unordered_map, which is any order. *)
as_text_hstore(m, keys) ==
  Commas([n \in DOMAIN keys |-> double_quote(keys[n]) \o <<Arrow>> \o OrNull(m[keys[n]])])

----------------------------------------------------------------------------
(* What PostgreSQL writes: array_out(), record_out() and hstore_out() *)

Delimiters == {Comma, Quote, Escape, Space}

ArrayOut(members) ==
  LET item(w) == IF w = Null THEN NullWord
                 ELSE IF w \in {<<>>, NullWord} \/ ToSet(w) \cap (Delimiters \cup {LeftBrace, RightBrace}) # {}
                 THEN double_quote(w) ELSE w
  IN <<LeftBrace>> \o Commas([n \in DOMAIN members |-> item(members[n])]) \o <<RightBrace>>

(* A quote or an escape character inside a field is doubled. *)
Doubled(w) ==
  FlattenSeq([n \in DOMAIN w |-> IF w[n] \in {Quote, Escape} THEN <<w[n], w[n]>> ELSE <<w[n]>>])

RecordOut(fields) ==
  LET item(w) == IF w = Null THEN <<>>
                 ELSE IF w = <<>> \/ ToSet(w) \cap (Delimiters \cup {LeftParenthesis, RightParenthesis}) # {}
                 THEN <<Quote>> \o Doubled(w) \o <<Quote>> ELSE w
  IN <<LeftParenthesis>> \o Commas([n \in DOMAIN fields |-> item(fields[n])]) \o <<RightParenthesis>>

HstoreOut(m, keys) ==
  FlattenSeq([n \in DOMAIN keys |->
    (IF n = 1 THEN <<>> ELSE <<Comma, Space>>) \o double_quote(keys[n]) \o <<Arrow>> \o OrNull(m[keys[n]])])

(* What PostgreSQL reads: array_in(), record_in() and hstore_in().  The text
   between the delimiters, with whether any of it was in quotes. *)
NoItem == [word |-> <<>>, wasQuoted |-> FALSE]

ItemsBegin == [item |-> NoItem, quoted |-> FALSE, escaped |-> FALSE, items |-> <<>>]

ItemsStep(in, s, i) ==
  LET c == At(in, i)
      add == [s EXCEPT !.item.word = Append(@, c), !.escaped = FALSE]
  IN CASE s.escaped -> add
       [] c = Escape /\ ~s.escaped -> [s EXCEPT !.escaped = TRUE]
       [] c = Quote /\ ~s.escaped -> [s EXCEPT !.quoted = ~@, !.item.wasQuoted = TRUE]
       [] c \in {Comma, Arrow} /\ ~s.quoted /\ ~s.escaped ->
            [s EXCEPT !.items = Append(@, s.item), !.item = NoItem]
       [] OTHER -> add

Items(in) ==
  LET end == Loop(LAMBDA s, i : ItemsStep(in, s, i), ItemsBegin, in)
  IN Append(end.items, end.item)

WordOrNull(item) == IF item = [word |-> NullWord, wasQuoted |-> FALSE] THEN Null ELSE item.word

ArrayIn(in) ==
  IF Len(in) = 2 THEN <<>>
  ELSE LET items == Items(Tail(Front(in))) IN [n \in DOMAIN items |-> WordOrNull(items[n])]

RecordIn(in) ==
  LET items == Items(Tail(Front(in)))
  IN [n \in DOMAIN items |->
        IF items[n] = [word |-> <<>>, wasQuoted |-> FALSE] THEN Null ELSE items[n].word]

HstoreIn(in) ==
  IF in = <<>> THEN <<>>
  ELSE LET items == Items(in)
           key(k) == {n \in DOMAIN items : n % 2 = 1 /\ items[n].word = k}
       IN [k \in {items[n].word : n \in {j \in DOMAIN items : j % 2 = 1}} |->
             WordOrNull(items[Max(key(k)) + 1])]
============================================================================
