------------------------- MODULE TextFormatsProofs -------------------------
(***************************************************************************)
(* What the parsers and writers of TextFormats make of every text, proved  *)
(* for texts of any length over any characters: that the daemon reads what *)
(* the server writes (ArrayOutRead, ThreeFieldsRead, HstoreOutRead), and   *)
(* the server what the daemon writes (ArrayInRead, RecordInRead,           *)
(* HstoreInRead), under the conditions on backslashes and quotes that the  *)
(* daemon's parsers need, and what they read without them.                 *)
(*                                                                         *)
(* Each parser is a loop over the characters.  A "reading" is the function *)
(* from positions to the states of that loop; the lemmas say what one turn *)
(* does to the state, then what the turns over one item do, and then what  *)
(* the turns over all items do, by induction over the items.  An induction *)
(* is over the set of the numbers or texts that have the property.         *)
(***************************************************************************)
EXTENDS TextFormats, SequenceTheorems, FiniteSetTheorems, WellFoundedInduction, TLAPS

----------------------------------------------------------------------------
(* Induction.  The sets stand for the property, so that a lemma can be cited. *)

(* What holds of 0, and of n + 1 if of n, holds of all numbers. *)
LEMMA NatSetInduction ==
  ASSUME NEW T, 0 \in T, \A n \in Nat : n \in T => n + 1 \in T
  PROVE  Nat \subseteq T
<1> DEFINE Less == OpToRel(<, Nat)
           Rest == Nat \ T
<1>1. IsWellFoundedOn({p \in Nat \X Nat : p[1] < p[2]}, Nat)
  BY NatLessThanWellFounded DEF OpToRel
<1>2. SUFFICES ASSUME Rest # {} PROVE FALSE
  OBVIOUS
<1>3. PICK x \in Rest : \A y \in Rest : <<y, x>> \notin {p \in Nat \X Nat : p[1] < p[2]}
  BY <1>1, <1>2, WFMin, Rest \subseteq Nat
<1>4. x \in Nat /\ x # 0 /\ x - 1 \in Nat /\ x - 1 < x
  OBVIOUS
<1>5. <<x - 1, x>> \in {p \in Nat \X Nat : p[1] < p[2]}
  BY <1>4
<1>6. x - 1 \in T
  BY <1>3, <1>4, <1>5
<1> QED
  BY <1>4, <1>6

(* What holds of the empty sequence, and of each with one more element, holds
   of all sequences. *)
LEMMA SeqSetInduction ==
  ASSUME NEW S, NEW T, <<>> \in T, \A s \in Seq(S), e \in S : s \in T => Append(s, e) \in T
  PROVE  Seq(S) \subseteq T
<1> DEFINE U == {n \in Nat : \A s \in Seq(S) : Len(s) = n => s \in T}
<1>1. 0 \in U
  BY EmptySeq
<1>2. \A n \in Nat : n \in U => n + 1 \in U
  <2> SUFFICES ASSUME NEW n \in Nat, n \in U, NEW s \in Seq(S), Len(s) = n + 1
               PROVE  s \in T
    OBVIOUS
  <2>1. s # <<>>
    BY EmptySeq
  <2>2. PICK t \in Seq(S), e \in S : s = Append(t, e)
    BY <2>1, SequenceEmptyOrAppend
  <2>3. Len(t) = n /\ Len(t) \in Nat
    BY <2>2, AppendProperties, LenProperties
  <2> QED
    BY <2>2, <2>3
<1>3. Nat \subseteq U
  <2> HIDE DEF U
  <2> QED
    BY <1>1, <1>2, NatSetInduction
<1> QED
  BY <1>3, LenProperties

(* A value that no step of a stretch changes is the same at its end. *)
LEMMA Unchanged ==
  ASSUME NEW r, NEW a \in Nat, NEW b \in Nat, a <= b,
         \A i \in a..b - 1 : r[i] = r[a] => r[i + 1] = r[i]
  PROVE  \A i \in a..b : r[i] = r[a]
<1> DEFINE T == {n \in Nat : a + n <= b => r[a + n] = r[a]}
<1>1. 0 \in T
  OBVIOUS
<1>2. \A n \in Nat : n \in T => n + 1 \in T
  <2> SUFFICES ASSUME NEW n \in Nat, n \in T, a + (n + 1) <= b
               PROVE  r[a + (n + 1)] = r[a]
    OBVIOUS
  <2>1. r[a + n] = r[a] /\ a + n \in a..b - 1
    OBVIOUS
  <2>2. r[(a + n) + 1] = r[a + n]
    BY <2>1
  <2> QED
    BY <2>1, <2>2, a + (n + 1) = (a + n) + 1
<1>3. Nat \subseteq T
  <2> HIDE DEF T
  <2> QED
    BY <1>1, <1>2, NatSetInduction
<1> SUFFICES ASSUME NEW i \in a..b PROVE r[i] = r[a]
  OBVIOUS
<1>4. i - a \in T /\ a + (i - a) = i
  BY <1>3
<1> QED
  BY <1>4

----------------------------------------------------------------------------
(* FlattenSeq() *)

(* The function that FlattenSeq() defines by recursion. *)
Flattens(f, s) == f = [i \in 1..Len(s) |-> IF i = 1 THEN s[i] ELSE f[i - 1] \o s[i]]

(* What the partial concatenations are, place by place. *)
LEMMA FlattensAt ==
  ASSUME NEW f, NEW s, Flattens(f, s), NEW i \in 1..Len(s)
  PROVE  f[i] = IF i = 1 THEN s[i] ELSE f[i - 1] \o s[i]
BY DEF Flattens

(* Every sequence of sequences has its partial concatenations. *)
LEMMA FlattensExists ==
  ASSUME NEW S, NEW s \in Seq(S)
  PROVE  \E f : Flattens(f, s)
<1> DEFINE T == {t \in Seq(S) : \E f : Flattens(f, t)}
<1>1. <<>> \in T
  <2>1. Flattens([i \in 1..0 |-> i], <<>>)
    BY DEF Flattens
  <2> QED
    BY <2>1
<1>2. \A t \in Seq(S), e \in S : t \in T => Append(t, e) \in T
  <2> SUFFICES ASSUME NEW t \in Seq(S), NEW e \in S, NEW f, Flattens(f, t)
               PROVE  \E g : Flattens(g, Append(t, e))
    BY AppendProperties
  <2> DEFINE u == Append(t, e)
             g == [i \in 1..Len(u) |-> IF i = 1 THEN u[i] ELSE f[i - 1] \o u[i]]
  <2>1. Len(t) \in Nat /\ Len(u) = Len(t) + 1 /\ \A i \in 1..Len(t) : u[i] = t[i]
    BY AppendProperties, LenProperties
  <2>2. \A i \in 1..Len(t) : g[i] = f[i]
    BY <2>1, FlattensAt
  <2>3. ASSUME NEW i \in 1..Len(u), i # 1 PROVE g[i - 1] = f[i - 1]
    <3>1. i - 1 \in 1..Len(t)
      BY <2>1, <2>3
    <3> HIDE DEF g
    <3> QED
      BY <2>2, <3>1
  <2>4. g = [i \in 1..Len(u) |-> IF i = 1 THEN u[i] ELSE g[i - 1] \o u[i]]
    BY <2>3
  <2> QED
    BY <2>4 DEF Flattens
<1>3. Seq(S) \subseteq T
  <2> HIDE DEF T
  <2> QED
    BY <1>1, <1>2, SeqSetInduction
<1> QED
  BY <1>3

(* Two sequences of partial concatenations agree as far as both go. *)
LEMMA FlattensOnce ==
  ASSUME NEW f, NEW g, NEW s, Len(s) \in Nat, Flattens(f, s), NEW n \in Nat, n <= Len(s),
         \A i \in 1..n : g[i] = IF i = 1 THEN s[i] ELSE g[i - 1] \o s[i]
  PROVE  \A i \in 1..n : g[i] = f[i]
<1> DEFINE T == {k \in Nat : k \in 1..n => g[k] = f[k]}
<1>1. 0 \in T
  OBVIOUS
<1>2. ASSUME NEW k \in Nat, k \in 1..n => g[k] = f[k], k + 1 \in 1..n
      PROVE  g[k + 1] = f[k + 1]
  <2>1. f[k + 1] = IF k + 1 = 1 THEN s[k + 1] ELSE f[k] \o s[k + 1]
    BY FlattensAt, <1>2, k + 1 \in 1..Len(s), (k + 1) - 1 = k
  <2>2. g[k + 1] = IF k + 1 = 1 THEN s[k + 1] ELSE g[k] \o s[k + 1]
    BY <1>2, (k + 1) - 1 = k
  <2>3. k + 1 # 1 => g[k] = f[k]
    BY <1>2
  <2> QED
    BY <2>1, <2>2, <2>3
<1>3. \A k \in Nat : k \in T => k + 1 \in T
  BY ONLY <1>2, n \in Nat
<1>4. Nat \subseteq T
  <2> HIDE DEF T
  <2> QED
    BY <1>1, <1>3, NatSetInduction
<1> QED
  BY <1>4

(* FlattenSeq() is the value of any such function at its end. *)
LEMMA FlattenIs ==
  ASSUME NEW S, NEW s \in Seq(S), s # <<>>, NEW f, Flattens(f, s)
  PROVE  FlattenSeq(s) = f[Len(s)]
<1>1. Len(s) \in Nat /\ Len(s) # 0
  BY EmptySeq, LenProperties
<1>2. \A g : Flattens(g, s) => g = f
  <2> SUFFICES ASSUME NEW g, Flattens(g, s) PROVE g = f
    OBVIOUS
  <2>1. \A i \in 1..Len(s) : g[i] = IF i = 1 THEN s[i] ELSE g[i - 1] \o s[i]
    BY FlattensAt
  <2>2. \A i \in 1..Len(s) : g[i] = f[i]
    BY <1>1, <2>1, FlattensOnce
  <2> QED
    BY <2>2 DEF Flattens
<1>3. f = CHOOSE g : Flattens(g, s)
  BY <1>2
<1> QED
  BY <1>1, <1>3 DEF FlattenSeq, Flattens

(* What an element more adds: its elements, at the end. *)
LEMMA FlattenAppend ==
  ASSUME NEW X, NEW s \in Seq(Seq(X)), NEW e \in Seq(X)
  PROVE  FlattenSeq(Append(s, e)) = FlattenSeq(s) \o e
<1> DEFINE u == Append(s, e)
<1>1. u \in Seq(Seq(X)) /\ u # <<>> /\ Len(u) = Len(s) + 1 /\ Len(s) \in Nat
      /\ (\A i \in 1..Len(s) : u[i] = s[i]) /\ u[Len(s) + 1] = e
  BY AppendProperties, LenProperties
<1>2. PICK g : Flattens(g, u)
  BY <1>1, FlattensExists
<1>3. FlattenSeq(u) = g[Len(s) + 1]
  BY <1>1, <1>2, FlattenIs
<1>4. CASE s = <<>>
  <2>1. Len(s) = 0 /\ FlattenSeq(s) = <<>>
    BY <1>4, EmptySeq DEF FlattenSeq
  <2>2. g[1] = e
    BY <1>1, <1>2, <2>1, FlattensAt, 1 \in 1..Len(u)
  <2> QED
    BY <1>3, <2>1, <2>2, ConcatEmptySeq
<1>5. CASE s # <<>>
  <2>1. PICK f : Flattens(f, s)
    BY FlattensExists
  <2>2. FlattenSeq(s) = f[Len(s)] /\ Len(s) # 0
    BY <1>5, <2>1, FlattenIs, EmptySeq
  <2>3. \A i \in 1..Len(u) : g[i] = IF i = 1 THEN u[i] ELSE g[i - 1] \o u[i]
    BY <1>2, FlattensAt
  <2> HIDE DEF u
  <2>4. \A i \in 1..Len(s) : g[i] = IF i = 1 THEN s[i] ELSE g[i - 1] \o s[i]
    BY <1>1, <2>3
  <2>5. g[Len(s)] = f[Len(s)]
    <3>1. \A i \in 1..Len(s) : g[i] = f[i]
      BY <1>1, <2>1, <2>4, FlattensOnce, Len(s) <= Len(s), ZenonT(30)
    <3> QED
      BY <1>1, <2>2, <3>1
  <2>6. g[Len(s) + 1] = g[Len(s)] \o e
    <3>1. Len(s) + 1 \in 1..Len(u) /\ Len(s) + 1 # 1 /\ (Len(s) + 1) - 1 = Len(s)
      BY <1>1, <2>2
    <3> QED
      BY <1>1, <2>3, <3>1
  <2> QED
    BY <1>3, <2>2, <2>5, <2>6 DEF u
<1> QED
  BY <1>4, <1>5

(* Nothing concatenated is nothing. *)
LEMMA FlattenEmpty == FlattenSeq(<<>>) = <<>>
BY DEF FlattenSeq

(* A concatenation is a sequence over the same set. *)
LEMMA FlattenType ==
  ASSUME NEW X, NEW s \in Seq(Seq(X))
  PROVE  FlattenSeq(s) \in Seq(X)
<1> DEFINE T == {t \in Seq(Seq(X)) : FlattenSeq(t) \in Seq(X)}
<1>1. <<>> \in T
  BY FlattenEmpty, EmptySeq
<1>2. \A t \in Seq(Seq(X)), e \in Seq(X) : t \in T => Append(t, e) \in T
  BY FlattenAppend, AppendProperties, ConcatProperties
<1>3. Seq(Seq(X)) \subseteq T
  <2> HIDE DEF T
  <2> QED
    BY <1>1, <1>2, SeqSetInduction
<1> QED
  BY <1>3

----------------------------------------------------------------------------
(* Loops *)

(* The parsers as one loop, so that what holds of each of them is shown once. *)
First(parser) ==
  CASE parser = "array" -> ArrayBegin
    [] parser = "record" -> RecordBegin
    [] parser = "hstore" -> HstoreBegin
    [] parser = "unescape" -> [after |-> FALSE, out |-> <<>>]
    [] parser = "items" -> ItemsBegin

Turn(parser, in, s, i) ==
  CASE parser = "array" -> ArrayStep(in, s, i)
    [] parser = "record" -> RecordStep(in, s, i)
    [] parser = "hstore" -> HstoreStep(in, s, i)
    [] parser = "unescape" -> UnescapeStep(in, s, i)
    [] parser = "items" -> ItemsStep(in, s, i)

(* r has the states of the loop: r[n] is the one before position n is read. *)
Reading(parser, in, r) ==
  r = [n \in 0..Len(in) |-> IF n = 0 THEN First(parser) ELSE Turn(parser, in, r[n - 1], n - 1)]

(* A reading starts in the parser's first state and takes one turn of its loop per character. *)
LEMMA ReadingAt ==
  ASSUME NEW parser, NEW in, NEW r, Len(in) \in Nat, Reading(parser, in, r)
  PROVE  /\ r[0] = First(parser)
         /\ \A n \in 1..Len(in) : r[n] = Turn(parser, in, r[n - 1], n - 1)
         /\ \A i \in 0..Len(in) - 1 : r[i + 1] = Turn(parser, in, r[i], i)
<1>1. \A n \in 0..Len(in) : r[n] = IF n = 0 THEN First(parser) ELSE Turn(parser, in, r[n - 1], n - 1)
  BY DEF Reading
<1>2. r[0] = First(parser)
  BY <1>1
<1>3. \A n \in 1..Len(in) : r[n] = Turn(parser, in, r[n - 1], n - 1)
  BY <1>1
<1>4. ASSUME NEW i \in 0..Len(in) - 1
      PROVE  r[i + 1] = Turn(parser, in, r[i], i)
  BY <1>3, i + 1 \in 1..Len(in), (i + 1) - 1 = i
<1> QED
  BY <1>2, <1>3, <1>4

(* Every parser has a reading of every text. *)
LEMMA ReadingExists ==
  ASSUME NEW parser, NEW in, Len(in) \in Nat
  PROVE  \E r : Reading(parser, in, r)
<1> DEFINE Upto(r, k) ==
             r = [n \in 0..k |-> IF n = 0 THEN First(parser) ELSE Turn(parser, in, r[n - 1], n - 1)]
           T == {k \in Nat : \E r : Upto(r, k)}
<1>1. 0 \in T
  <2> DEFINE r == [n \in 0..0 |-> First(parser)]
  <2>1. Upto(r, 0)
    OBVIOUS
  <2> HIDE DEF r
  <2> QED
    BY <2>1
<1>2. ASSUME NEW k \in Nat, NEW r, Upto(r, k)
      PROVE  \E g : Upto(g, k + 1)
  <2> DEFINE g == [n \in 0..k + 1 |-> IF n = 0 THEN First(parser) ELSE Turn(parser, in, r[n - 1], n - 1)]
  <2>1. \A n \in 0..k : r[n] = IF n = 0 THEN First(parser) ELSE Turn(parser, in, r[n - 1], n - 1)
    BY <1>2
  <2>2. \A n \in 0..k : g[n] = r[n]
    BY <2>1
  <2>3. ASSUME NEW n \in 0..k + 1, n # 0
        PROVE  g[n - 1] = r[n - 1]
    <3>1. n - 1 \in 0..k
      BY <2>3
    <3> HIDE DEF g
    <3> QED
      BY <2>2, <3>1
  <2>4. g = [n \in 0..k + 1 |-> IF n = 0 THEN First(parser) ELSE Turn(parser, in, g[n - 1], n - 1)]
    BY <2>3
  <2> HIDE DEF g
  <2> QED
    BY <2>4
<1>3. Nat \subseteq T
  <2>1. \A k \in Nat : k \in T => k + 1 \in T
    <3> HIDE DEF Upto
    <3> QED
      BY <1>2
  <2> HIDE DEF T
  <2> QED
    BY <1>1, <2>1, NatSetInduction
<1> QED
  BY <1>3 DEF Reading

(* A parser reads a text in one way only. *)
LEMMA ReadingOnce ==
  ASSUME NEW parser, NEW in, Len(in) \in Nat, NEW r, Reading(parser, in, r),
         NEW g, Reading(parser, in, g)
  PROVE  g = r
<1> DEFINE T == {n \in Nat : n <= Len(in) => g[n] = r[n]}
<1>1. 0 \in T
  BY ReadingAt
<1>2. ASSUME NEW n \in Nat, n <= Len(in) => g[n] = r[n], n + 1 <= Len(in)
      PROVE  g[n + 1] = r[n + 1]
  <2>1. g[n] = r[n] /\ n \in 0..Len(in) - 1
    BY <1>2
  <2> QED
    BY <2>1, ReadingAt
<1>3. Nat \subseteq T
  <2>1. \A n \in Nat : n \in T => n + 1 \in T
    BY <1>2
  <2> HIDE DEF T
  <2> QED
    BY <1>1, <2>1, NatSetInduction
<1>4. \A n \in 0..Len(in) : g[n] = r[n]
  BY <1>3
<1> QED
  BY <1>4 DEF Reading

(* from_text_array() returns what its reading has collected at the end. *)
LEMMA ArrayRead ==
  ASSUME NEW in, Len(in) \in Nat, NEW r, Reading("array", in, r)
  PROVE  from_text_array(in) = r[Len(in)].out
<1> DEFINE Solves(g) == g = [n \in 0..Len(in) |-> IF n = 0 THEN ArrayBegin ELSE ArrayStep(in, g[n - 1], n - 1)]
<1>1. \A g : Reading("array", in, g) <=> Solves(g)
  BY DEF Reading, First, Turn
<1>2. \A g : Solves(g) <=> g = r
  BY <1>1, ReadingOnce
<1>3. r = CHOOSE g : Solves(g)
  <2> HIDE DEF Solves
  <2> QED
    BY <1>2
<1> QED
  BY <1>3, Zenon DEF from_text_array, Loop

(* from_text_composite_value() returns what its reading has collected at the end. *)
LEMMA RecordRead ==
  ASSUME NEW in, Len(in) \in Nat, NEW r, Reading("record", in, r)
  PROVE  from_text_composite_value(in) = r[Len(in)].out
<1> DEFINE Solves(g) == g = [n \in 0..Len(in) |-> IF n = 0 THEN RecordBegin ELSE RecordStep(in, g[n - 1], n - 1)]
<1>1. \A g : Reading("record", in, g) <=> Solves(g)
  BY DEF Reading, First, Turn
<1>2. \A g : Solves(g) <=> g = r
  BY <1>1, ReadingOnce
<1>3. r = CHOOSE g : Solves(g)
  <2> HIDE DEF Solves
  <2> QED
    BY <1>2
<1> QED
  BY <1>3, Zenon DEF from_text_composite_value, Loop

(* from_text_hstore() returns what its reading has collected at the end. *)
LEMMA HstoreRead ==
  ASSUME NEW in, Len(in) \in Nat, NEW r, Reading("hstore", in, r)
  PROVE  from_text_hstore(in) = r[Len(in)].out
<1> DEFINE Solves(g) == g = [n \in 0..Len(in) |-> IF n = 0 THEN HstoreBegin ELSE HstoreStep(in, g[n - 1], n - 1)]
<1>1. \A g : Reading("hstore", in, g) <=> Solves(g)
  BY DEF Reading, First, Turn
<1>2. \A g : Solves(g) <=> g = r
  BY <1>1, ReadingOnce
<1>3. r = CHOOSE g : Solves(g)
  <2> HIDE DEF Solves
  <2> QED
    BY <1>2
<1> QED
  BY <1>3, Zenon DEF from_text_hstore, Loop

(* unescape_hstore_text() returns what its reading has collected at the end. *)
LEMMA UnescapeRead ==
  ASSUME NEW in, Len(in) \in Nat, NEW r, Reading("unescape", in, r)
  PROVE  unescape_hstore_text(in) = r[Len(in)].out
<1> DEFINE Solves(g) == g = [n \in 0..Len(in) |-> IF n = 0 THEN [after |-> FALSE, out |-> <<>>] ELSE UnescapeStep(in, g[n - 1], n - 1)]
<1>1. \A g : Reading("unescape", in, g) <=> Solves(g)
  BY DEF Reading, First, Turn
<1>2. \A g : Solves(g) <=> g = r
  BY <1>1, ReadingOnce
<1>3. r = CHOOSE g : Solves(g)
  <2> HIDE DEF Solves
  <2> QED
    BY <1>2
<1> QED
  BY <1>3, Zenon DEF unescape_hstore_text, Loop

(* The server's list of items is what its reading has closed, and the item it is in. *)
LEMMA ItemsRead ==
  ASSUME NEW in, Len(in) \in Nat, NEW r, Reading("items", in, r)
  PROVE  Items(in) = Append(r[Len(in)].items, r[Len(in)].item)
<1> DEFINE Solves(g) == g = [n \in 0..Len(in) |-> IF n = 0 THEN ItemsBegin ELSE ItemsStep(in, g[n - 1], n - 1)]
<1>1. \A g : Reading("items", in, g) <=> Solves(g)
  BY DEF Reading, First, Turn
<1>2. \A g : Solves(g) <=> g = r
  BY <1>1, ReadingOnce
<1>3. r = CHOOSE g : Solves(g)
  <2> HIDE DEF Solves
  <2> QED
    BY <1>2
<1> QED
  BY <1>3, Zenon DEF Items, Loop

----------------------------------------------------------------------------
(* Characters and pieces of texts *)

(* The special characters are characters, and no two of them are the same. *)
LEMMA Characters ==
  /\ Quote \notin {Escape, Comma, Space, LeftBrace, RightBrace, LeftParenthesis, RightParenthesis, EqualSign, Arrow}
  /\ Escape \notin {Comma, Space, LeftBrace, RightBrace, LeftParenthesis, RightParenthesis, EqualSign, Arrow}
  /\ Comma \notin {Space, LeftBrace, RightBrace, LeftParenthesis, RightParenthesis, EqualSign, Arrow}
  /\ LeftBrace \notin {Space, RightBrace, LeftParenthesis, RightParenthesis, EqualSign, Arrow}
  /\ RightBrace \notin {Space, LeftParenthesis, RightParenthesis, EqualSign, Arrow}
  /\ LeftParenthesis \notin {Space, RightParenthesis, EqualSign, Arrow}
  /\ RightParenthesis \notin {Space, EqualSign, Arrow}
  /\ EqualSign # Arrow
  /\ {Quote, Escape, Comma, Space, LeftBrace, RightBrace, LeftParenthesis, RightParenthesis,
      EqualSign, Arrow, "NULL"} \subseteq Character
BY TextAssumption, Zenon DEF Quote, Escape, Comma, Space, LeftBrace, RightBrace, LeftParenthesis, RightParenthesis,
  EqualSign, Arrow

(* The part of a text that a parser cuts out, and its characters. *)
LEMMA SubstrIs ==
  ASSUME NEW in \in Text, NEW start \in Nat, NEW end \in Int, start <= end + 1, end + 1 <= Len(in)
  PROVE  /\ Substr(in, start, end) = SubSeq(in, start + 1, end + 1)
         /\ Substr(in, start, end) \in Text
         /\ Len(Substr(in, start, end)) = end + 1 - start
         /\ \A i \in 1..end + 1 - start : Substr(in, start, end)[i] = in[start + i]
<1>1. Len(in) \in Nat
  BY LenProperties DEF Text
<1>2. Min({end + 1, Len(in)}) = end + 1
  <2> DEFINE m == Min({end + 1, Len(in)})
  <2>1. \E x \in {end + 1, Len(in)} : \A y \in {end + 1, Len(in)} : x <= y
    BY <1>1
  <2>2. m \in {end + 1, Len(in)} /\ \A y \in {end + 1, Len(in)} : m <= y
    BY <2>1, Zenon DEF Min
  <2> QED
    BY <1>1, <2>2
<1>3. Substr(in, start, end) = SubSeq(in, start + 1, end + 1)
  BY <1>2, ~(end < start - 1) DEF Substr
<1>4. \A i \in start + 1..end + 1 : in[i] \in Character
  BY <1>1, ElementOfSeq DEF Text
<1> QED
  BY <1>3, <1>4, SubSeqProperties DEF Text

----------------------------------------------------------------------------
(* from_text_array(), one character at a time *)

ArrayState == [depth : Int, quoted : BOOLEAN, start : Int, end : Int, next : Int,
               resume : Int, done : BOOLEAN, out : Seq(Text)]

(* The loop is inside of the outermost braces, about to read position i. *)
InArray(s, i, quoted, start, out) ==
  /\ s \in ArrayState
  /\ s.depth = 1 /\ s.end = 0 /\ ~s.done /\ s.resume <= i
  /\ s.quoted <=> quoted
  /\ s.start = start /\ s.out = out

(* The brace that opens an array starts its first member. *)
LEMMA ArrayOpens ==
  ASSUME NEW in, At(in, 0) = LeftBrace
  PROVE  InArray(ArrayStep(in, ArrayBegin, 0), 1, FALSE, 1, <<>>)
<1> DEFINE s == ArrayBegin
           t == [s EXCEPT !.depth = s.depth + 1, !.start = IF s.depth = 0 THEN 0 + 1 ELSE s.start]
<1>1. s \in ArrayState /\ s.depth = 0 /\ s.end = 0 /\ ~s.done /\ s.resume = 0 /\ ~s.quoted /\ s.out = <<>>
  BY EmptySeq DEF ArrayState, ArrayBegin
<1> HIDE DEF s
<1>2. Mark(in, s, 0, LeftBrace, RightBrace) = t
  BY <1>1, Characters DEF Mark, QuoteAt
<1>3. t \in ArrayState /\ t.depth = 1 /\ t.start = 1 /\ t.end = 0 /\ ~t.done /\ t.resume = 0
      /\ ~t.quoted /\ t.out = <<>>
  BY <1>1, s.depth + 1 \in Int, 0 + 1 \in Int, 0 + 1 = 1 DEF ArrayState
<1> HIDE DEF t
<1>4. ArrayStep(in, s, 0) = t
  BY <1>1, <1>2, <1>3 DEF ArrayStep, Complete
<1> QED
  BY <1>3, <1>4 DEF InArray, s

(* A plain character outside quotes changes nothing. *)
LEMMA ArrayPassesPlain ==
  ASSUME NEW in, NEW s, NEW i \in Nat, NEW start, NEW out, InArray(s, i, FALSE, start, out),
         At(in, i) \notin {LeftBrace, RightBrace, Comma, Quote}
  PROVE  ArrayStep(in, s, i) = s
<1>1. Mark(in, s, i, LeftBrace, RightBrace) = s
  BY DEF Mark, QuoteAt
<1> QED
  BY <1>1 DEF ArrayStep, Complete, InArray, ArrayState

(* A character between quotes, other than the closing quote, changes nothing. *)
LEMMA ArrayPassesQuoted ==
  ASSUME NEW in, NEW s, NEW i \in Nat, NEW start, NEW out, InArray(s, i, TRUE, start, out),
         ~QuoteAt(in, i)
  PROVE  ArrayStep(in, s, i) = s
<1>1. Mark(in, s, i, LeftBrace, RightBrace) = s
  BY DEF Mark, InArray
<1> QED
  BY <1>1 DEF ArrayStep, Complete, InArray, ArrayState

(* A quote starts a quoted member right after itself. *)
LEMMA ArrayQuoteOpens ==
  ASSUME NEW in, NEW s, NEW i \in Nat, NEW start, NEW out, InArray(s, i, FALSE, start, out),
         QuoteAt(in, i)
  PROVE  InArray(ArrayStep(in, s, i), i + 1, TRUE, i + 1, out)
<1> DEFINE t == [s EXCEPT !.start = i + 1, !.quoted = TRUE]
<1>1. Mark(in, s, i, LeftBrace, RightBrace) = t
  BY Characters DEF Mark, InArray, QuoteAt
<1>2. t \in ArrayState /\ t.depth = 1 /\ t.start = i + 1 /\ t.end = 0 /\ ~t.done /\ t.resume <= i + 1
      /\ t.quoted /\ t.out = out
  <2>1. t \in ArrayState
    BY i + 1 \in Int DEF InArray, ArrayState
  <2>2. t.depth = 1 /\ t.start = i + 1 /\ t.end = 0 /\ t.out = out
    BY i + 1 \in Int DEF InArray, ArrayState
  <2>3. ~t.done /\ t.resume <= i + 1 /\ t.quoted
    BY DEF InArray, ArrayState
  <2> HIDE DEF t
  <2> QED
    BY <2>1, <2>2, <2>3
<1> HIDE DEF t
<1>3. ArrayStep(in, s, i) = t
  BY <1>1, <1>2 DEF ArrayStep, Complete, InArray, ArrayState
<1> QED
  BY <1>2, <1>3 DEF InArray

(* An item ends before position i, and another one may begin at next. *)
LEMMA ArrayPushes ==
  ASSUME NEW in, NEW s \in ArrayState, s.next > 0, Without(Substr(in, s.start, s.end), Escape) \in Text,
         s.depth = 1, ~s.quoted
  PROVE  InArray(PushMember(in, s), s.next, FALSE, s.next,
                 Append(s.out, Without(Substr(in, s.start, s.end), Escape)))
<1> DEFINE w == Without(Substr(in, s.start, s.end), Escape)
           t == [s EXCEPT !.out = Append(@, w), !.done = s.next = 0, !.end = 0, !.start = s.next,
                          !.resume = s.next]
<1>1. w \in Text /\ PushMember(in, s) = t
  BY DEF PushMember
<1> HIDE DEF w
<1>2. Append(s.out, w) \in Seq(Text)
  BY <1>1, AppendProperties DEF ArrayState
<1>3. t \in ArrayState /\ t.depth = 1 /\ t.start = s.next /\ t.end = 0 /\ ~t.done /\ t.resume = s.next
      /\ ~t.quoted /\ t.out = Append(s.out, w)
  <2>1. ASSUME NEW d \in BOOLEAN
        PROVE  [s EXCEPT !.out = Append(@, w), !.done = d, !.end = 0, !.start = s.next,
                         !.resume = s.next] \in ArrayState
    BY <1>2, 0 \in Int DEF ArrayState
  <2>2. t \in ArrayState
    BY <2>1
  <2>3. t.depth = 1 /\ t.start = s.next /\ t.end = 0 /\ t.resume = s.next
    BY <1>2, 0 \in Int DEF ArrayState
  <2>4. ~t.done
    BY <1>2, s.next # 0 DEF ArrayState
  <2>5. ~t.quoted /\ t.out = Append(s.out, w)
    BY <1>2 DEF ArrayState
  <2> HIDE DEF t
  <2> QED
    BY <2>2, <2>3, <2>4, <2>5
<1> HIDE DEF t
<1> QED
  BY <1>1, <1>3 DEF InArray, ArrayState, w

(* A comma ends an item without quotes, and the next one begins after it. *)
LEMMA ArrayComma ==
  ASSUME NEW in, NEW s, NEW i \in Nat, NEW start, NEW out, InArray(s, i, FALSE, start, out),
         At(in, i) = Comma, start > 0, i > 1, Without(Substr(in, start, i - 1), Escape) \in Text
  PROVE  InArray(ArrayStep(in, s, i), i + 1, FALSE, i + 1,
                 Append(out, Without(Substr(in, start, i - 1), Escape)))
<1> DEFINE t == [s EXCEPT !.end = i - 1, !.next = i + 1]
<1>1. Mark(in, s, i, LeftBrace, RightBrace) = t
  BY Characters DEF Mark, InArray, QuoteAt
<1>2. t \in ArrayState /\ t.depth = 1 /\ t.start = start /\ t.end = i - 1 /\ t.next = i + 1 /\ ~t.quoted /\ t.out = out
  BY i - 1 \in Int, i + 1 \in Int DEF InArray, ArrayState
<1> HIDE DEF t
<1>3. ArrayStep(in, s, i) = PushMember(in, t)
  BY <1>1, <1>2 DEF ArrayStep, Complete, InArray, ArrayState
<1>4. InArray(PushMember(in, t), t.next, FALSE, t.next, Append(t.out, Without(Substr(in, t.start, t.end), Escape)))
  BY <1>2, ArrayPushes, i + 1 > 0
<1> QED
  BY <1>2, <1>3, <1>4

(* A quote ends an item, and the character after it is not read. *)
LEMMA ArrayQuoteCloses ==
  ASSUME NEW in, NEW s, NEW i \in Nat, NEW start, NEW out, InArray(s, i, TRUE, start, out),
         QuoteAt(in, i), start > 0, i > 1, Without(Substr(in, start, i - 1), Escape) \in Text
  PROVE  /\ InArray(ArrayStep(in, s, i), i + 2, FALSE, i + 2,
                    Append(out, Without(Substr(in, start, i - 1), Escape)))
         /\ ArrayStep(in, ArrayStep(in, s, i), i + 1) = ArrayStep(in, s, i)
<1> DEFINE t == [s EXCEPT !.end = i - 1, !.next = i + 2, !.quoted = FALSE]
<1>1. Mark(in, s, i, LeftBrace, RightBrace) = t
  BY Characters DEF Mark, InArray, QuoteAt
<1>2. t \in ArrayState /\ t.depth = 1 /\ t.start = start /\ t.end = i - 1 /\ t.next = i + 2 /\ ~t.quoted /\ t.out = out
  BY i - 1 \in Int, i + 2 \in Int DEF InArray, ArrayState
<1> HIDE DEF t
<1>3. ArrayStep(in, s, i) = PushMember(in, t)
  BY <1>1, <1>2 DEF ArrayStep, Complete, InArray, ArrayState
<1>4. PushMember(in, t).resume = i + 2
  BY <1>2 DEF PushMember, ArrayState
<1>5. ArrayStep(in, PushMember(in, t), i + 1) = PushMember(in, t)
  BY <1>4 DEF ArrayStep
<1>6. InArray(PushMember(in, t), t.next, FALSE, t.next, Append(t.out, Without(Substr(in, t.start, t.end), Escape)))
  BY <1>2, ArrayPushes, i + 2 > 0
<1> QED
  BY <1>2, <1>3, <1>5, <1>6

(* The last brace ends an item without quotes. *)
LEMMA ArrayCloses ==
  ASSUME NEW in, NEW s, NEW i \in Nat, NEW start, NEW out, InArray(s, i, FALSE, start, out),
         At(in, i) = RightBrace, start > 0, i > 1
  PROVE  ArrayStep(in, s, i).out = Append(out, Without(Substr(in, start, i - 1), Escape))
<1> DEFINE t == [s EXCEPT !.depth = 0, !.end = i - 1, !.next = 0]
<1>1. Mark(in, s, i, LeftBrace, RightBrace) = t
  BY Characters DEF Mark, InArray, QuoteAt
<1>2. t \in ArrayState /\ t.start = start /\ t.end = i - 1 /\ t.out = out
  BY i - 1 \in Int, 0 \in Int DEF InArray, ArrayState
<1> HIDE DEF t
<1>3. ArrayStep(in, s, i) = PushMember(in, t)
  BY <1>1, <1>2 DEF ArrayStep, Complete, InArray, ArrayState
<1>4. PushMember(in, t).out = Append(out, Without(Substr(in, start, i - 1), Escape))
  BY <1>2 DEF PushMember, ArrayState
<1> QED
  BY <1>3, <1>4

----------------------------------------------------------------------------
(* Where the pieces of a text are *)

(* Each of the pieces that FlattenSeq() joins is somewhere in the result: at[k]
   is where the k-th one ends. *)
Places(s, at) ==
  /\ at \in [0..Len(s) -> Nat]
  /\ at[0] = 0 /\ at[Len(s)] = Len(FlattenSeq(s))
  /\ \A k \in 1..Len(s) :
       /\ at[k] = at[k - 1] + Len(s[k]) /\ at[k] <= Len(FlattenSeq(s))
       /\ \A j \in 1..Len(s[k]) : FlattenSeq(s)[at[k - 1] + j] = s[k][j]

(* Every piece of a concatenation has its place in it. *)
LEMMA FlattenPlaces ==
  ASSUME NEW X, NEW s \in Seq(Seq(X))
  PROVE  \E at : Places(s, at)
<1> DEFINE T == {t \in Seq(Seq(X)) : \E at : Places(t, at)}
<1>1. <<>> \in T
  <2> DEFINE at == [k \in 0..0 |-> 0]
  <2>1. Len(<<>>) = 0
    BY EmptySeq
  <2>2. Places(<<>>, at)
    BY <2>1, FlattenEmpty DEF Places
  <2> HIDE DEF at
  <2> QED
    BY <2>2, EmptySeq
<1>2. ASSUME NEW t \in Seq(Seq(X)), NEW e \in Seq(X), NEW at, Places(t, at)
      PROVE  \E new : Places(Append(t, e), new)
  <2> DEFINE u == Append(t, e)
             n == Len(t)
             new == [k \in 0..n + 1 |-> IF k = n + 1 THEN at[n] + Len(e) ELSE at[k]]
             F == FlattenSeq(t)
             G == FlattenSeq(u)
  <2>1. n \in Nat /\ Len(u) = n + 1 /\ (\A k \in 1..n : u[k] = t[k]) /\ u[n + 1] = e
        /\ u \in Seq(Seq(X)) /\ Len(e) \in Nat
    BY AppendProperties, LenProperties
  <2>2. F \in Seq(X) /\ G = F \o e
    BY FlattenType, FlattenAppend
  <2>3. Len(F) \in Nat /\ Len(G) = Len(F) + Len(e)
        /\ (\A i \in 1..Len(F) : G[i] = F[i]) /\ (\A j \in 1..Len(e) : G[Len(F) + j] = e[j])
    <3>1. \A i \in 1..Len(F) + Len(e) : G[i] = IF i <= Len(F) THEN F[i] ELSE e[i - Len(F)]
      BY <2>2, ConcatProperties
    <3>2. Len(F) \in Nat /\ Len(G) = Len(F) + Len(e)
      BY <2>2, ConcatProperties, LenProperties
    <3>3. \A i \in 1..Len(F) : G[i] = F[i]
      BY <2>1, <3>1, <3>2
    <3>4. ASSUME NEW j \in 1..Len(e) PROVE G[Len(F) + j] = e[j]
      BY <2>1, <3>1, <3>2, Len(F) + j \in 1..Len(F) + Len(e), ~(Len(F) + j <= Len(F)), (Len(F) + j) - Len(F) = j
    <3> QED
      BY <3>2, <3>3, <3>4
  <2> HIDE DEF F, G, u
  <2>4. at \in [0..n -> Nat] /\ at[0] = 0 /\ at[n] = Len(F)
        /\ \A k \in 1..n : at[k] = at[k - 1] + Len(t[k]) /\ at[k] <= Len(F)
                           /\ \A j \in 1..Len(t[k]) : F[at[k - 1] + j] = t[k][j]
    BY <1>2 DEF Places, F
  <2>5. new \in [0..n + 1 -> Nat] /\ new[0] = 0 /\ new[n + 1] = Len(G)
        /\ (\A k \in 0..n : new[k] = at[k])
    <3>1. n \in 0..n /\ at[n] + Len(e) \in Nat /\ (\A k \in 0..n + 1 : k # n + 1 => k \in 0..n)
      BY <2>1, <2>4
    <3> QED
      BY <2>1, <2>3, <2>4, <3>1
  <2> HIDE DEF new
  <2>6. ASSUME NEW k \in 1..n
        PROVE  /\ new[k] = new[k - 1] + Len(u[k]) /\ new[k] <= Len(G)
               /\ \A j \in 1..Len(u[k]) : G[new[k - 1] + j] = u[k][j]
    <3>1. u[k] = t[k] /\ new[k] = at[k] /\ new[k - 1] = at[k - 1] /\ at[k] \in Nat /\ at[k - 1] \in Nat
          /\ k - 1 \in 0..n
      <4>1. k - 1 \in 0..n /\ k \in 0..n
        BY <2>1
      <4> QED
        BY <2>1, <2>4, <2>5, <4>1
    <3>2. at[k] = at[k - 1] + Len(t[k]) /\ at[k] <= Len(F) /\ \A j \in 1..Len(t[k]) : F[at[k - 1] + j] = t[k][j]
      BY <2>4
    <3>3. Len(t[k]) \in Nat
      BY <2>1, ElementOfSeq, LenProperties
    <3>4. ASSUME NEW j \in 1..Len(t[k]) PROVE G[at[k - 1] + j] = t[k][j]
      <4>1. at[k - 1] + j \in 1..Len(F)
        <5>1. PICK x \in Nat, y \in Nat, m \in Nat, f \in Nat :
                x = at[k - 1] /\ y = at[k] /\ m = Len(t[k]) /\ f = Len(F)
          BY ONLY <2>3, <3>1, <3>3
        <5>2. y = x + m /\ y <= f
          BY ONLY <3>2, <5>1
        <5>3. j \in 1..m
          BY <5>1
        <5>4. x + j \in 1..f
          BY ONLY <5>2, <5>3, x \in Nat, m \in Nat, f \in Nat
        <5> QED
          BY ONLY <5>1, <5>4
      <4> QED
        BY <2>3, <3>2, <4>1
    <3> QED
      BY <2>1, <2>3, <3>1, <3>2, <3>4
  <2>7. /\ new[n + 1] = new[(n + 1) - 1] + Len(u[n + 1]) /\ new[n + 1] <= Len(G)
        /\ \A j \in 1..Len(u[n + 1]) : G[new[(n + 1) - 1] + j] = u[n + 1][j]
    <3>1. (n + 1) - 1 = n /\ n \in 0..n /\ Len(G) <= Len(G)
      BY <2>1, <2>3
    <3>2. new[n] = Len(F) /\ new[n + 1] = Len(F) + Len(e)
      BY <2>3, <2>4, <2>5, <3>1
    <3> QED
      BY <2>1, <2>3, <2>5, <3>1, <3>2
  <2>8. Places(u, new)
    <3>1. \A k \in 1..n + 1 : k \in 1..n \/ k = n + 1
      BY <2>1
    <3>2. \A k \in 1..n + 1 : /\ new[k] = new[k - 1] + Len(u[k]) /\ new[k] <= Len(G)
                              /\ \A j \in 1..Len(u[k]) : G[new[k - 1] + j] = u[k][j]
      BY <2>6, <2>7, <3>1
    <3> QED
      BY <2>1, <2>5, <3>2 DEF Places, G
  <2> QED
    BY <2>8 DEF u
<1>3. \A t \in Seq(Seq(X)), e \in Seq(X) : t \in T => Append(t, e) \in T
  BY <1>2, AppendProperties
<1>4. Seq(Seq(X)) \subseteq T
  <2> HIDE DEF T
  <2> QED
    BY <1>1, <1>3, SeqSetInduction
<1> QED
  BY <1>4

----------------------------------------------------------------------------
(* Texts that are written character by character *)

(* What f makes of the elements of t. *)
Each(f, t) == FlattenSeq([n \in DOMAIN t |-> f[t[n]]])

(* Writing out one more character appends what that character becomes. *)
LEMMA EachAppend ==
  ASSUME NEW S, NEW X, NEW f \in [S -> Seq(X)], NEW t \in Seq(S), NEW c \in S
  PROVE  /\ Each(f, Append(t, c)) = Each(f, t) \o f[c]
         /\ Each(f, t) \in Seq(X)
<1> DEFINE u == Append(t, c)
           g == [n \in DOMAIN t |-> f[t[n]]]
           h == [n \in DOMAIN u |-> f[u[n]]]
<1>1. u \in Seq(S) /\ Len(u) = Len(t) + 1 /\ Len(t) \in Nat /\ (\A i \in 1..Len(t) : u[i] = t[i])
      /\ u[Len(t) + 1] = c /\ DOMAIN t = 1..Len(t) /\ DOMAIN u = 1..Len(u)
  BY AppendProperties, LenProperties
<1>2. g \in Seq(Seq(X)) /\ Len(g) = Len(t) /\ \A i \in 1..Len(t) : g[i] = f[t[i]]
  <2>1. \A i \in 1..Len(t) : f[t[i]] \in Seq(X)
    BY ElementOfSeq
  <2> QED
    BY <1>1, <2>1, IsASeq
<1>3. h \in Seq(Seq(X)) /\ Len(h) = Len(u) /\ \A i \in 1..Len(u) : h[i] = f[u[i]]
  <2>1. \A i \in 1..Len(u) : f[u[i]] \in Seq(X)
    BY <1>1, ElementOfSeq
  <2> HIDE DEF u
  <2> QED
    BY <1>1, <2>1, IsASeq
<1> HIDE DEF u, g, h
<1>4. Append(g, f[c]) \in Seq(Seq(X)) /\ Len(Append(g, f[c])) = Len(g) + 1
      /\ (\A i \in 1..Len(g) : Append(g, f[c])[i] = g[i]) /\ Append(g, f[c])[Len(g) + 1] = f[c]
  BY <1>2, AppendProperties
<1>5. h = Append(g, f[c])
  <2>1. Len(h) = Len(Append(g, f[c]))
    BY <1>1, <1>2, <1>3, <1>4
  <2>2. ASSUME NEW i \in 1..Len(h) PROVE h[i] = Append(g, f[c])[i]
    <3>1. i \in 1..Len(t) \/ i = Len(t) + 1
      BY <1>1, <1>3
    <3> QED
      BY <1>1, <1>2, <1>3, <1>4, <3>1
  <2> QED
    BY <1>3, <1>4, <2>1, <2>2, SeqEqual
<1>6. FlattenSeq(h) = FlattenSeq(g) \o f[c] /\ FlattenSeq(g) \in Seq(X)
  BY <1>2, <1>5, FlattenAppend, FlattenType
<1> QED
  BY <1>6 DEF u, g, h, Each

(* Nothing is removed from, put before or doubled in an empty text. *)
LEMMA NoneWritten ==
  /\ \A c : Without(<<>>, c) = <<>>
  /\ \A special : EscapeIn(<<>>, special) = <<>>
  /\ Doubled(<<>>) = <<>>
<1>1. \A f : [n \in DOMAIN <<>> |-> f[n]] = <<>>
  OBVIOUS
<1> QED
  BY FlattenEmpty DEF Without, EscapeIn, Doubled

(* Removing a character from a text, one character further. *)
LEMMA WithoutAppend ==
  ASSUME NEW t \in Text, NEW c \in Character, NEW d
  PROVE  /\ Without(Append(t, c), d) = IF c = d THEN Without(t, d) ELSE Append(Without(t, d), c)
         /\ Without(t, d) \in Text
<1> DEFINE f == [x \in Character |-> IF x = d THEN <<>> ELSE <<x>>]
           u == Append(t, c)
<1>1. f \in [Character -> Text]
  BY EmptySeq DEF Text
<1>2. u \in Text /\ \A s \in Text : \A n \in DOMAIN s : s[n] \in Character
  BY AppendProperties, ElementOfSeq, LenProperties DEF Text
<1>3. \A s \in Text : Without(s, d) = Each(f, s)
  <2> SUFFICES ASSUME NEW s \in Text
               PROVE  [n \in DOMAIN s |-> IF s[n] = d THEN <<>> ELSE <<s[n]>>] = [n \in DOMAIN s |-> f[s[n]]]
    BY DEF Without, Each
  <2> QED
    BY <1>2
<1> HIDE DEF f
<1>4. Without(u, d) = Without(t, d) \o f[c] /\ Without(t, d) \in Text
  <2>1. Each(f, u) = Each(f, t) \o f[c] /\ Each(f, t) \in Text
    BY <1>1, EachAppend DEF Text
  <2> HIDE DEF u
  <2> QED
    BY <1>2, <1>3, <2>1
<1>5. CASE c = d
  <2>1. f[c] = <<>>
    BY <1>5 DEF f
  <2> QED
    BY <1>4, <1>5, <2>1, ConcatEmptySeq DEF Text
<1>6. CASE c # d
  <2>1. f[c] = <<c>>
    BY <1>6 DEF f
  <2> QED
    BY <1>4, <1>6, <2>1, AppendIsConcat DEF Text
<1> QED
  BY <1>5, <1>6

(* Escaping a text, one character further. *)
LEMMA EscapeAppend ==
  ASSUME NEW t \in Text, NEW c \in Character, NEW special
  PROVE  /\ EscapeIn(Append(t, c), special) = EscapeIn(t, special) \o (IF c \in special THEN <<Escape, c>> ELSE <<c>>)
         /\ EscapeIn(t, special) \in Text
<1> DEFINE f == [x \in Character |-> IF x \in special THEN <<Escape, x>> ELSE <<x>>]
           u == Append(t, c)
<1>1. f \in [Character -> Text]
  <2>1. \A x \in Character : <<Escape, x>> \in Seq(Character) /\ <<x>> \in Seq(Character)
    BY Characters
  <2> QED
    BY <2>1 DEF Text
<1>2. u \in Text /\ \A s \in Text : \A n \in DOMAIN s : s[n] \in Character
  BY AppendProperties, ElementOfSeq, LenProperties DEF Text
<1>3. \A s \in Text : EscapeIn(s, special) = Each(f, s)
  <2> SUFFICES ASSUME NEW s \in Text
               PROVE  [n \in DOMAIN s |-> IF s[n] \in special THEN <<Escape, s[n]>> ELSE <<s[n]>>]
                        = [n \in DOMAIN s |-> f[s[n]]]
    BY DEF EscapeIn, Each
  <2> QED
    BY <1>2
<1>4. f[c] = IF c \in special THEN <<Escape, c>> ELSE <<c>>
  OBVIOUS
<1> HIDE DEF f
<1>5. Each(f, u) = Each(f, t) \o f[c] /\ Each(f, t) \in Text
  BY <1>1, EachAppend DEF Text
<1> HIDE DEF u
<1> QED
  BY <1>2, <1>3, <1>4, <1>5 DEF u

(* Doubling the quotes and backslashes of a text, one character further. *)
LEMMA DoubledAppend ==
  ASSUME NEW t \in Text, NEW c \in Character
  PROVE  /\ Doubled(Append(t, c)) = Doubled(t) \o (IF c \in {Quote, Escape} THEN <<c, c>> ELSE <<c>>)
         /\ Doubled(t) \in Text
<1> DEFINE f == [x \in Character |-> IF x \in {Quote, Escape} THEN <<x, x>> ELSE <<x>>]
           u == Append(t, c)
<1>1. f \in [Character -> Text]
  <2>1. \A x \in Character : <<x, x>> \in Seq(Character) /\ <<x>> \in Seq(Character)
    OBVIOUS
  <2> QED
    BY <2>1 DEF Text
<1>2. u \in Text /\ \A s \in Text : \A n \in DOMAIN s : s[n] \in Character
  BY AppendProperties, ElementOfSeq, LenProperties DEF Text
<1>3. \A s \in Text : Doubled(s) = Each(f, s)
  <2> SUFFICES ASSUME NEW s \in Text
               PROVE  [n \in DOMAIN s |-> IF s[n] \in {Quote, Escape} THEN <<s[n], s[n]>> ELSE <<s[n]>>]
                        = [n \in DOMAIN s |-> f[s[n]]]
    BY DEF Doubled, Each
  <2> QED
    BY <1>2
<1>4. f[c] = IF c \in {Quote, Escape} THEN <<c, c>> ELSE <<c>>
  OBVIOUS
<1> HIDE DEF f
<1>5. Each(f, u) = Each(f, t) \o f[c] /\ Each(f, t) \in Text
  BY <1>1, EachAppend DEF Text
<1> HIDE DEF u
<1> QED
  BY <1>2, <1>3, <1>4, <1>5 DEF u

(* A property of texts that each character more keeps. *)
LEMMA TextInduction ==
  ASSUME NEW T, <<>> \in T, \A t \in Text, c \in Character : t \in T => Append(t, c) \in T
  PROVE  Text \subseteq T
BY SeqSetInduction DEF Text

(* A text with one more character: its length and its characters. *)
LEMMA TextAppend ==
  ASSUME NEW t \in Text, NEW c \in Character
  PROVE  /\ Append(t, c) \in Text /\ Len(Append(t, c)) = Len(t) + 1 /\ Len(t) \in Nat
         /\ DOMAIN t = 1..Len(t) /\ DOMAIN Append(t, c) = 1..Len(t) + 1
         /\ (\A i \in 1..Len(t) : Append(t, c)[i] = t[i]) /\ Append(t, c)[Len(t) + 1] = c
BY AppendProperties, LenProperties DEF Text

(* The empty text. *)
LEMMA NoCharacters == <<>> \in Text /\ Len(<<>>) = 0 /\ 1..Len(<<>>) = {}
BY EmptySeq DEF Text

(* A text has a length, and a character at every position up to it. *)
LEMMA TextLength == \A t \in Text : Len(t) \in Nat /\ DOMAIN t = 1..Len(t) /\ \A i \in 1..Len(t) : t[i] \in Character
BY LenProperties, ElementOfSeq DEF Text

(* Removing a character that a text does not have leaves the text. *)
LEMMA NothingToRemove ==
  ASSUME NEW w \in Text, NEW d, \A i \in 1..Len(w) : w[i] # d
  PROVE  Without(w, d) = w
<1> DEFINE T == {t \in Text : (\A i \in 1..Len(t) : t[i] # d) => Without(t, d) = t}
<1>1. <<>> \in T
  BY NoCharacters, NoneWritten
<1>2. ASSUME NEW t \in Text, NEW c \in Character, t \in T
      PROVE  Append(t, c) \in T
  <2> DEFINE u == Append(t, c)
  <2>1. u \in Text /\ Len(u) = Len(t) + 1 /\ Len(t) \in Nat /\ (\A i \in 1..Len(t) : u[i] = t[i]) /\ u[Len(t) + 1] = c
    BY TextAppend
  <2>2. Without(u, d) = IF c = d THEN Without(t, d) ELSE Append(Without(t, d), c)
    BY WithoutAppend
  <2> SUFFICES ASSUME \A i \in 1..Len(u) : u[i] # d PROVE Without(u, d) = Append(t, c)
    BY <2>1
  <2> HIDE DEF u
  <2>3. c # d /\ \A i \in 1..Len(t) : t[i] # d
    BY <2>1
  <2> QED
    BY <1>2, <2>2, <2>3
<1>3. Text \subseteq T
  <2>1. \A t \in Text, c \in Character : t \in T => Append(t, c) \in T
    BY <1>2
  <2> HIDE DEF T
  <2> QED
    BY <1>1, <2>1, TextInduction
<1> QED
  BY <1>3

(* What double_quote() puts between the quotes, for a text without escape
   characters: each quote has an escape character before it and none is at the
   end, and from_text_array() gets the text back. *)
LEMMA EscapedText ==
  ASSUME NEW w \in Text, \A i \in 1..Len(w) : w[i] # Escape,
         NEW e, e = EscapeIn(w, {Quote, Escape})
  PROVE  /\ e \in Text /\ Without(e, Escape) = w
         /\ \A j \in 1..Len(e) : e[j] = Quote => j > 1 /\ e[j - 1] = Escape
         /\ Len(e) > 0 => e[Len(e)] # Escape
<1> DEFINE Good(v) == LET x == EscapeIn(v, {Quote, Escape}) IN
             /\ x \in Text /\ Without(x, Escape) = v
             /\ \A j \in 1..Len(x) : x[j] = Quote => j > 1 /\ x[j - 1] = Escape
             /\ Len(x) > 0 => x[Len(x)] # Escape
           T == {t \in Text : (\A i \in 1..Len(t) : t[i] # Escape) => Good(t)}
<1>1. <<>> \in T
  <2>1. EscapeIn(<<>>, {Quote, Escape}) = <<>> /\ Without(<<>>, Escape) = <<>>
    BY NoneWritten
  <2>2. Good(<<>>)
    <3> DEFINE x == EscapeIn(<<>>, {Quote, Escape})
    <3>1. x = <<>>
      BY <2>1
    <3> HIDE DEF x
    <3>2. x \in Text /\ Without(x, Escape) = <<>> /\ Len(x) = 0
      BY <2>1, <3>1, NoCharacters
    <3>3. /\ \A j \in 1..Len(x) : x[j] = Quote => j > 1 /\ x[j - 1] = Escape
          /\ Len(x) > 0 => x[Len(x)] # Escape
      BY <3>2
    <3> QED
      BY <3>2, <3>3, Zenon DEF x
  <2> HIDE DEF Good
  <2> QED
    BY <2>2, NoCharacters
<1>2. ASSUME NEW t \in Text, NEW c \in Character, t \in T
      PROVE  Append(t, c) \in T
  <2> DEFINE u == Append(t, c)
             x == EscapeIn(t, {Quote, Escape})
             y == EscapeIn(u, {Quote, Escape})
  <2>1. u \in Text /\ Len(u) = Len(t) + 1 /\ Len(t) \in Nat /\ (\A i \in 1..Len(t) : u[i] = t[i]) /\ u[Len(t) + 1] = c
    BY TextAppend
  <2> SUFFICES ASSUME \A i \in 1..Len(u) : u[i] # Escape PROVE Good(u)
    BY <2>1
  <2>2. c # Escape /\ \A i \in 1..Len(t) : t[i] # Escape
    <3> HIDE DEF u
    <3> QED
      BY <2>1
  <2>3. Good(t)
    <3> HIDE DEF Good
    <3> QED
      BY <1>2, <2>2
  <2>4. x \in Text /\ Without(x, Escape) = t
        /\ (\A j \in 1..Len(x) : x[j] = Quote => j > 1 /\ x[j - 1] = Escape)
        /\ (Len(x) > 0 => x[Len(x)] # Escape)
    BY <2>3
  <2>5. y = x \o (IF c \in {Quote, Escape} THEN <<Escape, c>> ELSE <<c>>)
    BY EscapeAppend, ZenonT(30)
  <2> HIDE DEF Good, x, y
  <2>6. y \in Text /\ Without(y, Escape) = u
        /\ (\A j \in 1..Len(y) : y[j] = Quote => j > 1 /\ y[j - 1] = Escape)
        /\ (Len(y) > 0 => y[Len(y)] # Escape)
    <3>1. CASE c = Quote
      <4> DEFINE z == Append(x, Escape)
      <4>1. y = Append(z, c)
        <5>1. \A s \in Seq(Character) : \A a, b : s \o <<a, b>> = Append(Append(s, a), b)
          OBVIOUS
        <5> QED
          BY <2>4, <2>5, <3>1, <5>1 DEF Text
      <4>2. z \in Text /\ Len(z) = Len(x) + 1 /\ Len(x) \in Nat /\ (\A i \in 1..Len(x) : z[i] = x[i]) /\ z[Len(x) + 1] = Escape
        BY <2>4, TextAppend, Characters
      <4>3. Without(z, Escape) = t
        BY <2>4, WithoutAppend, Characters
      <4> HIDE DEF z
      <4>4. y \in Text /\ Len(y) = Len(z) + 1 /\ (\A i \in 1..Len(z) : y[i] = z[i]) /\ y[Len(z) + 1] = c
        BY <4>1, <4>2, TextAppend
      <4>5. Without(y, Escape) = u
        BY <2>2, <4>1, <4>2, <4>3, WithoutAppend
      <4>6. ASSUME NEW j \in 1..Len(y), y[j] = Quote PROVE j > 1 /\ y[j - 1] = Escape
        <5>1. CASE j \in 1..Len(x)
          <6>1. x[j] = Quote /\ j - 1 \in Int
            BY <4>2, <4>4, <4>6, <5>1
          <6>2. j > 1 /\ x[j - 1] = Escape
            BY <2>4, <5>1, <6>1
          <6>3. j - 1 \in 1..Len(x) /\ j - 1 \in 1..Len(z)
            BY <4>2, <5>1, <6>2
          <6> QED
            BY <4>2, <4>4, <6>2, <6>3
        <5>2. CASE j = Len(x) + 1
          BY <4>2, <4>4, <4>6, <5>2, Characters
        <5>3. CASE j = Len(x) + 2
          <6>1. j - 1 = Len(x) + 1 /\ j - 1 \in 1..Len(z) /\ j > 1
            BY <4>2, <5>3
          <6> QED
            BY <4>2, <4>4, <6>1
        <5> QED
          BY <4>2, <4>4, <5>1, <5>2, <5>3
      <4>7. y[Len(y)] # Escape
        BY <2>2, <4>4
      <4> QED
        BY <4>4, <4>5, <4>6, <4>7
    <3>2. CASE c # Quote
      <4>1. y = Append(x, c)
        BY <2>2, <2>4, <2>5, <3>2, AppendIsConcat DEF Text
      <4>2. y \in Text /\ Len(y) = Len(x) + 1 /\ Len(x) \in Nat /\ (\A i \in 1..Len(x) : y[i] = x[i]) /\ y[Len(x) + 1] = c
        BY <2>4, <4>1, TextAppend
      <4>3. Without(y, Escape) = u
        BY <2>2, <2>4, <4>1, WithoutAppend
      <4>4. ASSUME NEW j \in 1..Len(y), y[j] = Quote PROVE j > 1 /\ y[j - 1] = Escape
        <5>1. j \in 1..Len(x)
          BY <3>2, <4>2, <4>4
        <5>2. j > 1 /\ x[j - 1] = Escape
          BY <2>4, <4>2, <4>4, <5>1
        <5> QED
          BY <4>2, <5>1, <5>2, j - 1 \in 1..Len(x)
      <4>5. y[Len(y)] # Escape
        BY <2>2, <4>2
      <4> QED
        BY <4>2, <4>3, <4>4, <4>5
    <3> QED
      BY <3>1, <3>2
  <2> QED
    BY <2>6 DEF Good, y
<1>3. Text \subseteq T
  <2>1. \A t \in Text, c \in Character : t \in T => Append(t, c) \in T
    BY <1>2
  <2> HIDE DEF T
  <2> QED
    BY <1>1, <2>1, TextInduction
<1>4. Good(w)
  <2> HIDE DEF Good
  <2> QED
    BY <1>3
<1> QED
  BY <1>4

(* Two texts after one another: the length and the characters. *)
LEMMA TextConcat ==
  ASSUME NEW a \in Text, NEW b \in Text
  PROVE  /\ a \o b \in Text /\ Len(a) \in Nat /\ Len(b) \in Nat
         /\ Len(a \o b) = Len(a) + Len(b)
         /\ \A i \in 1..Len(a) : (a \o b)[i] = a[i]
         /\ \A j \in 1..Len(b) : (a \o b)[Len(a) + j] = b[j]
<1> DEFINE c == a \o b
<1>1. /\ c \in Text /\ Len(a) \in Nat /\ Len(b) \in Nat /\ Len(c) = Len(a) + Len(b)
      /\ \A i \in 1..Len(a) + Len(b) : c[i] = IF i <= Len(a) THEN a[i] ELSE b[i - Len(a)]
  BY ConcatProperties, LenProperties DEF Text
<1> HIDE DEF c
<1>2. \A i \in 1..Len(a) : c[i] = a[i]
  BY <1>1
<1>3. ASSUME NEW j \in 1..Len(b) PROVE c[Len(a) + j] = b[j]
  BY <1>1, Len(a) + j \in 1..Len(a) + Len(b), ~(Len(a) + j <= Len(a)), (Len(a) + j) - Len(a) = j
<1> QED
  BY <1>1, <1>2, <1>3 DEF c

(* A text with a character before it: the length and the characters. *)
LEMMA TextPrepend ==
  ASSUME NEW c \in Character, NEW b \in Text
  PROVE  /\ <<c>> \o b \in Text /\ Len(b) \in Nat /\ Len(<<c>> \o b) = Len(b) + 1
         /\ (<<c>> \o b)[1] = c
         /\ \A j \in 1..Len(b) : (<<c>> \o b)[j + 1] = b[j]
<1> DEFINE a == <<c>>
           d == a \o b
<1>1. a \in Text /\ Len(a) = 1 /\ a[1] = c
  BY DEF Text
<1> HIDE DEF a
<1>2. /\ d \in Text /\ Len(b) \in Nat /\ Len(d) = 1 + Len(b)
      /\ \A i \in 1..1 + Len(b) : d[i] = IF i <= 1 THEN a[i] ELSE b[i - 1]
  <2>1. /\ d \in Text /\ Len(b) \in Nat /\ Len(d) = Len(a) + Len(b)
        /\ \A i \in 1..Len(a) + Len(b) : d[i] = IF i <= Len(a) THEN a[i] ELSE b[i - Len(a)]
    BY <1>1, ConcatProperties, LenProperties DEF Text
  <2> HIDE DEF d
  <2> QED
    BY <1>1, <2>1
<1> HIDE DEF d
<1>3. d[1] = c
  BY <1>1, <1>2, 1 \in 1..1 + Len(b)
<1>4. ASSUME NEW j \in 1..Len(b) PROVE d[j + 1] = b[j]
  BY <1>2, j + 1 \in 1..1 + Len(b), ~(j + 1 <= 1), (j + 1) - 1 = j
<1> QED
  BY <1>2, <1>3, <1>4 DEF a, d

(* A text between two characters. *)
Enclosed(open, b, close) == <<open>> \o b \o <<close>>

Encloses(in, open, b, close) ==
  /\ in \in Text /\ Len(b) \in Nat /\ Len(in) = Len(b) + 2
  /\ in[1] = open /\ in[Len(b) + 2] = close
  /\ \A i \in 1..Len(b) : in[i + 1] = b[i]

(* A text between two characters: the length and the characters. *)
LEMMA TextEnclosed ==
  ASSUME NEW open \in Character, NEW close \in Character, NEW b \in Text
  PROVE  Encloses(Enclosed(open, b, close), open, b, close)
<1> DEFINE a == <<open>> \o b
           in == Enclosed(open, b, close)
<1>1. in = a \o <<close>>
  BY DEF Enclosed
<1>2. a \in Text /\ Len(b) \in Nat /\ Len(a) = Len(b) + 1 /\ a[1] = open /\ \A j \in 1..Len(b) : a[j + 1] = b[j]
  BY TextPrepend
<1> HIDE DEF a, in
<1>3. in = Append(a, close)
  BY ONLY <1>1, <1>2, AppendIsConcat, close \in Character DEF Text
<1>4. in \in Text /\ Len(in) = Len(a) + 1 /\ (\A i \in 1..Len(a) : in[i] = a[i]) /\ in[Len(a) + 1] = close
  BY <1>2, <1>3, TextAppend
<1>5. Len(in) = Len(b) + 2 /\ in[1] = open /\ in[Len(b) + 2] = close
  BY <1>2, <1>4, 1 \in 1..Len(a), (Len(b) + 1) + 1 = Len(b) + 2
<1>6. ASSUME NEW i \in 1..Len(b) PROVE in[i + 1] = b[i]
  BY <1>2, <1>4, i + 1 \in 1..Len(a)
<1> QED
  BY <1>2, <1>4, <1>5, <1>6 DEF in, Encloses

(* Where the items of an array or composite value are: the k-th one begins at
   position at[k - 1], and position at[k] - 1 holds what ends it. *)
ItemsAt(in, items, open, close, at) ==
  /\ at \in [0..Len(items) -> Nat \ {0}]
  /\ at[0] = 1
  /\ items # <<>> => at[Len(items)] = Len(in)
  /\ \A k \in 1..Len(items) :
       /\ at[k] = at[k - 1] + Len(items[k]) + 1 /\ at[k] <= Len(in)
       /\ \A j \in 1..Len(items[k]) : At(in, at[k - 1] + j - 1) = items[k][j]
       /\ At(in, at[k] - 1) = IF k = Len(items) THEN close ELSE Comma
       /\ At(in, at[k - 1] - 1) = IF k = 1 THEN open ELSE Comma

(* p[k] is where the k-th of n items ends, in the text F that has them all. *)
CommasAt(items, n, F, p) ==
  /\ p \in [0..n -> Nat] /\ p[0] = 0 /\ p[n] = Len(F)
  /\ \A k \in 1..n : /\ p[k] = p[k - 1] + Len(items[k]) + (IF k = 1 THEN 0 ELSE 1)
                     /\ p[k] <= Len(F)
                     /\ \A j \in 1..Len(items[k]) : F[p[k - 1] + (IF k = 1 THEN j ELSE j + 1)] = items[k][j]
                     /\ k # 1 => F[p[k - 1] + 1] = Comma

(* Where each item is in a list that commas separate. *)
LEMMA CommasPlaces ==
  ASSUME NEW items, items \in Seq(Text), NEW n, n \in Nat, n = Len(items)
  PROVE  Commas(items) \in Text /\ \E p : CommasAt(items, n, Commas(items), p)
<1> DEFINE s == [k \in DOMAIN items |-> IF k = 1 THEN items[k] ELSE <<Comma>> \o items[k]]
           F == FlattenSeq(s)
<1>1. n \in Nat /\ DOMAIN items = 1..n /\ \A k \in 1..n : items[k] \in Text /\ Len(items[k]) \in Nat
  BY LenProperties, ElementOfSeq DEF Text
<1>2. ASSUME NEW k \in 1..n
      PROVE  /\ s[k] \in Text
             /\ k = 1 => s[k] = items[k]
             /\ k # 1 => /\ Len(s[k]) = Len(items[k]) + 1 /\ s[k][1] = Comma
                         /\ \A j \in 1..Len(items[k]) : s[k][j + 1] = items[k][j]
  <2>1. CASE k = 1
    BY <1>1, <2>1
  <2>2. CASE k # 1
    <3>1. s[k] = <<Comma>> \o items[k]
      BY <1>1, <2>2
    <3>2. items[k] \in Text /\ Comma \in Character
      BY <1>1, Characters
    <3> HIDE DEF s
    <3> QED
      BY <2>2, <3>1, <3>2, TextPrepend
  <2> QED
    BY <2>1, <2>2
<1>3. s \in Seq(Text) /\ Len(s) = n
  <2>1. \A k \in 1..n : s[k] \in Text
    BY <1>2
  <2> QED
    BY <1>1, <2>1, IsASeq
<1>4. Commas(items) = F
  BY DEF Commas
<1> HIDE DEF s
<1>5. PICK p : Places(s, p)
  BY <1>3, FlattenPlaces DEF Text
<1> HIDE DEF F
<1>6. /\ p \in [0..n -> Nat] /\ p[0] = 0 /\ p[n] = Len(F)
      /\ \A k \in 1..n : /\ p[k] = p[k - 1] + Len(s[k]) /\ p[k] <= Len(F)
                         /\ \A j \in 1..Len(s[k]) : F[p[k - 1] + j] = s[k][j]
  BY <1>3, <1>5 DEF Places, F
<1>7. F \in Text
  BY <1>3, FlattenType DEF Text, F
<1>8. ASSUME NEW k, k \in 1..n
      PROVE  /\ p[k] = p[k - 1] + Len(items[k]) + (IF k = 1 THEN 0 ELSE 1)
             /\ p[k] <= Len(F)
             /\ \A j \in 1..Len(items[k]) : F[p[k - 1] + (IF k = 1 THEN j ELSE j + 1)] = items[k][j]
             /\ k # 1 => F[p[k - 1] + 1] = Comma
  <2>1. p[k] = p[k - 1] + Len(s[k]) /\ p[k] <= Len(F) /\ \A j \in 1..Len(s[k]) : F[p[k - 1] + j] = s[k][j]
    BY <1>6, <1>8
  <2>2. k - 1 \in 0..n /\ p[k - 1] \in Nat /\ Len(items[k]) \in Nat
    <3>1. k - 1 \in 0..n
      BY ONLY <1>1, <1>8
    <3> QED
      BY <1>1, <1>6, <1>8, <3>1
  <2>3. CASE k = 1
    BY ONLY <1>2, <1>8, <2>1, <2>2, <2>3
  <2>4. CASE k # 1
    <3>1. /\ Len(s[k]) = Len(items[k]) + 1 /\ s[k][1] = Comma
          /\ \A j \in 1..Len(items[k]) : s[k][j + 1] = items[k][j]
      BY <1>2, <1>8, <2>4
    <3>2. ASSUME NEW j, j \in 1..Len(items[k]) PROVE F[p[k - 1] + (j + 1)] = items[k][j]
      <4>1. j + 1 \in 1..Len(s[k])
        BY ONLY <2>2, <3>1, <3>2
      <4> QED
        BY ONLY <2>1, <3>1, <3>2, <4>1
    <3>3. F[p[k - 1] + 1] = Comma
      <4>1. 1 \in 1..Len(s[k])
        BY ONLY <2>2, <3>1
      <4> QED
        BY ONLY <2>1, <3>1, <4>1
    <3>4. p[k] = p[k - 1] + Len(items[k]) + 1
      <4>1. \A x, y \in Nat : x + (y + 1) = x + y + 1
        OBVIOUS
      <4>2. p[k] = p[k - 1] + (Len(items[k]) + 1)
        BY ONLY <2>1, <3>1, Zenon
      <4> QED
        BY ONLY <2>2, <4>1, <4>2, Zenon
    <3> QED
      BY ONLY <2>1, <2>4, <3>2, <3>3, <3>4
  <2> QED
    BY ONLY <2>3, <2>4
<1>9. \A k \in 1..n : /\ p[k] = p[k - 1] + Len(items[k]) + (IF k = 1 THEN 0 ELSE 1)
                      /\ p[k] <= Len(F)
                      /\ \A j \in 1..Len(items[k]) : F[p[k - 1] + (IF k = 1 THEN j ELSE j + 1)] = items[k][j]
                      /\ k # 1 => F[p[k - 1] + 1] = Comma
  BY <1>8, Zenon
<1>10. CommasAt(items, n, F, p)
  BY ONLY <1>6, <1>9, Zenon DEF CommasAt
<1> QED
  BY ONLY <1>4, <1>7, <1>10, Zenon

HasItems(in, items, open, close) ==
  /\ in \in Text /\ Len(in) >= 2 /\ At(in, 0) = open /\ At(in, Len(in) - 1) = close
  /\ items = <<>> => Len(in) = 2
  /\ \E at : ItemsAt(in, items, open, close, at)

(* Where each item is in a list between brackets, and what stands around it. *)
LEMMA ItemsWritten ==
  ASSUME NEW items, items \in Seq(Text), NEW open \in Character, NEW close \in Character,
         NEW in, in = Enclosed(open, Commas(items), close)
  PROVE  HasItems(in, items, open, close)
<1>1. PICK n \in Nat : n = Len(items)
  BY LenProperties
<1>2. PICK F : F = Commas(items)
  OBVIOUS
<1>3. PICK p : CommasAt(items, n, F, p)
  BY ONLY CommasPlaces, items \in Seq(Text), <1>1, <1>2, Zenon
<1>4. F \in Text /\ in = Enclosed(open, F, close)
  BY CommasPlaces, <1>1, <1>2, Zenon
<1>5. /\ in \in Text /\ Len(F) \in Nat /\ Len(in) = Len(F) + 2 /\ in[1] = open /\ in[Len(F) + 2] = close
      /\ \A i \in 1..Len(F) : in[i + 1] = F[i]
  <2>1. Encloses(in, open, F, close)
    BY <1>4, TextEnclosed
  <2> QED
    BY <2>1 DEF Encloses
<1>6. (n = 0) <=> (items = <<>>)
  BY <1>1, EmptySeq
<1>7. \A k \in 1..n : Len(items[k]) \in Nat
  BY <1>1, LenProperties, ElementOfSeq DEF Text
<1>8. PICK len : \A k \in 1..n : len[k] = Len(items[k])
  <2> DEFINE len == [k \in 1..n |-> Len(items[k])]
  <2>1. \A k \in 1..n : len[k] = Len(items[k])
    OBVIOUS
  <2> QED
    BY <2>1
<1> DEFINE at == [k \in 0..n |-> IF k = 0 THEN 1 ELSE p[k] + 2]
<1>9. at \in [0..n -> Nat \ {0}] /\ at[0] = 1 /\ (items # <<>> => at[n] = Len(in))
      /\ (\A k \in 1..n : at[k] = p[k] + 2)
  BY ONLY <1>1, <1>3, <1>5, <1>6 DEF CommasAt
<1> HIDE DEF at
<1>10. ASSUME NEW k, k \in 1..n
       PROVE  /\ at[k] = at[k - 1] + Len(items[k]) + 1 /\ at[k] <= Len(in)
              /\ \A j \in 1..Len(items[k]) : in[at[k - 1] + j] = items[k][j]
              /\ in[at[k]] = IF k = n THEN close ELSE Comma
              /\ in[at[k - 1]] = IF k = 1 THEN open ELSE Comma
              /\ at[k] \in Nat /\ at[k - 1] \in Nat /\ Len(items[k]) \in Nat
  <2>1. /\ p[k] = p[k - 1] + Len(items[k]) + (IF k = 1 THEN 0 ELSE 1)
        /\ p[k] <= Len(F)
        /\ \A j \in 1..Len(items[k]) : F[p[k - 1] + (IF k = 1 THEN j ELSE j + 1)] = items[k][j]
        /\ k # 1 => F[p[k - 1] + 1] = Comma
    BY ONLY <1>3, <1>10 DEF CommasAt
  <2>2. k \in Nat /\ k - 1 \in 0..n /\ k \in 0..n /\ k # 0 /\ Len(items[k]) \in Nat
    BY ONLY <1>7, <1>10, n \in Nat
  <2>3. PICK x \in Nat, y \in Nat : x = p[k] /\ y = p[k - 1]
    BY ONLY <1>3, <2>2 DEF CommasAt
  <2>4. at[k] = x + 2
    BY ONLY <1>9, <1>10, <2>3
  <2>5. PICK m \in Nat, f \in Nat : m = Len(items[k]) /\ f = Len(F)
    BY ONLY <1>5, <2>2
  <2>6. at[k] <= Len(in) /\ at[k] \in Nat
    BY ONLY <1>5, <2>1, <2>3, <2>4, <2>5
  <2>7. in[at[k]] = IF k = n THEN close ELSE Comma
    <3>1. CASE k = n
      <4>1. x = f
        BY ONLY <1>3, <2>3, <2>5, <3>1 DEF CommasAt
      <4> QED
        BY ONLY <1>5, <2>4, <2>5, <3>1, <4>1
    <3>2. CASE k # n
      <4>1. k + 1 \in 1..n /\ (k + 1) - 1 = k /\ k + 1 # 1
        BY ONLY <1>10, <3>2, n \in Nat
      <4>2. F[x + 1] = Comma /\ p[k + 1] <= f /\ p[k + 1] = x + Len(items[k + 1]) + 1 /\ Len(items[k + 1]) \in Nat
        <5>1. /\ p[k + 1] = p[(k + 1) - 1] + Len(items[k + 1]) + (IF k + 1 = 1 THEN 0 ELSE 1)
              /\ p[k + 1] <= Len(F)
              /\ k + 1 # 1 => F[p[(k + 1) - 1] + 1] = Comma
          BY ONLY <1>3, <4>1, Zenon DEF CommasAt
        <5> QED
          BY ONLY <1>7, <2>3, <2>5, <4>1, <5>1
      <4>3. x + 1 \in 1..f
        BY ONLY <4>2, x \in Nat, f \in Nat
      <4>4. in[(x + 1) + 1] = Comma
        BY ONLY <1>5, <2>5, <4>2, <4>3
      <4> QED
        BY ONLY <2>4, <3>2, <4>4, (x + 1) + 1 = x + 2
    <3> QED
      BY ONLY <3>1, <3>2
  <2>8. CASE k = 1
    <3>1. y = 0 /\ at[k - 1] = 1 /\ x = m
      <4>1. p[0] = 0 /\ at[0] = 1
        BY ONLY <1>3, <1>9 DEF CommasAt
      <4> QED
        BY ONLY <2>1, <2>3, <2>5, <2>8, <4>1
    <3>2. ASSUME NEW j, j \in 1..m PROVE in[1 + j] = items[k][j]
      <4>1. F[j] = items[k][j]
        BY ONLY <2>1, <2>3, <2>5, <2>8, <3>1, <3>2
      <4>2. j \in 1..f
        <5>1. m <= f
          BY ONLY <2>1, <2>3, <2>5, <3>1
        <5> QED
          BY ONLY <3>2, <5>1, m \in Nat, f \in Nat
      <4> QED
        BY ONLY <1>5, <2>5, <4>1, <4>2, 1 + j = j + 1
    <3> QED
      BY ONLY <1>5, <2>2, <2>4, <2>5, <2>6, <2>7, <2>8, <3>1, <3>2
  <2>9. CASE k # 1
    <3>1. at[k - 1] = y + 2 /\ x = y + m + 1 /\ F[y + 1] = Comma
      <4>1. k - 1 \in 1..n
        BY ONLY <1>10, <2>9, n \in Nat
      <4> QED
        BY ONLY <1>9, <2>1, <2>3, <2>5, <2>9, <4>1
    <3>2. x <= f
      BY ONLY <2>1, <2>3, <2>5
    <3>3. in[y + 2] = Comma
      <4>1. y + 1 \in 1..f
        BY ONLY <3>1, <3>2, x \in Nat, y \in Nat, m \in Nat, f \in Nat
      <4>2. in[(y + 1) + 1] = Comma
        BY ONLY <1>5, <2>5, <3>1, <4>1
      <4> QED
        BY ONLY <4>2, (y + 1) + 1 = y + 2
    <3>4. ASSUME NEW j, j \in 1..m PROVE in[(y + 2) + j] = items[k][j]
      <4>1. F[y + (j + 1)] = items[k][j]
        BY ONLY <2>1, <2>3, <2>5, <2>9, <3>4
      <4>2. y + (j + 1) \in 1..f
        BY ONLY <3>1, <3>2, <3>4, x \in Nat, y \in Nat, m \in Nat, f \in Nat
      <4>3. in[(y + (j + 1)) + 1] = items[k][j]
        BY ONLY <1>5, <2>5, <4>1, <4>2
      <4>4. (y + (j + 1)) + 1 = (y + 2) + j
        BY ONLY <3>4, y \in Nat, m \in Nat
      <4> QED
        BY ONLY <4>3, <4>4
    <3>5. at[k] = at[k - 1] + m + 1
      BY ONLY <2>4, <3>1, y \in Nat, m \in Nat
    <3>6. at[k - 1] \in Nat
      BY ONLY <3>1, y \in Nat
    <3> QED
      BY ONLY <2>2, <2>5, <2>6, <2>7, <2>9, <3>1, <3>3, <3>4, <3>5, <3>6
  <2> QED
    BY ONLY <2>8, <2>9
<1>14. ItemsAt(in, items, open, close, at)
  <2>1. ASSUME NEW k \in 1..n
        PROVE  /\ at[k] = at[k - 1] + Len(items[k]) + 1 /\ at[k] <= Len(in)
               /\ \A j \in 1..Len(items[k]) : At(in, at[k - 1] + j - 1) = items[k][j]
               /\ At(in, at[k] - 1) = IF k = Len(items) THEN close ELSE Comma
               /\ At(in, at[k - 1] - 1) = IF k = 1 THEN open ELSE Comma
    <3>1. PICK x \in Nat, y \in Nat, m \in Nat : x = at[k] /\ y = at[k - 1] /\ m = Len(items[k])
      BY ONLY <1>10, k \in 1..n, Zenon
    <3>2. (x - 1) + 1 = x /\ (y - 1) + 1 = y /\ \A j \in 1..m : (y + j - 1) + 1 = y + j
      OBVIOUS
    <3>3. /\ x = y + m + 1 /\ x <= Len(in)
          /\ \A j \in 1..m : in[y + j] = items[k][j]
          /\ in[x] = IF k = n THEN close ELSE Comma
          /\ in[y] = IF k = 1 THEN open ELSE Comma
      BY ONLY <1>10, <3>1, k \in 1..n, Zenon
    <3>4. \A j \in 1..m : At(in, y + j - 1) = items[k][j]
      BY ONLY <3>2, <3>3, Zenon DEF At
    <3>5. /\ At(in, x - 1) = IF k = n THEN close ELSE Comma
          /\ At(in, y - 1) = IF k = 1 THEN open ELSE Comma
      BY ONLY <3>2, <3>3, Zenon DEF At
    <3> QED
      BY ONLY <1>1, <3>1, <3>3, <3>4, <3>5, Zenon
  <2> QED
    BY ONLY <1>1, <1>9, <2>1, Zenon DEF ItemsAt
<1>15. in \in Text /\ Len(in) >= 2 /\ At(in, 0) = open /\ At(in, Len(in) - 1) = close
  BY ONLY <1>5, 0 + 1 = 1, (Len(F) + 2 - 1) + 1 = Len(F) + 2 DEF At
<1>16. items = <<>> => Len(in) = 2
  BY <1>3, <1>5, <1>6 DEF CommasAt
<1> QED
  BY ONLY <1>14, <1>15, <1>16, Zenon DEF HasItems

(* item stands in the text from position p on. *)
There(in, item, p) == \A j \in 1..Len(item) : At(in, p + j - 1) = item[j]

NoEscape(w) == \A j \in 1..Len(w) : w[j] # Escape

(* Cutting out the place where a word is gives the word. *)
LEMMA SubstrEquals ==
  ASSUME NEW in \in Text, NEW w \in Text, NEW start \in Nat, start + Len(w) <= Len(in),
         There(in, w, start)
  PROVE  Substr(in, start, start + Len(w) - 1) = w
<1> DEFINE end == start + Len(w) - 1
           x == Substr(in, start, end)
<1>1. Len(w) \in Nat /\ Len(in) \in Nat
  BY TextLength
<1>2. end \in Int /\ start <= end + 1 /\ end + 1 <= Len(in) /\ end + 1 - start = Len(w)
  BY <1>1
<1> HIDE DEF end
<1>3. x \in Text /\ Len(x) = Len(w) /\ \A i \in 1..Len(w) : x[i] = in[start + i]
  <2>1. x \in Text /\ Len(x) = end + 1 - start /\ \A i \in 1..end + 1 - start : x[i] = in[start + i]
    BY <1>2, SubstrIs
  <2> HIDE DEF x
  <2> QED
    BY <1>2, <2>1
<1> HIDE DEF x
<1>4. ASSUME NEW i \in 1..Len(w) PROVE x[i] = w[i]
  <2>1. (start + i - 1) + 1 = start + i
    BY <1>1
  <2>2. in[start + i] = w[i]
    BY <2>1, Zenon DEF At, There
  <2> QED
    BY <1>3, <2>2
<1>5. x = w
  BY <1>3, <1>4, SeqEqual DEF Text
<1> QED
  BY <1>5 DEF x, end

----------------------------------------------------------------------------
(* from_text_array(), one item at a time *)

ArrayItem(w) ==
  IF w = Null THEN NullWord
  ELSE IF w \in {<<>>, NullWord} \/ ToSet(w) \cap (Delimiters \cup {LeftBrace, RightBrace}) # {}
  THEN double_quote(w) ELSE w

(* r has the states of the loop, and goes on from s at position i. *)
ArrayRun(in, r) == \A i \in 0..Len(in) - 1 : r[i + 1] = ArrayStep(in, r[i], i)

(* What ends an item at position q makes w of it. *)
ArrayItemDone(in, r, q, out, w) ==
  /\ At(in, q) = Comma => InArray(r[q + 1], q + 1, FALSE, q + 1, Append(out, w))
  /\ At(in, q) = RightBrace => r[q + 1].out = Append(out, w)

ArrayPlain(w) ==
  Len(w) > 0 /\ \A j \in 1..Len(w) : w[j] \notin {LeftBrace, RightBrace, Comma, Quote, Escape}

(* Nothing in the state of the array parser speaks of the position but its bound. *)
LEMMA InArrayLater ==
  ASSUME NEW s, NEW i \in Nat, NEW j \in Nat, i <= j, NEW quoted, NEW start, NEW out,
         InArray(s, i, quoted, start, out)
  PROVE  InArray(s, j, quoted, start, out)
BY DEF InArray, ArrayState

(* An item without quotes is read as it is. *)
LEMMA ArrayPlainItem ==
  ASSUME NEW in \in Text, NEW r, ArrayRun(in, r), NEW w \in Text, ArrayPlain(w),
         NEW p \in Nat, p > 0, NEW q \in Nat, q = p + Len(w), q < Len(in), There(in, w, p),
         NEW out, InArray(r[p], p, FALSE, p, out)
  PROVE  ArrayItemDone(in, r, q, out, w)
<1>1. Len(w) \in Nat /\ Len(in) \in Nat /\ p <= q /\ q > 1
      /\ \A j \in 1..Len(w) : w[j] \notin {LeftBrace, RightBrace, Comma, Quote, Escape}
  BY TextLength DEF ArrayPlain
<1>2. ASSUME NEW i \in p..q - 1, r[i] = r[p] PROVE r[i + 1] = r[i]
  <2>1. i - p + 1 \in 1..Len(w) /\ p + (i - p + 1) - 1 = i
    BY <1>1
  <2>2. At(in, i) = w[i - p + 1]
    BY <2>1 DEF There
  <2>3. i \in Nat /\ i \in 0..Len(in) - 1 /\ p <= i
    BY <1>1
  <2>4. InArray(r[i], i, FALSE, p, out)
    BY <1>2, <2>3, InArrayLater
  <2>5. ArrayStep(in, r[i], i) = r[i]
    BY <1>1, <2>1, <2>2, <2>3, <2>4, ArrayPassesPlain
  <2> QED
    BY <2>3, <2>5 DEF ArrayRun
<1>3. r[q] = r[p]
  <2>1. \A i \in p..q - 1 : r[i] = r[p] => r[i + 1] = r[i]
    BY <1>2
  <2>2. \A i \in p..q : r[i] = r[p]
    BY <1>1, <2>1, Unchanged
  <2> QED
    BY <1>1, <2>2
<1>4. InArray(r[q], q, FALSE, p, out)
  BY <1>1, <1>3, InArrayLater
<1>5. r[q + 1] = ArrayStep(in, r[q], q)
  BY <1>1 DEF ArrayRun
<1>6. Without(Substr(in, p, q - 1), Escape) = w
  <2>1. Substr(in, p, q - 1) = w
    BY <1>1, SubstrEquals
  <2> QED
    BY <1>1, <2>1, NothingToRemove
<1>7. At(in, q) = Comma => InArray(r[q + 1], q + 1, FALSE, q + 1, Append(out, w))
  BY <1>1, <1>4, <1>5, <1>6, ArrayComma
<1>8. ASSUME At(in, q) = RightBrace PROVE r[q + 1].out = Append(out, w)
  <2> DEFINE s == r[q]
  <2>1. InArray(s, q, FALSE, p, out)
    BY <1>4
  <2>2. r[q + 1] = ArrayStep(in, s, q)
    BY <1>5
  <2> HIDE DEF s
  <2>3. ArrayStep(in, s, q).out = Append(out, Without(Substr(in, p, q - 1), Escape))
    <3>1. q > 1
      BY <1>1
    <3> QED
      BY ONLY q \in Nat, p > 0, <3>1, <1>8, <2>1, ArrayCloses, Zenon
  <2> QED
    BY ONLY <1>6, <2>2, <2>3
<1> QED
  BY <1>7, <1>8 DEF ArrayItemDone

(* An item in quotes, with its escape characters taken out. *)
LEMMA ArrayQuotedItem ==
  ASSUME NEW in \in Text, NEW r, ArrayRun(in, r), NEW w \in Text,
         NoEscape(w), NEW e, e = EscapeIn(w, {Quote, Escape}),
         NEW p \in Nat, p > 0, NEW q \in Nat, q = p + Len(e) + 2, q < Len(in),
         At(in, p) = Quote, At(in, p - 1) # Escape, At(in, q - 1) = Quote,
         There(in, e, p + 1), NEW out, InArray(r[p], p, FALSE, p, out)
  PROVE  InArray(r[q + 1], q + 1, FALSE, q + 1, Append(out, w))
<1>1. /\ e \in Text /\ Without(e, Escape) = w
      /\ \A j \in 1..Len(e) : e[j] = Quote => j > 1 /\ e[j - 1] = Escape
      /\ Len(e) > 0 => e[Len(e)] # Escape
  BY EscapedText DEF NoEscape
<1>2. Len(e) \in Nat /\ Len(in) \in Nat
  BY <1>1, TextLength
<1>2b. ASSUME NEW j \in 1..Len(e) PROVE At(in, p + j) = e[j]
  BY (p + 1) + j - 1 = p + j DEF There
<1>3. InArray(r[p + 1], p + 1, TRUE, p + 1, out)
  <2>1. QuoteAt(in, p)
    BY DEF QuoteAt
  <2>2. r[p + 1] = ArrayStep(in, r[p], p)
    BY <1>2 DEF ArrayRun
  <2> QED
    BY <2>1, <2>2, ArrayQuoteOpens
<1>4. ASSUME NEW i \in p + 1..q - 2, r[i] = r[p + 1] PROVE r[i + 1] = r[i]
  <2>1. i - p \in 1..Len(e) /\ p + (i - p) = i
    BY <1>2
  <2>2. At(in, i) = e[i - p]
    BY <1>2b, <2>1
  <2>3. ~QuoteAt(in, i)
    <3>1. CASE e[i - p] # Quote
      BY <2>2, <3>1 DEF QuoteAt
    <3>2. CASE e[i - p] = Quote
      <4>1. i - p > 1 /\ e[i - p - 1] = Escape
        BY <1>1, <2>1, <3>2
      <4>2. i - p - 1 \in 1..Len(e) /\ p + (i - p - 1) = i - 1 /\ i # 0
        BY <1>2, <2>1, <4>1
      <4>3. At(in, i - 1) = Escape
        BY <1>2b, <4>1, <4>2
      <4> QED
        BY <4>2, <4>3 DEF QuoteAt
    <3> QED
      BY <3>1, <3>2
  <2>4. i \in Nat /\ i \in 0..Len(in) - 1 /\ p + 1 <= i
    BY <1>2
  <2>5. InArray(r[i], i, TRUE, p + 1, out)
    <3>1. p + 1 \in Nat
      OBVIOUS
    <3>2. InArray(r[i], p + 1, TRUE, p + 1, out)
      BY ONLY <1>3, <1>4, Zenon
    <3> QED
      BY ONLY <2>4, <3>1, <3>2, InArrayLater, Zenon
  <2>6. ArrayStep(in, r[i], i) = r[i]
    BY <2>3, <2>4, <2>5, ArrayPassesQuoted
  <2> QED
    BY <2>4, <2>6 DEF ArrayRun
<1> DEFINE i == q - 1
<1>5. i \in Nat /\ p + 1 <= i /\ i > 1 /\ i \in 0..Len(in) - 1 /\ q \in 0..Len(in) - 1 /\ i - 1 = q - 2
      /\ i + 1 = q /\ i + 2 = q + 1
  BY <1>2
<1>6. r[i] = r[p + 1]
  <2>1. \A k \in p + 1..i - 1 : r[k] = r[p + 1] => r[k + 1] = r[k]
    BY <1>4, <1>5
  <2>2. p + 1 \in Nat
    OBVIOUS
  <2> HIDE DEF i
  <2>3. \A k \in p + 1..i : r[k] = r[p + 1]
    BY ONLY <1>5, <2>1, <2>2, Unchanged, Zenon
  <2> QED
    BY <1>5, <2>3, i \in p + 1..i
<1>7. InArray(r[i], i, TRUE, p + 1, out)
  <2> HIDE DEF i
  <2>1. p + 1 \in Nat
    OBVIOUS
  <2>2. InArray(r[i], p + 1, TRUE, p + 1, out)
    BY ONLY <1>3, <1>6, Zenon
  <2> QED
    BY ONLY <1>5, <2>1, <2>2, InArrayLater, Zenon
<1>8. QuoteAt(in, i)
  <2>1. At(in, i - 1) # Escape
    <3>1. CASE Len(e) = 0
      BY <3>1, i - 1 = p, Characters
    <3>2. CASE Len(e) # 0
      <4>1. At(in, p + Len(e)) = e[Len(e)] /\ e[Len(e)] # Escape
        <5>1. Len(e) \in 1..Len(e) /\ Len(e) > 0
          BY <1>2, <3>2
        <5> QED
          BY <1>1, <1>2b, <5>1
      <4> QED
        BY <1>2, <4>1, i - 1 = p + Len(e)
    <3> QED
      BY <3>1, <3>2
  <2> QED
    BY <1>5, <2>1 DEF QuoteAt
<1>9. Without(Substr(in, p + 1, i - 1), Escape) = w
  <2>2. (p + 1) + Len(e) <= Len(in) /\ (p + 1) + Len(e) - 1 = i - 1 /\ p + 1 \in Nat
    BY <1>2
  <2>3. Substr(in, p + 1, i - 1) = e
    BY <1>1, <2>2, SubstrEquals
  <2> QED
    BY <1>1, <2>3
<1>10. r[i + 1] = ArrayStep(in, r[i], i) /\ r[q + 1] = ArrayStep(in, r[q], q)
  BY <1>5 DEF ArrayRun
<1> HIDE DEF i
<1>11. /\ InArray(ArrayStep(in, r[i], i), i + 2, FALSE, i + 2, Append(out, w))
       /\ ArrayStep(in, ArrayStep(in, r[i], i), i + 1) = ArrayStep(in, r[i], i)
  <2>1. /\ InArray(ArrayStep(in, r[i], i), i + 2, FALSE, i + 2,
                    Append(out, Without(Substr(in, p + 1, i - 1), Escape)))
        /\ ArrayStep(in, ArrayStep(in, r[i], i), i + 1) = ArrayStep(in, r[i], i)
    <3>1. p + 1 > 0 /\ Without(Substr(in, p + 1, i - 1), Escape) \in Text
      BY <1>9
    <3> QED
      BY ONLY <1>5, <1>7, <1>8, <3>1, ArrayQuoteCloses, Zenon
  <2> QED
    BY <1>9, <2>1
<1> QED
  BY <1>5, <1>10, <1>11

(* An array member is written as it is when it is plain, and in quotes otherwise. *)
LEMMA ItemType ==
  ASSUME NEW w \in Text
  PROVE  /\ ArrayItem(w) \in Text
         /\ double_quote(w) = Enclosed(Quote, EscapeIn(w, {Quote, Escape}), Quote)
         /\ Encloses(double_quote(w), Quote, EscapeIn(w, {Quote, Escape}), Quote)
         /\ \/ ArrayItem(w) = double_quote(w)
            \/ ArrayItem(w) = w /\ ArrayPlain(w)
<1> DEFINE e == EscapeIn(w, {Quote, Escape})
<1>1. e \in Text
  BY EscapeAppend, Characters
<1>2. double_quote(w) = Enclosed(Quote, e, Quote)
  BY DEF double_quote, Enclosed
<1> HIDE DEF e
<1>3. Encloses(double_quote(w), Quote, e, Quote)
  BY <1>1, <1>2, TextEnclosed, Characters
<1>4. double_quote(w) \in Text
  BY <1>3 DEF Encloses
<1>5. ASSUME ArrayItem(w) # double_quote(w)
      PROVE  ArrayItem(w) = w /\ ArrayPlain(w)
  <2>1. w # Null
    BY TextAssumption
  <2>2. ArrayItem(w) = w /\ w # <<>> /\ ToSet(w) \cap (Delimiters \cup {LeftBrace, RightBrace}) = {}
    BY <1>5, <2>1, Zenon DEF ArrayItem
  <2>3. Len(w) \in Nat /\ Len(w) # 0 /\ DOMAIN w = 1..Len(w)
    BY <2>2, TextLength, EmptySeq DEF Text
  <2>4. \A j \in 1..Len(w) : w[j] \notin {LeftBrace, RightBrace, Comma, Quote, Escape}
    BY <2>2, <2>3 DEF ToSet, Delimiters
  <2> QED
    BY <2>2, <2>3, <2>4 DEF ArrayPlain
<1> QED
  BY <1>2, <1>3, <1>4, <1>5 DEF e

(* An item is read as the member that it stands for. *)
LEMMA ArrayItemRead ==
  ASSUME NEW in \in Text, NEW r, ArrayRun(in, r), NEW w \in Text,
         NoEscape(w), NEW item, item = ArrayItem(w),
         NEW p \in Nat, p > 0, NEW q \in Nat, q = p + Len(item), q < Len(in),
         There(in, item, p), At(in, p - 1) # Escape,
         NEW out, InArray(r[p], p, FALSE, p, out)
  PROVE  ArrayItemDone(in, r, q, out, w)
<1>1. CASE item = double_quote(w)
  <2> DEFINE e == EscapeIn(w, {Quote, Escape})
  <2>1. Encloses(item, Quote, e, Quote)
    BY <1>1, ItemType
  <2>2. e = EscapeIn(w, {Quote, Escape})
    OBVIOUS
  <2> HIDE DEF e
  <2>3. /\ Len(e) \in Nat /\ Len(item) = Len(e) + 2 /\ item[1] = Quote /\ item[Len(e) + 2] = Quote
        /\ \A i \in 1..Len(e) : item[i + 1] = e[i]
    BY <2>1 DEF Encloses
  <2>4. At(in, p) = Quote
    <3>1. 1 \in 1..Len(item) /\ p + 1 - 1 = p
      BY <2>3
    <3>2. At(in, p + 1 - 1) = item[1]
      BY <3>1 DEF There
    <3> QED
      BY <2>3, <3>1, <3>2
  <2>5. At(in, q - 1) = Quote
    <3>1. Len(e) + 2 \in 1..Len(item) /\ p + (Len(e) + 2) - 1 = q - 1
      BY <2>3
    <3>2. At(in, p + (Len(e) + 2) - 1) = item[Len(e) + 2]
      BY <3>1 DEF There
    <3> QED
      BY <2>3, <3>1, <3>2
  <2>6. There(in, e, p + 1)
    <3> SUFFICES ASSUME NEW j \in 1..Len(e) PROVE At(in, (p + 1) + j - 1) = e[j]
      BY DEF There
    <3>1. j + 1 \in 1..Len(item) /\ p + (j + 1) - 1 = (p + 1) + j - 1
      BY <2>3
    <3>2. At(in, p + (j + 1) - 1) = item[j + 1]
      BY <3>1 DEF There
    <3> QED
      BY <2>3, <3>1, <3>2
  <2>7. q = p + Len(e) + 2
    BY <2>3
  <2>8. InArray(r[q + 1], q + 1, FALSE, q + 1, Append(out, w))
    BY <2>2, <2>4, <2>5, <2>6, <2>7, ArrayQuotedItem
  <2>9. r[q + 1].out = Append(out, w)
    BY <2>8 DEF InArray
  <2> QED
    BY <2>8, <2>9 DEF ArrayItemDone
<1>2. CASE item # double_quote(w)
  <2>1. item = w /\ ArrayPlain(w)
    BY <1>2, ItemType
  <2> QED
    BY <2>1, ArrayPlainItem
<1> QED
  BY <1>1, <1>2

(* A brace that closes right after the one that opens adds no member. *)
LEMMA ArrayIsEmpty ==
  ASSUME NEW in, NEW s, NEW out, InArray(s, 1, FALSE, 1, out), At(in, 1) = RightBrace
  PROVE  ArrayStep(in, s, 1).out = out
<1> DEFINE t == [s EXCEPT !.depth = 0, !.end = 1 - 1, !.next = 0]
<1>1. Mark(in, s, 1, LeftBrace, RightBrace) = t
  BY Characters DEF Mark, InArray, QuoteAt
<1>2. t \in ArrayState /\ t.end = 0 /\ t.out = out
  BY 1 - 1 = 0, 0 \in Int DEF InArray, ArrayState
<1> HIDE DEF t
<1> QED
  BY <1>1, <1>2 DEF ArrayStep, Complete, InArray, ArrayState

(* One more element of a sequence. *)
LEMMA PrefixGrows ==
  ASSUME NEW S, NEW m \in Seq(S), NEW k \in 0..Len(m) - 1
  PROVE  Append(SubSeq(m, 1, k), m[k + 1]) = SubSeq(m, 1, k + 1)
<1> DEFINE a == SubSeq(m, 1, k)
           b == SubSeq(m, 1, k + 1)
<1>1. Len(m) \in Nat /\ k \in Nat /\ k + 1 \in 1..Len(m)
  BY LenProperties
<1>2. \A i \in 1..k + 1 : m[i] \in S
  BY <1>1, ElementOfSeq
<1>3. a \in Seq(S) /\ Len(a) = k /\ \A i \in 1..k : a[i] = m[i]
  BY <1>1, <1>2, SubSeqProperties
<1>4. b \in Seq(S) /\ Len(b) = k + 1 /\ \A i \in 1..k + 1 : b[i] = m[i]
  BY <1>1, <1>2, SubSeqProperties
<1> HIDE DEF a, b
<1>5. /\ Append(a, m[k + 1]) \in Seq(S) /\ Len(Append(a, m[k + 1])) = k + 1
      /\ (\A i \in 1..k : Append(a, m[k + 1])[i] = a[i]) /\ Append(a, m[k + 1])[k + 1] = m[k + 1]
  BY <1>1, <1>2, <1>3, AppendProperties
<1>6. \A i \in 1..k + 1 : Append(a, m[k + 1])[i] = b[i]
  BY <1>1, <1>3, <1>4, <1>5
<1>7. Append(a, m[k + 1]) = b
  BY <1>4, <1>5, <1>6, SeqEqual
<1> QED
  BY <1>7 DEF a, b

(* The items that n members are written as. *)
ArrayItems(items, m, n) ==
  /\ items \in Seq(Text) /\ Len(items) = n
  /\ \A k \in 1..n : NoEscape(m[k]) /\ items[k] = ArrayItem(m[k])

(* The loop is at the end of the k-th item of n. *)
LEMMA ArrayItemsRead ==
  ASSUME NEW m, m \in Seq(Text), NEW n, n \in Nat, n = Len(m), n > 0,
         NEW items, ArrayItems(items, m, n),
         NEW in, in \in Text, NEW at, ItemsAt(in, items, LeftBrace, RightBrace, at),
         NEW r, ArrayRun(in, r), InArray(r[1], 1, FALSE, 1, <<>>)
  PROVE  r[Len(in)].out = m
<1> DEFINE Before(k) == InArray(r[at[k]], at[k], FALSE, at[k], SubSeq(m, 1, k))
<1>0. items \in Seq(Text) /\ Len(items) = n /\ \A k \in 1..n : NoEscape(m[k]) /\ items[k] = ArrayItem(m[k])
  BY ONLY ArrayItems(items, m, n) DEF ArrayItems
<1>1. Len(in) \in Nat /\ \A k \in 1..n : m[k] \in Text /\ items[k] \in Text /\ Len(items[k]) \in Nat
  BY <1>0, TextLength, ElementOfSeq
<1>2. /\ at \in [0..n -> Nat \ {0}] /\ at[0] = 1 /\ at[n] = Len(in)
      /\ \A k \in 1..n :
           /\ at[k] = at[k - 1] + Len(items[k]) + 1 /\ at[k] <= Len(in)
           /\ There(in, items[k], at[k - 1])
           /\ At(in, at[k] - 1) = IF k = n THEN RightBrace ELSE Comma
           /\ At(in, at[k - 1] - 1) = IF k = 1 THEN LeftBrace ELSE Comma
  <2>1. items # <<>>
    BY <1>0, EmptySeq
  <2> QED
    BY ONLY ItemsAt(in, items, LeftBrace, RightBrace, at), <1>0, <2>1, Zenon DEF ItemsAt, There
<1>3. ASSUME NEW k, k \in 0..n - 1, Before(k)
      PROVE  /\ k + 1 < n => Before(k + 1)
             /\ k + 1 = n => r[Len(in)].out = m
  <2> DEFINE l == k + 1
             w == m[l]
             p == at[k]
             q == at[l] - 1
             out == SubSeq(m, 1, k)
  <2>1. l \in 1..n /\ l - 1 = k /\ k \in 0..n /\ l \in 0..n
    BY ONLY <1>3, n \in Nat
  <2>2. w \in Text /\ items[l] = ArrayItem(w) /\ Len(items[l]) \in Nat
    BY <1>0, <1>1, <2>1
  <2>3. p \in Nat /\ p > 0 /\ at[l] \in Nat /\ at[l] > 0
    BY ONLY <1>2, <2>1
  <2>4. /\ at[l] = p + Len(items[l]) + 1 /\ at[l] <= Len(in)
        /\ There(in, items[l], p)
        /\ At(in, q) = IF l = n THEN RightBrace ELSE Comma
        /\ At(in, p - 1) = IF l = 1 THEN LeftBrace ELSE Comma
    <3> HIDE DEF l
    <3> QED
      BY ONLY <1>2, <2>1
  <2>5. NoEscape(w)
    BY <1>0, <2>1
  <2>6. Append(out, w) = SubSeq(m, 1, l)
    <3>1. k \in 0..Len(m) - 1
      BY <1>3
    <3>2. Append(SubSeq(m, 1, k), m[k + 1]) = SubSeq(m, 1, k + 1)
      BY ONLY m \in Seq(Text), <3>1, PrefixGrows
    <3> QED
      BY <3>2
  <2>7. InArray(r[p], p, FALSE, p, out)
    BY <1>3
  <2> HIDE DEF l, w, p, out
  <2>8. At(in, p - 1) # Escape
    BY <2>4, Characters
  <2>9. q \in Nat /\ q = p + Len(items[l]) /\ q < Len(in) /\ q + 1 = at[l]
    BY ONLY <1>1, <2>2, <2>3, <2>4
  <2> HIDE DEF q
  <2>10. ArrayItemDone(in, r, q, out, w)
    <3>1. There(in, items[l], p)
      BY <2>4
    <3> QED
      BY ONLY in \in Text, ArrayRun(in, r), <2>2, <2>3, <3>1, <2>5, <2>7, <2>8, <2>9, ArrayItemRead
  <2>11. l < n => InArray(r[at[l]], at[l], FALSE, at[l], SubSeq(m, 1, l))
    <3>1. l < n => At(in, q) = Comma
      BY ONLY <2>1, <2>4, n \in Nat
    <3> QED
      BY ONLY <2>6, <2>9, <2>10, <3>1, Zenon DEF ArrayItemDone
  <2>12. l = n => r[Len(in)].out = m
    <3>1. SubSeq(m, 1, n) = m
      BY SubSeqFull
    <3> QED
      BY ONLY <1>2, <2>4, <2>6, <2>9, <2>10, <3>1 DEF ArrayItemDone
  <2> QED
    BY ONLY <2>11, <2>12, Zenon DEF l
<1> DEFINE T == {k \in Nat : k < n => Before(k)}
<1>4. 0 \in T
  <2>1. SubSeq(m, 1, 0) = <<>>
    BY SubSeqEmpty
  <2> QED
    BY ONLY <1>2, <2>1, InArray(r[1], 1, FALSE, 1, <<>>), Zenon, 0 \in Nat
<1>5. ASSUME NEW k \in Nat, k \in T PROVE k + 1 \in T
  <2>1. k + 1 < n => k \in 0..n - 1 /\ k < n
    OBVIOUS
  <2> HIDE DEF Before
  <2>2. k + 1 < n => Before(k + 1)
    BY <1>3, <1>5, <2>1
  <2> QED
    BY <2>2
<1>6. n - 1 \in T
  <2>1. \A k \in Nat : k \in T => k + 1 \in T
    BY <1>5
  <2> HIDE DEF T
  <2>2. Nat \subseteq T
    BY ONLY <1>4, <2>1, NatSetInduction
  <2> QED
    BY <2>2, n - 1 \in Nat
<1>7. Before(n - 1) /\ n - 1 \in 0..n - 1 /\ (n - 1) + 1 = n
  <2> HIDE DEF Before
  <2> QED
    BY <1>6
<1> QED
  <2> HIDE DEF Before
  <2> QED
    BY ONLY <1>3, <1>7

(* from_text_array() reads back whatever array_out() writes of texts without
   escape characters. *)
LEMMA ArrayOutRead ==
  ASSUME NEW m, m \in Seq(Text), \A k \in 1..Len(m) : NoEscape(m[k])
  PROVE  from_text_array(ArrayOut(m)) = m
<1> DEFINE items == [k \in DOMAIN m |-> ArrayItem(m[k])]
           n == Len(m)
           in == ArrayOut(m)
<1>1. n \in Nat /\ DOMAIN m = 1..n /\ (\A k \in 1..n : m[k] \in Text) /\ (n = 0 <=> m = <<>>)
  BY LenProperties, ElementOfSeq, EmptySeq
<1>2. items \in Seq(Text) /\ Len(items) = n /\ \A k \in 1..n : items[k] = ArrayItem(m[k])
  <2>1. \A k \in 1..n : ArrayItem(m[k]) \in Text
    BY <1>1, ItemType
  <2> QED
    BY <1>1, <2>1, IsASeq
<1>3. in = Enclosed(LeftBrace, Commas(items), RightBrace)
  BY DEF ArrayOut, ArrayItem, Enclosed
<1> HIDE DEF items, in
<1>4. /\ in \in Text /\ Len(in) >= 2 /\ At(in, 0) = LeftBrace /\ At(in, Len(in) - 1) = RightBrace
      /\ items = <<>> => Len(in) = 2
      /\ \E at : ItemsAt(in, items, LeftBrace, RightBrace, at)
  <2>1. LeftBrace \in Character /\ RightBrace \in Character
    BY Characters
  <2>2. HasItems(in, items, LeftBrace, RightBrace)
    BY ONLY <1>2, <1>3, <2>1, ItemsWritten
  <2> QED
    BY <2>2 DEF HasItems
<1>5. PICK at : ItemsAt(in, items, LeftBrace, RightBrace, at)
  BY <1>4
<1>6. Len(in) \in Nat
  BY <1>4, TextLength
<1>7. PICK r : Reading("array", in, r)
  BY <1>6, ReadingExists
<1>8. r[0] = ArrayBegin /\ ArrayRun(in, r) /\ from_text_array(in) = r[Len(in)].out
  BY <1>6, <1>7, ReadingAt, ArrayRead DEF ArrayRun, First, Turn
<1>9. r[1] = ArrayStep(in, r[0], 0)
  BY <1>4, <1>6, <1>8, 0 \in 0..Len(in) - 1, 0 + 1 = 1 DEF ArrayRun
<1>10. InArray(r[1], 1, FALSE, 1, <<>>)
  BY <1>4, <1>8, <1>9, ArrayOpens
<1>11. CASE n = 0
  <2>1. Len(in) = 2 /\ m = <<>>
    BY <1>1, <1>2, <1>4, <1>11, EmptySeq
  <2>2. r[2] = ArrayStep(in, r[1], 1) /\ At(in, 1) = RightBrace
    BY <1>4, <1>8, <2>1, 1 \in 0..Len(in) - 1, 1 + 1 = 2, 2 - 1 = 1 DEF ArrayRun
  <2>3. r[2].out = <<>>
    BY <1>10, <2>2, ArrayIsEmpty
  <2> QED
    BY <1>8, <2>1, <2>3 DEF in
<1>12. CASE n # 0
  <2>1. n > 0
    BY <1>1, <1>12
  <2>2. r[Len(in)].out = m
    <3>1. ArrayItems(items, m, n)
      BY ONLY \A k \in 1..Len(m) : NoEscape(m[k]), <1>2 DEF ArrayItems
    <3>2. n = Len(m) /\ n \in Nat /\ in \in Text /\ ArrayRun(in, r)
      BY <1>1, <1>4, <1>8
    <3> HIDE DEF n
    <3> QED
      BY ONLY m \in Seq(Text), <1>5, <1>10, <2>1, <3>1, <3>2, ArrayItemsRead, Zenon
  <2> QED
    BY <1>8, <2>2 DEF in
<1> QED
  BY <1>11, <1>12

----------------------------------------------------------------------------
(* from_text_composite_value(), one character at a time *)

Fields == Seq(Text \cup {Null})

RecordState == [depth : Int, quoted : BOOLEAN, start : Int, end : Int, next : Int, out : Fields]

(* The loop is inside of the outermost parentheses. *)
InRecord(s, quoted, start, out) ==
  /\ s \in RecordState
  /\ s.depth = 1 /\ s.end = 0
  /\ s.quoted <=> quoted
  /\ s.start = start /\ s.out = out

(* The field from position start up to position i. *)
Field(in, start, i) == IF i = start THEN Null ELSE Substr(in, start, i - 1)

(* A field that was cut out is a text, or null when nothing was there. *)
LEMMA FieldType ==
  ASSUME NEW in \in Text, NEW start \in Nat, NEW i \in Nat, start <= i, i <= Len(in)
  PROVE  Field(in, start, i) \in Text \cup {Null}
<1>1. i - 1 \in Int /\ start <= (i - 1) + 1 /\ (i - 1) + 1 <= Len(in)
  BY TextLength
<1>2. Substr(in, start, i - 1) \in Text
  BY <1>1, SubstrIs
<1> QED
  BY <1>2 DEF Field

(* The parenthesis that opens a row starts its first field. *)
LEMMA RecordOpens ==
  ASSUME NEW in, At(in, 0) = LeftParenthesis
  PROVE  InRecord(RecordStep(in, RecordBegin, 0), FALSE, 1, <<>>)
<1> DEFINE s == RecordBegin
           t == [s EXCEPT !.depth = s.depth + 1, !.start = IF s.depth = 0 THEN 0 + 1 ELSE s.start]
<1>1. s \in RecordState /\ s.depth = 0 /\ s.end = 0 /\ ~s.quoted /\ s.out = <<>>
  BY EmptySeq DEF RecordState, RecordBegin, Fields
<1> HIDE DEF s
<1>2. Mark(in, s, 0, LeftParenthesis, RightParenthesis) = t
  BY <1>1, Characters DEF Mark, QuoteAt
<1>3. t \in RecordState /\ t.depth = 1 /\ t.start = 1 /\ t.end = 0 /\ ~t.quoted /\ t.out = <<>>
  BY <1>1, s.depth + 1 \in Int, 0 + 1 \in Int, 0 + 1 = 1 DEF RecordState
<1> HIDE DEF t
<1>4. RecordStep(in, s, 0) = t
  BY <1>1, <1>2, <1>3 DEF RecordStep, Complete
<1> QED
  BY <1>3, <1>4 DEF InRecord, s

(* A plain character outside quotes changes nothing. *)
LEMMA RecordPassesPlain ==
  ASSUME NEW in, NEW s, NEW i \in Nat, NEW start, NEW out, InRecord(s, FALSE, start, out),
         At(in, i) \notin {LeftParenthesis, RightParenthesis, Comma, Quote}
  PROVE  RecordStep(in, s, i) = s
<1>1. Mark(in, s, i, LeftParenthesis, RightParenthesis) = s
  BY DEF Mark, QuoteAt
<1> QED
  BY <1>1 DEF RecordStep, Complete, InRecord, RecordState

(* A character between quotes, other than the closing quote, changes nothing. *)
LEMMA RecordPassesQuoted ==
  ASSUME NEW in, NEW s, NEW i \in Nat, NEW start, NEW out, InRecord(s, TRUE, start, out),
         ~QuoteAt(in, i)
  PROVE  RecordStep(in, s, i) = s
<1>1. Mark(in, s, i, LeftParenthesis, RightParenthesis) = s
  BY DEF Mark, InRecord
<1> QED
  BY <1>1 DEF RecordStep, Complete, InRecord, RecordState

(* A quote starts a quoted stretch, and moves the start of the field right after itself. *)
LEMMA RecordQuoteOpens ==
  ASSUME NEW in, NEW s, NEW i \in Nat, NEW start, NEW out, InRecord(s, FALSE, start, out),
         QuoteAt(in, i)
  PROVE  InRecord(RecordStep(in, s, i), TRUE, i + 1, out)
<1> DEFINE t == [s EXCEPT !.start = i + 1, !.quoted = TRUE]
<1>1. Mark(in, s, i, LeftParenthesis, RightParenthesis) = t
  BY Characters DEF Mark, InRecord, QuoteAt
<1>2. t \in RecordState /\ t.depth = 1 /\ t.start = i + 1 /\ t.end = 0 /\ t.quoted /\ t.out = out
  <2>1. t \in RecordState
    BY i + 1 \in Int DEF InRecord, RecordState
  <2>2. t.depth = 1 /\ t.start = i + 1 /\ t.end = 0 /\ t.out = out
    BY i + 1 \in Int DEF InRecord, RecordState
  <2>3. t.quoted
    BY DEF InRecord, RecordState
  <2> HIDE DEF t
  <2> QED
    BY <2>1, <2>2, <2>3
<1> HIDE DEF t
<1>3. RecordStep(in, s, i) = t
  BY <1>1, <1>2 DEF RecordStep, Complete, InRecord, RecordState
<1> QED
  BY <1>2, <1>3 DEF InRecord

(* A field ends before position i. *)
LEMMA RecordPushes ==
  ASSUME NEW in, NEW s, s \in RecordState, NEW start, s.start = start, NEW i, i \in Nat, s.end = i - 1,
         Field(in, start, i) \in Text \cup {Null}
  PROVE  /\ PushField(in, s, i) \in RecordState
         /\ PushField(in, s, i).out = Append(s.out, Field(in, start, i))
         /\ PushField(in, s, i).depth = s.depth
         /\ s.depth = 1 /\ ~s.quoted =>
              InRecord(PushField(in, s, i), FALSE, i + 1, Append(s.out, Field(in, start, i)))
<1> DEFINE w == Field(in, start, i)
           t == [s EXCEPT !.out = Append(@, w), !.start = i + 1, !.end = 0]
<1>1. s.start \in Int /\ s.out \in Fields /\ start \in Int
  BY DEF RecordState
<1>2. (IF s.end = s.start - 1 THEN Null ELSE Substr(in, s.start, s.end)) = w
  BY <1>1 DEF Field
<1>3. PushField(in, s, i) = t
  BY <1>2 DEF PushField
<1> HIDE DEF w
<1>4. Append(s.out, w) \in Fields
  BY <1>1, AppendProperties DEF Fields, w
<1>5. t \in RecordState /\ t.depth = s.depth /\ t.start = i + 1 /\ t.end = 0 /\ (t.quoted <=> s.quoted)
      /\ t.out = Append(s.out, w)
  <2>1. t \in RecordState
    BY <1>4, i + 1 \in Int, 0 \in Int DEF RecordState
  <2>2. t.depth = s.depth /\ t.start = i + 1 /\ t.end = 0
    BY <1>4, i + 1 \in Int, 0 \in Int DEF RecordState
  <2>3. t.out = Append(s.out, w) /\ (t.quoted <=> s.quoted)
    BY <1>4, 0 \in Int DEF RecordState
  <2> HIDE DEF t
  <2> QED
    BY <2>1, <2>2, <2>3
<1> HIDE DEF t
<1> QED
  BY <1>3, <1>5 DEF InRecord, w

(* A comma ends a field without quotes, and the next one begins after it. *)
LEMMA RecordComma ==
  ASSUME NEW in, NEW s, NEW i \in Nat, NEW start, NEW out, InRecord(s, FALSE, start, out),
         At(in, i) = Comma, start > 0, i > 1, Field(in, start, i) \in Text \cup {Null}
  PROVE  InRecord(RecordStep(in, s, i), FALSE, i + 1, Append(out, Field(in, start, i)))
<1> DEFINE t == [s EXCEPT !.end = i - 1, !.next = i + 1]
<1>1. Mark(in, s, i, LeftParenthesis, RightParenthesis) = t
  BY Characters DEF Mark, InRecord, QuoteAt
<1>2. t \in RecordState /\ t.depth = 1 /\ t.start = start /\ t.end = i - 1 /\ ~t.quoted /\ t.out = out
  BY i - 1 \in Int, i + 1 \in Int DEF InRecord, RecordState
<1> HIDE DEF t
<1>3. RecordStep(in, s, i) = PushField(in, t, i)
  BY <1>1, <1>2 DEF RecordStep, Complete, InRecord, RecordState
<1> QED
  BY <1>2, <1>3, RecordPushes

(* A quote ends a field, and the next one begins with what comes after it. *)
LEMMA RecordQuoteCloses ==
  ASSUME NEW in, NEW s, NEW i \in Nat, NEW start, NEW out, InRecord(s, TRUE, start, out),
         QuoteAt(in, i), start > 0, i > 1, Field(in, start, i) \in Text \cup {Null}
  PROVE  InRecord(RecordStep(in, s, i), FALSE, i + 1, Append(out, Field(in, start, i)))
<1> DEFINE t == [s EXCEPT !.end = i - 1, !.next = i + 2, !.quoted = FALSE]
<1>1. Mark(in, s, i, LeftParenthesis, RightParenthesis) = t
  BY Characters DEF Mark, InRecord, QuoteAt
<1>2. t \in RecordState /\ t.depth = 1 /\ t.start = start /\ t.end = i - 1 /\ ~t.quoted /\ t.out = out
  BY i - 1 \in Int, i + 2 \in Int DEF InRecord, RecordState
<1> HIDE DEF t
<1>3. RecordStep(in, s, i) = PushField(in, t, i)
  BY <1>1, <1>2 DEF RecordStep, Complete, InRecord, RecordState
<1> QED
  BY <1>2, <1>3, RecordPushes

(* The last parenthesis ends a field without quotes. *)
LEMMA RecordCloses ==
  ASSUME NEW in, NEW s, NEW i \in Nat, NEW start, NEW out, InRecord(s, FALSE, start, out),
         At(in, i) = RightParenthesis, start > 0, i > 1, Field(in, start, i) \in Text \cup {Null}
  PROVE  RecordStep(in, s, i).out = Append(out, Field(in, start, i))
<1> DEFINE t == [s EXCEPT !.depth = 0, !.end = i - 1, !.next = 0]
<1>1. Mark(in, s, i, LeftParenthesis, RightParenthesis) = t
  BY Characters DEF Mark, InRecord, QuoteAt
<1>2. t \in RecordState /\ t.start = start /\ t.end = i - 1 /\ t.out = out
  BY i - 1 \in Int, 0 \in Int DEF InRecord, RecordState
<1> HIDE DEF t
<1>3. RecordStep(in, s, i) = PushField(in, t, i)
  BY <1>1, <1>2 DEF RecordStep, Complete, InRecord, RecordState
<1>4. i \in Nat
  OBVIOUS
<1>5. t \in RecordState /\ t.start = start /\ t.end = i - 1
  BY <1>2
<1>6. PushField(in, t, i).out = Append(t.out, Field(in, start, i))
  <2>1. (IF t.end = t.start - 1 THEN Null ELSE Substr(in, t.start, t.end)) = Field(in, start, i)
    <3>1. start \in Int /\ (i - 1 = start - 1 <=> i = start)
      BY <1>5 DEF RecordState
    <3> QED
      BY <1>5, <3>1 DEF Field
  <2> QED
    BY <1>5, <2>1 DEF PushField, RecordState
<1> QED
  BY ONLY <1>2, <1>3, <1>6

(* What has been read stays, whatever comes. *)
Keeps(longer, out) ==
  /\ longer \in Fields /\ out \in Fields /\ Len(out) <= Len(longer)
  /\ \A j \in 1..Len(out) : longer[j] = out[j]

(* A field appended leaves the earlier fields. *)
LEMMA KeepsAppend ==
  ASSUME NEW out, out \in Fields, NEW w, w \in Text \cup {Null}
  PROVE  /\ Append(out, w) \in Fields /\ Len(Append(out, w)) = Len(out) + 1 /\ Len(out) \in Nat
         /\ (\A j \in 1..Len(out) : Append(out, w)[j] = out[j]) /\ Append(out, w)[Len(out) + 1] = w
         /\ Keeps(Append(out, w), out)
<1> DEFINE longer == Append(out, w)
<1>1. /\ longer \in Fields /\ Len(longer) = Len(out) + 1 /\ Len(out) \in Nat
      /\ (\A j \in 1..Len(out) : longer[j] = out[j]) /\ longer[Len(out) + 1] = w
  BY AppendProperties, LenProperties DEF Fields
<1> HIDE DEF longer
<1>2. Keeps(longer, out)
  BY <1>1 DEF Keeps
<1> QED
  BY <1>1, <1>2 DEF longer

(* What two steps each keep, both together keep. *)
LEMMA KeepsAll ==
  ASSUME NEW a, NEW b, NEW c, Keeps(a, b), Keeps(b, c)
  PROVE  Keeps(a, c)
<1>1. Len(a) \in Nat /\ Len(b) \in Nat /\ Len(c) \in Nat
  BY LenProperties DEF Keeps, Fields
<1> QED
  BY <1>1 DEF Keeps

(* A list of fields keeps its own fields. *)
LEMMA KeepsItself ==
  ASSUME NEW out, out \in Fields
  PROVE  Keeps(out, out)
BY LenProperties DEF Keeps, Fields

(* Whatever bounds a parser cuts at, what it gets is a text. *)
LEMMA SubstrText ==
  ASSUME NEW in, in \in Text, NEW start, start \in Nat, NEW end, end \in Int
  PROVE  Substr(in, start, end) \in Text
<1> DEFINE n == IF end < start - 1 THEN Len(in) ELSE Min({end + 1, Len(in)})
<1>1. Len(in) \in Nat /\ \A i \in 1..Len(in) : in[i] \in Character
  BY TextLength
<1>2. n \in Int /\ n <= Len(in)
  <2> DEFINE m == Min({end + 1, Len(in)})
  <2>1. \E x \in {end + 1, Len(in)} : \A y \in {end + 1, Len(in)} : x <= y
    BY <1>1
  <2>2. m \in {end + 1, Len(in)} /\ \A y \in {end + 1, Len(in)} : m <= y
    BY <2>1, Zenon DEF Min
  <2> HIDE DEF m
  <2>3. m \in Int /\ m <= Len(in)
    BY <1>1, <2>2
  <2> QED
    BY <1>1, <2>3 DEF m
<1>3. Substr(in, start, end) = SubSeq(in, start + 1, n)
  BY DEF Substr
<1> HIDE DEF n
<1>4. \A i \in start + 1..n : in[i] \in Character
  BY <1>1, <1>2
<1>5. SubSeq(in, start + 1, n) \in Seq(Character)
  BY <1>1, <1>2, <1>4, SubSeqProperties
<1> QED
  BY <1>3, <1>5 DEF Text

(* A step changes nothing that has been read, wherever the loop is. *)
LEMMA RecordStepKeeps ==
  ASSUME NEW in, in \in Text, NEW s, s \in RecordState, NEW i, i \in Nat
  PROVE  /\ RecordStep(in, s, i) \in RecordState
         /\ Keeps(RecordStep(in, s, i).out, s.out)
<1> DEFINE t == Mark(in, s, i, LeftParenthesis, RightParenthesis)
<1>1. t \in RecordState /\ t.out = s.out
  <2>1. CASE At(in, i) = LeftParenthesis /\ ~s.quoted
    <3> DEFINE d == s.depth + 1
               b == IF s.depth = 0 THEN i + 1 ELSE s.start
               u == [s EXCEPT !.depth = d, !.start = b]
    <3>1. t = u
      BY <2>1, Characters DEF Mark, QuoteAt
    <3>2. d \in Int /\ b \in Int
      BY DEF RecordState
    <3> HIDE DEF t, d, b
    <3>3. u \in RecordState /\ u.out = s.out
      BY <3>2 DEF RecordState
    <3> QED
      BY <3>1, <3>3
  <2>2. CASE At(in, i) = RightParenthesis /\ ~s.quoted /\ s.depth = 1 /\ s.end = 0
    <3> DEFINE u == [s EXCEPT !.depth = 0, !.end = i - 1, !.next = 0]
    <3>1. t = u
      BY <2>2, Characters DEF Mark, QuoteAt
    <3> HIDE DEF t
    <3>2. u \in RecordState /\ u.out = s.out
      BY i - 1 \in Int, 0 \in Int DEF RecordState
    <3> QED
      BY <3>1, <3>2
  <2>3. CASE At(in, i) = RightParenthesis /\ ~s.quoted /\ ~(s.depth = 1 /\ s.end = 0)
    <3> DEFINE d == s.depth - 1
               u == [s EXCEPT !.depth = d]
    <3>1. t = u
      BY <2>3, Characters DEF Mark, QuoteAt
    <3>2. d \in Int
      BY DEF RecordState
    <3> HIDE DEF t, d
    <3>3. u \in RecordState /\ u.out = s.out
      BY <3>2 DEF RecordState
    <3> QED
      BY <3>1, <3>3
  <2>4. CASE At(in, i) = Comma /\ ~s.quoted
    <3> DEFINE u == [s EXCEPT !.end = i - 1, !.next = i + 1]
    <3>1. t = u
      BY <2>4, Characters DEF Mark, QuoteAt
    <3> HIDE DEF t
    <3>2. u \in RecordState /\ u.out = s.out
      BY i - 1 \in Int, i + 1 \in Int DEF RecordState
    <3> QED
      BY <3>1, <3>2
  <2>5. CASE QuoteAt(in, i) /\ s.quoted
    <3> DEFINE u == [s EXCEPT !.end = i - 1, !.next = i + 2, !.quoted = FALSE]
    <3>1. t = u
      BY <2>5, Characters DEF Mark, QuoteAt
    <3> HIDE DEF t
    <3>2. u \in RecordState /\ u.out = s.out
      BY i - 1 \in Int, i + 2 \in Int DEF RecordState
    <3> QED
      BY <3>1, <3>2
  <2>6. CASE QuoteAt(in, i) /\ ~s.quoted
    <3> DEFINE u == [s EXCEPT !.start = i + 1, !.quoted = TRUE]
    <3>1. t = u
      BY <2>6, Characters DEF Mark, QuoteAt
    <3> HIDE DEF t
    <3>2. u \in RecordState /\ u.out = s.out
      BY i + 1 \in Int DEF RecordState
    <3> QED
      BY <3>1, <3>2
  <2>7. CASE ~QuoteAt(in, i) /\ (s.quoted \/ At(in, i) \notin {LeftParenthesis, RightParenthesis, Comma})
    BY <2>7 DEF Mark
  <2> HIDE DEF t
  <2> QED
    BY <2>1, <2>2, <2>3, <2>4, <2>5, <2>6, <2>7
<1> HIDE DEF t
<1>2. CASE Complete(t)
  <2> DEFINE w == IF t.end = t.start - 1 THEN Null ELSE Substr(in, t.start, t.end)
             u == [t EXCEPT !.out = Append(@, w), !.start = i + 1, !.end = 0]
  <2>1. RecordStep(in, s, i) = u
    BY <1>2 DEF RecordStep, PushField, t
  <2>2. t.start \in Nat /\ t.end \in Int /\ t.out \in Fields
    BY <1>1, <1>2 DEF Complete, RecordState
  <2>3. w \in Text \cup {Null}
    BY <2>2, SubstrText
  <2> HIDE DEF w
  <2>4. Append(t.out, w) \in Fields /\ Keeps(Append(t.out, w), t.out)
    BY <2>2, <2>3, KeepsAppend
  <2>5. u \in RecordState /\ u.out = Append(t.out, w)
    BY <1>1, <2>4, i + 1 \in Int, 0 \in Int DEF RecordState
  <2> HIDE DEF u
  <2> QED
    BY <1>1, <2>1, <2>4, <2>5
<1>3. CASE ~Complete(t)
  <2>1. RecordStep(in, s, i) = t
    BY <1>3 DEF RecordStep, t
  <2>2. s.out \in Fields
    BY DEF RecordState
  <2> QED
    BY <1>1, <2>1, <2>2, KeepsItself
<1> QED
  BY <1>2, <1>3

(* r has the states of the loop. *)
RecordRun(in, r) == \A i \in 0..Len(in) - 1 : r[i + 1] = RecordStep(in, r[i], i)

(* A field that was read is never changed by the rest of the reading. *)
LEMMA RecordRunKeeps ==
  ASSUME NEW in, in \in Text, NEW r, RecordRun(in, r), NEW p, p \in Nat, p <= Len(in), r[p] \in RecordState
  PROVE  Keeps(r[Len(in)].out, r[p].out)
<1> DEFINE n == Len(in)
           T == {k \in Nat : p + k <= n => r[p + k] \in RecordState /\ Keeps(r[p + k].out, r[p].out)}
<1>1. n \in Nat
  BY TextLength
<1> HIDE DEF n
<1>2. 0 \in T
  <2>1. r[p].out \in Fields
    BY DEF RecordState
  <2>2. Keeps(r[p].out, r[p].out)
    BY <2>1, KeepsItself
  <2> QED
    BY <2>2, p + 0 = p
<1>3. ASSUME NEW k, k \in Nat, k \in T PROVE k + 1 \in T
  <2> SUFFICES ASSUME p + (k + 1) <= n
               PROVE  r[p + (k + 1)] \in RecordState /\ Keeps(r[p + (k + 1)].out, r[p].out)
    BY <1>3
  <2> DEFINE i == p + k
  <2>1. i \in Nat /\ i <= n /\ i \in 0..n - 1 /\ i + 1 = p + (k + 1)
    BY <1>1, <1>3
  <2>2. r[i] \in RecordState /\ Keeps(r[i].out, r[p].out)
    BY <1>3, <2>1
  <2> HIDE DEF i
  <2>3. r[i + 1] = RecordStep(in, r[i], i)
    BY <2>1 DEF RecordRun, n
  <2>4. r[i + 1] \in RecordState /\ Keeps(r[i + 1].out, r[i].out)
    BY <2>1, <2>2, <2>3, RecordStepKeeps
  <2>5. Keeps(r[i + 1].out, r[p].out)
    BY <2>2, <2>4, KeepsAll
  <2> QED
    BY <2>1, <2>4, <2>5
<1>4. n - p \in T /\ n - p \in Nat /\ p + (n - p) = n
  <2>1. \A k \in Nat : k \in T => k + 1 \in T
    BY <1>3
  <2> HIDE DEF T
  <2>2. Nat \subseteq T
    BY <1>2, <2>1, NatSetInduction
  <2> QED
    BY <1>1, <2>2, p <= n DEF n
<1> QED
  BY <1>1, <1>4 DEF n

----------------------------------------------------------------------------
(* from_text_composite_value(), one field at a time *)

RecordItem(w) ==
  IF w = Null THEN <<>>
  ELSE IF w = <<>> \/ ToSet(w) \cap (Delimiters \cup {LeftParenthesis, RightParenthesis}) # {}
  THEN <<Quote>> \o Doubled(w) \o <<Quote>> ELSE w

(* record_out() puts no quotes around w. *)
Unquoted(w) ==
  w = Null \/ (w # <<>> /\ ToSet(w) \cap (Delimiters \cup {LeftParenthesis, RightParenthesis}) = {})

RecordPlain(w) ==
  \A j \in 1..Len(w) : w[j] \notin {LeftParenthesis, RightParenthesis, Comma, Quote, Escape}

(* A field is written as nothing, as it is, or doubled in quotes. *)
LEMMA RecordItemType ==
  ASSUME NEW w, w \in Text \cup {Null}
  PROVE  /\ RecordItem(w) \in Text
         /\ Unquoted(w) =>
              /\ RecordPlain(RecordItem(w))
              /\ w = Null => Len(RecordItem(w)) = 0
              /\ w # Null => RecordItem(w) = w /\ Len(w) > 0
         /\ ~Unquoted(w) => w \in Text /\ Encloses(RecordItem(w), Quote, Doubled(w), Quote)
<1>1. CASE w = Null
  <2>1. RecordItem(w) = <<>> /\ Unquoted(w)
    BY <1>1 DEF RecordItem, Unquoted
  <2> QED
    BY <1>1, <2>1, NoCharacters DEF RecordPlain
<1>2. CASE w # Null /\ Unquoted(w)
  <2>1. RecordItem(w) = w /\ w \in Text
        /\ w # <<>> /\ ToSet(w) \cap (Delimiters \cup {LeftParenthesis, RightParenthesis}) = {}
    BY <1>2 DEF RecordItem, Unquoted
  <2>2. Len(w) \in Nat /\ Len(w) # 0 /\ DOMAIN w = 1..Len(w)
    BY <2>1, TextLength, EmptySeq DEF Text
  <2>3. RecordPlain(w)
    BY <2>1, <2>2 DEF ToSet, Delimiters, RecordPlain
  <2> QED
    BY <1>2, <2>1, <2>2, <2>3
<1>3. CASE ~Unquoted(w)
  <2>1. w \in Text /\ RecordItem(w) = Enclosed(Quote, Doubled(w), Quote)
    BY <1>3 DEF Unquoted, RecordItem, Enclosed
  <2>2. Doubled(w) \in Text
    BY <2>1, DoubledAppend, Characters
  <2>3. Encloses(RecordItem(w), Quote, Doubled(w), Quote)
    BY <2>1, <2>2, TextEnclosed, Characters
  <2> QED
    BY <1>3, <2>1, <2>3 DEF Encloses
<1> QED
  BY <1>1, <1>2, <1>3

(* Where a longer word is, the shorter word and the last character are. *)
LEMMA ThereAppend ==
  ASSUME NEW in, NEW x, x \in Text, NEW c, c \in Character, NEW p, p \in Nat, There(in, Append(x, c), p)
  PROVE  There(in, x, p) /\ At(in, p + Len(x)) = c /\ Len(Append(x, c)) = Len(x) + 1 /\ Len(x) \in Nat
<1> DEFINE y == Append(x, c)
<1>1. Len(y) = Len(x) + 1 /\ Len(x) \in Nat /\ (\A i \in 1..Len(x) : y[i] = x[i]) /\ y[Len(x) + 1] = c
  BY TextAppend
<1>2. \A j \in 1..Len(y) : At(in, p + j - 1) = y[j]
  BY DEF There
<1> HIDE DEF y
<1>3. \A j \in 1..Len(x) : At(in, p + j - 1) = x[j]
  BY <1>1, <1>2
<1>4. At(in, p + (Len(x) + 1) - 1) = c /\ p + (Len(x) + 1) - 1 = p + Len(x)
  BY <1>1, <1>2, Len(x) + 1 \in 1..Len(y)
<1> QED
  BY <1>1, <1>3, <1>4 DEF There, y

(* What has been read of a field ends it, and the next one begins. *)
RecordItemDone(in, r, q, out) ==
  /\ At(in, q) = Comma => InRecord(r[q + 1], FALSE, q + 1, out)
  /\ At(in, q) = RightParenthesis => r[q + 1].out = out

(* A comma or the closing parenthesis ends the field that was open. *)
LEMMA RecordFieldEnds ==
  ASSUME NEW in, in \in Text, NEW r, RecordRun(in, r), NEW q, q \in Nat, q > 1, q < Len(in),
         NEW start, start \in Nat, start > 0, start <= q,
         NEW out, InRecord(r[q], FALSE, start, out)
  PROVE  /\ Field(in, start, q) \in Text \cup {Null}
         /\ RecordItemDone(in, r, q, Append(out, Field(in, start, q)))
<1>1. Field(in, start, q) \in Text \cup {Null}
  BY FieldType, TextLength
<1>2. r[q + 1] = RecordStep(in, r[q], q)
  <2>1. q \in 0..Len(in) - 1
    BY TextLength
  <2> QED
    BY <2>1 DEF RecordRun
<1>3. At(in, q) = Comma => InRecord(r[q + 1], FALSE, q + 1, Append(out, Field(in, start, q)))
  BY <1>1, <1>2, RecordComma
<1>4. At(in, q) = RightParenthesis => r[q + 1].out = Append(out, Field(in, start, q))
  BY <1>1, <1>2, RecordCloses
<1> QED
  BY <1>1, <1>3, <1>4 DEF RecordItemDone

(* Nothing happens in a stretch without special characters. *)
LEMMA RecordPlainStretch ==
  ASSUME NEW in, in \in Text, NEW r, RecordRun(in, r), NEW w, w \in Text, RecordPlain(w),
         NEW p, p \in Nat, NEW q, q \in Nat, q = p + Len(w), q < Len(in), There(in, w, p),
         NEW start, NEW out, InRecord(r[p], FALSE, start, out)
  PROVE  InRecord(r[q], FALSE, start, out)
<1>1. Len(w) \in Nat /\ Len(in) \in Nat /\ p <= q
      /\ \A j \in 1..Len(w) : w[j] \notin {LeftParenthesis, RightParenthesis, Comma, Quote}
  BY TextLength DEF RecordPlain
<1>2. ASSUME NEW i \in p..q - 1, r[i] = r[p] PROVE r[i + 1] = r[i]
  <2>1. i - p + 1 \in 1..Len(w) /\ p + (i - p + 1) - 1 = i
    BY <1>1
  <2>2. At(in, i) = w[i - p + 1]
    BY <2>1 DEF There
  <2>3. i \in Nat /\ i \in 0..Len(in) - 1
    BY <1>1
  <2>4. RecordStep(in, r[i], i) = r[i]
    BY <1>1, <1>2, <2>1, <2>2, <2>3, RecordPassesPlain
  <2> QED
    BY <2>3, <2>4 DEF RecordRun
<1>3. \A i \in p..q - 1 : r[i] = r[p] => r[i + 1] = r[i]
  BY <1>2
<1>4. \A i \in p..q : r[i] = r[p]
  BY <1>1, <1>3, Unchanged
<1>5. r[q] = r[p]
  BY <1>1, <1>4
<1> QED
  BY <1>5

(* In quotes at position x, with all of out read before. *)
Between(in, r, x, out) ==
  /\ At(in, x - 1) # Escape
  /\ \E start, longer : InRecord(r[x], TRUE, start, longer) /\ start \in 1..x /\ Keeps(longer, out)

(* Among the doubled quotes of a field, a plain character changes nothing. *)
LEMMA BetweenPasses ==
  ASSUME NEW in, in \in Text, NEW r, RecordRun(in, r), NEW x, x \in Nat, x < Len(in),
         NEW out, Between(in, r, x, out), At(in, x) \notin {Quote, Escape}
  PROVE  Between(in, r, x + 1, out)
<1>1. PICK start, longer : InRecord(r[x], TRUE, start, longer) /\ start \in 1..x /\ Keeps(longer, out)
  BY DEF Between
<1>2. x \in 0..Len(in) - 1 /\ (x + 1) - 1 = x /\ start \in 1..x + 1
  BY <1>1, TextLength
<1>3. RecordStep(in, r[x], x) = r[x]
  <2>1. ~QuoteAt(in, x)
    BY DEF QuoteAt
  <2> QED
    BY <1>1, <2>1, RecordPassesQuoted
<1>4. r[x + 1] = r[x]
  BY <1>2, <1>3 DEF RecordRun
<1>5. At(in, (x + 1) - 1) # Escape
  BY <1>2
<1> QED
  BY <1>1, <1>2, <1>4, <1>5 DEF Between

(* The first quote of two ends a field, and the second one begins another. *)
LEMMA BetweenCloses ==
  ASSUME NEW in, in \in Text, NEW r, RecordRun(in, r), NEW x, x \in Nat, x > 1, x < Len(in),
         NEW out, Between(in, r, x, out), At(in, x) = Quote
  PROVE  \E longer : /\ InRecord(r[x + 1], FALSE, x + 1, longer)
                     /\ Keeps(longer, out) /\ Len(longer) > Len(out)
<1>1. PICK start, shorter : InRecord(r[x], TRUE, start, shorter) /\ start \in 1..x /\ Keeps(shorter, out)
  BY DEF Between
<1>2. x \in 0..Len(in) - 1 /\ start \in Nat /\ start > 0 /\ start <= x /\ x <= Len(in)
  BY <1>1, TextLength
<1>3. Field(in, start, x) \in Text \cup {Null}
  BY <1>2, FieldType
<1> DEFINE f == Field(in, start, x)
           longer == Append(shorter, f)
<1>4. InRecord(r[x + 1], FALSE, x + 1, longer)
  <2>1. QuoteAt(in, x)
    BY DEF QuoteAt, Between
  <2>2. r[x + 1] = RecordStep(in, r[x], x)
    BY <1>2 DEF RecordRun
  <2> QED
    BY <1>1, <1>2, <1>3, <2>1, <2>2, RecordQuoteCloses
<1> HIDE DEF f
<1>5. shorter \in Fields /\ out \in Fields
  BY <1>1 DEF Keeps
<1>6. Keeps(longer, shorter) /\ Len(longer) = Len(shorter) + 1 /\ Len(shorter) \in Nat /\ Len(out) \in Nat
  BY <1>3, <1>5, KeepsAppend, LenProperties DEF Fields, f
<1> HIDE DEF longer
<1>7. Keeps(longer, out) /\ Len(longer) > Len(out)
  <2>1. Keeps(longer, out)
    BY <1>1, <1>6, KeepsAll
  <2>2. Len(out) <= Len(shorter)
    BY <1>1 DEF Keeps
  <2> QED
    BY <1>6, <2>1, <2>2
<1> QED
  BY <1>4, <1>7

(* A doubled quote ends the field and opens another one. *)
LEMMA BetweenReopens ==
  ASSUME NEW in, in \in Text, NEW r, RecordRun(in, r), NEW x, x \in Nat, x > 1, x + 1 < Len(in),
         NEW out, Between(in, r, x, out), At(in, x) = Quote, At(in, x + 1) = Quote
  PROVE  Between(in, r, x + 2, out)
<1>0. x < Len(in) /\ x + 1 \in 0..Len(in) - 1 /\ x + 1 \in Nat /\ (x + 1) - 1 = x /\ (x + 1) + 1 = x + 2
      /\ (x + 2) - 1 = x + 1
  BY TextLength
<1>1. PICK longer : InRecord(r[x + 1], FALSE, x + 1, longer) /\ Keeps(longer, out)
  BY <1>0, BetweenCloses
<1>2. QuoteAt(in, x + 1)
  BY <1>0, Characters DEF QuoteAt
<1>3. r[x + 2] = RecordStep(in, r[x + 1], x + 1)
  BY <1>0 DEF RecordRun
<1> DEFINE y == x + 1
<1>4. y \in Nat /\ InRecord(r[y], FALSE, y, longer) /\ QuoteAt(in, y) /\ r[y + 1] = RecordStep(in, r[y], y)
      /\ y + 1 = x + 2
  BY <1>0, <1>1, <1>2, <1>3
<1> HIDE DEF y
<1>5. InRecord(r[y + 1], TRUE, y + 1, longer)
  BY <1>4, RecordQuoteOpens
<1>6. y + 1 \in 1..x + 2
  BY <1>4
<1>7. At(in, (x + 2) - 1) # Escape
  BY <1>0, Characters
<1> QED
  BY <1>1, <1>4, <1>5, <1>6, <1>7 DEF Between

(* A text in quotes, each quote in it doubled, ends in quotes. *)
LEMMA BetweenDoubled ==
  ASSUME NEW in, in \in Text, NEW r, RecordRun(in, r), NEW p, p \in Nat, p > 1,
         NEW out, Between(in, r, p, out),
         NEW w, w \in Text, NoEscape(w), There(in, Doubled(w), p), p + Len(Doubled(w)) < Len(in)
  PROVE  Between(in, r, p + Len(Doubled(w)), out)
<1> DEFINE Good(t) == NoEscape(t) /\ There(in, Doubled(t), p) /\ p + Len(Doubled(t)) < Len(in)
                        => Between(in, r, p + Len(Doubled(t)), out)
           T == {t \in Text : Good(t)}
<1>1. <<>> \in T
  <2>1. Doubled(<<>>) = <<>> /\ Len(<<>>) = 0 /\ <<>> \in Text /\ p + 0 = p
    BY NoneWritten, NoCharacters
  <2>2. Good(<<>>)
    BY <2>1
  <2> QED
    BY <2>1, <2>2
<1>2. ASSUME NEW t, t \in Text, NEW c, c \in Character, Good(t)
      PROVE  Good(Append(t, c))
  <2> DEFINE u == Append(t, c)
             x == Doubled(t)
             y == Doubled(u)
             n == p + Len(x)
  <2> SUFFICES ASSUME NoEscape(u), There(in, y, p), p + Len(y) < Len(in)
               PROVE  Between(in, r, p + Len(y), out)
    OBVIOUS
  <2>1. c # Escape /\ NoEscape(t)
    <3>1. Len(u) = Len(t) + 1 /\ Len(t) \in Nat /\ (\A i \in 1..Len(t) : u[i] = t[i]) /\ u[Len(t) + 1] = c
      BY <1>2, TextAppend
    <3>2. \A j \in 1..Len(u) : u[j] # Escape
      BY DEF NoEscape
    <3> HIDE DEF u
    <3> QED
      BY <3>1, <3>2 DEF NoEscape
  <2>2. y = x \o (IF c \in {Quote, Escape} THEN <<c, c>> ELSE <<c>>) /\ x \in Text
    BY <1>2, DoubledAppend
  <2>3. ASSUME There(in, x, p), n < Len(in) PROVE Between(in, r, n, out)
    BY <1>2, <2>1, <2>3
  <2>4. Len(in) \in Nat /\ Len(x) \in Nat
    BY <2>2, TextLength
  <2> HIDE DEF u, x, y, Good
  <2>5. CASE c # Quote
    <3>1. y = Append(x, c)
      BY <1>2, <2>1, <2>2, <2>5, AppendIsConcat DEF Text
    <3>2. There(in, x, p) /\ At(in, n) = c /\ Len(y) = Len(x) + 1
      <4>1. There(in, Append(x, c), p) /\ x \in Text
        BY <2>2, <3>1
      <4> QED
        BY ONLY <1>2, <3>1, <4>1, p \in Nat, ThereAppend
    <3>3. n \in Nat /\ n < Len(in) /\ p + Len(y) = n + 1
      BY <2>4, <3>2
    <3>4. Between(in, r, n, out)
      BY <2>3, <3>2, <3>3
    <3> HIDE DEF n
    <3>5. At(in, n) \notin {Quote, Escape}
      BY <2>1, <2>5, <3>2
    <3>6. Between(in, r, n + 1, out)
      BY <3>3, <3>4, <3>5, BetweenPasses
    <3> QED
      BY <3>3, <3>6
  <2>6. CASE c = Quote
    <3> DEFINE z == Append(x, c)
    <3>1. y = Append(z, c)
      <4>1. \A s \in Seq(Character) : \A a, b : s \o <<a, b>> = Append(Append(s, a), b)
        OBVIOUS
      <4> QED
        BY <2>2, <2>6, <4>1 DEF Text
    <3>2. z \in Text /\ Len(z) = Len(x) + 1
      BY <1>2, <2>2, TextAppend
    <3>3. There(in, z, p) /\ At(in, p + Len(z)) = c /\ Len(y) = Len(z) + 1
      <4> HIDE DEF z
      <4> QED
        BY <1>2, <3>1, <3>2, ThereAppend
    <3>4. There(in, x, p) /\ At(in, n) = c
      BY <1>2, <2>2, <3>3, ThereAppend, SMTT(20)
    <3> HIDE DEF z
    <3>5. n \in Nat /\ n > 1 /\ n < Len(in) /\ n + 1 < Len(in) /\ p + Len(y) = n + 2 /\ p + Len(z) = n + 1
      BY <2>4, <3>2, <3>3
    <3>6. Between(in, r, n, out)
      BY <2>3, <3>4, <3>5
    <3> HIDE DEF n
    <3>7. At(in, n) = Quote /\ At(in, n + 1) = Quote
      BY <2>6, <3>3, <3>4, <3>5
    <3>8. Between(in, r, n + 2, out)
      BY <3>5, <3>6, <3>7, BetweenReopens
    <3> QED
      BY <3>5, <3>8
  <2> QED
    BY <2>5, <2>6
<1>3. Text \subseteq T
  <2>1. \A t \in Text, c \in Character : t \in T => Append(t, c) \in T
    <3> HIDE DEF Good
    <3> QED
      BY <1>2, TextAppend
  <2> HIDE DEF T
  <2> QED
    BY <1>1, <2>1, TextInduction
<1>4. Good(w)
  <2> HIDE DEF Good
  <2> QED
    BY <1>3
<1> QED
  BY <1>4

(* A quote after something else than an escape character begins a field. *)
LEMMA BetweenBegins ==
  ASSUME NEW in, in \in Text, NEW r, RecordRun(in, r), NEW p, p \in Nat, p > 0, p < Len(in),
         At(in, p) = Quote, At(in, p - 1) # Escape,
         NEW start, NEW out, out \in Fields, InRecord(r[p], FALSE, start, out)
  PROVE  Between(in, r, p + 1, out) /\ InRecord(r[p + 1], TRUE, p + 1, out)
<1>1. QuoteAt(in, p)
  BY DEF QuoteAt
<1>2. r[p + 1] = RecordStep(in, r[p], p)
  BY TextLength DEF RecordRun
<1>3. InRecord(r[p + 1], TRUE, p + 1, out)
  BY <1>1, <1>2, RecordQuoteOpens
<1>4. At(in, (p + 1) - 1) # Escape /\ p + 1 \in 1..p + 1
  BY (p + 1) - 1 = p, Characters
<1>5. Keeps(out, out)
  BY KeepsItself
<1> QED
  BY <1>3, <1>4, <1>5 DEF Between

(* A field in quotes, whose quotes are doubled and which has no escape
   characters, is read as two fields or more. *)
LEMMA RecordQuotedItem ==
  ASSUME NEW in, in \in Text, NEW r, RecordRun(in, r), NEW w, w \in Text, NoEscape(w),
         NEW item, Encloses(item, Quote, Doubled(w), Quote),
         NEW p, p \in Nat, p > 0, NEW q, q \in Nat, q = p + Len(item), q < Len(in),
         There(in, item, p), At(in, p - 1) # Escape,
         NEW out, out \in Fields, InRecord(r[p], FALSE, p, out)
  PROVE  \E longer : /\ RecordItemDone(in, r, q, longer)
                     /\ Keeps(longer, out) /\ Len(longer) >= Len(out) + 2
<1> DEFINE e == Doubled(w)
<1>1. /\ Len(e) \in Nat /\ Len(item) = Len(e) + 2 /\ item[1] = Quote /\ item[Len(e) + 2] = Quote
      /\ \A i \in 1..Len(e) : item[i + 1] = e[i]
  BY DEF Encloses
<1>2. \A j \in 1..Len(item) : At(in, p + j - 1) = item[j]
  BY DEF There
<1> HIDE DEF e
<1> DEFINE x == q - 1
<1>3. /\ x \in Nat /\ x > 1 /\ x < Len(in) /\ x + 1 = q /\ x = (p + 1) + Len(e) /\ p < Len(in)
      /\ p + 1 \in Nat /\ p + 1 > 1 /\ (p + 1) + Len(e) < Len(in) /\ Len(in) \in Nat
  BY <1>1, TextLength
<1>4. At(in, p) = Quote
  BY <1>1, <1>2, 1 \in 1..Len(item), p + 1 - 1 = p
<1>5. At(in, x) = Quote
  BY <1>1, <1>2, Len(e) + 2 \in 1..Len(item), p + (Len(e) + 2) - 1 = x
<1>6. There(in, e, p + 1)
  <2> SUFFICES ASSUME NEW j \in 1..Len(e) PROVE At(in, (p + 1) + j - 1) = e[j]
    BY DEF There
  <2>1. j + 1 \in 1..Len(item) /\ p + (j + 1) - 1 = (p + 1) + j - 1
    BY <1>1
  <2>2. At(in, p + (j + 1) - 1) = item[j + 1]
    BY <1>2, <2>1
  <2> QED
    BY <1>1, <2>1, <2>2
<1> HIDE DEF x
<1>7. Between(in, r, p + 1, out)
  BY <1>3, <1>4, BetweenBegins
<1>8. Between(in, r, (p + 1) + Len(e), out)
  BY ONLY in \in Text, RecordRun(in, r), w \in Text, NoEscape(w), <1>3, <1>6, <1>7, BetweenDoubled DEF e
<1>9. Between(in, r, x, out)
  BY <1>3, <1>8
<1>10. PICK longer : InRecord(r[x + 1], FALSE, x + 1, longer) /\ Keeps(longer, out) /\ Len(longer) > Len(out)
  BY <1>3, <1>5, <1>9, BetweenCloses
<1>11. q > 1 /\ q > 0 /\ q <= q /\ InRecord(r[q], FALSE, q, longer)
  <2>1. q > 1 /\ q > 0 /\ q <= q
    BY ONLY <1>3, q \in Nat
  <2> QED
    BY ONLY <1>3, <1>10, <2>1
<1> DEFINE f == Field(in, q, q)
<1>12. f \in Text \cup {Null} /\ RecordItemDone(in, r, q, Append(longer, f))
  BY <1>11, RecordFieldEnds
<1> HIDE DEF f
<1>13. Keeps(Append(longer, f), longer) /\ Len(Append(longer, f)) = Len(longer) + 1 /\ Len(longer) \in Nat
  <2>1. longer \in Fields
    BY <1>10 DEF Keeps
  <2> QED
    BY <1>12, <2>1, KeepsAppend
<1>14. Keeps(Append(longer, f), out)
  BY <1>10, <1>13, KeepsAll
<1>15. Len(Append(longer, f)) >= Len(out) + 2
  BY <1>10, <1>13, LenProperties DEF Fields
<1> QED
  BY <1>12, <1>14, <1>15

(* A field as record_out() writes it is read as it is if it is without quotes,
   and as two or more if it is in quotes. *)
RecordItemRead(in, r, q, w, out, longer) ==
  /\ RecordItemDone(in, r, q, longer) /\ Keeps(longer, out)
  /\ Unquoted(w) => longer = Append(out, w)
  /\ ~Unquoted(w) => Len(longer) >= Len(out) + 2

(* A plain field is read as it is, and a quoted field as at least two. *)
LEMMA RecordReadsItem ==
  ASSUME NEW in, in \in Text, NEW r, RecordRun(in, r), NEW w, w \in Text \cup {Null},
         Unquoted(w) \/ NoEscape(w), NEW item, item = RecordItem(w),
         NEW p, p \in Nat, p > 0, p > 1 \/ w # Null,
         NEW q, q \in Nat, q = p + Len(item), q < Len(in),
         There(in, item, p), At(in, p - 1) # Escape,
         NEW out, out \in Fields, InRecord(r[p], FALSE, p, out)
  PROVE  \E longer : RecordItemRead(in, r, q, w, out, longer)
<1>1. CASE Unquoted(w)
  <2>1. /\ item \in Text /\ RecordPlain(item) /\ Len(item) \in Nat
        /\ w = Null => Len(item) = 0
        /\ w # Null => item = w /\ Len(item) > 0
    BY <1>1, RecordItemType, TextLength
  <2>2. InRecord(r[q], FALSE, p, out)
    BY <2>1, RecordPlainStretch
  <2>3. q > 1 /\ p <= q /\ p + Len(item) <= Len(in) /\ p + Len(item) - 1 = q - 1
    BY <2>1, TextLength
  <2>4. Field(in, p, q) = w
    <3>1. CASE w = Null
      BY <2>1, <3>1 DEF Field
    <3>2. CASE w # Null
      <4>1. q # p /\ item = w
        BY <2>1, <3>2
      <4>2. Substr(in, p, p + Len(item) - 1) = item
        BY ONLY in \in Text, p \in Nat, There(in, item, p), <2>1, <2>3, SubstrEquals
      <4> QED
        BY <2>3, <4>1, <4>2 DEF Field
    <3> QED
      BY <3>1, <3>2
  <2>5. RecordItemDone(in, r, q, Append(out, w))
    BY <2>2, <2>3, <2>4, RecordFieldEnds
  <2>6. Keeps(Append(out, w), out)
    BY KeepsAppend
  <2> QED
    BY <1>1, <2>5, <2>6 DEF RecordItemRead
<1>2. CASE ~Unquoted(w)
  <2>1. w \in Text /\ Encloses(item, Quote, Doubled(w), Quote) /\ NoEscape(w)
    BY <1>2, RecordItemType
  <2>2. \E longer : /\ RecordItemDone(in, r, q, longer)
                    /\ Keeps(longer, out) /\ Len(longer) >= Len(out) + 2
    BY <2>1, RecordQuotedItem
  <2> QED
    BY <1>2, <2>2 DEF RecordItemRead
<1> QED
  BY <1>1, <1>2

----------------------------------------------------------------------------
(* The first quote of a field *)

(* A text without quotes and backslashes has nothing to double. *)
LEMMA NothingDoubled ==
  ASSUME NEW w, w \in Text, \A j \in 1..Len(w) : w[j] \notin {Quote, Escape}
  PROVE  Doubled(w) = w
<1> DEFINE Good(t) == (\A j \in 1..Len(t) : t[j] \notin {Quote, Escape}) => Doubled(t) = t
           T == {t \in Text : Good(t)}
<1>1. <<>> \in T
  BY NoCharacters, NoneWritten
<1>2. ASSUME NEW t, t \in Text, NEW c, c \in Character, Good(t) PROVE Good(Append(t, c))
  <2> DEFINE u == Append(t, c)
  <2>1. Len(u) = Len(t) + 1 /\ Len(t) \in Nat /\ (\A i \in 1..Len(t) : u[i] = t[i]) /\ u[Len(t) + 1] = c
    BY <1>2, TextAppend
  <2>2. Doubled(u) = Doubled(t) \o (IF c \in {Quote, Escape} THEN <<c, c>> ELSE <<c>>)
    BY <1>2, DoubledAppend
  <2> SUFFICES ASSUME \A j \in 1..Len(u) : u[j] \notin {Quote, Escape} PROVE Doubled(u) = Append(t, c)
    OBVIOUS
  <2> HIDE DEF u
  <2>3. c \notin {Quote, Escape} /\ \A j \in 1..Len(t) : t[j] \notin {Quote, Escape}
    BY <2>1
  <2>4. Doubled(t) = t
    BY <1>2, <2>3
  <2>5. Doubled(u) = t \o <<c>>
    BY <2>2, <2>3, <2>4
  <2> QED
    BY <1>2, <2>5, AppendIsConcat DEF Text
<1>3. Text \subseteq T
  <2>1. \A t \in Text, c \in Character : t \in T => Append(t, c) \in T
    <3> HIDE DEF Good
    <3> QED
      BY <1>2, TextAppend
  <2> HIDE DEF T
  <2> QED
    BY <1>1, <2>1, TextInduction
<1> QED
  BY <1>3

(* The first quote of w is at a, and no escape character is before it. *)
FirstQuote(w, a) ==
  a \in 1..Len(w) /\ w[a] = Quote /\ \A j \in 1..a - 1 : w[j] \notin {Quote, Escape}

(* The first quote of a text is at the same place, twice, when the quotes are doubled. *)
LEMMA DoubledFirst ==
  ASSUME NEW a, a \in Nat, a > 0, NEW w, w \in Text, FirstQuote(w, a)
  PROVE  /\ Doubled(w) \in Text /\ Len(Doubled(w)) \in Nat /\ Len(Doubled(w)) >= a + 1
         /\ Doubled(w)[a] = Quote /\ Doubled(w)[a + 1] = Quote
         /\ \A j \in 1..a - 1 : Doubled(w)[j] = w[j]
<1> DEFINE Shows(t, x) ==
             /\ x \in Text /\ Len(x) \in Nat /\ Len(x) >= a + 1 /\ x[a] = Quote /\ x[a + 1] = Quote
             /\ \A j \in 1..a - 1 : x[j] = t[j]
           Good(t) == FirstQuote(t, a) => Shows(t, Doubled(t))
           T == {t \in Text : Good(t)}
<1>1. <<>> \in T
  BY NoCharacters DEF FirstQuote
<1>2. ASSUME NEW t, t \in Text, NEW c, c \in Character, Good(t) PROVE Good(Append(t, c))
  <2> DEFINE u == Append(t, c)
             x == Doubled(t)
             y == Doubled(u)
             z == IF c \in {Quote, Escape} THEN <<c, c>> ELSE <<c>>
  <2> SUFFICES ASSUME FirstQuote(u, a) PROVE Shows(u, y)
    OBVIOUS
  <2>1. Len(u) = Len(t) + 1 /\ Len(t) \in Nat /\ (\A i \in 1..Len(t) : u[i] = t[i]) /\ u[Len(t) + 1] = c
    BY <1>2, TextAppend
  <2>2. y = x \o z /\ x \in Text
    BY <1>2, DoubledAppend
  <2>3. z \in Text
    <3>1. <<c, c>> \in Seq(Character) /\ <<c>> \in Seq(Character)
      BY <1>2
    <3> QED
      BY <3>1 DEF Text
  <2>4. FirstQuote(t, a) => Shows(t, x)
    BY <1>2
  <2> HIDE DEF u, x, z
  <2>5. /\ y \in Text /\ Len(x) \in Nat /\ Len(z) \in Nat /\ Len(y) = Len(x) + Len(z)
        /\ (\A i \in 1..Len(x) : y[i] = x[i]) /\ (\A j \in 1..Len(z) : y[Len(x) + j] = z[j])
    BY <2>2, <2>3, TextConcat
  <2> HIDE DEF y
  <2>6. CASE a \in 1..Len(t)
    <3>1. FirstQuote(t, a)
      BY <2>1, <2>6 DEF FirstQuote
    <3>2. Shows(t, x)
      BY <2>4, <3>1
    <3> QED
      BY <2>1, <2>5, <2>6, <3>2
  <2>7. CASE a \notin 1..Len(t)
    <3>1. a = Len(t) + 1 /\ c = Quote /\ \A j \in 1..Len(t) : t[j] \notin {Quote, Escape}
      BY <2>1, <2>7 DEF FirstQuote
    <3>2. x = t
      BY <1>2, <3>1, NothingDoubled DEF x
    <3>3. z = <<c, c>>
      BY <3>1 DEF z
    <3>4. Len(z) = 2 /\ z[1] = c /\ z[2] = c
      BY <3>3
    <3>5. y[Len(x) + 1] = c /\ y[Len(x) + 2] = c /\ Len(y) = Len(x) + 2
      BY <2>5, <3>4
    <3>6. a = Len(x) + 1 /\ a + 1 = Len(x) + 2 /\ a - 1 = Len(x)
      BY <2>1, <3>1, <3>2
    <3> QED
      BY <2>1, <2>5, <3>1, <3>2, <3>5, <3>6
  <2> QED
    BY <2>6, <2>7
<1>3. Text \subseteq T
  <2>1. \A t \in Text, c \in Character : t \in T => Append(t, c) \in T
    <3> HIDE DEF Good
    <3> QED
      BY <1>2, TextAppend
  <2> HIDE DEF T
  <2> QED
    BY <1>1, <2>1, TextInduction
<1>4. Good(w)
  <2> HIDE DEF Good
  <2> QED
    BY <1>3
<1> QED
  BY <1>4

(* Another quote of w is doubled after the first one. *)
LEMMA DoubledLater ==
  ASSUME NEW a, a \in Nat, a > 0, NEW b, b \in Nat, a < b,
         NEW w, w \in Text, FirstQuote(w, a), b <= Len(w), w[b] = Quote
  PROVE  \E y \in a + 3..Len(Doubled(w)) : Doubled(w)[y] = Quote /\ Doubled(w)[y - 1] = Quote
<1> DEFINE Later(x) == \E y \in a + 3..Len(x) : x[y] = Quote /\ x[y - 1] = Quote
           Good(t) == FirstQuote(t, a) /\ b <= Len(t) /\ t[b] = Quote => Later(Doubled(t))
           T == {t \in Text : Good(t)}
<1>1. <<>> \in T
  BY NoCharacters DEF FirstQuote
<1>2. ASSUME NEW t, t \in Text, NEW c, c \in Character, Good(t) PROVE Good(Append(t, c))
  <2> DEFINE u == Append(t, c)
             x == Doubled(t)
             y == Doubled(u)
             z == IF c \in {Quote, Escape} THEN <<c, c>> ELSE <<c>>
  <2> SUFFICES ASSUME FirstQuote(u, a), b <= Len(u), u[b] = Quote PROVE Later(y)
    OBVIOUS
  <2>1. Len(u) = Len(t) + 1 /\ Len(t) \in Nat /\ (\A i \in 1..Len(t) : u[i] = t[i]) /\ u[Len(t) + 1] = c
    BY <1>2, TextAppend
  <2>2. y = x \o z /\ x \in Text
    BY <1>2, DoubledAppend
  <2>3. z \in Text
    <3>1. <<c, c>> \in Seq(Character) /\ <<c>> \in Seq(Character)
      BY <1>2
    <3> QED
      BY <3>1 DEF Text
  <2>4. FirstQuote(t, a) /\ b <= Len(t) /\ t[b] = Quote => Later(x)
    BY <1>2
  <2> HIDE DEF u, x, z
  <2>5. /\ y \in Text /\ Len(x) \in Nat /\ Len(z) \in Nat /\ Len(y) = Len(x) + Len(z)
        /\ (\A i \in 1..Len(x) : y[i] = x[i]) /\ (\A j \in 1..Len(z) : y[Len(x) + j] = z[j])
    BY <2>2, <2>3, TextConcat
  <2> HIDE DEF y
  <2>6. FirstQuote(t, a)
    BY <2>1 DEF FirstQuote
  <2>7. CASE b <= Len(t)
    <3>1. Later(x)
      BY <2>1, <2>4, <2>6, <2>7
    <3>2. PICK m \in a + 3..Len(x) : x[m] = Quote /\ x[m - 1] = Quote
      BY <3>1
    <3>3. m \in a + 3..Len(y) /\ m \in 1..Len(x) /\ m - 1 \in 1..Len(x)
      BY <2>5, <3>2
    <3> QED
      BY <2>5, <3>2, <3>3
  <2>8. CASE ~(b <= Len(t))
    <3>1. b = Len(t) + 1 /\ c = Quote
      BY <2>1, <2>8
    <3>2. z = <<c, c>>
      BY <3>1 DEF z
    <3>3. Len(z) = 2 /\ z[1] = c /\ z[2] = c
      BY <3>2
    <3>4. Len(x) >= a + 1
      BY <1>2, <2>6, DoubledFirst DEF x
    <3> DEFINE m == Len(x) + 2
    <3>5. m \in a + 3..Len(y) /\ m - 1 = Len(x) + 1
      BY <2>5, <3>3, <3>4
    <3>6. y[m] = Quote /\ y[m - 1] = Quote
      BY <2>5, <3>1, <3>3, <3>5
    <3> HIDE DEF m
    <3> QED
      BY <3>5, <3>6
  <2> QED
    BY <2>7, <2>8
<1>3. Text \subseteq T
  <2>1. \A t \in Text, c \in Character : t \in T => Append(t, c) \in T
    <3> HIDE DEF Good
    <3> QED
      BY <1>2, TextAppend
  <2> HIDE DEF T
  <2> QED
    BY <1>1, <2>1, TextInduction
<1>4. Good(w)
  <2> HIDE DEF Good
  <2> QED
    BY <1>3
<1> QED
  BY <1>4

NoQuote(w) == \A j \in 1..Len(w) : w[j] \notin {Quote, Escape}

(* What is between a quote and the next one is read as a field, or as NULL if
   it is nothing. *)
LEMMA FieldUpToQuote ==
  ASSUME NEW in, in \in Text, NEW r, RecordRun(in, r), NEW p, p \in Nat, p > 0,
         At(in, p) = Quote, At(in, p - 1) # Escape,
         NEW u, u \in Text, NoQuote(u), There(in, u, p + 1),
         NEW x, x \in Nat, x = p + 1 + Len(u), x < Len(in), At(in, x) = Quote,
         NEW start, NEW out, out \in Fields, InRecord(r[p], FALSE, start, out)
  PROVE  InRecord(r[x + 1], FALSE, x + 1, Append(out, IF Len(u) = 0 THEN Null ELSE u))
<1> DEFINE y == p + 1
<1>1. /\ Len(u) \in Nat /\ Len(in) \in Nat /\ y \in Nat /\ y <= x /\ x = y + Len(u) /\ p < Len(in)
      /\ y > 0 /\ x > 1 /\ x \in 0..Len(in) - 1 /\ x <= Len(in)
  BY TextLength
<1>2. InRecord(r[y], TRUE, y, out)
  BY <1>1, BetweenBegins
<1>3. \A j \in 1..Len(u) : At(in, y + j - 1) = u[j] /\ u[j] \notin {Quote, Escape}
  BY DEF There, NoQuote
<1>4. y - 1 = p
  BY p \in Nat
<1> HIDE DEF y
<1>5. ASSUME NEW i \in y..x - 1, r[i] = r[y] PROVE r[i + 1] = r[i]
  <2>1. i - y + 1 \in 1..Len(u) /\ y + (i - y + 1) - 1 = i /\ i \in Nat /\ i \in 0..Len(in) - 1
    BY <1>1
  <2>2. At(in, i) # Quote
    BY <1>3, <2>1
  <2>3. ~QuoteAt(in, i)
    BY <2>2 DEF QuoteAt
  <2>4. RecordStep(in, r[i], i) = r[i]
    BY <1>2, <1>5, <2>1, <2>3, RecordPassesQuoted
  <2> QED
    BY <2>1, <2>4 DEF RecordRun
<1>6. r[x] = r[y]
  <2>1. \A i \in y..x - 1 : r[i] = r[y] => r[i + 1] = r[i]
    BY <1>5
  <2>2. \A i \in y..x : r[i] = r[y]
    BY <1>1, <2>1, Unchanged
  <2> QED
    BY <1>1, <2>2
<1>7. QuoteAt(in, x)
  <2>1. CASE Len(u) = 0
    <3>1. x - 1 = p
      BY <1>1, <1>4, <2>1
    <3> QED
      BY <3>1, Characters DEF QuoteAt
  <2>2. CASE Len(u) # 0
    <3>1. Len(u) \in 1..Len(u) /\ y + Len(u) - 1 = x - 1
      BY <1>1, <2>2
    <3>2. At(in, x - 1) # Escape
      BY <1>3, <3>1
    <3> QED
      BY <3>2 DEF QuoteAt
  <2> QED
    BY <2>1, <2>2
<1> DEFINE f == Field(in, y, x)
<1>8. f \in Text \cup {Null}
  BY <1>1, FieldType
<1>9. InRecord(r[x + 1], FALSE, x + 1, Append(out, f))
  <2>1. r[x + 1] = RecordStep(in, r[x], x)
    BY <1>1 DEF RecordRun
  <2>2. InRecord(r[x], TRUE, y, out)
    BY <1>2, <1>6
  <2> QED
    BY <1>1, <1>7, <1>8, <2>1, <2>2, RecordQuoteCloses
<1>10. f = IF Len(u) = 0 THEN Null ELSE u
  <2>1. CASE Len(u) = 0
    BY <1>1, <2>1 DEF Field
  <2>2. CASE Len(u) # 0
    <3>1. y # x /\ y + Len(u) - 1 = x - 1 /\ y + Len(u) <= Len(in)
      BY <1>1, <2>2
    <3>2. There(in, u, y)
      BY <1>3 DEF There
    <3>3. Substr(in, y, y + Len(u) - 1) = u
      BY <1>1, <3>1, <3>2, SubstrEquals
    <3> QED
      BY <2>2, <3>1, <3>3 DEF Field
  <2> QED
    BY <2>1, <2>2
<1> QED
  BY <1>9, <1>10

(* Whatever is in quotes, the next quote that no escape character precedes
   ends a field. *)
LEMMA BetweenEnds ==
  ASSUME NEW in, in \in Text, NEW r, RecordRun(in, r), NEW x, x \in Nat, x > 1,
         NEW out, Between(in, r, x, out), NEW y, y \in Nat, x <= y, y < Len(in), QuoteAt(in, y)
  PROVE  \E z \in Nat : /\ z <= Len(in) /\ r[z] \in RecordState
                        /\ Keeps(r[z].out, out) /\ Len(r[z].out) > Len(out)
<1>1. PICK start, shorter : InRecord(r[x], TRUE, start, shorter) /\ start \in 1..x /\ Keeps(shorter, out)
  BY DEF Between
<1> DEFINE Ended == \E z \in Nat : /\ z <= Len(in) /\ r[z] \in RecordState
                                   /\ Keeps(r[z].out, out) /\ Len(r[z].out) > Len(out)
           Quoted(i) == InRecord(r[i], TRUE, start, shorter)
           T == {k \in Nat : x + k <= y => Quoted(x + k) \/ Ended}
<1>2. Len(in) \in Nat
  BY TextLength
<1>3. ASSUME NEW i, i \in Nat, x <= i, i < Len(in), Quoted(i), QuoteAt(in, i)
      PROVE  Ended
  <2>1. /\ i \in 0..Len(in) - 1 /\ start \in Nat /\ start > 0 /\ start <= i /\ i <= Len(in) /\ i > 1
        /\ i + 1 \in Nat /\ i + 1 <= Len(in)
    BY <1>1, <1>2, <1>3
  <2>2. Field(in, start, i) \in Text \cup {Null}
    BY <1>3, <2>1, FieldType
  <2> DEFINE f == Field(in, start, i)
             longer == Append(shorter, f)
  <2>3. InRecord(r[i + 1], FALSE, i + 1, longer)
    <3>1. r[i + 1] = RecordStep(in, r[i], i)
      BY <2>1 DEF RecordRun
    <3> QED
      BY <1>3, <2>1, <2>2, <3>1, RecordQuoteCloses
  <2> HIDE DEF f
  <2>4. shorter \in Fields /\ out \in Fields /\ Len(out) <= Len(shorter)
    BY <1>1 DEF Keeps
  <2>5. Keeps(longer, shorter) /\ Len(longer) = Len(shorter) + 1 /\ Len(shorter) \in Nat /\ Len(out) \in Nat
    BY <2>2, <2>4, KeepsAppend, LenProperties DEF Fields, f
  <2> HIDE DEF longer
  <2>6. Keeps(longer, out)
    BY <1>1, <2>5, KeepsAll
  <2>7. r[i + 1] \in RecordState /\ r[i + 1].out = longer
    BY <2>3 DEF InRecord
  <2>8. Len(longer) > Len(out)
    BY <2>4, <2>5
  <2> QED
    BY <2>1, <2>6, <2>7, <2>8
<1> HIDE DEF Ended
<1>4. 0 \in T
  BY <1>1, x + 0 = x
<1>5. ASSUME NEW k, k \in Nat, k \in T PROVE k + 1 \in T
  <2> DEFINE i == x + k
  <2>1. i \in Nat /\ i + 1 = x + (k + 1) /\ (i + 1 <= y => i <= y /\ i < Len(in) /\ i \in 0..Len(in) - 1) /\ x <= i
    <3>1. PICK n \in Nat : n = Len(in)
      BY <1>2
    <3>2. y < n
      BY <3>1
    <3> QED
      BY ONLY <1>5, <3>1, <3>2, x \in Nat, y \in Nat
  <2>2. i <= y => Quoted(i) \/ Ended
    BY <1>5
  <2> HIDE DEF i, Quoted
  <2>3. ASSUME i + 1 <= y, Quoted(i) PROVE Quoted(i + 1) \/ Ended
    <3>1. CASE QuoteAt(in, i)
      BY <1>3, <2>1, <2>3, <3>1
    <3>2. CASE ~QuoteAt(in, i)
      <4>1. RecordStep(in, r[i], i) = r[i]
        BY <2>1, <2>3, <3>2, RecordPassesQuoted DEF Quoted
      <4>2. r[i + 1] = r[i]
        BY <2>1, <2>3, <4>1 DEF RecordRun
      <4> QED
        BY <2>3, <4>2 DEF Quoted
    <3> QED
      BY <3>1, <3>2
  <2>4. i + 1 <= y => Quoted(i + 1) \/ Ended
    BY <2>1, <2>2, <2>3
  <2>5. x + (k + 1) <= y => Quoted(x + (k + 1)) \/ Ended
    BY ONLY <2>1, <2>4, Zenon
  <2> QED
    BY ONLY <1>5, <2>5, k + 1 \in Nat
<1>6. y - x \in Nat /\ x + (y - x) = y
  BY x <= y
<1>7. Quoted(y) \/ Ended
  <2>1. \A k \in Nat : k \in T => k + 1 \in T
    BY <1>5
  <2> HIDE DEF T
  <2>2. Nat \subseteq T
    BY <1>4, <2>1, NatSetInduction
  <2>3. y - x \in T
    BY <1>6, <2>2
  <2> HIDE DEF Quoted
  <2>4. x + (y - x) <= y => Quoted(x + (y - x)) \/ Ended
    BY <2>3 DEF T
  <2> QED
    BY <1>6, <2>4
<1>8. Ended
  <2> HIDE DEF Quoted
  <2> QED
    BY <1>3, <1>7
<1> QED
  BY <1>8 DEF Ended

(* What is read first of a field in quotes: all of it when it has no quotes, or
   what is before the first one; and when there is another quote after the first
   one, that is not all. *)
ReadFirst(in, r, out, v) ==
  \E z \in Nat : z <= Len(in) /\ r[z] \in RecordState /\ r[z].out = Append(out, IF Len(v) = 0 THEN Null ELSE v)

(* A quoted field is read up to its first quote, and a second quote ends another field. *)
LEMMA RecordQuotedStart ==
  ASSUME NEW in, in \in Text, NEW r, RecordRun(in, r), NEW w, w \in Text,
         NEW item, Encloses(item, Quote, Doubled(w), Quote),
         NEW p, p \in Nat, p > 0, p + Len(item) < Len(in),
         There(in, item, p), At(in, p - 1) # Escape,
         NEW out, out \in Fields, InRecord(r[p], FALSE, p, out)
  PROVE  /\ NoQuote(w) => ReadFirst(in, r, out, w)
         /\ \A a \in 1..Len(w) : FirstQuote(w, a) =>
              /\ ReadFirst(in, r, out, SubSeq(w, 1, a - 1))
              /\ \A b \in a + 1..Len(w) : w[b] = Quote =>
                   \E z \in Nat : /\ z <= Len(in) /\ r[z] \in RecordState
                                  /\ Keeps(r[z].out, out) /\ Len(r[z].out) >= Len(out) + 2
<1> DEFINE e == Doubled(w)
<1>1. /\ Len(e) \in Nat /\ Len(item) = Len(e) + 2 /\ item[1] = Quote /\ item[Len(e) + 2] = Quote
      /\ (\A i \in 1..Len(e) : item[i + 1] = e[i])
      /\ Len(in) \in Nat /\ Len(w) \in Nat
  BY TextLength DEF Encloses
<1>2. \A j \in 1..Len(item) : At(in, p + j - 1) = item[j]
  BY DEF There
<1> HIDE DEF e
<1>3. At(in, p) = Quote
  BY <1>1, <1>2, 1 \in 1..Len(item), p + 1 - 1 = p
<1>4. \A i \in 1..Len(e) : At(in, p + i) = e[i]
  <2> SUFFICES ASSUME NEW i \in 1..Len(e) PROVE At(in, p + i) = e[i]
    OBVIOUS
  <2>1. i + 1 \in 1..Len(item) /\ p + (i + 1) - 1 = p + i
    BY <1>1
  <2>2. At(in, p + (i + 1) - 1) = item[i + 1]
    BY <1>2, <2>1
  <2> QED
    BY <1>1, <2>1, <2>2
<1>5. ASSUME NEW u, u \in Text, NoQuote(u), Len(u) \in Nat, Len(u) <= Len(e), \A j \in 1..Len(u) : u[j] = e[j],
             NEW x, x \in Nat, x = p + 1 + Len(u), x < Len(in), At(in, x) = Quote
      PROVE  /\ InRecord(r[x + 1], FALSE, x + 1, Append(out, IF Len(u) = 0 THEN Null ELSE u))
             /\ ReadFirst(in, r, out, u)
  <2>1. There(in, u, p + 1)
    <3> SUFFICES ASSUME NEW j \in 1..Len(u) PROVE At(in, (p + 1) + j - 1) = u[j]
      BY DEF There
    <3>1. j \in 1..Len(e) /\ (p + 1) + j - 1 = p + j
      BY <1>1, <1>5
    <3> QED
      BY <1>4, <1>5, <3>1
  <2>2. InRecord(r[x + 1], FALSE, x + 1, Append(out, IF Len(u) = 0 THEN Null ELSE u))
    BY <1>3, <1>5, <2>1, FieldUpToQuote
  <2>3. x + 1 \in Nat /\ x + 1 <= Len(in)
    BY <1>1, <1>5
  <2> QED
    BY <2>2, <2>3 DEF ReadFirst, InRecord
<1>6. ASSUME NoQuote(w) PROVE ReadFirst(in, r, out, w)
  <2>1. e = w
    BY <1>6, NothingDoubled DEF e, NoQuote
  <2> DEFINE x == p + 1 + Len(w)
  <2>2. x \in Nat /\ x < Len(in) /\ Len(e) + 2 \in 1..Len(item) /\ p + (Len(e) + 2) - 1 = x
    BY <1>1, <2>1
  <2>3. At(in, x) = Quote
    BY <1>1, <1>2, <2>2
  <2>4. x = p + 1 + Len(w) /\ Len(w) <= Len(e)
    BY <1>1, <2>1
  <2> HIDE DEF x
  <2> QED
    BY <1>1, <1>5, <1>6, <2>1, <2>2, <2>3, <2>4
<1>7. ASSUME NEW a \in 1..Len(w), FirstQuote(w, a)
      PROVE  /\ ReadFirst(in, r, out, SubSeq(w, 1, a - 1))
             /\ \A b \in a + 1..Len(w) : w[b] = Quote =>
                  \E z \in Nat : /\ z <= Len(in) /\ r[z] \in RecordState
                                 /\ Keeps(r[z].out, out) /\ Len(r[z].out) >= Len(out) + 2
  <2> DEFINE u == SubSeq(w, 1, a - 1)
             x == p + a
  <2>0. a \in Nat /\ a > 0 /\ a <= Len(w) /\ \A i \in 1..a - 1 : w[i] \in Character
    <3>1. a \in Nat /\ a > 0 /\ a <= Len(w) /\ \A i \in 1..a - 1 : i \in 1..Len(w)
      BY ONLY <1>1, a \in 1..Len(w)
    <3>2. \A i \in 1..Len(w) : w[i] \in Character
      BY ONLY w \in Text, TextLength
    <3> QED
      BY ONLY <3>1, <3>2
  <2>1. u \in Text /\ Len(u) = a - 1 /\ \A i \in 1..a - 1 : u[i] = w[i]
    BY <1>1, <2>0, SubSeqProperties DEF Text
  <2> HIDE DEF u
  <2>2. Len(e) >= a + 1 /\ e[a] = Quote /\ e[a + 1] = Quote /\ \A j \in 1..a - 1 : e[j] = w[j]
    BY <2>0, <1>7, DoubledFirst DEF e
  <2>3. NoQuote(u) /\ Len(u) \in Nat /\ Len(u) <= Len(e) /\ \A j \in 1..Len(u) : u[j] = e[j]
    BY <1>1, <1>7, <2>0, <2>1, <2>2 DEF NoQuote, FirstQuote
  <2>4. x \in Nat /\ x = p + 1 + Len(u) /\ x < Len(in) /\ x + 1 < Len(in) /\ x + 1 = p + (a + 1)
        /\ x + 2 = p + (a + 2) /\ x + 1 > 0 /\ x + 1 \in Nat /\ x > 0
    BY <1>1, <2>0, <2>1, <2>2
  <2>5. At(in, x) = Quote /\ At(in, x + 1) = Quote
    <3>1. a \in 1..Len(e) /\ a + 1 \in 1..Len(e)
      BY <1>1, <2>0, <2>2
    <3>2. At(in, p + a) = e[a] /\ At(in, p + (a + 1)) = e[a + 1]
      BY <1>4, <3>1
    <3> QED
      BY <2>2, <2>4, <3>2
  <2> HIDE DEF x
  <2> DEFINE v == IF Len(u) = 0 THEN Null ELSE u
             one == Append(out, v)
  <2>6. InRecord(r[x + 1], FALSE, x + 1, one) /\ ReadFirst(in, r, out, u)
    BY <1>5, <2>1, <2>3, <2>4, <2>5
  <2>7. v \in Text \cup {Null}
    BY <2>1
  <2> HIDE DEF v
  <2>8. one \in Fields /\ Keeps(one, out) /\ Len(one) = Len(out) + 1 /\ Len(out) \in Nat
    BY <2>7, KeepsAppend
  <2> HIDE DEF one
  <2>9. ASSUME NEW b \in a + 1..Len(w), w[b] = Quote
        PROVE  \E z \in Nat : /\ z <= Len(in) /\ r[z] \in RecordState
                              /\ Keeps(r[z].out, out) /\ Len(r[z].out) >= Len(out) + 2
    <3>1. b \in Nat /\ a < b /\ b <= Len(w)
      BY <1>1, <2>0
    <3>2. PICK y \in a + 3..Len(e) : e[y] = Quote /\ e[y - 1] = Quote
      BY ONLY w \in Text, <1>7, <2>0, <2>9, <3>1, DoubledLater DEF e
    <3> DEFINE k == p + y
               j == x + 1
    <3>3. k \in Nat /\ k < Len(in) /\ x + 2 <= k /\ y \in 1..Len(e) /\ y - 1 \in 1..Len(e) /\ k - 1 = p + (y - 1)
      <4>1. PICK m \in Nat, n \in Nat : m = Len(e) /\ n = Len(in) /\ p + (m + 2) < n
        BY ONLY <1>1, p + Len(item) < Len(in)
      <4>2. y \in a + 3..m
        BY ONLY <3>2, <4>1
      <4>3. x = p + a
        BY DEF x
      <4>4. y \in Nat /\ y >= a + 3 /\ y <= m
        BY ONLY <2>0, <4>2, m \in Nat
      <4>5. p + y \in Nat /\ p + y < n /\ x + 2 <= p + y /\ y \in 1..m /\ y - 1 \in 1..m /\ (p + y) - 1 = p + (y - 1)
        BY ONLY <2>0, <4>1, <4>3, <4>4, p \in Nat, m \in Nat, n \in Nat
      <4> QED
        BY ONLY <4>1, <4>5
    <3>4. At(in, k) = Quote /\ At(in, k - 1) = Quote
      BY <1>4, <3>2, <3>3
    <3>5. QuoteAt(in, k)
      BY <3>4, Characters DEF QuoteAt
    <3> HIDE DEF k
    <3>6. j \in Nat /\ j > 0 /\ j < Len(in) /\ At(in, j) = Quote /\ j - 1 = x /\ j + 1 = x + 2
          /\ InRecord(r[j], FALSE, j, one)
      <4>1. j \in Nat /\ j > 0 /\ j < Len(in) /\ j - 1 = x /\ j + 1 = x + 2
        BY ONLY <2>4
      <4> QED
        BY ONLY <2>5, <2>6, <4>1
    <3>7. At(in, j - 1) # Escape
      BY <2>5, <3>6, Characters
    <3> HIDE DEF j
    <3>8. Between(in, r, j + 1, one)
      BY <2>8, <3>6, <3>7, BetweenBegins
    <3>9. j + 1 \in Nat /\ j + 1 > 1 /\ j + 1 <= k
      BY <3>3, <3>6
    <3>10. PICK z \in Nat : /\ z <= Len(in) /\ r[z] \in RecordState
                            /\ Keeps(r[z].out, one) /\ Len(r[z].out) > Len(one)
      BY ONLY in \in Text, RecordRun(in, r), <3>3, <3>5, <3>8, <3>9, BetweenEnds
    <3>11. Keeps(r[z].out, out)
      BY <2>8, <3>10, KeepsAll
    <3>12. Len(r[z].out) \in Nat
      BY <3>10, LenProperties DEF Keeps, Fields
    <3>13. Len(r[z].out) >= Len(out) + 2
      BY <2>8, <3>10, <3>12
    <3> QED
      BY <3>10, <3>11, <3>13
  <2> QED
    BY <2>6, <2>9 DEF u
<1> QED
  BY <1>6, <1>7

----------------------------------------------------------------------------
(* Composite values of three fields *)

(* The text in of the fields a, b and c, the second of which begins at position
   l and the third at m, and the states r of the loop that reads it. *)
RecordOfThree(in, a, b, c, l, m, r) ==
  /\ in \in Text /\ RecordRun(in, r) /\ InRecord(r[1], FALSE, 1, <<>>)
  /\ l \in Nat /\ m \in Nat
  /\ l = 1 + Len(RecordItem(a)) + 1
  /\ m = l + Len(RecordItem(b)) + 1
  /\ Len(in) = m + Len(RecordItem(c)) + 1
  /\ There(in, RecordItem(a), 1) /\ There(in, RecordItem(b), l) /\ There(in, RecordItem(c), m)
  /\ At(in, 0) = LeftParenthesis
  /\ At(in, l - 1) = Comma /\ At(in, m - 1) = Comma /\ At(in, Len(in) - 1) = RightParenthesis

(* A row of three fields, where its fields are written, and its reading. *)
LEMMA RecordWritten ==
  ASSUME NEW a, a \in Text \cup {Null}, NEW b, b \in Text \cup {Null}, NEW c, c \in Text \cup {Null},
         NEW in, in = RecordOut(<<a, b, c>>)
  PROVE  \E l, m, r : /\ RecordOfThree(in, a, b, c, l, m, r)
                      /\ from_text_composite_value(in) = r[Len(in)].out
<1> DEFINE d == <<a, b, c>>
           items == [n \in DOMAIN d |-> RecordItem(d[n])]
<1>1. items \in Seq(Text) /\ Len(items) = 3
      /\ items[1] = RecordItem(a) /\ items[2] = RecordItem(b) /\ items[3] = RecordItem(c)
  <2>1. DOMAIN d = 1..3 /\ d[1] = a /\ d[2] = b /\ d[3] = c
    OBVIOUS
  <2>2. RecordItem(a) \in Text /\ RecordItem(b) \in Text /\ RecordItem(c) \in Text
    BY RecordItemType
  <2> HIDE DEF d
  <2>3. \A k \in 1..3 : RecordItem(d[k]) \in Text
    <3>1. \A k \in 1..3 : k = 1 \/ k = 2 \/ k = 3
      OBVIOUS
    <3> QED
      BY <2>1, <2>2, <3>1
  <2>4. items = [k \in 1..3 |-> RecordItem(d[k])]
    BY <2>1
  <2> HIDE DEF items
  <2>5. items \in Seq(Text)
    BY <2>3, <2>4, IsASeq
  <2>6. Len(items) = 3
    BY <2>4, <2>5, LenProperties
  <2> QED
    BY <2>1, <2>4, <2>5, <2>6
<1>2. in = Enclosed(LeftParenthesis, Commas(items), RightParenthesis)
  BY DEF RecordOut, RecordItem, Enclosed
<1> HIDE DEF items
<1>3. HasItems(in, items, LeftParenthesis, RightParenthesis)
  BY ONLY <1>1, <1>2, Characters, ItemsWritten
<1>4. in \in Text /\ At(in, 0) = LeftParenthesis /\ Len(in) >= 2 /\ Len(in) \in Nat
  BY <1>3, TextLength DEF HasItems
<1>5. PICK at : ItemsAt(in, items, LeftParenthesis, RightParenthesis, at)
  BY <1>3 DEF HasItems
<1>6. /\ at \in [0..3 -> Nat \ {0}] /\ at[0] = 1 /\ at[3] = Len(in)
      /\ \A k \in 1..3 :
           /\ at[k] = at[k - 1] + Len(items[k]) + 1
           /\ There(in, items[k], at[k - 1])
           /\ At(in, at[k] - 1) = IF k = 3 THEN RightParenthesis ELSE Comma
  <2>1. items # <<>>
    BY <1>1, EmptySeq
  <2> QED
    BY ONLY <1>1, <1>5, <2>1, Zenon DEF ItemsAt, There
<1>7. /\ at[1] \in Nat /\ at[2] \in Nat
      /\ at[1] = 1 + Len(items[1]) + 1 /\ There(in, items[1], 1) /\ At(in, at[1] - 1) = Comma
      /\ at[2] = at[1] + Len(items[2]) + 1 /\ There(in, items[2], at[1]) /\ At(in, at[2] - 1) = Comma
      /\ Len(in) = at[2] + Len(items[3]) + 1 /\ There(in, items[3], at[2]) /\ At(in, Len(in) - 1) = RightParenthesis
  <2>1. 1 - 1 = 0 /\ 2 - 1 = 1 /\ 3 - 1 = 2 /\ 1 # 3 /\ 2 # 3 /\ 1 \in 1..3 /\ 2 \in 1..3 /\ 3 \in 1..3
        /\ 1 \in 0..3 /\ 2 \in 0..3
    OBVIOUS
  <2> QED
    BY ONLY <1>6, <2>1
<1>8. PICK r : Reading("record", in, r)
  BY <1>4, ReadingExists
<1>9. r[0] = RecordBegin /\ RecordRun(in, r) /\ from_text_composite_value(in) = r[Len(in)].out
  BY <1>4, <1>8, ReadingAt, RecordRead DEF RecordRun, First, Turn
<1>10. r[1] = RecordStep(in, r[0], 0)
  BY <1>4, <1>9, 0 \in 0..Len(in) - 1, 0 + 1 = 1 DEF RecordRun
<1>11. InRecord(r[1], FALSE, 1, <<>>)
  BY <1>4, <1>9, <1>10, RecordOpens
<1>12. RecordOfThree(in, a, b, c, at[1], at[2], r)
  BY ONLY <1>1, <1>4, <1>7, <1>9, <1>11, Zenon DEF RecordOfThree
<1> QED
  BY ONLY <1>9, <1>12, Zenon

(* The order of these positions. *)
ThreePlaces(in, a, b, c, l, m) ==
  /\ Len(in) \in Nat /\ l > 1 /\ m > 1 /\ l < m /\ m < Len(in) /\ l <= Len(in)
  /\ l - 1 \in Nat /\ l - 1 = 1 + Len(RecordItem(a)) /\ l - 1 < Len(in) /\ (l - 1) + 1 = l
  /\ m - 1 \in Nat /\ m - 1 = l + Len(RecordItem(b)) /\ m - 1 < Len(in) /\ (m - 1) + 1 = m
  /\ Len(in) - 1 \in Nat /\ Len(in) - 1 = m + Len(RecordItem(c)) /\ Len(in) - 1 < Len(in)
  /\ (Len(in) - 1) + 1 = Len(in)
  /\ At(in, 1 - 1) # Escape /\ At(in, l - 1) # Escape /\ At(in, m - 1) # Escape

(* The three fields of a row follow one another, and end before the parenthesis. *)
LEMMA ThreePositions ==
  ASSUME NEW in, NEW a, a \in Text \cup {Null}, NEW b, b \in Text \cup {Null}, NEW c, c \in Text \cup {Null},
         NEW l, NEW m, NEW r, RecordOfThree(in, a, b, c, l, m, r)
  PROVE  ThreePlaces(in, a, b, c, l, m)
<1>1. Len(RecordItem(a)) \in Nat /\ Len(RecordItem(b)) \in Nat /\ Len(RecordItem(c)) \in Nat
  BY RecordItemType, TextLength
<1>2. PICK x \in Nat, y \in Nat, z \in Nat : x = Len(RecordItem(a)) /\ y = Len(RecordItem(b)) /\ z = Len(RecordItem(c))
  BY <1>1
<1>3. l \in Nat /\ m \in Nat /\ l = 1 + x + 1 /\ m = l + y + 1 /\ Len(in) = m + z + 1
  BY <1>2 DEF RecordOfThree
<1>4. At(in, 0) = LeftParenthesis /\ At(in, l - 1) = Comma /\ At(in, m - 1) = Comma
  BY DEF RecordOfThree
<1>5. At(in, 1 - 1) # Escape /\ At(in, l - 1) # Escape /\ At(in, m - 1) # Escape
  BY <1>4, Characters, 1 - 1 = 0
<1> QED
  BY ONLY <1>2, <1>3, <1>5 DEF ThreePlaces

(* Whatever comes after it, a first field without quotes is read as it is. *)
LEMMA FirstFieldRead ==
  ASSUME NEW in, NEW a, a \in Text, NEW b, b \in Text \cup {Null}, NEW c, c \in Text \cup {Null},
         NEW l, NEW m, NEW r, RecordOfThree(in, a, b, c, l, m, r), Unquoted(a)
  PROVE  InRecord(r[l], FALSE, l, <<a>>)
<1>1. /\ in \in Text /\ RecordRun(in, r) /\ InRecord(r[1], FALSE, 1, <<>>) /\ There(in, RecordItem(a), 1)
      /\ At(in, l - 1) = Comma
  BY DEF RecordOfThree
<1>2. /\ l - 1 \in Nat /\ l - 1 = 1 + Len(RecordItem(a)) /\ l - 1 < Len(in) /\ (l - 1) + 1 = l
      /\ At(in, 1 - 1) # Escape
  <2>1. a \in Text \cup {Null}
    OBVIOUS
  <2>2. ThreePlaces(in, a, b, c, l, m)
    BY ONLY b \in Text \cup {Null}, c \in Text \cup {Null}, RecordOfThree(in, a, b, c, l, m, r), <2>1, ThreePositions
  <2> QED
    BY ONLY <2>2 DEF ThreePlaces
<1>3. a \in Text \cup {Null} /\ a # Null /\ <<>> \in Fields /\ 1 \in Nat /\ 1 > 0
  BY TextAssumption, EmptySeq DEF Fields
<1> DEFINE q == l - 1
           item == RecordItem(a)
<1>4. q \in Nat /\ q = 1 + Len(item) /\ q < Len(in) /\ q + 1 = l /\ item = RecordItem(a) /\ There(in, item, 1)
  BY <1>1, <1>2
<1> HIDE DEF q, item
<1>5. PICK longer : RecordItemRead(in, r, q, a, <<>>, longer)
  BY ONLY <1>1, <1>2, <1>3, <1>4, Unquoted(a), RecordReadsItem
<1>6. longer = <<a>>
  <2>1. Append(<<>>, a) = <<a>>
    OBVIOUS
  <2> QED
    BY <1>5, <2>1 DEF RecordItemRead
<1>7. At(in, q) = Comma
  BY <1>1 DEF q
<1> QED
  BY <1>4, <1>5, <1>6, <1>7 DEF RecordItemRead, RecordItemDone

(* s with e after it, elements of S. *)
AppendedAtEnd(S, s, e) ==
  /\ Append(s, e) \in Seq(S) /\ Len(Append(s, e)) = Len(s) + 1
  /\ \A i \in 1..Len(s) : Append(s, e)[i] = s[i]
  /\ Append(s, e)[Len(s) + 1] = e

(* Appending leaves the elements there are and adds one after them. *)
LEMMA AppendsAtEnd ==
  ASSUME NEW S, NEW s, s \in Seq(S), NEW e, e \in S
  PROVE  AppendedAtEnd(S, s, e)
BY AppendProperties DEF AppendedAtEnd

(* Three fields, one after the other. *)
LEMMA ThreeAppended == \A a, b, c : Append(Append(Append(<<>>, a), b), c) = <<a, b, c>>
<1> TAKE a, b, c
<1>1. Append(<<>>, a) = <<a>>
  OBVIOUS
<1> DEFINE S == {a, b, c}
<1>2. Append(<<a>>, b) = <<a, b>>
  <2>1. <<a>> \in Seq(S) /\ <<a, b>> \in Seq(S) /\ b \in S /\ Len(<<a>>) = 1 /\ Len(<<a, b>>) = 2
        /\ <<a>>[1] = a /\ <<a, b>>[1] = a /\ <<a, b>>[2] = b
    OBVIOUS
  <2> DEFINE one == <<a>>
             two == <<a, b>>
  <2> HIDE DEF S, one, two
  <2>2. /\ one \in Seq(S) /\ two \in Seq(S) /\ b \in S /\ Len(one) = 1 /\ Len(two) = 2
        /\ one[1] = a /\ two[1] = a /\ two[2] = b
    BY ONLY <2>1, Zenon DEF one, two
  <2>3. Append(one, b) = two
    <3>1. /\ Append(one, b) \in Seq(S) /\ Len(Append(one, b)) = 2
          /\ Append(one, b)[1] = a /\ Append(one, b)[2] = b
      <4>1. AppendedAtEnd(S, one, b)
        BY ONLY <2>2, AppendsAtEnd, Zenon
      <4> QED
        BY ONLY <2>2, <4>1, 1 \in 1..1, 1 + 1 = 2 DEF AppendedAtEnd
    <3> QED
      BY ONLY <2>2, <3>1, SeqEqual
  <2> QED
    BY ONLY <2>3, Zenon DEF one, two
<1>3. Append(<<a, b>>, c) = <<a, b, c>>
  <2>1. /\ <<a, b>> \in Seq(S) /\ <<a, b, c>> \in Seq(S) /\ c \in S
        /\ Len(<<a, b>>) = 2 /\ Len(<<a, b, c>>) = 3
        /\ <<a, b>>[1] = a /\ <<a, b>>[2] = b
        /\ <<a, b, c>>[1] = a /\ <<a, b, c>>[2] = b /\ <<a, b, c>>[3] = c
    OBVIOUS
  <2> DEFINE two == <<a, b>>
             three == <<a, b, c>>
  <2> HIDE DEF S, two, three
  <2>2. /\ two \in Seq(S) /\ three \in Seq(S) /\ c \in S /\ Len(two) = 2 /\ Len(three) = 3
        /\ two[1] = a /\ two[2] = b /\ three[1] = a /\ three[2] = b /\ three[3] = c
    BY ONLY <2>1, Zenon DEF two, three
  <2>3. Append(two, c) = three
    <3>1. /\ Append(two, c) \in Seq(S) /\ Len(Append(two, c)) = 3
          /\ Append(two, c)[1] = a /\ Append(two, c)[2] = b /\ Append(two, c)[3] = c
      <4>1. AppendedAtEnd(S, two, c)
        BY ONLY <2>2, AppendsAtEnd, Zenon
      <4> QED
        BY ONLY <2>2, <4>1, 1 \in 1..2, 2 \in 1..2, 2 + 1 = 3 DEF AppendedAtEnd
    <3> QED
      BY ONLY <2>2, <3>1, SeqEqual
  <2> QED
    BY ONLY <2>3, Zenon DEF two, three
<1> QED
  BY ONLY <1>1, <1>2, <1>3, Zenon

(* Three fields of which the first is not NULL, and with escape characters in
   none that is in quotes, are read as they are if none is in quotes, and as
   four fields or more if one is. *)
LEMMA ThreeFieldsRead ==
  ASSUME NEW in, NEW a, a \in Text, NEW b, b \in Text \cup {Null}, NEW c, c \in Text \cup {Null},
         NEW l, NEW m, NEW r, RecordOfThree(in, a, b, c, l, m, r),
         Unquoted(a) \/ NoEscape(a), Unquoted(b) \/ NoEscape(b), Unquoted(c) \/ NoEscape(c)
  PROVE  /\ Unquoted(a) /\ Unquoted(b) /\ Unquoted(c) => r[Len(in)].out = <<a, b, c>>
         /\ ~(Unquoted(a) /\ Unquoted(b) /\ Unquoted(c)) => Len(r[Len(in)].out) >= 4
<1>1. /\ in \in Text /\ RecordRun(in, r) /\ InRecord(r[1], FALSE, 1, <<>>)
      /\ There(in, RecordItem(a), 1) /\ There(in, RecordItem(b), l) /\ There(in, RecordItem(c), m)
      /\ l \in Nat /\ m \in Nat
      /\ At(in, l - 1) = Comma /\ At(in, m - 1) = Comma /\ At(in, Len(in) - 1) = RightParenthesis
  BY DEF RecordOfThree
<1>2. a \in Text \cup {Null} /\ a # Null /\ <<>> \in Fields /\ 1 \in Nat /\ 1 > 0 /\ Len(<<>>) = 0
  BY TextAssumption, EmptySeq DEF Fields
<1> DEFINE q1 == l - 1
           q2 == m - 1
           q3 == Len(in) - 1
<1>3. /\ Len(in) \in Nat /\ l > 1 /\ m > 1 /\ l > 0 /\ m > 0
      /\ q1 \in Nat /\ q1 = 1 + Len(RecordItem(a)) /\ q1 < Len(in) /\ q1 + 1 = l
      /\ q2 \in Nat /\ q2 = l + Len(RecordItem(b)) /\ q2 < Len(in) /\ q2 + 1 = m
      /\ q3 \in Nat /\ q3 = m + Len(RecordItem(c)) /\ q3 < Len(in) /\ q3 + 1 = Len(in)
      /\ At(in, 1 - 1) # Escape /\ At(in, l - 1) # Escape /\ At(in, m - 1) # Escape
  <2>1. /\ Len(in) \in Nat /\ l > 1 /\ m > 1
        /\ l - 1 \in Nat /\ l - 1 = 1 + Len(RecordItem(a)) /\ l - 1 < Len(in) /\ (l - 1) + 1 = l
        /\ m - 1 \in Nat /\ m - 1 = l + Len(RecordItem(b)) /\ m - 1 < Len(in) /\ (m - 1) + 1 = m
        /\ Len(in) - 1 \in Nat /\ Len(in) - 1 = m + Len(RecordItem(c)) /\ Len(in) - 1 < Len(in)
        /\ (Len(in) - 1) + 1 = Len(in)
        /\ At(in, 1 - 1) # Escape /\ At(in, l - 1) # Escape /\ At(in, m - 1) # Escape
    <3>1. ThreePlaces(in, a, b, c, l, m)
      BY ONLY b \in Text \cup {Null}, c \in Text \cup {Null}, RecordOfThree(in, a, b, c, l, m, r), <1>2, ThreePositions
    <3> QED
      BY ONLY <3>1, Zenon DEF ThreePlaces
  <2>2. l > 0 /\ m > 0
    BY ONLY <1>1, <2>1
  <2> QED
    BY ONLY <2>1, <2>2, Zenon
<1> HIDE DEF q1, q2, q3
<1>4. PICK one : RecordItemRead(in, r, q1, a, <<>>, one)
  BY ONLY Unquoted(a) \/ NoEscape(a), <1>1, <1>2, <1>3, RecordReadsItem
<1>5. InRecord(r[l], FALSE, l, one) /\ one \in Fields
  BY <1>1, <1>3, <1>4 DEF RecordItemRead, RecordItemDone, q1, Keeps
<1>6. PICK two : RecordItemRead(in, r, q2, b, one, two)
  BY ONLY b \in Text \cup {Null}, Unquoted(b) \/ NoEscape(b), <1>1, <1>3, <1>5, RecordReadsItem
<1>7. InRecord(r[m], FALSE, m, two) /\ two \in Fields
  BY <1>1, <1>3, <1>6 DEF RecordItemRead, RecordItemDone, q2, Keeps
<1>8. PICK three : RecordItemRead(in, r, q3, c, two, three)
  BY ONLY c \in Text \cup {Null}, Unquoted(c) \/ NoEscape(c), <1>1, <1>3, <1>7, RecordReadsItem
<1>9. r[Len(in)].out = three /\ three \in Fields
  BY <1>1, <1>3, <1>8 DEF RecordItemRead, RecordItemDone, q3, Keeps
<1>10. ASSUME Unquoted(a), Unquoted(b), Unquoted(c) PROVE three = <<a, b, c>>
  <2>1. one = Append(<<>>, a) /\ two = Append(one, b) /\ three = Append(two, c)
    BY <1>4, <1>6, <1>8, <1>10 DEF RecordItemRead
  <2> QED
    BY ONLY <2>1, ThreeAppended
<1>11. Len(one) \in Nat /\ Len(two) \in Nat /\ Len(three) \in Nat
  BY <1>5, <1>7, <1>9, LenProperties DEF Fields
<1>12. /\ Len(one) >= 1 /\ (~Unquoted(a) => Len(one) >= 2)
       /\ Len(two) >= Len(one) + 1 /\ (~Unquoted(b) => Len(two) >= Len(one) + 2)
       /\ Len(three) >= Len(two) + 1 /\ (~Unquoted(c) => Len(three) >= Len(two) + 2)
  <2>1. ASSUME NEW w, w \in Text \cup {Null}, NEW out, out \in Fields, NEW longer, NEW q,
               RecordItemRead(in, r, q, w, out, longer), Len(longer) \in Nat
        PROVE  Len(longer) >= Len(out) + 1 /\ (~Unquoted(w) => Len(longer) >= Len(out) + 2)
    <3>1. Len(out) \in Nat /\ Len(Append(out, w)) = Len(out) + 1
      BY <2>1, KeepsAppend
    <3> QED
      BY <2>1, <3>1 DEF RecordItemRead
  <2>2. Len(one) >= Len(<<>>) + 1 /\ (~Unquoted(a) => Len(one) >= Len(<<>>) + 2)
    BY ONLY <1>2, <1>4, <1>11, <2>1
  <2>3. Len(two) >= Len(one) + 1 /\ (~Unquoted(b) => Len(two) >= Len(one) + 2)
    BY ONLY b \in Text \cup {Null}, <1>5, <1>6, <1>11, <2>1
  <2>4. Len(three) >= Len(two) + 1 /\ (~Unquoted(c) => Len(three) >= Len(two) + 2)
    BY ONLY c \in Text \cup {Null}, <1>7, <1>8, <1>11, <2>1
  <2> QED
    BY ONLY <1>2, <2>2, <2>3, <2>4
<1>13. ~(Unquoted(a) /\ Unquoted(b) /\ Unquoted(c)) => Len(three) >= 4
  BY ONLY <1>11, <1>12
<1> QED
  BY <1>9, <1>10, <1>13

(* What is read of a field w in quotes after the fields out: see ReadFirst. *)
QuotedStart(in, r, w, out) ==
  /\ NoQuote(w) => ReadFirst(in, r, out, w)
  /\ \A a \in 1..Len(w) : FirstQuote(w, a) =>
       /\ ReadFirst(in, r, out, SubSeq(w, 1, a - 1))
       /\ \A b \in a + 1..Len(w) : w[b] = Quote =>
            \E z \in Nat : /\ z <= Len(in) /\ r[z] \in RecordState
                           /\ Keeps(r[z].out, out) /\ Len(r[z].out) >= Len(out) + 2

(* When the first field is in quotes, it is what is read first. *)
LEMMA FirstFieldInQuotes ==
  ASSUME NEW in, NEW a, a \in Text, NEW b, b \in Text \cup {Null}, NEW c, c \in Text \cup {Null},
         NEW l, NEW m, NEW r, RecordOfThree(in, a, b, c, l, m, r), ~Unquoted(a)
  PROVE  QuotedStart(in, r, a, <<>>)
<1>1. /\ in \in Text /\ RecordRun(in, r) /\ InRecord(r[1], FALSE, 1, <<>>) /\ There(in, RecordItem(a), 1)
  BY DEF RecordOfThree
<1>2. a \in Text \cup {Null} /\ <<>> \in Fields /\ 1 \in Nat /\ 1 > 0
  BY EmptySeq DEF Fields
<1>3. ThreePlaces(in, a, b, c, l, m)
  BY ONLY b \in Text \cup {Null}, c \in Text \cup {Null}, RecordOfThree(in, a, b, c, l, m, r), <1>2, ThreePositions
<1>4. At(in, 1 - 1) # Escape
  BY <1>3 DEF ThreePlaces
<1>5. 1 + Len(RecordItem(a)) < Len(in)
  BY <1>3 DEF ThreePlaces
<1>6. Encloses(RecordItem(a), Quote, Doubled(a), Quote)
  BY <1>2, RecordItemType
<1> QED
  BY ONLY a \in Text, <1>1, <1>2, <1>4, <1>5, <1>6, RecordQuotedStart DEF QuotedStart

(* When only the second field is in quotes, it is what is read second. *)
LEMMA SecondFieldInQuotes ==
  ASSUME NEW in, NEW a, a \in Text, NEW b, b \in Text, NEW c, c \in Text \cup {Null},
         NEW l, NEW m, NEW r, RecordOfThree(in, a, b, c, l, m, r), Unquoted(a), ~Unquoted(b)
  PROVE  QuotedStart(in, r, b, <<a>>)
<1>1. /\ in \in Text /\ RecordRun(in, r) /\ There(in, RecordItem(b), l) /\ l \in Nat
  BY DEF RecordOfThree
<1>2. a \in Text \cup {Null} /\ b \in Text \cup {Null} /\ <<a>> \in Fields
  BY DEF Fields
<1>3. ThreePlaces(in, a, b, c, l, m)
  BY ONLY c \in Text \cup {Null}, RecordOfThree(in, a, b, c, l, m, r), <1>2, ThreePositions
<1>4. At(in, l - 1) # Escape /\ l > 0
  BY <1>1, <1>3 DEF ThreePlaces
<1>5. l + Len(RecordItem(b)) < Len(in)
  BY <1>3 DEF ThreePlaces
<1>6. Encloses(RecordItem(b), Quote, Doubled(b), Quote)
  BY <1>2, RecordItemType
<1>7. InRecord(r[l], FALSE, l, <<a>>)
  BY ONLY a \in Text, c \in Text \cup {Null}, RecordOfThree(in, a, b, c, l, m, r), Unquoted(a), <1>2, FirstFieldRead
<1> QED
  BY ONLY b \in Text, <1>1, <1>2, <1>4, <1>5, <1>6, <1>7, RecordQuotedStart DEF QuotedStart

(* A text in which some field is in quotes has a quote. *)
LEMMA QuoteInRecord ==
  ASSUME NEW in, NEW a, a \in Text \cup {Null}, NEW b, b \in Text \cup {Null}, NEW c, c \in Text \cup {Null},
         NEW l, NEW m, NEW r, RecordOfThree(in, a, b, c, l, m, r),
         ~(Unquoted(a) /\ Unquoted(b) /\ Unquoted(c))
  PROVE  Contains(in, Quote)
<1>1. /\ There(in, RecordItem(a), 1) /\ There(in, RecordItem(b), l) /\ There(in, RecordItem(c), m)
      /\ l \in Nat /\ m \in Nat
  BY DEF RecordOfThree
<1>2. ThreePlaces(in, a, b, c, l, m)
  BY ONLY a \in Text \cup {Null}, b \in Text \cup {Null}, c \in Text \cup {Null},
          RecordOfThree(in, a, b, c, l, m, r), ThreePositions
<1>3. Len(in) \in Nat /\ 1 < Len(in) /\ l < Len(in) /\ m < Len(in)
  BY <1>1, <1>2 DEF ThreePlaces
<1>4. ASSUME NEW w, w \in Text \cup {Null}, ~Unquoted(w), NEW p, p \in Nat, p < Len(in), There(in, RecordItem(w), p)
      PROVE  Contains(in, Quote)
  <2>1. /\ RecordItem(w)[1] = Quote /\ Len(RecordItem(w)) = Len(Doubled(w)) + 2 /\ Len(Doubled(w)) \in Nat
    BY <1>4, RecordItemType DEF Encloses
  <2>2. At(in, p + 1 - 1) = Quote
    BY <1>4, <2>1, 1 \in 1..Len(RecordItem(w)) DEF There
  <2>3. in[p + 1] = Quote /\ p + 1 \in 1..Len(in)
    BY <1>3, <1>4, <2>2, p + 1 - 1 = p DEF At
  <2> QED
    BY <2>3 DEF Contains
<1> QED
  BY <1>1, <1>3, <1>4

(* What is read first stays the first field. *)
LEMMA ReadFirstStays ==
  ASSUME NEW in, in \in Text, NEW r, RecordRun(in, r), NEW v, v \in Text, ReadFirst(in, r, <<>>, v)
  PROVE  /\ r[Len(in)].out \in Fields /\ Len(r[Len(in)].out) >= 1
         /\ r[Len(in)].out[1] = IF Len(v) = 0 THEN Null ELSE v
<1> DEFINE u == IF Len(v) = 0 THEN Null ELSE v
<1>1. u \in Text \cup {Null}
  OBVIOUS
<1>2. PICK z \in Nat : z <= Len(in) /\ r[z] \in RecordState /\ r[z].out = Append(<<>>, u)
  BY DEF ReadFirst
<1> HIDE DEF u
<1>3. Keeps(r[Len(in)].out, r[z].out)
  BY <1>2, RecordRunKeeps
<1>4. Append(<<>>, u) = <<u>>
  OBVIOUS
<1>5. r[z].out = <<u>>
  BY ONLY <1>2, <1>4
<1>6. Keeps(r[Len(in)].out, <<u>>)
  BY ONLY <1>3, <1>5
<1> QED
  BY <1>6 DEF Keeps, u

----------------------------------------------------------------------------
(* Texts that the daemon writes, one item at a time *)

Escaped(w) == EscapeIn(w, {Quote, Escape})

(* From position p on is the text t with escape characters, and then c with one
   if it needs it. *)
EscapedLast(in, t, c, p) ==
  /\ There(in, Escaped(t), p) /\ Escaped(t) \in Text /\ p + Len(Escaped(t)) \in Nat /\ Len(Escaped(t)) \in Nat
  /\ c \in {Quote, Escape} =>
       /\ At(in, p + Len(Escaped(t))) = Escape /\ At(in, p + Len(Escaped(t)) + 1) = c
       /\ Len(Escaped(Append(t, c))) = Len(Escaped(t)) + 2
       /\ p + Len(Escaped(Append(t, c))) = p + Len(Escaped(t)) + 1 + 1
  /\ c \notin {Quote, Escape} =>
       /\ At(in, p + Len(Escaped(t))) = c
       /\ Len(Escaped(Append(t, c))) = Len(Escaped(t)) + 1
       /\ p + Len(Escaped(Append(t, c))) = p + Len(Escaped(t)) + 1

(* Where an escaped text is, its last character is there, with its backslash when it has one. *)
LEMMA EscapedThere ==
  ASSUME NEW in, NEW t, t \in Text, NEW c, c \in Character, NEW p, p \in Nat, There(in, Escaped(Append(t, c)), p)
  PROVE  EscapedLast(in, t, c, p)
<1> DEFINE x == Escaped(t)
           y == Escaped(Append(t, c))
           n == p + Len(x)
<1>1. y = x \o (IF c \in {Quote, Escape} THEN <<Escape, c>> ELSE <<c>>) /\ x \in Text
  BY EscapeAppend DEF Escaped
<1>2. There(in, y, p)
  OBVIOUS
<1> SUFFICES /\ There(in, x, p) /\ x \in Text /\ n \in Nat /\ Len(x) \in Nat
             /\ c \in {Quote, Escape} => At(in, n) = Escape /\ At(in, n + 1) = c /\ Len(y) = Len(x) + 2
                                           /\ p + Len(y) = n + 1 + 1
             /\ c \notin {Quote, Escape} => At(in, n) = c /\ Len(y) = Len(x) + 1 /\ p + Len(y) = n + 1
  BY DEF EscapedLast
<1> HIDE DEF x, y
<1>3. Len(x) \in Nat /\ n \in Nat
  BY <1>1, TextLength
<1>4. CASE c \notin {Quote, Escape}
  <2>1. y = Append(x, c)
    BY <1>1, <1>4, AppendIsConcat DEF Text
  <2>2. There(in, x, p) /\ At(in, n) = c /\ Len(y) = Len(x) + 1
    <3>1. There(in, Append(x, c), p)
      BY <1>2, <2>1
    <3> QED
      BY ONLY c \in Character, p \in Nat, <1>1, <2>1, <3>1, ThereAppend
  <2> QED
    BY <1>1, <1>3, <1>4, <2>2
<1>5. CASE c \in {Quote, Escape}
  <2> DEFINE z == Append(x, Escape)
  <2>1. y = Append(z, c)
    <3>1. \A s \in Seq(Character) : \A a, b : s \o <<a, b>> = Append(Append(s, a), b)
      OBVIOUS
    <3> QED
      BY <1>1, <1>5, <3>1 DEF Text
  <2>2. z \in Text /\ Len(z) = Len(x) + 1
    BY <1>1, TextAppend, Characters
  <2>3. There(in, z, p) /\ At(in, p + Len(z)) = c /\ Len(y) = Len(z) + 1
    <3> HIDE DEF z
    <3> QED
      BY <1>2, <2>1, <2>2, ThereAppend
  <2>4. There(in, x, p) /\ At(in, n) = Escape
    BY <1>1, <2>3, ThereAppend, Characters
  <2> HIDE DEF z
  <2>5. p + Len(z) = n + 1 /\ Len(y) = Len(x) + 2 /\ p + Len(y) = n + 1 + 1
    BY <1>3, <2>2, <2>3
  <2> HIDE DEF n
  <2> QED
    BY <1>1, <1>3, <1>5, <2>3, <2>4, <2>5
<1> QED
  BY <1>4, <1>5

(* A state of the loop of Items(). *)
InItem(out, w, quoted, wasQuoted, escaped) ==
  [item |-> [word |-> w, wasQuoted |-> wasQuoted], quoted |-> quoted, escaped |-> escaped, items |-> out]

(* The server takes a quote as the start of a quoted stretch. *)
LEMMA ItemsOpens ==
  ASSUME NEW in, NEW i, At(in, i) = Quote, NEW out, NEW w
  PROVE  ItemsStep(in, InItem(out, w, FALSE, FALSE, FALSE), i) = InItem(out, w, TRUE, TRUE, FALSE)
BY Characters DEF ItemsStep, InItem

(* The server takes a quote within quotes as their end. *)
LEMMA ItemsCloses ==
  ASSUME NEW in, NEW i, At(in, i) = Quote, NEW out, NEW w
  PROVE  ItemsStep(in, InItem(out, w, TRUE, TRUE, FALSE), i) = InItem(out, w, FALSE, TRUE, FALSE)
BY Characters DEF ItemsStep, InItem

(* The server takes any other character within quotes as part of the item. *)
LEMMA ItemsPassesQuoted ==
  ASSUME NEW in, NEW i, At(in, i) \notin {Quote, Escape}, NEW out, NEW w
  PROVE  ItemsStep(in, InItem(out, w, TRUE, TRUE, FALSE), i) = InItem(out, Append(w, At(in, i)), TRUE, TRUE, FALSE)
BY DEF ItemsStep, InItem

(* The server takes a character outside quotes as part of the item. *)
LEMMA ItemsPassesPlain ==
  ASSUME NEW in, NEW i, At(in, i) \notin {Quote, Escape, Comma, Arrow}, NEW out, NEW w
  PROVE  ItemsStep(in, InItem(out, w, FALSE, FALSE, FALSE), i) = InItem(out, Append(w, At(in, i)), FALSE, FALSE, FALSE)
BY DEF ItemsStep, InItem

(* The server takes a backslash as announcing a character. *)
LEMMA ItemsEscapes ==
  ASSUME NEW in, NEW i, At(in, i) = Escape, NEW out, NEW w
  PROVE  ItemsStep(in, InItem(out, w, TRUE, TRUE, FALSE), i) = InItem(out, w, TRUE, TRUE, TRUE)
BY Characters DEF ItemsStep, InItem

(* The server takes the character after a backslash as it is. *)
LEMMA ItemsEscaped ==
  ASSUME NEW in, NEW i, NEW out, NEW w
  PROVE  ItemsStep(in, InItem(out, w, TRUE, TRUE, TRUE), i) = InItem(out, Append(w, At(in, i)), TRUE, TRUE, FALSE)
BY Characters DEF ItemsStep, InItem

(* r has the states of the loop. *)
ItemsRun(in, r) == \A i \in 0..Len(in) - 1 : r[i + 1] = ItemsStep(in, r[i], i)

(* At position p, after the items out and the quote that opens the next one,
   begins the text w with escape characters. *)
QuotedBegins(in, r, p, out, w) ==
  /\ in \in Text /\ ItemsRun(in, r) /\ p \in Nat /\ r[p] = InItem(out, <<>>, TRUE, TRUE, FALSE)
  /\ There(in, Escaped(w), p) /\ p + Len(Escaped(w)) < Len(in)

(* It is read without them. *)
QuotedEnds(r, p, out, w) == r[p + Len(Escaped(w))] = InItem(out, w, TRUE, TRUE, FALSE)

(* The server reads an escaped text in quotes as the text. *)
LEMMA ItemsInQuotes ==
  ASSUME NEW in, NEW r, NEW p, NEW out, NEW w, w \in Text, QuotedBegins(in, r, p, out, w)
  PROVE  QuotedEnds(r, p, out, w)
<1>0. /\ in \in Text /\ ItemsRun(in, r) /\ p \in Nat /\ r[p] = InItem(out, <<>>, TRUE, TRUE, FALSE)
      /\ There(in, Escaped(w), p) /\ p + Len(Escaped(w)) < Len(in)
  BY DEF QuotedBegins
<1> DEFINE Good(t) == There(in, Escaped(t), p) /\ p + Len(Escaped(t)) < Len(in)
                        => r[p + Len(Escaped(t))] = InItem(out, t, TRUE, TRUE, FALSE)
           T == {t \in Text : Good(t)}
<1>1. <<>> \in T
  <2>1. Escaped(<<>>) = <<>> /\ Len(<<>>) = 0 /\ <<>> \in Text /\ p + 0 = p
    BY <1>0, NoneWritten, NoCharacters DEF Escaped
  <2> QED
    BY <1>0, <2>1
<1>2. ASSUME NEW t, t \in Text, NEW c, c \in Character, Good(t)
      PROVE  Good(Append(t, c))
  <2> DEFINE u == Append(t, c)
             n == p + Len(Escaped(t))
  <2> SUFFICES ASSUME There(in, Escaped(u), p), p + Len(Escaped(u)) < Len(in)
               PROVE  r[p + Len(Escaped(u))] = InItem(out, u, TRUE, TRUE, FALSE)
    OBVIOUS
  <2>1. EscapedLast(in, t, c, p)
    BY ONLY <1>0, <1>2, There(in, Escaped(u), p), EscapedThere
  <2>2. There(in, Escaped(t), p) /\ n \in Nat /\ Len(in) \in Nat
    BY <1>0, <2>1, TextLength DEF EscapedLast
  <2>3. n < Len(in) => r[n] = InItem(out, t, TRUE, TRUE, FALSE)
    BY <1>2, <2>2
  <2> HIDE DEF Good
  <2>4. CASE c \notin {Quote, Escape}
    <3>1. p + Len(Escaped(u)) = n + 1 /\ At(in, n) = c
      BY ONLY <2>1, <2>4 DEF EscapedLast
    <3> HIDE DEF n
    <3>2. n \in 0..Len(in) - 1 /\ n < Len(in)
      BY <2>2, <3>1
    <3>3. r[n] = InItem(out, t, TRUE, TRUE, FALSE) /\ r[n + 1] = ItemsStep(in, r[n], n)
      BY <1>0, <2>3, <3>2 DEF ItemsRun
    <3>4. r[n + 1] = InItem(out, Append(t, c), TRUE, TRUE, FALSE)
      BY ONLY <2>4, <3>1, <3>3, ItemsPassesQuoted
    <3> QED
      BY <3>1, <3>4
  <2>5. CASE c \in {Quote, Escape}
    <3>1. p + Len(Escaped(u)) = n + 1 + 1 /\ At(in, n) = Escape /\ At(in, n + 1) = c
      BY ONLY <2>1, <2>5 DEF EscapedLast
    <3> HIDE DEF n
    <3>2. n \in 0..Len(in) - 1 /\ n < Len(in) /\ n + 1 \in 0..Len(in) - 1
      BY <2>2, <3>1
    <3>3. r[n] = InItem(out, t, TRUE, TRUE, FALSE) /\ r[n + 1] = ItemsStep(in, r[n], n)
          /\ r[n + 1 + 1] = ItemsStep(in, r[n + 1], n + 1)
      BY <1>0, <2>3, <3>2 DEF ItemsRun
    <3>4. r[n + 1] = InItem(out, t, TRUE, TRUE, TRUE)
      <4>1. ItemsStep(in, InItem(out, t, TRUE, TRUE, FALSE), n) = InItem(out, t, TRUE, TRUE, TRUE)
        BY ONLY <3>1, ItemsEscapes
      <4> QED
        BY ONLY <3>3, <4>1
    <3>5. r[n + 1 + 1] = InItem(out, Append(t, c), TRUE, TRUE, FALSE)
      BY ONLY <3>1, <3>3, <3>4, ItemsEscaped, ZenonT(30)
    <3> QED
      BY <3>1, <3>5
  <2> QED
    BY <2>4, <2>5
<1>3. Text \subseteq T
  <2>1. \A t \in Text, c \in Character : t \in T => Append(t, c) \in T
    <3> HIDE DEF Good
    <3> QED
      BY <1>2, TextAppend
  <2> HIDE DEF T
  <2> QED
    BY <1>1, <2>1, TextInduction
<1>4. Good(w)
  <2> HIDE DEF Good
  <2> QED
    BY <1>3
<1> QED
  BY <1>0, <1>4 DEF QuotedEnds

(* What an item stands for. *)
ItemOf(w) == IF w = Null THEN [word |-> NullWord, wasQuoted |-> FALSE] ELSE [word |-> w, wasQuoted |-> TRUE]

(* A text is written in quotes and escaped, and null as the word NULL without quotes. *)
LEMMA OrNullType ==
  ASSUME NEW w, w \in Text \cup {Null}
  PROVE  /\ OrNull(w) \in Text
         /\ w = Null => OrNull(w) = <<"NULL">> /\ Len(OrNull(w)) = 1 /\ OrNull(w)[1] = "NULL"
         /\ w # Null => w \in Text /\ Encloses(OrNull(w), Quote, Escaped(w), Quote)
<1>1. CASE w = Null
  <2>1. OrNull(w) = <<"NULL">>
    BY <1>1 DEF OrNull, NullWord
  <2> QED
    BY <1>1, <2>1, Characters DEF Text
<1>2. CASE w # Null
  <2>1. w \in Text /\ OrNull(w) = double_quote(w)
    BY <1>2 DEF OrNull
  <2>2. Encloses(OrNull(w), Quote, Escaped(w), Quote)
    BY <2>1, ItemType DEF Escaped
  <2> QED
    BY <1>2, <2>1, <2>2 DEF Encloses
<1> QED
  BY <1>1, <1>2

(* At position p, after the items out, begins w as it is written. *)
ItemBegins(in, r, p, out, w) ==
  /\ in \in Text /\ ItemsRun(in, r) /\ p \in Nat /\ r[p] = InItem(out, <<>>, FALSE, FALSE, FALSE)
  /\ There(in, OrNull(w), p) /\ p + Len(OrNull(w)) <= Len(in)

ItemEnds(r, p, out, w) ==
  r[p + Len(OrNull(w))] = InItem(out, ItemOf(w).word, FALSE, ItemOf(w).wasQuoted, FALSE)

(* The server reads what the daemon writes for one item as that item. *)
LEMMA ItemsItem ==
  ASSUME NEW in, NEW r, NEW p, NEW out, NEW w, w \in Text \cup {Null}, ItemBegins(in, r, p, out, w)
  PROVE  ItemEnds(r, p, out, w)
<1>1. /\ in \in Text /\ ItemsRun(in, r) /\ p \in Nat /\ r[p] = InItem(out, <<>>, FALSE, FALSE, FALSE)
      /\ There(in, OrNull(w), p) /\ p + Len(OrNull(w)) <= Len(in) /\ Len(in) \in Nat
  BY TextLength DEF ItemBegins
<1>2. CASE w = Null
  <2>1. OrNull(w) = <<"NULL">> /\ Len(OrNull(w)) = 1 /\ OrNull(w)[1] = "NULL"
    BY <1>2, OrNullType
  <2>2. At(in, p) = "NULL" /\ p \in 0..Len(in) - 1
    BY <1>1, <2>1, 1 \in 1..1, p + 1 - 1 = p DEF There
  <2>3. "NULL" \notin {Quote, Escape, Comma, Arrow}
    BY Zenon DEF Quote, Escape, Comma, Arrow
  <2>4. r[p + 1] = ItemsStep(in, r[p], p)
    BY <1>1, <2>2 DEF ItemsRun
  <2>5. At(in, p) \notin {Quote, Escape, Comma, Arrow}
    BY ONLY <2>2, <2>3
  <2>6. r[p + 1] = InItem(out, Append(<<>>, At(in, p)), FALSE, FALSE, FALSE)
    BY ONLY <1>1, <2>4, <2>5, ItemsPassesPlain
  <2>7. Append(<<>>, "NULL") = NullWord
    BY DEF NullWord
  <2>8. ItemOf(w).word = NullWord /\ ItemOf(w).wasQuoted = FALSE
    BY <1>2 DEF ItemOf
  <2> QED
    BY <2>1, <2>2, <2>6, <2>7, <2>8 DEF ItemEnds
<1>3. CASE w # Null
  <2> DEFINE item == OrNull(w)
             e == Escaped(w)
             n == p + 1 + Len(e)
  <2>1. /\ w \in Text /\ Len(e) \in Nat /\ Len(item) = Len(e) + 2 /\ item[1] = Quote /\ item[Len(e) + 2] = Quote
        /\ (\A j \in 1..Len(e) : item[j + 1] = e[j])
    BY <1>3, OrNullType DEF Encloses
  <2>2. \A j \in 1..Len(item) : At(in, p + j - 1) = item[j]
    BY <1>1 DEF There
  <2> HIDE DEF item, e
  <2>3. /\ p \in 0..Len(in) - 1 /\ p + 1 \in Nat /\ n \in 0..Len(in) - 1 /\ n < Len(in) /\ n + 1 = p + Len(item)
    BY <1>1, <2>1 DEF item
  <2>4. At(in, p) = Quote
    BY <1>1, <2>1, <2>2, 1 \in 1..Len(item), p + 1 - 1 = p
  <2>5. At(in, n) = Quote
    BY <1>1, <2>1, <2>2, Len(e) + 2 \in 1..Len(item), p + (Len(e) + 2) - 1 = n
  <2>6. There(in, e, p + 1)
    <3>1. ASSUME NEW j, j \in 1..Len(e) PROVE At(in, p + 1 + j - 1) = e[j]
      BY <1>1, <2>1, <2>2, <3>1, j + 1 \in 1..Len(item), p + (j + 1) - 1 = p + 1 + j - 1
    <3> QED
      BY <3>1 DEF There
  <2>7. r[p + 1] = ItemsStep(in, r[p], p) /\ r[n + 1] = ItemsStep(in, r[n], n)
    BY <1>1, <2>3 DEF ItemsRun
  <2>8. r[p + 1] = InItem(out, <<>>, TRUE, TRUE, FALSE)
    <3>1. ItemsStep(in, InItem(out, <<>>, FALSE, FALSE, FALSE), p) = InItem(out, <<>>, TRUE, TRUE, FALSE)
      BY ONLY <2>4, ItemsOpens
    <3> QED
      BY ONLY <1>1, <2>7, <3>1
  <2>9. r[n] = InItem(out, w, TRUE, TRUE, FALSE)
    <3> DEFINE y == p + 1
    <3>1. y \in Nat /\ r[y] = InItem(out, <<>>, TRUE, TRUE, FALSE) /\ y + Len(Escaped(w)) = n
          /\ n < Len(in) /\ There(in, Escaped(w), y)
      BY <2>3, <2>6, <2>8 DEF e
    <3> HIDE DEF y, n
    <3>2. y + Len(Escaped(w)) < Len(in)
      BY ONLY <3>1
    <3>3. r[y + Len(Escaped(w))] = InItem(out, w, TRUE, TRUE, FALSE)
      <4>1. QuotedBegins(in, r, y, out, w)
        BY ONLY <1>1, <3>1, <3>2 DEF QuotedBegins
      <4>2. w \in Text
        BY ONLY <2>1
      <4>3. QuotedEnds(r, y, out, w)
        BY ONLY <4>1, <4>2, ItemsInQuotes, Zenon
      <4> QED
        BY ONLY <4>3 DEF QuotedEnds
    <3> QED
      BY ONLY <3>1, <3>3
  <2>10. r[n + 1] = InItem(out, w, FALSE, TRUE, FALSE)
    <3>1. ItemsStep(in, InItem(out, w, TRUE, TRUE, FALSE), n) = InItem(out, w, FALSE, TRUE, FALSE)
      BY ONLY <2>5, ItemsCloses
    <3> QED
      BY ONLY <2>7, <2>9, <3>1
  <2>11. ItemOf(w).word = w /\ ItemOf(w).wasQuoted = TRUE
    BY <1>3 DEF ItemOf
  <2> QED
    BY <2>3, <2>10, <2>11 DEF item, ItemEnds
<1> QED
  BY <1>2, <1>3

(* The words ws stand in the text as they are written, with a comma or an arrow
   between them: the k-th one up to position at[k] - 1. *)
WordsAt(in, ws, n, at) ==
  /\ in \in Text /\ n \in Nat /\ n > 0 /\ ws \in Seq(Text \cup {Null}) /\ Len(ws) = n
  /\ at \in [0..n -> Nat] /\ at[0] = 0 /\ at[n] = Len(in) + 1
  /\ \A k \in 1..n :
       /\ at[k] = at[k - 1] + Len(OrNull(ws[k])) + 1 /\ at[k] <= Len(in) + 1
       /\ There(in, OrNull(ws[k]), at[k - 1])
       /\ k # n => At(in, at[k] - 1) \in {Comma, Arrow}

(* The state of the loop before the word that begins at position p. *)
BeforeWord(r, p, out) == r[p] = InItem(out, <<>>, FALSE, FALSE, FALSE)

(* ItemsItem, and what comes after the word. *)
LEMMA WordRead ==
  ASSUME NEW in, in \in Text, NEW r, ItemsRun(in, r), NEW p, p \in Nat, NEW out, BeforeWord(r, p, out),
         NEW w, w \in Text \cup {Null}, There(in, OrNull(w), p),
         NEW l, l \in Nat, l = p + Len(OrNull(w)) + 1, l <= Len(in) + 1
  PROVE  /\ l <= Len(in) /\ At(in, l - 1) \in {Comma, Arrow} => BeforeWord(r, l, Append(out, ItemOf(w)))
         /\ l = Len(in) + 1 => r[Len(in)].items = out /\ r[Len(in)].item = ItemOf(w)
<1> DEFINE q == p + Len(OrNull(w))
<1>1. Len(in) \in Nat /\ Len(OrNull(w)) \in Nat
  BY TextLength, OrNullType
<1>2. q \in Nat /\ q + 1 = l /\ l - 1 = q /\ q <= Len(in)
  BY ONLY <1>1, p \in Nat, l = p + Len(OrNull(w)) + 1, l <= Len(in) + 1
<1>3. ItemBegins(in, r, p, out, w)
  BY <1>2 DEF ItemBegins, BeforeWord
<1>4. ItemEnds(r, p, out, w)
  BY ONLY w \in Text \cup {Null}, <1>3, ItemsItem, Zenon
<1>5. r[q] = InItem(out, ItemOf(w).word, FALSE, ItemOf(w).wasQuoted, FALSE)
  BY <1>4 DEF ItemEnds
<1> HIDE DEF q
<1>6. [word |-> ItemOf(w).word, wasQuoted |-> ItemOf(w).wasQuoted] = ItemOf(w)
  BY DEF ItemOf
<1>7. ASSUME l <= Len(in), At(in, l - 1) \in {Comma, Arrow} PROVE BeforeWord(r, l, Append(out, ItemOf(w)))
  <2>1. r[q + 1] = ItemsStep(in, r[q], q)
    BY <1>1, <1>2, <1>7, q \in 0..Len(in) - 1 DEF ItemsRun
  <2>2. At(in, q) \in {Comma, Arrow}
    BY <1>2, <1>7
  <2> DEFINE a == ItemOf(w).word
             b == ItemOf(w).wasQuoted
  <2>3. [word |-> a, wasQuoted |-> b] = ItemOf(w) /\ r[q] = InItem(out, a, FALSE, b, FALSE)
    BY <1>5, <1>6
  <2> HIDE DEF a, b
  <2>4. ItemsStep(in, InItem(out, a, FALSE, b, FALSE), q)
          = InItem(Append(out, [word |-> a, wasQuoted |-> b]), <<>>, FALSE, FALSE, FALSE)
    BY ONLY <2>2, Characters DEF ItemsStep, InItem, NoItem
  <2> QED
    BY ONLY <1>2, <2>1, <2>3, <2>4 DEF BeforeWord
<1>8. ASSUME l = Len(in) + 1 PROVE r[Len(in)].items = out /\ r[Len(in)].item = ItemOf(w)
  <2>1. q = Len(in)
    BY <1>1, <1>2, <1>8
  <2> QED
    BY <1>5, <1>6, <2>1 DEF InItem
<1> QED
  BY <1>7, <1>8

(* What is between the separators is what the words stand for. *)
LEMMA WordsRead ==
  ASSUME NEW in, NEW ws, NEW n, NEW at, WordsAt(in, ws, n, at)
  PROVE  Items(in) = [k \in 1..n |-> ItemOf(ws[k])]
<1> DEFINE m == [k \in 1..n |-> ItemOf(ws[k])]
           S == {ItemOf(ws[k]) : k \in 1..n}
<1>1. /\ in \in Text /\ n \in Nat /\ n > 0 /\ Len(in) \in Nat
      /\ at \in [0..n -> Nat] /\ at[0] = 0 /\ at[n] = Len(in) + 1
      /\ \A k \in 1..n :
           /\ at[k] = at[k - 1] + Len(OrNull(ws[k])) + 1 /\ at[k] <= Len(in) + 1
           /\ There(in, OrNull(ws[k]), at[k - 1])
           /\ k # n => At(in, at[k] - 1) \in {Comma, Arrow}
  BY TextLength DEF WordsAt
<1>2. \A k \in 1..n : ws[k] \in Text \cup {Null}
  BY ElementOfSeq DEF WordsAt
<1>3. m \in Seq(S) /\ Len(m) = n /\ \A k \in 1..n : m[k] = ItemOf(ws[k])
  <2>1. \A k \in 1..n : ItemOf(ws[k]) \in S
    OBVIOUS
  <2> HIDE DEF S
  <2> QED
    BY <1>1, <2>1, IsASeq, LenProperties
<1> HIDE DEF m, S
<1>4. PICK r : Reading("items", in, r)
  BY <1>1, ReadingExists
<1>5. /\ ItemsRun(in, r) /\ r[0] = ItemsBegin
      /\ Items(in) = Append(r[Len(in)].items, r[Len(in)].item)
  BY <1>1, <1>4, ReadingAt, ItemsRead DEF ItemsRun, First, Turn
<1> DEFINE Before(k) == BeforeWord(r, at[k], SubSeq(m, 1, k))
<1>6. ASSUME NEW k, k \in 0..n - 1, Before(k)
      PROVE  /\ k + 1 < n => Before(k + 1)
             /\ k + 1 = n => Items(in) = m
  <2> DEFINE l == k + 1
             w == ws[l]
             out == SubSeq(m, 1, k)
  <2>1. l \in 1..n /\ l - 1 = k /\ k \in 0..n /\ l \in 0..n
    BY ONLY <1>1, <1>6
  <2>2. w \in Text \cup {Null} /\ ItemOf(w) = m[l]
    BY <1>2, <1>3, <2>1
  <2>3. /\ at[k] \in Nat /\ at[l] \in Nat
        /\ at[l] = at[k] + Len(OrNull(w)) + 1 /\ at[l] <= Len(in) + 1
        /\ There(in, OrNull(w), at[k])
        /\ l # n => At(in, at[l] - 1) \in {Comma, Arrow}
    <3> HIDE DEF l
    <3> QED
      BY ONLY <1>1, <2>1
  <2>4. Append(out, ItemOf(w)) = SubSeq(m, 1, l)
    <3>1. k \in 0..Len(m) - 1
      BY <1>3, <1>6
    <3>2. Append(SubSeq(m, 1, k), m[k + 1]) = SubSeq(m, 1, k + 1)
      BY ONLY <1>3, <3>1, PrefixGrows
    <3> QED
      BY <2>2, <3>2
  <2>5. BeforeWord(r, at[k], out)
    BY <1>6
  <2> HIDE DEF l, w, out
  <2>6. /\ at[l] <= Len(in) /\ At(in, at[l] - 1) \in {Comma, Arrow} => BeforeWord(r, at[l], Append(out, ItemOf(w)))
        /\ at[l] = Len(in) + 1 => r[Len(in)].items = out /\ r[Len(in)].item = ItemOf(w)
    <3>1. in \in Text /\ w \in Text \cup {Null} /\ There(in, OrNull(w), at[k])
      BY ONLY <1>1, <2>2, <2>3
    <3>2. at[k] \in Nat /\ at[l] \in Nat /\ at[l] = at[k] + Len(OrNull(w)) + 1 /\ at[l] <= Len(in) + 1
      BY ONLY <2>3
    <3> QED
      BY ONLY <1>5, <2>5, <3>1, <3>2, WordRead
  <2>7. l < n => BeforeWord(r, at[l], SubSeq(m, 1, l))
    <3>1. l < n => l # n /\ l + 1 \in 1..n /\ (l + 1) - 1 = l
      BY <1>1, <2>1
    <3>2. l < n => at[l] <= Len(in)
      <4> SUFFICES ASSUME l < n PROVE at[l] <= Len(in)
        OBVIOUS
      <4>1. at[l + 1] = at[l] + Len(OrNull(ws[l + 1])) + 1 /\ at[l + 1] <= Len(in) + 1 /\ ws[l + 1] \in Text \cup {Null}
        BY ONLY <1>1, <1>2, <3>1, l < n
      <4>2. Len(OrNull(ws[l + 1])) \in Nat
        BY <4>1, OrNullType, TextLength
      <4> QED
        BY ONLY <1>1, <2>3, <4>1, <4>2, SMTT(20)
    <3> QED
      BY ONLY <2>3, <2>4, <2>6, <3>1, <3>2
  <2>8. l = n => Items(in) = m
    <3>1. SubSeq(m, 1, n) = m
      BY <1>3, SubSeqFull
    <3> QED
      BY ONLY <1>1, <1>5, <2>4, <2>6, <3>1
  <2> QED
    BY ONLY <2>7, <2>8, Zenon DEF l
<1> DEFINE T == {k \in Nat : k < n => Before(k)}
<1>7. 0 \in T
  <2>1. SubSeq(m, 1, 0) = <<>>
    BY <1>3, SubSeqEmpty
  <2>2. r[at[0]] = InItem(<<>>, <<>>, FALSE, FALSE, FALSE)
    BY <1>1, <1>5 DEF ItemsBegin, NoItem, InItem
  <2>3. BeforeWord(r, at[0], SubSeq(m, 1, 0))
    BY ONLY <2>1, <2>2 DEF BeforeWord
  <2> QED
    BY <2>3
<1>8. ASSUME NEW k \in Nat, k \in T PROVE k + 1 \in T
  <2>1. k + 1 < n => k \in 0..n - 1 /\ k < n
    BY <1>1
  <2> HIDE DEF Before
  <2>2. k + 1 < n => Before(k + 1)
    BY <1>6, <1>8, <2>1
  <2> QED
    BY <2>2
<1>9. n - 1 \in T
  <2>1. \A k \in Nat : k \in T => k + 1 \in T
    BY <1>8
  <2> HIDE DEF T
  <2>2. Nat \subseteq T
    BY ONLY <1>7, <2>1, NatSetInduction
  <2> QED
    BY <1>1, <2>2, n - 1 \in Nat
<1>10. Before(n - 1) /\ n - 1 \in 0..n - 1 /\ (n - 1) + 1 = n
  <2> HIDE DEF Before
  <2> QED
    BY <1>1, <1>9
<1>11. Items(in) = m
  <2> HIDE DEF Before
  <2> QED
    BY ONLY <1>6, <1>10
<1> QED
  BY <1>11 DEF m

(* b is what is between the first and the last character of the text. *)
Inside(in, b) ==
  /\ b \in Text /\ Len(in) \in Nat /\ Len(b) \in Nat /\ Len(in) = Len(b) + 2
  /\ \A i \in 1..Len(b) : b[i] = in[i + 1]

(* What is left of a text without its first and last characters. *)
LEMMA TextInside ==
  ASSUME NEW in, in \in Text, Len(in) >= 2
  PROVE  Inside(in, Tail(Front(in)))
<1> DEFINE a == Front(in)
           b == Tail(a)
<1>1. Len(in) \in Nat /\ \A i \in 1..Len(in) : in[i] \in Character
  BY TextLength
<1>2. a \in Text /\ Len(a) = Len(in) - 1 /\ \A i \in 1..Len(in) - 1 : a[i] = in[i]
  <2>1. a = SubSeq(in, 1, Len(in) - 1)
    BY DEF Front
  <2> QED
    BY <1>1, <2>1, SubSeqProperties DEF Text
<1> HIDE DEF a
<1>3. a # <<>>
  BY <1>1, <1>2, NoCharacters
<1>4. b \in Text /\ Len(b) = Len(a) - 1 /\ \A i \in 1..Len(b) : b[i] = a[i + 1]
  BY <1>2, <1>3, HeadTailProperties DEF Text
<1> HIDE DEF b
<1>5. \A i \in 1..Len(b) : b[i] = in[i + 1]
  BY <1>1, <1>2, <1>4
<1>6. Inside(in, b)
  BY <1>1, <1>2, <1>4, <1>5 DEF Inside
<1> QED
  BY <1>6 DEF b, a

(* A word between the brackets is there, one position earlier, without the brackets. *)
LEMMA ThereInside ==
  ASSUME NEW in, NEW b, Inside(in, b), NEW p, p \in Nat, NEW x, Len(x) \in Nat, There(in, x, p + 1),
         p + Len(x) <= Len(b)
  PROVE  There(b, x, p)
<1>1. Len(b) \in Nat /\ \A i \in 1..Len(b) : b[i] = in[i + 1]
  BY DEF Inside
<1>2. \A j \in 1..Len(x) : in[(p + 1 + j - 1) + 1] = x[j]
  BY DEF There, At
<1>3. ASSUME NEW j, j \in 1..Len(x) PROVE b[(p + j - 1) + 1] = x[j]
  <2>1. p + j \in 1..Len(b) /\ (p + j - 1) + 1 = p + j /\ (p + 1 + j - 1) + 1 = p + j + 1
    BY <1>1, <1>3
  <2> QED
    BY <1>1, <1>2, <1>3, <2>1
<1> QED
  BY <1>3 DEF There, At

(* What is between the delimiters of a list of words, each in quotes or the word
   NULL. *)
LEMMA WordsWritten ==
  ASSUME NEW ws, ws \in Seq(Text \cup {Null}), ws # <<>>, NEW open, open \in Character, NEW close, close \in Character,
         NEW in, in = Enclosed(open, Commas([k \in DOMAIN ws |-> OrNull(ws[k])]), close)
  PROVE  /\ Len(in) # 2
         /\ \E at : WordsAt(Tail(Front(in)), ws, Len(ws), at)
<1> DEFINE items == [k \in DOMAIN ws |-> OrNull(ws[k])]
           n == Len(ws)
           b == Tail(Front(in))
<1>1. n \in Nat /\ n > 0 /\ DOMAIN ws = 1..n /\ \A k \in 1..n : ws[k] \in Text \cup {Null}
  BY LenProperties, ElementOfSeq, EmptySeq
<1>2. items \in Seq(Text) /\ Len(items) = n /\ \A k \in 1..n : items[k] = OrNull(ws[k]) /\ Len(items[k]) \in Nat
  <2>1. \A k \in 1..n : OrNull(ws[k]) \in Text /\ Len(OrNull(ws[k])) \in Nat
    BY <1>1, OrNullType, TextLength
  <2> QED
    BY <1>1, <2>1, IsASeq, LenProperties
<1>3. in = Enclosed(open, Commas(items), close)
  OBVIOUS
<1> HIDE DEF items, n
<1>4. HasItems(in, items, open, close)
  BY ONLY open \in Character, close \in Character, <1>2, <1>3, ItemsWritten
<1>5. PICK pos : ItemsAt(in, items, open, close, pos)
  BY <1>4 DEF HasItems
<1>6. in \in Text /\ Len(in) >= 2
  BY <1>4 DEF HasItems
<1>7. Inside(in, b)
  BY <1>6, TextInside
<1> HIDE DEF b
<1>8. b \in Text /\ Len(in) \in Nat /\ Len(b) \in Nat /\ Len(in) = Len(b) + 2
  BY <1>7 DEF Inside
<1>9. /\ pos \in [0..n -> Nat \ {0}] /\ pos[0] = 1 /\ pos[n] = Len(in)
      /\ \A k \in 1..n :
           /\ pos[k] = pos[k - 1] + Len(items[k]) + 1 /\ pos[k] <= Len(in)
           /\ There(in, items[k], pos[k - 1])
           /\ At(in, pos[k] - 1) = IF k = n THEN close ELSE Comma
  <2>1. items # <<>>
    BY <1>1, <1>2, EmptySeq
  <2> QED
    BY ONLY <1>2, <1>5, <2>1, Zenon DEF ItemsAt, There
<1> DEFINE at == [k \in 0..n |-> pos[k] - 1]
<1>10. at \in [0..n -> Nat] /\ at[0] = 0 /\ at[n] = Len(b) + 1
  BY <1>1, <1>8, <1>9
<1>11. ASSUME NEW k, k \in 1..n
       PROVE  /\ at[k] = at[k - 1] + Len(OrNull(ws[k])) + 1 /\ at[k] <= Len(b) + 1
              /\ There(b, OrNull(ws[k]), at[k - 1])
              /\ k # n => At(b, at[k] - 1) \in {Comma, Arrow}
  <2>1. k \in 0..n /\ k - 1 \in 0..n
    BY <1>1, <1>11
  <2>2. PICK x \in Nat, y \in Nat : x = pos[k - 1] - 1 /\ y = pos[k] - 1 /\ x + 1 = pos[k - 1] /\ y + 1 = pos[k]
    <3>1. pos[k - 1] \in Nat \ {0} /\ pos[k] \in Nat \ {0}
      BY ONLY <1>9, <2>1
    <3>2. pos[k - 1] - 1 \in Nat /\ pos[k] - 1 \in Nat /\ (pos[k - 1] - 1) + 1 = pos[k - 1] /\ (pos[k] - 1) + 1 = pos[k]
      BY ONLY <3>1
    <3> QED
      BY ONLY <3>2
  <2>3. at[k] = y /\ at[k - 1] = x
    BY <2>1, <2>2
  <2> HIDE DEF at
  <2>4. PICK z \in Nat : z = Len(items[k]) /\ items[k] = OrNull(ws[k])
    BY <1>2, <1>11
  <2>5. y = x + z + 1 /\ y <= Len(b) + 1
    BY <1>8, <1>9, <1>11, <2>2, <2>4, SMTT(20)
  <2>6. There(in, items[k], x + 1) /\ At(in, y) = IF k = n THEN close ELSE Comma
    <3>1. pos[k] - 1 = y
      BY <2>2
    <3> QED
      BY <1>9, <1>11, <2>2, <3>1
  <2>7. There(b, items[k], x)
    <3>1. x + Len(items[k]) <= Len(b)
      BY <1>8, <2>4, <2>5
    <3> QED
      BY ONLY <1>7, <2>4, <2>6, <3>1, ThereInside
  <2>8. k # n => At(b, y - 1) = Comma
    <3> SUFFICES ASSUME k # n PROVE At(b, y - 1) = Comma
      OBVIOUS
    <3>1. y <= Len(b)
      <4>1. k + 1 \in 1..n /\ (k + 1) - 1 = k
        BY <1>1, <1>11
      <4>2. pos[k + 1] = pos[k] + Len(items[k + 1]) + 1 /\ pos[k + 1] <= Len(in) /\ Len(items[k + 1]) \in Nat
        BY <1>2, <1>9, <4>1
      <4> QED
        BY <1>8, <2>2, <4>2
    <3>2. y \in 1..Len(b) /\ (y - 1) + 1 = y
      BY <1>8, <2>5, <3>1
    <3>3. b[y] = in[y + 1]
      BY <1>7, <3>2 DEF Inside
    <3> QED
      BY <2>6, <3>2, <3>3 DEF At
  <2> QED
    BY ONLY <2>3, <2>4, <2>5, <2>7, <2>8
<1>12. WordsAt(b, ws, n, at)
  <2> HIDE DEF at
  <2> QED
    BY ONLY ws \in Seq(Text \cup {Null}), <1>1, <1>8, <1>10, <1>11 DEF WordsAt, n
<1>13. Len(in) # 2
  <2>1. pos[1] = 1 + Len(items[1]) + 1 /\ pos[1] <= Len(in)
    BY <1>1, <1>9, 1 \in 1..n, 1 - 1 = 0
  <2>2. Len(items[1]) >= 1
    <3>1. items[1] = OrNull(ws[1]) /\ ws[1] \in Text \cup {Null}
      BY <1>1, <1>2, 1 \in 1..n
    <3>2. CASE ws[1] = Null
      BY <3>1, <3>2, OrNullType
    <3>3. CASE ws[1] # Null
      <4>1. Encloses(items[1], Quote, Escaped(ws[1]), Quote)
        BY <3>1, <3>3, OrNullType
      <4> QED
        BY <4>1 DEF Encloses
    <3> QED
      BY <3>2, <3>3
  <2>3. Len(items[1]) \in Nat
    BY <1>1, <1>2, 1 \in 1..n
  <2> QED
    BY ONLY <1>8, <2>1, <2>2, <2>3
<1> QED
  BY ONLY <1>12, <1>13 DEF b, n

(* An item read stands for the text or null that was written. *)
LEMMA ItemStandsFor ==
  ASSUME NEW w, w \in Text \cup {Null}
  PROVE  /\ WordOrNull(ItemOf(w)) = w
         /\ ItemOf(w) # [word |-> <<>>, wasQuoted |-> FALSE]
         /\ ItemOf(w).word = IF w = Null THEN NullWord ELSE w
<1>1. CASE w = Null
  <2>1. ItemOf(w) = [word |-> NullWord, wasQuoted |-> FALSE]
    BY <1>1 DEF ItemOf
  <2>2. NullWord # <<>>
    BY DEF NullWord
  <2> QED
    BY <1>1, <2>1, <2>2 DEF WordOrNull
<1>2. CASE w # Null
  <2>1. ItemOf(w) = [word |-> w, wasQuoted |-> TRUE]
    BY <1>2 DEF ItemOf
  <2>2. ItemOf(w) # [word |-> NullWord, wasQuoted |-> FALSE] /\ ItemOf(w) # [word |-> <<>>, wasQuoted |-> FALSE]
    BY <2>1
  <2> QED
    BY <1>2, <2>1, <2>2 DEF WordOrNull
<1> QED
  BY <1>1, <1>2

(* array_in() reads back what as_text_array() writes. *)
LEMMA ArrayInRead ==
  ASSUME NEW ws, ws \in Seq(Text \cup {Null})
  PROVE  ArrayIn(as_text_array(ws)) = ws
<1> DEFINE n == Len(ws)
           in == as_text_array(ws)
           b == Tail(Front(in))
<1>1. n \in Nat /\ DOMAIN ws = 1..n /\ (\A k \in 1..n : ws[k] \in Text \cup {Null}) /\ (n = 0 <=> ws = <<>>)
  BY LenProperties, ElementOfSeq, EmptySeq
<1>2. in = Enclosed(LeftBrace, Commas([k \in DOMAIN ws |-> OrNull(ws[k])]), RightBrace)
  BY DEF as_text_array, Enclosed
<1>3. CASE ws = <<>>
  <2>1. Len(in) = 2
    <3> DEFINE items == [k \in DOMAIN ws |-> OrNull(ws[k])]
    <3>1. items \in Seq(Text) /\ Len(items) = 0
      BY <1>1, <1>3, IsASeq, LenProperties
    <3>2. items = <<>>
      BY <3>1, EmptySeq
    <3> HIDE DEF items
    <3>3. HasItems(in, items, LeftBrace, RightBrace)
      <4>1. in = Enclosed(LeftBrace, Commas(items), RightBrace)
        BY <1>2 DEF items
      <4> QED
        BY ONLY <3>1, <4>1, Characters, ItemsWritten
    <3> QED
      BY <3>2, <3>3 DEF HasItems
  <2> HIDE DEF in
  <2>2. ArrayIn(in) = <<>>
    BY <2>1 DEF ArrayIn
  <2> QED
    BY <1>3, <2>2 DEF in
<1>4. CASE ws # <<>>
  <2>1. Len(in) # 2 /\ \E at : WordsAt(b, ws, n, at)
    <3> HIDE DEF in
    <3> QED
      BY ONLY ws \in Seq(Text \cup {Null}), <1>2, <1>4, Characters, WordsWritten
  <2> HIDE DEF in, b, n
  <2>2. Items(b) = [k \in 1..n |-> ItemOf(ws[k])]
    BY <2>1, WordsRead
  <2> DEFINE items == Items(b)
  <2>3. ArrayIn(in) = [k \in DOMAIN items |-> WordOrNull(items[k])]
    BY <2>1 DEF ArrayIn, b
  <2> HIDE DEF items
  <2>4. items = [k \in 1..n |-> ItemOf(ws[k])]
    BY <2>2 DEF items
  <2>5. DOMAIN items = 1..n /\ \A k \in 1..n : WordOrNull(items[k]) = ws[k]
    BY <1>1, <2>4, ItemStandsFor
  <2>6. ArrayIn(in) = [k \in 1..n |-> ws[k]]
    BY <2>3, <2>5
  <2>7. ws = [k \in 1..n |-> ws[k]]
    BY <1>1, ws \in Seq(Text \cup {Null})
  <2> QED
    BY <2>6, <2>7 DEF in
<1> QED
  BY <1>3, <1>4

(* record_in() reads back what as_text_composite_value() writes, but the word
   NULL for NULL. *)
LEMMA RecordInRead ==
  ASSUME NEW ws, ws \in Seq(Text \cup {Null}), ws # <<>>
  PROVE  RecordIn(as_text_composite_value(ws)) = [k \in DOMAIN ws |-> IF ws[k] = Null THEN NullWord ELSE ws[k]]
<1> DEFINE n == Len(ws)
           in == as_text_composite_value(ws)
           b == Tail(Front(in))
<1>1. n \in Nat /\ DOMAIN ws = 1..n /\ (\A k \in 1..n : ws[k] \in Text \cup {Null})
  BY LenProperties, ElementOfSeq
<1>2. in = Enclosed(LeftParenthesis, Commas([k \in DOMAIN ws |-> OrNull(ws[k])]), RightParenthesis)
  BY DEF as_text_composite_value, Enclosed
<1>3. \E at : WordsAt(b, ws, n, at)
  <2> HIDE DEF in
  <2> QED
    BY ONLY ws \in Seq(Text \cup {Null}), ws # <<>>, <1>2, Characters, WordsWritten
<1> HIDE DEF in, b, n
<1>4. Items(b) = [k \in 1..n |-> ItemOf(ws[k])]
  BY <1>3, WordsRead
<1> DEFINE items == Items(b)
<1>5. RecordIn(in) = [k \in DOMAIN items |->
                        IF items[k] = [word |-> <<>>, wasQuoted |-> FALSE] THEN Null ELSE items[k].word]
  BY DEF RecordIn, b
<1> HIDE DEF items
<1>6. items = [k \in 1..n |-> ItemOf(ws[k])]
  BY <1>4 DEF items
<1>7. DOMAIN items = 1..n
      /\ \A k \in 1..n : (IF items[k] = [word |-> <<>>, wasQuoted |-> FALSE] THEN Null ELSE items[k].word)
                           = IF ws[k] = Null THEN NullWord ELSE ws[k]
  BY <1>1, <1>6, ItemStandsFor
<1>8. RecordIn(in) = [k \in 1..n |-> IF ws[k] = Null THEN NullWord ELSE ws[k]]
  BY <1>5, <1>7
<1> QED
  BY <1>1, <1>8 DEF in

----------------------------------------------------------------------------
(* hstores that the daemon writes *)

(* keys lists the elements of S, each once. *)
Lists(keys, S) ==
  /\ keys \in Seq(S)
  /\ \A x \in S : \E k \in 1..Len(keys) : keys[k] = x
  /\ \A j, k \in 1..Len(keys) : keys[j] = keys[k] => j = k

(* A listing of a finite set has each of its elements once. *)
LEMMA SetListed ==
  ASSUME NEW S, IsFiniteSet(S), NEW keys, keys \in SetToSeqs(S)
  PROVE  Lists(keys, S)
<1> DEFINE n == Cardinality(S)
<1>1. n \in Nat
  BY FS_CardinalityType
<1>2. keys \in [1..n -> S] /\ \A i, j \in 1..n : i # j => keys[i] # keys[j]
  BY DEF SetToSeqs
<1>3. IsFiniteSet(1..n) /\ Cardinality(1..n) = n
  BY <1>1, FS_Interval
<1>4. keys \in Injection(1..n, S)
  BY <1>2 DEF Injection, IsInjective
<1>5. keys \in Surjection(1..n, S)
  <2> HIDE DEF n
  <2>1. Cardinality(1..n) = Cardinality(S)
    BY <1>3 DEF n
  <2> QED
    BY <1>4, <2>1, FS_Injection
<1> HIDE DEF n
<1>6. keys \in Seq(S) /\ Len(keys) = n
  BY <1>1, <1>2, LenProperties
<1>7. \A x \in S : \E k \in 1..n : keys[k] = x
  BY <1>5 DEF Surjection
<1>8. \A j, k \in 1..n : keys[j] = keys[k] => j = k
  BY <1>2
<1> QED
  BY ONLY <1>6, <1>7, <1>8 DEF Lists

(* Numbers are twice a number, or one less. *)
LEMMA Halves ==
  ASSUME NEW K, K \in Nat, NEW n, n \in 1..2 * K
  PROVE  \/ n % 2 = 1 /\ \E k \in 1..K : n = 2 * k - 1 /\ k = (n + 1) \div 2
         \/ n % 2 = 0 /\ \E k \in 1..K : n = 2 * k /\ k = n \div 2
<1>1. n \in Nat /\ n >= 1 /\ n <= 2 * K
  OBVIOUS
<1>2. CASE n % 2 = 1
  <2>1. (n + 1) \div 2 \in 1..K /\ n = 2 * ((n + 1) \div 2) - 1
    BY <1>1, <1>2
  <2> QED
    BY <1>2, <2>1
<1>3. CASE n % 2 = 0
  <2>1. n \div 2 \in 1..K /\ n = 2 * (n \div 2)
    BY <1>1, <1>3
  <2> QED
    BY <1>3, <2>1
<1> QED
  BY <1>1, <1>2, <1>3

(* Halves of even and odd numbers. *)
LEMMA Twice ==
  ASSUME NEW k, k \in Nat, k >= 1
  PROVE  /\ (2 * k - 1) % 2 = 1 /\ ((2 * k - 1) + 1) \div 2 = k /\ (2 * k - 1) \div 2 = k - 1
         /\ (2 * k) % 2 = 0 /\ (2 * k) \div 2 = k /\ (2 * k - 1) - 1 = 2 * (k - 1)
         /\ 2 * (k - 1) \in Nat /\ (2 * (k - 1)) % 2 = 0 /\ (2 * (k - 1)) \div 2 = k - 1
OBVIOUS

(* A pair of words with an arrow between them. *)
PairText(v, w) == OrNull(v) \o <<Arrow>> \o OrNull(w)

PairThere(in, v, w, p) ==
  /\ There(in, OrNull(v), p) /\ At(in, p + Len(OrNull(v))) = Arrow
  /\ There(in, OrNull(w), p + Len(OrNull(v)) + 1)

(* A pair is written as its name, an arrow and its value. *)
LEMMA PairType ==
  ASSUME NEW v, v \in Text \cup {Null}, NEW w, w \in Text \cup {Null}
  PROVE  /\ PairText(v, w) \in Text
         /\ Len(OrNull(v)) \in Nat /\ Len(OrNull(w)) \in Nat
         /\ Len(PairText(v, w)) = Len(OrNull(v)) + 1 + Len(OrNull(w))
         /\ \A in : \A p \in Nat : There(in, PairText(v, w), p) => PairThere(in, v, w, p)
<1> DEFINE a == OrNull(v)
           b == OrNull(w)
           c == Append(a, Arrow)
           item == PairText(v, w)
<1>1. a \in Text /\ b \in Text /\ Len(a) \in Nat /\ Len(b) \in Nat
  BY OrNullType, TextLength
<1>2. item = c \o b
  BY <1>1, AppendIsConcat, Characters DEF PairText, Text
<1> HIDE DEF a, b, item
<1>3. c \in Text /\ Len(c) = Len(a) + 1 /\ (\A i \in 1..Len(a) : c[i] = a[i]) /\ c[Len(a) + 1] = Arrow
  BY <1>1, TextAppend, Characters
<1> HIDE DEF c
<1>4. /\ item \in Text /\ Len(item) = Len(c) + Len(b)
      /\ (\A i \in 1..Len(c) : item[i] = c[i]) /\ (\A i \in 1..Len(b) : item[Len(c) + i] = b[i])
  <2>1. /\ c \o b \in Text /\ Len(c \o b) = Len(c) + Len(b)
        /\ \A i \in 1..Len(c) + Len(b) : (c \o b)[i] = IF i <= Len(c) THEN c[i] ELSE b[i - Len(c)]
    BY <1>1, <1>3, ConcatProperties DEF Text
  <2>2. Len(c) \in Nat
    BY <1>1, <1>3
  <2>3. ASSUME NEW i, i \in 1..Len(c) PROVE item[i] = c[i]
    BY <1>1, <1>2, <2>1, <2>2, <2>3, i \in 1..Len(c) + Len(b), i <= Len(c)
  <2>4. ASSUME NEW i, i \in 1..Len(b) PROVE item[Len(c) + i] = b[i]
    <3>1. Len(c) + i \in 1..Len(c) + Len(b) /\ ~(Len(c) + i <= Len(c)) /\ (Len(c) + i) - Len(c) = i
      BY <1>1, <2>2, <2>4
    <3> QED
      BY <1>2, <2>1, <3>1
  <2> QED
    BY <1>2, <2>1, <2>3, <2>4
<1>5. ASSUME NEW in, NEW p, p \in Nat, There(in, item, p)
      PROVE  /\ There(in, a, p) /\ At(in, p + Len(a)) = Arrow /\ There(in, b, p + Len(a) + 1)
  <2>1. \A j \in 1..Len(item) : At(in, p + j - 1) = item[j]
    BY <1>5 DEF There
  <2>2. ASSUME NEW j, j \in 1..Len(a) PROVE At(in, p + j - 1) = a[j]
    <3>1. j \in 1..Len(item) /\ j \in 1..Len(c)
      BY <1>1, <1>3, <1>4, <2>2
    <3> QED
      BY <1>3, <1>4, <2>1, <2>2, <3>1
  <2>3. At(in, p + Len(a)) = Arrow
    <3>1. Len(a) + 1 \in 1..Len(item) /\ Len(a) + 1 \in 1..Len(c) /\ p + (Len(a) + 1) - 1 = p + Len(a)
      BY <1>1, <1>3, <1>4, <1>5
    <3> QED
      BY <1>3, <1>4, <2>1, <3>1
  <2>4. ASSUME NEW j, j \in 1..Len(b) PROVE At(in, p + Len(a) + 1 + j - 1) = b[j]
    <3>1. Len(c) + j \in 1..Len(item) /\ p + (Len(c) + j) - 1 = p + Len(a) + 1 + j - 1
      BY <1>1, <1>3, <1>4, <1>5, <2>4
    <3> QED
      BY <1>4, <2>1, <2>4, <3>1
  <2> QED
    BY <2>2, <2>3, <2>4 DEF There
<1>6. Len(item) = Len(a) + 1 + Len(b)
  BY <1>1, <1>3, <1>4
<1> QED
  BY <1>1, <1>4, <1>5, <1>6 DEF a, b, item, PairThere

(* The names and values of an hstore in the order in which they are written. *)
PairWords(m, keys) ==
  [n \in 1..2 * Len(keys) |-> IF n % 2 = 1 THEN keys[(n + 1) \div 2] ELSE m[keys[n \div 2]]]

(* An hstore, and a list of its names. *)
IsHstore(m, S, keys) == S \subseteq Text /\ m \in [S -> Text \cup {Null}] /\ Lists(keys, S)

(* The odd ones are the names and the even ones their values. *)
NamesAndValues(ws, m, S, keys, K) ==
  /\ K \in Nat /\ DOMAIN keys = 1..K
  /\ ws \in Seq(Text \cup {Null}) /\ Len(ws) = 2 * K
  /\ \A k \in 1..K : /\ keys[k] \in S /\ keys[k] \in Text \cup {Null} /\ keys[k] # Null
                     /\ m[keys[k]] \in Text \cup {Null}
                     /\ ws[2 * k - 1] = keys[k] /\ ws[2 * k] = m[keys[k]]

(* The words of a written map are its names and values in turn. *)
LEMMA PairWordsAre ==
  ASSUME NEW m, NEW S, NEW keys, IsHstore(m, S, keys), NEW K, K = Len(keys)
  PROVE  NamesAndValues(PairWords(m, keys), m, S, keys, K)
<1> DEFINE ws == PairWords(m, keys)
<1>1. keys \in Seq(S) /\ S \subseteq Text /\ m \in [S -> Text \cup {Null}]
  BY DEF IsHstore, Lists
<1>2. K \in Nat /\ DOMAIN keys = 1..K /\ 2 * K \in Nat /\ \A k \in 1..K : keys[k] \in S
  BY <1>1, LenProperties, ElementOfSeq
<1>3. \A k \in 1..K : keys[k] \in Text \cup {Null} /\ keys[k] # Null /\ m[keys[k]] \in Text \cup {Null}
  BY <1>1, <1>2, TextAssumption
<1>4. ws = [n \in 1..2 * K |-> IF n % 2 = 1 THEN keys[(n + 1) \div 2] ELSE m[keys[n \div 2]]]
  BY DEF PairWords
<1> HIDE DEF ws
<1>5. ASSUME NEW n, n \in 1..2 * K PROVE ws[n] \in Text \cup {Null}
  <2>1. ws[n] = IF n % 2 = 1 THEN keys[(n + 1) \div 2] ELSE m[keys[n \div 2]]
    BY <1>4, <1>5
  <2>2. CASE n % 2 = 1 /\ \E k \in 1..K : n = 2 * k - 1 /\ k = (n + 1) \div 2
    BY <1>3, <2>1, <2>2
  <2>3. CASE n % 2 = 0 /\ \E k \in 1..K : n = 2 * k /\ k = n \div 2
    BY <1>3, <2>1, <2>3
  <2> QED
    BY <1>2, <1>5, <2>2, <2>3, Halves
<1>6. ws \in Seq(Text \cup {Null}) /\ Len(ws) = 2 * K
  <2>1. DOMAIN ws = 1..2 * K
    BY <1>4
  <2>2. ws = [n \in 1..2 * K |-> ws[n]]
    BY <1>4, <2>1
  <2>3. ws \in Seq(Text \cup {Null})
    BY <1>2, <1>5, <2>2, IsASeq
  <2> QED
    BY <1>2, <2>1, <2>3, LenProperties
<1>7. ASSUME NEW k, k \in 1..K PROVE ws[2 * k - 1] = keys[k] /\ ws[2 * k] = m[keys[k]]
  <2>1. k \in Nat /\ k >= 1 /\ 2 * k - 1 \in 1..2 * K /\ 2 * k \in 1..2 * K
    BY <1>2, <1>7
  <2>2. (2 * k - 1) % 2 = 1 /\ ((2 * k - 1) + 1) \div 2 = k /\ (2 * k) % 2 = 0 /\ (2 * k) \div 2 = k
    BY <2>1, Twice
  <2>3. ws[2 * k - 1] = keys[k]
    BY ONLY <1>4, <2>1, <2>2, Zenon
  <2>4. ws[2 * k] = m[keys[k]]
    BY ONLY <1>4, <2>1, <2>2, 0 # 1, Zenon
  <2> QED
    BY <2>3, <2>4
<1> QED
  BY ONLY <1>2, <1>3, <1>6, <1>7 DEF ws, NamesAndValues

(* Where items with commas between them are: the k-th one begins at position
   at[k - 1], and a comma or the end of the text is at position at[k] - 1. *)
SeparatedAt(in, items, n, at) ==
  /\ in \in Text /\ at \in [0..n -> Nat] /\ at[0] = 0 /\ at[n] = Len(in) + 1
  /\ \A k \in 1..n :
       /\ at[k] = at[k - 1] + Len(items[k]) + 1 /\ at[k] <= Len(in) + 1
       /\ There(in, items[k], at[k - 1])
       /\ k # n => At(in, at[k] - 1) = Comma

(* Where each item is in a list that commas separate, without brackets. *)
LEMMA CommasSeparate ==
  ASSUME NEW items, items \in Seq(Text), NEW n, n \in Nat, n > 0, n = Len(items),
         NEW in, in = Commas(items)
  PROVE  \E at : SeparatedAt(in, items, n, at)
<1>1. PICK p : CommasAt(items, n, in, p)
  BY ONLY items \in Seq(Text), n \in Nat, n = Len(items), in = Commas(items), CommasPlaces, Zenon
<1>2. in \in Text
  BY ONLY items \in Seq(Text), n \in Nat, n = Len(items), in = Commas(items), CommasPlaces, Zenon
<1>3. /\ p \in [0..n -> Nat] /\ p[0] = 0 /\ p[n] = Len(in)
      /\ \A k \in 1..n : /\ p[k] = p[k - 1] + Len(items[k]) + (IF k = 1 THEN 0 ELSE 1)
                         /\ p[k] <= Len(in)
                         /\ \A j \in 1..Len(items[k]) : in[p[k - 1] + (IF k = 1 THEN j ELSE j + 1)] = items[k][j]
                         /\ k # 1 => in[p[k - 1] + 1] = Comma
  BY <1>1 DEF CommasAt
<1>4. Len(in) \in Nat /\ \A k \in 1..n : Len(items[k]) \in Nat
  BY <1>2, TextLength, ElementOfSeq
<1> DEFINE at == [k \in 0..n |-> IF k = 0 THEN 0 ELSE p[k] + 1]
<1>5. at \in [0..n -> Nat] /\ at[0] = 0 /\ at[n] = Len(in) + 1
  BY <1>3
<1>6. ASSUME NEW k, k \in 1..n
      PROVE  /\ at[k] = at[k - 1] + Len(items[k]) + 1 /\ at[k] <= Len(in) + 1
             /\ There(in, items[k], at[k - 1])
             /\ k # n => At(in, at[k] - 1) = Comma
  <2>1. k \in 0..n /\ k - 1 \in 0..n /\ k # 0 /\ (k - 1 = 0 <=> k = 1)
    BY <1>6
  <2>2. PICK x \in Nat, y \in Nat, z \in Nat : x = p[k - 1] /\ y = p[k] /\ z = Len(items[k])
    BY <1>3, <1>4, <1>6, <2>1
  <2>3. at[k] = y + 1 /\ at[k - 1] = IF k = 1 THEN 0 ELSE x + 1
    BY <2>1, <2>2
  <2> HIDE DEF at
  <2>4. y = x + z + (IF k = 1 THEN 0 ELSE 1) /\ y <= Len(in) /\ (k = 1 => x = 0)
    <3>1. k = 1 => p[k - 1] = p[0]
      BY <2>1
    <3> QED
      BY <1>3, <1>6, <2>2, <3>1
  <2>5. ASSUME NEW j, j \in 1..z PROVE At(in, at[k - 1] + j - 1) = items[k][j]
    <3>1. in[x + (IF k = 1 THEN j ELSE j + 1)] = items[k][j]
      BY <1>3, <1>6, <2>2, <2>5
    <3>2. (at[k - 1] + j - 1) + 1 = x + (IF k = 1 THEN j ELSE j + 1)
      BY <2>3, <2>4, <2>5
    <3> QED
      BY ONLY <3>1, <3>2 DEF At
  <2>6. ASSUME k # n PROVE At(in, at[k] - 1) = Comma
    <3>1. k + 1 \in 1..n /\ k + 1 # 1 /\ (k + 1) - 1 = k
      BY <1>6, <2>6
    <3>2. in[p[k] + 1] = Comma
      BY ONLY <1>3, <3>1
    <3>3. (at[k] - 1) + 1 = p[k] + 1
      BY <2>2, <2>3
    <3> QED
      BY ONLY <3>2, <3>3 DEF At
  <2>7. There(in, items[k], at[k - 1])
    BY <2>2, <2>5 DEF There
  <2> QED
    BY <1>4, <2>2, <2>3, <2>4, <2>6, <2>7
<1>7. SeparatedAt(in, items, n, at)
  <2> HIDE DEF at
  <2> QED
    BY ONLY <1>2, <1>5, <1>6 DEF SeparatedAt
<1> QED
  BY <1>7

(* as_text_hstore() writes the names and the values one after the other. *)
LEMMA PairsWritten ==
  ASSUME NEW m, NEW S, NEW keys, IsHstore(m, S, keys), keys # <<>>
  PROVE  \E at : WordsAt(as_text_hstore(m, keys), PairWords(m, keys), 2 * Len(keys), at)
<1> DEFINE items == [n \in DOMAIN keys |-> double_quote(keys[n]) \o <<Arrow>> \o OrNull(m[keys[n]])]
           K == Len(keys)
           in == as_text_hstore(m, keys)
           ws == PairWords(m, keys)
<1>1. /\ K \in Nat /\ K > 0 /\ DOMAIN keys = 1..K
      /\ ws \in Seq(Text \cup {Null}) /\ Len(ws) = 2 * K
      /\ \A k \in 1..K : /\ keys[k] \in Text \cup {Null} /\ keys[k] # Null /\ m[keys[k]] \in Text \cup {Null}
                         /\ ws[2 * k - 1] = keys[k] /\ ws[2 * k] = m[keys[k]]
  <2>1. K # 0
    <3>1. keys \in Seq(S)
      BY DEF IsHstore, Lists
    <3> QED
      BY <3>1, EmptySeq
  <2>2. NamesAndValues(ws, m, S, keys, K)
    BY PairWordsAre
  <2> HIDE DEF K, ws
  <2>3. K \in Nat /\ K > 0
    BY ONLY <2>1, <2>2 DEF NamesAndValues
  <2> QED
    BY ONLY <2>2, <2>3 DEF NamesAndValues
<1>2. in = Commas(items)
  BY DEF as_text_hstore
<1>3. items \in Seq(Text) /\ Len(items) = K /\ \A k \in 1..K : items[k] = PairText(keys[k], m[keys[k]])
  <2>1. \A k \in 1..K : double_quote(keys[k]) = OrNull(keys[k])
    BY <1>1 DEF OrNull
  <2>2. \A k \in 1..K : items[k] = PairText(keys[k], m[keys[k]])
    BY <1>1, <2>1 DEF PairText
  <2>3. \A k \in 1..K : items[k] \in Text
    <3>1. ASSUME NEW v, v \in Text \cup {Null}, NEW w, w \in Text \cup {Null} PROVE PairText(v, w) \in Text
      BY <3>1, PairType
    <3> HIDE DEF items, K
    <3> QED
      BY ONLY <1>1, <2>2, <3>1
  <2>4. items = [k \in 1..K |-> items[k]]
    BY <1>1
  <2> HIDE DEF items
  <2>5. items \in Seq(Text) /\ Len(items) = K
    BY <1>1, <2>3, <2>4, IsASeq, LenProperties
  <2> QED
    BY <2>2, <2>5
<1> HIDE DEF items, K, in, ws
<1>4. PICK pos : SeparatedAt(in, items, K, pos)
  BY ONLY <1>1, <1>2, <1>3, CommasSeparate
<1>5. /\ in \in Text /\ pos \in [0..K -> Nat] /\ pos[0] = 0 /\ pos[K] = Len(in) + 1 /\ Len(in) \in Nat
      /\ \A k \in 1..K :
           /\ pos[k] = pos[k - 1] + Len(items[k]) + 1 /\ pos[k] <= Len(in) + 1
           /\ There(in, items[k], pos[k - 1])
           /\ k # K => At(in, pos[k] - 1) = Comma
  BY <1>4, TextLength DEF SeparatedAt
<1> DEFINE at == [n \in 0..2 * K |-> IF n % 2 = 0 THEN pos[n \div 2]
                                     ELSE pos[n \div 2] + Len(OrNull(ws[n])) + 1]
<1>6. 2 * K \in Nat /\ 2 * K > 0 /\ 0 \in 0..2 * K /\ 2 * K \in 0..2 * K
  BY <1>1
<1>7. ASSUME NEW k, k \in 1..K
      PROVE  /\ at[2 * k - 1] = at[(2 * k - 1) - 1] + Len(OrNull(ws[2 * k - 1])) + 1
             /\ at[2 * k - 1] <= Len(in) + 1 /\ at[2 * k - 1] \in Nat
             /\ There(in, OrNull(ws[2 * k - 1]), at[(2 * k - 1) - 1])
             /\ At(in, at[2 * k - 1] - 1) = Arrow
             /\ at[2 * k] = at[2 * k - 1] + Len(OrNull(ws[2 * k])) + 1
             /\ at[2 * k] <= Len(in) + 1 /\ at[2 * k] \in Nat
             /\ There(in, OrNull(ws[2 * k]), at[2 * k - 1])
             /\ k # K => At(in, at[2 * k] - 1) = Comma
  <2>1. /\ k \in Nat /\ k >= 1 /\ k \in 0..K /\ k - 1 \in 0..K /\ 2 * k - 1 \in 0..2 * K /\ 2 * k \in 0..2 * K
        /\ 2 * (k - 1) \in 0..2 * K
    BY <1>1, <1>7
  <2>2. PICK v, w : v = keys[k] /\ w = m[keys[k]]
    OBVIOUS
  <2>3. v \in Text \cup {Null} /\ w \in Text \cup {Null} /\ ws[2 * k - 1] = v /\ ws[2 * k] = w /\ items[k] = PairText(v, w)
    BY <1>1, <1>3, <1>7, <2>2
  <2>4. PICK x \in Nat, y \in Nat : x = pos[k - 1] /\ y = pos[k]
    BY <1>5, <2>1
  <2>5. PICK a \in Nat, b \in Nat : a = Len(OrNull(v)) /\ b = Len(OrNull(w)) /\ Len(items[k]) = a + 1 + b
    BY <2>3, PairType, ZenonT(30)
  <2>6. at[2 * (k - 1)] = x /\ at[2 * k - 1] = x + a + 1 /\ at[2 * k] = y /\ (2 * k - 1) - 1 = 2 * (k - 1)
    <3>1. /\ (2 * k - 1) % 2 = 1 /\ (2 * k - 1) \div 2 = k - 1
          /\ (2 * k) % 2 = 0 /\ (2 * k) \div 2 = k /\ (2 * k - 1) - 1 = 2 * (k - 1)
          /\ (2 * (k - 1)) % 2 = 0 /\ (2 * (k - 1)) \div 2 = k - 1
      BY <2>1, Twice
    <3>2. at[2 * (k - 1)] = pos[k - 1]
      BY ONLY <2>1, <3>1, Zenon
    <3>3. at[2 * k] = pos[k]
      BY ONLY <2>1, <3>1, Zenon
    <3>4. at[2 * k - 1] = pos[k - 1] + Len(OrNull(ws[2 * k - 1])) + 1
      BY ONLY <2>1, <3>1, 0 # 1, Zenon
    <3> HIDE DEF at
    <3> QED
      BY ONLY <2>3, <2>4, <2>5, <3>1, <3>2, <3>3, <3>4
  <2> HIDE DEF at
  <2>7. y = x + (a + 1 + b) + 1 /\ y <= Len(in) + 1 /\ There(in, items[k], x) /\ (k # K => At(in, y - 1) = Comma)
    BY <1>5, <1>7, <2>4, <2>5
  <2>8. PairThere(in, v, w, x)
    BY <2>3, <2>7, PairType
  <2>9. There(in, OrNull(v), x) /\ At(in, x + a) = Arrow /\ There(in, OrNull(w), x + a + 1)
    BY ONLY <2>5, <2>8 DEF PairThere
  <2>10. (x + a + 1) - 1 = x + a /\ x + a + 1 <= Len(in) + 1 /\ y = (x + a + 1) + b + 1
    <3>1. PICK l \in Nat : l = Len(in)
      BY <1>5
    <3>2. y = x + (a + 1 + b) + 1 /\ y <= l + 1
      BY ONLY <2>7, <3>1
    <3>3. (x + a + 1) - 1 = x + a /\ x + a + 1 <= l + 1 /\ y = (x + a + 1) + b + 1
      BY ONLY x \in Nat, a \in Nat, b \in Nat, y \in Nat, l \in Nat, <3>2
    <3> QED
      BY ONLY <3>1, <3>3
  <2> QED
    BY ONLY <2>3, <2>4, <2>5, <2>6, <2>7, <2>9, <2>10, SMTT(20)
<1>8. at[0] = 0 /\ at[2 * K] = Len(in) + 1
  <2>1. K \in 1..K
    BY <1>1
  <2>2. (2 * K) % 2 = 0 /\ (2 * K) \div 2 = K /\ 0 % 2 = 0 /\ 0 \div 2 = 0
    BY <1>1, Twice
  <2>3. at[0] = pos[0] /\ at[2 * K] = pos[K]
    BY ONLY <1>6, <2>2, Zenon
  <2> HIDE DEF at
  <2> QED
    BY ONLY <1>5, <2>3
<1>9. ASSUME NEW n, n \in 1..2 * K
      PROVE  /\ at[n] \in Nat
             /\ at[n] = at[n - 1] + Len(OrNull(ws[n])) + 1 /\ at[n] <= Len(in) + 1
             /\ There(in, OrNull(ws[n]), at[n - 1])
             /\ n # 2 * K => At(in, at[n] - 1) \in {Comma, Arrow}
  <2> HIDE DEF at
  <2>1. CASE \E k \in 1..K : n = 2 * k - 1
    BY <1>7, <2>1
  <2>2. CASE \E k \in 1..K : n = 2 * k
    <3>1. PICK k \in 1..K : n = 2 * k
      BY <2>2
    <3>2. n # 2 * K => k # K
      BY <3>1
    <3>3. n - 1 = 2 * k - 1
      BY <3>1
    <3> QED
      BY ONLY <1>7, <3>1, <3>2, <3>3
  <2> QED
    <3>1. K \in Nat /\ n \in 1..2 * K
      BY <1>1, <1>9
    <3>2. (\E k \in 1..K : n = 2 * k - 1) \/ (\E k \in 1..K : n = 2 * k)
      BY ONLY <3>1, Halves
    <3> QED
      BY ONLY <2>1, <2>2, <3>2
<1>10. at \in [0..2 * K -> Nat]
  <2>1. \A n \in 0..2 * K : at[n] \in Nat
    <3> HIDE DEF at
    <3>1. \A n \in 0..2 * K : n = 0 \/ n \in 1..2 * K
      BY <1>6
    <3> QED
      BY ONLY <1>8, <1>9, <3>1, 0 \in Nat
  <2> QED
    BY ONLY <2>1
<1>11. WordsAt(in, ws, 2 * K, at)
  <2> HIDE DEF at
  <2> QED
    BY ONLY <1>1, <1>5, <1>6, <1>8, <1>9, <1>10 DEF WordsAt
<1> QED
  BY ONLY <1>11 DEF in, ws, K

(* What is read of an hstore is m, whose names are S. *)
ReadAs(read, m, S) == DOMAIN read = S /\ \A x \in S : read[x] = m[x]

(* hstore_in() reads back what as_text_hstore() writes. *)
LEMMA HstoreInRead ==
  ASSUME NEW m, NEW S, NEW keys, IsHstore(m, S, keys)
  PROVE  ReadAs(HstoreIn(as_text_hstore(m, keys)), m, S)
<1> DEFINE K == Len(keys)
           in == as_text_hstore(m, keys)
           ws == PairWords(m, keys)
<1>1. Lists(keys, S)
  BY DEF IsHstore
<1>2. CASE keys = <<>>
  <2>1. Len(keys) = 0 /\ DOMAIN keys = {} /\ DOMAIN <<>> = {}
    BY <1>2, EmptySeq
  <2>2. S = {}
    BY <1>1, <2>1 DEF Lists
  <2> DEFINE items == [n \in DOMAIN keys |-> double_quote(keys[n]) \o <<Arrow>> \o OrNull(m[keys[n]])]
  <2>3. items \in Seq(Text) /\ Len(items) = 0
    BY <2>1, IsASeq, LenProperties
  <2>4. in = Commas(items)
    BY DEF as_text_hstore
  <2> HIDE DEF items, in
  <2>5. PICK p : CommasAt(items, 0, in, p)
    BY ONLY <2>3, <2>4, 0 \in Nat, CommasPlaces, Zenon
  <2>6. in \in Text
    BY ONLY <2>3, <2>4, 0 \in Nat, CommasPlaces, Zenon
  <2>7. Len(in) = 0
    BY <2>5 DEF CommasAt
  <2>8. in = <<>>
    BY <2>6, <2>7, EmptySeq DEF Text
  <2>9. HstoreIn(in) = <<>>
    BY <2>8 DEF HstoreIn
  <2> QED
    BY ONLY <2>1, <2>2, <2>9 DEF ReadAs, in
<1>3. CASE keys # <<>>
  <2>1. NamesAndValues(ws, m, S, keys, K)
    BY PairWordsAre
  <2>2. PICK at : WordsAt(in, ws, 2 * K, at)
    BY <1>3, PairsWritten
  <2>3. K \in Nat /\ K > 0
    <3>1. K # 0
      BY <1>1, <1>3, EmptySeq DEF Lists
    <3> HIDE DEF K, ws
    <3> QED
      BY ONLY <2>1, <3>1 DEF NamesAndValues
  <2> DEFINE items == Items(in)
  <2> HIDE DEF K, ws, in
  <2>4. items = [n \in 1..2 * K |-> ItemOf(ws[n])]
    BY <2>2, WordsRead
  <2>5. in # <<>>
    <3>1. /\ at \in [0..2 * K -> Nat] /\ at[0] = 0 /\ at[2 * K] = Len(in) + 1 /\ in \in Text
          /\ \A n \in 1..2 * K : at[n] = at[n - 1] + Len(OrNull(ws[n])) + 1 /\ at[n] <= Len(in) + 1
      BY <2>2 DEF WordsAt
    <3>2. 1 \in 1..2 * K /\ 2 \in 1..2 * K /\ 1 \in 0..2 * K
      BY <2>3
    <3>3. PICK l \in Nat, a \in Nat, b \in Nat, x \in Nat :
            l = Len(in) /\ a = Len(OrNull(ws[1])) /\ b = Len(OrNull(ws[2])) /\ x = at[1]
      <4>1. ws[1] \in Text \cup {Null} /\ ws[2] \in Text \cup {Null}
        BY <2>1, <3>2, ElementOfSeq DEF NamesAndValues
      <4>2. Len(OrNull(ws[1])) \in Nat
        BY <4>1, PairType
      <4>3. Len(OrNull(ws[2])) \in Nat
        BY <4>1, PairType
      <4> QED
        BY ONLY <3>1, <3>2, <4>2, <4>3, TextLength
    <3>4. x = 0 + a + 1 /\ at[2] = x + b + 1 /\ at[2] <= l + 1
      <4>1. 1 - 1 = 0 /\ 2 - 1 = 1
        OBVIOUS
      <4> QED
        BY ONLY <3>1, <3>2, <3>3, <4>1
    <3>5. l # 0
      BY ONLY <3>4, l \in Nat, a \in Nat, b \in Nat, x \in Nat
    <3> QED
      BY <3>3, <3>5, EmptySeq
  <2> DEFINE odd == {n \in DOMAIN items : n % 2 = 1}
             key(k) == {n \in DOMAIN items : n % 2 = 1 /\ items[n].word = k}
  <2>6. HstoreIn(in) = [k \in {items[n].word : n \in odd} |-> WordOrNull(items[Max(key(k)) + 1])]
    BY <2>5 DEF HstoreIn
  <2> HIDE DEF items
  <2>7. ASSUME NEW k, k \in 1..K
        PROVE  /\ 2 * k - 1 \in odd /\ items[2 * k - 1].word = keys[k]
               /\ (2 * k - 1) + 1 \in DOMAIN items /\ WordOrNull(items[(2 * k - 1) + 1]) = m[keys[k]]
    <3>1. k \in Nat /\ k >= 1 /\ 2 * k - 1 \in 1..2 * K /\ 2 * k \in 1..2 * K /\ (2 * k - 1) + 1 = 2 * k
      BY <2>3, <2>7
    <3>2. (2 * k - 1) % 2 = 1
      BY <3>1, Twice
    <3>3. PICK v, w : v = keys[k] /\ w = m[keys[k]]
      OBVIOUS
    <3>4. v \in Text \cup {Null} /\ v # Null /\ w \in Text \cup {Null} /\ ws[2 * k - 1] = v /\ ws[2 * k] = w
      BY <2>1, <2>7, <3>3 DEF NamesAndValues
    <3>5. items[2 * k - 1] = ItemOf(v) /\ items[2 * k] = ItemOf(w) /\ DOMAIN items = 1..2 * K
      BY ONLY <2>4, <3>1, <3>4
    <3>6. ItemOf(v).word = v
      BY <3>4, ItemStandsFor
    <3>7. WordOrNull(ItemOf(w)) = w
      BY <3>4, ItemStandsFor
    <3> QED
      BY ONLY <3>1, <3>2, <3>3, <3>5, <3>6, <3>7
  <2>8. ASSUME NEW n, n \in odd PROVE \E k \in 1..K : n = 2 * k - 1
    <3>1. n \in 1..2 * K /\ n % 2 = 1
      BY <2>4, <2>8
    <3>2. n % 2 # 0
      BY ONLY <3>1
    <3> QED
      BY ONLY <2>3, <3>1, <3>2, Halves
  <2>9. {items[n].word : n \in odd} = S
    <3>1. ASSUME NEW n, n \in odd PROVE items[n].word \in S
      <4>1. PICK k \in 1..K : n = 2 * k - 1
        BY <2>8, <3>1
      <4>2. keys[k] \in S
        BY <2>1 DEF NamesAndValues
      <4>3. items[2 * k - 1].word = keys[k]
        BY <2>7
      <4> QED
        BY ONLY <4>1, <4>2, <4>3
    <3>2. ASSUME NEW x, x \in S PROVE \E n \in odd : items[n].word = x
      <4>1. PICK k \in 1..K : keys[k] = x
        BY <1>1, <3>2 DEF Lists, K
      <4> QED
        BY ONLY <2>7, <4>1
    <3> HIDE DEF odd
    <3> QED
      BY ONLY <3>1, <3>2
  <2>10. ASSUME NEW x, x \in S PROVE WordOrNull(items[Max(key(x)) + 1]) = m[x]
    <3>1. PICK k \in 1..K : keys[k] = x
      BY <1>1, <2>10 DEF Lists, K
    <3>2. 2 * k - 1 \in key(x)
      BY <2>7, <3>1
    <3>3. ASSUME NEW n, n \in key(x) PROVE n = 2 * k - 1
      <4>1. n \in odd /\ items[n].word = x
        BY <3>3
      <4>2. PICK j \in 1..K : n = 2 * j - 1
        BY <2>8, <4>1
      <4>3. keys[j] = x
        BY <2>7, <4>1, <4>2
      <4>4. j = k
        BY <1>1, <3>1, <4>2, <4>3 DEF Lists, K
      <4> QED
        BY ONLY <4>2, <4>4
    <3> HIDE DEF key
    <3>4. PICK c \in Int : c = 2 * k - 1
      BY <3>1
    <3>5. Max(key(x)) = c
      BY ONLY <3>2, <3>3, <3>4 DEF Max
    <3> QED
      BY ONLY <2>7, <3>1, <3>4, <3>5
  <2> HIDE DEF odd, key
  <2> QED
    BY ONLY <2>6, <2>9, <2>10 DEF ReadAs, in
<1> QED
  BY <1>2, <1>3

----------------------------------------------------------------------------
(* hstores that the daemon reads *)

(* Position i has no quote that begins or ends a text, for i from p to q - 1. *)
NoQuoteFrom(in, p, q) == \A i \in Nat : p <= i /\ i < q => ~QuoteAt(in, i)

(* From position p on is w with escape characters, which has no such quote and
   ends in the character that w ends in. *)
WithoutQuotes(in, p, w) ==
  /\ NoQuoteFrom(in, p, p + Len(Escaped(w))) /\ Len(Escaped(w)) \in Nat
  /\ Len(w) = 0 => Len(Escaped(w)) = 0
  /\ Len(w) > 0 => Len(Escaped(w)) > 0 /\ At(in, p + Len(Escaped(w)) - 1) = w[Len(w)]

(* Every quote in an escaped text has a backslash before it. *)
LEMMA EscapedQuotes ==
  ASSUME NEW in, NEW p, p \in Nat, NEW w, w \in Text, There(in, Escaped(w), p)
  PROVE  WithoutQuotes(in, p, w)
<1> DEFINE Good(t) == There(in, Escaped(t), p) => WithoutQuotes(in, p, t)
           T == {t \in Text : Good(t)}
<1>1. <<>> \in T
  <2>1. Escaped(<<>>) = <<>> /\ Len(<<>>) = 0 /\ <<>> \in Text
    BY NoneWritten, NoCharacters DEF Escaped
  <2>2. NoQuoteFrom(in, p, p + Len(Escaped(<<>>)))
    BY <2>1 DEF NoQuoteFrom
  <2> QED
    BY ONLY <2>1, <2>2 DEF WithoutQuotes
<1>2. ASSUME NEW t, t \in Text, NEW c, c \in Character, Good(t)
      PROVE  Good(Append(t, c))
  <2> DEFINE u == Append(t, c)
  <2> SUFFICES ASSUME There(in, Escaped(u), p)
               PROVE  WithoutQuotes(in, p, u)
    OBVIOUS
  <2>1. EscapedLast(in, t, c, p)
    BY ONLY <1>2, p \in Nat, There(in, Escaped(u), p), EscapedThere
  <2>2. WithoutQuotes(in, p, t)
    BY <1>2, <2>1 DEF EscapedLast
  <2>3. Len(u) > 0 /\ Len(u) # 0 /\ u[Len(u)] = c
    BY <1>2, TextAppend
  <2> HIDE DEF Good, u
  <2>4. PICK l \in Nat, n \in Nat : l = Len(Escaped(t)) /\ n = p + l
    BY <2>1 DEF EscapedLast
  <2>5. \A i \in Nat : p <= i /\ i < n => ~QuoteAt(in, i)
    BY <2>2, <2>4 DEF WithoutQuotes, NoQuoteFrom
  <2>6. CASE c \notin {Quote, Escape}
    <3>1. At(in, n) = c /\ Len(Escaped(u)) = l + 1
      BY <2>1, <2>4, <2>6 DEF EscapedLast, u
    <3>2. p + (l + 1) = n + 1 /\ p + (l + 1) - 1 = n /\ l + 1 > 0 /\ l + 1 \in Nat
      BY <2>4
    <3>3. ~QuoteAt(in, n)
      BY <2>6, <3>1 DEF QuoteAt
    <3>4. NoQuoteFrom(in, p, n + 1)
      <4>1. \A i \in Nat : i < n + 1 => i < n \/ i = n
        BY n \in Nat
      <4> QED
        BY ONLY <2>5, <3>3, <4>1 DEF NoQuoteFrom
    <3> QED
      BY ONLY <2>3, <3>1, <3>2, <3>4 DEF WithoutQuotes
  <2>7. CASE c \in {Quote, Escape}
    <3>1. At(in, n) = Escape /\ At(in, n + 1) = c /\ Len(Escaped(u)) = l + 2
      BY <2>1, <2>4, <2>7 DEF EscapedLast, u
    <3>2. p + (l + 2) = n + 2 /\ p + (l + 2) - 1 = n + 1 /\ l + 2 > 0 /\ l + 2 \in Nat /\ (n + 1) - 1 = n /\ n + 1 # 0
      BY <2>4
    <3>3. ~QuoteAt(in, n)
      BY <3>1, Characters DEF QuoteAt
    <3>4. ~QuoteAt(in, n + 1)
      BY ONLY <3>1, <3>2 DEF QuoteAt
    <3>5. NoQuoteFrom(in, p, n + 2)
      <4>1. \A i \in Nat : i < n + 2 => i < n \/ i = n \/ i = n + 1
        BY n \in Nat
      <4> QED
        BY ONLY <2>5, <3>3, <3>4, <4>1 DEF NoQuoteFrom
    <3> QED
      BY ONLY <2>3, <3>1, <3>2, <3>5 DEF WithoutQuotes
  <2> QED
    BY <2>6, <2>7 DEF u
<1>3. Text \subseteq T
  <2>1. \A t \in Text, c \in Character : t \in T => Append(t, c) \in T
    <3> HIDE DEF Good
    <3> QED
      BY <1>2, TextAppend
  <2> HIDE DEF T
  <2> QED
    BY <1>1, <2>1, TextInduction
<1>4. Good(w)
  <2> HIDE DEF Good
  <2> QED
    BY <1>3
<1> QED
  BY <1>4

(* A text without quotes and escape characters needs none. *)
LEMMA PlainEscaped ==
  ASSUME NEW w, w \in Text, \A i \in 1..Len(w) : w[i] \notin {Quote, Escape}
  PROVE  Escaped(w) = w
<1> DEFINE T == {t \in Text : (\A i \in 1..Len(t) : t[i] \notin {Quote, Escape}) => Escaped(t) = t}
<1>1. <<>> \in T
  BY NoneWritten, NoCharacters DEF Escaped
<1>2. \A t \in Text, c \in Character : t \in T => Append(t, c) \in T
  <2> SUFFICES ASSUME NEW t \in Text, NEW c \in Character, t \in T,
                      \A i \in 1..Len(Append(t, c)) : Append(t, c)[i] \notin {Quote, Escape}
               PROVE  Escaped(Append(t, c)) = Append(t, c)
    BY TextAppend
  <2> DEFINE u == Append(t, c)
  <2>1. Len(u) = Len(t) + 1 /\ Len(t) \in Nat /\ (\A i \in 1..Len(t) : u[i] = t[i]) /\ u[Len(t) + 1] = c
    BY TextAppend
  <2>2. \A i \in 1..Len(u) : u[i] \notin {Quote, Escape}
    OBVIOUS
  <2> HIDE DEF u
  <2>3. c \notin {Quote, Escape} /\ \A i \in 1..Len(t) : t[i] \notin {Quote, Escape}
    BY <2>1, <2>2
  <2>4. Escaped(t) = t
    BY <2>3
  <2>5. Escaped(u) = t \o <<c>>
    <3>1. Escaped(u) = Escaped(t) \o (IF c \in {Quote, Escape} THEN <<Escape, c>> ELSE <<c>>)
      BY ONLY t \in Text, c \in Character, EscapeAppend DEF Escaped, u
    <3> QED
      BY ONLY <2>3, <2>4, <3>1
  <2>6. t \o <<c>> = Append(t, c)
    BY AppendIsConcat DEF Text
  <2> QED
    BY <2>5, <2>6 DEF u
<1>3. Text \subseteq T
  <2> HIDE DEF T
  <2> QED
    BY <1>1, <1>2, TextInduction
<1> QED
  BY <1>3

(* The states of the loop of unescape_hstore_text(). *)
UnescapeRun(e, r) == \A i \in 0..Len(e) - 1 : r[i + 1] = UnescapeStep(e, r[i], i)

Unescaping(s, out) == s = [after |-> FALSE, out |-> out]
AfterEscape(s, out) == s = [after |-> TRUE, out |-> out]

(* A character that is not a backslash is taken as it is. *)
LEMMA UnescapePlain ==
  ASSUME NEW e, NEW s, NEW out, Unescaping(s, out), NEW i, At(e, i) # Escape
  PROVE  Unescaping(UnescapeStep(e, s, i), Append(out, At(e, i)))
BY DEF Unescaping, UnescapeStep

(* A backslash that no backslash precedes is dropped. *)
LEMMA UnescapeFirst ==
  ASSUME NEW e, NEW s, NEW out, Unescaping(s, out), NEW i, At(e, i) = Escape, i = 0 \/ At(e, i - 1) # Escape
  PROVE  AfterEscape(UnescapeStep(e, s, i), out)
BY DEF Unescaping, AfterEscape, UnescapeStep

(* The character after a dropped backslash is taken as it is. *)
LEMMA UnescapeSecond ==
  ASSUME NEW e, NEW s, NEW out, AfterEscape(s, out), NEW i
  PROVE  Unescaping(UnescapeStep(e, s, i), Append(out, At(e, i)))
BY DEF Unescaping, AfterEscape, UnescapeStep

(* No escape character is followed by a quote or another one. *)
Single(w) == \A n \in 1..Len(w) - 1 : w[n] = Escape => w[n + 1] \notin {Escape, Quote}

(* A text in which no backslash precedes a backslash or quote, one character shorter. *)
LEMMA SingleShorter ==
  ASSUME NEW t, t \in Text, NEW c, c \in Character, Single(Append(t, c))
  PROVE  Single(t) /\ (Len(t) > 0 /\ t[Len(t)] = Escape => c \notin {Escape, Quote})
<1> DEFINE u == Append(t, c)
<1>1. Len(u) = Len(t) + 1 /\ Len(t) \in Nat /\ (\A i \in 1..Len(t) : u[i] = t[i]) /\ u[Len(t) + 1] = c
  BY TextAppend
<1>2. \A n \in 1..Len(u) - 1 : u[n] = Escape => u[n + 1] \notin {Escape, Quote}
  BY DEF Single
<1> HIDE DEF u
<1>3. \A n \in 1..Len(t) : u[n] = Escape => u[n + 1] \notin {Escape, Quote}
  BY <1>1, <1>2
<1>4. ASSUME NEW n, n \in 1..Len(t) - 1, t[n] = Escape PROVE t[n + 1] \notin {Escape, Quote}
  <2>1. n \in 1..Len(t) /\ n + 1 \in 1..Len(t)
    BY <1>1, <1>4
  <2> QED
    BY ONLY <1>1, <1>3, <1>4, <2>1
<1>5. Len(t) > 0 /\ t[Len(t)] = Escape => c \notin {Escape, Quote}
  BY <1>1, <1>3, Len(t) > 0 => Len(t) \in 1..Len(t)
<1> QED
  BY <1>4, <1>5 DEF Single

(* unescape_hstore_text() takes back the escape characters of a text in which
   none is followed by a quote or another one. *)
LEMMA EscapesTaken ==
  ASSUME NEW w, w \in Text, Single(w)
  PROVE  unescape_hstore_text(Escaped(w)) = w
<1> DEFINE e == Escaped(w)
<1>1. e \in Text
  BY EscapeAppend, Characters DEF Escaped
<1>2. There(e, e, 0)
  BY DEF There, At
<1> HIDE DEF e
<1>3. Len(e) \in Nat
  BY <1>1, TextLength
<1>4. PICK r : Reading("unescape", e, r)
  BY <1>3, ReadingExists
<1>5. UnescapeRun(e, r) /\ r[0] = [after |-> FALSE, out |-> <<>>] /\ unescape_hstore_text(e) = r[Len(e)].out
  BY <1>3, <1>4, ReadingAt, UnescapeRead DEF UnescapeRun, First, Turn
<1> DEFINE Good(t) == There(e, Escaped(t), 0) /\ Len(Escaped(t)) <= Len(e) /\ Single(t)
                        => Unescaping(r[Len(Escaped(t))], t)
           T == {t \in Text : Good(t)}
<1>6. <<>> \in T
  <2>1. Escaped(<<>>) = <<>> /\ Len(<<>>) = 0 /\ <<>> \in Text
    BY NoneWritten, NoCharacters DEF Escaped
  <2>2. Unescaping(r[0], <<>>)
    BY <1>5 DEF Unescaping
  <2> QED
    BY <2>1, <2>2
<1>7. ASSUME NEW t, t \in Text, NEW c, c \in Character, Good(t)
      PROVE  Good(Append(t, c))
  <2> DEFINE u == Append(t, c)
  <2> SUFFICES ASSUME There(e, Escaped(u), 0), Len(Escaped(u)) <= Len(e), Single(u)
               PROVE  Unescaping(r[Len(Escaped(u))], u)
    OBVIOUS
  <2>1. EscapedLast(e, t, c, 0)
    BY ONLY <1>7, 0 \in Nat, There(e, Escaped(u), 0), EscapedThere
  <2>2. Single(t) /\ (Len(t) > 0 /\ t[Len(t)] = Escape => c \notin {Escape, Quote})
    BY <1>7, SingleShorter
  <2>3. There(e, Escaped(t), 0)
    BY <2>1 DEF EscapedLast
  <2>4. WithoutQuotes(e, 0, t)
    BY <1>7, <2>3, EscapedQuotes
  <2> HIDE DEF u
  <2>5. PICK n \in Nat : n = Len(Escaped(t)) /\ 0 + n = n
    BY <2>1 DEF EscapedLast
  <2>6. PICK z \in Nat : z = Len(e)
    BY <1>3
  <2>7. n <= z => Unescaping(r[n], t)
    BY <1>7, <2>2, <2>3, <2>5, <2>6
  <2> HIDE DEF Good
  <2>8. CASE c \notin {Quote, Escape}
    <3>1. At(e, n) = c /\ Len(Escaped(u)) = n + 1
      BY <2>1, <2>5, <2>8 DEF EscapedLast, u
    <3>2. n + 1 <= z
      BY ONLY <2>6, <3>1, Len(Escaped(u)) <= Len(e)
    <3>3. n \in 0..z - 1 /\ n <= z
      BY <3>2
    <3>4. r[n + 1] = UnescapeStep(e, r[n], n)
      BY ONLY <1>5, <2>6, <3>3 DEF UnescapeRun
    <3>5. Unescaping(UnescapeStep(e, r[n], n), Append(t, At(e, n)))
      <4>1. Unescaping(r[n], t) /\ At(e, n) # Escape
        BY <2>7, <2>8, <3>1, <3>3
      <4> QED
        BY ONLY <4>1, UnescapePlain
    <3> QED
      BY ONLY <3>1, <3>4, <3>5 DEF u
  <2>9. CASE c \in {Quote, Escape}
    <3>1. At(e, n) = Escape /\ At(e, n + 1) = c /\ Len(Escaped(u)) = n + 2
      BY <2>1, <2>5, <2>9 DEF EscapedLast, u
    <3>2. n + 2 <= z
      BY ONLY <2>6, <3>1, Len(Escaped(u)) <= Len(e)
    <3>3. n \in 0..z - 1 /\ n <= z /\ n + 1 \in 0..z - 1 /\ (n + 1) + 1 = n + 2
      BY <3>2
    <3>4. r[n + 1] = UnescapeStep(e, r[n], n) /\ r[n + 2] = UnescapeStep(e, r[n + 1], n + 1)
      BY ONLY <1>5, <2>6, <3>3 DEF UnescapeRun
    <3>5. n = 0 \/ At(e, n - 1) # Escape
      <4>1. n # 0 => Len(t) > 0 /\ At(e, n - 1) = t[Len(t)]
        <5>1. Len(t) = 0 \/ Len(t) > 0
          BY <1>7, TextLength
        <5> QED
          BY ONLY <2>4, <2>5, <5>1 DEF WithoutQuotes
      <4> QED
        BY ONLY <2>2, <2>9, <4>1
    <3>6. AfterEscape(UnescapeStep(e, r[n], n), t)
      <4>1. Unescaping(r[n], t)
        BY <2>7, <3>3
      <4> QED
        BY ONLY <3>1, <3>5, <4>1, UnescapeFirst
    <3>7. Unescaping(UnescapeStep(e, r[n + 1], n + 1), Append(t, At(e, n + 1)))
      BY ONLY <3>4, <3>6, UnescapeSecond
    <3> QED
      BY ONLY <3>1, <3>4, <3>7 DEF u
  <2> QED
    BY <2>8, <2>9 DEF u
<1>8. Text \subseteq T
  <2>1. \A t \in Text, c \in Character : t \in T => Append(t, c) \in T
    <3> HIDE DEF Good
    <3> QED
      BY <1>7, TextAppend
  <2> HIDE DEF T
  <2> QED
    BY <1>6, <2>1, TextInduction
<1>9. Good(w)
  <2> HIDE DEF Good
  <2> QED
    BY <1>8
<1>10. Unescaping(r[Len(e)], w)
  BY <1>2, <1>3, <1>9 DEF e
<1> QED
  BY <1>5, <1>10 DEF Unescaping, e

(* So no text but the word NULL is written as the word NULL. *)
LEMMA NullWordWritten ==
  ASSUME NEW w, w \in Text, Single(w), Escaped(w) = NullWord
  PROVE  w = NullWord
<1> DEFINE e == NullWord
<1>1. e \in Text /\ Len(e) = 1 /\ e[1] = "NULL"
  BY Characters DEF NullWord, Text
<1>2. PICK r : Reading("unescape", e, r)
  BY <1>1, ReadingExists
<1> HIDE DEF e
<1>3. UnescapeRun(e, r) /\ r[0] = [after |-> FALSE, out |-> <<>>] /\ unescape_hstore_text(e) = r[Len(e)].out
  <2>1. Len(e) \in Nat
    BY <1>1
  <2> QED
    BY ONLY <1>2, <2>1, ReadingAt, UnescapeRead DEF UnescapeRun, First, Turn
<1>4. r[1] = UnescapeStep(e, r[0], 0)
  BY <1>1, <1>3, 0 \in 0..1 - 1, 0 + 1 = 1 DEF UnescapeRun
<1>5. At(e, 0) = "NULL"
  BY <1>1, 0 + 1 = 1 DEF At
<1>6. "NULL" # Escape
  BY Zenon DEF Escape
<1>7. Unescaping(r[1], Append(<<>>, "NULL"))
  <2>1. Unescaping(r[0], <<>>)
    BY <1>3 DEF Unescaping
  <2>2. At(e, 0) # Escape
    BY ONLY <1>5, <1>6
  <2>3. Unescaping(UnescapeStep(e, r[0], 0), Append(<<>>, At(e, 0)))
    BY ONLY <2>1, <2>2, UnescapePlain
  <2> QED
    BY ONLY <1>4, <1>5, <2>3
<1>8. unescape_hstore_text(e) = Append(<<>>, "NULL")
  BY ONLY <1>1, <1>3, <1>7 DEF Unescaping
<1>9. unescape_hstore_text(e) = w
  BY EscapesTaken DEF e
<1> QED
  BY <1>8, <1>9 DEF NullWord

(* The states of the loop of from_text_hstore(). *)
HstoreRun(in, r) == \A i \in 0..Len(in) - 1 : r[i + 1] = HstoreStep(in, r[i], i)

InStore(s, quoted, keyStart, keyEnd, valStart, out) ==
  /\ s = [quoted |-> quoted, pair |-> [keyStart |-> keyStart, keyEnd |-> keyEnd, valStart |-> valStart], out |-> out]

BeforePair(s, out) == InStore(s, FALSE, 0, 0, 0, out)
InName(s, keyStart, out) == InStore(s, TRUE, keyStart, 0, 0, out)
AfterName(s, keyStart, keyEnd, out) == InStore(s, FALSE, keyStart, keyEnd, 0, out)
InValue(s, keyStart, keyEnd, valStart, out) == InStore(s, TRUE, keyStart, keyEnd, valStart, out)

(* The first quote of a pair opens its name. *)
LEMMA NameOpens ==
  ASSUME NEW in, NEW s, NEW out, BeforePair(s, out), NEW i, i \in Nat, QuoteAt(in, i)
  PROVE  InName(HstoreStep(in, s, i), i + 1, out)
BY DEF BeforePair, InName, InStore, HstoreStep

(* The second quote of a pair closes its name. *)
LEMMA NameCloses ==
  ASSUME NEW in, NEW s, NEW out, NEW a, InName(s, a, out), NEW i, i \in Nat, QuoteAt(in, i)
  PROVE  AfterName(HstoreStep(in, s, i), a, i - 1, out)
BY DEF AfterName, InName, InStore, HstoreStep

(* The third quote of a pair opens its value. *)
LEMMA ValueOpens ==
  ASSUME NEW in, NEW s, NEW out, NEW a, a \in Nat, a # 0, NEW b, AfterName(s, a, b, out), NEW i, i \in Nat, QuoteAt(in, i)
  PROVE  InValue(HstoreStep(in, s, i), a, b, i + 1, out)
BY DEF AfterName, InValue, InStore, HstoreStep

Put(out, key, value) == [k \in DOMAIN out \cup {key} |-> IF k = key THEN value ELSE out[k]]

(* What is read of a value. *)
ValueRead(raw) == IF raw = NullWord THEN Null ELSE unescape_hstore_text(raw)

(* The fourth quote of a pair closes its value, and the pair is added. *)
LEMMA ValueCloses ==
  ASSUME NEW in, NEW s, NEW out, NEW a, NEW b, b \in Nat, b # 0, NEW c, InValue(s, a, b, c, out),
         NEW i, i \in Nat, QuoteAt(in, i)
  PROVE  BeforePair(HstoreStep(in, s, i), Put(out, Substr(in, a, b), ValueRead(Substr(in, c, i - 1))))
<1>1. s.quoted = TRUE /\ s.pair.keyEnd = b /\ s.pair.keyStart = a /\ s.pair.valStart = c /\ s.out = out
  BY DEF InValue, InStore
<1>2. HstoreStep(in, s, i) = AddPair(in, s, i)
  BY <1>1 DEF HstoreStep
<1> QED
  BY <1>1, <1>2 DEF AddPair, BeforePair, InStore, NoPair, ValueRead, Put

(* A stretch without quotes changes nothing. *)
SameAt(r, p, q) == r[q] = r[p]

(* Where there is no quote the state of the map parser stays as it is. *)
LEMMA HstorePasses ==
  ASSUME NEW in, NEW r, HstoreRun(in, r), NEW p, p \in Nat, NEW q, q \in Nat, p <= q, q <= Len(in), Len(in) \in Nat,
         NoQuoteFrom(in, p, q)
  PROVE  SameAt(r, p, q)
<1>1. ASSUME NEW i, i \in p..q - 1 PROVE r[i + 1] = r[i]
  <2>1. i \in Nat /\ i \in 0..Len(in) - 1 /\ p <= i /\ i < q
    BY <1>1
  <2>2. r[i + 1] = HstoreStep(in, r[i], i) /\ ~QuoteAt(in, i)
    BY <2>1 DEF HstoreRun, NoQuoteFrom
  <2> QED
    BY <2>2 DEF HstoreStep
<1>2. \A i \in p..q : r[i] = r[p]
  BY <1>1, Unchanged, ZenonT(30)
<1> QED
  BY <1>2 DEF SameAt

(* From position p on is a text in quotes. *)
QuotedThere(in, w, p) ==
  /\ At(in, p) = Quote /\ There(in, Escaped(w), p + 1) /\ At(in, p + 1 + Len(Escaped(w))) = Quote
  /\ Len(Escaped(w)) \in Nat /\ Len(OrNull(w)) = Len(Escaped(w)) + 2

(* A quoted word has a quote before it, one after it, and none that ends it within. *)
LEMMA QuotesThere ==
  ASSUME NEW in, NEW w, w \in Text, NEW p, p \in Nat, There(in, OrNull(w), p)
  PROVE  QuotedThere(in, w, p)
<1> DEFINE item == OrNull(w)
           e == Escaped(w)
<1>1. /\ Len(e) \in Nat /\ Len(item) = Len(e) + 2 /\ item[1] = Quote /\ item[Len(e) + 2] = Quote
      /\ (\A j \in 1..Len(e) : item[j + 1] = e[j])
  BY OrNullType, TextAssumption DEF Encloses
<1>2. \A j \in 1..Len(item) : At(in, p + j - 1) = item[j]
  BY DEF There
<1> HIDE DEF item, e
<1>3. PICK n \in Nat : n = Len(e)
  BY <1>1
<1>4. At(in, p) = Quote
  BY <1>1, <1>2, 1 \in 1..Len(item), p + 1 - 1 = p
<1>5. At(in, p + 1 + n) = Quote
  BY <1>1, <1>2, <1>3, n + 2 \in 1..Len(item), p + (n + 2) - 1 = p + 1 + n
<1>6. There(in, e, p + 1)
  <2>1. ASSUME NEW j, j \in 1..Len(e) PROVE At(in, p + 1 + j - 1) = e[j]
    BY <1>1, <1>2, <2>1, j + 1 \in 1..Len(item), p + (j + 1) - 1 = p + 1 + j - 1
  <2> QED
    BY <2>1 DEF There
<1> QED
  BY ONLY <1>1, <1>3, <1>4, <1>5, <1>6 DEF QuotedThere, item, e

(* A name and a value that are read as they are. *)
NameFree(k) == k \in Text /\ k # <<>> /\ \A i \in 1..Len(k) : k[i] \notin {Quote, Escape}
ValueFree(v) == v \in Text /\ v # NullWord /\ Single(v) /\ (Len(v) > 0 => v[Len(v)] # Escape)

PairHere(in, p, k, v) ==
  /\ in \in Text /\ p \in Nat /\ (p = 0 \/ At(in, p - 1) # Escape)
  /\ There(in, PairText(k, v), p) /\ p + Len(PairText(k, v)) <= Len(in)

PairEnds(r, p, k, v, out) == BeforePair(r[p + Len(PairText(k, v))], Put(out, k, v))

(* A pair that the server writes is added to the map as that pair. *)
LEMMA PairRead ==
  ASSUME NEW in, NEW r, HstoreRun(in, r), NEW k, NameFree(k), NEW v, ValueFree(v),
         NEW p, PairHere(in, p, k, v), NEW out, BeforePair(r[p], out)
  PROVE  PairEnds(r, p, k, v, out)
<1>1. /\ in \in Text /\ p \in Nat /\ (p = 0 \/ At(in, p - 1) # Escape)
      /\ There(in, PairText(k, v), p) /\ p + Len(PairText(k, v)) <= Len(in)
  BY DEF PairHere
<1>2. k \in Text /\ k \in Text \cup {Null} /\ v \in Text /\ v \in Text \cup {Null}
  BY DEF NameFree, ValueFree
<1>3. Escaped(k) = k /\ Len(k) \in Nat /\ Len(k) > 0 /\ k[Len(k)] # Escape
  <2>1. Escaped(k) = k
    BY <1>2, PlainEscaped DEF NameFree
  <2>2. Len(k) \in Nat /\ Len(k) # 0
    BY <1>2, EmptySeq, TextLength DEF NameFree, Text
  <2>3. Len(k) \in 1..Len(k)
    BY <2>2
  <2> QED
    BY <2>1, <2>2, <2>3 DEF NameFree
<1>4. PICK n \in Nat, e \in Nat, z \in Nat : n = Len(k) /\ e = Len(Escaped(v)) /\ z = Len(in) /\ n > 0
  <2>1. Len(Escaped(v)) \in Nat
    <3>1. Escaped(v) \in Text
      BY <1>2, EscapeAppend, Characters DEF Escaped
    <3> QED
      BY <3>1, TextLength
  <2> QED
    BY <1>1, <1>3, <2>1, TextLength
<1>5. PairThere(in, k, v, p) /\ Len(PairText(k, v)) = Len(OrNull(k)) + 1 + Len(OrNull(v))
  BY <1>1, <1>2, PairType
<1>6. QuotedThere(in, k, p)
  BY <1>1, <1>2, <1>5, QuotesThere DEF PairThere
<1>7. Len(OrNull(k)) = n + 2
  BY ONLY <1>3, <1>4, <1>6 DEF QuotedThere
<1>8. At(in, p + (n + 2)) = Arrow /\ There(in, OrNull(v), p + (n + 2) + 1)
  BY ONLY <1>5, <1>7 DEF PairThere
<1> DEFINE a == p + 1
           b == a + n
           c == b + 1
           d == c + 1
           f == d + 1
           g == f + e
<1>9. QuotedThere(in, v, d)
  <2>1. p + (n + 2) + 1 = d /\ d \in Nat
    BY ONLY <1>1, n \in Nat
  <2> QED
    BY ONLY <1>2, <1>8, <2>1, QuotesThere
<1>10. Len(OrNull(v)) = e + 2
  BY ONLY <1>4, <1>9 DEF QuotedThere
<1>11. Len(PairText(k, v)) = n + 2 + 1 + (e + 2)
  BY ONLY <1>5, <1>7, <1>10
<1>12. /\ a \in Nat /\ b \in Nat /\ c \in Nat /\ d \in Nat /\ f \in Nat /\ g \in Nat
       /\ p + Len(PairText(k, v)) = g + 1 /\ g + 1 <= z /\ a # 0 /\ a <= b /\ f <= g
       /\ p \in 0..z - 1 /\ b \in 0..z - 1 /\ c \in 0..z - 1 /\ d \in 0..z - 1 /\ g \in 0..z - 1
       /\ b <= z /\ g <= z /\ b # 0 /\ d # 0 /\ g # 0 /\ p + (n + 2) = c
       /\ b - 1 = a + n - 1 /\ b - 1 \in Nat /\ b - 1 # 0 /\ d - 1 = c /\ g - 1 = f + e - 1
  BY ONLY <1>1, <1>4, <1>11
<1>13. /\ At(in, p) = Quote /\ There(in, k, a) /\ At(in, b) = Quote /\ At(in, c) = Arrow
       /\ At(in, d) = Quote /\ There(in, Escaped(v), f) /\ At(in, g) = Quote
  BY ONLY <1>3, <1>4, <1>6, <1>8, <1>9, <1>12 DEF QuotedThere
<1>14. NoQuoteFrom(in, a, b) /\ At(in, b - 1) # Escape
  <2>1. WithoutQuotes(in, a, k)
    <3>1. There(in, Escaped(k), a)
      BY <1>3, <1>13
    <3> HIDE DEF a
    <3> QED
      BY ONLY <1>2, <1>12, <3>1, EscapedQuotes
  <2>2. NoQuoteFrom(in, a, a + n) /\ At(in, a + n - 1) = k[Len(k)]
    BY ONLY <1>3, <1>4, <2>1 DEF WithoutQuotes
  <2> QED
    BY ONLY <1>3, <1>12, <2>2
<1>15. NoQuoteFrom(in, f, g) /\ At(in, g - 1) # Escape
  <2>1. WithoutQuotes(in, f, v)
    <3> HIDE DEF f
    <3> QED
      BY ONLY <1>2, <1>12, <1>13, EscapedQuotes
  <2>2. /\ NoQuoteFrom(in, f, f + e) /\ (Len(v) > 0 => At(in, f + e - 1) = v[Len(v)])
        /\ (Len(v) = 0 => e = 0)
    BY ONLY <1>4, <2>1 DEF WithoutQuotes
  <2>3. CASE Len(v) > 0
    <3>1. v[Len(v)] # Escape
      BY <2>3 DEF ValueFree
    <3> QED
      BY ONLY <1>12, <2>2, <2>3, <3>1
  <2>4. CASE Len(v) = 0
    <3>1. e = 0
      BY ONLY <2>2, <2>4
    <3>2. g - 1 = d
      BY ONLY <1>12, <3>1
    <3>3. At(in, g - 1) = Quote
      BY ONLY <1>13, <3>2
    <3> HIDE DEF g
    <3> QED
      BY ONLY <2>2, <3>3, <3>1, Characters DEF g
  <2> QED
    BY <1>2, <2>3, <2>4, TextLength
<1>16. Substr(in, a, b - 1) = k
  <2>1. a + Len(k) <= Len(in) /\ b - 1 = a + Len(k) - 1
    BY ONLY <1>4, <1>12
  <2> HIDE DEF a, b
  <2>2. Substr(in, a, a + Len(k) - 1) = k
    BY ONLY <1>1, <1>2, <1>12, <1>13, <2>1, SubstrEquals
  <2> QED
    BY ONLY <2>1, <2>2
<1>17. Substr(in, f, g - 1) = Escaped(v)
  <2>1. f + Len(Escaped(v)) <= Len(in) /\ g - 1 = f + Len(Escaped(v)) - 1
    BY ONLY <1>4, <1>12
  <2>2. Escaped(v) \in Text
    BY <1>2, EscapeAppend, Characters DEF Escaped
  <2> HIDE DEF f, g
  <2>3. Substr(in, f, f + Len(Escaped(v)) - 1) = Escaped(v)
    BY ONLY <1>1, <1>12, <1>13, <2>1, <2>2, SubstrEquals
  <2> QED
    BY ONLY <2>1, <2>3
<1>18. ValueRead(Escaped(v)) = v
  <2>1. Single(v) /\ v # NullWord
    BY DEF ValueFree
  <2>2. Escaped(v) # NullWord
    BY <1>2, <2>1, NullWordWritten
  <2>3. unescape_hstore_text(Escaped(v)) = v
    BY <1>2, <2>1, EscapesTaken
  <2> QED
    BY ONLY <2>2, <2>3 DEF ValueRead
<1> HIDE DEF a, b, c, d, f, g
<1>19. QuoteAt(in, p) /\ QuoteAt(in, b) /\ ~QuoteAt(in, c) /\ QuoteAt(in, d) /\ QuoteAt(in, g)
  <2>1. At(in, d - 1) # Escape
    BY ONLY <1>12, <1>13, Characters
  <2>2. Arrow # Quote
    BY Characters
  <2> QED
    BY ONLY <1>1, <1>13, <1>14, <1>15, <2>1, <2>2 DEF QuoteAt
<1>20. \A i \in 0..z - 1 : r[i + 1] = HstoreStep(in, r[i], i)
  BY <1>4 DEF HstoreRun
<1>21. r[a] = HstoreStep(in, r[p], p) /\ r[c] = HstoreStep(in, r[b], b) /\ r[d] = HstoreStep(in, r[c], c)
       /\ r[f] = HstoreStep(in, r[d], d) /\ r[g + 1] = HstoreStep(in, r[g], g)
  <2>1. a = p + 1 /\ c = b + 1 /\ d = c + 1 /\ f = d + 1
    BY DEF a, c, d, f
  <2> QED
    BY ONLY <1>12, <1>20, <2>1
<1>22. InName(r[a], a, out)
  <2>1. InName(HstoreStep(in, r[p], p), p + 1, out)
    BY ONLY <1>1, <1>19, BeforePair(r[p], out), NameOpens
  <2> QED
    BY ONLY <1>21, <2>1 DEF a
<1>23. InName(r[b], a, out)
  <2>1. SameAt(r, a, b)
    BY ONLY HstoreRun(in, r), <1>4, <1>12, <1>14, HstorePasses
  <2> QED
    BY ONLY <1>22, <2>1 DEF SameAt
<1>24. AfterName(r[c], a, b - 1, out)
  BY ONLY <1>12, <1>19, <1>21, <1>23, NameCloses
<1>25. AfterName(r[d], a, b - 1, out)
  <2>1. r[d] = r[c]
    BY ONLY <1>19, <1>21 DEF HstoreStep
  <2> QED
    BY ONLY <1>24, <2>1
<1>26. InValue(r[f], a, b - 1, f, out)
  <2>1. InValue(HstoreStep(in, r[d], d), a, b - 1, d + 1, out)
    BY ONLY <1>12, <1>19, <1>25, ValueOpens
  <2> QED
    BY ONLY <1>21, <2>1 DEF f
<1>27. InValue(r[g], a, b - 1, f, out)
  <2>1. SameAt(r, f, g)
    BY ONLY HstoreRun(in, r), <1>4, <1>12, <1>15, HstorePasses
  <2> QED
    BY ONLY <1>26, <2>1 DEF SameAt
<1>28. BeforePair(r[g + 1], Put(out, k, v))
  <2>1. BeforePair(HstoreStep(in, r[g], g), Put(out, Substr(in, a, b - 1), ValueRead(Substr(in, f, g - 1))))
    BY ONLY <1>12, <1>19, <1>27, ValueCloses
  <2> QED
    BY ONLY <1>16, <1>17, <1>18, <1>21, <2>1
<1> QED
  BY ONLY <1>12, <1>28 DEF PairEnds

(* What hstore_out() writes before a pair. *)
Separation(k) == IF k = 1 THEN <<>> ELSE <<Comma, Space>>
Gap(k) == IF k = 1 THEN 0 ELSE 2

SeparatedText(x, k, w) ==
  /\ x \in Text /\ Len(x) = Gap(k) + Len(w) /\ Len(w) \in Nat
  /\ \A j \in 1..Len(w) : x[Gap(k) + j] = w[j]
  /\ k # 1 => x[1] = Comma /\ x[2] = Space

(* A pair has a separator before it, unless it is the first. *)
LEMMA Separates ==
  ASSUME NEW w, w \in Text, NEW k
  PROVE  SeparatedText(Separation(k) \o w, k, w)
<1> DEFINE s == Separation(k)
           x == s \o w
<1>1. s \in Text /\ Len(s) = Gap(k) /\ (k # 1 => s[1] = Comma /\ s[2] = Space)
  <2>1. CASE k = 1
    BY <2>1, NoCharacters DEF Separation, Gap
  <2>2. CASE k # 1
    <3>1. s = <<Comma, Space>> /\ Gap(k) = 2
      BY <2>2 DEF Separation, Gap
    <3> HIDE DEF s
    <3>2. <<Comma, Space>> \in Seq(Character) /\ Len(<<Comma, Space>>) = 2
      BY Characters
    <3> QED
      BY <3>1, <3>2 DEF Text
  <2> QED
    BY <2>1, <2>2
<1> HIDE DEF s
<1>2. Len(w) \in Nat /\ Gap(k) \in Nat /\ (k # 1 => Gap(k) = 2)
  BY TextLength DEF Gap
<1>3. /\ x \in Seq(Character) /\ Len(x) = Len(s) + Len(w)
      /\ \A i \in 1..Len(s) + Len(w) : x[i] = IF i <= Len(s) THEN s[i] ELSE w[i - Len(s)]
  BY <1>1, ConcatProperties DEF Text
<1> HIDE DEF x
<1>4. ASSUME NEW j, j \in 1..Len(w) PROVE x[Gap(k) + j] = w[j]
  <2>1. Gap(k) + j \in 1..Len(s) + Len(w) /\ ~(Gap(k) + j <= Len(s)) /\ (Gap(k) + j) - Len(s) = j
    BY <1>1, <1>2, <1>4
  <2> QED
    BY ONLY <1>3, <2>1
<1>5. ASSUME k # 1 PROVE x[1] = Comma /\ x[2] = Space
  <2>1. Len(s) = 2 /\ 1 \in 1..Len(s) + Len(w) /\ 2 \in 1..Len(s) + Len(w) /\ 1 <= Len(s) /\ 2 <= Len(s)
    BY <1>1, <1>2, <1>5
  <2> QED
    BY ONLY <1>1, <1>3, <1>5, <2>1
<1> QED
  BY ONLY <1>1, <1>2, <1>3, <1>4, <1>5 DEF SeparatedText, x, s, Text

(* A pair as hstore_out() writes it. *)
PairPiece(k, name, value) == Separation(k) \o double_quote(name) \o <<Arrow>> \o OrNull(value)

(* The two parts the server writes a pair in are its separator and its text. *)
LEMMA PieceSeparated ==
  ASSUME NEW k, NEW v, v \in Text, NEW w, w \in Text
  PROVE  SeparatedText(PairPiece(k, v, w), k, PairText(v, w))
<1> DEFINE s == Separation(k)
           a == double_quote(v)
           b == <<Arrow>>
           c == OrNull(w)
<1>1. v # Null /\ v \in Text \cup {Null} /\ w \in Text \cup {Null}
  BY TextAssumption
<1>2. a = OrNull(v)
  BY <1>1 DEF OrNull
<1>3. a \in Text /\ c \in Text
  BY <1>1, <1>2, OrNullType
<1>4. b \in Text
  BY Characters DEF Text
<1>5. s \in Text
  <2>1. <<>> \in Text /\ <<Comma, Space>> \in Text
    BY NoCharacters, Characters DEF Text
  <2> QED
    BY <2>1 DEF Separation
<1>6. PairText(v, w) = (a \o b) \o c
  BY <1>2 DEF PairText
<1>7. PairPiece(k, v, w) = ((s \o a) \o b) \o c
  BY DEF PairPiece
<1> HIDE DEF s, a, b, c
<1>8. (s \o a) \o b = s \o (a \o b)
  BY <1>3, <1>4, <1>5, ConcatAssociative, SMTT(20) DEF Text
<1>9. a \o b \in Text
  BY <1>3, <1>4, TextConcat
<1>10. (s \o (a \o b)) \o c = s \o ((a \o b) \o c)
  <2> DEFINE d == a \o b
  <2> HIDE DEF d
  <2>1. (s \o d) \o c = s \o (d \o c)
    <3>1. s \in Seq(Character) /\ c \in Seq(Character) /\ d \in Seq(Character)
      BY <1>3, <1>5, <1>9 DEF Text, d
    <3> QED
      BY ONLY <3>1, ConcatAssociative
  <2> QED
    BY ONLY <2>1 DEF d
<1>11. PairPiece(k, v, w) = s \o PairText(v, w)
  BY ONLY <1>6, <1>7, <1>8, <1>10
<1>12. PairText(v, w) \in Text
  BY <1>1, PairType
<1>13. SeparatedText(Separation(k) \o PairText(v, w), k, PairText(v, w))
  BY <1>12, Separates
<1> QED
  BY ONLY <1>11, <1>13 DEF s

(* Where the pairs are: the k-th one, with what separates it from the one
   before, begins at position at[k - 1] and ends at position at[k]. *)
PairAt(in, m, keys, at, k) ==
  /\ at[k - 1] \in Nat /\ at[k] \in Nat /\ at[k - 1] + Gap(k) \in Nat
  /\ PairHere(in, at[k - 1] + Gap(k), keys[k], m[keys[k]])
  /\ at[k - 1] + Gap(k) + Len(PairText(keys[k], m[keys[k]])) = at[k] /\ at[k - 1] + Gap(k) <= Len(in)
  /\ NoQuoteFrom(in, at[k - 1], at[k - 1] + Gap(k))

StoreAt(in, m, keys, n, at) ==
  /\ in \in Text /\ n \in Nat /\ at[0] = 0 /\ at[n] = Len(in)
  /\ \A k \in 1..n : PairAt(in, m, keys, at, k)

(* Where each pair is in a map that the server writes. *)
LEMMA PairsPlaces ==
  ASSUME NEW m, NEW keys, keys \in Seq(Text), NEW n, n \in Nat, n = Len(keys), \A k \in 1..n : m[keys[k]] \in Text
  PROVE  \E at : StoreAt(HstoreOut(m, keys), m, keys, n, at)
<1> DEFINE s == [k \in DOMAIN keys |-> PairPiece(k, keys[k], m[keys[k]])]
           in == HstoreOut(m, keys)
           word(k) == PairText(keys[k], m[keys[k]])
<1>1. DOMAIN keys = 1..n /\ \A k \in 1..n : keys[k] \in Text
  BY LenProperties, ElementOfSeq
<1>2. ASSUME NEW k, k \in 1..n PROVE SeparatedText(s[k], k, word(k))
  <2>1. s[k] = PairPiece(k, keys[k], m[keys[k]])
    BY <1>1, <1>2
  <2>2. keys[k] \in Text /\ m[keys[k]] \in Text
    BY <1>1, <1>2
  <2> HIDE DEF s
  <2> QED
    BY ONLY <2>1, <2>2, PieceSeparated
<1>3. in = FlattenSeq(s)
  BY DEF HstoreOut, PairPiece, Separation
<1>4. s \in Seq(Seq(Character)) /\ Len(s) = n
  <2>1. \A k \in 1..n : s[k] \in Seq(Character)
    BY <1>2 DEF SeparatedText, Text
  <2>2. s = [k \in 1..n |-> s[k]]
    BY <1>1
  <2> HIDE DEF s
  <2> QED
    BY ONLY <2>1, <2>2, n \in Nat, IsASeq, LenProperties
<1> HIDE DEF s, in
<1>5. in \in Text
  BY <1>3, <1>4, FlattenType DEF Text
<1>6. PICK at : Places(s, at)
  BY <1>4, FlattenPlaces
<1>7. /\ at \in [0..n -> Nat] /\ at[0] = 0 /\ at[n] = Len(in)
      /\ \A k \in 1..n : /\ at[k] = at[k - 1] + Len(s[k]) /\ at[k] <= Len(in)
                         /\ \A j \in 1..Len(s[k]) : in[at[k - 1] + j] = s[k][j]
  BY ONLY <1>3, <1>4, <1>6 DEF Places
<1>8. ASSUME NEW k, k \in 1..n PROVE PairAt(in, m, keys, at, k)
  <2> DEFINE w == word(k)
             p == at[k - 1] + Gap(k)
  <2>1. /\ s[k] \in Text /\ Len(s[k]) = Gap(k) + Len(w) /\ Len(w) \in Nat
        /\ \A j \in 1..Len(w) : s[k][Gap(k) + j] = w[j]
        /\ k # 1 => s[k][1] = Comma /\ s[k][2] = Space
    BY <1>2, <1>8 DEF SeparatedText
  <2> HIDE DEF w
  <2>2. k - 1 \in 0..n /\ k \in 0..n /\ (k = 1 => k - 1 = 0)
    BY <1>8
  <2>3. PICK x \in Nat, y \in Nat, g \in Nat, l \in Nat, z \in Nat :
          x = at[k - 1] /\ y = at[k] /\ g = Gap(k) /\ l = Len(w) /\ z = Len(in)
    BY <1>5, <1>7, <2>1, <2>2, TextLength DEF Gap
  <2>4. g = (IF k = 1 THEN 0 ELSE 2) /\ Len(s[k]) = g + l /\ y = x + (g + l) /\ y <= z /\ (k = 1 => x = 0)
    BY <1>7, <1>8, <2>1, <2>2, <2>3 DEF Gap
  <2>5. \A j \in 1..g + l : At(in, x + j - 1) = s[k][j]
    <3>1. \A j \in 1..g + l : in[x + j] = s[k][j]
      BY ONLY <1>7, <1>8, <2>3, <2>4
    <3>2. \A j \in 1..g + l : (x + j - 1) + 1 = x + j
      OBVIOUS
    <3> QED
      BY ONLY <3>1, <3>2 DEF At
  <2>6. There(in, w, x + g)
    <3>1. ASSUME NEW j, j \in 1..l PROVE At(in, (x + g) + j - 1) = w[j]
      <4>1. g + j \in 1..g + l /\ x + (g + j) - 1 = (x + g) + j - 1
        BY <3>1
      <4> QED
        BY ONLY <2>1, <2>3, <2>5, <3>1, <4>1
    <3> QED
      BY ONLY <2>3, <3>1 DEF There
  <2>7. x + g \in Nat /\ x + g + l = y /\ x + g <= z /\ x + g + l <= z /\ (k = 1 => x + g = 0 /\ g = 0) /\ (k # 1 => g = 2)
    BY ONLY <2>4, x \in Nat, g \in Nat, l \in Nat, y \in Nat, z \in Nat
  <2>8. k # 1 => At(in, x) = Comma /\ At(in, x + 1) = Space
    <3> SUFFICES ASSUME k # 1 PROVE At(in, x) = Comma /\ At(in, x + 1) = Space
      OBVIOUS
    <3>1. 1 \in 1..g + l /\ 2 \in 1..g + l /\ x + 1 - 1 = x /\ x + 2 - 1 = x + 1
      BY <2>7
    <3> QED
      BY ONLY <2>1, <2>5, <3>1, k # 1
  <2>9. x + g = 0 \/ At(in, (x + g) - 1) # Escape
    <3>1. k # 1 => (x + g) - 1 = x + 1
      BY <2>7
    <3> QED
      BY ONLY <2>7, <2>8, <3>1, Characters
  <2>10. NoQuoteFrom(in, x, x + g)
    <3>1. ASSUME NEW i, i \in Nat, x <= i, i < x + g PROVE ~QuoteAt(in, i)
      <4>1. k # 1 /\ (i = x \/ i = x + 1)
        BY <2>7, <3>1
      <4>2. At(in, i) # Quote
        BY ONLY <2>8, <4>1, Characters
      <4> QED
        BY ONLY <4>2 DEF QuoteAt
    <3> QED
      BY ONLY <3>1 DEF NoQuoteFrom
  <2>11. PairHere(in, x + g, keys[k], m[keys[k]])
    BY ONLY <1>5, <2>3, <2>6, <2>7, <2>9 DEF PairHere, w
  <2> QED
    BY ONLY <2>3, <2>7, <2>10, <2>11 DEF PairAt, w
<1> QED
  BY ONLY <1>5, <1>7, <1>8, n \in Nat DEF StoreAt, in

(* out has the first k names, each with its value. *)
StoreUpTo(out, m, keys, k) == out = [x \in {keys[i] : i \in 1..k} |-> m[x]]

(* One more pair in the map. *)
LEMMA StoreGrows ==
  ASSUME NEW m, NEW keys, NEW k, k \in Nat, NEW out, StoreUpTo(out, m, keys, k)
  PROVE  StoreUpTo(Put(out, keys[k + 1], m[keys[k + 1]]), m, keys, k + 1)
<1> DEFINE x == keys[k + 1]
           S == {keys[i] : i \in 1..k}
           U == {keys[i] : i \in 1..k + 1}
<1>1. U = S \cup {x}
  <2>1. \A i \in 1..k + 1 : i \in 1..k \/ i = k + 1
    OBVIOUS
  <2>2. k + 1 \in 1..k + 1 /\ \A i \in 1..k : i \in 1..k + 1
    OBVIOUS
  <2> QED
    BY ONLY <2>1, <2>2
<1>2. out = [y \in S |-> m[y]]
  BY DEF StoreUpTo
<1> HIDE DEF S, U, x
<1>3. Put(out, x, m[x]) = [y \in U |-> m[y]]
  BY ONLY <1>1, <1>2 DEF Put
<1> QED
  BY ONLY <1>3 DEF StoreUpTo, U, x

(* What is read of an hstore is m. *)
StoreRead(read, m, S) == read = [x \in S |-> m[x]]

(* from_text_hstore() reads what hstore_out() writes of names and values that
   are read as they are. *)
LEMMA HstoreOutRead ==
  ASSUME NEW m, NEW S, NEW keys, Lists(keys, S), \A k \in S : NameFree(k) /\ ValueFree(m[k])
  PROVE  StoreRead(from_text_hstore(HstoreOut(m, keys)), m, S)
<1> DEFINE n == Len(keys)
           in == HstoreOut(m, keys)
<1>1. n \in Nat /\ DOMAIN keys = 1..n /\ \A k \in 1..n : keys[k] \in S
  BY LenProperties, ElementOfSeq DEF Lists
<1>2. keys \in Seq(Text) /\ \A k \in 1..n : m[keys[k]] \in Text
  <2>1. \A k \in 1..n : keys[k] \in Text /\ m[keys[k]] \in Text
    BY <1>1 DEF NameFree, ValueFree
  <2>2. keys = [k \in 1..n |-> keys[k]]
    BY <1>1 DEF Lists
  <2> HIDE DEF n
  <2> QED
    BY ONLY <1>1, <2>1, <2>2, IsASeq
<1>3. PICK at : StoreAt(in, m, keys, n, at)
  <2> HIDE DEF in
  <2> QED
    BY <1>1, <1>2, PairsPlaces DEF in
<1>4. /\ in \in Text /\ at[0] = 0 /\ at[n] = Len(in) /\ \A k \in 1..n : PairAt(in, m, keys, at, k)
  BY <1>3 DEF StoreAt
<1>5. Len(in) \in Nat
  BY <1>4, TextLength
<1>6. S = {keys[i] : i \in 1..n}
  BY <1>1 DEF Lists
<1> HIDE DEF n, in
<1>7. PICK r : Reading("hstore", in, r)
  BY <1>5, ReadingExists
<1>8. HstoreRun(in, r) /\ r[0] = HstoreBegin /\ from_text_hstore(in) = r[Len(in)].out
  BY <1>5, <1>7, ReadingAt, HstoreRead DEF HstoreRun, First, Turn
<1> DEFINE T == {k \in Nat : k <= n => \E out : BeforePair(r[at[k]], out) /\ StoreUpTo(out, m, keys, k)}
<1>9. 0 \in T
  <2>1. BeforePair(r[0], <<>>)
    BY <1>8 DEF BeforePair, InStore, HstoreBegin, NoPair
  <2>2. StoreUpTo(<<>>, m, keys, 0)
    <3>1. {keys[i] : i \in 1..0} = {}
      OBVIOUS
    <3>2. [x \in {} |-> m[x]] = <<>>
      OBVIOUS
    <3> QED
      BY ONLY <3>1, <3>2 DEF StoreUpTo
  <2> QED
    BY <1>4, <2>1, <2>2
<1>10. ASSUME NEW k, k \in Nat, k \in T PROVE k + 1 \in T
  <2> SUFFICES ASSUME k + 1 <= n
               PROVE  \E out : BeforePair(r[at[k + 1]], out) /\ StoreUpTo(out, m, keys, k + 1)
    BY <1>10
  <2>1. PICK out : BeforePair(r[at[k]], out) /\ StoreUpTo(out, m, keys, k)
    BY <1>1, <1>10
  <2> HIDE DEF T
  <2>2. k + 1 \in 1..n /\ (k + 1) - 1 = k
    BY <1>1, <1>10
  <2> DEFINE name == keys[k + 1]
             value == m[keys[k + 1]]
             p == at[k] + Gap(k + 1)
  <2>3. /\ at[k] \in Nat /\ at[k + 1] \in Nat /\ p \in Nat /\ PairHere(in, p, name, value)
        /\ p + Len(PairText(name, value)) = at[k + 1] /\ p <= Len(in) /\ NoQuoteFrom(in, at[k], p)
    <3>1. PairAt(in, m, keys, at, k + 1)
      BY <1>4, <2>2
    <3> QED
      BY ONLY <2>2, <3>1 DEF PairAt
  <2>4. NameFree(name) /\ ValueFree(value)
    BY <1>1, <2>2
  <2>5. at[k] <= p
    BY <2>3 DEF Gap
  <2> HIDE DEF name, value, p
  <2>6. SameAt(r, at[k], p)
    BY ONLY <1>5, <1>8, <2>3, <2>5, HstorePasses
  <2>7. BeforePair(r[p], out)
    BY ONLY <2>1, <2>6 DEF SameAt
  <2>8. PairEnds(r, p, name, value, out)
    BY ONLY <1>8, <2>3, <2>4, <2>7, PairRead
  <2>9. BeforePair(r[at[k + 1]], Put(out, name, value))
    BY ONLY <2>3, <2>8 DEF PairEnds
  <2>10. StoreUpTo(Put(out, name, value), m, keys, k + 1)
    BY <1>10, <2>1, StoreGrows DEF name, value
  <2> QED
    BY ONLY <2>9, <2>10
<1>11. n \in T
  <2> HIDE DEF T
  <2> QED
    BY <1>1, <1>9, <1>10, NatSetInduction
<1>12. PICK out : BeforePair(r[Len(in)], out) /\ StoreUpTo(out, m, keys, n)
  BY <1>1, <1>4, <1>11
<1>13. from_text_hstore(in) = out
  BY ONLY <1>8, <1>12 DEF BeforePair, InStore
<1> QED
  BY ONLY <1>6, <1>12, <1>13 DEF StoreUpTo, StoreRead, in

=============================================================================
