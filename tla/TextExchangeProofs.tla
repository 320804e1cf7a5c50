------------------------ MODULE TextExchangeProofs ------------------------
(***************************************************************************)
(* What the daemon and the server read is what the other side meant,       *)
(* whatever the texts, from the lemmas of TextFormatsProofs.               *)
(***************************************************************************)
EXTENDS TextExchangeProperties, TextFormatsProofs

(* What a reader makes of a notification. *)
Notified(fields) ==
  IF WellFormed(fields) /\ fields[1] = OwnClass
  THEN [notify_cmd |-> <<fields[2], fields[3]>>] ELSE [ignored |-> TRUE]

Heard(fields) ==
  IF Len(fields) < 1 THEN [crashed |-> TRUE]
  ELSE IF fields[1] # <<"cmd_queue">> THEN [ignored |-> TRUE]
  ELSE IF Len(fields) < 3 THEN [crashed |-> TRUE]
  ELSE [refresh |-> fields[3] \in {<<"INSERT">>, <<"UPDATE">>, <<"DELETE">>}]

(* The text is what the sender's code writes of the datum ... *)
Sent ==
  text # Null =>
    /\ flow = "cmd" =>
         \E keys \in SetToSeqs(DOMAIN datum.env) :
           text = [argv |-> ArrayOut(datum.argv), env |-> HstoreOut(datum.env, keys)]
    /\ flow \in {"notification", "change"} => text = RecordOut(datum)
    /\ flow = "error" => text = as_text_composite_value(datum)
    /\ flow = "session" =>
         \E keys \in SetToSeqs(DOMAIN environ_to_unordered_map(datum)) :
           text = as_text_hstore(environ_to_unordered_map(datum), keys)
    /\ flow = "list" => text = as_text_array(datum)

(* ... and what was got is what the reader's code makes of the text. *)
Read ==
  got # Null =>
    /\ text # Null
    /\ flow = "cmd" => got = Exec(NewNixQueueCmd(text))
    /\ flow = "notification" => got = Notified(from_text_composite_value(text))
    /\ flow = "change" => got = Heard(from_text_composite_value(text))

ExchangeInv ==
  /\ flow \in DOMAIN Data /\ datum \in Data[flow]
  /\ Sent
  /\ Read

(* Whoever has read a text has read what the sender wrote of the datum: every
   action of TextExchange sends once or reads once. *)
THEOREM ExchangeInvariant == Spec => []ExchangeInv
<1>1. Init => ExchangeInv
  BY DEF Init, ExchangeInv, Sent, Read
<1>2. ExchangeInv /\ [Next]_vars => ExchangeInv'
  <2> SUFFICES ASSUME ExchangeInv, [Next]_vars PROVE ExchangeInv'
    OBVIOUS
  <2>1. flow' = flow /\ datum' = datum
    BY DEF Next, vars, SelectCmd, RunCmd, NotifyRunner, TakeNotify, NotifyManager, TakeChange,
           UpdateCmd, StartSession, SelectQueues, Sends, Reads
  <2>2. ASSUME NEW f, Sends(f) PROVE Read' /\ text = Null /\ flow = f
    BY <2>2 DEF Sends, Read, ExchangeInv
  <2>3. ASSUME NEW f, Reads(f) PROVE Sent' /\ text' = text /\ text # Null /\ flow = f
    BY <2>3, Zenon DEF Reads, Sent, ExchangeInv
  <2>4. CASE SelectCmd
    <3>1. Sent'
      BY <2>1, <2>2, <2>4 DEF SelectCmd, Sent
    <3> QED
      BY <2>1, <2>2, <2>4, <3>1 DEF SelectCmd, ExchangeInv
  <2>5. CASE RunCmd
    <3>1. Read'
      BY <2>1, <2>3, <2>5 DEF RunCmd, Read
    <3> QED
      BY <2>1, <2>3, <2>5, <3>1 DEF RunCmd, ExchangeInv
  <2>6. CASE NotifyRunner
    <3>1. Sent'
      BY <2>1, <2>2, <2>6 DEF NotifyRunner, Sent
    <3> QED
      BY <2>1, <2>2, <2>6, <3>1 DEF NotifyRunner, ExchangeInv
  <2>7. CASE TakeNotify
    <3>1. Read'
      BY <2>1, <2>3, <2>7 DEF TakeNotify, Read, Notified
    <3> QED
      BY <2>1, <2>3, <2>7, <3>1 DEF TakeNotify, ExchangeInv
  <2>8. CASE NotifyManager
    <3>1. Sent'
      BY <2>1, <2>2, <2>8 DEF NotifyManager, Sent
    <3> QED
      BY <2>1, <2>2, <2>8, <3>1 DEF NotifyManager, ExchangeInv
  <2>9. CASE TakeChange
    <3>1. Read'
      BY <2>1, <2>3, <2>9 DEF TakeChange, Read, Heard
    <3> QED
      BY <2>1, <2>3, <2>9, <3>1 DEF TakeChange, ExchangeInv
  <2>10. CASE UpdateCmd
    <3>1. Sent'
      BY <2>1, <2>2, <2>10 DEF UpdateCmd, Sent
    <3> QED
      BY <2>1, <2>2, <2>10, <3>1 DEF UpdateCmd, ExchangeInv
  <2>11. CASE StartSession
    <3>1. Sent'
      BY <2>1, <2>2, <2>11 DEF StartSession, Sent
    <3> QED
      BY <2>1, <2>2, <2>11, <3>1 DEF StartSession, ExchangeInv
  <2>12. CASE SelectQueues
    <3>1. Sent'
      BY <2>1, <2>2, <2>12 DEF SelectQueues, Sent
    <3> QED
      BY <2>1, <2>2, <2>12, <3>1 DEF SelectQueues, ExchangeInv
  <2>13. CASE UNCHANGED vars
    BY <2>13 DEF vars, ExchangeInv, Sent, Read
  <2> QED
    BY <2>4, <2>5, <2>6, <2>7, <2>8, <2>9, <2>10, <2>11, <2>12, <2>13 DEF Next
<1> QED
  BY <1>1, <1>2, PTL DEF Spec

----------------------------------------------------------------------------
(* An argument without an escape character is read as it was queued. *)
LEMMA FreeOfEscapes ==
  ASSUME NEW w \in Text, Free(w, {Escape})
  PROVE  NoEscape(w)
BY TextLength DEF Free, NoEscape, ToSet

(* A program gets the arguments that were queued, whatever commas, quotes,
   braces and empty ones are among them, unless one has an escape character or
   is NULL: from_text_array() and the child of run_cmd(). *)
THEOREM ArgumentsArrive == Spec => []ArgvAsQueued
<1>1. ExchangeInv => ArgvAsQueued
  <2> SUFFICES ASSUME ExchangeInv, flow = "cmd", got # Null,
                      \A n \in DOMAIN datum.argv : datum.argv[n] # Null /\ Free(datum.argv[n], {Escape})
               PROVE  got.argv = datum.argv
    BY DEF ArgvAsQueued
  <2> DEFINE m == datum.argv
  <2>1. m \in Seq(Text \cup {Null})
    <3>1. datum \in Data["cmd"]
      BY DEF ExchangeInv
    <3>2. datum.argv \in Argvs \cup {<<Path.name>>}
      BY <3>1 DEF Data
    <3>3. <<Path.name>> \in Seq(Text \cup {Null})
      BY ExchangeAssumption
    <3> QED
      BY <3>2, <3>3, ExchangeAssumption
  <2>2. got = Exec(NewNixQueueCmd(text)) /\ text.argv = ArrayOut(m)
    BY DEF ExchangeInv, Sent, Read
  <2>3. got.argv = from_text_array(ArrayOut(m))
    BY <2>2 DEF Exec, NewNixQueueCmd
  <2> HIDE DEF m
  <2>4. DOMAIN m = 1..Len(m) /\ Len(m) \in Nat /\ \A k \in 1..Len(m) : m[k] \in Text \cup {Null}
    BY <2>1, ElementOfSeq, LenProperties
  <2>5. \A k \in 1..Len(m) : m[k] \in Text /\ NoEscape(m[k])
    BY <2>4, FreeOfEscapes DEF m
  <2>6. m \in Seq(Text)
    BY <2>1, <2>4, <2>5, IsASeq
  <2>7. from_text_array(ArrayOut(m)) = m
    BY <2>5, <2>6, ArrayOutRead
  <2> QED
    BY <2>3, <2>7 DEF m
<1> QED
  BY <1>1, ExchangeInvariant, PTL

----------------------------------------------------------------------------
(* The name of a queue, without escape characters, or with a first quote and
   another one after it. *)
LEMMA IdentityQuotes ==
  ASSUME NEW c, c \in Text, Identity(c)
  PROVE  \/ NoQuote(c)
         \/ \E a \in 1..Len(c) : /\ FirstQuote(c, a) /\ \E b \in a + 1..Len(c) : c[b] = Quote
                                 /\ SubSeq(c, 1, a - 1) # OwnClass /\ SubSeq(c, 1, a - 1) \in Text
<1>1. DOMAIN c = 1..Len(c) /\ Len(c) \in Nat
  BY TextLength DEF Text
<1>2. CASE ToSet(c) \cap {Quote, Escape} = {}
  BY <1>1, <1>2 DEF ToSet, NoQuote
<1>3. CASE \E a, b \in DOMAIN c :
             /\ a < b /\ c[a] = Quote /\ c[b] = Quote
             /\ \A j \in 1..a - 1 : c[j] \notin {Quote, Escape}
             /\ SubSeq(c, 1, a - 1) # OwnClass
  <2>1. PICK a \in 1..Len(c), b \in 1..Len(c) :
             /\ a < b /\ c[a] = Quote /\ c[b] = Quote
             /\ \A j \in 1..a - 1 : c[j] \notin {Quote, Escape}
             /\ SubSeq(c, 1, a - 1) # OwnClass
    BY <1>1, <1>3
  <2>2. b \in a + 1..Len(c) /\ FirstQuote(c, a)
    BY <1>1, <2>1 DEF FirstQuote
  <2>3. SubSeq(c, 1, a - 1) \in Text
    BY <1>1, SubSeqProperties DEF Text
  <2> QED
    BY <2>1, <2>2, <2>3
<1> QED
  BY <1>2, <1>3 DEF Identity

(* The words of a change need no quotes. *)
LEMMA ChangeWords ==
  ASSUME NEW w, w \in {"cmd_queue", "INSERT", "UPDATE", "DELETE"}
  PROVE  <<w>> \in Text /\ Unquoted(<<w>>)
<1>1. w \in Character
  BY ExchangeAssumption
<1>2. w \notin {Comma, Quote, Escape, Space, LeftParenthesis, RightParenthesis}
  BY Zenon DEF Comma, Quote, Escape, Space, LeftParenthesis, RightParenthesis
<1>3. <<w>> \in Text /\ <<w>> # <<>> /\ ToSet(<<w>>) = {w}
  BY <1>1 DEF Text, ToSet
<1> QED
  BY <1>2, <1>3 DEF Unquoted, Delimiters

(* What the manager reads of a change of the queue c. *)
LEMMA ChangeRead ==
  ASSUME NEW c, c \in Text, Identity(c), NEW op, op \in {"INSERT", "UPDATE", "DELETE"},
         NEW in, in = RecordOut(<<<<"cmd_queue">>, c, <<op>>>>),
         NEW fields, fields = from_text_composite_value(in)
  PROVE  /\ Len(fields) >= 3 /\ fields[1] = <<"cmd_queue">>
         /\ ~Contains(in, Quote) => fields = <<<<"cmd_queue">>, c, <<op>>>>
<1> DEFINE table == <<"cmd_queue">>
           word == <<op>>
<1>1. table \in Text /\ Unquoted(table) /\ word \in Text /\ Unquoted(word)
  BY ChangeWords
<1>2. in = RecordOut(<<table, c, word>>)
  OBVIOUS
<1> SUFFICES /\ Len(fields) >= 3 /\ fields[1] = table
             /\ ~Contains(in, Quote) => fields = <<table, c, word>>
  OBVIOUS
<1> HIDE DEF table, word
<1>3. table \in Text \cup {Null} /\ c \in Text \cup {Null} /\ word \in Text \cup {Null}
  BY <1>1
<1>4. PICK l, m, r : /\ RecordOfThree(in, table, c, word, l, m, r)
                     /\ fields = r[Len(in)].out
  BY ONLY fields = from_text_composite_value(in), <1>2, <1>3, RecordWritten
<1>5. in \in Text /\ RecordRun(in, r) /\ l \in Nat
  BY <1>4 DEF RecordOfThree
<1>6. fields[1] = table /\ fields \in Fields /\ Len(fields) \in Nat
  <2>1. InRecord(r[l], FALSE, l, <<table>>)
    BY ONLY <1>1, <1>3, <1>4, FirstFieldRead
  <2>2. ThreePlaces(in, table, c, word, l, m)
    BY ONLY <1>3, <1>4, ThreePositions
  <2>3. l <= Len(in) /\ r[l] \in RecordState /\ r[l].out = <<table>>
    BY <2>1, <2>2 DEF InRecord, ThreePlaces
  <2>4. Keeps(fields, <<table>>)
    BY <1>4, <1>5, <2>3, RecordRunKeeps
  <2> QED
    BY <2>4, LenProperties DEF Keeps, Fields
<1>7. ~Contains(in, Quote) => Unquoted(c)
  BY ONLY <1>3, <1>4, QuoteInRecord
<1>8. CASE Unquoted(c) \/ NoQuote(c)
  <2>1. Unquoted(c) \/ NoEscape(c)
    BY <1>8 DEF NoQuote, NoEscape
  <2>2. /\ Unquoted(c) => fields = <<table, c, word>>
        /\ ~Unquoted(c) => Len(fields) >= 4
    BY ONLY <1>1, <1>3, <1>4, <2>1, ThreeFieldsRead
  <2>3. Len(<<table, c, word>>) = 3
    OBVIOUS
  <2> QED
    BY ONLY <1>6, <1>7, <2>2, <2>3
<1>9. CASE ~Unquoted(c) /\ ~NoQuote(c)
  <2>1. QuotedStart(in, r, c, <<table>>)
    BY ONLY c \in Text, <1>1, <1>3, <1>4, <1>9, SecondFieldInQuotes
  <2>2. PICK a \in 1..Len(c) : FirstQuote(c, a) /\ \E b \in a + 1..Len(c) : c[b] = Quote
    BY <1>9, IdentityQuotes
  <2>3. PICK z \in Nat : z <= Len(in) /\ r[z] \in RecordState /\ Len(r[z].out) >= Len(<<table>>) + 2
    BY <2>1, <2>2 DEF QuotedStart
  <2>4. Keeps(fields, r[z].out)
    BY <1>4, <1>5, <2>3, RecordRunKeeps
  <2>5. Len(<<table>>) = 1 /\ Len(r[z].out) \in Nat
    BY <2>3, LenProperties DEF RecordState, Fields
  <2>6. Len(fields) >= 3
    BY ONLY <1>6, <2>3, <2>4, <2>5 DEF Keeps
  <2> QED
    BY ONLY <1>6, <1>7, <1>9, <2>6
<1> QED
  BY <1>8, <1>9

(* The manager reads its list again after a change of any queue whose name
   needs no quotes, and no notification makes it throw: the trigger
   cmd_queue__notify_daemon_of_changes(), from_text_composite_value() and
   TakeChange. *)
THEOREM ChangesAreHeard == Spec => []ChangeIsHeard
<1>1. ExchangeInv => ChangeIsHeard
  <2> SUFFICES ASSUME ExchangeInv, flow = "change", got # Null
               PROVE  /\ got # [crashed |-> TRUE]
                      /\ ~Contains(text, Quote) => got = [refresh |-> TRUE]
    BY DEF ChangeIsHeard
  <2>1. PICK c \in Classes, op \in {"INSERT", "UPDATE", "DELETE"} : datum = <<<<"cmd_queue">>, c, <<op>>>>
    BY DEF ExchangeInv, Data
  <2>2. text = RecordOut(datum) /\ got = Heard(from_text_composite_value(text))
    BY DEF ExchangeInv, Sent, Read
  <2> DEFINE fields == from_text_composite_value(text)
  <2>3. c \in Text /\ Identity(c)
    BY ExchangeAssumption
  <2>4. /\ Len(fields) >= 3 /\ fields[1] = <<"cmd_queue">>
        /\ ~Contains(text, Quote) => fields = <<<<"cmd_queue">>, c, <<op>>>>
    BY ONLY op \in {"INSERT", "UPDATE", "DELETE"}, <2>1, <2>2, <2>3, ChangeRead
  <2>5. got = Heard(fields)
    BY <2>2
  <2> HIDE DEF fields
  <2>6. Len(fields) \in Nat /\ fields[1] = <<"cmd_queue">> /\ ~(Len(fields) < 1) /\ ~(Len(fields) < 3)
    BY <2>4
  <2>7. got = [refresh |-> fields[3] \in {<<"INSERT">>, <<"UPDATE">>, <<"DELETE">>}]
    BY <2>5, <2>6 DEF Heard
  <2>8. got # [crashed |-> TRUE]
    BY <2>7
  <2>9. ASSUME ~Contains(text, Quote) PROVE got = [refresh |-> TRUE]
    <3>1. fields[3] = <<op>>
      BY <2>4, <2>9
    <3>2. fields[3] \in {<<"INSERT">>, <<"UPDATE">>, <<"DELETE">>}
      BY <3>1
    <3> QED
      BY <2>7, <3>2
  <2> QED
    BY <2>8, <2>9
<1> QED
  BY <1>1, ExchangeInvariant, PTL

----------------------------------------------------------------------------
(* What is read of the first field of a notification: it, when it has no quotes
   around it, or what ReadFirst says. *)
LEMMA NotificationFirst ==
  ASSUME NEW c, c \in Text, Identity(c), c # OwnClass,
         NEW id, id \in Text, NEW subid, subid \in Text \cup {Null},
         NEW in, NEW l, NEW m, NEW r, RecordOfThree(in, c, id, subid, l, m, r)
  PROVE  /\ r[Len(in)].out \in Fields /\ Len(r[Len(in)].out) >= 1
         /\ r[Len(in)].out[1] # OwnClass
<1> DEFINE fields == r[Len(in)].out
<1>1. in \in Text /\ RecordRun(in, r) /\ l \in Nat
  BY DEF RecordOfThree
<1>2. id \in Text \cup {Null} /\ c # Null /\ OwnClass # Null
  BY TextAssumption, ExchangeAssumption
<1>3. CASE Unquoted(c)
  <2>1. InRecord(r[l], FALSE, l, <<c>>)
    BY ONLY c \in Text, <1>2, <1>3, subid \in Text \cup {Null}, RecordOfThree(in, c, id, subid, l, m, r),
            FirstFieldRead
  <2>2. c \in Text \cup {Null}
    OBVIOUS
  <2>3. ThreePlaces(in, c, id, subid, l, m)
    BY ONLY <1>2, <2>2, subid \in Text \cup {Null}, RecordOfThree(in, c, id, subid, l, m, r), ThreePositions
  <2>4. l <= Len(in) /\ r[l] \in RecordState /\ r[l].out = <<c>>
    BY <2>1, <2>3 DEF InRecord, ThreePlaces
  <2>5. Keeps(fields, <<c>>)
    BY <1>1, <2>4, RecordRunKeeps
  <2> QED
    BY <2>5 DEF Keeps
<1>4. ASSUME NEW v, v \in Text, v # OwnClass, ReadFirst(in, r, <<>>, v)
      PROVE  fields \in Fields /\ Len(fields) >= 1 /\ fields[1] # OwnClass
  BY <1>1, <1>2, <1>4, ReadFirstStays
<1>5. CASE ~Unquoted(c)
  <2>1. QuotedStart(in, r, c, <<>>)
    BY ONLY c \in Text, <1>2, <1>5, subid \in Text \cup {Null}, RecordOfThree(in, c, id, subid, l, m, r),
            FirstFieldInQuotes
  <2>2. CASE NoQuote(c)
    <3>1. ReadFirst(in, r, <<>>, c)
      BY <2>1, <2>2 DEF QuotedStart
    <3> QED
      BY <1>4, <3>1
  <2>3. CASE ~NoQuote(c)
    <3>1. PICK a \in 1..Len(c) : FirstQuote(c, a) /\ SubSeq(c, 1, a - 1) # OwnClass /\ SubSeq(c, 1, a - 1) \in Text
      BY <2>3, IdentityQuotes
    <3>2. ReadFirst(in, r, <<>>, SubSeq(c, 1, a - 1))
      BY <2>1, <3>1 DEF QuotedStart
    <3> QED
      BY <1>4, <3>1, <3>2
  <2> QED
    BY <2>2, <2>3
<1> QED
  BY <1>3, <1>5

(* What a runner reads of a notification. *)
LEMMA NotificationRead ==
  ASSUME NEW c, c \in Text, Identity(c), NEW id, id \in Text, NEW subid, subid \in Text \cup {Null},
         NEW in, in = RecordOut(<<c, id, subid>>),
         NEW fields, fields = from_text_composite_value(in)
  PROVE  /\ NoEscape(c) /\ NoEscape(id) /\ (subid = Null \/ NoEscape(subid)) =>
              fields = <<c, id, subid>> \/ Len(fields) # 3
         /\ ~Contains(in, Quote) => fields = <<c, id, subid>>
         /\ c # OwnClass => fields[1] # OwnClass
<1>1. c \in Text \cup {Null} /\ id \in Text \cup {Null} /\ Unquoted(Null)
  BY DEF Unquoted
<1>2. PICK l, m, r : RecordOfThree(in, c, id, subid, l, m, r) /\ fields = r[Len(in)].out
  BY ONLY subid \in Text \cup {Null}, in = RecordOut(<<c, id, subid>>),
          fields = from_text_composite_value(in), <1>1, RecordWritten
<1>3. ~Contains(in, Quote) => Unquoted(c) /\ Unquoted(id) /\ Unquoted(subid)
  BY ONLY subid \in Text \cup {Null}, <1>1, <1>2, QuoteInRecord
<1>4. ASSUME Unquoted(c) \/ NoEscape(c), Unquoted(id) \/ NoEscape(id), Unquoted(subid) \/ NoEscape(subid)
      PROVE  /\ Unquoted(c) /\ Unquoted(id) /\ Unquoted(subid) => fields = <<c, id, subid>>
             /\ ~(Unquoted(c) /\ Unquoted(id) /\ Unquoted(subid)) => Len(fields) >= 4
  BY ONLY c \in Text, subid \in Text \cup {Null}, <1>1, <1>2, <1>4, ThreeFieldsRead
<1>5. ~Contains(in, Quote) => fields = <<c, id, subid>>
  BY ONLY <1>3, <1>4
<1>6. ASSUME NoEscape(c), NoEscape(id), subid = Null \/ NoEscape(subid)
      PROVE  fields = <<c, id, subid>> \/ Len(fields) # 3
  <2>1. Unquoted(subid) \/ NoEscape(subid)
    BY <1>1, <1>6
  <2>2. fields = <<c, id, subid>> \/ Len(fields) >= 4
    BY ONLY <1>4, <1>6, <2>1
  <2>3. ~(3 >= 4)
    OBVIOUS
  <2> QED
    BY ONLY <2>2, <2>3, Zenon
<1>7. c # OwnClass => fields[1] # OwnClass
  BY <1>2, NotificationFirst
<1> QED
  BY ONLY <1>5, <1>6, <1>7

(* A notification never sends the runner for another command than the one it
   names, unless names hold escape characters: a payload that is misread,
   because one of its fields is in quotes, is ignored and not acted on.  And
   one without quotes is acted on, and none for another queue is: the trigger
   queue_cmd__notify(), from_text_composite_value() and the checks of _run(). *)
THEOREM NotifiedCommandsAreMeant == Spec => []NotifiedCmdIsMeant
<1>1. ExchangeInv => NotifiedCmdIsMeant
  <2> SUFFICES ASSUME ExchangeInv, flow = "notification", got # Null
               PROVE  /\ (\A n \in 1..3 : datum[n] = Null \/ Free(datum[n], {Escape}))
                           => got \in {[ignored |-> TRUE], [notify_cmd |-> <<datum[2], datum[3]>>]}
                      /\ datum[1] = OwnClass /\ ~Contains(text, Quote) => got # [ignored |-> TRUE]
                      /\ datum[1] # OwnClass => got = [ignored |-> TRUE]
    BY DEF NotifiedCmdIsMeant
  <2>1. PICK c \in Classes, i \in CmdIds : datum = <<c, i[1], i[2]>>
    BY DEF ExchangeInv, Data
  <2>2. text = RecordOut(datum) /\ got = Notified(from_text_composite_value(text))
    BY DEF ExchangeInv, Sent, Read
  <2>3. PICK id, subid : id = i[1] /\ subid = i[2]
    OBVIOUS
  <2>4. /\ c \in Text /\ Identity(c) /\ id \in Text /\ subid \in Text \cup {Null}
        /\ c # Null /\ id # Null
    BY <2>3, ExchangeAssumption, TextAssumption
  <2>5. datum = <<c, id, subid>> /\ datum[1] = c /\ datum[2] = id /\ datum[3] = subid
    BY <2>1, <2>3
  <2>6. PICK fields : fields = from_text_composite_value(text)
    OBVIOUS
  <2>7. text = RecordOut(<<c, id, subid>>)
    BY ONLY <2>2, <2>5
  <2>8. /\ NoEscape(c) /\ NoEscape(id) /\ (subid = Null \/ NoEscape(subid)) =>
             fields = <<c, id, subid>> \/ Len(fields) # 3
        /\ ~Contains(text, Quote) => fields = <<c, id, subid>>
        /\ c # OwnClass => fields[1] # OwnClass
    BY ONLY <2>4, <2>6, <2>7, NotificationRead
  <2>9. got = Notified(fields)
    BY <2>2, <2>6
  <2>10. ASSUME fields = <<c, id, subid>>
         PROVE  got = IF c = OwnClass THEN [notify_cmd |-> <<id, subid>>] ELSE [ignored |-> TRUE]
    <3>1. Len(fields) = 3 /\ fields[1] = c /\ fields[2] = id /\ fields[3] = subid
      BY <2>10
    <3> QED
      BY <2>4, <2>9, <3>1 DEF Notified, WellFormed
  <2>11. ~WellFormed(fields) \/ fields[1] # OwnClass => got = [ignored |-> TRUE]
    BY <2>9 DEF Notified
  <2>12. ASSUME \A n \in 1..3 : datum[n] = Null \/ Free(datum[n], {Escape})
         PROVE  got \in {[ignored |-> TRUE], [notify_cmd |-> <<datum[2], datum[3]>>]}
    <3>1. NoEscape(c) /\ NoEscape(id) /\ (subid = Null \/ NoEscape(subid))
      BY <2>4, <2>5, <2>12, 1 \in 1..3, 2 \in 1..3, 3 \in 1..3, FreeOfEscapes
    <3>2. CASE fields = <<c, id, subid>>
      BY <2>5, <2>10, <3>2
    <3>3. CASE Len(fields) # 3
      BY <2>11, <3>3 DEF WellFormed
    <3> QED
      BY <2>8, <3>1, <3>2, <3>3
  <2>13. ASSUME datum[1] = OwnClass, ~Contains(text, Quote) PROVE got # [ignored |-> TRUE]
    <3>1. got = [notify_cmd |-> <<id, subid>>]
      BY <2>5, <2>8, <2>10, <2>13
    <3> QED
      BY <3>1
  <2>14. ASSUME datum[1] # OwnClass PROVE got = [ignored |-> TRUE]
    BY <2>5, <2>8, <2>11, <2>14
  <2> QED
    BY <2>12, <2>13, <2>14
<1> QED
  BY <1>1, ExchangeInvariant, PTL
----------------------------------------------------------------------------
(* The environment of the daemon, entry by entry. *)
Entries == {e \in Text : \E n \in DOMAIN e : e[n] = EqualSign}

(* A set of numbers up to n has a greatest and a least one. *)
LEMMA Greatest ==
  ASSUME NEW n \in Nat, NEW A, A \subseteq 1..n, A # {}
  PROVE  Max(A) \in A
<1> DEFINE T == {k \in Nat : \A B \in SUBSET (1..k) : B # {} => \E x \in B : \A y \in B : x >= y}
<1>1. 0 \in T
  <2>1. \A B \in SUBSET (1..0) : B = {}
    OBVIOUS
  <2> QED
    BY <2>1
<1>2. ASSUME NEW k \in Nat, k \in T PROVE k + 1 \in T
  <2> SUFFICES ASSUME NEW B \in SUBSET (1..k + 1), B # {} PROVE \E x \in B : \A y \in B : x >= y
    OBVIOUS
  <2>1. CASE k + 1 \in B
    BY <2>1
  <2>2. CASE k + 1 \notin B
    <3>1. B \in SUBSET (1..k)
      BY <2>2
    <3> QED
      BY <1>2, <3>1
  <2> QED
    BY <2>1, <2>2
<1>3. n \in T
  <2> HIDE DEF T
  <2> QED
    BY <1>1, <1>2, NatSetInduction
<1>4. \E x \in A : \A y \in A : x >= y
  BY <1>3
<1> QED
  BY <1>4 DEF Max

(* A set that some number up to n is in has a first such number. *)
LEMMA Earliest ==
  ASSUME NEW n \in Nat, NEW A, n \in A
  PROVE  \E x \in 0..n : x \in A /\ \A y \in 0..x - 1 : y \notin A
<1> DEFINE T == {k \in Nat : \A j \in 0..k : j \in A => \E x \in 0..j : x \in A /\ \A y \in 0..x - 1 : y \notin A}
<1>1. 0 \in T
  OBVIOUS
<1>2. ASSUME NEW k \in Nat, k \in T PROVE k + 1 \in T
  <2> SUFFICES ASSUME NEW j \in 0..k + 1, j \in A PROVE \E x \in 0..j : x \in A /\ \A y \in 0..x - 1 : y \notin A
    OBVIOUS
  <2>1. CASE j \in 0..k
    BY <1>2, <2>1
  <2>2. CASE j = k + 1 /\ \E i \in 0..k : i \in A
    <3>1. PICK i \in 0..k : i \in A
      BY <2>2
    <3>2. PICK x \in 0..i : x \in A /\ \A y \in 0..x - 1 : y \notin A
      BY <1>2, <3>1
    <3>3. x \in 0..j
      BY <2>2, <3>1
    <3> QED
      BY <3>2, <3>3
  <2>3. CASE j = k + 1 /\ \A i \in 0..k : i \notin A
    <3>1. j \in 0..j /\ \A y \in 0..j - 1 : y \notin A
      BY <2>3
    <3> QED
      BY <3>1
  <2> QED
    BY <2>1, <2>2, <2>3
<1>3. n \in T
  <2> HIDE DEF T
  <2> QED
    BY <1>1, <1>2, NatSetInduction
<1> QED
  BY <1>3

(* strchr() finds the first equal sign of an entry. *)
SplitAt(e, f) == f \in 1..Len(e) /\ e[f] = EqualSign /\ \A j \in 1..f - 1 : e[j] # EqualSign

(* An entry of the environment is split at its first equal sign. *)
LEMMA EqualSignFound ==
  ASSUME NEW e, e \in Entries
  PROVE  SplitAt(e, FirstEqualSign(e))
<1> DEFINE A == {n \in 1..Len(e) : e[n] = EqualSign}
<1>1. e \in Text /\ Len(e) \in Nat /\ DOMAIN e = 1..Len(e)
  BY TextLength DEF Entries
<1>2. PICK n \in 1..Len(e) : n \in A
  BY <1>1 DEF Entries
<1>3. PICK x \in 0..n : x \in A /\ \A y \in 0..x - 1 : y \notin A
  <2>1. n \in Nat
    BY <1>1, <1>2
  <2> HIDE DEF A
  <2> QED
    BY ONLY <1>2, <2>1, Earliest
<1>4. x \in DOMAIN e /\ e[x] = EqualSign /\ \A j \in 1..x - 1 : e[j] # EqualSign
  BY <1>1, <1>3
<1>5. /\ FirstEqualSign(e) \in DOMAIN e /\ e[FirstEqualSign(e)] = EqualSign
      /\ \A j \in 1..FirstEqualSign(e) - 1 : e[j] # EqualSign
  BY <1>4 DEF FirstEqualSign
<1> QED
  BY <1>1, <1>5 DEF SplitAt

(* Up to there it is a name. *)
NameUpTo(k, e, f) == k \in Text /\ Len(k) = f - 1 /\ \A i \in 1..f - 1 : k[i] = e[i]

(* The name in an entry is what is before its first equal sign. *)
LEMMA NameFound ==
  ASSUME NEW e, e \in Entries
  PROVE  NameUpTo(NameIn(e), e, FirstEqualSign(e))
<1> DEFINE f == FirstEqualSign(e)
           k == NameIn(e)
<1>1. e \in Text /\ Len(e) \in Nat /\ \A i \in 1..Len(e) : e[i] \in Character
  BY TextLength DEF Entries
<1>2. f \in 1..Len(e)
  BY EqualSignFound DEF SplitAt
<1>3. k = SubSeq(e, 1, f - 1)
  BY DEF NameIn
<1> HIDE DEF f, k
<1>4. f \in Nat /\ f >= 1 /\ f <= Len(e)
  BY <1>1, <1>2
<1>5. \A i \in 1..f - 1 : e[i] \in Character /\ 1 + i - 1 = i
  BY <1>1, <1>4
<1>6. (f - 1) - 1 + 1 = f - 1 /\ (1 <= f - 1 \/ f - 1 = 0)
  BY <1>4
<1>7. k \in Text /\ Len(k) = f - 1 /\ \A i \in 1..f - 1 : k[i] = e[i]
  BY <1>3, <1>4, <1>5, <1>6, SubSeqProperties DEF Text
<1> QED
  BY <1>7 DEF NameUpTo, f, k

(* An entry is a name without "=", and a value after its first "=". *)
IsSplit(e, k, v) ==
  /\ k \in Text /\ v \in Text /\ Free(k, {EqualSign})
  /\ e = k \o <<EqualSign>> \o v

(* An entry is its name, an equal sign and its value, and the name has no equal sign. *)
LEMMA EntrySplit ==
  ASSUME NEW e, e \in Entries
  PROVE  IsSplit(e, NameIn(e), ValueIn(e))
<1> DEFINE f == FirstEqualSign(e)
           k == NameIn(e)
           v == ValueIn(e)
<1>1. e \in Text /\ Len(e) \in Nat /\ \A i \in 1..Len(e) : e[i] \in Character
  BY TextLength DEF Entries
<1>2. f \in 1..Len(e) /\ e[f] = EqualSign /\ \A j \in 1..f - 1 : e[j] # EqualSign
  BY EqualSignFound DEF SplitAt
<1>3. k = SubSeq(e, 1, f - 1) /\ v = SubSeq(e, f + 1, Len(e))
  BY DEF NameIn, ValueIn
<1> HIDE DEF f, k, v
<1>4. f \in Nat /\ f >= 1 /\ f <= Len(e)
  BY <1>1, <1>2
<1>5. k \in Text /\ Len(k) = f - 1 /\ \A i \in 1..f - 1 : k[i] = e[i]
  BY NameFound DEF NameUpTo, k, f
<1>6. v \in Text /\ Len(v) = Len(e) - f /\ \A i \in 1..Len(e) - f : v[i] = e[f + i]
  <2>1. /\ \A i \in f + 1..Len(e) : e[i] \in Character
        /\ \A i \in 1..Len(e) - f : f + 1 + i - 1 = f + i
    BY <1>1, <1>4
  <2>2. Len(e) - (f + 1) + 1 = Len(e) - f /\ (f + 1 <= Len(e) \/ Len(e) - f = 0)
    BY <1>1, <1>4
  <2>3. PICK l \in Nat, g \in Nat : l = Len(e) /\ g = f + 1
    BY <1>1, <1>4
  <2>4. /\ SubSeq(e, g, l) \in Seq(Character) /\ Len(SubSeq(e, g, l)) = IF g <= l THEN l - g + 1 ELSE 0
        /\ \A i \in 1..l - g + 1 : SubSeq(e, g, l)[i] = e[g + i - 1]
    <3>1. \A i \in g..l : e[i] \in Character
      BY <2>1, <2>3
    <3> QED
      BY ONLY <3>1, g \in Int, l \in Int, SubSeqProperties
  <2>5. /\ v \in Seq(Character) /\ Len(v) = IF g <= l THEN l - g + 1 ELSE 0
        /\ \A i \in 1..l - g + 1 : v[i] = e[g + i - 1]
    BY ONLY <1>3, <2>3, <2>4
  <2>6. l - g + 1 = l - f /\ (g <= l \/ l - f = 0)
    BY <1>4, <2>2, <2>3
  <2>7. Len(v) = Len(e) - f
    BY ONLY <2>3, <2>5, <2>6
  <2>8. \A i \in 1..l - f : v[i] = e[f + i]
    BY ONLY <2>1, <2>3, <2>5, <2>6
  <2> QED
    BY ONLY <2>3, <2>5, <2>7, <2>8 DEF Text
<1>7. Free(k, {EqualSign})
  <2>1. DOMAIN k = 1..f - 1
    BY <1>5, TextLength
  <2> QED
    BY <1>2, <1>5, <2>1 DEF Free, ToSet
<1>8. e = k \o <<EqualSign>> \o v
  <2> DEFINE c == k \o <<EqualSign>>
             d == c \o v
  <2>1. c = Append(k, EqualSign)
    BY <1>5, AppendIsConcat, Characters DEF Text
  <2>2. c \in Text /\ Len(c) = f /\ (\A i \in 1..f - 1 : c[i] = k[i]) /\ c[f] = EqualSign
    <3>1. EqualSign \in Character /\ (f - 1) + 1 = f
      BY <1>4, Characters
    <3> HIDE DEF c
    <3>2. k \in Text /\ Len(k) = f - 1
      BY <1>5
    <3>3. /\ c \in Text /\ Len(c) = Len(k) + 1
          /\ (\A i \in 1..Len(k) : c[i] = k[i]) /\ c[Len(k) + 1] = EqualSign
      BY ONLY <2>1, <3>1, <3>2, TextAppend
    <3> QED
      BY ONLY <3>1, <3>2, <3>3
  <2> HIDE DEF c
  <2>3. /\ d \in Text /\ Len(d) = Len(c) + Len(v)
        /\ \A i \in 1..Len(c) + Len(v) : d[i] = IF i <= Len(c) THEN c[i] ELSE v[i - Len(c)]
    BY <1>6, <2>2, ConcatProperties DEF Text
  <2> HIDE DEF d
  <2>4. Len(d) = Len(e)
    BY <1>1, <1>4, <1>6, <2>2, <2>3
  <2>5. ASSUME NEW i, i \in 1..Len(e) PROVE d[i] = e[i]
    <3>1. i \in Nat /\ i >= 1 /\ i \in 1..Len(c) + Len(v)
      BY <1>1, <2>3, <2>4, <2>5
    <3>2. CASE i < f
      <4>1. i \in 1..f - 1 /\ i <= Len(c)
        BY <1>4, <2>2, <3>1, <3>2
      <4> QED
        BY <1>5, <2>2, <2>3, <3>1, <4>1
    <3>3. CASE i = f
      BY <1>2, <1>4, <2>2, <2>3, <3>1, <3>3
    <3>4. CASE i > f
      <4>1. i - f \in 1..Len(e) - f /\ f + (i - f) = i /\ ~(i <= Len(c))
        BY <1>1, <1>4, <2>2, <2>5, <3>1, <3>4
      <4> QED
        BY <1>6, <2>2, <2>3, <3>1, <4>1
    <3> QED
      BY <1>4, <3>1, <3>2, <3>3, <3>4
  <2>6. d = e
    BY <1>1, <2>3, <2>4, <2>5, SeqEqual DEF Text
  <2> QED
    BY <2>6 DEF d, c
<1> QED
  BY <1>5, <1>6, <1>7, <1>8 DEF k, v, IsSplit

(* A text is a prefix of another one when it is there from the start. *)
LEMMA PrefixIs ==
  ASSUME NEW s \in Text, NEW t \in Text
  PROVE  IsPrefix(s, t) <=> Len(s) <= Len(t) /\ \A i \in 1..Len(s) : s[i] = t[i]
<1>1. PICK l \in Nat, n \in Nat : l = Len(s) /\ n = Len(t)
  BY TextLength
<1>2. (\A i \in 1..l : s[i] \in Character) /\ \A i \in 1..n : t[i] \in Character
  BY <1>1, TextLength
<1>3. SUFFICES ASSUME l <= n
               PROVE  SubSeq(s, 1, l) = SubSeq(t, 1, l) <=> \A i \in 1..l : s[i] = t[i]
  BY <1>1 DEF IsPrefix
<1>4. (\A i \in 1..l : t[i] \in Character) /\ (\A i \in 1..l : 1 + i - 1 = i) /\ l - 1 + 1 = l /\ (1 <= l \/ l = 0)
  BY <1>2, <1>3
<1>5. SubSeq(s, 1, l) \in Seq(Character) /\ Len(SubSeq(s, 1, l)) = l /\ \A i \in 1..l : SubSeq(s, 1, l)[i] = s[i]
  BY ONLY <1>2, <1>4, l \in Int, 1 \in Int, SubSeqProperties
<1>6. SubSeq(t, 1, l) \in Seq(Character) /\ Len(SubSeq(t, 1, l)) = l /\ \A i \in 1..l : SubSeq(t, 1, l)[i] = t[i]
  BY ONLY <1>4, l \in Int, 1 \in Int, SubSeqProperties
<1>7. ASSUME \A i \in 1..l : s[i] = t[i] PROVE SubSeq(s, 1, l) = SubSeq(t, 1, l)
  <2>1. \A i \in 1..l : SubSeq(s, 1, l)[i] = SubSeq(t, 1, l)[i]
    BY ONLY <1>5, <1>6, <1>7
  <2> QED
    BY ONLY <1>5, <1>6, <2>1, SeqEqual
<1>8. ASSUME SubSeq(s, 1, l) = SubSeq(t, 1, l) PROVE \A i \in 1..l : s[i] = t[i]
  BY ONLY <1>5, <1>6, <1>8
<1> QED
  BY <1>7, <1>8

(* An entry begins with a name and "=" if it is the entry of that name. *)
LEMMA EntryOfName ==
  ASSUME NEW e, e \in Entries, NEW k, k \in Text, Free(k, {EqualSign})
  PROVE  IsPrefix(k \o <<EqualSign>>, e) <=> NameIn(e) = k
<1> DEFINE f == FirstEqualSign(e)
           c == k \o <<EqualSign>>
<1>1. e \in Text /\ Len(e) \in Nat
  BY TextLength DEF Entries
<1>2. f \in 1..Len(e) /\ e[f] = EqualSign /\ \A j \in 1..f - 1 : e[j] # EqualSign
  BY EqualSignFound DEF SplitAt
<1>3. NameIn(e) \in Text /\ Len(NameIn(e)) = f - 1 /\ \A i \in 1..f - 1 : NameIn(e)[i] = e[i]
  BY NameFound DEF NameUpTo
<1>4. PICK l \in Nat : l = Len(k)
  BY TextLength
<1>5. \A i \in 1..l : k[i] # EqualSign
  BY <1>4, TextLength DEF Free, ToSet
<1>6. c \in Text /\ Len(c) = l + 1 /\ (\A i \in 1..l : c[i] = k[i]) /\ c[l + 1] = EqualSign
  <2>1. c = Append(k, EqualSign) /\ EqualSign \in Character
    BY AppendIsConcat, Characters DEF Text
  <2> HIDE DEF c
  <2> QED
    BY <1>4, <2>1, TextAppend
<1> HIDE DEF c, f
<1>7. IsPrefix(c, e) <=> l + 1 <= Len(e) /\ \A i \in 1..l + 1 : c[i] = e[i]
  BY ONLY <1>1, <1>6, PrefixIs
<1>8. ASSUME l + 1 <= Len(e), \A i \in 1..l + 1 : c[i] = e[i] PROVE NameIn(e) = k
  <2>1. l + 1 \in 1..l + 1 /\ \A i \in 1..l : i \in 1..l + 1
    OBVIOUS
  <2>2. e[l + 1] = EqualSign /\ \A i \in 1..l : e[i] = k[i]
    BY ONLY <1>6, <1>8, <2>1
  <2>3. ~(l + 1 \in 1..f - 1)
    BY ONLY <1>2, <2>2
  <2>4. ~(f \in 1..l)
    BY ONLY <1>2, <1>5, <2>2
  <2>5. f = l + 1
    BY ONLY <1>1, <1>2, <2>3, <2>4, l \in Nat
  <2>6. f - 1 = l
    BY ONLY <2>5, l \in Nat
  <2>7. Len(NameIn(e)) = l /\ \A i \in 1..l : NameIn(e)[i] = k[i]
    BY ONLY <1>3, <2>2, <2>6
  <2> QED
    BY ONLY <1>3, <1>4, <2>7, k \in Text, SeqEqual DEF Text
<1>9. ASSUME NameIn(e) = k PROVE l + 1 <= Len(e) /\ \A i \in 1..l + 1 : c[i] = e[i]
  <2>1. f - 1 = l /\ f \in Int
    BY ONLY <1>1, <1>2, <1>3, <1>4, <1>9
  <2>2. f = l + 1
    BY ONLY <2>1, l \in Nat
  <2>3. \A i \in 1..l : c[i] = e[i]
    BY ONLY <1>3, <1>6, <1>9, <2>1
  <2>4. c[l + 1] = e[l + 1]
    BY ONLY <1>2, <1>6, <2>2
  <2>5. \A i \in 1..l + 1 : i \in 1..l \/ i = l + 1
    OBVIOUS
  <2>6. l + 1 <= Len(e)
    BY ONLY <1>1, <1>2, <2>2
  <2> QED
    BY ONLY <2>3, <2>4, <2>5, <2>6
<1> QED
  BY ONLY <1>7, <1>8, <1>9 DEF c

(* What environ_to_unordered_map() makes of the entries: the entries of a name,
   and the last of them for its value. *)
EntriesOf(d, k) == {n \in DOMAIN d : NameIn(d[n]) = k}

(* The map of an environment has a text for every name, and one of the listings of its names. *)
LEMMA EnvironmentMapped ==
  ASSUME NEW d, d \in Seq(Entries),
         NEW keys, keys \in SetToSeqs(DOMAIN environ_to_unordered_map(d))
  PROVE  IsHstore(environ_to_unordered_map(d), DOMAIN environ_to_unordered_map(d), keys)
<1> DEFINE m == environ_to_unordered_map(d)
           S == {NameIn(d[n]) : n \in DOMAIN d}
           l == Len(d)
<1>1. l \in Nat /\ DOMAIN d = 1..l /\ \A n \in 1..l : d[n] \in Entries
  BY LenProperties, ElementOfSeq
<1>2. \A n \in 1..l : NameIn(d[n]) \in Text /\ ValueIn(d[n]) \in Text
  BY <1>1, EntrySplit DEF IsSplit
<1>3. m = [k \in S |-> ValueIn(d[Max(EntriesOf(d, k))])]
  BY DEF environ_to_unordered_map, EntriesOf
<1> HIDE DEF m, l
<1>4. ASSUME NEW k, k \in S PROVE ValueIn(d[Max(EntriesOf(d, k))]) \in Text
  <2>1. EntriesOf(d, k) \subseteq 1..l /\ EntriesOf(d, k) # {}
    BY <1>1, <1>4 DEF EntriesOf
  <2>2. Max(EntriesOf(d, k)) \in 1..l
    BY <1>1, <2>1, Greatest
  <2> QED
    BY <1>2, <2>2
<1>5. S \subseteq Text
  BY <1>1, <1>2
<1>6. IsFiniteSet(S)
  <2>1. IsFiniteSet(1..l)
    BY <1>1, FS_Interval
  <2> DEFINE g == [n \in 1..l |-> NameIn(d[n])]
  <2>2. g \in Surjection(1..l, S)
    BY <1>1 DEF Surjection
  <2> HIDE DEF g, S
  <2> QED
    BY ONLY <2>1, <2>2, FS_Surjection
<1> HIDE DEF S
<1>7. DOMAIN m = S /\ m \in [S -> Text \cup {Null}]
  BY ONLY <1>3, <1>4
<1>8. Lists(keys, S)
  <2>1. keys \in SetToSeqs(S)
    BY <1>7 DEF m
  <2> QED
    BY ONLY <1>6, <2>1, SetListed
<1>9. IsHstore(m, S, keys)
  BY ONLY <1>5, <1>7, <1>8 DEF IsHstore
<1> QED
  BY ONLY <1>7, <1>9 DEF m

(* The server has, for every entry of the daemon, its name; and the value is
   that of the last entry of that name. *)
EntryMeant(d, n, read) ==
  \E k \in DOMAIN read :
    LET entry == {i \in DOMAIN d : IsPrefix(k \o <<EqualSign>>, d[i])} IN
      /\ Free(k, {EqualSign}) /\ n \in entry
      /\ d[Max(entry)] = k \o <<EqualSign>> \o read[k]

(* A reader of the map gets, for every name, the value of the last entry that has it. *)
LEMMA EnvironmentMeant ==
  ASSUME NEW d, d \in Seq(Entries), NEW n, n \in DOMAIN d,
         NEW read, ReadAs(read, environ_to_unordered_map(d), DOMAIN environ_to_unordered_map(d))
  PROVE  EntryMeant(d, n, read)
<1> DEFINE k == NameIn(d[n])
           entry == {i \in DOMAIN d : IsPrefix(k \o <<EqualSign>>, d[i])}
           l == Len(d)
           S == {NameIn(d[i]) : i \in DOMAIN d}
           m == environ_to_unordered_map(d)
<1>1. l \in Nat /\ DOMAIN d = 1..l /\ n \in 1..l /\ \A i \in 1..l : d[i] \in Entries
  BY LenProperties, ElementOfSeq
<1>2. \A i \in 1..l : IsSplit(d[i], NameIn(d[i]), ValueIn(d[i]))
  BY <1>1, EntrySplit
<1>3. m = [x \in S |-> ValueIn(d[Max(EntriesOf(d, x))])]
  BY DEF environ_to_unordered_map, EntriesOf
<1>4. k \in S
  OBVIOUS
<1>5. k \in Text /\ Free(k, {EqualSign})
  BY <1>1, <1>2 DEF IsSplit
<1>6. k \in DOMAIN read /\ read[k] = ValueIn(d[Max(EntriesOf(d, k))])
  <2> HIDE DEF m, S, k
  <2>1. ReadAs(read, m, DOMAIN m)
    BY DEF m
  <2> QED
    BY ONLY <1>3, <1>4, <2>1 DEF ReadAs
<1> HIDE DEF k, m, S, l
<1>7. entry = EntriesOf(d, k)
  <2>1. ASSUME NEW i, i \in 1..l PROVE IsPrefix(k \o <<EqualSign>>, d[i]) <=> NameIn(d[i]) = k
    BY <1>1, <1>5, <2>1, EntryOfName
  <2> QED
    BY <1>1, <2>1 DEF EntriesOf
<1> HIDE DEF entry
<1>8. n \in EntriesOf(d, k) /\ EntriesOf(d, k) \subseteq 1..l
  BY <1>1 DEF EntriesOf, k
<1>9. PICK i \in 1..l : i = Max(EntriesOf(d, k)) /\ i \in EntriesOf(d, k)
  BY <1>1, <1>8, Greatest
<1>10. NameIn(d[i]) = k
  BY <1>9 DEF EntriesOf
<1>11. d[i] = k \o <<EqualSign>> \o ValueIn(d[i])
  <2>1. IsSplit(d[i], NameIn(d[i]), ValueIn(d[i]))
    BY <1>2
  <2> QED
    BY <1>10, <2>1 DEF IsSplit
<1>12. n \in entry /\ d[Max(entry)] = k \o <<EqualSign>> \o read[k]
  BY ONLY <1>6, <1>7, <1>8, <1>9, <1>11
<1> QED
  BY ONLY <1>5, <1>6, <1>12 DEF entry, EntryMeant

(* The server reads what the daemon meant, whatever is in the texts: but the
   fields of an error that are absent become the word NULL.  UpdateCmd,
   StartSession and SelectQueues. *)
THEOREM WrittenTextsAreMeant == Spec => []WrittenAsMeant
<1>1. ExchangeInv => WrittenAsMeant
  <2> SUFFICES ASSUME ExchangeInv, text # Null PROVE WrittenAsMeant
    BY DEF WrittenAsMeant
  <2>1. Sent /\ datum \in Data[flow]
    BY DEF ExchangeInv
  <2>2. CASE flow = "error"
    <3>1. datum \in Seq(Text \cup {Null}) /\ datum # <<>>
      <4>1. datum \in Errors
        BY <2>1, <2>2 DEF Data
      <4> QED
        BY <4>1, ExchangeAssumption
    <3>2. text = as_text_composite_value(datum)
      BY <2>1, <2>2 DEF Sent
    <3>3. RecordIn(text) = [n \in DOMAIN datum |-> IF datum[n] = Null THEN NullWord ELSE datum[n]]
      BY <3>1, <3>2, RecordInRead
    <3> QED
      BY <2>2, <3>3 DEF WrittenAsMeant
  <2>3. CASE flow = "session"
    <3>1. datum \in Seq(Entries)
      <4>1. datum \in Environs
        BY <2>1, <2>3 DEF Data
      <4> QED
        BY <4>1, ExchangeAssumption DEF Entries
    <3> DEFINE m == environ_to_unordered_map(datum)
    <3>2. PICK keys \in SetToSeqs(DOMAIN m) : text = as_text_hstore(m, keys)
      BY <2>1, <2>3 DEF Sent
    <3>3. IsHstore(m, DOMAIN m, keys)
      BY <3>1, EnvironmentMapped
    <3>4. ReadAs(HstoreIn(text), m, DOMAIN m)
      <4> HIDE DEF m
      <4> QED
        BY ONLY <3>2, <3>3, HstoreInRead
    <3> DEFINE read == HstoreIn(text)
    <3>5. ASSUME NEW n, n \in DOMAIN datum PROVE EntryMeant(datum, n, read)
      <4> HIDE DEF read
      <4>1. ReadAs(read, environ_to_unordered_map(datum), DOMAIN environ_to_unordered_map(datum))
        BY <3>4 DEF read
      <4> QED
        BY ONLY <3>1, <3>5, <4>1, EnvironmentMeant
    <3> QED
      BY <2>3, <3>5 DEF WrittenAsMeant, EntryMeant
  <2>4. CASE flow = "list"
    <3>1. datum \in Seq(Text \cup {Null})
      <4>1. datum \in Seq(Text)
        <5>1. datum \in ClassLists
          BY <2>1, <2>4 DEF Data
        <5> QED
          BY <5>1, ExchangeAssumption
      <4> DEFINE n == Len(datum)
      <4>2. n \in Nat /\ datum \in [1..n -> Text]
        BY <4>1, LenProperties
      <4>3. datum = [i \in 1..n |-> datum[i]] /\ \A i \in 1..n : datum[i] \in Text \cup {Null}
        BY <4>2
      <4> HIDE DEF n
      <4> QED
        BY ONLY <4>2, <4>3, IsASeq
    <3>2. text = as_text_array(datum)
      BY <2>1, <2>4 DEF Sent
    <3>3. ArrayIn(text) = datum
      BY <3>1, <3>2, ArrayInRead
    <3> QED
      BY <2>4, <3>3 DEF WrittenAsMeant
  <2>5. CASE flow \notin {"error", "session", "list"}
    BY <2>5 DEF WrittenAsMeant
  <2> QED
    BY <2>2, <2>3, <2>4, <2>5
<1> QED
  BY <1>1, ExchangeInvariant, PTL

----------------------------------------------------------------------------
(* A name and a value that EnvAsQueued is about are read as they are. *)
LEMMA ReadAsTheyAre ==
  ASSUME NEW k, k \in Text, k # <<>>, Free(k, {Escape, Quote}), NEW v, v \in Text, ~Unescapable(v)
  PROVE  NameFree(k) /\ ValueFree(v)
<1>1. Len(k) \in Nat /\ DOMAIN k = 1..Len(k) /\ Len(v) \in Nat /\ DOMAIN v = 1..Len(v)
  BY TextLength
<1>2. \A i \in 1..Len(k) : k[i] \notin {Quote, Escape}
  BY <1>1 DEF Free, ToSet
<1>3. v # NullWord /\ \A n \in 1..Len(v) : v[n] = Escape => n # Len(v) /\ v[n + 1] \notin {Escape, Quote}
  BY <1>1 DEF Unescapable
<1>4. Single(v)
  <2>1. \A n \in 1..Len(v) - 1 : n \in 1..Len(v)
    BY <1>1
  <2> QED
    BY ONLY <1>3, <2>1 DEF Single
<1>5. Len(v) > 0 => v[Len(v)] # Escape
  <2>1. Len(v) > 0 => Len(v) \in 1..Len(v)
    BY <1>1
  <2> QED
    BY ONLY <1>3, <2>1
<1> QED
  BY <1>2, <1>3, <1>4, <1>5 DEF NameFree, ValueFree

(* A program gets the environment that was queued, and PATH, whatever the order
   of the names and the quotes in the values, as long as every name has a value
   other than the word NULL, no value ends in or doubles an escape character,
   and names have neither: from_text_hstore(), throw_if_missing_any_value() and
   the child of run_cmd(). *)
THEOREM EnvironmentArrives == Spec => []EnvAsQueued
<1>1. ExchangeInv => EnvAsQueued
  <2> SUFFICES ASSUME ExchangeInv, flow = "cmd", got # Null,
                      \A k \in DOMAIN datum.env : datum.env[k] # Null /\ ~Unescapable(datum.env[k])
                                                    /\ k # <<>> /\ Free(k, {Escape, Quote})
               PROVE  got.env = datum.env @@ (Path.name :> Path.value)
    BY DEF EnvAsQueued
  <2> DEFINE e == datum.env
             S == DOMAIN e
             out == [x \in S |-> e[x]]
  <2>1. S \subseteq Text /\ IsFiniteSet(S) /\ e = out /\ \A k \in S : e[k] \in Text \cup {Null}
    <3>1. datum \in Data["cmd"]
      BY DEF ExchangeInv
    <3>2. e = <<>> \/ e \in Envs
      BY <3>1 DEF Data
    <3>3. CASE e = <<>>
      <4>1. DOMAIN <<>> = {} /\ [x \in {} |-> e[x]] = <<>>
        OBVIOUS
      <4> QED
        BY <3>3, <4>1, FS_EmptySet
    <3>4. CASE e \in Envs
      BY <3>4, ExchangeAssumption
    <3> QED
      BY <3>2, <3>3, <3>4
  <2>2. PICK keys \in SetToSeqs(S) : text = [argv |-> ArrayOut(datum.argv), env |-> HstoreOut(e, keys)]
    BY DEF ExchangeInv, Sent, Read
  <2>3. got = Exec(NewNixQueueCmd(text)) /\ text.env = HstoreOut(e, keys)
    BY <2>2 DEF ExchangeInv, Read
  <2>4. \A k \in S : e[k] # Null /\ ~Unescapable(e[k]) /\ k # <<>> /\ Free(k, {Escape, Quote})
    OBVIOUS
  <2> HIDE DEF e, S
  <2>5. \A k \in S : NameFree(k) /\ ValueFree(e[k])
    BY ONLY <2>1, <2>4, ReadAsTheyAre
  <2>6. Lists(keys, S)
    BY ONLY <2>1, <2>2, SetListed
  <2>7. StoreRead(from_text_hstore(HstoreOut(e, keys)), e, S)
    BY ONLY <2>5, <2>6, HstoreOutRead
  <2>8. from_text_hstore(text.env) = e
    BY ONLY <2>1, <2>3, <2>7 DEF StoreRead
  <2>9. throw_if_missing_any_value(e)
    BY <2>4 DEF throw_if_missing_any_value, S
  <2>10. NewNixQueueCmd(text).env = e
    BY ONLY <2>8, <2>9 DEF NewNixQueueCmd
  <2>11. got.env = NewNixQueueCmd(text).env @@ (Path.name :> Path.value)
    BY ONLY <2>3, Zenon DEF Exec
  <2> QED
    BY ONLY <2>10, <2>11 DEF e
<1> QED
  BY <1>1, ExchangeInvariant, PTL

=============================================================================
