----------------------- MODULE TextExchangeProperties -----------------------
(***************************************************************************)
(* What both sides of TextExchange may rely on, and up to which texts.     *)
(***************************************************************************)
EXTENDS TextExchange

(* w has none of chars. *)
Free(w, chars) == ToSet(w) \cap chars = {}

(* A program gets the arguments that were queued, whatever commas, quotes,
   braces and empty ones are among them, unless one has an escape character
   or is NULL: from_text_array() and the child of run_cmd(). *)
ArgvAsQueued ==
  flow = "cmd" /\ got # Null /\ (\A n \in DOMAIN datum.argv :
                                    datum.argv[n] # Null /\ Free(datum.argv[n], {Escape}))
    => got.argv = datum.argv

(* A program gets the environment that was queued, and PATH, whatever the
   order of the names and the quotes in the values, as long as every name has
   a value other than the word NULL, no value ends in or doubles an escape
   character, and names have neither: from_text_hstore(),
   throw_if_missing_any_value() and the child of run_cmd(). *)
Unescapable(w) ==
  \/ w = NullWord
  \/ \E n \in DOMAIN w : w[n] = Escape /\ (n = Len(w) \/ w[n + 1] \in {Escape, Quote})

EnvAsQueued ==
  flow = "cmd" /\ got # Null
    /\ (\A k \in DOMAIN datum.env : datum.env[k] # Null /\ ~Unescapable(datum.env[k])
                                      /\ k # <<>> /\ Free(k, {Escape, Quote}))
    => got.env = datum.env @@ (Path.name :> Path.value)

(* A notification never sends the runner for another command than the one it
   names, unless names hold escape characters: a payload that is misread,
   because one of its fields is in quotes, is ignored and not acted on.  And
   one without quotes is acted on: from_text_composite_value() and the checks
   of _run(). *)
NotifiedCmdIsMeant ==
  flow = "notification" /\ got # Null =>
    /\ (\A n \in 1..3 : datum[n] = Null \/ Free(datum[n], {Escape}))
         => got \in {[ignored |-> TRUE], [notify_cmd |-> <<datum[2], datum[3]>>]}
    /\ datum[1] = OwnClass /\ ~Contains(text, Quote) => got # [ignored |-> TRUE]
    /\ datum[1] # OwnClass => got = [ignored |-> TRUE]

(* The manager reads its list again after a change of any queue whose name
   needs no quotes, and no notification makes it throw: TakeChange. *)
ChangeIsHeard ==
  flow = "change" /\ got # Null =>
    /\ got # [crashed |-> TRUE]
    /\ ~Contains(text, Quote) => got = [refresh |-> TRUE]

(* The server reads what the daemon meant, whatever is in the texts: but the
   fields of an error that are absent become the word NULL. *)
WrittenAsMeant ==
  text # Null =>
    CASE flow = "error" -> RecordIn(text) = [n \in DOMAIN datum |->
                              IF datum[n] = Null THEN NullWord ELSE datum[n]]
      [] flow = "session" ->
           LET read == HstoreIn(text)
               entry(k) == {n \in DOMAIN datum : IsPrefix(k \o <<EqualSign>>, datum[n])} IN
             \A n \in DOMAIN datum : \E k \in DOMAIN read :
               /\ Free(k, {EqualSign}) /\ n \in entry(k)
               /\ datum[Max(entry(k))] = k \o <<EqualSign>> \o read[k]
      [] flow = "list" -> ArrayIn(text) = datum
      [] OTHER -> TRUE
=============================================================================
