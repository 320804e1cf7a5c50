---------------------------- MODULE TextExchange ----------------------------
(***************************************************************************)
(* What the daemon and the server tell each other in text: the arguments   *)
(* and environment of a *nix command, the payload of a notification to a   *)
(* runner or to the manager, the error of a SQL command, the environment   *)
(* of a session and the list of queues to run.                             *)
(***************************************************************************)
EXTENDS TextFormats

CONSTANTS
  Argvs,         \* arguments of commands, as queued
  Envs,          \* environments of commands, as queued: name to value or Null
  CmdIds,        \* pairs of a cmd_id and a cmd_subid or Null
  Classes,       \* names of queues as the triggers send them
  Errors,        \* fields of an error: texts or Null
  Environs,      \* environments of the daemon: entries with "=" in them
  ClassLists,    \* the queues named on the daemon's command line
  OwnClass,      \* the queue of the runner
  Path           \* the name PATH and the daemon's value of it

(* The name of a queue with its schema, as quote_ident() and
   pg_identify_object() give it: a part in quotes has two of them, only such a
   part has escape characters, and what is before it is no name of a queue. *)
Identity(c) ==
  \/ ToSet(c) \cap {Quote, Escape} = {}
  \/ \E a, b \in DOMAIN c :
       /\ a < b /\ c[a] = Quote /\ c[b] = Quote
       /\ \A j \in 1..a - 1 : c[j] \notin {Quote, Escape}
       /\ SubSeq(c, 1, a - 1) # OwnClass

ASSUME ExchangeAssumption ==
  /\ Argvs \subseteq Seq(Text \cup {Null})
  /\ \A e \in Envs : DOMAIN e \subseteq Text /\ IsFiniteSet(DOMAIN e) /\ e \in [DOMAIN e -> Text \cup {Null}]
  /\ Path.name \in Text
  /\ OwnClass \in Text
  /\ \A c \in Classes : c \in Text /\ Identity(c)
  /\ \A id \in CmdIds : id[1] \in Text /\ id[2] \in Text \cup {Null}
  /\ Errors \subseteq Seq(Text \cup {Null}) \ {<<>>}
  /\ Environs \subseteq Seq({e \in Text : \E n \in DOMAIN e : e[n] = EqualSign})
  /\ ClassLists \subseteq Seq(Text)
  /\ {"cmd_queue", "INSERT", "UPDATE", "DELETE"} \subseteq Character

VARIABLES
  flow,          \* who tells whom
  datum,         \* what is meant
  text,          \* the text in which it is sent
  got            \* what the daemon makes of it; Null before it has read it

vars == <<flow, datum, text, got>>

Data ==
  [cmd |-> {[argv |-> a, env |-> e] : a \in Argvs, e \in {<<>>}}
             \cup {[argv |-> <<Path.name>>, env |-> e] : e \in Envs},
   notification |-> {<<c, id[1], id[2]>> : c \in Classes, id \in CmdIds},
   change |-> {<<Table, c, <<op>>>> : c \in Classes, op \in {"INSERT", "UPDATE", "DELETE"},
                 Table \in {<<"cmd_queue">>}},
   error |-> Errors,
   session |-> Environs,
   list |-> ClassLists]

Init ==
  /\ flow \in DOMAIN Data
  /\ datum \in Data[flow]
  /\ text = Null
  /\ got = Null

Sends(f) == flow = f /\ text = Null /\ UNCHANGED <<flow, datum, got>>
Reads(f) == flow = f /\ text # Null /\ got = Null /\ UNCHANGED <<flow, datum, text>>

----------------------------------------------------------------------------
(* A *nix command *)

(* The runner selects the command; the server writes its columns. *)
SelectCmd ==
  /\ Sends("cmd")
  /\ \E keys \in SetToSeqs(DOMAIN datum.env) :
       text' = [argv |-> ArrayOut(datum.argv), env |-> HstoreOut(datum.env, keys)]

(* NixQueueCmd's constructor: an environment with a name without a value is
   not used, and the command is invalid, which nobody asks. *)
throw_if_missing_any_value(map) == \A k \in DOMAIN map : map[k] # Null

NewNixQueueCmd(row) ==
  LET env == from_text_hstore(row.env)
      valid == throw_if_missing_any_value(env)
  IN [argv |-> from_text_array(row.argv), env |-> IF valid THEN env ELSE <<>>, valid |-> valid]

(* The child of run_cmd(): PATH is that of the daemon unless the command has
   its own.  Without an argument the child reads beyond an empty vector, and
   no program runs: <<>>. *)
Exec(cmd) == [argv |-> cmd.argv, env |-> cmd.env @@ (Path.name :> Path.value)]

RunCmd == Reads("cmd") /\ got' = Exec(NewNixQueueCmd(text))

----------------------------------------------------------------------------
(* Notifications *)

NotifyRunner == Sends("notification") /\ text' = RecordOut(datum)

(* Deviation: more than three fields would do. *)
LongEnough(fields) == Len(fields) >= 3 /\ fields[1] # Null /\ fields[2] # Null

(* CmdQueueRunner::_run() wants three fields of which two are not NULL. *)
WellFormed(fields) == Len(fields) = 3 /\ fields[1] # Null /\ fields[2] # Null

TakeNotify ==
  /\ Reads("notification")
  /\ LET fields == from_text_composite_value(text) IN
       got' = IF WellFormed(fields) /\ fields[1] = OwnClass
              THEN [notify_cmd |-> <<fields[2], fields[3]>>]
              ELSE [ignored |-> TRUE]

NotifyManager == Sends("change") /\ text' = RecordOut(datum)

(* The manager does not count the fields: at() throws when one is missing. *)
TakeChange ==
  /\ Reads("change")
  /\ LET fields == from_text_composite_value(text) IN
       got' = IF Len(fields) < 1 THEN [crashed |-> TRUE]
              ELSE IF fields[1] # <<"cmd_queue">> THEN [ignored |-> TRUE]
              ELSE IF Len(fields) < 3 THEN [crashed |-> TRUE]
              ELSE [refresh |-> fields[3] \in {<<"INSERT">>, <<"UPDATE">>, <<"DELETE">>}]

----------------------------------------------------------------------------
(* What the daemon sends *)

(* SqlQueueCmd::update_params() for a command that failed. *)
UpdateCmd == Sends("error") /\ text' = as_text_composite_value(datum)

(* Deviation: a name would end at the last "=". *)
LastEqualSign(entry) == Max({n \in DOMAIN entry : entry[n] = EqualSign})

(* strchr(): a name ends at the first "=" of its entry. *)
FirstEqualSign(entry) ==
  CHOOSE n \in DOMAIN entry : entry[n] = EqualSign /\ \A j \in 1..n - 1 : entry[j] # EqualSign

NameIn(entry) == SubSeq(entry, 1, FirstEqualSign(entry) - 1)
ValueIn(entry) == SubSeq(entry, FirstEqualSign(entry) + 1, Len(entry))

(* Of the entries with one name the last one counts. *)
environ_to_unordered_map(environ) ==
  [k \in {NameIn(environ[n]) : n \in DOMAIN environ} |->
     ValueIn(environ[Max({n \in DOMAIN environ : NameIn(environ[n]) = k})])]

StartSession ==
  /\ Sends("session")
  /\ LET env == environ_to_unordered_map(datum) IN
       \E keys \in SetToSeqs(DOMAIN env) : text' = as_text_hstore(env, keys)

SelectQueues == Sends("list") /\ text' = as_text_array(datum)

Next ==
  \/ SelectCmd \/ RunCmd
  \/ NotifyRunner \/ TakeNotify
  \/ NotifyManager \/ TakeChange
  \/ UpdateCmd \/ StartSession \/ SelectQueues

Spec == Init /\ [][Next]_vars
============================================================================
