------------------------ MODULE RunSqlCmdQueueProofs ------------------------
(***************************************************************************)
(* Proofs about RunSqlCmdQueue for any numbers of commands, runners and    *)
(* callers, and any faults: effects and results of success are committed   *)
(* together, and the row of a command stays locked while it is run; the    *)
(* effects of a command that is deleted with its result come at most once, *)
(* those of any command are covered by claims of its row, and the sessions *)
(* keep the contract of TransactionalQueue.                                *)
(*                                                                         *)
(* The first inductive invariant is Types, and for each session s that its *)
(* transaction is in order, InOrder(s): the effects in it are those with a *)
(* result in it, plus the one that ran and whose result comes next.  The   *)
(* later ones add who may do the work of a command: a session with some of *)
(* it in its transaction has the row.                                      *)
(***************************************************************************)
EXTENDS RunSqlCmdQueue, TLAPS

\* The steps in which a session is busy with the command at hand and has a
\* transaction for it.  A text with a COMMIT ends it, which the runner survives
\* for one step.
Working(s) ==
    \/ pc[s] \in {"savepoint", "execute", "finish", "update"}
    \/ pc[s] = "constraints" /\ text[cur[s]] # "commit"

\* The command at hand ran, and its result is not recorded yet.
Pending(s, c) ==
    IF /\ pc[s] \in {"constraints", "finish", "update"}
       /\ cur[s] = c /\ status[s] = "ok" /\ tx[s].state = "open"
    THEN 1 ELSE 0

TxType ==
    [state : {"none", "open", "aborted"}, deferred : BOOLEAN,
     work : [Cmds -> Nat], good : [Cmds -> Nat], gone : SUBSET Cmds]

ControlTypes ==
    /\ pc \in [Sessions -> {"select", "savepoint", "execute", "constraints", "finish",
                            "update", "end", "down", "call", "iterate", "return", "ended"}]
    /\ cur \in [Sessions -> Cmds \cup {NoCmd}]
    /\ status \in [Sessions -> {"none", "ok", "fatal"}]
    /\ failed \in [Sessions -> BOOLEAN] /\ alive \in [Sessions -> BOOLEAN]

Types ==
    /\ text \in [Cmds -> Kinds]
    /\ queue \subseteq Cmds
    /\ lock \in [Cmds -> Sessions \cup {Free}]
    /\ effects \in [Cmds -> Nat] /\ results \in [Cmds -> Nat]
    /\ tx \in [Sessions -> TxType]
    /\ ControlTypes

\* A session has a command in hand exactly when its step is about one.
AtHand(s) ==
    cur[s] # NoCmd <=> pc[s] \in {"savepoint", "execute", "constraints", "finish", "update", "end"}

\* A transaction is aborted only until the ROLLBACK TO SAVEPOINT.
Aborted(s) == tx[s].state = "aborted" => pc[s] = "finish" /\ failed[s]

\* A lost connection has no transaction, nor has one that a COMMIT ended, and one
\* in use has one.
HasTx(s) ==
    /\ ~alive[s] => tx[s] = NoTx
    /\ pc[s] = "constraints" /\ text[cur[s]] = "commit" => tx[s].state = "none"
    /\ alive[s] /\ Working(s) => tx[s].state # "none" /\ lock[cur[s]] = s

\* What failed is recorded as a failure.
FailureKnown(s) ==
    failed[s] => status[s] = "fatal" /\ pc[s] \notin {"savepoint", "execute", "constraints"}

\* Only runners go through the steps of run_cmd(), and only callers through
\* those of the procedure, in a transaction that is open all along.
InPlace(s) ==
    /\ s \in Daemons => pc[s] \notin {"call", "iterate", "return", "ended"}
    /\ s \in Callers =>
         /\ alive[s] /\ ~failed[s]
         /\ pc[s] \in {"call", "select", "execute", "update", "iterate", "return", "ended"}
         /\ pc[s] \in {"select", "execute", "update", "iterate", "return"} => tx[s].state = "open"

\* The effects in the transaction are those with a result in it, plus the one to come.
Booked(s) ==
    tx[s].state # "aborted" =>
      \A c \in Cmds : text[c] # "commit" => tx[s].work[c] = tx[s].good[c] + Pending(s, c)

InOrder(s) ==
    AtHand(s) /\ Aborted(s) /\ HasTx(s) /\ FailureKnown(s) /\ InPlace(s) /\ Booked(s)

IInv == Types /\ EffectsMatchResults /\ \A s \in Sessions : InOrder(s)

\* A step of session s leaves the other sessions alone, and their locks.
Frame(s) ==
    /\ text' = text
    /\ \A t \in Sessions \ {s} :
         /\ tx'[t] = tx[t] /\ pc'[t] = pc[t] /\ cur'[t] = cur[t] /\ status'[t] = status[t]
         /\ failed'[t] = failed[t] /\ alive'[t] = alive[t]
         /\ \A c \in Cmds : lock[c] = t => lock'[c] = t
-----------------------------------------------------------------------------
(* What the operations on transactions do *)

\* A session that the step leaves alone stays in order.
LEMMA OthersInOrder ==
    ASSUME Types, NEW s \in Sessions, Frame(s), NEW t \in Sessions \ {s}, InOrder(t)
    PROVE  InOrder(t)'
<1> USE DEF Frame
<1>1. pc'[t] = pc[t] /\ cur'[t] = cur[t] /\ status'[t] = status[t] /\ tx'[t] = tx[t]
      /\ failed'[t] = failed[t] /\ alive'[t] = alive[t] /\ text' = text
  OBVIOUS
<1>2. Working(t)' <=> Working(t)
  BY <1>1 DEF Working
<1>3. \A c \in Cmds : Pending(t, c)' = Pending(t, c)
  BY <1>1 DEF Pending
<1>4. Working(t) => cur[t] \in Cmds
  BY DEF Working, InOrder, AtHand, Types, ControlTypes
<1>5. HasTx(t)'
  BY <1>1, <1>2, <1>4 DEF HasTx, InOrder
<1>6. Booked(t)'
  BY <1>1, <1>3 DEF Booked, InOrder
<1> QED
  BY <1>1, <1>5, <1>6 DEF InOrder, AtHand, Aborted, FailureKnown, InPlace

\* Steps keep the invariant if they keep it of their own session.
LEMMA StepOf ==
    ASSUME IInv, NEW s \in Sessions, Frame(s), Types', InOrder(s)', EffectsMatchResults'
    PROVE  IInv'
BY OthersInOrder DEF IInv

\* Rolled back, a session has no transaction, and the others keep their locks.
LEMMA RollbackDoes ==
    ASSUME Types, NEW s \in Sessions, Rollback(s)
    PROVE  /\ tx' \in [Sessions -> TxType]
           /\ lock' \in [Cmds -> Sessions \cup {Free}]
           /\ tx'[s] = NoTx
           /\ \A t \in Sessions \ {s} : tx'[t] = tx[t]
           /\ \A c \in Cmds : lock[c] # s => lock'[c] = lock[c]
           /\ queue' = queue /\ effects' = effects /\ results' = results
<1>1. NoTx \in TxType
  BY DEF NoTx, None, TxType
<1> QED
  BY <1>1 DEF Rollback, Release, Set, Types, ControlTypes

\* The same for COMMIT, which makes the effects and the results count.
LEMMA CommitDoes ==
    ASSUME Types, NEW s \in Sessions, Commit(s)
    PROVE  /\ tx' \in [Sessions -> TxType]
           /\ lock' \in [Cmds -> Sessions \cup {Free}]
           /\ effects' \in [Cmds -> Nat] /\ results' \in [Cmds -> Nat]
           /\ queue' \subseteq Cmds
           /\ tx'[s] = NoTx
           /\ \A t \in Sessions \ {s} : tx'[t] = tx[t]
           /\ \A c \in Cmds : lock[c] # s => lock'[c] = lock[c]
           /\ \A c \in Cmds : /\ effects'[c] = effects[c] + tx[s].work[c]
                              /\ results'[c] = results[c] + tx[s].good[c]
<1>1. NoTx \in TxType
  BY DEF NoTx, None, TxType
<1>2. tx[s].work \in [Cmds -> Nat] /\ tx[s].good \in [Cmds -> Nat]
  BY DEF Types, ControlTypes, TxType
<1> QED
  BY <1>1, <1>2 DEF Commit, Release, Set, Types, ControlTypes, Plus

\* A session without pending work has as many effects as results to commit.
LEMMA CommitMatches ==
    ASSUME IInv, NEW s \in Sessions, Commit(s), text' = text,
           pc[s] \notin {"constraints", "finish", "update"}
    PROVE  EffectsMatchResults'
<1>1. tx[s].state # "aborted"
  BY DEF IInv, InOrder, Aborted
<1>2. \A c \in Cmds : text[c] # "commit" => tx[s].work[c] = tx[s].good[c]
  <2>1. \A c \in Cmds : Pending(s, c) = 0
    BY DEF Pending
  <2>2. tx[s].good \in [Cmds -> Nat]
    BY DEF IInv, Types, ControlTypes, TxType
  <2> QED
    BY <1>1, <2>1, <2>2 DEF IInv, InOrder, Booked
<1> QED
  BY <1>2, CommitDoes DEF IInv, EffectsMatchResults

\* A command runs in the transaction of s, which then owes constraints or not.
Works(s, c, D) == tx' = [tx EXCEPT ![s].work = One(@, c), ![s].deferred = D]

\* The command's effects become part of the transaction, which else stays as it is.
LEMMA WorkDoes ==
    ASSUME Types, NEW s \in Sessions, NEW c \in Cmds, NEW D \in BOOLEAN, Works(s, c, D)
    PROVE  /\ tx' \in [Sessions -> TxType]
           /\ \A t \in Sessions \ {s} : tx'[t] = tx[t]
           /\ tx'[s].state = tx[s].state /\ tx'[s].good = tx[s].good
           /\ \A e \in Cmds : tx'[s].work[e] = tx[s].work[e] + IF e = c THEN 1 ELSE 0
<1> DEFINE w == One(tx[s].work, c)
           r == [[tx[s] EXCEPT !.work = w] EXCEPT !.deferred = D]
<1>1. tx[s] \in TxType
  BY DEF Types, ControlTypes
<1>2. /\ w \in [Cmds -> Nat]
      /\ \A e \in Cmds : w[e] = tx[s].work[e] + IF e = c THEN 1 ELSE 0
  BY <1>1 DEF TxType, One
<1> HIDE DEF w
<1>3. r \in TxType /\ r.state = tx[s].state /\ r.good = tx[s].good /\ r.work = w
  BY <1>1, <1>2 DEF TxType
<1>4. tx' = [tx EXCEPT ![s] = r]
  BY DEF Types, ControlTypes, w, Works
<1> HIDE DEF r
<1>5. tx' \in [Sessions -> TxType] /\ tx'[s] = r /\ \A t \in Sessions \ {s} : tx'[t] = tx[t]
  BY <1>3, <1>4 DEF Types, ControlTypes
<1>6. tx'[s].work = w /\ tx'[s].state = tx[s].state /\ tx'[s].good = tx[s].good
  BY <1>3, <1>5
<1> QED
  BY <1>2, <1>5, <1>6

\* The other variables of the other sessions.
OnlyOf(s) ==
    /\ text' = text
    /\ \A t \in Sessions \ {s} :
         /\ pc'[t] = pc[t] /\ cur'[t] = cur[t] /\ status'[t] = status[t]
         /\ failed'[t] = failed[t] /\ alive'[t] = alive[t]

\* A session may end its transaction when it needs it no more.
LEMMA TxEnds ==
    ASSUME IInv, NEW s \in Sessions, OnlyOf(s), ControlTypes',
           \/ Rollback(s)
           \/ Commit(s) /\ pc[s] \notin {"constraints", "finish", "update"},
           AtHand(s)', FailureKnown(s)', InPlace(s)', alive'[s] => ~Working(s)'
    PROVE  IInv'
<1>1. /\ tx' \in [Sessions -> TxType]
      /\ lock' \in [Cmds -> Sessions \cup {Free}]
      /\ effects' \in [Cmds -> Nat] /\ results' \in [Cmds -> Nat]
      /\ queue' \subseteq Cmds
      /\ tx'[s] = NoTx
      /\ \A t \in Sessions \ {s} : tx'[t] = tx[t]
      /\ \A c \in Cmds : lock[c] # s => lock'[c] = lock[c]
  BY RollbackDoes, CommitDoes DEF IInv, Types, ControlTypes
<1>2. EffectsMatchResults'
  <2>1. CASE Rollback(s)
    BY <2>1, RollbackDoes DEF IInv, EffectsMatchResults, OnlyOf
  <2>2. CASE Commit(s) /\ pc[s] \notin {"constraints", "finish", "update"}
    BY <2>2, CommitMatches DEF OnlyOf
  <2> QED
    BY <2>1, <2>2
<1>3. Types'
  BY <1>1 DEF OnlyOf, ControlTypes, Types, IInv
<1>4. Frame(s)
  BY <1>1 DEF OnlyOf, Frame
<1>5. Aborted(s)' /\ HasTx(s)'
  BY <1>1 DEF Aborted, HasTx, NoTx
<1>6. Booked(s)'
  <2>1. \A c \in Cmds : Pending(s, c)' = 0
    BY <1>1 DEF Pending, NoTx
  <2> QED
    BY <1>1, <2>1 DEF Booked, NoTx, None
<1> QED
  BY <1>2, <1>3, <1>4, <1>5, <1>6, StepOf DEF InOrder
-----------------------------------------------------------------------------
(* The steps of the runners *)

(* The SELECT that locks a row keeps the invariant. *)
LEMMA ClaimStep ==
    ASSUME IInv, NEW d \in Daemons, Claim(d)
    PROVE  IInv'
<1> USE DEF Claim, ClaimRow, Goto
<1>1. PICK c \in Oldest(Eligible(d) \ updated[d]) : ClaimRow(d, c)
  OBVIOUS
<1>2. c \in Cmds /\ lock[c] \in {Free, d} /\ d \in Sessions
  BY DEF Oldest, Eligible, IInv, Types, ControlTypes, Sessions
<1>3. Types'
  <2>1. tx' \in [Sessions -> TxType]
    <3>1. tx[d] \in TxType
      BY <1>2 DEF IInv, Types, ControlTypes
    <3>2. [tx[d] EXCEPT !.state = "open"] \in TxType
      BY <3>1 DEF TxType
    <3> QED
      BY <1>2, <3>2 DEF IInv, Types, ControlTypes
  <2> QED
    BY <1>1, <1>2, <2>1 DEF IInv, Types, ControlTypes, Set
<1>4. Frame(d)
  BY <1>1, <1>2, SqlAssumption DEF IInv, Types, ControlTypes, Frame, Set, Sessions
<1>5. InOrder(d)'
  <2>1. /\ pc[d] = "select" /\ pc'[d] = "savepoint" /\ cur'[d] = c /\ alive[d] /\ alive' = alive
        /\ lock'[c] = d /\ status'[d] = "none" /\ failed'[d] = FALSE /\ text' = text
        /\ tx'[d] = [tx[d] EXCEPT !.state = "open"]
    BY <1>1, <1>2 DEF IInv, Types, ControlTypes, Set
  <2>2. tx'[d].state = "open"
    BY <1>2, <2>1 DEF IInv, Types, ControlTypes, TxType
  <2>3. AtHand(d)' /\ Aborted(d)' /\ HasTx(d)' /\ FailureKnown(d)'
    BY <1>2, <2>1, <2>2, SqlAssumption DEF AtHand, Aborted, HasTx, FailureKnown, NoCmd
  <2>4. InPlace(d)'
    BY <2>1, SqlAssumption DEF InPlace
  <2>5. Booked(d)'
    <3>1. tx[d].state # "aborted"
      BY <1>2, <2>1 DEF IInv, InOrder, Aborted
    <3>2. \A e \in Cmds : Pending(d, e) = 0 /\ Pending(d, e)' = 0
      BY <2>1 DEF Pending
    <3>3. tx'[d].work = tx[d].work /\ tx'[d].good = tx[d].good
      BY <1>2, <2>1 DEF IInv, Types, ControlTypes, TxType
    <3> QED
      BY <1>2, <2>1, <3>1, <3>2, <3>3 DEF IInv, InOrder, Booked
  <2> QED
    BY <2>3, <2>4, <2>5 DEF InOrder
<1>6. EffectsMatchResults'
  BY <1>1 DEF IInv, EffectsMatchResults
<1> QED
  BY <1>2, <1>3, <1>4, <1>5, <1>6, StepOf

(* Starting a round keeps the invariant. *)
LEMMA EnterRoundStep ==
    ASSUME IInv, NEW d \in Daemons, EnterRound(d)
    PROVE  IInv'
<1> d \in Sessions
  BY DEF Sessions
<1>1. Types' /\ Frame(d) /\ EffectsMatchResults'
  BY DEF EnterRound, relVars, boundVars, IInv, Types, ControlTypes, Frame, EffectsMatchResults
<1>2. InOrder(d)'
  BY DEF EnterRound, relVars, IInv, InOrder, AtHand, Aborted, HasTx, FailureKnown, InPlace,
         Booked,
     Pending, Working
<1> QED
  BY <1>1, <1>2, StepOf

(* The savepoint before the command keeps the invariant. *)
LEMMA SavepointStep ==
    ASSUME IInv, NEW d \in Daemons, Savepoint(d)
    PROVE  IInv'
<1> USE DEF Savepoint, relVars, boundVars, Set
<1> d \in Sessions
  BY DEF Sessions
<1>1. Types' /\ Frame(d) /\ EffectsMatchResults'
  BY DEF IInv, Types, ControlTypes, Frame, EffectsMatchResults
<1>2. AtHand(d)' /\ Aborted(d)' /\ HasTx(d)' /\ FailureKnown(d)' /\ InPlace(d)'
  BY SqlAssumption DEF IInv, Types, ControlTypes, InOrder, AtHand, Aborted, HasTx,
                       FailureKnown, InPlace, Working,
     Sessions
<1>3. Booked(d)'
  <2>1. \A e \in Cmds : Pending(d, e) = 0 /\ Pending(d, e)' = 0
    BY DEF Pending, IInv, Types, ControlTypes
  <2> QED
    BY <2>1 DEF IInv, InOrder, Booked
<1> QED
  BY <1>1, <1>2, <1>3, StepOf DEF InOrder

\* A command that succeeds: its result is to come.
LEMMA ExecutedWell ==
    ASSUME IInv, NEW s \in Sessions, NEW D \in BOOLEAN, NEW next \in {"constraints", "update"},
           pc[s] = "execute", alive[s], text[cur[s]] # "commit", s \in Callers => next = "update",
           pc' = [pc EXCEPT ![s] = next], status' = [status EXCEPT ![s] = "ok"],
           Works(s, cur[s], D), UNCHANGED <<text, relVars, cur, failed, alive>>
    PROVE  IInv'
<1>1. cur[s] \in Cmds /\ tx[s].state = "open" /\ failed[s] = FALSE /\ lock[cur[s]] = s
  BY DEF IInv, Types, ControlTypes, TxType, InOrder, AtHand, Aborted, HasTx, FailureKnown, Working
<1>2. /\ tx' \in [Sessions -> TxType]
      /\ \A t \in Sessions \ {s} : tx'[t] = tx[t]
      /\ tx'[s].state = tx[s].state /\ tx'[s].good = tx[s].good
      /\ \A e \in Cmds : tx'[s].work[e] = tx[s].work[e] + IF e = cur[s] THEN 1 ELSE 0
  <2>1. Types /\ cur[s] \in Cmds
    BY <1>1 DEF IInv
  <2> QED
    BY <2>1, WorkDoes
<1>3. Types' /\ Frame(s) /\ EffectsMatchResults'
  BY <1>2 DEF IInv, Types, ControlTypes, Frame, EffectsMatchResults, relVars
<1>4. pc'[s] = next /\ status'[s] = "ok" /\ lock' = lock
  BY DEF IInv, Types, ControlTypes, relVars
<1>5. AtHand(s)' /\ Aborted(s)' /\ HasTx(s)' /\ FailureKnown(s)' /\ InPlace(s)'
  BY <1>1, <1>2, <1>4, SqlAssumption
     DEF IInv, InOrder, AtHand, Aborted, HasTx, FailureKnown, InPlace, Working, NoCmd
<1>6. Booked(s)'
  <2>1. \A e \in Cmds : Pending(s, e) = 0
    BY DEF Pending
  <2>2. \A e \in Cmds : Pending(s, e)' = IF e = cur[s] THEN 1 ELSE 0
    BY <1>1, <1>2, <1>4 DEF Pending
  <2>3. \A e \in Cmds : tx[s].good[e] \in Nat
    BY DEF IInv, Types, ControlTypes, TxType
  <2> QED
    BY <1>1, <1>2, <2>1, <2>2, <2>3 DEF IInv, InOrder, Booked
<1> QED
  BY <1>3, <1>5, <1>6, StepOf DEF InOrder

\* What fails leaves the transaction as it is, or aborted.
LEMMA FailedIll ==
    ASSUME IInv, NEW d \in Daemons, pc[d] \in {"execute", "constraints"}, Fails(d),
           \/ ~alive[d] /\ UNCHANGED tx
           \/ alive[d] /\ (pc[d] = "constraints" => tx[d].state = "open" /\ text[cur[d]] # "commit")
                /\ tx' = [tx EXCEPT ![d].state = "aborted"],
           UNCHANGED <<text, relVars, cur, alive>>
    PROVE  IInv'
<1> USE DEF Fails, Set, relVars
<1> d \in Sessions
  BY DEF Sessions
<1>1. cur[d] \in Cmds
  BY DEF IInv, Types, ControlTypes, InOrder, AtHand
<1>2. /\ tx' \in [Sessions -> TxType]
      /\ \A t \in Sessions \ {d} : tx'[t] = tx[t]
      /\ alive[d] => tx'[d].state = "aborted"
      /\ ~alive[d] => tx'[d] = NoTx
  <2>1. tx[d] \in TxType
    BY DEF IInv, Types, ControlTypes
  <2>2. [tx[d] EXCEPT !.state = "aborted"] \in TxType
        /\ [tx[d] EXCEPT !.state = "aborted"].state = "aborted"
    BY <2>1 DEF TxType
  <2>3. ~alive[d] => tx[d] = NoTx
    BY DEF IInv, InOrder, HasTx
  <2>4. tx \in [Sessions -> TxType]
    BY DEF IInv, Types, ControlTypes
  <2> QED
    BY <2>2, <2>3, <2>4
<1>3. Types' /\ Frame(d) /\ EffectsMatchResults'
  BY <1>2 DEF IInv, Types, ControlTypes, Frame, EffectsMatchResults
<1>4. AtHand(d)' /\ Aborted(d)' /\ HasTx(d)' /\ FailureKnown(d)' /\ InPlace(d)'
  BY <1>1, <1>2, SqlAssumption
     DEF IInv, Types, ControlTypes, InOrder, AtHand, Aborted, HasTx, FailureKnown, InPlace,
         Working, NoCmd, NoTx
<1>5. Booked(d)'
  <2>1. CASE alive[d]
    BY <1>2, <2>1 DEF Booked
  <2>2. CASE ~alive[d]
    <3>1. \A e \in Cmds : Pending(d, e)' = 0
      BY DEF Pending, IInv, Types, ControlTypes
    <3> QED
      BY <1>2, <2>2, <3>1 DEF Booked, NoTx, None
  <2> QED
    BY <2>1, <2>2
<1> QED
  BY <1>3, <1>4, <1>5, StepOf DEF InOrder

(* Executing the command's text keeps the invariant, whatever the text does to the transaction. *)
LEMMA ExecuteStep ==
    ASSUME IInv, NEW d \in Daemons, Execute(d)
    PROVE  IInv'
<1> USE DEF Execute
<1> d \in Sessions
  BY DEF Sessions
<1> DEFINE c == cur[d]
<1>1. c \in Cmds /\ tx[d] \in TxType
  BY DEF IInv, Types, ControlTypes, InOrder, AtHand
<1>2. CASE ~alive[d]
  BY <1>2, FailedIll
<1>3. CASE alive[d] /\ text[c] \in {"rows", "norows"}
  <2>1. tx' = [tx EXCEPT ![d].work = One(@, c)] /\ Succeeds(d)
    BY <1>3
  <2>2. Works(d, c, tx[d].deferred)
    <3>1. tx[d].deferred = [tx[d] EXCEPT !.work = One(@, c)].deferred
      BY <1>1 DEF TxType
    <3>2. [tx[d] EXCEPT !.work = One(@, c)]
            = [[tx[d] EXCEPT !.work = One(@, c)] EXCEPT !.deferred = tx[d].deferred]
      BY <1>1, <3>1 DEF TxType
    <3>3. tx \in [Sessions -> TxType]
      BY DEF IInv, Types, ControlTypes
    <3> QED
      BY <2>1, <3>2, <3>3 DEF Works
  <2>3. tx[d].deferred \in BOOLEAN
    BY <1>1 DEF TxType
  <2> QED
    BY <1>1, <1>3, <2>1, <2>2, <2>3, SqlAssumption, ExecutedWell DEF Succeeds, Set
<1>4. CASE alive[d] /\ text[c] = "error"
  BY <1>4, FailedIll
<1>5. CASE alive[d] /\ text[c] = "deferred"
  <2>1. Works(d, c, TRUE) /\ Succeeds(d) /\ UNCHANGED <<text, relVars, cur, alive>>
    BY <1>5 DEF Works
  <2> QED
    BY <1>5, <2>1, SqlAssumption, ExecutedWell DEF Succeeds, Set
<1>6. CASE alive[d] /\ text[c] = "commit"
  <2> USE DEF Succeeds, Set
  <2>1. /\ tx' = [tx EXCEPT ![d] = NoTx] /\ Release(d)
        /\ pc' = [pc EXCEPT ![d] = "constraints"] /\ status' = [status EXCEPT ![d] = "ok"]
        /\ effects' = One(effects, c)
        /\ UNCHANGED <<queue, results, text, failed, cur, alive>>
    BY <1>6
  <2>2. NoTx \in TxType /\ NoTx.state = "none"
    BY DEF NoTx, None, TxType
  <2>3. Types' /\ Frame(d) /\ EffectsMatchResults'
    BY <1>1, <1>6, <2>1, <2>2 DEF IInv, Types, ControlTypes, Frame, EffectsMatchResults,
                                  Release, One
  <2>4. pc'[d] = "constraints" /\ status'[d] = "ok" /\ tx'[d] = NoTx
    BY <2>1 DEF IInv, Types, ControlTypes
  <2>5. AtHand(d)' /\ Aborted(d)' /\ HasTx(d)' /\ FailureKnown(d)' /\ InPlace(d)'
    BY <1>1, <1>6, <2>1, <2>2, <2>4, SqlAssumption
       DEF IInv, InOrder, AtHand, Aborted, HasTx, FailureKnown, InPlace, Working, NoCmd
  <2>6. Booked(d)'
    <3>1. \A e \in Cmds : Pending(d, e)' = 0
      BY <2>2, <2>4 DEF Pending
    <3> QED
      BY <2>4, <3>1 DEF Booked, NoTx, None
  <2> QED
    BY <2>3, <2>5, <2>6, StepOf DEF InOrder
<1> QED
  BY <1>2, <1>3, <1>4, <1>5, <1>6

(* The death of a runner keeps the invariant: the server rolls back. *)
LEMMA DiesStep ==
    ASSUME IInv, NEW d \in Daemons, Dies(d)
    PROVE  IInv'
<1> USE DEF Dies, Set
<1> d \in Sessions
  BY DEF Sessions
<1>1. pc'[d] = "down" /\ cur'[d] = NoCmd /\ alive'[d] = FALSE /\ status' = status /\ failed' = failed
  BY DEF IInv, Types, ControlTypes
<1>2. OnlyOf(d) /\ ControlTypes'
  BY DEF IInv, Types, OnlyOf, ControlTypes
<1>3. AtHand(d)' /\ FailureKnown(d)' /\ InPlace(d)'
  BY <1>1, SqlAssumption DEF IInv, InOrder, AtHand, FailureKnown, InPlace
<1> QED
  BY <1>1, <1>2, <1>3, TxEnds

(* A lost connection keeps the invariant: the server rolls back. *)
LEMMA LoseConnStep ==
    ASSUME IInv, NEW d \in Daemons, LoseConn(d)
    PROVE  IInv'
<1> USE DEF LoseConn, Set
<1> d \in Sessions
  BY DEF Sessions
<1>1. alive'[d] = FALSE /\ UNCHANGED <<pc, cur, status, failed>>
  BY DEF IInv, Types, ControlTypes
<1>2. OnlyOf(d) /\ ControlTypes'
  BY DEF IInv, Types, OnlyOf, ControlTypes
<1>3. AtHand(d)' /\ FailureKnown(d)' /\ InPlace(d)'
  BY <1>1, SqlAssumption DEF IInv, InOrder, AtHand, FailureKnown, InPlace
<1> QED
  BY <1>1, <1>2, <1>3, TxEnds

(* SET CONSTRAINTS ALL IMMEDIATE keeps the invariant. *)
LEMMA SetConstraintsStep ==
    ASSUME IInv, NEW d \in Daemons, SetConstraints(d)
    PROVE  IInv'
<1> d \in Sessions
  BY DEF Sessions
<1>1. CASE ~alive[d] \/ tx[d].deferred
  <2>1. alive[d] => tx[d].state = "open" /\ text[cur[d]] # "commit"
    BY DEF SetConstraints, IInv, InOrder, HasTx
  <2> QED
    BY <1>1, <2>1, FailedIll DEF SetConstraints
<1>2. CASE alive[d] /\ ~tx[d].deferred
  <2>1. /\ pc' = [pc EXCEPT ![d] = "finish"] /\ pc[d] = "constraints" /\ tx[d].state = "open"
        /\ UNCHANGED <<text, relVars, cur, status, failed, alive, tx>>
    BY <1>2 DEF SetConstraints, Set
  <2>2. Types' /\ Frame(d) /\ EffectsMatchResults'
    BY <2>1 DEF IInv, Types, ControlTypes, Frame, EffectsMatchResults, relVars
  <2>3. AtHand(d)' /\ Aborted(d)' /\ HasTx(d)' /\ FailureKnown(d)' /\ InPlace(d)'
    <3>1. pc'[d] = "finish" /\ lock' = lock
      BY <2>1 DEF IInv, Types, ControlTypes, relVars
    <3>2. AtHand(d)' /\ Aborted(d)' /\ FailureKnown(d)' /\ InPlace(d)'
      BY <2>1, <3>1, SqlAssumption DEF IInv, InOrder, AtHand, Aborted, FailureKnown, InPlace
    <3>3. HasTx(d)'
      <4>1. text[cur[d]] # "commit" /\ alive[d]
        BY <1>2, <2>1 DEF IInv, InOrder, HasTx
      <4> QED
        BY <2>1, <3>1, <4>1 DEF IInv, InOrder, HasTx, Working
    <3> QED
      BY <3>2, <3>3
  <2>4. Booked(d)'
    <3>1. \A e \in Cmds : Pending(d, e)' = Pending(d, e)
      BY <2>1 DEF Pending, IInv, Types, ControlTypes
    <3> QED
      BY <2>1, <3>1 DEF IInv, InOrder, Booked
  <2> QED
    BY <2>2, <2>3, <2>4, StepOf DEF InOrder
<1> QED
  BY <1>1, <1>2

(* Rolling back what a failed command did keeps the invariant. *)
LEMMA FinishStep ==
    ASSUME IInv, NEW d \in Daemons, Finish(d)
    PROVE  IInv'
<1> d \in Sessions
  BY DEF Sessions
<1> DEFINE fresh == [NoTx EXCEPT !.state = "open"]
<1>1. pc[d] = "finish" /\ pc'[d] = "update" /\ UNCHANGED <<text, lock, cur, status, failed, alive>>
  BY DEF Finish, Goto, Set, relVars, IInv, Types, ControlTypes
<1>2. fresh \in TxType /\ fresh.state = "open" /\ fresh.work = None /\ fresh.good = None
  BY DEF NoTx, None, TxType
<1> HIDE DEF fresh
<1>3. /\ tx' \in [Sessions -> TxType]
      /\ \A t \in Sessions \ {d} : tx'[t] = tx[t]
      /\ tx'[d] = IF alive[d] /\ failed[d] THEN fresh ELSE tx[d]
  BY <1>2 DEF fresh, IInv, Types, ControlTypes, Finish, Goto, Set
<1>4. Types' /\ Frame(d) /\ EffectsMatchResults'
  BY <1>3 DEF IInv, Types, ControlTypes, Frame, EffectsMatchResults, Finish, Goto, Set, relVars
<1>5. AtHand(d)' /\ Aborted(d)' /\ FailureKnown(d)' /\ InPlace(d)'
  <2>1. Aborted(d)'
    BY <1>2, <1>3 DEF IInv, InOrder, Aborted, HasTx, NoTx
  <2> QED
    BY <1>1, <1>2, <2>1, SqlAssumption DEF IInv, InOrder, AtHand, FailureKnown, InPlace
<1>6. HasTx(d)'
  BY <1>1, <1>2, <1>3 DEF IInv, InOrder, HasTx, Working
<1>7. Booked(d)'
  <2>1. CASE alive[d] /\ failed[d]
    <3>1. \A e \in Cmds : Pending(d, e)' = 0
      BY <1>1, <2>1 DEF Pending, IInv, InOrder, FailureKnown
    <3> QED
      BY <1>1, <1>2, <1>3, <2>1, <3>1 DEF Booked, None
  <2>2. CASE ~(alive[d] /\ failed[d])
    <3>1. \A e \in Cmds : Pending(d, e)' = Pending(d, e)
      BY <1>1, <1>3, <2>2 DEF Pending
    <3> QED
      BY <1>1, <1>3, <2>2, <3>1 DEF IInv, InOrder, Booked
  <2> QED
    BY <2>1, <2>2
<1> QED
  BY <1>4, <1>5, <1>6, <1>7, StepOf DEF InOrder

\* The result is booked for the effects that are pending.
LEMMA Recorded ==
    ASSUME IInv, NEW s \in Sessions, pc[s] = "update", alive[s], Record(s, cur[s]),
           OnlyOf(s), ControlTypes', UNCHANGED <<text, relVars>>,
           AtHand(s)', FailureKnown(s)', InPlace(s)',
           alive' = alive, pc'[s] \in {"end", "iterate"}
    PROVE  IInv'
<1> DEFINE c == cur[s]
           g == IF status[s] = "ok" THEN One(tx[s].good, c) ELSE tx[s].good
           n == IF trigger[c] = "delete" THEN tx[s].gone \cup {c} ELSE tx[s].gone
           r == [[tx[s] EXCEPT !.good = g] EXCEPT !.gone = n]
<1>1. c \in Cmds /\ tx[s] \in TxType /\ tx[s].state = "open"
  <2>1. c \in Cmds /\ tx[s] \in TxType
    BY DEF IInv, Types, ControlTypes, InOrder, AtHand
  <2> QED
    BY <2>1 DEF IInv, InOrder, HasTx, Aborted, Working, TxType
<1>2. /\ g \in [Cmds -> Nat]
      /\ \A e \in Cmds : g[e] = tx[s].good[e] + IF e = c /\ status[s] = "ok" THEN 1 ELSE 0
  BY <1>1 DEF TxType, One
<1>3. n \in SUBSET Cmds
  BY <1>1 DEF TxType
<1>4. tx' = [tx EXCEPT ![s] = r]
  BY DEF Record, IInv, Types, ControlTypes
<1> HIDE DEF g, n
<1>5. r \in TxType /\ r.state = "open" /\ r.work = tx[s].work /\ r.good = g
  BY <1>1, <1>2, <1>3 DEF TxType
<1> HIDE DEF r
<1>6. tx' \in [Sessions -> TxType] /\ tx'[s] = r /\ \A t \in Sessions \ {s} : tx'[t] = tx[t]
  BY <1>4, <1>5 DEF IInv, Types, ControlTypes
<1>7. Types' /\ Frame(s) /\ EffectsMatchResults'
  BY <1>6 DEF IInv, Types, Frame, EffectsMatchResults, relVars, OnlyOf, ControlTypes
<1>8. Aborted(s)' /\ HasTx(s)'
  BY <1>5, <1>6 DEF Aborted, HasTx, Working
<1>9. Booked(s)'
  <2>1. \A e \in Cmds : Pending(s, e)' = 0
    BY DEF Pending
  <2>2. \A e \in Cmds : Pending(s, e) = IF e = c /\ status[s] = "ok" THEN 1 ELSE 0
    BY <1>1 DEF Pending
  <2>3. \A e \in Cmds : text[e] # "commit" => tx[s].work[e] = tx[s].good[e] + Pending(s, e)
    BY <1>1 DEF IInv, InOrder, Booked
  <2>4. \A e \in Cmds : tx[s].good[e] \in Nat
    BY <1>1 DEF TxType
  <2> QED
    BY <1>2, <1>5, <1>6, <2>1, <2>2, <2>3, <2>4 DEF Booked
<1> QED
  BY <1>7, <1>8, <1>9, StepOf DEF InOrder

(* Writing the result to the row keeps the invariant. *)
LEMMA UpdateStep ==
    ASSUME IInv, NEW d \in Daemons, Update(d)
    PROVE  IInv'
<1> d \in Sessions
  BY DEF Sessions
<1>1. /\ pc[d] = "update" /\ pc' = [pc EXCEPT ![d] = "end"] /\ pc'[d] = "end"
      /\ UNCHANGED <<text, cur, status, failed, alive>>
  BY DEF Update, Goto, IInv, Types, ControlTypes
<1>2. OnlyOf(d) /\ ControlTypes'
  BY <1>1 DEF IInv, Types, OnlyOf, ControlTypes
<1>3. AtHand(d)' /\ FailureKnown(d)' /\ InPlace(d)'
  BY <1>1, SqlAssumption DEF IInv, InOrder, AtHand, FailureKnown, InPlace
<1>4. CASE ~alive[d]
  <2>1. UNCHANGED <<relVars, tx>>
    BY <1>4 DEF Update
  <2>2. Types' /\ Frame(d) /\ EffectsMatchResults'
    BY <1>1, <1>2, <2>1 DEF IInv, Types, Frame, EffectsMatchResults, relVars, ControlTypes
  <2>3. Aborted(d)' /\ HasTx(d)' /\ Booked(d)'
    <3>1. tx'[d] = NoTx /\ ~alive'[d]
      BY <1>1, <1>4, <2>1 DEF IInv, InOrder, HasTx
    <3>2. \A e \in Cmds : Pending(d, e)' = 0
      BY <1>1 DEF Pending
    <3> QED
      BY <1>1, <3>1, <3>2 DEF Aborted, HasTx, Booked, NoTx, None
  <2> QED
    BY <1>3, <2>2, <2>3, StepOf DEF InOrder
<1>5. CASE alive[d] /\ trigger[cur[d]] = "raise"
  <2>1. Rollback(d)
    BY <1>5 DEF Update
  <2>2. ~Working(d)'
    BY <1>1 DEF Working
  <2> QED
    BY <1>2, <1>3, <2>1, <2>2, TxEnds
<1>6. CASE alive[d] /\ trigger[cur[d]] # "raise"
  <2>1. Record(d, cur[d]) /\ UNCHANGED relVars
    BY <1>6 DEF Update
  <2> QED
    BY <1>1, <1>2, <1>3, <1>6, <2>1, Recorded
<1> QED
  BY <1>4, <1>5, <1>6

(* The COMMIT after a command keeps the invariant. *)
LEMMA EndStep ==
    ASSUME IInv, NEW d \in Daemons, End(d)
    PROVE  IInv'
<1> d \in Sessions
  BY DEF Sessions
<1>1. /\ pc[d] = "end" /\ pc' = [pc EXCEPT ![d] = "select"] /\ pc'[d] = "select"
      /\ cur' = [cur EXCEPT ![d] = NoCmd] /\ cur'[d] = NoCmd
      /\ alive' = [alive EXCEPT ![d] = TRUE]
      /\ UNCHANGED <<text, status, failed>> /\ Commit(d)
  BY DEF End, Goto, Set, IInv, Types, ControlTypes
<1>2. OnlyOf(d) /\ ControlTypes'
  BY <1>1 DEF IInv, Types, OnlyOf, ControlTypes
<1>3. AtHand(d)' /\ FailureKnown(d)' /\ InPlace(d)'
  BY <1>1, SqlAssumption DEF IInv, InOrder, AtHand, FailureKnown, InPlace
<1>4. ~Working(d)'
  BY <1>1 DEF Working
<1> QED
  BY <1>1, <1>2, <1>3, <1>4, TxEnds

(* Starting the daemon again keeps the invariant. *)
LEMMA RestartStep ==
    ASSUME IInv, NEW d \in Daemons, Restart(d)
    PROVE  IInv'
<1> d \in Sessions
  BY DEF Sessions
<1>1. /\ pc[d] = "down" /\ pc' = [pc EXCEPT ![d] = "select"] /\ pc'[d] = "select"
      /\ alive' = [alive EXCEPT ![d] = TRUE] /\ alive'[d]
      /\ UNCHANGED <<text, queue, lock, effects, results, tx, cur, status, failed>>
  BY DEF Restart, Goto, Set, relVars, IInv, Types, ControlTypes
<1>2. Types' /\ Frame(d) /\ EffectsMatchResults'
  BY <1>1 DEF IInv, Types, ControlTypes, Frame, EffectsMatchResults
<1>3. AtHand(d)' /\ Aborted(d)' /\ HasTx(d)' /\ FailureKnown(d)' /\ InPlace(d)'
  BY <1>1, SqlAssumption
     DEF IInv, InOrder, AtHand, Aborted, HasTx, FailureKnown, InPlace, Working
<1>4. Booked(d)'
  <2>1. \A e \in Cmds : Pending(d, e) = 0 /\ Pending(d, e)' = 0
    BY <1>1 DEF Pending
  <2> QED
    BY <1>1, <2>1 DEF IInv, InOrder, Booked
<1> QED
  BY <1>2, <1>3, <1>4, StepOf DEF InOrder
-----------------------------------------------------------------------------
(* The steps of the callers *)

(* Calling the procedure keeps the invariant. *)
LEMMA CallStep ==
    ASSUME IInv, NEW p \in Callers, CallProcedure(p)
    PROVE  IInv'
<1> p \in Sessions
  BY DEF Sessions
<1> DEFINE r == [tx[p] EXCEPT !.state = "open"]
<1>1. /\ pc[p] = "call" /\ pc' = [pc EXCEPT ![p] = "select"] /\ pc'[p] = "select"
      /\ tx' = [tx EXCEPT ![p] = r]
      /\ UNCHANGED <<text, queue, lock, effects, results, cur, status, failed, alive>>
  BY DEF CallProcedure, Goto, relVars, IInv, Types, ControlTypes
<1>2. tx[p].state # "aborted" /\ alive[p] /\ ~failed[p]
  BY <1>1 DEF IInv, InOrder, Aborted, InPlace
<1>3. r \in TxType /\ r.state = "open" /\ r.work = tx[p].work /\ r.good = tx[p].good
  <2>1. tx[p] \in TxType
    BY DEF IInv, Types, ControlTypes
  <2> QED
    BY <2>1 DEF TxType
<1> HIDE DEF r
<1>4. tx' \in [Sessions -> TxType] /\ tx'[p] = r /\ \A t \in Sessions \ {p} : tx'[t] = tx[t]
  BY <1>1, <1>3 DEF IInv, Types, ControlTypes
<1>5. Types' /\ Frame(p) /\ EffectsMatchResults'
  BY <1>1, <1>4 DEF IInv, Types, ControlTypes, Frame, EffectsMatchResults
<1>6. AtHand(p)' /\ Aborted(p)' /\ HasTx(p)' /\ FailureKnown(p)' /\ InPlace(p)'
  <2>1. Aborted(p)' /\ HasTx(p)'
    BY <1>1, <1>2, <1>3, <1>4 DEF Aborted, HasTx, Working
  <2>2. InPlace(p)'
    BY <1>1, <1>2, <1>3, <1>4, SqlAssumption DEF InPlace
  <2> QED
    BY <1>1, <1>2, <2>1, <2>2 DEF IInv, InOrder, AtHand, FailureKnown
<1>7. Booked(p)'
  <2>1. \A e \in Cmds : Pending(p, e) = 0 /\ Pending(p, e)' = 0
    BY <1>1 DEF Pending
  <2> QED
    BY <1>1, <1>2, <1>3, <1>4, <2>1 DEF IInv, InOrder, Booked
<1> QED
  BY <1>5, <1>6, <1>7, StepOf DEF InOrder

(* The procedure's SELECT keeps the invariant. *)
LEMMA SelectStep ==
    ASSUME IInv, NEW p \in Callers, Select(p)
    PROVE  IInv'
<1> p \in Sessions
  BY DEF Sessions
<1>1. PICK c \in Oldest(Eligible(p)) : ClaimRow(p, c)
  BY DEF Select
<1>2. c \in Cmds /\ lock[c] \in {Free, p}
  BY DEF Oldest, Eligible, IInv, Types, ControlTypes
<1>3. /\ pc[p] = "select" /\ pc' = [pc EXCEPT ![p] = "execute"] /\ pc'[p] = "execute"
      /\ cur' = [cur EXCEPT ![p] = c] /\ cur'[p] = c
      /\ lock' = [lock EXCEPT ![c] = p] /\ lock'[c] = p
      /\ status' = [status EXCEPT ![p] = "none"] /\ failed' = [failed EXCEPT ![p] = FALSE]
      /\ failed'[p] = FALSE
      /\ UNCHANGED <<text, queue, effects, results, tx, alive>>
  BY <1>1, <1>2 DEF Select, Goto, ClaimRow, Set, IInv, Types, ControlTypes
<1>4. Types' /\ Frame(p) /\ EffectsMatchResults'
  BY <1>2, <1>3, SqlAssumption DEF IInv, Types, ControlTypes, Frame, EffectsMatchResults, Sessions
<1>5. AtHand(p)' /\ Aborted(p)' /\ HasTx(p)' /\ FailureKnown(p)' /\ InPlace(p)'
  BY <1>2, <1>3, SqlAssumption
     DEF IInv, InOrder, AtHand, Aborted, HasTx, FailureKnown, InPlace, Working, NoCmd
<1>6. Booked(p)'
  <2>1. \A e \in Cmds : Pending(p, e) = 0 /\ Pending(p, e)' = 0
    BY <1>3 DEF Pending
  <2> QED
    BY <1>3, <2>1 DEF IInv, InOrder, Booked
<1> QED
  BY <1>4, <1>5, <1>6, StepOf DEF InOrder

\* A caller goes on to another step in the same transaction, with no command in hand.
LEMMA GoesOn ==
    ASSUME IInv, NEW p \in Callers, NEW next \in {"select", "iterate", "return"},
           pc[p] \in {"select", "iterate"}, pc' = [pc EXCEPT ![p] = next],
           UNCHANGED <<text, relVars, tx, cur, status, failed, alive>>
    PROVE  IInv'
<1> p \in Sessions
  BY DEF Sessions
<1>1. pc'[p] = next /\ UNCHANGED <<lock, effects, results>>
  BY DEF IInv, Types, ControlTypes, relVars
<1>2. Types' /\ Frame(p) /\ EffectsMatchResults'
  BY <1>1 DEF IInv, Types, ControlTypes, Frame, EffectsMatchResults, relVars
<1>3. AtHand(p)' /\ Aborted(p)' /\ HasTx(p)' /\ FailureKnown(p)' /\ InPlace(p)'
  BY <1>1, SqlAssumption
     DEF IInv, InOrder, AtHand, Aborted, HasTx, FailureKnown, InPlace, Working
<1>4. Booked(p)'
  <2>1. \A e \in Cmds : Pending(p, e) = 0 /\ Pending(p, e)' = 0
    BY <1>1 DEF Pending
  <2> QED
    BY <2>1 DEF IInv, InOrder, Booked
<1> QED
  BY <1>2, <1>3, <1>4, StepOf DEF InOrder

\* A CALL ends: its transaction is rolled back, or committed with no result to come.
LEMMA CallEnds ==
    ASSUME IInv, NEW p \in Callers, Ends(p), UNCHANGED <<text, status, failed, alive>>,
           \/ Rollback(p)
           \/ Commit(p) /\ pc[p] \notin {"constraints", "finish", "update"}
    PROVE  IInv'
<1> p \in Sessions
  BY DEF Sessions
<1>1. pc'[p] = "ended" /\ cur'[p] = NoCmd
  BY DEF Ends, Set, IInv, Types, ControlTypes
<1>2. OnlyOf(p) /\ ControlTypes'
  BY DEF Ends, Set, IInv, Types, OnlyOf, ControlTypes
<1>3. AtHand(p)' /\ FailureKnown(p)' /\ InPlace(p)' /\ ~Working(p)'
  BY <1>1, SqlAssumption DEF IInv, InOrder, AtHand, FailureKnown, InPlace, Working
<1> QED
  BY <1>2, <1>3, TxEnds

(* The procedure's exception block keeps the invariant, whichever way it ends. *)
LEMMA ExecuteInBlockStep ==
    ASSUME IInv, NEW p \in Callers, ExecuteInBlock(p)
    PROVE  IInv'
<1> p \in Sessions
  BY DEF Sessions
<1> DEFINE c == cur[p]
<1>1. /\ pc[p] = "execute" /\ pc' = [pc EXCEPT ![p] = "update"] /\ pc'[p] = "update"
      /\ UNCHANGED <<text, queue, lock, effects, results, cur, failed, alive>>
  BY DEF ExecuteInBlock, Goto, relVars, IInv, Types, ControlTypes
<1>2. c \in Cmds /\ tx[p] \in TxType /\ tx[p].state = "open" /\ lock[c] = p /\ alive[p] /\ ~failed[p]
  BY <1>1 DEF IInv, Types, ControlTypes, InOrder, AtHand, HasTx, InPlace, Working
<1>3. CASE text[c] \in {"rows", "notice", "deferred"}
  <2>1. /\ Works(p, c, tx[p].deferred \/ text[c] = "deferred")
        /\ status' = [status EXCEPT ![p] = "ok"]
    <3>1. tx[p].deferred = [tx[p] EXCEPT !.work = One(@, c)].deferred
      BY <1>2 DEF TxType
    <3> QED
      BY <1>2, <1>3, <3>1 DEF ExecuteInBlock, Set, Works, IInv, Types, ControlTypes
  <2> QED
    BY <1>1, <1>2, <1>3, <2>1, ExecutedWell DEF relVars
<1>4. CASE text[c] \notin {"rows", "notice", "deferred"}
  <2>1. status' = [status EXCEPT ![p] = "fatal"] /\ status'[p] = "fatal" /\ tx' = tx
    BY <1>4 DEF ExecuteInBlock, Set, IInv, Types, ControlTypes
  <2>2. Types' /\ Frame(p) /\ EffectsMatchResults'
    BY <1>1, <2>1 DEF IInv, Types, ControlTypes, Frame, EffectsMatchResults
  <2>3. AtHand(p)' /\ Aborted(p)' /\ HasTx(p)' /\ FailureKnown(p)' /\ InPlace(p)'
    BY <1>1, <1>2, <2>1, SqlAssumption
       DEF IInv, InOrder, AtHand, Aborted, HasTx, FailureKnown, InPlace, Working, NoCmd
  <2>4. Booked(p)'
    <3>1. \A e \in Cmds : Pending(p, e) = 0 /\ Pending(p, e)' = 0
      BY <1>1, <2>1 DEF Pending
    <3> QED
      BY <1>1, <2>1, <3>1 DEF IInv, InOrder, Booked
  <2> QED
    BY <2>2, <2>3, <2>4, StepOf DEF InOrder
<1> QED
  BY <1>3, <1>4

(* The procedure's UPDATE keeps the invariant, also when a trigger raises an error. *)
LEMMA UpdateInCallStep ==
    ASSUME IInv, NEW p \in Callers, UpdateInCall(p)
    PROVE  IInv'
<1> p \in Sessions
  BY DEF Sessions
<1>1. pc[p] = "update" /\ UNCHANGED <<text, status, failed, alive>> /\ alive[p]
  BY DEF UpdateInCall, IInv, InOrder, InPlace
<1>2. CASE trigger[cur[p]] = "raise"
  BY <1>1, <1>2, CallEnds DEF UpdateInCall
<1>3. CASE trigger[cur[p]] # "raise"
  <2>1. /\ Record(p, cur[p]) /\ UNCHANGED relVars
        /\ pc' = [pc EXCEPT ![p] = "iterate"] /\ cur' = [cur EXCEPT ![p] = NoCmd]
        /\ pc'[p] = "iterate" /\ cur'[p] = NoCmd
    BY <1>3 DEF UpdateInCall, Set, IInv, Types, ControlTypes
  <2>2. OnlyOf(p) /\ ControlTypes'
    BY <1>1, <2>1 DEF IInv, Types, OnlyOf, ControlTypes
  <2>3. AtHand(p)' /\ FailureKnown(p)'
    BY <1>1, <2>1 DEF IInv, InOrder, AtHand, FailureKnown
  <2>4. InPlace(p)'
    <3>1. tx'[p].state = tx[p].state
      BY <2>1 DEF Record, IInv, Types, ControlTypes, TxType
    <3> QED
      BY <1>1, <2>1, <3>1, SqlAssumption DEF IInv, InOrder, InPlace
  <2> QED
    BY <1>1, <2>1, <2>2, <2>3, <2>4, Recorded
<1> QED
  BY <1>2, <1>3

(* The end of an iteration keeps the invariant. *)
LEMMA IterateStep ==
    ASSUME IInv, NEW p \in Callers, Iterate(p)
    PROVE  IInv'
<1> DEFINE next == IF call[p].max # 0 /\ iter[p] + 1 = call[p].max THEN "return" ELSE "select"
<1>1. /\ pc[p] = "iterate" /\ pc' = [pc EXCEPT ![p] = next]
      /\ UNCHANGED <<text, relVars, tx, cur, status, failed, alive>>
  BY DEF Iterate, Set
<1>2. next \in {"select", "iterate", "return"}
  OBVIOUS
<1> QED
  BY <1>1, <1>2, GoesOn

(* A SELECT that finds nothing keeps the invariant. *)
LEMMA SelectNoneStep ==
    ASSUME IInv, NEW p \in Callers, SelectNone(p)
    PROVE  IInv'
<1> DEFINE next == IF call[p].untilEmpty THEN "return" ELSE "iterate"
<1>1. /\ pc[p] = "select" /\ pc' = [pc EXCEPT ![p] = next]
      /\ UNCHANGED <<text, relVars, tx, cur, status, failed, alive>>
  BY DEF SelectNone, Set
<1>2. next \in {"select", "iterate", "return"}
  OBVIOUS
<1> QED
  BY <1>1, <1>2, GoesOn
-----------------------------------------------------------------------------
(* The theorems *)

(* The invariant holds at the start. *)
LEMMA InitOK == CallInit => IInv
<1> SUFFICES ASSUME CallInit PROVE IInv
  OBVIOUS
<1> USE DEF CallInit, Init
<1>1. NoTx \in TxType /\ None \in [Cmds -> Nat] /\ NoTx.state = "none"
  BY DEF NoTx, None, TxType
<1>2. Types
  BY <1>1, SqlAssumption DEF Types, ControlTypes, Sessions
<1>3. EffectsMatchResults
  BY DEF EffectsMatchResults
<1>4. ASSUME NEW s \in Sessions PROVE InOrder(s)
  <2>1. /\ tx[s] = NoTx /\ pc[s] \in {"select", "call"} /\ cur[s] = NoCmd /\ status[s] = "none"
        /\ ~failed[s] /\ alive[s]
    OBVIOUS
  <2>2. (s \in Daemons => pc[s] = "select") /\ (s \in Callers => pc[s] = "call")
    BY SqlAssumption DEF Sessions
  <2>3. Booked(s)
    BY <2>1 DEF Booked, Pending, NoTx, None
  <2> QED
    BY <1>1, <2>1, <2>2, <2>3
       DEF InOrder, AtHand, Aborted, HasTx, FailureKnown, InPlace, Working
<1> QED
  BY <1>2, <1>3, <1>4 DEF IInv

(* Every step keeps the invariant. *)
LEMMA Inductive == IInv /\ [Next]_vars => IInv'
<1> SUFFICES ASSUME IInv, [Next]_vars PROVE IInv'
  OBVIOUS
<1>1. ASSUME NEW d \in Daemons, Runner(d) PROVE IInv'
  <2>1. ASSUME NoticeKills(d) PROVE IInv'
    BY <2>1, DiesStep DEF NoticeKills
  <2> QED
    BY <1>1, <2>1, ClaimStep, EnterRoundStep, SavepointStep, ExecuteStep, SetConstraintsStep,
       FinishStep, UpdateStep, EndStep, RestartStep DEF Runner
<1>2. ASSUME NEW d \in Daemons, LoseConn(d) \/ Crash(d) PROVE IInv'
  BY <1>2, LoseConnStep, DiesStep DEF Crash
<1>3. ASSUME NEW p \in Callers, Caller(p) PROVE IInv'
  <2>1. ASSUME CommitFails(p) PROVE IInv'
    BY <2>1, CallEnds DEF CommitFails
  <2>2. ASSUME Return(p) PROVE IInv'
    BY <2>2, CallEnds DEF Return
  <2> QED
    BY <1>3, <2>1, <2>2, CallStep, SelectStep, SelectNoneStep, ExecuteInBlockStep,
       UpdateInCallStep, IterateStep DEF Caller
<1>4. ASSUME NEW p \in Callers, Cancel(p) PROVE IInv'
  BY <1>4, CallEnds DEF Cancel
<1>5. CASE UNCHANGED vars
  <2>1. \A s \in Sessions : Working(s)' <=> Working(s)
    BY <1>5 DEF vars, Working
  <2>2. \A s \in Sessions, c \in Cmds : Pending(s, c)' = Pending(s, c)
    BY <1>5 DEF vars, Pending
  <2> QED
    BY <1>5, <2>1, <2>2 DEF vars, relVars, IInv, Types, ControlTypes, EffectsMatchResults,
                            InOrder, AtHand, Aborted,
       HasTx, FailureKnown, InPlace, Booked
<1> QED
  BY <1>1, <1>2, <1>3, <1>4, <1>5 DEF Next

\* For any number of commands, runners and callers, and any faults: what a command
\* did is committed if and only if its result of success is, so that neither a lost
\* connection, a crash, a cancelled CALL, a deferred constraint nor a trigger that
\* refuses the result parts the two.
THEOREM EffectsAreRecorded == Spec => []EffectsMatchResults
<1>1. IInv => EffectsMatchResults
  BY DEF IInv
<1> QED
  BY InitOK, Inductive, <1>1, PTL DEF Spec

\* And from its SELECT to the end of the transaction the row of a command stays
\* locked by the session that runs it, also after a failure halfway.
THEOREM RowsStayLocked == Spec => []ClaimHeld
<1>1. IInv => ClaimHeld
  <2> SUFFICES ASSUME IInv, NEW s \in Sessions, alive[s], cur[s] # NoCmd, pc[s] # "end",
                      text[cur[s]] # "commit"
               PROVE  lock[cur[s]] = s /\ tx[s].state # "none"
    BY DEF ClaimHeld
  <2>1. Working(s)
    BY DEF IInv, InOrder, AtHand, Working
  <2> QED
    BY <2>1 DEF IInv, InOrder, HasTx
<1> QED
  BY InitOK, Inductive, <1>1, PTL DEF Spec
-----------------------------------------------------------------------------
(* Errors *)

\* A runner has an error exactly if it has a failure to record; a caller with a
\* failure to record has one.
Told(s) ==
    /\ s \in Daemons =>
         /\ pc[s] \in {"savepoint", "execute"} => ~error[s] /\ status[s] # "fatal"
         /\ pc[s] \in {"constraints", "finish", "update"} => (error[s] <=> status[s] = "fatal")
    /\ s \in Callers => (pc[s] = "update" /\ status[s] = "fatal" => error[s])

ToldInv == IInv /\ error \in [Sessions -> BOOLEAN] /\ \A s \in Sessions : Told(s)

\* A step of session s leaves the errors of the others alone.
ErrorOf(s) ==
    /\ error' \in [Sessions -> BOOLEAN]
    /\ \A t \in Sessions \ {s} : /\ pc'[t] = pc[t] /\ status'[t] = status[t]
                                 /\ error'[t] = error[t]

(* A step that changes one session's error is judged by that session alone. *)
LEMMA ToldStepOf ==
    ASSUME ToldInv, NEW s \in Sessions, ErrorOf(s), Told(s)', IInv'
    PROVE  ToldInv'
BY DEF ToldInv, Told, ErrorOf

(* A step of a runner leaves its error and the failure it will record in agreement, and the other sessions' errors alone. *)
LEMMA RunnerTells ==
    ASSUME ToldInv, NEW d \in Daemons, Runner(d) \/ LoseConn(d) \/ Crash(d)
    PROVE  ErrorOf(d) /\ Told(d)'
<1> d \in Sessions /\ d \notin Callers
  BY SqlAssumption DEF Sessions
<1>1. /\ pc \in [Sessions -> {"select", "savepoint", "execute", "constraints", "finish",
                              "update", "end", "down", "call", "iterate", "return", "ended"}]
      /\ status \in [Sessions -> {"none", "ok", "fatal"}]
      /\ error \in [Sessions -> BOOLEAN] /\ Told(d)
  BY DEF ToldInv, IInv, Types, ControlTypes
<1> USE <1>1 DEF Goto, Set, ErrorOf, Told
<1>2. CASE Claim(d)
  BY <1>2 DEF Claim, ClaimRow
<1>3. CASE EnterRound(d)
  BY <1>3 DEF EnterRound
<1>4. CASE Savepoint(d)
  BY <1>4 DEF Savepoint
<1>5. CASE Execute(d)
  BY <1>5 DEF Execute, Fails, Succeeds
<1>6. CASE NoticeKills(d) \/ Crash(d)
  BY <1>6 DEF NoticeKills, Crash, Dies
<1>7. CASE SetConstraints(d)
  BY <1>7 DEF SetConstraints, Fails
<1>8. CASE Finish(d)
  BY <1>8 DEF Finish
<1>9. CASE Update(d)
  BY <1>9 DEF Update
<1>10. CASE End(d)
  BY <1>10 DEF End
<1>11. CASE Restart(d)
  BY <1>11 DEF Restart
<1>12. CASE LoseConn(d)
  BY <1>12 DEF LoseConn
<1> QED
  BY <1>2, <1>3, <1>4, <1>5, <1>6, <1>7, <1>8, <1>9, <1>10, <1>11, <1>12 DEF Runner

(* A step of a caller leaves it with an error for a failure it will record, and the other sessions' errors alone. *)
LEMMA CallerTells ==
    ASSUME ToldInv, NEW p \in Callers, Caller(p) \/ Cancel(p)
    PROVE  ErrorOf(p) /\ Told(p)'
<1> p \in Sessions /\ p \notin Daemons
  BY SqlAssumption DEF Sessions
<1>1. /\ pc \in [Sessions -> {"select", "savepoint", "execute", "constraints", "finish",
                              "update", "end", "down", "call", "iterate", "return", "ended"}]
      /\ status \in [Sessions -> {"none", "ok", "fatal"}]
      /\ error \in [Sessions -> BOOLEAN] /\ Told(p)
  BY DEF ToldInv, IInv, Types, ControlTypes
<1> USE <1>1 DEF Goto, Set, Ends, ErrorOf, Told
<1>2. CASE CallProcedure(p)
  BY <1>2 DEF CallProcedure
<1>3. CASE Select(p)
  BY <1>3 DEF Select, ClaimRow
<1>4. CASE SelectNone(p)
  BY <1>4 DEF SelectNone
<1>5. CASE ExecuteInBlock(p)
  BY <1>5 DEF ExecuteInBlock
<1>6. CASE UpdateInCall(p)
  BY <1>6 DEF UpdateInCall
<1>7. CASE Iterate(p)
  BY <1>7 DEF Iterate
<1>8. CASE CommitFails(p) \/ Return(p)
  BY <1>8 DEF CommitFails, Return
<1>9. CASE Cancel(p)
  BY <1>9 DEF Cancel
<1> QED
  BY <1>2, <1>3, <1>4, <1>5, <1>6, <1>7, <1>8, <1>9 DEF Caller

\* For any number of commands, runners and callers, and any faults: a failure is
\* recorded with its error, and a success of a runner without one.
THEOREM ErrorsAreTold == Spec => []ErrorIsOwn
<1>1. CallInit => ToldInv
  BY InitOK DEF CallInit, Init, ToldInv, Told
<1>2. ToldInv /\ [Next]_vars => ToldInv'
  <2> SUFFICES ASSUME ToldInv, [Next]_vars PROVE ToldInv'
    OBVIOUS
  <2>1. IInv'
    BY Inductive DEF ToldInv
  <2>2. ASSUME NEW d \in Daemons, Runner(d) \/ LoseConn(d) \/ Crash(d) PROVE ToldInv'
    BY <2>1, <2>2, RunnerTells, ToldStepOf DEF Sessions
  <2>3. ASSUME NEW p \in Callers, Caller(p) \/ Cancel(p) PROVE ToldInv'
    BY <2>1, <2>3, CallerTells, ToldStepOf DEF Sessions
  <2>4. CASE UNCHANGED vars
    BY <2>1, <2>4 DEF vars, ToldInv, Told
  <2> QED
    BY <2>2, <2>3, <2>4 DEF Next
<1>3. ToldInv => ErrorIsOwn
  BY SqlAssumption DEF ToldInv, Told, ErrorIsOwn, Sessions
<1> QED
  BY <1>1, <1>2, <1>3, PTL DEF Spec

-----------------------------------------------------------------------------
(* Commands that are run once *)

OneOff(c) == trigger[c] = "delete" /\ text[c] # "commit"

\* The effects of c are committed once, and only when its row is gone.
Counted(c) == OneOff(c) => effects[c] <= 1 /\ (c \in queue => effects[c] = 0)

\* Session s is the only one that works on what it works on.
Sole(s) ==
    /\ \A c \in Cmds : OneOff(c) =>
         /\ tx[s].good[c] > 0 => c \in tx[s].gone
         /\ tx[s].work[c] <= 1
         /\ tx[s].work[c] > 0 => lock[c] = s /\ c \in queue
    /\ \A c \in tx[s].gone : lock[c] = s
    /\ alive[s] /\ Working(s) => cur[s] \in queue \ tx[s].gone

OnceInv == IInv /\ (\A c \in Cmds : Counted(c)) /\ \A s \in Sessions : Sole(s)

\* A step of session s takes from the queue only what it has locked, and leaves the
\* other sessions and their locks alone.
Alone(s) ==
    /\ text' = text /\ trigger' = trigger
    /\ queue' \subseteq queue /\ \A c \in queue : lock[c] # s => c \in queue'
    /\ \A c \in Cmds : \A t \in Sessions \ {s} : lock[c] = t => lock'[c] = t
    /\ \A t \in Sessions \ {s} :
         /\ tx'[t] = tx[t] /\ pc'[t] = pc[t] /\ cur'[t] = cur[t] /\ alive'[t] = alive[t]

\* Steps keep the invariant if they keep it of their own session and of the counts.
LEMMA SoleStepOf ==
    ASSUME OnceInv, NEW s \in Sessions, Alone(s), IInv', Sole(s)',
           \A c \in Cmds : Counted(c)'
    PROVE  OnceInv'
<1>1. ASSUME NEW t \in Sessions \ {s} PROVE Sole(t)'
  <2> USE DEF Alone
  <2>1. /\ tx'[t] = tx[t] /\ pc'[t] = pc[t] /\ cur'[t] = cur[t] /\ alive'[t] = alive[t]
        /\ text' = text /\ trigger' = trigger
    OBVIOUS
  <2>2. /\ tx[t] \in TxType /\ queue \subseteq Cmds /\ Sole(t)
        /\ t # s
    BY DEF OnceInv, IInv, Types
  <2>3. \A c \in Cmds : OneOff(c)' <=> OneOff(c)
    BY DEF OneOff
  <2>4. \A c \in Cmds : lock[c] = t => lock'[c] = t /\ (c \in queue => c \in queue')
    BY <2>2
  <2>5. Working(t)' <=> Working(t)
    BY <2>1 DEF Working
  <2>6. \A c \in Cmds : OneOff(c)' =>
          /\ tx[t].good[c] > 0 => c \in tx[t].gone
          /\ tx[t].work[c] <= 1
          /\ tx[t].work[c] > 0 => lock'[c] = t /\ c \in queue'
    BY <2>2, <2>3, <2>4 DEF Sole
  <2>7. \A c \in tx[t].gone : lock'[c] = t
    BY <2>2, <2>4 DEF Sole, TxType
  <2>8. alive[t] /\ Working(t) => cur[t] \in queue' \ tx[t].gone
    <3>1. alive[t] /\ Working(t) => lock[cur[t]] = t
      BY DEF OnceInv, IInv, InOrder, HasTx
    <3> QED
      BY <2>2, <2>4, <3>1 DEF Sole
  <2> QED
    BY <2>1, <2>5, <2>6, <2>7, <2>8 DEF Sole
<1> QED
  BY <1>1 DEF OnceInv

\* A step that at most forgets what is in the transaction of its session, and goes on
\* with no other command.
LEMMA Goes ==
    ASSUME OnceInv, NEW s \in Sessions, IInv', OnlyOf(s), trigger' = trigger,
           UNCHANGED relVars, \A t \in Sessions \ {s} : tx'[t] = tx[t],
           \/ /\ tx'[s].work = tx[s].work /\ tx'[s].good = tx[s].good
              /\ tx'[s].gone = tx[s].gone
           \/ tx'[s].work = None /\ tx'[s].good = None /\ tx'[s].gone = {},
           alive'[s] /\ Working(s)' => alive[s] /\ Working(s) /\ cur'[s] = cur[s]
    PROVE  OnceInv'
<1> USE DEF relVars
<1>1. Alone(s)
  BY DEF Alone, OnlyOf
<1>2. \A c \in Cmds : Counted(c)'
  BY DEF OnceInv, Counted, OneOff, OnlyOf
<1>3. \A c \in Cmds : OneOff(c)' <=> OneOff(c)
  BY DEF OneOff, OnlyOf
<1>4. Sole(s) /\ tx[s] \in TxType
  BY DEF OnceInv, IInv, Types
<1>5. alive'[s] /\ Working(s)' => cur'[s] \in queue' \ tx'[s].gone
  BY <1>4 DEF Sole
<1>6. Sole(s)'
  BY <1>3, <1>4, <1>5 DEF Sole, None
<1> QED
  BY <1>1, <1>2, <1>6, SoleStepOf

\* A session whose transaction has ended works on nothing.
LEMMA Nothing ==
    ASSUME NEW s \in Sessions, tx'[s] = NoTx, alive'[s] => ~Working(s)'
    PROVE  Sole(s)'
BY DEF Sole, NoTx, None

(* A rollback keeps the effects counted. *)
LEMMA RolledBack ==
    ASSUME OnceInv, NEW s \in Sessions, IInv', OnlyOf(s), trigger' = trigger, Rollback(s),
           alive'[s] => ~Working(s)'
    PROVE  OnceInv'
<1>1. /\ tx'[s] = NoTx
      /\ \A t \in Sessions \ {s} : tx'[t] = tx[t]
      /\ \A c \in Cmds : lock[c] # s => lock'[c] = lock[c]
      /\ queue' = queue /\ effects' = effects
  BY RollbackDoes DEF OnceInv, IInv
<1>2. Alone(s)
  BY <1>1 DEF Alone, OnlyOf
<1>3. \A c \in Cmds : Counted(c)'
  BY <1>1 DEF OnceInv, Counted, OneOff, OnlyOf
<1> QED
  BY <1>1, <1>2, <1>3, Nothing, SoleStepOf

\* What is committed is gone from the queue: without pending work, each effect in the
\* transaction has its result there, and the row goes with it.
LEMMA Committed ==
    ASSUME OnceInv, NEW s \in Sessions, IInv', OnlyOf(s), trigger' = trigger, Commit(s),
           pc[s] \notin {"constraints", "finish", "update"}, alive'[s] => ~Working(s)'
    PROVE  OnceInv'
<1>1. /\ tx'[s] = NoTx
      /\ \A t \in Sessions \ {s} : tx'[t] = tx[t]
      /\ \A c \in Cmds : lock[c] # s => lock'[c] = lock[c]
      /\ \A c \in Cmds : effects'[c] = effects[c] + tx[s].work[c]
  BY CommitDoes DEF OnceInv, IInv
<1>2. queue' = queue \ tx[s].gone
  BY DEF Commit
<1>3. Sole(s) /\ tx[s] \in TxType /\ effects \in [Cmds -> Nat] /\ queue \subseteq Cmds
  BY DEF OnceInv, IInv, Types
<1>4. Alone(s)
  BY <1>1, <1>2, <1>3 DEF Alone, OnlyOf, Sole
<1>5. ASSUME NEW c \in Cmds PROVE Counted(c)'
  <2>1. SUFFICES ASSUME OneOff(c)
                 PROVE  effects'[c] <= 1 /\ (c \in queue' => effects'[c] = 0)
    BY DEF Counted, OneOff, OnlyOf
  <2>2. /\ tx[s].work[c] \in Nat /\ tx[s].good[c] \in Nat /\ effects[c] \in Nat
        /\ effects[c] <= 1 /\ (c \in queue => effects[c] = 0)
    BY <1>3, <2>1 DEF OnceInv, Counted, TxType
  <2>3. tx[s].work[c] = tx[s].good[c]
    <3>1. tx[s].state # "aborted" /\ Pending(s, c) = 0
      BY DEF OnceInv, IInv, InOrder, Aborted, Pending
    <3> QED
      BY <2>1, <2>2, <3>1 DEF OnceInv, IInv, InOrder, Booked, OneOff
  <2>4. /\ tx[s].work[c] <= 1
        /\ tx[s].work[c] > 0 => c \in tx[s].gone /\ c \in queue
    BY <1>3, <2>1, <2>3 DEF Sole
  <2> QED
    BY <1>1, <1>2, <2>2, <2>4
<1> QED
  BY <1>1, <1>4, <1>5, Nothing, SoleStepOf

\* Who SELECTs a command is the only one to have it, and it is new to the transaction.
LEMMA Claimed ==
    ASSUME OnceInv, NEW s \in Sessions, IInv', OnlyOf(s), NEW c \in Eligible(s),
           ClaimRow(s, c), \A t \in Sessions \ {s} : tx'[t] = tx[t],
           tx'[s].work = tx[s].work, tx'[s].good = tx[s].good, tx'[s].gone = tx[s].gone
    PROVE  OnceInv'
<1>1. c \in queue \ tx[s].gone /\ c \in Cmds /\ lock[c] \in {Free, s}
  BY DEF Eligible, OnceInv, IInv, Types
<1>2. /\ UNCHANGED <<text, trigger, queue, effects>>
      /\ lock' = [lock EXCEPT ![c] = s] /\ lock'[c] = s /\ cur'[s] = c
  BY <1>1 DEF ClaimRow, Set, OnceInv, IInv, Types, ControlTypes
<1>3. Alone(s)
  BY <1>1, <1>2, SqlAssumption DEF Alone, OnlyOf, OnceInv, IInv, Types, Sessions
<1>4. \A e \in Cmds : Counted(e)'
  BY <1>2 DEF OnceInv, Counted, OneOff
<1>5. Sole(s)'
  <2>1. \A e \in Cmds : (OneOff(e)' <=> OneOff(e)) /\ (lock[e] = s => lock'[e] = s)
    BY <1>2 DEF OneOff, OnceInv, IInv, Types
  <2>2. Sole(s) /\ tx[s] \in TxType
    BY DEF OnceInv, IInv, Types
  <2>3. \A e \in tx[s].gone : lock'[e] = s
    BY <2>1, <2>2 DEF Sole, TxType
  <2> QED
    BY <1>1, <1>2, <2>1, <2>2, <2>3 DEF Sole
<1> QED
  BY <1>3, <1>4, <1>5, SoleStepOf

\* A command that succeeds has its first effect in the transaction: its row is neither
\* deleted nor anybody else's.
LEMMA Worked ==
    ASSUME OnceInv, NEW s \in Sessions, IInv', OnlyOf(s), trigger' = trigger,
           UNCHANGED <<relVars, cur>>, pc[s] = "execute", alive[s],
           NEW D \in BOOLEAN, Works(s, cur[s], D)
    PROVE  OnceInv'
<1> DEFINE c == cur[s]
<1>1. /\ c \in Cmds /\ lock[c] = s /\ c \in queue \ tx[s].gone
      /\ tx[s] \in TxType /\ Sole(s) /\ tx[s].state # "aborted"
  BY DEF OnceInv, Sole, IInv, Types, ControlTypes, InOrder, AtHand, Aborted, HasTx, Working
<1>2. /\ \A t \in Sessions \ {s} : tx'[t] = tx[t]
      /\ tx'[s].good = tx[s].good
      /\ \A e \in Cmds : tx'[s].work[e] = tx[s].work[e] + IF e = c THEN 1 ELSE 0
  BY <1>1, WorkDoes DEF OnceInv, IInv
<1>3. tx'[s].gone = tx[s].gone
  <2>1. [[tx[s] EXCEPT !.work = One(@, c)] EXCEPT !.deferred = D].gone = tx[s].gone
    BY <1>1 DEF TxType
  <2> QED
    BY <2>1 DEF Works, OnceInv, IInv, Types
<1>4. Alone(s)
  BY <1>2 DEF Alone, OnlyOf, relVars
<1>5. \A e \in Cmds : Counted(e)'
  BY DEF OnceInv, Counted, OneOff, OnlyOf, relVars
<1>6. OneOff(c) => tx[s].work[c] = 0
  <2>1. Pending(s, c) = 0
    BY DEF Pending
  <2>2. tx[s].work[c] \in Nat /\ tx[s].good[c] \in Nat
    BY <1>1 DEF TxType
  <2>3. OneOff(c) => tx[s].work[c] = tx[s].good[c]
    BY <1>1, <2>1, <2>2 DEF OnceInv, IInv, InOrder, Booked, OneOff
  <2> QED
    BY <1>1, <2>2, <2>3 DEF Sole
<1>7. Sole(s)'
  <2>1. \A e \in Cmds : OneOff(e)' <=> OneOff(e)
    BY DEF OneOff, OnlyOf
  <2>2. \A e \in Cmds : tx[s].work[e] \in Nat
    BY <1>1 DEF TxType
  <2>3. UNCHANGED <<lock, queue, cur>>
    BY DEF relVars
  <2>4. ASSUME NEW e \in Cmds, OneOff(e)
        PROVE  /\ tx'[s].work[e] <= 1
               /\ tx'[s].work[e] > 0 => lock[e] = s /\ e \in queue
    <3>1. CASE e = c
      BY <1>1, <1>2, <1>6, <2>2, <2>4, <3>1
    <3>2. CASE e # c
      <4>1. tx'[s].work[e] = tx[s].work[e]
        BY <1>2, <2>2, <3>2
      <4> QED
        BY <1>1, <2>4, <4>1 DEF Sole
    <3> QED
      BY <3>1, <3>2
  <2> QED
    BY <1>1, <1>2, <1>3, <2>1, <2>3, <2>4 DEF Sole
<1> QED
  BY <1>4, <1>5, <1>7, SoleStepOf

\* With its result, the row of a command that goes with it is deleted.
LEMMA RowGoes ==
    ASSUME OnceInv, NEW s \in Sessions, IInv', OnlyOf(s), trigger' = trigger,
           UNCHANGED relVars, pc[s] = "update", alive[s], Record(s, cur[s]),
           pc'[s] \in {"end", "iterate"}
    PROVE  OnceInv'
<1> DEFINE c == cur[s]
           g == IF status[s] = "ok" THEN One(tx[s].good, c) ELSE tx[s].good
           n == IF trigger[c] = "delete" THEN tx[s].gone \cup {c} ELSE tx[s].gone
           r == [[tx[s] EXCEPT !.good = g] EXCEPT !.gone = n]
<1>1. c \in Cmds /\ lock[c] = s /\ tx[s] \in TxType /\ Sole(s)
  BY DEF OnceInv, IInv, Types, ControlTypes, InOrder, AtHand, HasTx, Working
<1>2. \A e \in Cmds : e # c => g[e] = tx[s].good[e]
  BY <1>1 DEF TxType, One
<1>3. /\ tx' = [tx EXCEPT ![s] = r]
      /\ r.work = tx[s].work /\ r.good = g /\ r.gone = n
  <2>1. tx' = [tx EXCEPT ![s] = r]
    BY DEF Record, OnceInv, IInv, Types
  <2>2. r.work = tx[s].work /\ r.good = g /\ r.gone = n
    <3> HIDE DEF g, n
    <3> QED
      BY <1>1 DEF TxType
  <2> QED
    BY <2>1, <2>2
<1> HIDE DEF r
<1>4. tx'[s] = r /\ \A t \in Sessions \ {s} : tx'[t] = tx[t]
  BY <1>3 DEF OnceInv, IInv, Types
<1>5. Alone(s)
  BY <1>4 DEF Alone, OnlyOf, relVars
<1>6. \A e \in Cmds : Counted(e)'
  BY DEF OnceInv, Counted, OneOff, OnlyOf, relVars
<1>7. Sole(s)'
  <2>1. \A e \in Cmds : OneOff(e)' <=> OneOff(e)
    BY DEF OneOff, OnlyOf
  <2>2. \A e \in Cmds : OneOff(e) => (g[e] > 0 => e \in n)
    BY <1>1, <1>2 DEF Sole, OneOff
  <2>3. \A e \in n : lock[e] = s
    BY <1>1 DEF Sole
  <2>4. ~Working(s)'
    BY DEF Working
  <2> HIDE DEF g, n
  <2> QED
    BY <1>1, <1>3, <1>4, <2>1, <2>2, <2>3, <2>4 DEF Sole, relVars
<1> QED
  BY <1>5, <1>6, <1>7, SoleStepOf
-----------------------------------------------------------------------------
(* The steps *)

\* Sessions change only what is theirs.
LEMMA RunnersChange ==
    ASSUME IInv, NEW d \in Daemons, Runner(d) \/ LoseConn(d) \/ Crash(d)
    PROVE  OnlyOf(d) /\ trigger' = trigger /\ \A t \in Sessions \ {d} : tx'[t] = tx[t]
<1> USE DEF Goto, Set, OnlyOf
<1>1. tx \in [Sessions -> TxType] /\ ControlTypes
  BY DEF IInv, Types
<1> USE <1>1 DEF ControlTypes
<1>2. CASE Claim(d)
  BY <1>2 DEF Claim, ClaimRow
<1>3. CASE EnterRound(d) \/ Savepoint(d) \/ Restart(d)
  BY <1>3 DEF EnterRound, Savepoint, Restart
<1>4. CASE Execute(d)
  BY <1>4 DEF Execute, Fails, Succeeds
<1>5. CASE NoticeKills(d) \/ Crash(d) \/ LoseConn(d)
  BY <1>5 DEF NoticeKills, Crash, LoseConn, Dies, Rollback
<1>6. CASE SetConstraints(d)
  BY <1>6 DEF SetConstraints, Fails
<1>7. CASE Finish(d)
  BY <1>7 DEF Finish
<1>8. CASE Update(d)
  BY <1>8 DEF Update, Rollback, Record
<1>9. CASE End(d)
  BY <1>9 DEF End, Commit
<1> QED
  BY <1>2, <1>3, <1>4, <1>5, <1>6, <1>7, <1>8, <1>9 DEF Runner

(* A step of a caller leaves the other sessions and their transactions alone. *)
LEMMA CallersChange ==
    ASSUME IInv, NEW p \in Callers, Caller(p) \/ Cancel(p)
    PROVE  OnlyOf(p) /\ trigger' = trigger /\ \A t \in Sessions \ {p} : tx'[t] = tx[t]
<1> USE DEF Goto, Set, Ends, OnlyOf
<1>1. tx \in [Sessions -> TxType] /\ ControlTypes
  BY DEF IInv, Types
<1> USE <1>1 DEF ControlTypes
<1>2. CASE CallProcedure(p)
  BY <1>2 DEF CallProcedure
<1>3. CASE Select(p)
  BY <1>3 DEF Select, ClaimRow
<1>4. CASE SelectNone(p) \/ Iterate(p)
  BY <1>4 DEF SelectNone, Iterate
<1>5. CASE ExecuteInBlock(p)
  BY <1>5 DEF ExecuteInBlock
<1>6. CASE UpdateInCall(p)
  BY <1>6 DEF UpdateInCall, Rollback, Record
<1>7. CASE CommitFails(p) \/ Return(p) \/ Cancel(p)
  BY <1>7 DEF CommitFails, Return, Cancel, Rollback, Commit
<1> QED
  BY <1>2, <1>3, <1>4, <1>5, <1>6, <1>7 DEF Caller

(* Every step of a runner keeps the effects counted. *)
LEMMA RunnerKeepsSole ==
    ASSUME OnceInv, IInv', NEW d \in Daemons, Runner(d) \/ LoseConn(d) \/ Crash(d)
    PROVE  OnceInv'
<1> DEFINE others == \A t \in Sessions \ {d} : tx'[t] = tx[t]
<1>1. d \in Sessions /\ OnlyOf(d) /\ trigger' = trigger /\ others
  BY RunnersChange DEF OnceInv, Sessions
<1>2. IInv /\ Types /\ ControlTypes /\ InOrder(d) /\ tx[d] \in TxType
  BY <1>1 DEF OnceInv, IInv, Types
<1> USE <1>1, <1>2 DEF Goto, Set
<1>3. ASSUME UNCHANGED <<relVars, tx>>,
             alive'[d] /\ Working(d)' => alive[d] /\ Working(d) /\ cur'[d] = cur[d]
      PROVE  OnceInv'
  BY <1>3, Goes
<1>4. CASE Claim(d)
  <2>1. PICK c \in Eligible(d) : ClaimRow(d, c)
    BY <1>4 DEF Claim, Oldest
  <2>2. /\ tx'[d].work = tx[d].work /\ tx'[d].good = tx[d].good
        /\ tx'[d].gone = tx[d].gone
    BY <1>4 DEF Claim, Types, TxType
  <2> QED
    BY <2>1, <2>2, Claimed
<1>5. CASE EnterRound(d)
  BY <1>3, <1>5 DEF EnterRound, Working
<1>6. CASE Savepoint(d)
  BY <1>3, <1>6 DEF Savepoint, Working, ControlTypes
<1>7. CASE Execute(d)
  <2> DEFINE c == cur[d]
  <2>1. pc[d] = "execute" /\ UNCHANGED <<cur, alive>>
    BY <1>7 DEF Execute
  <2>2. CASE ~alive[d]
    BY <1>3, <1>7, <2>1, <2>2 DEF Execute
  <2>3. CASE alive[d] /\ text[c] \in {"rows", "norows"}
    <3>1. tx' = [tx EXCEPT ![d].work = One(@, c)] /\ UNCHANGED relVars
      BY <1>7, <2>3 DEF Execute
    <3>2. [tx[d] EXCEPT !.work = One(@, c)]
            = [[tx[d] EXCEPT !.work = One(@, c)] EXCEPT !.deferred = tx[d].deferred]
      BY DEF TxType
    <3>3. Works(d, c, tx[d].deferred) /\ tx[d].deferred \in BOOLEAN
      BY <3>1, <3>2 DEF Works, Types, TxType
    <3> QED
      BY <2>1, <2>3, <3>1, <3>3, Worked
  <2>4. CASE alive[d] /\ text[c] = "error"
    <3>1. /\ UNCHANGED relVars /\ pc' = [pc EXCEPT ![d] = "finish"]
          /\ tx' = [tx EXCEPT ![d].state = "aborted"]
      BY <1>7, <2>4 DEF Execute, Fails
    <3>2. /\ tx'[d].work = tx[d].work /\ tx'[d].good = tx[d].good
          /\ tx'[d].gone = tx[d].gone
      BY <3>1 DEF Types, TxType
    <3>3. Working(d)
      BY <2>1 DEF Working
    <3> QED
      BY <2>1, <2>4, <3>1, <3>2, <3>3, Goes
  <2>5. CASE alive[d] /\ text[c] = "deferred"
    <3>1. Works(d, c, TRUE) /\ UNCHANGED relVars
      BY <1>7, <2>5 DEF Execute, Works
    <3> QED
      BY <2>1, <2>5, <3>1, Worked
  <2>6. CASE alive[d] /\ text[c] = "commit"
    <3>1. /\ effects' = One(effects, c) /\ Release(d) /\ queue' = queue
          /\ tx' = [tx EXCEPT ![d] = NoTx] /\ pc' = [pc EXCEPT ![d] = "constraints"]
      BY <1>7, <2>6 DEF Execute, Succeeds
    <3>2. Alone(d)
      BY <3>1 DEF Alone, OnlyOf, Release
    <3>3. \A e \in Cmds : Counted(e)'
      <4>1. \A e \in Cmds : OneOff(e) => effects'[e] = effects[e]
        BY <2>6, <3>1 DEF OneOff, One, Types
      <4> QED
        BY <3>1, <4>1 DEF OnceInv, Counted, OneOff, OnlyOf
    <3>4. tx'[d] = NoTx /\ ~Working(d)'
      BY <2>1, <2>6, <3>1 DEF Working, Types, ControlTypes, OnlyOf
    <3> QED
      BY <3>2, <3>3, <3>4, Nothing, SoleStepOf
  <2>7. text[c] \in Kinds
    BY <2>1 DEF InOrder, AtHand, Types, ControlTypes
  <2>8. ~(alive[d] /\ text[c] = "notice")
    BY <1>7 DEF Execute
  <2> QED
    BY <2>2, <2>3, <2>4, <2>5, <2>6, <2>7, <2>8 DEF Kinds
<1>8. CASE NoticeKills(d) \/ Crash(d)
  <2>1. Rollback(d) /\ ~alive'[d]
    BY <1>8 DEF NoticeKills, Crash, Dies, ControlTypes
  <2> QED
    BY <2>1, RolledBack
<1>9. CASE LoseConn(d)
  <2>1. Rollback(d) /\ ~alive'[d]
    BY <1>9 DEF LoseConn, ControlTypes
  <2> QED
    BY <2>1, RolledBack
<1>10. CASE SetConstraints(d)
  <2>1. /\ pc[d] = "constraints" /\ UNCHANGED <<relVars, cur, alive, text>>
        /\ alive[d] => tx[d].state = "open"
    BY <1>10 DEF SetConstraints
  <2>2. /\ tx'[d].work = tx[d].work /\ tx'[d].good = tx[d].good
        /\ tx'[d].gone = tx[d].gone
    BY <1>10 DEF SetConstraints, Types, TxType
  <2>3. alive[d] => Working(d)
    BY <2>1 DEF Working, InOrder, HasTx
  <2> QED
    BY <2>1, <2>2, <2>3, Goes
<1>11. CASE Finish(d)
  <2>1. /\ pc[d] = "finish" /\ UNCHANGED <<relVars, cur, alive>>
    BY <1>11 DEF Finish
  <2>2. \/ /\ tx'[d].work = tx[d].work /\ tx'[d].good = tx[d].good
           /\ tx'[d].gone = tx[d].gone
        \/ tx'[d].work = None /\ tx'[d].good = None /\ tx'[d].gone = {}
    BY <1>11 DEF Finish, Types, NoTx
  <2>3. Working(d)
    BY <2>1 DEF Working
  <2> QED
    BY <2>1, <2>2, <2>3, Goes
<1>12. CASE Update(d)
  <2>1. pc[d] = "update" /\ pc'[d] = "end" /\ UNCHANGED alive
    BY <1>12 DEF Update, ControlTypes
  <2>2. ~Working(d)'
    BY <2>1 DEF Working
  <2>3. CASE ~alive[d]
    BY <1>3, <1>12, <2>2, <2>3 DEF Update
  <2>4. CASE alive[d] /\ trigger[cur[d]] = "raise"
    BY <1>12, <2>2, <2>4, RolledBack DEF Update
  <2>5. CASE alive[d] /\ trigger[cur[d]] # "raise"
    BY <1>12, <2>1, <2>5, RowGoes DEF Update
  <2> QED
    BY <2>3, <2>4, <2>5
<1>13. CASE End(d)
  <2>1. pc[d] = "end" /\ pc'[d] = "select" /\ Commit(d)
    BY <1>13 DEF End, ControlTypes
  <2>2. ~Working(d)'
    BY <2>1 DEF Working
  <2> QED
    BY <2>1, <2>2, Committed
<1>14. CASE Restart(d)
  <2>1. pc'[d] = "select" /\ UNCHANGED <<relVars, tx>>
    BY <1>14 DEF Restart, ControlTypes
  <2> QED
    BY <1>3, <2>1 DEF Working
<1> QED
  BY <1>4, <1>5, <1>6, <1>7, <1>8, <1>9, <1>10, <1>11, <1>12, <1>13, <1>14 DEF Runner

(* Every step of a caller keeps the effects counted. *)
LEMMA CallerKeepsSole ==
    ASSUME OnceInv, IInv', NEW p \in Callers, Caller(p) \/ Cancel(p)
    PROVE  OnceInv'
<1>1. /\ p \in Sessions /\ OnlyOf(p) /\ trigger' = trigger
      /\ \A t \in Sessions \ {p} : tx'[t] = tx[t]
  BY CallersChange DEF OnceInv, Sessions
<1>2. IInv /\ Types /\ ControlTypes /\ InOrder(p) /\ tx[p] \in TxType
  BY <1>1 DEF OnceInv, IInv, Types
<1> USE <1>1, <1>2 DEF Goto, Set
<1>3. CASE CallProcedure(p)
  <2>1. /\ tx'[p].work = tx[p].work /\ tx'[p].good = tx[p].good
        /\ tx'[p].gone = tx[p].gone
    BY <1>3 DEF CallProcedure, Types, TxType
  <2>2. pc'[p] = "select" /\ UNCHANGED relVars
    BY <1>3 DEF CallProcedure, ControlTypes
  <2> QED
    BY <2>1, <2>2, Goes DEF Working
<1>4. CASE Select(p)
  <2>1. PICK c \in Eligible(p) : ClaimRow(p, c)
    BY <1>4 DEF Select, Oldest
  <2> QED
    BY <1>4, <2>1, Claimed DEF Select
<1>5. CASE SelectNone(p) \/ Iterate(p)
  <2>1. pc'[p] \in {"select", "iterate", "return"} /\ UNCHANGED <<relVars, tx>>
    BY <1>5 DEF SelectNone, Iterate, ControlTypes
  <2> QED
    BY <2>1, Goes DEF Working
<1>6. CASE ExecuteInBlock(p)
  <2> DEFINE c == cur[p]
             D == tx[p].deferred \/ text[c] = "deferred"
  <2>1. pc[p] = "execute" /\ UNCHANGED <<relVars, cur, alive>> /\ alive[p]
    BY <1>6 DEF ExecuteInBlock, InOrder, InPlace
  <2>2. CASE text[c] \in {"rows", "notice", "deferred"}
    <3>1. tx[p].deferred = [tx[p] EXCEPT !.work = One(@, c)].deferred
      BY DEF TxType
    <3>2. Works(p, c, D)
      BY <1>6, <2>2, <3>1 DEF ExecuteInBlock, Works, Types
    <3> QED
      BY <2>1, <3>2, Worked
  <2>3. CASE text[c] \notin {"rows", "notice", "deferred"}
    <3>1. tx' = tx /\ Working(p)
      BY <1>6, <2>1, <2>3 DEF ExecuteInBlock, Working
    <3> QED
      BY <2>1, <3>1, Goes
  <2> QED
    BY <2>2, <2>3
<1>7. CASE UpdateInCall(p)
  <2>1. pc[p] = "update" /\ alive[p]
    BY <1>7 DEF UpdateInCall, InOrder, InPlace
  <2>2. CASE trigger[cur[p]] = "raise"
    <3>1. Rollback(p) /\ pc'[p] = "ended"
      BY <1>7, <2>2 DEF UpdateInCall, Ends, ControlTypes
    <3> QED
      BY <3>1, RolledBack DEF Working
  <2>3. CASE trigger[cur[p]] # "raise"
    <3>1. Record(p, cur[p]) /\ pc'[p] = "iterate" /\ UNCHANGED relVars
      BY <1>7, <2>3 DEF UpdateInCall, ControlTypes
    <3> QED
      BY <2>1, <3>1, RowGoes
  <2> QED
    BY <2>2, <2>3
<1>8. CASE CommitFails(p) \/ Return(p) \/ Cancel(p)
  <2>1. pc'[p] = "ended" /\ (Rollback(p) \/ (Commit(p) /\ pc[p] = "return"))
    BY <1>8 DEF CommitFails, Return, Cancel, Ends, ControlTypes
  <2> QED
    BY <2>1, RolledBack, Committed DEF Working
<1> QED
  BY <1>3, <1>4, <1>5, <1>6, <1>7, <1>8 DEF Caller

(* No effect is counted at the start. *)
LEMMA OnceInit == CallInit => OnceInv
<1> SUFFICES ASSUME CallInit PROVE OnceInv
  OBVIOUS
<1>1. IInv
  BY InitOK
<1>2. \A c \in Cmds : Counted(c)
  BY DEF CallInit, Init, Counted, None
<1>3. \A s \in Sessions : Sole(s)
  BY DEF CallInit, Init, Sole, NoTx, None, Working
<1> QED
  BY <1>1, <1>2, <1>3 DEF OnceInv

(* Every step keeps the effects counted. *)
LEMMA OnceIsKept == OnceInv /\ [Next]_vars => OnceInv'
<1> SUFFICES ASSUME OnceInv, [Next]_vars PROVE OnceInv'
  OBVIOUS
<1>1. IInv'
  BY Inductive DEF OnceInv
<1>2. CASE UNCHANGED vars
  BY <1>1, <1>2 DEF vars, relVars, OnceInv, Counted, OneOff, Sole, Working
<1> QED
  BY <1>1, <1>2, RunnerKeepsSole, CallerKeepsSole DEF Next

\* For any number of commands, runners and callers, and any faults: a command whose row
\* goes with its result has its effects at most once.  Neither two runners, nor a runner
\* and a CALL, nor a runner that comes back after a crash repeat what is committed.
THEOREM EffectsComeOnce == Spec => []EffectOnce
<1>1. OnceInv => EffectOnce
  BY DEF OnceInv, Counted, OneOff, EffectOnce
<1> QED
  BY <1>1, OnceInit, OnceIsKept, PTL DEF Spec
-----------------------------------------------------------------------------
(* How often a command is run *)

\* The command that session s has claimed and is about to run.
Coming(s, c) == IF pc[s] \in {"savepoint", "execute"} /\ cur[s] = c THEN 1 ELSE 0

\* A text with a COMMIT gets no result but a failure.
Fated(s) == pc[s] \in {"finish", "update"} /\ text[cur[s]] = "commit" => status[s] = "fatal"

\* What session s did and is about to do is covered by its claims, and it has
\* the rows that it worked for.  A text with a COMMIT leaves no work behind.
Covered(s) ==
    /\ \A c \in Cmds :
         /\ tx[s].good[c] <= tx[s].work[c]
         /\ tx[s].work[c] > 0 => lock[c] = s /\ text[c] # "commit"
         /\ lock[c] = s => effects[c] + tx[s].work[c] + Coming(s, c) <= tries[c]
    /\ Fated(s)

\* Results stand for effects, and effects for claims.
Bounded(c) == results[c] <= effects[c] /\ effects[c] <= tries[c]

CoverInv ==
    /\ IInv
    /\ tries \in [Cmds -> 0..MaxRuns]
    /\ \A c \in Cmds : Bounded(c)
    /\ \A s \in Sessions : Covered(s)

\* A step of session s leaves the other sessions alone, their rows and what counts
\* for these, and takes no claim back.
Apart(s) ==
    /\ OnlyOf(s)
    /\ tries' \in [Cmds -> 0..MaxRuns]
    /\ \A c \in Cmds : tries[c] <= tries'[c]
    /\ \A t \in Sessions \ {s} :
         /\ tx'[t] = tx[t]
         /\ \A c \in Cmds : lock[c] = t <=> lock'[c] = t
         /\ \A c \in Cmds : lock[c] = t => effects'[c] = effects[c]

\* Steps keep the invariant if they keep it of their own session and of the counts.
LEMMA CoverStepOf ==
    ASSUME CoverInv, NEW s \in Sessions, Apart(s), IInv', Covered(s)',
           \A c \in Cmds : Bounded(c)'
    PROVE  CoverInv'
<1>1. ASSUME NEW t \in Sessions \ {s} PROVE Covered(t)'
  <2>1. /\ tx'[t] = tx[t] /\ pc'[t] = pc[t] /\ cur'[t] = cur[t] /\ status'[t] = status[t]
        /\ text' = text
    BY DEF Apart, OnlyOf
  <2>2. Fated(t)' /\ \A c \in Cmds : Coming(t, c)' = Coming(t, c)
    BY <2>1 DEF Fated, Coming, CoverInv, Covered
  <2>3. ASSUME NEW c \in Cmds
        PROVE  /\ tx[t].good[c] <= tx[t].work[c]
               /\ tx[t].work[c] > 0 => lock'[c] = t /\ text[c] # "commit"
               /\ lock'[c] = t => effects'[c] + tx[t].work[c] + Coming(t, c) <= tries'[c]
    <3>1. /\ effects[c] \in Nat /\ tx[t].work[c] \in Nat /\ Coming(t, c) \in Nat
          /\ tries[c] \in Nat /\ tries'[c] \in Nat
      BY DEF CoverInv, IInv, Types, TxType, Coming, Apart
    <3>2. /\ tries[c] <= tries'[c] /\ (lock[c] = t <=> lock'[c] = t)
          /\ lock[c] = t => effects'[c] = effects[c]
      BY DEF Apart
    <3> QED
      BY <3>1, <3>2 DEF CoverInv, Covered
  <2> QED
    BY <2>1, <2>2, <2>3 DEF Covered
<1> QED
  BY <1>1 DEF CoverInv, Apart

\* A step that touches no row, and at most forgets what is in the transaction of its
\* session, and what it was about to run.
LEMMA CoverGoes ==
    ASSUME CoverInv, NEW s \in Sessions, IInv', OnlyOf(s),
           UNCHANGED <<relVars, tries>>, \A t \in Sessions \ {s} : tx'[t] = tx[t],
           \/ tx'[s].work = tx[s].work /\ tx'[s].good = tx[s].good
           \/ tx'[s].work = None /\ tx'[s].good = None,
           pc'[s] \in {"savepoint", "execute"}
             => pc[s] \in {"savepoint", "execute"} /\ cur'[s] = cur[s],
           Fated(s)'
    PROVE  CoverInv'
<1> USE DEF relVars
<1>1. Apart(s)
  BY DEF Apart, CoverInv, IInv, Types
<1>2. \A c \in Cmds : Bounded(c)'
  BY DEF CoverInv, Bounded
<1>3. ASSUME NEW c \in Cmds
      PROVE  /\ tx'[s].good[c] <= tx'[s].work[c]
             /\ tx'[s].work[c] > 0 => lock'[c] = s /\ text[c] # "commit"
             /\ lock'[c] = s => effects'[c] + tx'[s].work[c] + Coming(s, c)' <= tries'[c]
  <2>1. /\ effects[c] \in Nat /\ tx[s].work[c] \in Nat /\ tries[c] \in Nat
        /\ Coming(s, c) \in Nat /\ Coming(s, c)' \in Nat /\ Coming(s, c)' <= Coming(s, c)
    BY DEF CoverInv, IInv, Types, TxType, Coming
  <2>2. \/ tx'[s].work[c] = tx[s].work[c] /\ tx'[s].good[c] = tx[s].good[c]
        \/ tx'[s].work[c] = 0 /\ tx'[s].good[c] = 0
    BY DEF None
  <2>3. /\ tx[s].good[c] <= tx[s].work[c]
        /\ tx[s].work[c] > 0 => lock[c] = s /\ text[c] # "commit"
        /\ lock[c] = s => effects[c] + tx[s].work[c] + Coming(s, c) <= tries[c]
    BY DEF CoverInv, Covered
  <2> QED
    BY <2>1, <2>2, <2>3
<1> QED
  BY <1>1, <1>2, <1>3, CoverStepOf DEF Covered, OnlyOf

\* A session that has given all its rows back has no claims to cover.
LEMMA CoverNothing ==
    ASSUME NEW s \in Sessions, tx'[s] = NoTx, Release(s), Fated(s)',
           lock \in [Cmds -> Sessions \cup {Free}]
    PROVE  Covered(s)' /\ \A t \in Sessions \ {s} : \A c \in Cmds : lock[c] = t <=> lock'[c] = t
<1>1. \A c \in Cmds : lock'[c] # s
  BY SqlAssumption DEF Release
<1>2. \A t \in Sessions \ {s} : \A c \in Cmds : lock[c] = t <=> lock'[c] = t
  BY SqlAssumption DEF Release
<1> QED
  BY <1>1, <1>2 DEF Covered, NoTx, None

(* A rollback keeps every effect covered by a result. *)
LEMMA CoverRolledBack ==
    ASSUME CoverInv, NEW s \in Sessions, IInv', OnlyOf(s), Rollback(s), tries' = tries,
           Fated(s)'
    PROVE  CoverInv'
<1>1. /\ tx'[s] = NoTx /\ Release(s)
      /\ \A t \in Sessions \ {s} : tx'[t] = tx[t]
      /\ effects' = effects /\ results' = results
  BY RollbackDoes DEF CoverInv, IInv, Rollback
<1>2. Covered(s)' /\ \A t \in Sessions \ {s} : \A c \in Cmds : lock[c] = t <=> lock'[c] = t
  BY <1>1, CoverNothing DEF CoverInv, IInv, Types
<1>3. Apart(s)
  BY <1>1, <1>2 DEF Apart, CoverInv, IInv, Types
<1>4. \A c \in Cmds : Bounded(c)'
  BY <1>1 DEF CoverInv, Bounded
<1> QED
  BY <1>2, <1>3, <1>4, CoverStepOf

(* A commit keeps every effect covered by a result. *)
LEMMA CoverCommitted ==
    ASSUME CoverInv, NEW s \in Sessions, IInv', OnlyOf(s), Commit(s), tries' = tries,
           Fated(s)'
    PROVE  CoverInv'
<1>1. /\ tx'[s] = NoTx /\ Release(s)
      /\ \A t \in Sessions \ {s} : tx'[t] = tx[t]
      /\ \A c \in Cmds : /\ effects'[c] = effects[c] + tx[s].work[c]
                         /\ results'[c] = results[c] + tx[s].good[c]
  BY CommitDoes DEF CoverInv, IInv, Commit
<1>2. Covered(s)' /\ \A t \in Sessions \ {s} : \A c \in Cmds : lock[c] = t <=> lock'[c] = t
  BY <1>1, CoverNothing DEF CoverInv, IInv, Types
<1>3. ASSUME NEW c \in Cmds
      PROVE  /\ effects[c] \in Nat /\ results[c] \in Nat /\ tries[c] \in Nat
             /\ tx[s].work[c] \in Nat /\ tx[s].good[c] \in Nat
             /\ tx[s].good[c] <= tx[s].work[c]
             /\ tx[s].work[c] > 0 => lock[c] = s
             /\ lock[c] = s => effects[c] + tx[s].work[c] <= tries[c]
  <2>1. /\ effects[c] \in Nat /\ results[c] \in Nat /\ tries[c] \in Nat
        /\ tx[s].work[c] \in Nat /\ tx[s].good[c] \in Nat /\ Coming(s, c) \in Nat
    BY DEF CoverInv, IInv, Types, TxType, Coming
  <2>2. /\ tx[s].good[c] <= tx[s].work[c]
        /\ tx[s].work[c] > 0 => lock[c] = s
        /\ lock[c] = s => effects[c] + tx[s].work[c] + Coming(s, c) <= tries[c]
    BY DEF CoverInv, Covered
  <2> QED
    BY <2>1, <2>2
<1>4. Apart(s)
  <2>1. ASSUME NEW t \in Sessions \ {s}, NEW c \in Cmds, lock[c] = t
        PROVE  effects'[c] = effects[c]
    BY <1>1, <1>3, <2>1
  <2>2. \A c \in Cmds : tries[c] <= tries'[c]
    BY <1>3
  <2> QED
    BY <1>1, <1>2, <2>1, <2>2 DEF Apart, CoverInv
<1>5. ASSUME NEW c \in Cmds PROVE Bounded(c)'
  <2>1. results[c] <= effects[c] /\ effects[c] <= tries[c]
    BY DEF CoverInv, Bounded
  <2> QED
    BY <1>1, <1>3, <2>1 DEF Bounded
<1> QED
  BY <1>2, <1>4, <1>5, CoverStepOf

\* A claim more covers what is about to run, of a row that is free or claimed by the
\* same transaction.
LEMMA CoverClaimed ==
    ASSUME CoverInv, NEW s \in Sessions, IInv', OnlyOf(s), NEW c \in Eligible(s),
           ClaimRow(s, c), \A t \in Sessions \ {s} : tx'[t] = tx[t],
           tx'[s].work = tx[s].work, tx'[s].good = tx[s].good,
           pc[s] = "select", pc'[s] \in {"savepoint", "execute"}
    PROVE  CoverInv'
<1>1. c \in Cmds /\ lock[c] \in {Free, s} /\ tries[c] < MaxRuns
  BY DEF Eligible, CoverInv, IInv, Types
<1>2. /\ UNCHANGED <<text, effects, results>>
      /\ lock' = [lock EXCEPT ![c] = s] /\ tries' = [tries EXCEPT ![c] = @ + 1]
      /\ cur'[s] = c
  BY <1>1 DEF ClaimRow, Set, One, CoverInv, IInv, Types, ControlTypes
<1>3. tries' \in [Cmds -> 0..MaxRuns] /\ \A e \in Cmds : tries[e] <= tries'[e]
  BY <1>1, <1>2, SqlAssumption DEF CoverInv
<1>4. Apart(s)
  BY <1>1, <1>2, <1>3, SqlAssumption DEF Apart, CoverInv, IInv, Types, Sessions
<1>5. ASSUME NEW e \in Cmds PROVE Bounded(e)'
  <2>1. /\ effects[e] \in Nat /\ results[e] \in Nat /\ tries[e] \in Nat /\ tries'[e] \in Nat
        /\ tries[e] <= tries'[e]
    BY <1>3 DEF CoverInv, IInv, Types
  <2> QED
    BY <1>2, <2>1 DEF CoverInv, Bounded
<1>6. ASSUME NEW e \in Cmds
      PROVE  /\ tx[s].good[e] <= tx[s].work[e]
             /\ tx[s].work[e] > 0 => lock'[e] = s /\ text[e] # "commit"
             /\ lock'[e] = s => effects[e] + tx[s].work[e] + Coming(s, e)' <= tries'[e]
  <2>1. /\ effects[e] \in Nat /\ tx[s].work[e] \in Nat /\ tries[e] \in Nat
        /\ Coming(s, e) = 0 /\ Coming(s, e)' = IF e = c THEN 1 ELSE 0
    BY <1>2 DEF CoverInv, IInv, Types, TxType, Coming
  <2>2. /\ tx[s].good[e] <= tx[s].work[e]
        /\ tx[s].work[e] > 0 => lock[e] = s /\ text[e] # "commit"
        /\ lock[e] = s => effects[e] + tx[s].work[e] <= tries[e]
        /\ effects[e] <= tries[e]
    BY <2>1 DEF CoverInv, Covered, Bounded
  <2>3. CASE e = c
    <3>1. lock'[e] = s /\ tries'[e] = tries[e] + 1
      BY <1>2, <2>3 DEF CoverInv, IInv, Types
    <3>2. tx[s].work[e] = 0 \/ lock[e] = s
      BY <2>1, <2>2
    <3> QED
      BY <2>1, <2>2, <2>3, <3>1, <3>2
  <2>4. CASE e # c
    <3>1. lock'[e] = lock[e] /\ tries'[e] = tries[e]
      BY <1>2, <2>4 DEF CoverInv, IInv, Types
    <3> QED
      BY <2>1, <2>2, <2>4, <3>1
  <2> QED
    BY <2>3, <2>4
<1>7. Covered(s)'
  BY <1>2, <1>6 DEF Covered, Fated
<1> QED
  BY <1>4, <1>5, <1>7, CoverStepOf

\* What was about to run becomes part of the transaction.
LEMMA CoverWorked ==
    ASSUME CoverInv, NEW s \in Sessions, IInv', OnlyOf(s),
           UNCHANGED <<relVars, tries, cur>>, pc[s] = "execute", alive[s],
           pc'[s] \in {"constraints", "update"}, text[cur[s]] # "commit",
           NEW D \in BOOLEAN, Works(s, cur[s], D)
    PROVE  CoverInv'
<1> USE DEF relVars
<1>1. cur[s] \in Cmds /\ lock[cur[s]] = s
  BY DEF CoverInv, IInv, Types, ControlTypes, InOrder, AtHand, HasTx, Working
<1>2. /\ \A t \in Sessions \ {s} : tx'[t] = tx[t]
      /\ tx'[s].good = tx[s].good
      /\ \A e \in Cmds : tx'[s].work[e] = tx[s].work[e] + IF e = cur[s] THEN 1 ELSE 0
  BY <1>1, WorkDoes DEF CoverInv, IInv
<1>3. Apart(s)
  BY <1>2 DEF Apart, CoverInv, IInv, Types
<1>4. \A e \in Cmds : Bounded(e)'
  BY DEF CoverInv, Bounded
<1>5. ASSUME NEW e \in Cmds
      PROVE  /\ tx'[s].good[e] <= tx'[s].work[e]
             /\ tx'[s].work[e] > 0 => lock'[e] = s /\ text[e] # "commit"
             /\ lock'[e] = s => effects'[e] + tx'[s].work[e] + Coming(s, e)' <= tries'[e]
  <2>1. /\ effects[e] \in Nat /\ tx[s].work[e] \in Nat /\ tx[s].good[e] \in Nat
        /\ tries[e] \in Nat
        /\ Coming(s, e)' = 0 /\ Coming(s, e) = IF e = cur[s] THEN 1 ELSE 0
    BY DEF CoverInv, IInv, Types, TxType, Coming
  <2>2. /\ tx[s].good[e] <= tx[s].work[e]
        /\ tx[s].work[e] > 0 => lock[e] = s /\ text[e] # "commit"
        /\ lock[e] = s => effects[e] + tx[s].work[e] + Coming(s, e) <= tries[e]
    BY DEF CoverInv, Covered
  <2>3. tx'[s].work[e] = tx[s].work[e] + IF e = cur[s] THEN 1 ELSE 0
    BY <1>2
  <2>4. tx'[s].good[e] = tx[s].good[e]
    BY <1>2
  <2>5. CASE e = cur[s]
    BY <1>1, <2>1, <2>2, <2>3, <2>4, <2>5
  <2>6. CASE e # cur[s]
    BY <2>1, <2>2, <2>3, <2>4, <2>6
  <2> QED
    BY <2>5, <2>6
<1>6. Covered(s)'
  BY <1>5 DEF Covered, Fated, OnlyOf
<1> QED
  BY <1>3, <1>4, <1>6, CoverStepOf

\* A text with a COMMIT makes its effects count at once, and ends the transaction.
LEMMA CoverCommitText ==
    ASSUME CoverInv, NEW s \in Sessions, IInv', OnlyOf(s), UNCHANGED <<results, tries>>,
           pc[s] = "execute", alive[s], pc'[s] = "constraints",
           effects' = One(effects, cur[s]), tx' = [tx EXCEPT ![s] = NoTx], Release(s)
    PROVE  CoverInv'
<1>1. cur[s] \in Cmds /\ lock[cur[s]] = s
  BY DEF CoverInv, IInv, Types, ControlTypes, InOrder, AtHand, HasTx, Working
<1>2. tx'[s] = NoTx /\ \A t \in Sessions \ {s} : tx'[t] = tx[t]
  BY DEF CoverInv, IInv, Types
<1>3. \A e \in Cmds : effects'[e] = effects[e] + IF e = cur[s] THEN 1 ELSE 0
  BY DEF One, CoverInv, IInv, Types
<1>4. Covered(s)' /\ \A t \in Sessions \ {s} : \A c \in Cmds : lock[c] = t <=> lock'[c] = t
  BY <1>2, CoverNothing DEF CoverInv, IInv, Types, Fated
<1>5. \A e \in Cmds : effects[e] \in Nat /\ results[e] \in Nat /\ tries[e] \in Nat
  BY DEF CoverInv, IInv, Types
<1>6. Apart(s)
  <2>1. ASSUME NEW t \in Sessions \ {s}, NEW c \in Cmds, lock[c] = t
        PROVE  effects'[c] = effects[c]
    BY <1>1, <1>3, <1>5, <2>1
  <2>2. \A c \in Cmds : tries[c] <= tries'[c]
    BY <1>5
  <2> QED
    BY <1>2, <1>4, <2>1, <2>2 DEF Apart, CoverInv
<1>7. ASSUME NEW e \in Cmds PROVE Bounded(e)'
  <2>1. tx[s].work[e] \in Nat /\ (e = cur[s] => Coming(s, e) = 1)
    BY DEF CoverInv, IInv, Types, TxType, Coming
  <2>2. e = cur[s] => effects[e] + tx[s].work[e] + Coming(s, e) <= tries[e]
    BY <1>1 DEF CoverInv, Covered
  <2>3. results[e] <= effects[e] /\ effects[e] <= tries[e]
    BY DEF CoverInv, Bounded
  <2> QED
    BY <1>3, <1>5, <2>1, <2>2, <2>3 DEF Bounded
<1> QED
  BY <1>4, <1>6, <1>7, CoverStepOf

\* A result of success is recorded only for what is done: a text with a COMMIT has
\* none, and the others have an effect in the transaction that has no result yet.
LEMMA CoverRecorded ==
    ASSUME CoverInv, NEW s \in Sessions, IInv', OnlyOf(s), UNCHANGED <<relVars, tries>>,
           pc[s] = "update", alive[s], Record(s, cur[s]), pc'[s] \in {"end", "iterate"}
    PROVE  CoverInv'
<1> DEFINE c == cur[s]
           g == IF status[s] = "ok" THEN One(tx[s].good, c) ELSE tx[s].good
           n == IF trigger[c] = "delete" THEN tx[s].gone \cup {c} ELSE tx[s].gone
           r == [[tx[s] EXCEPT !.good = g] EXCEPT !.gone = n]
<1>1. c \in Cmds /\ tx[s] \in TxType /\ tx[s].state = "open"
  BY DEF CoverInv, IInv, Types, ControlTypes, TxType, InOrder, AtHand, Aborted, HasTx, Working
<1>2. tx' = [tx EXCEPT ![s] = r] /\ r.work = tx[s].work /\ r.good = g
  <2>1. tx' = [tx EXCEPT ![s] = r]
    BY DEF Record, CoverInv, IInv, Types
  <2>2. r.work = tx[s].work /\ r.good = g
    <3> HIDE DEF g, n
    <3> QED
      BY <1>1 DEF TxType
  <2> QED
    BY <2>1, <2>2
<1> HIDE DEF r
<1>3. tx'[s] = r /\ \A t \in Sessions \ {s} : tx'[t] = tx[t]
  BY <1>2 DEF CoverInv, IInv, Types
<1>4. Apart(s)
  BY <1>3 DEF Apart, relVars, CoverInv, IInv, Types
<1>5. \A e \in Cmds : Bounded(e)'
  BY DEF CoverInv, Bounded, relVars
<1>6. ASSUME NEW e \in Cmds PROVE g[e] <= tx[s].work[e]
  <2>1. /\ tx[s].work[e] \in Nat /\ tx[s].good[e] \in Nat
        /\ tx[s].good[e] <= tx[s].work[e]
    BY <1>1 DEF TxType, CoverInv, Covered
  <2>2. CASE e # c \/ status[s] # "ok"
    BY <1>1, <2>1, <2>2 DEF One, TxType
  <2>3. CASE e = c /\ status[s] = "ok"
    <3>1. text[c] # "commit"
      BY <2>3 DEF CoverInv, Covered, Fated
    <3>2. Pending(s, c) = 1
      BY <1>1, <2>3 DEF Pending
    <3>3. tx[s].work[c] = tx[s].good[c] + 1
      BY <1>1, <3>1, <3>2 DEF CoverInv, IInv, InOrder, Booked
    <3>4. g[c] = tx[s].good[c] + 1
      BY <1>1, <2>3 DEF One, TxType
    <3> QED
      BY <2>1, <2>3, <3>3, <3>4
  <2> QED
    BY <2>2, <2>3
<1>7. ASSUME NEW e \in Cmds
      PROVE  /\ tx[s].work[e] > 0 => lock[e] = s /\ text[e] # "commit"
             /\ lock[e] = s => effects[e] + tx[s].work[e] + Coming(s, e)' <= tries[e]
  <2>1. Coming(s, e) = 0 /\ Coming(s, e)' = 0
    BY DEF Coming
  <2> QED
    BY <2>1 DEF CoverInv, Covered
<1>8. Fated(s)'
  BY DEF Fated
<1>9. Covered(s)'
  <2> HIDE DEF g
  <2> QED
    BY <1>2, <1>3, <1>6, <1>7, <1>8 DEF Covered, relVars, OnlyOf
<1> QED
  BY <1>4, <1>5, <1>9, CoverStepOf

(* Every step of a runner keeps every effect covered by a result. *)
LEMMA RunnerKeepsCover ==
    ASSUME CoverInv, IInv', NEW d \in Daemons, Runner(d) \/ LoseConn(d) \/ Crash(d)
    PROVE  CoverInv'
<1>1. /\ d \in Sessions /\ OnlyOf(d) /\ text' = text
      /\ \A t \in Sessions \ {d} : tx'[t] = tx[t]
  BY RunnersChange DEF CoverInv, Sessions, OnlyOf
<1>2. IInv /\ Types /\ ControlTypes /\ InOrder(d) /\ tx[d] \in TxType /\ Fated(d)
  BY <1>1 DEF CoverInv, IInv, Types, Covered
<1> USE <1>1, <1>2 DEF Goto, Set
<1>3. ASSUME UNCHANGED <<relVars, tx, tries>>, pc'[d] \notin {"savepoint", "execute"}, Fated(d)'
      PROVE  CoverInv'
  BY <1>3, CoverGoes
<1>4. CASE Claim(d)
  <2>1. PICK c \in Eligible(d) : ClaimRow(d, c)
    BY <1>4 DEF Claim, Oldest
  <2>2. tx'[d].work = tx[d].work /\ tx'[d].good = tx[d].good
    BY <1>4 DEF Claim, Types, TxType
  <2>3. pc[d] = "select" /\ pc'[d] = "savepoint"
    BY <1>4 DEF Claim, ControlTypes
  <2> QED
    BY <2>1, <2>2, <2>3, CoverClaimed
<1>5. CASE EnterRound(d)
  <2>1. pc'[d] = "select" /\ UNCHANGED <<relVars, tx, tries>>
    BY <1>5 DEF EnterRound, boundVars
  <2> QED
    BY <1>3, <2>1 DEF Fated
<1>6. CASE Savepoint(d)
  <2>1. UNCHANGED <<relVars, tx, tries, cur>> /\ pc[d] = "savepoint"
    BY <1>6 DEF Savepoint, boundVars
  <2>2. \/ pc'[d] = "execute"
        \/ pc'[d] = "update" /\ status'[d] = "fatal"
    BY <1>6 DEF Savepoint, ControlTypes
  <2> QED
    BY <2>1, <2>2, CoverGoes DEF Fated
<1>7. CASE Execute(d)
  <2> DEFINE c == cur[d]
  <2>1. pc[d] = "execute" /\ UNCHANGED <<cur, alive, tries>>
    BY <1>7 DEF Execute, boundVars
  <2>2. CASE ~alive[d]
    <3>1. pc'[d] = "finish" /\ status'[d] = "fatal" /\ UNCHANGED <<relVars, tx>>
      BY <1>7, <2>2 DEF Execute, Fails, ControlTypes
    <3> QED
      BY <1>3, <2>1, <3>1 DEF Fated
  <2>3. CASE alive[d] /\ text[c] \in {"rows", "norows"}
    <3>1. /\ tx' = [tx EXCEPT ![d].work = One(@, c)] /\ UNCHANGED relVars
          /\ pc'[d] = "constraints"
      BY <1>7, <2>3 DEF Execute, Succeeds, ControlTypes
    <3>2. [tx[d] EXCEPT !.work = One(@, c)]
            = [[tx[d] EXCEPT !.work = One(@, c)] EXCEPT !.deferred = tx[d].deferred]
      BY DEF TxType
    <3>3. Works(d, c, tx[d].deferred) /\ tx[d].deferred \in BOOLEAN
      BY <3>1, <3>2 DEF Works, Types, TxType
    <3> QED
      BY <2>1, <2>3, <3>1, <3>3, CoverWorked
  <2>4. CASE alive[d] /\ text[c] = "error"
    <3>1. /\ UNCHANGED relVars /\ pc'[d] = "finish" /\ status'[d] = "fatal"
          /\ tx' = [tx EXCEPT ![d].state = "aborted"]
      BY <1>7, <2>4 DEF Execute, Fails, ControlTypes
    <3>2. tx'[d].work = tx[d].work /\ tx'[d].good = tx[d].good
      BY <3>1 DEF Types, TxType
    <3> QED
      BY <2>1, <3>1, <3>2, CoverGoes DEF Fated
  <2>5. CASE alive[d] /\ text[c] = "deferred"
    <3>1. Works(d, c, TRUE) /\ UNCHANGED relVars /\ pc'[d] = "constraints"
      BY <1>7, <2>5 DEF Execute, Succeeds, Works, ControlTypes
    <3> QED
      BY <2>1, <2>5, <3>1, CoverWorked
  <2>6. CASE alive[d] /\ text[c] = "commit"
    <3>1. /\ effects' = One(effects, c) /\ Release(d) /\ results' = results
          /\ tx' = [tx EXCEPT ![d] = NoTx] /\ pc'[d] = "constraints"
      BY <1>7, <2>6 DEF Execute, Succeeds, ControlTypes
    <3> QED
      BY <2>1, <2>6, <3>1, CoverCommitText
  <2>7. text[c] \in Kinds
    BY <2>1 DEF InOrder, AtHand, Types, ControlTypes
  <2>8. ~(alive[d] /\ text[c] = "notice")
    BY <1>7 DEF Execute
  <2> QED
    BY <2>2, <2>3, <2>4, <2>5, <2>6, <2>7, <2>8 DEF Kinds
<1>8. CASE NoticeKills(d) \/ Crash(d)
  <2>1. Rollback(d) /\ pc'[d] = "down" /\ tries' = tries
    BY <1>8 DEF NoticeKills, Crash, Dies, ControlTypes
  <2> QED
    BY <2>1, CoverRolledBack DEF Fated
<1>9. CASE LoseConn(d)
  <2>1. Rollback(d) /\ UNCHANGED <<pc, cur, status, tries>>
    BY <1>9 DEF LoseConn
  <2> QED
    BY <2>1, CoverRolledBack DEF Fated
<1>10. CASE SetConstraints(d)
  <2>1. UNCHANGED <<relVars, cur, alive, tries>> /\ pc[d] = "constraints"
    BY <1>10 DEF SetConstraints, boundVars
  <2>2. tx'[d].work = tx[d].work /\ tx'[d].good = tx[d].good
    BY <1>10 DEF SetConstraints, Types, TxType
  <2>3. pc'[d] = "finish"
    BY <1>10 DEF SetConstraints, Fails, ControlTypes
  <2>4. text[cur[d]] = "commit" => status'[d] = "fatal"
    <3>1. text[cur[d]] = "commit" => ~alive[d]
      BY <1>10 DEF SetConstraints, InOrder, HasTx
    <3> QED
      BY <1>10, <3>1 DEF SetConstraints, Fails, ControlTypes
  <2> QED
    BY <2>1, <2>2, <2>3, <2>4, CoverGoes DEF Fated
<1>11. CASE Finish(d)
  <2>1. /\ pc[d] = "finish" /\ pc'[d] = "update"
        /\ UNCHANGED <<relVars, cur, status, tries>>
    BY <1>11 DEF Finish, boundVars, ControlTypes
  <2>2. \/ tx'[d].work = tx[d].work /\ tx'[d].good = tx[d].good
        \/ tx'[d].work = None /\ tx'[d].good = None
    BY <1>11 DEF Finish, Types, NoTx
  <2> QED
    BY <2>1, <2>2, CoverGoes DEF Fated
<1>12. CASE Update(d)
  <2>1. pc[d] = "update" /\ pc'[d] = "end" /\ UNCHANGED <<alive, tries>> /\ Fated(d)'
    BY <1>12 DEF Update, ControlTypes, boundVars, Fated
  <2>2. CASE ~alive[d]
    BY <1>3, <1>12, <2>1, <2>2 DEF Update
  <2>3. CASE alive[d] /\ trigger[cur[d]] = "raise"
    BY <1>12, <2>1, <2>3, CoverRolledBack DEF Update
  <2>4. CASE alive[d] /\ trigger[cur[d]] # "raise"
    BY <1>12, <2>1, <2>4, CoverRecorded DEF Update
  <2> QED
    BY <2>2, <2>3, <2>4
<1>13. CASE End(d)
  <2>1. pc'[d] = "select" /\ Commit(d) /\ tries' = tries
    BY <1>13 DEF End, ControlTypes, boundVars
  <2> QED
    BY <2>1, CoverCommitted DEF Fated
<1>14. CASE Restart(d)
  <2>1. pc'[d] = "select" /\ UNCHANGED <<relVars, tx, tries>>
    BY <1>14 DEF Restart, ControlTypes, boundVars
  <2> QED
    BY <1>3, <2>1 DEF Fated
<1> QED
  BY <1>4, <1>5, <1>6, <1>7, <1>8, <1>9, <1>10, <1>11, <1>12, <1>13, <1>14 DEF Runner

(* Every step of a caller keeps every effect covered by a result. *)
LEMMA CallerKeepsCover ==
    ASSUME CoverInv, IInv', NEW p \in Callers, Caller(p) \/ Cancel(p)
    PROVE  CoverInv'
<1>1. /\ p \in Sessions /\ OnlyOf(p) /\ text' = text
      /\ \A t \in Sessions \ {p} : tx'[t] = tx[t]
  BY CallersChange DEF CoverInv, Sessions, OnlyOf
<1>2. IInv /\ Types /\ ControlTypes /\ InOrder(p) /\ tx[p] \in TxType
  BY <1>1 DEF CoverInv, IInv, Types
<1> USE <1>1, <1>2 DEF Goto, Set
<1>3. CASE CallProcedure(p)
  <2>1. tx'[p].work = tx[p].work /\ tx'[p].good = tx[p].good
    BY <1>3 DEF CallProcedure, Types, TxType
  <2>2. pc'[p] = "select" /\ UNCHANGED <<relVars, tries>>
    BY <1>3 DEF CallProcedure, ControlTypes, boundVars
  <2> QED
    BY <2>1, <2>2, CoverGoes DEF Fated
<1>4. CASE Select(p)
  <2>1. PICK c \in Eligible(p) : ClaimRow(p, c)
    BY <1>4 DEF Select, Oldest
  <2>2. pc[p] = "select" /\ pc'[p] = "execute" /\ tx' = tx
    BY <1>4 DEF Select, ControlTypes
  <2> QED
    BY <2>1, <2>2, CoverClaimed
<1>5. CASE SelectNone(p) \/ Iterate(p)
  <2>1. /\ pc'[p] \in {"select", "iterate", "return"}
        /\ UNCHANGED <<relVars, tx, tries>>
    BY <1>5 DEF SelectNone, Iterate, ControlTypes, boundVars
  <2> QED
    BY <2>1, CoverGoes DEF Fated
<1>6. CASE ExecuteInBlock(p)
  <2> DEFINE c == cur[p]
             D == tx[p].deferred \/ text[c] = "deferred"
  <2>1. /\ pc[p] = "execute" /\ pc'[p] = "update" /\ alive[p]
        /\ UNCHANGED <<relVars, cur, tries>>
    BY <1>6 DEF ExecuteInBlock, InOrder, InPlace, ControlTypes, boundVars
  <2>2. CASE text[c] \in {"rows", "notice", "deferred"}
    <3>1. tx[p].deferred = [tx[p] EXCEPT !.work = One(@, c)].deferred
      BY DEF TxType
    <3>2. Works(p, c, D)
      BY <1>6, <2>2, <3>1 DEF ExecuteInBlock, Works, Types
    <3> QED
      BY <2>1, <2>2, <3>2, CoverWorked
  <2>3. CASE text[c] \notin {"rows", "notice", "deferred"}
    <3>1. tx' = tx /\ status'[p] = "fatal"
      BY <1>6, <2>3 DEF ExecuteInBlock, ControlTypes
    <3> QED
      BY <2>1, <3>1, CoverGoes DEF Fated
  <2> QED
    BY <2>2, <2>3
<1>7. CASE UpdateInCall(p)
  <2>1. pc[p] = "update" /\ alive[p] /\ tries' = tries
    BY <1>7 DEF UpdateInCall, InOrder, InPlace, boundVars
  <2>2. CASE trigger[cur[p]] = "raise"
    <3>1. Rollback(p) /\ pc'[p] = "ended"
      BY <1>7, <2>2 DEF UpdateInCall, Ends, ControlTypes
    <3> QED
      BY <2>1, <3>1, CoverRolledBack DEF Fated
  <2>3. CASE trigger[cur[p]] # "raise"
    <3>1. Record(p, cur[p]) /\ pc'[p] = "iterate" /\ UNCHANGED relVars
      BY <1>7, <2>3 DEF UpdateInCall, ControlTypes
    <3> QED
      BY <2>1, <3>1, CoverRecorded
  <2> QED
    BY <2>2, <2>3
<1>8. CASE CommitFails(p) \/ Return(p) \/ Cancel(p)
  <2>1. pc'[p] = "ended" /\ tries' = tries /\ (Rollback(p) \/ Commit(p))
    BY <1>8 DEF CommitFails, Return, Cancel, Ends, ControlTypes, boundVars
  <2> QED
    BY <2>1, CoverRolledBack, CoverCommitted DEF Fated
<1> QED
  BY <1>3, <1>4, <1>5, <1>6, <1>7, <1>8 DEF Caller

(* Every step keeps every effect covered by a result. *)
LEMMA CoverIsKept == CoverInv /\ [Next]_vars => CoverInv'
<1> SUFFICES ASSUME CoverInv, [Next]_vars PROVE CoverInv'
  OBVIOUS
<1>1. IInv'
  BY Inductive DEF CoverInv
<1>2. CASE UNCHANGED vars
  BY <1>1, <1>2
     DEF vars, relVars, boundVars, CoverInv, Bounded, Covered, Coming, Fated
<1> QED
  BY <1>1, <1>2, RunnerKeepsCover, CallerKeepsCover DEF Next
-----------------------------------------------------------------------------
(* The other variables *)

\* A CALL stays within max_iterations$, and below it until its last iteration.
Limited(p) ==
    IF call[p].max = 0 THEN iter[p] = 0
    ELSE /\ iter[p] <= call[p].max
         /\ pc[p] \notin {"return", "ended"} => iter[p] < call[p].max

SideInv ==
    /\ text \in [Cmds -> Texts] /\ trigger \in [Cmds -> Triggers]
    /\ error \in [Sessions -> BOOLEAN] /\ updated \in [Daemons -> SUBSET Cmds]
    /\ faults \in 0..MaxFaults
    /\ call \in [Callers -> Calls] /\ iter \in [Callers -> Nat]
    /\ \A p \in Callers : Limited(p)

(* Every step of a runner keeps the limits of the calls. *)
LEMMA RunnerKeepsSide ==
    ASSUME SideInv, IInv, NEW d \in Daemons, Runner(d) \/ LoseConn(d) \/ Crash(d),
           UNCHANGED callVars
    PROVE  SideInv'
<1>1. d \in Sessions /\ d \notin Callers /\ OnlyOf(d) /\ trigger' = trigger
  BY RunnersChange, SqlAssumption DEF Sessions
<1>2. /\ text' = text /\ UNCHANGED <<call, iter>>
      /\ \A p \in Callers : pc'[p] = pc[p]
  BY <1>1 DEF OnlyOf, callVars, Sessions
<1>3. \A p \in Callers : Limited(p)'
  BY <1>2 DEF SideInv, Limited
<1>4. error' \in [Sessions -> BOOLEAN]
  <2> USE <1>1 DEF SideInv, Set
  <2>1. CASE Claim(d)
    BY <2>1 DEF Claim
  <2>2. CASE EnterRound(d) \/ Savepoint(d) \/ Finish(d) \/ Update(d) \/ End(d) \/ Restart(d)
    BY <2>2 DEF EnterRound, Savepoint, Finish, Update, End, Restart
  <2>3. CASE Execute(d) \/ SetConstraints(d)
    BY <2>3 DEF Execute, SetConstraints, Fails, Succeeds
  <2>4. CASE NoticeKills(d) \/ LoseConn(d) \/ Crash(d)
    BY <2>4 DEF NoticeKills, LoseConn, Crash, Dies
  <2> QED
    BY <2>1, <2>2, <2>3, <2>4 DEF Runner
<1>5. updated' \in [Daemons -> SUBSET Cmds]
  <2> USE <1>1 DEF SideInv, Set
  <2>1. CASE Update(d)
    <3>1. cur[d] \in Cmds
      BY <2>1 DEF Update, Goto, IInv, Types, ControlTypes, InOrder, AtHand
    <3> QED
      BY <2>1, <3>1 DEF Update
  <2>2. CASE EnterRound(d) \/ Claim(d) \/ Savepoint(d) \/ Finish(d) \/ End(d) \/ Restart(d)
    BY <2>2 DEF EnterRound, Claim, Savepoint, Finish, End, Restart
  <2>3. CASE Execute(d) \/ SetConstraints(d)
    BY <2>3 DEF Execute, SetConstraints
  <2>4. CASE NoticeKills(d) \/ LoseConn(d) \/ Crash(d)
    BY <2>4 DEF NoticeKills, LoseConn, Crash, Dies
  <2> QED
    BY <2>1, <2>2, <2>3, <2>4 DEF Runner
<1>6. faults' \in 0..MaxFaults
  <2>1. faults' = faults \/ (faults < MaxFaults /\ faults' = faults + 1)
    BY DEF Runner, Claim, ClaimRow, EnterRound, Savepoint, Execute, NoticeKills, SetConstraints,
           Finish, Update, End, Restart, LoseConn, Crash, Fault, boundVars
  <2> QED
    BY <2>1, SqlAssumption DEF SideInv
<1> QED
  BY <1>1, <1>2, <1>3, <1>4, <1>5, <1>6 DEF SideInv

(* Every step of a caller keeps the limits of the calls. *)
LEMMA CallerKeepsSide ==
    ASSUME SideInv, IInv, NEW p \in Callers, Caller(p) \/ Cancel(p)
    PROVE  SideInv'
<1>1. p \in Sessions /\ p \notin Daemons /\ OnlyOf(p) /\ trigger' = trigger /\ ControlTypes
  BY CallersChange, SqlAssumption DEF Sessions, IInv, Types
<1>2. text' = text /\ \A q \in Callers \ {p} : pc'[q] = pc[q]
  BY <1>1 DEF OnlyOf, Sessions
<1>3. updated' = updated /\ call' = call
  BY DEF Caller, CallProcedure, Select, SelectNone, ExecuteInBlock, UpdateInCall, Iterate,
         CommitFails, Return, Cancel, callVars
<1>4. error' \in [Sessions -> BOOLEAN]
  BY <1>1 DEF SideInv, Set, Caller, CallProcedure, Select, SelectNone, ExecuteInBlock,
              UpdateInCall, Iterate, CommitFails, Return, Cancel
<1>5. faults' \in 0..MaxFaults
  <2>1. faults' = faults \/ (faults < MaxFaults /\ faults' = faults + 1)
    BY DEF Caller, CallProcedure, Select, ClaimRow, SelectNone, ExecuteInBlock, UpdateInCall,
           Iterate, CommitFails, Return, Cancel, Fault, boundVars
  <2> QED
    BY <2>1, SqlAssumption DEF SideInv
<1>6. iter' \in [Callers -> Nat] /\ \A q \in Callers : Limited(q)'
  <2>1. call[p].max \in Nat /\ iter[p] \in Nat /\ Limited(p)
    BY CallAssumption DEF SideInv
  <2>2. CASE Iterate(p)
    <3> DEFINE i == IF call[p].max = 0 THEN 0 ELSE iter[p] + 1
    <3>1. /\ iter' = [iter EXCEPT ![p] = i] /\ pc[p] = "iterate"
          /\ pc'[p] = IF call[p].max # 0 /\ iter[p] + 1 = call[p].max THEN "return" ELSE "select"
      BY <1>1, <2>2 DEF Iterate, Set, ControlTypes
    <3>2. i \in Nat
      BY <2>1
    <3>3. iter' \in [Callers -> Nat] /\ iter'[p] = i
          /\ \A q \in Callers \ {p} : iter'[q] = iter[q]
      BY <3>1, <3>2 DEF SideInv
    <3>4. Limited(p)'
      BY <1>3, <2>1, <3>1, <3>3 DEF Limited
    <3> QED
      BY <1>2, <1>3, <3>3, <3>4 DEF SideInv, Limited
  <2>3. CASE ~Iterate(p)
    <3>1. /\ iter' = iter
          /\ pc[p] = "return" => pc'[p] = "ended"
          /\ pc[p] # "ended"
      BY <1>1, <2>3 DEF Caller, CallProcedure, Select, SelectNone, ExecuteInBlock, UpdateInCall,
             CommitFails, Return, Cancel, callVars, Goto, Set, Ends, ControlTypes
    <3> QED
      BY <1>2, <1>3, <2>1, <3>1 DEF SideInv, Limited
  <2> QED
    BY <2>2, <2>3
<1> QED
  BY <1>1, <1>2, <1>3, <1>4, <1>5, <1>6 DEF SideInv

(* At the start there is no effect to cover. *)
LEMMA CoverInit == CallInit => CoverInv
<1> SUFFICES ASSUME CallInit PROVE CoverInv
  OBVIOUS
<1>1. IInv
  BY InitOK
<1>2. tries \in [Cmds -> 0..MaxRuns]
  BY SqlAssumption DEF CallInit, Init, None
<1>3. \A c \in Cmds : Bounded(c)
  BY DEF CallInit, Init, Bounded, None
<1>4. \A s \in Sessions : Covered(s)
  BY SqlAssumption DEF CallInit, Init, Covered, Fated, Coming, NoTx, None
<1> QED
  BY <1>1, <1>2, <1>3, <1>4 DEF CoverInv

\* For any number of commands, runners and callers, and any faults: no command has
\* more effects or results than there were claims of its row, be they committed or in
\* a transaction, and no CALL makes more iterations than it was told to.
THEOREM RunsStayClaimed == Spec => []CallTypeOK
<1>1. CallInit => SideInv
  BY SqlAssumption, CallAssumption DEF CallInit, Init, SideInv, Limited
<1>2. CoverInv /\ SideInv /\ [Next]_vars => CoverInv' /\ SideInv'
  <2> SUFFICES ASSUME CoverInv, SideInv, [Next]_vars PROVE SideInv'
    BY CoverIsKept
  <2>1. CASE UNCHANGED vars
    BY <2>1 DEF vars, boundVars, callVars, SideInv, Limited
  <2> QED
    BY <2>1, RunnerKeepsSide, CallerKeepsSide DEF Next, CoverInv
<1>3. CoverInv /\ SideInv => CallTypeOK
  <2> SUFFICES ASSUME CoverInv, SideInv PROVE CallTypeOK
    OBVIOUS
  <2>1. ASSUME NEW c \in Cmds PROVE effects[c] \in 0..MaxRuns /\ results[c] \in 0..MaxRuns
    <3>1. /\ effects[c] \in Nat /\ results[c] \in Nat /\ tries[c] \in 0..MaxRuns
          /\ results[c] <= effects[c] /\ effects[c] <= tries[c]
      BY DEF CoverInv, Bounded, IInv, Types
    <3> QED
      BY <3>1, SqlAssumption
  <2>2. ASSUME NEW s \in Sessions, NEW c \in Cmds
        PROVE  tx[s].work[c] \in 0..MaxRuns /\ tx[s].good[c] \in 0..MaxRuns
    <3>1. /\ effects[c] \in Nat /\ tries[c] \in 0..MaxRuns /\ Coming(s, c) \in Nat
          /\ tx[s].work[c] \in Nat /\ tx[s].good[c] \in Nat
      BY DEF CoverInv, IInv, Types, TxType, Coming
    <3>2. /\ tx[s].good[c] <= tx[s].work[c]
          /\ tx[s].work[c] > 0 => effects[c] + tx[s].work[c] + Coming(s, c) <= tries[c]
      BY DEF CoverInv, Covered
    <3> QED
      BY <3>1, <3>2, SqlAssumption
  <2>3. ASSUME NEW s \in Sessions
        PROVE  tx[s] \in [state : {"none", "open", "aborted"}, deferred : BOOLEAN,
                          work : [Cmds -> 0..MaxRuns], good : [Cmds -> 0..MaxRuns],
                          gone : SUBSET Cmds]
    <3>1. tx[s] \in TxType
      BY DEF CoverInv, IInv, Types
    <3>2. tx[s].work \in [Cmds -> 0..MaxRuns] /\ tx[s].good \in [Cmds -> 0..MaxRuns]
      BY <2>2, <3>1 DEF TxType
    <3> QED
      BY <3>1, <3>2 DEF TxType
  <2>4. effects \in [Cmds -> 0..MaxRuns] /\ results \in [Cmds -> 0..MaxRuns]
    BY <2>1 DEF CoverInv, IInv, Types
  <2>5. \A p \in Callers : iter[p] \in 0..call[p].max
    <3>1. ASSUME NEW p \in Callers PROVE iter[p] \in 0..call[p].max
      <4>1. call[p].max \in Nat /\ iter[p] \in Nat /\ Limited(p)
        BY CallAssumption DEF SideInv
      <4> QED
        BY <4>1 DEF Limited
    <3> QED
      BY <3>1
  <2>6. tx \in [Sessions -> [state : {"none", "open", "aborted"}, deferred : BOOLEAN,
                             work : [Cmds -> 0..MaxRuns], good : [Cmds -> 0..MaxRuns],
                             gone : SUBSET Cmds]]
    BY <2>3 DEF CoverInv, IInv, Types
  <2> QED
    BY <2>4, <2>5, <2>6 DEF CallTypeOK, TypeOK, CoverInv, SideInv, IInv, Types, ControlTypes
<1> QED
  BY <1>1, <1>2, <1>3, CoverInit, PTL DEF Spec
-----------------------------------------------------------------------------
(* The contract *)

\* What TransactionalQueue sees of a step that touches no row.
LEMMA ContractStutters ==
    ASSUME UNCHANGED <<text, relVars>>
    PROVE  UNCHANGED TQ!vars
  BY DEF TQ!vars, relVars

(* A rollback is the abstract queue's giving up of what the session claimed. *)
LEMMA RollbackGivesUp ==
    ASSUME NEW s \in Sessions, Rollback(s), text' = text
    PROVE  TQ!GiveUp(s)
  BY DEF Rollback, Release, TQ!GiveUp, TQ!EndClaims

\* Whoever SELECTs a row that it has locked itself claims nothing new.
LEMMA SelectClaims ==
    ASSUME Types, NEW s \in Sessions, NEW c \in Eligible(s), ClaimRow(s, c)
    PROVE  TQ!Claim(s, c) \/ UNCHANGED TQ!vars
<1>1. c \in Cmds /\ c \in queue /\ lock[c] \in {Free, s}
  BY DEF Eligible, Types
<1>2. /\ lock' = [lock EXCEPT ![c] = s]
      /\ UNCHANGED <<text, queue, effects, results>>
  BY DEF ClaimRow, Set
<1>3. CASE lock[c] = Free
  BY <1>1, <1>2, <1>3 DEF TQ!Claim
<1>4. CASE lock[c] = s
  <2>1. lock' = lock
    BY <1>2, <1>4 DEF Types
  <2> QED
    BY <1>2, <2>1 DEF TQ!vars
<1> QED
  BY <1>1, <1>3, <1>4

\* What a COMMIT makes count is what was done under claims and has its result.
LEMMA CommitSettles ==
    ASSUME OnceInv, CoverInv, NEW s \in Sessions, Commit(s), text' = text,
           pc[s] \notin {"constraints", "finish", "update"}
    PROVE  TQ!Settle(s)
<1> DEFINE done == tx[s].work
           gone == tx[s].gone \cap queue
<1>1. /\ tx[s] \in TxType
      /\ tx[s].work \in [Cmds -> Nat] /\ tx[s].good \in [Cmds -> Nat]
      /\ effects \in [Cmds -> Nat] /\ results \in [Cmds -> Nat]
  BY DEF CoverInv, IInv, Types, TxType
<1>2. ASSUME NEW c \in Cmds
      PROVE  /\ done[c] \in 0..MaxRuns /\ done[c] = tx[s].good[c]
             /\ done[c] > 0 => lock[c] = s /\ text[c] # "commit"
  <2>1. /\ effects[c] \in Nat /\ tries[c] \in 0..MaxRuns /\ Coming(s, c) \in Nat
        /\ done[c] \in Nat /\ tx[s].good[c] \in Nat
    BY <1>1 DEF CoverInv, Coming
  <2>2. /\ tx[s].good[c] <= done[c]
        /\ done[c] > 0 => lock[c] = s /\ text[c] # "commit"
        /\ lock[c] = s => effects[c] + done[c] + Coming(s, c) <= tries[c]
    BY DEF CoverInv, Covered
  <2>3. done[c] \in 0..MaxRuns
    BY <2>1, <2>2, SqlAssumption
  <2>4. text[c] # "commit" => done[c] = tx[s].good[c]
    <3>1. tx[s].state # "aborted" /\ Pending(s, c) = 0
      BY DEF CoverInv, IInv, InOrder, Aborted, Pending
    <3>2. text[c] # "commit" => done[c] = tx[s].good[c] + Pending(s, c)
      BY <3>1 DEF CoverInv, IInv, InOrder, Booked
    <3> QED
      BY <2>1, <3>1, <3>2
  <2> QED
    BY <2>1, <2>2, <2>3, <2>4
<1>3. /\ done \in [Cmds -> 0..MaxRuns]
      /\ \A c \in Cmds : done[c] > 0 => lock[c] = s /\ c \notin {e \in Cmds : text[e] = "commit"}
  BY <1>1, <1>2
<1>4. effects' = [c \in Cmds |-> effects[c] + done[c]]
  BY DEF Commit, Plus
<1>5. results' = [c \in Cmds |-> results[c] + done[c]]
  BY <1>2 DEF Commit, Plus
<1>6. queue' = queue \ gone /\ gone \in SUBSET {c \in queue : lock[c] = s}
  BY <1>1 DEF Commit, OnceInv, Sole, TxType
<1>7. TQ!EndClaims(s)
  BY DEF Commit, Release, TQ!EndClaims
<1> HIDE DEF done, gone
<1> QED
  BY <1>3, <1>4, <1>5, <1>6, <1>7 DEF TQ!Settle

\* Each step of a session is a claim, an end of its claims, or changes nothing that
\* the contract speaks of.
LEMMA RunnerHonours ==
    ASSUME OnceInv, CoverInv, NEW d \in Daemons, Runner(d) \/ LoseConn(d) \/ Crash(d)
    PROVE  [TQ!Next]_(TQ!vars)
<1>1. d \in Sessions /\ text' = text
  BY RunnersChange DEF CoverInv, Sessions, OnlyOf
<1>2. Types /\ ControlTypes /\ InOrder(d)
  BY <1>1 DEF CoverInv, IInv, Types
<1>3. ASSUME Rollback(d) PROVE TQ!Next
  BY <1>1, <1>3, RollbackGivesUp DEF TQ!Next
<1>4. CASE Claim(d)
  <2>1. PICK c \in Eligible(d) : ClaimRow(d, c)
    BY <1>4 DEF Claim, Oldest
  <2>2. TQ!Claim(d, c) \/ UNCHANGED TQ!vars
    BY <1>1, <1>2, <2>1, SelectClaims
  <2>3. c \in Cmds
    BY <1>2, <2>1 DEF Eligible, Types
  <2> QED
    BY <1>1, <2>2, <2>3 DEF TQ!Next
<1>5. CASE EnterRound(d) \/ Savepoint(d) \/ SetConstraints(d) \/ Finish(d) \/ Restart(d)
  <2>1. UNCHANGED relVars
    BY <1>5 DEF EnterRound, Savepoint, SetConstraints, Finish, Restart
  <2> QED
    BY <1>1, <2>1, ContractStutters
<1>6. CASE Execute(d)
  <2>1. CASE UNCHANGED relVars
    BY <1>1, <2>1, ContractStutters
  <2>2. CASE alive[d] /\ text[cur[d]] = "commit"
    <3>1. /\ effects' = One(effects, cur[d]) /\ Release(d) /\ UNCHANGED <<queue, results>>
          /\ pc[d] = "execute"
      BY <1>6, <2>2 DEF Execute
    <3>2. cur[d] \in Cmds /\ lock[cur[d]] = d
      BY <1>1, <1>2, <2>2, <3>1 DEF ControlTypes, InOrder, AtHand, HasTx, Working
    <3>3. PICK c \in Cmds : c = cur[d]
      BY <3>2
    <3>4. TQ!Escape(d, c)
      BY <1>1, <2>2, <3>1, <3>2, <3>3 DEF One, Release, TQ!Escape, TQ!EndClaims
    <3> QED
      BY <1>1, <3>4 DEF TQ!Next
  <2> QED
    BY <1>6, <2>1, <2>2 DEF Execute
<1>7. CASE NoticeKills(d) \/ Crash(d) \/ LoseConn(d)
  BY <1>3, <1>7 DEF NoticeKills, Crash, Dies, LoseConn
<1>8. CASE Update(d)
  <2>1. Rollback(d) \/ UNCHANGED relVars
    BY <1>8 DEF Update
  <2> QED
    BY <1>1, <1>3, <2>1, ContractStutters
<1>9. CASE End(d)
  <2>1. pc[d] = "end" /\ Commit(d)
    BY <1>9 DEF End, Goto
  <2> QED
    BY <1>1, <2>1, CommitSettles DEF TQ!Next
<1> QED
  BY <1>4, <1>5, <1>6, <1>7, <1>8, <1>9 DEF Runner

(* Every step of a caller is a step of the abstract queue, or leaves it alone. *)
LEMMA CallerHonours ==
    ASSUME OnceInv, CoverInv, NEW p \in Callers, Caller(p) \/ Cancel(p)
    PROVE  [TQ!Next]_(TQ!vars)
<1>1. p \in Sessions /\ text' = text
  BY CallersChange DEF CoverInv, Sessions, OnlyOf
<1>2. Types
  BY DEF CoverInv, IInv
<1>3. ASSUME Rollback(p) PROVE TQ!Next
  BY <1>1, <1>3, RollbackGivesUp DEF TQ!Next
<1>4. CASE CallProcedure(p) \/ SelectNone(p) \/ ExecuteInBlock(p) \/ Iterate(p)
  <2>1. UNCHANGED relVars
    BY <1>4 DEF CallProcedure, SelectNone, ExecuteInBlock, Iterate
  <2> QED
    BY <1>1, <2>1, ContractStutters
<1>5. CASE Select(p)
  <2>1. PICK c \in Eligible(p) : ClaimRow(p, c)
    BY <1>5 DEF Select, Oldest
  <2>2. TQ!Claim(p, c) \/ UNCHANGED TQ!vars
    BY <1>1, <1>2, <2>1, SelectClaims
  <2>3. c \in Cmds
    BY <1>2, <2>1 DEF Eligible, Types
  <2> QED
    BY <1>1, <2>2, <2>3 DEF TQ!Next
<1>6. CASE UpdateInCall(p)
  <2>1. Rollback(p) \/ UNCHANGED relVars
    BY <1>6 DEF UpdateInCall
  <2> QED
    BY <1>1, <1>3, <2>1, ContractStutters
<1>7. CASE CommitFails(p) \/ Cancel(p)
  BY <1>3, <1>7 DEF CommitFails, Cancel
<1>8. CASE Return(p)
  <2>1. Rollback(p) \/ (Commit(p) /\ pc[p] = "return")
    BY <1>8 DEF Return
  <2> QED
    BY <1>1, <1>3, <2>1, CommitSettles DEF TQ!Next
<1> QED
  BY <1>4, <1>5, <1>6, <1>7, <1>8 DEF Caller

\* For any number of commands, runners and callers, and any faults: a session makes
\* what it did under its claims count all at once, with the results, or gives it all
\* up, and no session ever interferes with the claims of another.
THEOREM CommitsAreWhole == Spec => CommitsWhole
<1>1. CallInit => TQ!Init
  BY DEF CallInit, Init, None, TQ!Init
<1>2. OnceInv /\ CoverInv /\ [Next]_vars => [TQ!Next]_(TQ!vars)
  <2> SUFFICES ASSUME OnceInv, CoverInv, [Next]_vars PROVE [TQ!Next]_(TQ!vars)
    OBVIOUS
  <2>1. CASE UNCHANGED vars
    BY <2>1, ContractStutters DEF vars
  <2> QED
    BY <2>1, RunnerHonours, CallerHonours DEF Next
<1> QED
  BY <1>1, <1>2, OnceInit, OnceIsKept, CoverInit, CoverIsKept, PTL DEF Spec, CommitsWhole, TQ!Spec
=============================================================================
