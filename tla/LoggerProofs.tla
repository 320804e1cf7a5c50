---------------------------- MODULE LoggerProofs ----------------------------
(* Proofs about the Logger, for any threads, grace and number of lines. *)
EXTENDS Logger, FiniteSetTheorems, SequenceTheorems, TLAPS

Posts == linesPending + Cardinality(posting)

\* The semaphore never lags: every queued line has a post, done or to come, but
\* for the line that the writer is about to pop; and a writer that waits after
\* quit() has one to come.
Posted ==
    /\ Len(lines) <= Posts + (IF writer = "pop" THEN 1 ELSE 0)
    /\ (writer = "wait" /\ ~running) => Posts > 0

LInv == LogTypeOK /\ Posted
-----------------------------------------------------------------------------
\* A thread that is on its way to sem_post() counts for one.
LEMMA PostingCount ==
    ASSUME posting \subseteq Threads
    PROVE  /\ IsFiniteSet(posting) /\ Cardinality(posting) \in Nat
           /\ posting = {} => Cardinality(posting) = 0
           /\ \A t \in Threads \ posting :
                Cardinality(posting \cup {t}) = Cardinality(posting) + 1
           /\ \A t \in posting :
                Cardinality(posting \ {t}) = Cardinality(posting) - 1
<1>1. IsFiniteSet(posting)
  BY LoggerAssumption, FS_Subset
<1>2. Cardinality(posting) \in Nat
  BY <1>1, FS_CardinalityType
<1>3. posting = {} => Cardinality(posting) = 0
  BY FS_EmptySet
<1>4. \A t \in Threads \ posting : Cardinality(posting \cup {t}) = Cardinality(posting) + 1
  BY <1>1, FS_AddElement
<1>5. \A t \in posting : Cardinality(posting \ {t}) = Cardinality(posting) - 1
  BY <1>1, FS_RemoveElement
<1>6. QED
  BY <1>1, <1>2, <1>3, <1>4, <1>5

(* The logger starts in its types. *)
LEMMA LogTypes == LogInit => LogTypeOK
  BY LoggerAssumption DEF LogInit, LogTypeOK

(* Every step of the logger keeps its types. *)
LEMMA LogTypeStep == LogTypeOK /\ [LogNext]_logVars => LogTypeOK'
<1> SUFFICES ASSUME LogTypeOK, [LogNext]_logVars PROVE LogTypeOK'
  OBVIOUS
<1> USE LoggerAssumption DEF LogTypeOK
<1>1. ASSUME NEW t \in Threads, Log(t) PROVE LogTypeOK'
  <2>1. logged + 1 \in 1..MaxLines
    BY <1>1 DEF Log
  <2>2. lines' \in Seq(1..MaxLines)
    BY <1>1, <2>1 DEF Log
  <2>3. QED
    BY <1>1, <2>1, <2>2 DEF Log
<1>2. ASSUME NEW t \in Threads, SemPost(t) PROVE LogTypeOK'
  BY <1>2 DEF SemPost
<1>3. ASSUME NEW t \in Threads, Quit(t) PROVE LogTypeOK'
  BY <1>3 DEF Quit
<1>4. CASE CheckLoop
  BY <1>4 DEF CheckLoop
<1>5. CASE SemWait
  BY <1>5 DEF SemWait
<1>6. CASE Pop
  <2>1. CASE lines = <<>>
    BY <1>6, <2>1 DEF Pop
  <2>2. CASE lines # <<>>
    <3>1. Head(lines) \in 1..MaxLines /\ Tail(lines) \in Seq(1..MaxLines)
      BY <2>2
    <3>2. /\ line' \in 1..MaxLines /\ lines' \in Seq(1..MaxLines) /\ writer' = "write"
          /\ UNCHANGED <<linesPending, running, graceCounter, posting, logged, shown>>
      BY <1>6, <2>2, <3>1 DEF Pop
    <3>3. QED
      BY <3>2
  <2>3. QED
    BY <2>1, <2>2
<1>7. CASE Write
  <2>1. line \in 1..MaxLines
    BY <1>7 DEF Write
  <2>2. shown' \in Seq(1..MaxLines)
    BY <1>7, <2>1 DEF Write
  <2>3. QED
    BY <1>7, <2>2 DEF Write
<1>8. CASE UNCHANGED logVars
  BY <1>8 DEF logVars
<1>9. QED
  BY <1>1, <1>2, <1>3, <1>4, <1>5, <1>6, <1>7, <1>8 DEF LogNext, Writer

(* Every step of the logger keeps a post for every line, and one to come for a writer that waits after quit(). *)
LEMMA PostedStep == LInv /\ [LogNext]_logVars => Posted'
<1> SUFFICES ASSUME LInv, [LogNext]_logVars PROVE Posted'
  OBVIOUS
<1>0. /\ lines \in Seq(1..MaxLines) /\ Len(lines) \in Nat
      /\ linesPending \in Nat /\ running \in BOOLEAN /\ posting \subseteq Threads
  BY DEF LInv, LogTypeOK
<1>1. ASSUME NEW t \in Threads, Log(t) PROVE Posted'
  <2>1. Cardinality(posting') = Cardinality(posting) + 1
    BY <1>0, <1>1, PostingCount DEF Log
  <2>2. Len(lines') = Len(lines) + 1
    BY <1>0, <1>1 DEF Log
  <2>3. QED
    BY <1>0, <1>1, <2>1, <2>2, PostingCount DEF Log, LInv, Posted, Posts
<1>2. ASSUME NEW t \in Threads, SemPost(t) PROVE Posted'
  <2>1. Cardinality(posting') = Cardinality(posting) - 1
    BY <1>0, <1>2, PostingCount DEF SemPost
  <2>2. QED
    BY <1>0, <1>2, <2>1, PostingCount DEF SemPost, LInv, Posted, Posts
<1>3. ASSUME NEW t \in Threads, Quit(t) PROVE Posted'
  <2>1. Cardinality(posting') = Cardinality(posting) + 1
    BY <1>0, <1>3, PostingCount DEF Quit
  <2>2. QED
    BY <1>0, <1>3, <2>1, PostingCount DEF Quit, LInv, Posted, Posts
<1>4. CASE CheckLoop
  <2>1. ~running /\ writer' = "wait" => Len(lines) > 0
    BY <1>0, <1>4 DEF CheckLoop
  <2>2. QED
    BY <1>0, <1>4, <2>1, PostingCount DEF CheckLoop, LInv, Posted, Posts
<1>5. CASE SemWait
  BY <1>0, <1>5, PostingCount DEF SemWait, LInv, Posted, Posts
<1>6. CASE Pop
  <2>1. CASE lines = <<>>
    BY <1>0, <1>6, <2>1, PostingCount DEF Pop, LInv, Posted, Posts
  <2>2. CASE lines # <<>>
    <3>1. Len(lines') = Len(lines) - 1
      BY <1>0, <1>6, <2>2 DEF Pop
    <3>2. QED
      BY <1>0, <1>6, <2>2, <3>1, PostingCount DEF Pop, LInv, Posted, Posts
  <2>3. QED
    BY <2>1, <2>2
<1>7. CASE Write
  BY <1>0, <1>7, PostingCount DEF Write, LInv, Posted, Posts
<1>8. CASE UNCHANGED logVars
  BY <1>8 DEF logVars, LInv, Posted, Posts
<1>9. QED
  BY <1>1, <1>2, <1>3, <1>4, <1>5, <1>6, <1>7, <1>8 DEF LogNext, Writer
-----------------------------------------------------------------------------
\* No log() and no quit() is ever missed by the writer thread.
THEOREM WriterWakes == LogSpec => []NoLostWakeup
<1>1. LogInit => LInv
  <2>1. LogInit => Posted
    BY PostingCount, FS_EmptySet DEF LogInit, Posted, Posts
  <2>2. QED
    BY <2>1, LogTypes DEF LInv
<1>2. LInv /\ [LogNext]_logVars => LInv'
  BY LogTypeStep, PostedStep DEF LInv
<1>3. LInv => NoLostWakeup
  <2> SUFFICES ASSUME LInv, writer = "wait", linesPending = 0, posting = {}
               PROVE  lines = <<>> /\ running
    BY DEF NoLostWakeup
  <2>1. Posts = 0
    BY FS_EmptySet DEF Posts
  <2>2. Len(lines) = 0
    BY <2>1 DEF LInv, Posted, LogTypeOK
  <2>3. lines = <<>>
    BY <2>2 DEF LInv, LogTypeOK
  <2>4. running
    BY <2>1 DEF LInv, Posted
  <2>5. QED
    BY <2>3, <2>4
<1>4. QED
  BY <1>1, <1>2, <1>3, PTL DEF LogSpec
-----------------------------------------------------------------------------
Hand == IF writer = "write" THEN <<line>> ELSE <<>>

\* Lines are shown in the order of their log() calls, none left out.
THEOREM LinesInOrder == LogSpec => []NothingLost
<1>1. LogInit => LogTypeOK /\ NothingLost
  <2>1. LogInit => NothingLost
    <3> SUFFICES ASSUME LogInit PROVE NothingLost
      OBVIOUS
    <3>1. [i \in 1..0 |-> i] = <<>>
      OBVIOUS
    <3>2. QED
      BY <3>1 DEF LogInit, NothingLost
  <2>2. QED
    BY <2>1, LogTypes
<1>2. LogTypeOK /\ NothingLost /\ [LogNext]_logVars => NothingLost'
  <2> SUFFICES ASSUME LogTypeOK, NothingLost, [LogNext]_logVars PROVE NothingLost'
    OBVIOUS
  <2>0. /\ lines \in Seq(Nat) /\ shown \in Seq(Nat) /\ line \in Nat /\ logged \in Nat
        /\ Hand \in Seq(Nat)
    BY LoggerAssumption DEF LogTypeOK, Hand
  <2>1. NothingLost <=> shown \o Hand \o lines = [i \in 1..logged |-> i]
    BY DEF NothingLost, Hand
  <2>2. NothingLost' <=> shown' \o Hand' \o lines' = [i \in 1..logged' |-> i]
    BY DEF NothingLost, Hand
  <2>3. ASSUME NEW t \in Threads, Log(t) PROVE NothingLost'
    <3>1. shown' = shown /\ Hand' = Hand /\ lines' = Append(lines, logged + 1)
          /\ logged' = logged + 1
      BY <2>3 DEF Log, Hand
    <3>2. shown \o Hand \in Seq(Nat)
      BY <2>0
    <3>3. (shown \o Hand) \o Append(lines, logged + 1)
            = Append((shown \o Hand) \o lines, logged + 1)
      <4>1. logged + 1 \in Nat
        BY <2>0
      <4>2. (shown \o Hand) \o lines \in Seq(Nat) /\ <<logged + 1>> \in Seq(Nat)
        BY <2>0, <3>2, <4>1
      <4>3. /\ Append(lines, logged + 1) = lines \o <<logged + 1>>
            /\ Append((shown \o Hand) \o lines, logged + 1)
                 = ((shown \o Hand) \o lines) \o <<logged + 1>>
        BY <2>0, <4>1, <4>2, AppendIsConcat
      <4>4. ((shown \o Hand) \o lines) \o <<logged + 1>>
              = (shown \o Hand) \o (lines \o <<logged + 1>>)
        BY <2>0, <3>2, <4>2, ConcatAssociative
      <4>5. QED
        BY <4>3, <4>4
    <3>4. Append([i \in 1..logged |-> i], logged + 1) = [i \in 1..(logged + 1) |-> i]
      BY <2>0
    <3>5. QED
      BY <2>1, <2>2, <3>1, <3>3, <3>4
  <2>4. CASE Pop /\ lines # <<>>
    <3>1. /\ shown' = shown /\ Hand = <<>> /\ Hand' = <<Head(lines)>>
          /\ lines' = Tail(lines) /\ logged' = logged
      BY <2>4 DEF Pop, Hand
    <3>2. Head(lines) \in Nat /\ Tail(lines) \in Seq(Nat)
      BY <2>0, <2>4
    <3>3. (shown \o <<Head(lines)>>) \o Tail(lines) = shown \o lines
      BY <2>0, <2>4, <3>2
    <3>4. shown \o <<>> = shown
      BY <2>0
    <3>5. QED
      BY <2>1, <2>2, <3>1, <3>3, <3>4
  <2>5. CASE Write
    <3>1. /\ shown' = Append(shown, line) /\ Hand = <<line>> /\ Hand' = <<>>
          /\ lines' = lines /\ logged' = logged
      BY <2>5 DEF Write, Hand
    <3>2. Append(shown, line) \o <<>> = shown \o <<line>>
      BY <2>0
    <3>3. QED
      BY <2>1, <2>2, <3>1, <3>2
  <2>6. CASE UNCHANGED <<shown, lines, logged, line>> /\ (writer = "write" <=> writer' = "write")
    BY <2>6, <2>1, <2>2 DEF Hand
  <2>7. QED
    <3>1. ASSUME NEW t \in Threads, SemPost(t) \/ Quit(t) PROVE NothingLost'
      BY <2>6, <3>1 DEF SemPost, Quit
    <3>2. CASE CheckLoop \/ SemWait \/ (Pop /\ lines = <<>>) \/ UNCHANGED logVars
      BY <2>6, <3>2 DEF CheckLoop, SemWait, Pop, logVars
    <3>3. QED
      BY <2>3, <2>4, <2>5, <3>1, <3>2 DEF LogNext, Writer
<1>3. QED
  BY <1>1, <1>2, LogTypeStep, PTL DEF LogSpec
=============================================================================
