---------------------------- MODULE Logger_proofs ----------------------------
(***************************************************************************)
(* Proofs about Logger, for any set of producers and any number of lines.  *)
(*                                                                         *)
(* The writer sets queueFlushed_ when it has mtx_ and nothing in hand      *)
(* (TurnInv), and then every line joined is in the file (OrderInv); from   *)
(* there on the file only grows.                                           *)
(***************************************************************************)
EXTENDS Logger, SequenceTheorems, TLAPS

\* mtx_ is with the producer that is joining a line, which has been counted.
JoinInv ==
    \A p \in Producers :
        /\ ppc[p] \in {"join", "notify", "unlock"} <=> mtx = p
        /\ mtx = p => count[p] > 0

\* There is no writer before Create, and between two turns it has neither lines
\* in hand nor lines in stdio's buffer.
TurnInv ==
    /\ ~created => wpc = "none"
    /\ wpc # "write" => writeQueue = <<>> /\ buffer = <<>>

\* The file, the buffer and the two queues hold the lines joined, in order.
OrderInv == added = (file \o buffer) \o (writeQueue \o logQueue)

\* What the writer saw when it set queueFlushed_ is in the file.
FlagInv == queueFlushed => Len(file) >= covered

\* The writer sleeps on a line only until its producer has notified it.
SleepInv == wpc = "waiting" /\ logQueue # <<>> =>
                \E p \in Producers : ppc[p] = "notify"

IInv == TypeOK /\ JoinInv /\ TurnInv /\ OrderInv /\ FlagInv /\ SleepInv

------------------------------------------------------------------------------
(* The sequence facts the steps rest on. *)

\* An empty queue or buffer adds nothing.
LEMMA EmptyConcat ==
    ASSUME NEW s \in Seq(Line)
    PROVE  <<>> \o s = s /\ s \o <<>> = s
  OBVIOUS

\* What is put behind the second of two queues is behind both.
LEMMA AppendConcat ==
    ASSUME NEW a \in Seq(Line), NEW b \in Seq(Line), NEW e \in Line
    PROVE  a \o Append(b, e) = Append(a \o b, e)
  OBVIOUS

\* The first line the writer has in hand is the first of all that are queued.
LEMMA PutTakesHead ==
    ASSUME NEW w \in Seq(Line), NEW l \in Seq(Line), w # <<>>
    PROVE  w \o l # <<>> /\ Head(w \o l) = Head(w) /\ Tail(w \o l) = Tail(w) \o l
  OBVIOUS

\* fputs moves that line to the end of what is written.
LEMMA PutMovesHead ==
    ASSUME NEW d \in Seq(Line), NEW w \in Seq(Line), NEW l \in Seq(Line), w # <<>>
    PROVE  Append(d, Head(w)) \o (Tail(w) \o l) = d \o (w \o l)
  OBVIOUS

\* The file grows by what is put behind it.
LEMMA FileGrows ==
    ASSUME NEW f \in Seq(Line), NEW b \in Seq(Line)
    PROVE  /\ Len(f \o b) >= Len(f)
           /\ \A e \in Line : Len(Append(f \o b, e)) >= Len(f)
  OBVIOUS

------------------------------------------------------------------------------
(* The inductive invariant *)

\* Before Create nothing is queued and nobody has mtx_.
LEMMA InitIInv == Init => IInv
  <1> SUFFICES ASSUME Init PROVE IInv
    OBVIOUS
  <1> USE LogAssumption DEF Init
  <1>1. <<>> \in Seq(Line)
    OBVIOUS
  <1>2. /\ {logQueue, writeQueue, buffer, file, added} \subseteq Seq(Line)
        /\ covered \in 0..Len(added)
    BY <1>1
  <1>2a. TypeOK
    <2>1. count \in [Producers -> 0..MaxLogs]
      OBVIOUS
    <2> QED
      BY <1>2, <2>1 DEF TypeOK
  <1>3. JoinInv /\ TurnInv /\ FlagInv /\ SleepInv
    BY DEF JoinInv, TurnInv, FlagInv, SleepInv
  <1>4. OrderInv
    BY <1>1, EmptyConcat DEF OrderInv
  <1> QED
    BY <1>2a, <1>3, <1>4 DEF IInv

\* No step breaks the types, and mtx_ is the writer's in its locked block only.
LEMMA NextTypeOK == IInv /\ [Next]_vars => TypeOK'
  <1> SUFFICES ASSUME IInv, [Next]_vars PROVE TypeOK'
    OBVIOUS
  <1> USE LogAssumption DEF IInv, TypeOK, queueVars, flagVars, writerVars
  <1>1. CASE Create
    BY <1>1 DEF Create, TurnInv
  <1>2. ASSUME NEW p \in Producers, LockJoin(p) PROVE TypeOK'
    <2>1. count' \in [Producers -> 0..MaxLogs]
      BY <1>2 DEF LockJoin
    <2> QED
      BY <1>2, <2>1 DEF LockJoin, Step
  <1>3. ASSUME NEW p \in Producers, JoinLogQueue(p) PROVE TypeOK'
    <2>1. <<p, count[p]>> \in Line
      BY <1>3 DEF JoinLogQueue, Step, JoinInv, Line
    <2> QED
      BY <1>3, <2>1, AppendProperties DEF JoinLogQueue, Step
  <1>4. ASSUME NEW p \in Producers, NotifyWriter(p) \/ UnlockJoin(p) PROVE TypeOK'
    BY <1>4 DEF NotifyWriter, UnlockJoin, Step, JoinInv
  <1>5. CASE CallFlush \/ ReadFlushed
    BY <1>5 DEF CallFlush, ReadFlushed, Step
  <1>6. CASE Exit
    BY <1>6, ConcatProperties DEF Exit, Step
  <1>7. CASE Killed
    BY <1>7 DEF Killed
  <1>8. CASE LockMain
    BY <1>8 DEF LockMain, Turn
  <1>9. CASE SetFlushed
    BY <1>9 DEF SetFlushed, Turn
  <1>10. CASE TestQueue \/ SpuriousWakeup
    BY <1>10 DEF TestQueue, SpuriousWakeup, Turn
  <1>11. CASE TakeQueue
    BY <1>11 DEF TakeQueue, Turn
  <1>12. CASE PutLine
    <2>1. Head(writeQueue) \in Line /\ Tail(writeQueue) \in Seq(Line)
      BY <1>12, HeadTailProperties DEF PutLine
    <2>2. /\ writeQueue' \in Seq(Line) /\ added' = added /\ logQueue' = logQueue
          /\ buffer' \in Seq(Line) /\ file' \in Seq(Line)
      <3> DEFINE h == Head(writeQueue)
      <3>1. /\ buffer \in Seq(Line) /\ file \in Seq(Line)
            /\ \/ buffer' = Append(buffer, h) /\ file' = file
               \/ file' = Append(file \o buffer, h) /\ buffer' = <<>>
        BY <1>12 DEF PutLine
      <3>2. h \in Line
        BY <2>1
      <3> HIDE DEF h
      <3>3. buffer' = Append(buffer, h) /\ file' = file
                => buffer' \in Seq(Line) /\ file' \in Seq(Line)
        BY <3>1, <3>2
      <3>4. file' = Append(file \o buffer, h) /\ buffer' = <<>>
                => buffer' \in Seq(Line) /\ file' \in Seq(Line)
        BY <3>1, <3>2
      <3> QED
        BY <1>12, <2>1, <3>1, <3>3, <3>4 DEF PutLine
    <2> QED
      BY <1>12, <2>2 DEF PutLine, Turn
  <1>13. CASE FlushBuffer
    BY <1>13, ConcatProperties DEF FlushBuffer, Turn
  <1>14. CASE UNCHANGED vars
    BY <1>14 DEF vars
  <1> QED
    BY <1>1, <1>2, <1>3, <1>4, <1>5, <1>6, <1>7, <1>8, <1>9, <1>10, <1>11, <1>12,
       <1>13, <1>14 DEF Next, Join, Flush, MainLoop

\* A producer counts its line as it locks, and only one thread locks at a time.
LEMMA NextJoinInv == IInv /\ [Next]_vars => JoinInv'
  <1> SUFFICES ASSUME IInv, [Next]_vars PROVE JoinInv'
    OBVIOUS
  <1> USE LogAssumption DEF IInv, TypeOK, JoinInv
  <1>1. ASSUME NEW p \in Producers, LockJoin(p) PROVE JoinInv'
    BY <1>1 DEF LockJoin, Step
  <1>2. ASSUME NEW p \in Producers, Join(p) PROVE JoinInv'
    BY <1>2 DEF Join, JoinLogQueue, NotifyWriter, UnlockJoin, Step
  <1>3. CASE CallFlush \/ Flush
    BY <1>3 DEF CallFlush, Flush, ReadFlushed, Exit, Step
  <1>4. CASE MainLoop
    BY <1>4 DEF MainLoop, LockMain, SetFlushed, TestQueue, TakeQueue, PutLine, FlushBuffer, Turn
  <1>5. CASE Create \/ SpuriousWakeup \/ Killed
    BY <1>5 DEF Create, SpuriousWakeup, Killed, Turn
  <1>6. CASE UNCHANGED vars
    BY <1>6 DEF vars
  <1> QED
    BY <1>1, <1>2, <1>3, <1>4, <1>5, <1>6 DEF Next

\* A turn of the writer ends when its lines are written and the buffer flushed.
LEMMA NextTurnInv == IInv /\ [Next]_vars => TurnInv'
  <1> SUFFICES ASSUME IInv, [Next]_vars PROVE TurnInv'
    OBVIOUS
  <1> USE DEF IInv, TurnInv, writerVars
  <1>1. ASSUME NEW p \in Producers, LockJoin(p) \/ Join(p) PROVE TurnInv'
    BY <1>1 DEF LockJoin, Join, JoinLogQueue, NotifyWriter, UnlockJoin
  <1>2. CASE CallFlush \/ Flush
    BY <1>2 DEF CallFlush, Flush, ReadFlushed, Exit
  <1>3. CASE LockMain \/ SetFlushed \/ TestQueue
    BY <1>3 DEF LockMain, SetFlushed, TestQueue, Turn
  <1>4. CASE TakeQueue \/ PutLine \/ FlushBuffer
    BY <1>4 DEF TakeQueue, PutLine, FlushBuffer, Turn
  <1>5. CASE Create \/ SpuriousWakeup \/ Killed
    BY <1>5 DEF Create, SpuriousWakeup, Killed, Turn
  <1>6. CASE UNCHANGED vars
    BY <1>6 DEF vars
  <1> QED
    BY <1>1, <1>2, <1>3, <1>4, <1>5, <1>6 DEF Next, MainLoop

------------------------------------------------------------------------------
(* The queue of lines *)

\* Every step joins one line, writes one, or moves none.
LEMMA LinesMove ==
    ASSUME IInv, [Next]_vars
    PROVE  \/ /\ \E e \in Line :
                    /\ writeQueue' \o logQueue' = Append(writeQueue \o logQueue, e)
                    /\ OrderInv'
              /\ file' \o buffer' = file \o buffer
           \/ /\ writeQueue \o logQueue # <<>>
              /\ file' \o buffer' = Append(file \o buffer, Head(writeQueue \o logQueue))
              /\ writeQueue' \o logQueue' = Tail(writeQueue \o logQueue)
              /\ OrderInv'
           \/ /\ writeQueue' \o logQueue' = writeQueue \o logQueue
              /\ file' \o buffer' = file \o buffer
              /\ OrderInv'
  <1> DEFINE pending == writeQueue \o logQueue
             done == file \o buffer
             Stays == pending' = pending /\ done' = done /\ OrderInv'
  <1>0. /\ logQueue \in Seq(Line) /\ writeQueue \in Seq(Line) /\ pending \in Seq(Line)
        /\ buffer \in Seq(Line) /\ file \in Seq(Line) /\ done \in Seq(Line)
        /\ added = done \o pending
    BY DEF IInv, TypeOK, OrderInv
    <1>1. ASSUME NEW p \in Producers, JoinLogQueue(p)
        PROVE  \E e \in Line : pending' = Append(pending, e) /\ done' = done /\ OrderInv'
    <2> DEFINE e == <<p, count[p]>>
    <2>1. e \in Line
      BY <1>1 DEF JoinLogQueue, Step, IInv, TypeOK, JoinInv, Line
    <2>2. /\ pending' = writeQueue \o Append(logQueue, e)
          /\ done' = done /\ added' = Append(added, e)
      BY <1>1 DEF JoinLogQueue, writerVars
    <2> HIDE DEF e
    <2>3. writeQueue \o Append(logQueue, e) = Append(pending, e)
      BY <1>0, <2>1, AppendConcat
    <2> HIDE DEF pending, done
    <2>4. done \o Append(pending, e) = Append(done \o pending, e)
      BY <1>0, <2>1, AppendConcat
    <2>5. added' = done' \o pending'
      BY <1>0, <2>2, <2>3, <2>4, Zenon
    <2> QED
      BY <2>1, <2>2, <2>3, <2>5, Zenon DEF OrderInv, pending, done
  <1>2. ASSUME PutLine
        PROVE  /\ pending # <<>> /\ done' = Append(done, Head(pending))
               /\ pending' = Tail(pending) /\ OrderInv'
    <2> DEFINE h == Head(writeQueue)
    <2>1. h \in Line /\ Tail(writeQueue) \in Seq(Line) /\ writeQueue # <<>>
      BY <1>0, <1>2 DEF PutLine
    <2>2. /\ \/ buffer' = Append(buffer, h) /\ file' = file
             \/ file' = Append(done, h) /\ buffer' = <<>>
          /\ writeQueue' = Tail(writeQueue) /\ logQueue' = logQueue /\ added' = added
      BY <1>2 DEF PutLine, queueVars
    <2>3. pending # <<>> /\ h = Head(pending) /\ Tail(writeQueue) \o logQueue = Tail(pending)
      BY <1>0, <2>1, PutTakesHead
    <2>4. Append(done, h) \o (Tail(writeQueue) \o logQueue) = done \o pending
      <3> HIDE DEF done
      <3> QED
        BY <1>0, <2>1, PutMovesHead
    <2> HIDE DEF h
    <2>5. done' = Append(done, h)
      <3>1. CASE buffer' = Append(buffer, h) /\ file' = file
        BY <1>0, <2>1, <3>1, AppendConcat
      <3>2. CASE file' = Append(done, h) /\ buffer' = <<>>
        <4> HIDE DEF done
        <4>1. Append(done, h) \in Seq(Line)
          BY <1>0, <2>1
        <4> QED
          BY <3>2, <4>1, EmptyConcat DEF done
      <3> QED
        BY <2>2, <3>1, <3>2
    <2>6. pending' = Tail(writeQueue) \o logQueue
      BY <2>2
    <2>7. added' = done' \o pending'
      BY <1>0, <2>2, <2>4, <2>5, <2>6, Zenon
    <2> QED
      BY <2>3, <2>5, <2>6, <2>7 DEF OrderInv
  <1>3. ASSUME TakeQueue PROVE Stays
    <2>1. pending = logQueue
      BY <1>0, <1>3, EmptyConcat DEF TakeQueue, Turn, IInv, TurnInv
    <2>2. writeQueue' = logQueue /\ logQueue' = <<>>
          /\ file' = file /\ buffer' = buffer /\ added' = added
      BY <1>3 DEF TakeQueue
    <2>3. pending' = logQueue /\ done' = done
      BY <1>0, <2>2, EmptyConcat
    <2> QED
      BY <1>0, <2>1, <2>2, <2>3, Zenon DEF OrderInv
  <1>4. ASSUME FlushBuffer \/ Exit PROVE Stays
    <2>1. /\ file' = done /\ buffer' = <<>> /\ writeQueue' = writeQueue
          /\ logQueue' = logQueue /\ added' = added
      BY <1>4 DEF FlushBuffer, Exit, queueVars
    <2>2. done' = done
      <3> HIDE DEF done
      <3> QED
        BY <1>0, <2>1, EmptyConcat DEF done
    <2> QED
      BY <1>0, <2>1, <2>2, Zenon DEF OrderInv
  <1>5. ASSUME UNCHANGED <<queueVars, writerVars>> PROVE Stays
    BY <1>0, <1>5, Zenon DEF queueVars, writerVars, OrderInv
  <1>6. ASSUME NEW p \in Producers, LockJoin(p) \/ NotifyWriter(p) \/ UnlockJoin(p) PROVE Stays
    BY <1>5, <1>6 DEF LockJoin, NotifyWriter, UnlockJoin
  <1>7. CASE Create \/ CallFlush \/ ReadFlushed \/ Killed \/ SpuriousWakeup
    BY <1>5, <1>7 DEF Create, CallFlush, ReadFlushed, Killed, SpuriousWakeup
  <1>8. CASE LockMain \/ SetFlushed \/ TestQueue
    BY <1>5, <1>8 DEF LockMain, SetFlushed, TestQueue
  <1>9. CASE UNCHANGED vars
    BY <1>5, <1>9 DEF vars
  <1> QED
    BY <1>1, <1>2, <1>3, <1>4, <1>6, <1>7, <1>8, <1>9 DEF Next, Join, Flush, MainLoop

\* The writer sets the flag when every line is in the file, and keeps it there.
LEMMA NextFlagInv == IInv /\ [Next]_vars => FlagInv'
  <1> SUFFICES ASSUME IInv, [Next]_vars PROVE FlagInv'
    OBVIOUS
  <1>0. /\ logQueue \in Seq(Line) /\ writeQueue \in Seq(Line)
        /\ buffer \in Seq(Line) /\ file \in Seq(Line)
        /\ covered \in Nat
    <2>1. Len(added) \in Nat
      BY LenProperties DEF IInv, TypeOK
    <2> QED
      BY <2>1 DEF IInv, TypeOK
  <1> USE DEF IInv, FlagInv
  <1>1. CASE SetFlushed
    <2>1. ASSUME logQueue = <<>> PROVE added = file
      <3>1. writeQueue = <<>> /\ buffer = <<>>
        BY <1>1 DEF SetFlushed, Turn, TurnInv
      <3>2. file \o buffer = file /\ writeQueue \o logQueue = <<>>
        BY <1>0, <2>1, <3>1, EmptyConcat
      <3> QED
        BY <1>0, <3>2, EmptyConcat DEF OrderInv
    <2>2. (queueFlushed' => logQueue = <<>>) /\ covered' = Len(added) /\ file' = file
      BY <1>1 DEF SetFlushed, writerVars
    <2>3. Len(file) \in Nat
      BY <1>0, LenProperties
    <2> QED
      BY <2>1, <2>2, <2>3
  <1>2. ASSUME Len(file') >= Len(file), Len(file') \in Nat, UNCHANGED flagVars
        PROVE  FlagInv'
    <2>1. Len(file) \in Nat
      BY <1>0, LenProperties
    <2> QED
      BY <1>0, <1>2, <2>1 DEF flagVars
  <1>2a. CASE PutLine
    <2> DEFINE h == Head(writeQueue)
    <2>1. h \in Line
      BY <1>0, <1>2a DEF PutLine
    <2>2. file' = file \/ file' = Append(file \o buffer, h)
      BY <1>2a DEF PutLine
    <2> HIDE DEF h
    <2>3. file' \in Seq(Line) /\ Len(file') >= Len(file)
      <3>1. CASE file' = file
        BY <1>0, <3>1, LenProperties
      <3>2. CASE file' = Append(file \o buffer, h)
        <4>1. file' \in Seq(Line)
          BY <1>0, <2>1, <3>2
        <4> QED
          BY <1>0, <2>1, <3>2, <4>1, FileGrows
      <3> QED
        BY <2>2, <3>1, <3>2
    <2>4. UNCHANGED flagVars
      BY <1>2a DEF PutLine
    <2> QED
      BY <1>2, <2>3, <2>4, LenProperties
  <1>3. CASE FlushBuffer \/ Exit
    <2>1. file' = file \o buffer /\ UNCHANGED flagVars
      BY <1>3 DEF FlushBuffer, Exit
    <2>2. file' \in Seq(Line) /\ Len(file') >= Len(file)
      BY <1>0, <2>1, FileGrows
    <2> QED
      BY <1>2, <2>1, <2>2, LenProperties
  <1>4. ASSUME NEW p \in Producers, LockJoin(p) \/ Join(p) PROVE FlagInv'
    BY <1>4 DEF LockJoin, Join, JoinLogQueue, NotifyWriter, UnlockJoin, flagVars, writerVars
  <1>5. CASE Create \/ CallFlush \/ ReadFlushed \/ Killed \/ SpuriousWakeup
    BY <1>5 DEF Create, CallFlush, ReadFlushed, Killed, SpuriousWakeup, flagVars, writerVars
  <1>6. CASE LockMain \/ TestQueue \/ TakeQueue
    BY <1>6 DEF LockMain, TestQueue, TakeQueue, flagVars, writerVars
  <1>7. CASE UNCHANGED vars
    BY <1>7 DEF vars, flagVars, writerVars
  <1> QED
    BY <1>1, <1>2a, <1>3, <1>4, <1>5, <1>6, <1>7 DEF Next, Flush, MainLoop

\* The writer goes to sleep on an empty queue, and every line is followed by a
\* notification.
LEMMA NextSleepInv == IInv /\ [Next]_vars => SleepInv'
  <1> SUFFICES ASSUME IInv, [Next]_vars PROVE SleepInv'
    OBVIOUS
  <1> USE DEF IInv, TypeOK, SleepInv, queueVars
  <1>1. ASSUME NEW p \in Producers, LockJoin(p) PROVE SleepInv'
    BY <1>1 DEF LockJoin, Step
  <1>2. ASSUME NEW p \in Producers, JoinLogQueue(p) PROVE SleepInv'
    <2>1. ppc'[p] = "notify"
      BY <1>2 DEF JoinLogQueue, Step
    <2> QED
      BY <2>1
  <1>3. ASSUME NEW p \in Producers, NotifyWriter(p) PROVE SleepInv'
    BY <1>3 DEF NotifyWriter
  <1>4. ASSUME NEW p \in Producers, UnlockJoin(p) PROVE SleepInv'
    BY <1>4 DEF UnlockJoin, Step
  <1>5. CASE CallFlush \/ Flush
    BY <1>5, LogAssumption DEF CallFlush, Flush, ReadFlushed, Exit, Step
  <1>6. CASE MainLoop
    BY <1>6 DEF MainLoop, LockMain, SetFlushed, TestQueue, TakeQueue, PutLine, FlushBuffer, Turn
  <1>7. CASE Create \/ SpuriousWakeup \/ Killed
    BY <1>7 DEF Create, SpuriousWakeup, Killed, Turn
  <1>8. CASE UNCHANGED vars
    BY <1>8 DEF vars
  <1> QED
    BY <1>1, <1>2, <1>3, <1>4, <1>5, <1>6, <1>7, <1>8 DEF Next, Join

\* The invariant holds throughout.
LEMMA Inductive == Spec => []IInv
  <1>1. IInv /\ [Next]_vars => IInv'
    BY NextTypeOK, NextJoinInv, NextTurnInv, LinesMove, NextFlagInv, NextSleepInv DEF IInv
  <1> QED
    BY InitIInv, <1>1, PTL DEF Spec

\* When queueFlushed_ is set, every line joined before the writer last set it is
\* in the file, whoever logs meanwhile and wherever the process is killed.
THEOREM FlagMeansInFile == Spec => []FlushedIsInFile
  <1>1. IInv => FlushedIsInFile
    BY DEF IInv, FlagInv, FlushedIsInFile
  <1> QED
    BY <1>1, Inductive, PTL

\* The writer never sleeps with a line queued, unless the producer of the line
\* is about to notify it.
THEOREM NeverSleepsOnLines == Spec => []SleepInv
  <1>1. IInv => SleepInv
    BY DEF IInv
  <1> QED
    BY <1>1, Inductive, PTL

\* The log is a queue of lines: none is dropped, repeated or moved, for any
\* number of threads and lines and wherever the process ends.
THEOREM Implements == Spec => ImplementsQueue
  <1>1. Init => Queue!Init
    BY EmptyConcat DEF Init, Queue!Init
  <1>2. IInv /\ [Next]_vars => [Queue!Next]_Queue!vars
    BY LinesMove DEF Queue!Next, Queue!Submit, Queue!Execute, Queue!vars
  <1> QED
    BY <1>1, <1>2, Inductive, PTL DEF Spec, ImplementsQueue, Queue!Spec
==============================================================================
