-------------------------------- MODULE Logger --------------------------------
(***************************************************************************)
(* utils/CuLogger.h: CU::Logger, the log of one process.                   *)
(*                                                                         *)
(* Create sets the level and, if the file can be created, starts the       *)
(* thread that writes it.  Any thread joins lines to logQueue_ under mtx_; *)
(* the writer takes the queue, puts the lines into the stdio buffer and    *)
(* flushes it.  Flush, which precedes every std::exit of the daemon, waits *)
(* for queueFlushed_, a flag that only the writer sets.  Levels below the  *)
(* chosen one are dropped at the door and are left out here.               *)
(***************************************************************************)
EXTENDS Naturals, Sequences

CONSTANTS
    Producers,  \* the threads that log
    Quitter,    \* the one of them that flushes the log and exits
    MaxLogs,    \* bound: how many lines each of them logs
    Writer, Free

ASSUME LogAssumption ==
    /\ MaxLogs \in Nat
    /\ Quitter \in Producers
    /\ Writer \notin Producers /\ Free \notin Producers \cup {Writer}

VARIABLES
    created,       \* main has called Create
    mtx,           \* mtx_: who holds it
    logQueue, writeQueue, queueFlushed,
    buffer, file,  \* the lines in the stdio buffer, and those in the file
    wpc,           \* where the writer is in mainLoop_
    ppc,           \* where each producer is
    count,         \* how many lines each producer has logged
    process,       \* "running", "exited" by std::exit, "killed" by a crash
    added,         \* history: the lines joined, in order
    covered        \* history: how many of them there were when the writer last
                   \* set queueFlushed_

writerVars == <<writeQueue, buffer, file>>
queueVars == <<logQueue, added>>
flagVars == <<queueFlushed, covered>>
vars == <<created, mtx, queueVars, flagVars, writerVars, wpc, ppc, count, process>>

Line == Producers \X (1..MaxLogs)

Init ==
    /\ created = FALSE /\ mtx = Free
    /\ logQueue = <<>> /\ writeQueue = <<>> /\ queueFlushed = TRUE
    /\ buffer = <<>> /\ file = <<>>
    /\ wpc = "none"
    /\ ppc = [p \in Producers |-> "idle"]
    /\ count = [p \in Producers |-> 0]
    /\ process = "running"
    /\ added = <<>> /\ covered = 0

Running == process = "running"

------------------------------------------------------------------------------
(* Create: setLogger_, before the process has a second thread *)

\* createFile may fail, and then no thread reads the queue; so may the open of
\* the thread that was started, which ends it.
Create ==
    /\ Running /\ ~created
    /\ created' = TRUE
    /\ wpc' \in {"none", "lock"}
    /\ UNCHANGED <<mtx, queueVars, flagVars, writerVars, ppc, count, process>>

------------------------------------------------------------------------------
(* Error, Warn, Info, ...: joinLogQueue_ *)

Step(p, from, to) ==
    Running /\ ppc[p] = from /\ ppc' = [ppc EXCEPT ![p] = to]

LockJoin(p) ==
    /\ created /\ count[p] < MaxLogs
    /\ Step(p, "idle", "join")
    /\ mtx = Free
    /\ mtx' = p
    /\ count' = [count EXCEPT ![p] = @ + 1]
    /\ UNCHANGED <<created, queueVars, flagVars, writerVars, wpc, process>>

JoinLogQueue(p) ==
    /\ Step(p, "join", "notify")
    /\ logQueue' = Append(logQueue, <<p, count[p]>>)
    /\ added' = Append(added, <<p, count[p]>>)
    /\ UNCHANGED <<created, mtx, flagVars, writerVars, wpc, count, process>>

\* Mutant: nobody is notified of the line.
NotifyNobody(p) ==
    /\ Step(p, "notify", "unlock")
    /\ UNCHANGED <<created, mtx, queueVars, flagVars, writerVars, wpc, count, process>>

NotifyWriter(p) ==
    /\ Step(p, "notify", "unlock")
    /\ wpc' = IF wpc = "waiting" THEN "relock" ELSE wpc
    /\ UNCHANGED <<created, mtx, queueVars, flagVars, writerVars, count, process>>

UnlockJoin(p) ==
    /\ Step(p, "unlock", "idle")
    /\ mtx' = Free
    /\ UNCHANGED <<created, queueVars, flagVars, writerVars, wpc, count, process>>

------------------------------------------------------------------------------
(* Flush: flushLogQueue_, and the std::exit(0) that follows it *)

CallFlush ==
    /\ created
    /\ Step(Quitter, "idle", "flush")
    /\ UNCHANGED <<created, mtx, queueVars, flagVars, writerVars, wpc, count, process>>

\* The read takes and releases mtx_ in one step: it only needs it to be free.
ReadFlushed ==
    /\ mtx = Free
    /\ Step(Quitter, "flush", IF queueFlushed THEN "exit" ELSE "flush")
    /\ UNCHANGED <<created, mtx, queueVars, flagVars, writerVars, wpc, count, process>>

\* exit() flushes the open files.
Exit ==
    /\ Step(Quitter, "exit", "gone")
    /\ process' = "exited"
    /\ file' = file \o buffer
    /\ buffer' = <<>>
    /\ UNCHANGED <<created, mtx, queueVars, flagVars, writeQueue, wpc, count>>

\* An exception that leaves some thread, or the SIGKILL of a new daemon.
Killed ==
    /\ Running
    /\ process' = "killed"
    /\ UNCHANGED <<created, mtx, queueVars, flagVars, writerVars, wpc, ppc, count>>

------------------------------------------------------------------------------
(* mainLoop_ *)

Turn(from, to) == Running /\ wpc = from /\ wpc' = to

LockMain ==
    /\ mtx = Free
    /\ Turn("lock", "flag") \/ Turn("relock", "test")
    /\ mtx' = Writer
    /\ UNCHANGED <<created, queueVars, flagVars, writerVars, ppc, count, process>>

\* queueFlushed_ is brought up to date once a turn, before the wait.
SetFlushed ==
    /\ Turn("flag", "test")
    /\ queueFlushed' = (logQueue = <<>>)
    /\ covered' = Len(added)
    /\ UNCHANGED <<created, mtx, queueVars, writerVars, ppc, count, process>>

TestQueue ==
    /\ \/ logQueue = <<>> /\ Turn("test", "waiting") /\ mtx' = Free
       \/ logQueue # <<>> /\ Turn("test", "copy") /\ UNCHANGED mtx
    /\ UNCHANGED <<created, queueVars, flagVars, writerVars, ppc, count, process>>

SpuriousWakeup ==
    /\ Turn("waiting", "relock")
    /\ UNCHANGED <<created, mtx, queueVars, flagVars, writerVars, ppc, count, process>>

\* Mutant: the queue is taken and the mutex released without clearing it.
TakeQueueAgain ==
    /\ Turn("copy", "write")
    /\ writeQueue' = logQueue
    /\ mtx' = Free
    /\ UNCHANGED <<created, queueVars, buffer, file, flagVars, ppc, count, process>>

\* writeQueue = logQueue_; logQueue_.clear(); and the end of the locked block.
TakeQueue ==
    /\ Turn("copy", "write")
    /\ writeQueue' = logQueue
    /\ logQueue' = <<>>
    /\ mtx' = Free
    /\ UNCHANGED <<created, added, buffer, file, flagVars, ppc, count, process>>

\* fputs: the line is in the buffer, which stdio empties when it likes.
PutLine ==
    /\ Turn("write", "write") /\ writeQueue # <<>>
    /\ \/ buffer' = Append(buffer, Head(writeQueue)) /\ UNCHANGED file
       \/ file' = Append(file \o buffer, Head(writeQueue)) /\ buffer' = <<>>
    /\ writeQueue' = Tail(writeQueue)
    /\ UNCHANGED <<created, mtx, queueVars, flagVars, ppc, count, process>>

\* Mutant: the loop over the lines ends without fflush.
NoFlush ==
    /\ Turn("write", "lock") /\ writeQueue = <<>>
    /\ UNCHANGED <<created, mtx, queueVars, flagVars, writerVars, ppc, count, process>>

FlushBuffer ==
    /\ Turn("write", "lock") /\ writeQueue = <<>>
    /\ file' = file \o buffer
    /\ buffer' = <<>>
    /\ UNCHANGED <<created, mtx, queueVars, writeQueue, flagVars, ppc, count, process>>

------------------------------------------------------------------------------
Join(p) == JoinLogQueue(p) \/ NotifyWriter(p) \/ UnlockJoin(p)
Flush == ReadFlushed \/ Exit
MainLoop ==
    \/ LockMain \/ SetFlushed \/ TestQueue \/ TakeQueue \/ PutLine \/ FlushBuffer

Next ==
    \/ Create
    \/ \E p \in Producers : LockJoin(p) \/ Join(p)
    \/ CallFlush \/ Flush
    \/ MainLoop
    \/ SpuriousWakeup \/ Killed

Spec == Init /\ [][Next]_vars

\* Threads that can run are run; a lock that is released again and again is
\* given to each thread that waits for it.  Nobody has to log, flush or crash.
FairSpec ==
    /\ Spec
    /\ WF_vars(Create)
    /\ \A p \in Producers : WF_vars(Join(p))
    /\ SF_vars(ReadFlushed) /\ WF_vars(Flush)
    /\ SF_vars(LockMain) /\ WF_vars(MainLoop)

------------------------------------------------------------------------------
TypeOK ==
    /\ created \in BOOLEAN /\ queueFlushed \in BOOLEAN
    /\ mtx \in Producers \cup {Writer, Free}
    /\ {logQueue, writeQueue, buffer, file, added} \subseteq Seq(Line)
    /\ wpc \in {"none", "lock", "flag", "test", "waiting", "relock", "copy", "write"}
    /\ ppc \in [Producers -> {"idle", "join", "notify", "unlock", "flush", "exit", "gone"}]
    /\ count \in [Producers -> 0..MaxLogs]
    /\ process \in {"running", "exited", "killed"}
    /\ covered \in 0..Len(added)
    /\ (mtx = Writer) <=> wpc \in {"flag", "test", "copy"}

\* The log is a queue of lines: joining puts one at the end, the writer takes
\* the first, and neither a wakeup, nor the copy of the queue, nor the end of
\* the process drops, repeats or moves one.
Queue == INSTANCE TaskQueue WITH
    Task <- Line, pending <- writeQueue \o logQueue, done <- file \o buffer
ImplementsQueue == Queue!Spec

\* What Flush can rely on: when queueFlushed_ is set, every line joined before
\* the writer last set it is in the file and safe from a crash.  Lines joined
\* since are not covered, though the flag stays set until the writer's next turn.
\* The writer never sleeps with the mutex (TypeOK).
FlushedIsInFile == TypeOK /\ (queueFlushed => Len(file) >= covered)

\* While the process runs, a queued line reaches the file, if there is a writer.
Written ==
    \A k \in 1..(MaxLogs * 2) :
        (Len(added) >= k /\ wpc # "none") ~> (Len(file) >= k \/ ~Running)

\* Flush returns, whatever the other threads log meanwhile and although the
\* writer may not exist.
FlushReturns == ppc[Quitter] = "flush" ~> (ppc[Quitter] # "flush" \/ ~Running)

\* Neither a line that is logged nor a caller of Flush waits for ever.
WritesAndReturns == Written /\ FlushReturns
==============================================================================
