------------------------------- MODULE PcatMon -------------------------------
(***************************************************************************)
(* pcat on a monitor (sems/pcat/on_monitors/pcat.c): a writer and a reader *)
(* thread share the buffer of PcatBuffer, one mutex and two condition      *)
(* variables; main joins both and destroys buffer and monitor.  It looks   *)
(* at the result of neither pthread_create.                                *)
(* Unlike a semaphore, a condition variable forgets a signal nobody waits  *)
(* for, and may wake a waiter for no reason.                               *)
(***************************************************************************)
EXTENDS PcatBuffer

VARIABLES
  mtx,        \* the owner of monitor->mtx, or "none"
  wpc, rpc,   \* where the two threads are: "asleep" on a condition variable,
              \* "missing" if pthread_create failed
  mpc         \* where main is

vars == <<bufVars, mtx, wpc, rpc, mpc>>

ThreadPC == {"unborn", "lock", "check", "cond_wait", "asleep", "relock",
             "unlock", "ret", "io", "put_lock", "put_mark", "put_signal",
             "put_unlock", "done", "missing"}

\* The thread owns the mutex here.
Inside == {"check", "cond_wait", "unlock", "put_mark", "put_signal",
           "put_unlock"}

pthread_mutex_lock(t) == mtx = "none" /\ mtx' = t
pthread_mutex_unlock == mtx' = "none"

Init ==
  /\ BufInit
  /\ mtx = "none"
  /\ wpc = "unborn" /\ rpc = "unborn" /\ mpc = "create_writer"

-----------------------------------------------------------------------------
(* writer_thread: buf_write for every file.                                *)

WriterLock ==
  /\ wpc \in {"lock", "relock"} /\ pthread_mutex_lock("writer")
  /\ wpc' = "check"
  /\ UNCHANGED <<bufVars, rpc, mpc>>

WriterCheck ==
  /\ wpc = "check"
  /\ wpc' = IF NoRoom THEN "cond_wait" ELSE "unlock"
  /\ UNCHANGED <<bufVars, mtx, rpc, mpc>>

\* pthread_cond_wait(full): release the mutex and go to sleep in one step.
WriterCondWait ==
  /\ wpc = "cond_wait" /\ pthread_mutex_unlock
  /\ wpc' = "asleep"
  /\ UNCHANGED <<bufVars, rpc, mpc>>

WriterUnlock ==
  /\ wpc = "unlock" /\ pthread_mutex_unlock
  /\ wpc' = "ret"
  /\ UNCHANGED <<bufVars, rpc, mpc>>

\* get_write reads buffer->end after it has released the mutex.
WriterReturn ==
  /\ wpc = "ret"
  /\ dest' = end /\ got' = 0
  /\ wpc' = "io"
  /\ UNCHANGED <<header, wfile, reader, io, mtx, rpc, mpc>>

Mutant_WriterRead ==
  /\ wpc = "io"
  /\ \/ ReadChunk /\ UNCHANGED <<wpc, header, reader>>
     \/ /\ got = fsize(wfile) /\ SafereadReturns
        /\ wpc' = "put_lock" /\ UNCHANGED <<header, writer, reader>>
     \/ got < fsize(wfile) /\ UNCHANGED <<wpc, bufVars>>
  /\ UNCHANGED <<mtx, rpc, mpc>>

WriterRead ==
  /\ wpc = "io"
  /\ \/ ReadChunk /\ UNCHANGED <<wpc, header, reader>>
     \/ SafereadReturns /\ wpc' = "put_lock" /\ UNCHANGED <<header, writer, reader>>
     \/ ReadPastEnd /\ UNCHANGED <<wpc, header, writer, reader>>
  /\ UNCHANGED <<mtx, rpc, mpc>>

WriterPutLock ==
  /\ wpc = "put_lock" /\ pthread_mutex_lock("writer")
  /\ wpc' = "put_mark"
  /\ UNCHANGED <<bufVars, rpc, mpc>>

WriterMark ==
  /\ wpc = "put_mark" /\ MarkWritten
  /\ wpc' = "put_signal"
  /\ UNCHANGED <<reader, io, mtx, rpc, mpc>>

\* pthread_cond_signal(empty) wakes the reader if it is waiting now.
WriterSignal ==
  /\ wpc = "put_signal"
  /\ rpc' = IF rpc = "asleep" THEN "relock" ELSE rpc
  /\ wpc' = "put_unlock"
  /\ UNCHANGED <<bufVars, mtx, mpc>>

WriterPutUnlock ==
  /\ wpc = "put_unlock" /\ pthread_mutex_unlock
  /\ wpc' = IF wfile <= NFiles THEN "lock" ELSE "done"
  /\ UNCHANGED <<bufVars, rpc, mpc>>

Writer ==
  \/ WriterLock \/ WriterCheck \/ WriterCondWait \/ WriterUnlock
  \/ WriterReturn \/ WriterRead \/ WriterPutLock \/ WriterMark
  \/ WriterSignal \/ WriterPutUnlock

-----------------------------------------------------------------------------
(* reader_thread: buf_read for every file.                                 *)

ReaderLock ==
  /\ rpc \in {"lock", "relock"} /\ pthread_mutex_lock("reader")
  /\ rpc' = "check"
  /\ UNCHANGED <<bufVars, wpc, mpc>>

ReaderCheck ==
  /\ rpc = "check"
  /\ rpc' = IF NoData THEN "cond_wait" ELSE "unlock"
  /\ UNCHANGED <<bufVars, mtx, wpc, mpc>>

ReaderCondWait ==
  /\ rpc = "cond_wait" /\ pthread_mutex_unlock
  /\ rpc' = "asleep"
  /\ UNCHANGED <<bufVars, wpc, mpc>>

ReaderUnlock ==
  /\ rpc = "unlock" /\ pthread_mutex_unlock
  /\ rpc' = "ret"
  /\ UNCHANGED <<bufVars, wpc, mpc>>

ReaderReturn ==
  /\ rpc = "ret"
  /\ src' = start /\ put' = 0
  /\ rpc' = "io"
  /\ UNCHANGED <<header, rfile, writer, io, mtx, wpc, mpc>>

ReaderWrite ==
  /\ rpc = "io"
  /\ \/ WriteChunk /\ UNCHANGED <<rpc, header, writer>>
     \/ SafewriteReturns /\ rpc' = "put_lock" /\ UNCHANGED <<header, writer, reader>>
     \/ WritePastEnd /\ UNCHANGED <<rpc, header, writer, reader>>
  /\ UNCHANGED <<mtx, wpc, mpc>>

ReaderPutLock ==
  /\ rpc = "put_lock" /\ pthread_mutex_lock("reader")
  /\ rpc' = "put_mark"
  /\ UNCHANGED <<bufVars, wpc, mpc>>

ReaderMark ==
  /\ rpc = "put_mark" /\ MarkRead
  /\ rpc' = "put_signal"
  /\ UNCHANGED <<writer, io, mtx, wpc, mpc>>

Mutant_ReaderSignal ==
  /\ rpc = "put_signal"
  /\ rpc' = "put_unlock"
  /\ UNCHANGED <<bufVars, mtx, wpc, mpc>>

ReaderSignal ==
  /\ rpc = "put_signal"
  /\ wpc' = IF wpc = "asleep" THEN "relock" ELSE wpc
  /\ rpc' = "put_unlock"
  /\ UNCHANGED <<bufVars, mtx, mpc>>

ReaderPutUnlock ==
  /\ rpc = "put_unlock" /\ pthread_mutex_unlock
  /\ rpc' = IF rfile <= NFiles THEN "lock" ELSE "done"
  /\ UNCHANGED <<bufVars, wpc, mpc>>

Reader ==
  \/ ReaderLock \/ ReaderCheck \/ ReaderCondWait \/ ReaderUnlock
  \/ ReaderReturn \/ ReaderWrite \/ ReaderPutLock \/ ReaderMark
  \/ ReaderSignal \/ ReaderPutUnlock

-----------------------------------------------------------------------------
(* main: create both threads, join both, destroy buffer and monitor.       *)

\* If pthread_create fails there is no thread, and no id: main goes on all the
\* same.
CreateWriter ==
  /\ mpc = "create_writer" /\ mpc' = "create_reader"
  /\ wpc' \in {"lock", "missing"}
  /\ UNCHANGED <<bufVars, mtx, rpc>>

CreateReader ==
  /\ mpc = "create_reader" /\ mpc' = "join_writer"
  /\ rpc' \in {"lock", "missing"}
  /\ UNCHANGED <<bufVars, mtx, wpc>>

\* pthread_join(t), and then label.  With an id that was never set it may return
\* with an error, wait for ever or bring down the process.
Join(t, label) ==
  \/ t = "done" /\ mpc' = label
  \/ t = "missing" /\ mpc' \in {label, "hung", "crashed"}

JoinWriter ==
  /\ mpc = "join_writer" /\ Join(wpc, "join_reader")
  /\ UNCHANGED <<bufVars, mtx, wpc, rpc>>

JoinReaderAndDestroy ==
  /\ mpc = "join_reader" /\ Join(rpc, "exited")
  /\ UNCHANGED <<bufVars, mtx, wpc, rpc>>

MainThread == CreateWriter \/ CreateReader \/ JoinWriter \/ JoinReaderAndDestroy

\* POSIX lets pthread_cond_wait return without a signal.
SpuriousWakeup ==
  /\ \/ wpc = "asleep" /\ wpc' = "relock" /\ UNCHANGED rpc
     \/ rpc = "asleep" /\ rpc' = "relock" /\ UNCHANGED wpc
  /\ UNCHANGED <<bufVars, mtx, mpc>>

\* The process is there, and its memory as it should be.
Running == ~undefined /\ mpc # "crashed"

Stop == (mpc \in {"exited", "hung"} \/ ~Running) /\ UNCHANGED vars

Next ==
  \/ Running /\ (Writer \/ Reader \/ MainThread \/ SpuriousWakeup)
  \/ Stop

Spec == Init /\ [][Next]_vars

\* Every runnable thread gets the CPU.  A thread that keeps asking for the
\* mutex gets it although the other takes it now and then (strong fairness);
\* nothing is assumed of spurious wakeups.
Fairness ==
  /\ WF_vars(Running /\ Writer) /\ WF_vars(Running /\ Reader)
  /\ SF_vars(Running /\ (WriterLock \/ WriterPutLock))
  /\ SF_vars(Running /\ (ReaderLock \/ ReaderPutLock))
  /\ WF_vars(Running /\ MainThread)

FairSpec == Spec /\ Fairness

-----------------------------------------------------------------------------
(* Properties.                                                             *)

TypeOK ==
  /\ BufTypeOK
  /\ mtx \in {"none", "writer", "reader"}
  /\ wpc \in ThreadPC /\ rpc \in ThreadPC
  /\ mpc \in {"create_writer", "create_reader", "join_writer", "join_reader",
              "exited", "hung", "crashed"}

\* A signal sent while nobody waits is lost.  A sleeping thread's condition
\* nevertheless still fails, or the other thread is just about to signal.
NoLostWakeup ==
  /\ wpc = "asleep" => NoRoom \/ rpc = "put_signal"
  /\ rpc = "asleep" => NoData \/ wpc = "put_signal"

\* The address is computed after the unlock and used with no lock held.  Still,
\* if no read() or write() fails, the bytes come out in order, all of them
\* unless the files wrap around the storage.
OutputInOrder ==
  faults = 0 =>
    InOrder /\ (rpc = "done" => outLen >= Capacity \/ outLen = Total)

\* main joins both threads and returns, unless one of them was never created:
\* then the other may wait for it for ever, and main joins a thread that is not.
Termination == <>(mpc = "exited" \/ undefined \/ "missing" \in {wpc, rpc})

\* The monitor implements the same bounded FIFO of files as the semaphores.
Queue == INSTANCE FileQueue WITH written <- wfile - 1, taken <- rfile - 1
QueueSpec == Queue!Spec
=============================================================================
