------------------------------- MODULE PcatSem -------------------------------
(***************************************************************************)
(* pcat on semaphores (sems/pcat/on_semaphors/pcat.c): main forks a writer *)
(* and a reader that share the buffer of PcatBuffer and three semaphores,  *)
(* and waits for both.  One action per call that another process can       *)
(* observe.  What main does before and after is in PcatSetup; Pcat puts    *)
(* the two together.                                                       *)
(***************************************************************************)
EXTENDS PcatBuffer

CONSTANT MaxForkFails   \* how many of main's two fork() calls may fail

ASSUME ForkAssumption == MaxForkFails \in Nat

VARIABLES
  full, empty, mutex,   \* semaphores_t
  wpc, rpc,             \* where the writer and the reader are
  ppc, forkFails        \* where main is, and its failed forks

sems == <<full, empty, mutex>>
main == <<ppc, forkFails>>
vars == <<bufVars, sems, wpc, rpc, main>>

WriterPC == {"unborn", "get_lock", "get_check", "get_park", "wait_full",
             "get_unlock", "io", "put_lock", "put_mark", "put_post",
             "put_unlock", "done"}
ReaderPC == {"unborn", "get_lock", "get_check", "get_park", "wait_empty",
             "get_unlock", "io", "put_lock", "put_mark", "put_post",
             "put_unlock", "done"}
ParentPC == {"fork_writer", "fork_reader", "wait", "reaped"}

\* A child holds the mutex between its sem_wait and its sem_post.
Holding == {"get_check", "get_park", "get_unlock", "put_mark", "put_post",
            "put_unlock"}

sem_wait(s) == s > 0 /\ s' = s - 1
sem_post(s) == s' = s + 1

\* sem_init gives full the capacity field of the header before that field is
\* set: 0 in a fresh object, Capacity if a crashed run left one of this name.
Init ==
  /\ BufInit
  /\ full \in {0, Capacity} /\ empty = 0 /\ mutex = 1
  /\ wpc = "unborn" /\ rpc = "unborn"
  /\ ppc = "fork_writer" /\ forkFails = 0

-----------------------------------------------------------------------------
(* The writer process: buf_write for every file.                           *)

WriterGetLock ==
  /\ wpc = "get_lock" /\ sem_wait(mutex)
  /\ wpc' = "get_check"
  /\ UNCHANGED <<bufVars, full, empty, rpc, main>>

WriterCheck ==
  /\ wpc = "get_check"
  /\ IF NoRoom THEN wpc' = "get_park" /\ UNCHANGED <<dest, got>>
               ELSE wpc' = "get_unlock" /\ dest' = end /\ got' = 0
  /\ UNCHANGED <<header, wfile, reader, io, sems, rpc, main>>

WriterPark ==
  /\ wpc = "get_park" /\ sem_post(mutex)
  /\ wpc' = "wait_full"
  /\ UNCHANGED <<bufVars, full, empty, rpc, main>>

WriterWaitFull ==
  /\ wpc = "wait_full" /\ sem_wait(full)
  /\ wpc' = "get_lock"
  /\ UNCHANGED <<bufVars, empty, mutex, rpc, main>>

WriterGetUnlock ==
  /\ wpc = "get_unlock" /\ sem_post(mutex)
  /\ wpc' = "io"
  /\ UNCHANGED <<bufVars, full, empty, rpc, main>>

Mutant_WriterRead ==
  /\ wpc = "io"
  /\ \/ ReadChunk /\ UNCHANGED <<wpc, header, reader>>
     \/ /\ got = fsize(wfile) /\ SafereadReturns
        /\ wpc' = "put_lock" /\ UNCHANGED <<header, writer, reader>>
     \/ got < fsize(wfile) /\ UNCHANGED <<wpc, bufVars>>
  /\ UNCHANGED <<sems, rpc, main>>

WriterRead ==
  /\ wpc = "io"
  /\ \/ ReadChunk /\ UNCHANGED <<wpc, header, reader>>
     \/ SafereadReturns /\ wpc' = "put_lock" /\ UNCHANGED <<header, writer, reader>>
     \/ ReadPastEnd /\ UNCHANGED <<wpc, header, writer, reader>>
  /\ UNCHANGED <<sems, rpc, main>>

WriterPutLock ==
  /\ wpc = "put_lock" /\ sem_wait(mutex)
  /\ wpc' = "put_mark"
  /\ UNCHANGED <<bufVars, full, empty, rpc, main>>

WriterMark ==
  /\ wpc = "put_mark" /\ MarkWritten
  /\ wpc' = "put_post"
  /\ UNCHANGED <<reader, io, sems, rpc, main>>

WriterPost ==
  /\ wpc = "put_post" /\ sem_post(empty)
  /\ wpc' = "put_unlock"
  /\ UNCHANGED <<bufVars, full, mutex, rpc, main>>

WriterPutUnlock ==
  /\ wpc = "put_unlock" /\ sem_post(mutex)
  /\ wpc' = IF wfile <= NFiles THEN "get_lock" ELSE "done"
  /\ UNCHANGED <<bufVars, full, empty, rpc, main>>

Writer ==
  \/ WriterGetLock \/ WriterCheck \/ WriterPark \/ WriterWaitFull
  \/ WriterGetUnlock \/ WriterRead \/ WriterPutLock \/ WriterMark
  \/ WriterPost \/ WriterPutUnlock

-----------------------------------------------------------------------------
(* The reader process: buf_read for every file.                            *)

ReaderGetLock ==
  /\ rpc = "get_lock" /\ sem_wait(mutex)
  /\ rpc' = "get_check"
  /\ UNCHANGED <<bufVars, full, empty, wpc, main>>

ReaderCheck ==
  /\ rpc = "get_check"
  /\ IF NoData THEN rpc' = "get_park" /\ UNCHANGED <<src, put>>
               ELSE rpc' = "get_unlock" /\ src' = start /\ put' = 0
  /\ UNCHANGED <<header, rfile, writer, io, sems, wpc, main>>

ReaderPark ==
  /\ rpc = "get_park" /\ sem_post(mutex)
  /\ rpc' = "wait_empty"
  /\ UNCHANGED <<bufVars, full, empty, wpc, main>>

ReaderWaitEmpty ==
  /\ rpc = "wait_empty" /\ sem_wait(empty)
  /\ rpc' = "get_lock"
  /\ UNCHANGED <<bufVars, full, mutex, wpc, main>>

ReaderGetUnlock ==
  /\ rpc = "get_unlock" /\ sem_post(mutex)
  /\ rpc' = "io"
  /\ UNCHANGED <<bufVars, full, empty, wpc, main>>

ReaderWrite ==
  /\ rpc = "io"
  /\ \/ WriteChunk /\ UNCHANGED <<rpc, header, writer>>
     \/ SafewriteReturns /\ rpc' = "put_lock" /\ UNCHANGED <<header, writer, reader>>
     \/ WritePastEnd /\ UNCHANGED <<rpc, header, writer, reader>>
  /\ UNCHANGED <<sems, wpc, main>>

ReaderPutLock ==
  /\ rpc = "put_lock" /\ sem_wait(mutex)
  /\ rpc' = "put_mark"
  /\ UNCHANGED <<bufVars, full, empty, wpc, main>>

ReaderMark ==
  /\ rpc = "put_mark" /\ MarkRead
  /\ rpc' = "put_post"
  /\ UNCHANGED <<writer, io, sems, wpc, main>>

Mutant_ReaderPost ==
  /\ rpc = "put_post"
  /\ rpc' = "put_unlock"
  /\ UNCHANGED <<bufVars, sems, wpc, main>>

ReaderPost ==
  /\ rpc = "put_post" /\ sem_post(full)
  /\ rpc' = "put_unlock"
  /\ UNCHANGED <<bufVars, empty, mutex, wpc, main>>

ReaderPutUnlock ==
  /\ rpc = "put_unlock" /\ sem_post(mutex)
  /\ rpc' = IF rfile <= NFiles THEN "get_lock" ELSE "done"
  /\ UNCHANGED <<bufVars, full, empty, wpc, main>>

Reader ==
  \/ ReaderGetLock \/ ReaderCheck \/ ReaderPark \/ ReaderWaitEmpty
  \/ ReaderGetUnlock \/ ReaderWrite \/ ReaderPutLock \/ ReaderMark
  \/ ReaderPost \/ ReaderPutUnlock

-----------------------------------------------------------------------------
(* main: fork both children, reap them, clean up.  A failed fork() returns *)
(* -1, which main takes for the parent's side and goes on.                 *)

ForkWriter ==
  /\ ppc = "fork_writer" /\ ppc' = "fork_reader"
  /\ \/ wpc' = "get_lock" /\ UNCHANGED forkFails
     \/ forkFails < MaxForkFails /\ forkFails' = forkFails + 1 /\ UNCHANGED wpc
  /\ UNCHANGED <<bufVars, sems, rpc>>

ForkReader ==
  /\ ppc = "fork_reader" /\ ppc' = "wait"
  /\ \/ rpc' = "get_lock" /\ UNCHANGED forkFails
     \/ forkFails < MaxForkFails /\ forkFails' = forkFails + 1 /\ UNCHANGED rpc
  /\ UNCHANGED <<bufVars, sems, wpc>>

\* while (wait() > 0)
Reap ==
  /\ ppc = "wait" /\ ppc' = "reaped"
  /\ wpc \in {"unborn", "done"} /\ rpc \in {"unborn", "done"}
  /\ UNCHANGED <<bufVars, sems, wpc, rpc, forkFails>>

Parent == ForkWriter \/ ForkReader \/ Reap

Next == ~undefined /\ (Writer \/ Reader \/ Parent)

Spec == Init /\ [][Next]_vars

-----------------------------------------------------------------------------
(* Properties.                                                             *)

TypeOK ==
  /\ BufTypeOK
  /\ full \in Nat /\ empty \in Nat /\ mutex \in {0, 1}
  /\ wpc \in WriterPC /\ rpc \in ReaderPC
  /\ ppc \in ParentPC /\ forkFails \in 0 .. MaxForkFails

\* buffer->size is exactly what was marked as written and not yet as read
\* (upd_buffer_size recomputes it from two indices taken modulo the capacity).
SizeIsUnread == size = Written - Taken

\* The region get_write handed out is filled outside the mutex, long after the
\* check; no address of it may hold bytes the reader has still to send.
NoOverwrite ==
  wpc \in {"get_unlock", "io", "put_lock", "put_mark"}
    => WriteRegion \cap UnreadRegion = {}

\* A child that sleeps on full or empty sleeps for a reason: its condition
\* still fails, or the other child is just about to post.
NoLostWakeup ==
  /\ wpc = "wait_full" /\ full = 0 => NoRoom \/ rpc = "put_post"
  /\ rpc = "wait_empty" /\ empty = 0 => NoData \/ wpc = "put_post"

\* If no read() or write() fails, standard output gets the bytes in order, all
\* of them unless the files wrap around the storage.  (They are transferred
\* linearly: one that runs past its end loses the rest.)
OutputInOrder ==
  faults = 0 =>
    InOrder /\ (rpc = "done" => outLen >= Capacity \/ outLen = Total)

\* Behind the semaphores, the shared indices and the I/O outside the lock, the
\* buffer is the bounded FIFO of files of FileQueue.
Queue == INSTANCE FileQueue WITH written <- wfile - 1, taken <- rfile - 1
QueueSpec == Queue!Spec
=============================================================================
