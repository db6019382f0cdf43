--------------------------- MODULE PcatMonProofs ---------------------------
(***************************************************************************)
(* Proofs about PcatMon, for every capacity, every list of files and any   *)
(* number of failing calls: what PcatProofs shows of two processes and     *)
(* three semaphores holds of two threads in a monitor.  What both share is *)
(* in PcatBufferProofs.                                                    *)
(***************************************************************************)
EXTENDS PcatMon, PcatBufferProofs

\* The actions that move a thread and leave the buffer alone.
WriterMoves ==
  \/ WriterLock \/ WriterCheck \/ WriterCondWait \/ WriterUnlock
  \/ WriterPutLock \/ WriterSignal \/ WriterPutUnlock
ReaderMoves ==
  \/ ReaderLock \/ ReaderCheck \/ ReaderCondWait \/ ReaderUnlock
  \/ ReaderPutLock \/ ReaderSignal \/ ReaderPutUnlock

-----------------------------------------------------------------------------
(* Type correctness and mutual exclusion.                                  *)

\* The owner of the mutex is the thread that is inside the monitor.
OwnerInv ==
  /\ mtx = "writer" <=> wpc \in Inside
  /\ mtx = "reader" <=> rpc \in Inside

\* A thread between its first lock and its mark has a file to work on, and has
\* not transferred more than that file; no thread runs before it is created.
ProgressInv ==
  /\ wpc \notin {"put_signal", "put_unlock", "done"} => wfile <= NFiles
  /\ rpc \notin {"put_signal", "put_unlock", "done"} => rfile <= NFiles
  /\ wpc = "io" => got <= fsize(wfile)
  /\ rpc = "io" => put <= fsize(rfile)
  /\ mpc = "create_writer" => wpc = "unborn" /\ rpc = "unborn"
  /\ mpc = "create_reader" => rpc = "unborn"

TInv == TypeOK /\ OwnerInv /\ ProgressInv

\* main starts with a buffer in range and nobody inside the monitor.
LEMMA InitTInv == Init => TInv
<1> SUFFICES ASSUME Init PROVE TInv
  OBVIOUS
<1>1. BufTypeOK
  BY InitBufType DEF Init
<1>2. wfile <= NFiles /\ rfile <= NFiles
  BY FilesAssumption DEF Init, BufInit
<1>3. QED
  BY <1>1, <1>2 DEF Init, TInv, TypeOK, OwnerInv, Inside, ProgressInv, ThreadPC

\* Every step moves bytes or marks a file, or leaves the whole buffer alone.
LEMMA StepKinds ==
  [Next]_vars =>
    \/ WriterReturn \/ WriterRead \/ WriterMark
    \/ ReaderReturn \/ ReaderWrite \/ ReaderMark
    \/ WriterMoves \/ ReaderMoves \/ MainThread \/ SpuriousWakeup
    \/ UNCHANGED vars
BY DEF Next, Writer, Reader, WriterMoves, ReaderMoves, Stop

\* The moves of a thread, of main and of the scheduler leave the buffer alone.
LEMMA MovesLeaveBuffer ==
  WriterMoves \/ ReaderMoves \/ MainThread \/ SpuriousWakeup \/ UNCHANGED vars
    => UNCHANGED bufVars
BY DEF WriterMoves, WriterLock, WriterCheck, WriterCondWait, WriterUnlock, WriterPutLock,
       WriterSignal, WriterPutUnlock, ReaderMoves, ReaderLock, ReaderCheck, ReaderCondWait,
       ReaderUnlock, ReaderPutLock, ReaderSignal, ReaderPutUnlock, MainThread, CreateWriter,
       CreateReader, JoinWriter, JoinReaderAndDestroy, SpuriousWakeup, vars

\* Moving about keeps the mutex with the thread inside, and each thread within
\* its files.
LEMMA MovesTInv ==
  ASSUME TInv, WriterMoves \/ ReaderMoves \/ MainThread \/ SpuriousWakeup \/ UNCHANGED vars
  PROVE  TInv'
<1>1. UNCHANGED bufVars
  BY MovesLeaveBuffer
<1>2. UNCHANGED <<wfile, rfile, got, put>> /\ BufTypeOK'
  BY <1>1, BufTypeStays DEF bufVars, writer, reader, TInv, TypeOK
<1> SUFFICES /\ mtx' \in {"none", "writer", "reader"} /\ wpc' \in ThreadPC /\ rpc' \in ThreadPC
             /\ mpc' \in {"create_writer", "create_reader", "join_writer", "join_reader",
                      "exited", "hung", "crashed"}
             /\ OwnerInv' /\ ProgressInv'
  BY <1>2 DEF TInv, TypeOK
<1> USE <1>2 DEF TInv, TypeOK, OwnerInv, ProgressInv, Inside, ThreadPC, fsize
<1>3. CASE WriterLock
  BY <1>3 DEF WriterLock, pthread_mutex_lock
<1>4. CASE WriterCheck
  BY <1>4 DEF WriterCheck
<1>5. CASE WriterCondWait
  BY <1>5 DEF WriterCondWait, pthread_mutex_unlock
<1>6. CASE WriterUnlock
  BY <1>6 DEF WriterUnlock, pthread_mutex_unlock
<1>7. CASE WriterPutLock
  BY <1>7 DEF WriterPutLock, pthread_mutex_lock
<1>8. CASE WriterSignal
  BY <1>8 DEF WriterSignal
<1>9. CASE WriterPutUnlock
  BY <1>9 DEF WriterPutUnlock, pthread_mutex_unlock
<1>10. CASE ReaderLock
  BY <1>10 DEF ReaderLock, pthread_mutex_lock
<1>11. CASE ReaderCheck
  BY <1>11 DEF ReaderCheck
<1>12. CASE ReaderCondWait
  BY <1>12 DEF ReaderCondWait, pthread_mutex_unlock
<1>13. CASE ReaderUnlock
  BY <1>13 DEF ReaderUnlock, pthread_mutex_unlock
<1>14. CASE ReaderPutLock
  BY <1>14 DEF ReaderPutLock, pthread_mutex_lock
<1>15. CASE ReaderSignal
  BY <1>15 DEF ReaderSignal
<1>16. CASE ReaderPutUnlock
  BY <1>16 DEF ReaderPutUnlock, pthread_mutex_unlock
<1>17. CASE CreateWriter
  BY <1>17 DEF CreateWriter
<1>18. CASE CreateReader
  BY <1>18 DEF CreateReader
<1>19. CASE JoinWriter
  BY <1>19 DEF JoinWriter, Join
<1>20. CASE JoinReaderAndDestroy
  BY <1>20 DEF JoinReaderAndDestroy, Join
<1>21. CASE SpuriousWakeup
  BY <1>21 DEF SpuriousWakeup
<1>22. CASE UNCHANGED vars
  BY <1>22 DEF vars
<1>23. QED
  BY <1>3, <1>4, <1>5, <1>6, <1>7, <1>8, <1>9, <1>10, <1>11, <1>12, <1>13, <1>14, <1>15, <1>16,
     <1>17, <1>18, <1>19, <1>20, <1>21, <1>22 DEF WriterMoves, ReaderMoves, MainThread

\* Reading a file, and marking it.
LEMMA WriterTInv ==
  ASSUME TInv, WriterReturn \/ WriterRead \/ WriterMark
  PROVE  TInv'
<1> USE DEF header, writer, reader, io
<1>1. wfile \in 1 .. NFiles /\ fsize(wfile) \in Nat /\ wpc \in {"ret", "io", "put_mark"}
  <2>1. wfile \in 1 .. NFiles /\ wpc \in {"ret", "io", "put_mark"}
    BY FilesAssumption DEF WriterReturn, WriterRead, WriterMark, TInv, TypeOK, BufTypeOK,
       ProgressInv
  <2>2. QED
    BY <2>1, FileBounds
<1>2. CASE WriterReturn
  BY <1>1, <1>2 DEF WriterReturn, TInv, TypeOK, BufTypeOK, OwnerInv, ProgressInv, Inside,
     ThreadPC, fsize
<1>3. CASE WriterRead
  <2>1. /\ UNCHANGED <<header, reader, wfile, dest, out, outLen, mtx, rpc, mpc>>
        /\ wpc = "io" /\ wpc' \in {"io", "put_lock"}
    BY <1>3 DEF WriterRead, ReadChunk, SafereadReturns, ReadPastEnd
  <2>2. storage' \in [Addr -> Byte] /\ got' \in Nat /\ got' <= fsize(wfile)
    <3>1. got <= fsize(wfile) /\ BufTypeOK
      BY <2>1 DEF TInv, TypeOK, ProgressInv
    <3>2. CASE ReadChunk
      BY <1>1, <3>1, <3>2, ReadChunkType
    <3>3. CASE UNCHANGED <<storage, got>>
      BY <3>1, <3>3 DEF BufTypeOK
    <3>4. QED
      BY <1>3, <3>2, <3>3 DEF WriterRead, SafereadReturns, ReadPastEnd
  <2>3. faults' \in 0 .. MaxFaults /\ undefined' \in BOOLEAN
    <3>1. faults' \in 0 .. MaxFaults
      BY <1>3, FaultsAssumption DEF WriterRead, ReadChunk, SafereadReturns, ReadPastEnd, TInv,
         TypeOK, BufTypeOK
    <3>2. undefined' \in BOOLEAN
      BY <1>3 DEF WriterRead, ReadChunk, SafereadReturns, ReadPastEnd, TInv, TypeOK, BufTypeOK
    <3>3. QED
      BY <3>1, <3>2
  <2>4. QED
    BY <2>1, <2>2, <2>3 DEF TInv, TypeOK, BufTypeOK, OwnerInv, ProgressInv, Inside, ThreadPC, fsize
<1>4. CASE WriterMark
  <2>1. /\ UNCHANGED <<start, dest, got, reader, io, mtx, rpc, mpc>> /\ MarkWritten
        /\ wpc = "put_mark" /\ wpc' = "put_signal"
    BY <1>4 DEF WriterMark, MarkWritten
  <2>2. end' \in Addr /\ size' \in 0 .. Capacity /\ wfile' \in 1 .. NFiles + 1
    BY <1>1, <2>1, MarkWrittenType DEF TInv, TypeOK
  <2>3. QED
    BY <2>1, <2>2 DEF TInv, TypeOK, BufTypeOK, OwnerInv, ProgressInv, Inside, ThreadPC, fsize
<1>5. QED
  BY <1>2, <1>3, <1>4

\* Sending a file, and marking it.
LEMMA ReaderTInv ==
  ASSUME TInv, ReaderReturn \/ ReaderWrite \/ ReaderMark
  PROVE  TInv'
<1> USE DEF header, writer, reader, io
<1>1. rfile \in 1 .. NFiles /\ fsize(rfile) \in Nat /\ rpc \in {"ret", "io", "put_mark"}
  <2>1. rfile \in 1 .. NFiles /\ rpc \in {"ret", "io", "put_mark"}
    BY FilesAssumption DEF ReaderReturn, ReaderWrite, ReaderMark, TInv, TypeOK, BufTypeOK,
       ProgressInv
  <2>2. QED
    BY <2>1, FileBounds
<1>2. CASE ReaderReturn
  BY <1>1, <1>2 DEF ReaderReturn, TInv, TypeOK, BufTypeOK, OwnerInv, ProgressInv, Inside,
     ThreadPC, fsize
<1>3. CASE ReaderWrite
  <2>1. /\ UNCHANGED <<header, writer, rfile, src, storage, mtx, wpc, mpc>>
        /\ rpc = "io" /\ rpc' \in {"io", "put_lock"}
    BY <1>3 DEF ReaderWrite, WriteChunk, SafewriteReturns, WritePastEnd
  <2>2. /\ out' \in [0 .. Total - 1 -> Byte] /\ outLen' \in Nat
        /\ put' \in Nat /\ put' <= fsize(rfile)
    <3>1. put <= fsize(rfile) /\ BufTypeOK
      BY <2>1 DEF TInv, TypeOK, ProgressInv
    <3>2. CASE WriteChunk
      BY <1>1, <3>1, <3>2, WriteChunkType
    <3>3. CASE UNCHANGED <<out, outLen, put>>
      BY <3>1, <3>3 DEF BufTypeOK
    <3>4. QED
      BY <1>3, <3>2, <3>3 DEF ReaderWrite, SafewriteReturns, WritePastEnd
  <2>3. faults' \in 0 .. MaxFaults /\ undefined' \in BOOLEAN
    <3>1. faults' \in 0 .. MaxFaults
      BY <1>3, FaultsAssumption DEF ReaderWrite, WriteChunk, SafewriteReturns, WritePastEnd,
         TInv, TypeOK, BufTypeOK
    <3>2. undefined' \in BOOLEAN
      BY <1>3 DEF ReaderWrite, WriteChunk, SafewriteReturns, WritePastEnd, TInv, TypeOK, BufTypeOK
    <3>3. QED
      BY <3>1, <3>2
  <2>4. QED
    BY <2>1, <2>2, <2>3 DEF TInv, TypeOK, BufTypeOK, OwnerInv, ProgressInv, Inside, ThreadPC, fsize
<1>4. CASE ReaderMark
  <2>1. /\ UNCHANGED <<end, src, put, writer, io, mtx, wpc, mpc>> /\ MarkRead
        /\ rpc = "put_mark" /\ rpc' = "put_signal"
    BY <1>4 DEF ReaderMark, MarkRead
  <2>2. start' \in Addr /\ size' \in 0 .. Capacity /\ rfile' \in 1 .. NFiles + 1
    BY <1>1, <2>1, MarkReadType DEF TInv, TypeOK
  <2>3. QED
    BY <2>1, <2>2 DEF TInv, TypeOK, BufTypeOK, OwnerInv, ProgressInv, Inside, ThreadPC, fsize
<1>5. QED
  BY <1>2, <1>3, <1>4

\* So every step keeps the types, the mutex exclusive and the threads within
\* their files.
LEMMA NextTInv == TInv /\ [Next]_vars => TInv'
BY StepKinds, MovesTInv, WriterTInv, ReaderTInv

\* The buffer, both threads' variables and the monitor stay in range on every
\* run, whatever the sizes of the files and whichever calls fail.
THEOREM TypeCorrect == Spec => []TypeOK
<1>1. TInv => TypeOK
  BY DEF TInv
<1>2. QED
  BY <1>1, InitTInv, NextTInv, PTL DEF Spec

\* pcat.c protects the header with monitor->mtx: the two threads are never both
\* between their lock and their unlock.
THEOREM OneInside == Spec => [](wpc \notin Inside \/ rpc \notin Inside)
<1>1. TInv => wpc \notin Inside \/ rpc \notin Inside
  BY DEF TInv, OwnerInv
<1>2. QED
  BY <1>1, InitTInv, NextTInv, PTL DEF Spec

-----------------------------------------------------------------------------
(* No lost wakeup.                                                         *)

\* A thread that has decided to wait still has to: NoLostWakeup alone says
\* nothing of the moment between the check and pthread_cond_wait.
WakeInv ==
  /\ wpc = "cond_wait" => NoRoom
  /\ rpc = "cond_wait" => NoData
  /\ NoLostWakeup

\* At the start nobody waits.
LEMMA InitWakeInv == Init => WakeInv
BY DEF Init, WakeInv, NoLostWakeup

\* NoRoom can only be falsified by ReaderMark and NoData by WriterMark; each is
\* followed by the signal before the thread leaves the monitor, and no thread
\* is between its check and its wait meanwhile.
LEMMA NextWakeInv == TInv /\ WakeInv /\ [Next]_vars => WakeInv'
<1> SUFFICES ASSUME TInv, WakeInv, [Next]_vars PROVE WakeInv'
  OBVIOUS
<1> USE DEF TInv, OwnerInv, Inside, WakeInv, NoLostWakeup, NoRoom, NoData, fsize
<1>1. WriterMoves \/ ReaderMoves \/ MainThread \/ SpuriousWakeup \/ UNCHANGED vars
        => UNCHANGED <<wfile, rfile, size>>
  BY MovesLeaveBuffer DEF bufVars, header, writer, reader
<1>2. CASE WriterLock
  BY <1>1, <1>2 DEF WriterMoves, WriterLock, pthread_mutex_lock
<1>3. CASE WriterCheck
  BY <1>1, <1>3 DEF WriterMoves, WriterCheck
<1>4. CASE WriterCondWait
  BY <1>1, <1>4 DEF WriterMoves, WriterCondWait, pthread_mutex_unlock
<1>5. CASE WriterUnlock
  BY <1>1, <1>5 DEF WriterMoves, WriterUnlock, pthread_mutex_unlock
<1>6. CASE WriterPutLock
  BY <1>1, <1>6 DEF WriterMoves, WriterPutLock, pthread_mutex_lock
<1>7. CASE WriterSignal
  BY <1>1, <1>7 DEF WriterMoves, WriterSignal
<1>8. CASE WriterPutUnlock
  BY <1>1, <1>8 DEF WriterMoves, WriterPutUnlock, pthread_mutex_unlock
<1>9. CASE ReaderLock
  BY <1>1, <1>9 DEF ReaderMoves, ReaderLock, pthread_mutex_lock
<1>10. CASE ReaderCheck
  BY <1>1, <1>10 DEF ReaderMoves, ReaderCheck
<1>11. CASE ReaderCondWait
  BY <1>1, <1>11 DEF ReaderMoves, ReaderCondWait, pthread_mutex_unlock
<1>12. CASE ReaderUnlock
  BY <1>1, <1>12 DEF ReaderMoves, ReaderUnlock, pthread_mutex_unlock
<1>13. CASE ReaderPutLock
  BY <1>1, <1>13 DEF ReaderMoves, ReaderPutLock, pthread_mutex_lock
<1>14. CASE ReaderSignal
  BY <1>1, <1>14 DEF ReaderMoves, ReaderSignal
<1>15. CASE ReaderPutUnlock
  BY <1>1, <1>15 DEF ReaderMoves, ReaderPutUnlock, pthread_mutex_unlock
<1>16. CASE CreateWriter
  BY <1>1, <1>16 DEF MainThread, CreateWriter, ProgressInv
<1>17. CASE CreateReader
  BY <1>1, <1>17 DEF MainThread, CreateReader, ProgressInv
<1>18. CASE JoinWriter
  BY <1>1, <1>18 DEF MainThread, JoinWriter
<1>19. CASE JoinReaderAndDestroy
  BY <1>1, <1>19 DEF MainThread, JoinReaderAndDestroy
<1>20. CASE SpuriousWakeup
  BY <1>1, <1>20 DEF SpuriousWakeup
<1>21. CASE UNCHANGED vars
  BY <1>1, <1>21 DEF vars
<1>22. CASE WriterReturn
  BY <1>22 DEF WriterReturn, header, reader
<1>23. CASE WriterRead
  BY <1>23 DEF WriterRead, ReadChunk, SafereadReturns, ReadPastEnd, header, writer, reader
<1>24. CASE WriterMark
  BY <1>24 DEF WriterMark, MarkWritten, reader
<1>25. CASE ReaderReturn
  BY <1>25 DEF ReaderReturn, header, writer
<1>26. CASE ReaderWrite
  BY <1>26 DEF ReaderWrite, WriteChunk, SafewriteReturns, WritePastEnd, header, writer, reader
<1>27. CASE ReaderMark
  BY <1>27 DEF ReaderMark, MarkRead, writer
<1>28. QED
  BY StepKinds, <1>2, <1>3, <1>4, <1>5, <1>6, <1>7, <1>8, <1>9, <1>10, <1>11, <1>12, <1>13,
     <1>14, <1>15, <1>16, <1>17, <1>18, <1>19, <1>20, <1>21, <1>22, <1>23, <1>24, <1>25, <1>26,
     <1>27 DEF WriterMoves, ReaderMoves, MainThread

\* A thread asleep on its condition variable has a condition that still fails,
\* or the other thread is about to signal; also with empty files, failing calls
\* and wakeups for no reason.
THEOREM NobodySleepsForNothing == Spec => []NoLostWakeup
<1>1. WakeInv => NoLostWakeup
  BY DEF WakeInv
<1>2. QED
  BY <1>1, InitTInv, NextTInv, InitWakeInv, NextWakeInv, PTL DEF Spec

-----------------------------------------------------------------------------
(* The ring, for files no run of which adds up to exactly the capacity.    *)

\* Where get_write or get_read has found what it waited for and the file is not
\* yet marked; and where, in between, the thread knows its address.
Admitted == {"unlock", "ret", "io", "put_lock", "put_mark"}
Transfer == {"io", "put_lock", "put_mark"}

\* The header is right about the files written and read so far; what a thread
\* found inside the monitor still holds when it marks its file; and the address
\* it computed outside is the one it would have computed inside.
RingInv ==
  /\ HeaderInv
  /\ wpc \in Admitted => ~NoRoom
  /\ wpc \in Transfer => dest = end
  /\ rpc \in Admitted => ~NoData
  /\ rpc \in Transfer => src = start

\* At the start the ring is empty and nobody transfers.
LEMMA InitRingInv == Init => RingInv
BY InitHeader DEF Init, RingInv, Transfer, Admitted

\* complete_write: there was room when the writer looked, there still is; and
\* the reader finds no less in the ring than when it looked.
LEMMA MarkWrittenRing ==
  ASSUME NeverExactlyFull, TInv, RingInv, WriterMark
  PROVE  RingInv'
<1>1. /\ wpc = "put_mark" /\ wfile \in 1 .. NFiles /\ BufTypeOK
      /\ wpc' = "put_signal" /\ MarkWritten /\ UNCHANGED <<rfile, src, put, rpc>>
  BY FilesAssumption DEF WriterMark, reader, TInv, ProgressInv, TypeOK, BufTypeOK
<1>2. ~NoRoom
  BY <1>1 DEF RingInv, Admitted
<1>3. HeaderInv' /\ size' = size + fsize(wfile) /\ start' = start
  BY <1>1, <1>2, MarkWrittenHeader DEF RingInv
<1>4. ASSUME rpc \in Admitted PROVE ~NoData'
  <2>1. rfile \in 1 .. NFiles
    BY <1>1, <1>4 DEF TInv, ProgressInv, Admitted, BufTypeOK
  <2>2. /\ fsize(rfile) \in Nat /\ fsize(wfile) \in Nat /\ size \in Nat
        /\ ~(size < fsize(rfile))
    BY <1>1, <1>4, <2>1, FileBounds, CapacityAssumption DEF RingInv, NoData, BufTypeOK
  <2>3. fsize(rfile)' = fsize(rfile)
    BY <1>1 DEF fsize
  <2>4. QED
    BY <1>3, <2>2, <2>3 DEF NoData
<1>5. QED
  BY <1>1, <1>3, <1>4 DEF RingInv, Transfer, Admitted

\* complete_read: there was enough to read at the check, there still is; and the
\* writer finds no less room than when it looked.
LEMMA MarkReadRing ==
  ASSUME TInv, RingInv, ReaderMark
  PROVE  RingInv'
<1>1. /\ rpc = "put_mark" /\ rfile \in 1 .. NFiles /\ BufTypeOK
      /\ rpc' = "put_signal" /\ MarkRead /\ UNCHANGED <<wfile, dest, got, wpc>>
  BY FilesAssumption DEF ReaderMark, writer, TInv, ProgressInv, TypeOK, BufTypeOK
<1>2. ~NoData
  BY <1>1 DEF RingInv, Admitted
<1>3. HeaderInv' /\ size' = size - fsize(rfile) /\ end' = end
  BY <1>1, <1>2, MarkReadHeader DEF RingInv
<1>4. ASSUME wpc \in Admitted PROVE ~NoRoom'
  <2>1. wfile \in 1 .. NFiles
    BY <1>1, <1>4 DEF TInv, ProgressInv, Admitted, BufTypeOK
  <2>2. /\ fsize(rfile) \in Nat /\ fsize(wfile) \in Nat /\ size \in Nat
        /\ ~(Capacity - size < fsize(wfile))
    BY <1>1, <1>4, <2>1, FileBounds, CapacityAssumption DEF RingInv, NoRoom, BufTypeOK
  <2>3. fsize(wfile)' = fsize(wfile)
    BY <1>1 DEF fsize
  <2>4. QED
    BY <1>3, <2>2, <2>3, CapacityAssumption DEF NoRoom
<1>5. QED
  BY <1>1, <1>3, <1>4 DEF RingInv, Transfer, Admitted

\* A step that leaves the header alone, and in which no thread gets further in
\* its transfer without the check it takes, keeps the ring.
LEMMA QuietRing ==
  ASSUME RingInv, UNCHANGED <<header, wfile, dest, rfile, src>>,
         wpc' \in Admitted => wpc \in Admitted \/ ~NoRoom,
         wpc' \in Transfer => wpc \in Transfer,
         rpc' \in Admitted => rpc \in Admitted \/ ~NoData,
         rpc' \in Transfer => rpc \in Transfer
  PROVE  RingInv'
BY DEF RingInv, HeaderInv, Written, Taken, NoRoom, NoData, fsize, header

\* Every step keeps the header and the two transfers in agreement with the files
\* written and read so far, if the ring never is exactly full.
LEMMA NextRingInv ==
  ASSUME NeverExactlyFull
  PROVE  TInv /\ RingInv /\ [Next]_vars => RingInv'
<1> SUFFICES ASSUME TInv, RingInv, [Next]_vars PROVE RingInv'
  OBVIOUS
<1>1. WriterMoves \/ ReaderMoves \/ MainThread \/ SpuriousWakeup \/ UNCHANGED vars
        => UNCHANGED <<header, wfile, dest, rfile, src>>
  BY MovesLeaveBuffer DEF bufVars, writer, reader
<1>2. CASE WriterLock
  BY <1>1, <1>2, QuietRing DEF WriterMoves, WriterLock, Admitted, Transfer
<1>3. CASE WriterCheck
  BY <1>1, <1>3, QuietRing DEF WriterMoves, WriterCheck, Admitted, Transfer
<1>4. CASE WriterCondWait
  BY <1>1, <1>4, QuietRing DEF WriterMoves, WriterCondWait, Admitted, Transfer
<1>5. CASE WriterUnlock
  BY <1>1, <1>5, QuietRing DEF WriterMoves, WriterUnlock, Admitted, Transfer
<1>6. CASE WriterPutLock
  BY <1>1, <1>6, QuietRing DEF WriterMoves, WriterPutLock, Admitted, Transfer
<1>7. CASE WriterSignal
  BY <1>1, <1>7, QuietRing DEF WriterMoves, WriterSignal, Admitted, Transfer
<1>8. CASE WriterPutUnlock
  BY <1>1, <1>8, QuietRing DEF WriterMoves, WriterPutUnlock, Admitted, Transfer
<1>9. CASE ReaderLock
  BY <1>1, <1>9, QuietRing DEF ReaderMoves, ReaderLock, Admitted, Transfer
<1>10. CASE ReaderCheck
  BY <1>1, <1>10, QuietRing DEF ReaderMoves, ReaderCheck, Admitted, Transfer
<1>11. CASE ReaderCondWait
  BY <1>1, <1>11, QuietRing DEF ReaderMoves, ReaderCondWait, Admitted, Transfer
<1>12. CASE ReaderUnlock
  BY <1>1, <1>12, QuietRing DEF ReaderMoves, ReaderUnlock, Admitted, Transfer
<1>13. CASE ReaderPutLock
  BY <1>1, <1>13, QuietRing DEF ReaderMoves, ReaderPutLock, Admitted, Transfer
<1>14. CASE ReaderSignal
  BY <1>1, <1>14, QuietRing DEF ReaderMoves, ReaderSignal, Admitted, Transfer
<1>15. CASE ReaderPutUnlock
  BY <1>1, <1>15, QuietRing DEF ReaderMoves, ReaderPutUnlock, Admitted, Transfer
<1>16. CASE CreateWriter
  BY <1>1, <1>16, QuietRing DEF MainThread, CreateWriter, Admitted, Transfer
<1>17. CASE CreateReader
  BY <1>1, <1>17, QuietRing DEF MainThread, CreateReader, Admitted, Transfer
<1>18. CASE JoinWriter
  BY <1>1, <1>18, QuietRing DEF MainThread, JoinWriter, Admitted, Transfer
<1>19. CASE JoinReaderAndDestroy
  BY <1>1, <1>19, QuietRing DEF MainThread, JoinReaderAndDestroy, Admitted, Transfer
<1>20. CASE SpuriousWakeup
  BY <1>1, <1>20, QuietRing DEF SpuriousWakeup, Admitted, Transfer
<1>21. CASE UNCHANGED vars
  BY <1>1, <1>21, QuietRing DEF vars, Admitted, Transfer
<1>22. CASE WriterMark \/ ReaderMark
  BY <1>22, MarkWrittenRing, MarkReadRing
<1>23. CASE WriterReturn
  BY <1>23 DEF WriterReturn, RingInv, HeaderInv, Written, Taken, NoRoom, NoData, fsize, header,
     reader,
      Admitted, Transfer
<1>24. CASE ReaderReturn
  BY <1>24 DEF ReaderReturn, RingInv, HeaderInv, Written, Taken, NoRoom, NoData, fsize, header,
     writer,
      Admitted, Transfer
<1>25. CASE WriterRead
  BY <1>25, QuietRing DEF WriterRead, ReadChunk, SafereadReturns, ReadPastEnd,
      writer, reader, Admitted, Transfer
<1>26. CASE ReaderWrite
  BY <1>26, QuietRing DEF ReaderWrite, WriteChunk, SafewriteReturns, WritePastEnd,
      writer, reader, Admitted, Transfer
<1>27. QED
  BY StepKinds, <1>2, <1>3, <1>4, <1>5, <1>6, <1>7, <1>8, <1>9, <1>10, <1>11, <1>12, <1>13,
     <1>14, <1>15, <1>16, <1>17, <1>18, <1>19, <1>20, <1>21, <1>22, <1>23, <1>24, <1>25, <1>26 DEF
     WriterMoves, ReaderMoves, MainThread

\* So the agreement holds throughout every run.
LEMMA RingAlways ==
  ASSUME NeverExactlyFull
  PROVE  Spec => [](TInv /\ RingInv)
BY InitTInv, NextTInv, InitRingInv, NextRingInv, PTL DEF Spec

\* get_write returns buffer->end, get_read buffer->start, after they have given
\* the mutex up: the address is nevertheless that of the file admitted inside,
\* for nobody else moves that index until the file is marked.
THEOREM AddressIsNotStale ==
  ASSUME NeverExactlyFull
  PROVE  Spec => [](/\ wpc \in Transfer => dest = Written % Capacity /\ ~NoRoom
                    /\ rpc \in Transfer => src = Taken % Capacity /\ ~NoData)
<1>1. RingInv => /\ wpc \in Transfer => dest = Written % Capacity /\ ~NoRoom
                 /\ rpc \in Transfer => src = Taken % Capacity /\ ~NoData
  BY DEF RingInv, HeaderInv, Admitted, Transfer
<1>2. QED
  BY <1>1, RingAlways, PTL

-----------------------------------------------------------------------------
(* The bytes, for as long as no read() or write() fails.                   *)

\* How far the reader has come in the stream.
ReaderAt == IF rpc \in Transfer THEN Taken + put ELSE Taken

\* The storage holds what is to be read, the output has what was; and a thread
\* gives up a file early only where the storage ends.
StreamInv ==
  /\ rpc = "done" => rfile = NFiles + 1
  /\ faults = 0 =>
       /\ FilesStored /\ Sent(ReaderAt)
       /\ wpc \in Transfer => Stored(wfile, got)
       /\ wpc \in {"put_lock", "put_mark"} => got = fsize(wfile) \/ dest + got >= Capacity
       /\ rpc \in {"put_lock", "put_mark"} =>
            put <= fsize(rfile) /\ (put = fsize(rfile) \/ src + put >= Capacity)

\* The bytes are where they should be before the first call.
LEMMA InitStreamInv == Init => StreamInv
<1> SUFFICES ASSUME Init PROVE StreamInv
  OBVIOUS
<1>1. FilesStored /\ Sent(Taken)
  BY NothingSentYet DEF Init
<1>2. rpc = "unborn" /\ wpc = "unborn"
  BY DEF Init
<1>3. QED
  BY <1>1, <1>2 DEF StreamInv, ReaderAt, Transfer

\* A step that neither moves bytes nor marks a file changes nothing about them.
LEMMA QuietStep ==
  ASSUME StreamInv,
         UNCHANGED <<storage, wfile, dest, got, rfile, src, put, out, outLen, faults>>,
         wpc' \in Transfer => wpc \in Transfer,
         wpc' \in {"put_lock", "put_mark"} => wpc \in {"put_lock", "put_mark"},
         rpc' \in Transfer <=> rpc \in Transfer,
         rpc' \in {"put_lock", "put_mark"} => rpc \in {"put_lock", "put_mark"},
         rpc' = "done" => rpc = "done" \/ rfile = NFiles + 1
  PROVE  StreamInv'
<1>1. ReaderAt' = ReaderAt
  BY DEF ReaderAt, Taken
<1>2. ASSUME NEW f, NEW n, Stored(f, n) PROVE Stored(f, n)'
  BY <1>2 DEF Stored, Place
<1>3. FilesStored => FilesStored'
  BY DEF FilesStored, Stored, Place, fsize
<1>4. Sent(ReaderAt) => Sent(ReaderAt)'
  BY <1>1 DEF Sent, InOrder
<1>5. Stored(wfile, got) => Stored(wfile, got)'
  BY DEF Stored, Place
<1>6. QED
  BY <1>3, <1>4, <1>5 DEF StreamInv, fsize

\* get_write returns an address: nothing of the file is there yet.
LEMMA WriterReturnStream ==
  ASSUME TInv, StreamInv, WriterReturn
  PROVE  StreamInv'
<1>1. /\ UNCHANGED <<storage, wfile, rfile, src, put, out, outLen, faults, rpc>>
      /\ wpc' = "io" /\ got' = 0
  BY DEF WriterReturn, header, reader, io
<1>2. ReaderAt' = ReaderAt
  BY <1>1 DEF ReaderAt, Taken
<1>3. FilesStored => FilesStored'
  BY <1>1 DEF FilesStored, Stored, Place, fsize
<1>4. Sent(ReaderAt) => Sent(ReaderAt)'
  BY <1>1, <1>2 DEF Sent, InOrder
<1>5. wpc' \in Transfer => Stored(wfile, got)'
  BY <1>1 DEF Stored, Transfer
<1>6. QED
  BY <1>1, <1>3, <1>4, <1>5 DEF StreamInv, fsize

\* saferead: bytes arrive where no unread byte is.
LEMMA WriterReadStream ==
  ASSUME TInv, RingInv, StreamInv, WriterRead
  PROVE  StreamInv'
<1> SUFFICES ASSUME faults' = 0
             PROVE  /\ FilesStored' /\ Sent(ReaderAt)'
                    /\ wpc' \in Transfer => Stored(wfile, got)'
                    /\ wpc' \in {"put_lock", "put_mark"} => got' = fsize(wfile)' \/ dest' + got' >= Capacity
                    /\ UNCHANGED <<rfile, src, put, rpc, faults>>
  BY DEF StreamInv, WriterRead, reader, ReadChunk, SafereadReturns, ReadPastEnd, fsize
<1>1. /\ wpc = "io" /\ BufTypeOK /\ wfile <= NFiles /\ got <= fsize(wfile)
      /\ UNCHANGED <<wfile, dest, rfile, src, put, rpc, out, outLen>>
  BY DEF WriterRead, writer, reader, ReadChunk, SafereadReturns, ReadPastEnd,
         TInv, TypeOK, ProgressInv
<1>2. faults = 0 /\ faults' = faults
  BY <1>1, FaultsAssumption DEF WriterRead, ReadChunk, SafereadReturns, ReadPastEnd, BufTypeOK
<1>3. FilesStored /\ Sent(ReaderAt) /\ Stored(wfile, got)
  BY <1>1, <1>2 DEF StreamInv, Transfer
<1>4. ReaderAt' = ReaderAt
  BY <1>1 DEF ReaderAt, Taken
<1>5. Sent(ReaderAt)'
  BY <1>1, <1>3, <1>4 DEF Sent, InOrder
<1>6. FilesStored' /\ Stored(wfile, got)'
  <2>1. CASE ReadChunk
    BY <1>1, <1>3, <2>1, ReadChunkStores DEF RingInv, Admitted, Transfer
  <2>2. CASE UNCHANGED <<storage, got>>
    BY <1>1, <1>3, <2>2 DEF FilesStored, Stored, Place, fsize
  <2>3. QED
    BY <2>1, <2>2 DEF WriterRead, writer, SafereadReturns, ReadPastEnd
<1>7. wpc' \in {"put_lock", "put_mark"} => got' = fsize(wfile)' \/ dest' + got' >= Capacity
  BY <1>1, <1>2, FaultsAssumption DEF WriterRead, writer, SafereadReturns, BufTypeOK, fsize
<1>8. QED
  BY <1>1, <1>2, <1>5, <1>6, <1>7

\* complete_write: the file has become one of those to be read.
LEMMA WriterMarkStream ==
  ASSUME TInv, RingInv, StreamInv, WriterMark
  PROVE  StreamInv'
<1>1. /\ wpc = "put_mark" /\ wpc' = "put_signal" /\ BufTypeOK /\ wfile <= NFiles
      /\ MarkWritten
      /\ UNCHANGED <<rfile, src, put, rpc, storage, out, outLen, faults>>
  BY DEF WriterMark, reader, io, TInv, TypeOK, ProgressInv
<1>2. ReaderAt' = ReaderAt
  BY <1>1 DEF ReaderAt, Taken
<1>3. dest = Place(wfile)
  BY <1>1 DEF RingInv, HeaderInv, Transfer, Place, Written
<1>4. faults = 0 => FilesStored'
  BY <1>1, <1>3, MarkWrittenStores DEF StreamInv, Transfer
<1>5. Sent(ReaderAt) => Sent(ReaderAt)'
  BY <1>1, <1>2 DEF Sent, InOrder
<1>6. QED
  BY <1>1, <1>4, <1>5 DEF StreamInv, Transfer, fsize

\* get_read returns the address of the first byte of the file.
LEMMA ReaderReturnStream ==
  ASSUME TInv, StreamInv, ReaderReturn
  PROVE  StreamInv'
<1>1. /\ UNCHANGED <<storage, wfile, dest, got, rfile, out, outLen, faults, wpc>>
      /\ rpc = "ret" /\ rpc' = "io" /\ put' = 0
  BY DEF ReaderReturn, header, writer, io
<1>2. ReaderAt' = ReaderAt
  <2>1. Taken \in Nat /\ Taken' = Taken
    BY <1>1, FilesAssumption DEF TInv, TypeOK, BufTypeOK, Taken
  <2>2. QED
    BY <1>1, <2>1 DEF ReaderAt, Transfer
<1>3. FilesStored => FilesStored'
  BY <1>1 DEF FilesStored, Stored, Place, fsize
<1>4. Sent(ReaderAt) => Sent(ReaderAt)'
  BY <1>1, <1>2 DEF Sent, InOrder
<1>5. Stored(wfile, got) => Stored(wfile, got)'
  BY <1>1 DEF Stored, Place
<1>6. QED
  BY <1>1, <1>3, <1>4, <1>5 DEF StreamInv, fsize

\* safewrite: the bytes that leave are the next ones of the stream.
LEMMA ReaderWriteStream ==
  ASSUME TInv, RingInv, StreamInv, ReaderWrite
  PROVE  StreamInv'
<1> SUFFICES ASSUME faults' = 0
             PROVE  /\ FilesStored' /\ Sent(ReaderAt)'
                    /\ Stored(wfile, got) => Stored(wfile, got)'
                    /\ rpc' \in {"put_lock", "put_mark"} =>
                         put' <= fsize(rfile)' /\ (put' = fsize(rfile)' \/ src' + put' >= Capacity)
                    /\ UNCHANGED <<wfile, dest, got, wpc, faults>> /\ rpc' \in {"io", "put_lock"}
  BY DEF StreamInv, ReaderWrite, writer, WriteChunk, SafewriteReturns, WritePastEnd, fsize
<1>1. /\ rpc = "io" /\ BufTypeOK /\ rfile <= NFiles /\ put <= fsize(rfile)
      /\ UNCHANGED <<wfile, dest, got, rfile, src, wpc, storage>>
      /\ rpc' \in {"io", "put_lock"}
  BY DEF ReaderWrite, writer, reader, WriteChunk, SafewriteReturns, WritePastEnd,
         TInv, TypeOK, ProgressInv
<1>2. faults = 0 /\ faults' = faults
  BY <1>1, FaultsAssumption DEF ReaderWrite, WriteChunk, SafewriteReturns, WritePastEnd, BufTypeOK
<1>3. FilesStored /\ Sent(Taken + put)
  BY <1>1, <1>2 DEF StreamInv, Transfer, ReaderAt
<1>4. FilesStored' /\ (Stored(wfile, got) => Stored(wfile, got)')
  BY <1>1, <1>3 DEF FilesStored, Stored, Place, fsize
<1>5. Sent(Taken + put)'
  <2>1. CASE WriteChunk
    BY <1>1, <1>3, <2>1, WriteChunkSends DEF RingInv, Admitted, Transfer
  <2>2. CASE UNCHANGED <<put, out, outLen>>
    BY <1>1, <1>3, <2>2 DEF Sent, InOrder, Taken
  <2>3. QED
    BY <2>1, <2>2 DEF ReaderWrite, reader, SafewriteReturns, WritePastEnd
<1>6. Sent(ReaderAt)'
  BY <1>1, <1>5 DEF ReaderAt, Transfer
<1>7. rpc' \in {"put_lock", "put_mark"} =>
        put' <= fsize(rfile)' /\ (put' = fsize(rfile)' \/ src' + put' >= Capacity)
  BY <1>1, <1>2, FaultsAssumption DEF ReaderWrite, reader, SafewriteReturns, BufTypeOK, fsize
<1>8. QED
  BY <1>1, <1>2, <1>4, <1>6, <1>7

\* complete_read: what was not sent of the file did not fit.
LEMMA ReaderMarkStream ==
  ASSUME TInv, RingInv, StreamInv, ReaderMark
  PROVE  StreamInv'
<1>1. /\ rpc = "put_mark" /\ rpc' = "put_signal" /\ BufTypeOK /\ rfile <= NFiles
      /\ MarkRead
      /\ UNCHANGED <<wfile, dest, got, wpc, storage, out, outLen, faults>>
  BY DEF ReaderMark, writer, io, TInv, TypeOK, ProgressInv
<1>2. FilesStored => FilesStored'
  BY <1>1, MarkReadStores
<1>3. Taken' = Taken + fsize(rfile)
  BY <1>1, MarkReadHeader DEF RingInv, Admitted, Transfer
<1>4. faults = 0 => Sent(Taken + fsize(rfile))
  BY <1>1, GivingUpSends DEF StreamInv, RingInv, Transfer, ReaderAt
<1>5. ReaderAt' = Taken + fsize(rfile)
  BY <1>1, <1>3 DEF ReaderAt, Transfer
<1>6. faults = 0 => Sent(ReaderAt)'
  BY <1>1, <1>4, <1>5 DEF Sent, InOrder
<1>7. Stored(wfile, got) => Stored(wfile, got)'
  BY <1>1 DEF Stored, Place
<1>8. QED
  BY <1>1, <1>2, <1>6, <1>7 DEF StreamInv, Transfer, fsize

\* A step of the program keeps the bytes where they should be.
LEMMA NextStreamInv ==
  ASSUME TInv, RingInv, StreamInv, [Next]_vars
  PROVE  StreamInv'
<1>1. WriterMoves \/ ReaderMoves \/ MainThread \/ SpuriousWakeup \/ UNCHANGED vars
        => UNCHANGED <<storage, wfile, dest, got, rfile, src, put, out, outLen, faults>>
  BY MovesLeaveBuffer DEF bufVars, writer, reader, io
<1>2. CASE WriterLock
  BY <1>1, <1>2, QuietStep DEF WriterMoves, WriterLock, StreamInv, Transfer
<1>3. CASE WriterCheck
  BY <1>1, <1>3, QuietStep DEF WriterMoves, WriterCheck, StreamInv, Transfer
<1>4. CASE WriterCondWait
  BY <1>1, <1>4, QuietStep DEF WriterMoves, WriterCondWait, StreamInv, Transfer
<1>5. CASE WriterUnlock
  BY <1>1, <1>5, QuietStep DEF WriterMoves, WriterUnlock, StreamInv, Transfer
<1>6. CASE WriterPutLock
  BY <1>1, <1>6, QuietStep DEF WriterMoves, WriterPutLock, StreamInv, Transfer
<1>7. CASE WriterSignal
  BY <1>1, <1>7, QuietStep DEF WriterMoves, WriterSignal, StreamInv, Transfer
<1>8. CASE WriterPutUnlock
  BY <1>1, <1>8, QuietStep DEF WriterMoves, WriterPutUnlock, StreamInv, Transfer
<1>9. CASE ReaderLock
  BY <1>1, <1>9, QuietStep DEF ReaderMoves, ReaderLock, StreamInv, Transfer
<1>10. CASE ReaderCheck
  BY <1>1, <1>10, QuietStep DEF ReaderMoves, ReaderCheck, StreamInv, Transfer
<1>11. CASE ReaderCondWait
  BY <1>1, <1>11, QuietStep DEF ReaderMoves, ReaderCondWait, StreamInv, Transfer
<1>12. CASE ReaderUnlock
  BY <1>1, <1>12, QuietStep DEF ReaderMoves, ReaderUnlock, StreamInv, Transfer
<1>13. CASE ReaderPutLock
  BY <1>1, <1>13, QuietStep DEF ReaderMoves, ReaderPutLock, StreamInv, Transfer
<1>14. CASE ReaderSignal
  BY <1>1, <1>14, QuietStep DEF ReaderMoves, ReaderSignal, StreamInv, Transfer
<1>15. CASE ReaderPutUnlock
  <2>1. rfile \in Nat /\ NFiles \in Nat /\ rfile <= NFiles + 1
    BY FilesAssumption DEF TInv, TypeOK, BufTypeOK
  <2>2. QED
    BY <1>1, <1>15, <2>1, QuietStep DEF ReaderMoves, ReaderPutUnlock, StreamInv, Transfer
<1>16. CASE CreateWriter
  BY <1>1, <1>16, QuietStep DEF MainThread, CreateWriter, StreamInv, Transfer, TInv, ProgressInv
<1>17. CASE CreateReader
  BY <1>1, <1>17, QuietStep DEF MainThread, CreateReader, StreamInv, Transfer, TInv, ProgressInv
<1>18. CASE JoinWriter
  BY <1>1, <1>18, QuietStep DEF MainThread, JoinWriter, StreamInv, Transfer
<1>19. CASE JoinReaderAndDestroy
  BY <1>1, <1>19, QuietStep DEF MainThread, JoinReaderAndDestroy, StreamInv, Transfer
<1>20. CASE SpuriousWakeup
  BY <1>1, <1>20, QuietStep DEF SpuriousWakeup, StreamInv, Transfer
<1>21. CASE UNCHANGED vars
  BY <1>1, <1>21, QuietStep DEF vars, StreamInv, Transfer
<1>22. QED
  BY StepKinds, WriterReturnStream, WriterReadStream, WriterMarkStream,
     ReaderReturnStream, ReaderWriteStream, ReaderMarkStream,
     <1>2, <1>3, <1>4, <1>5, <1>6, <1>7, <1>8, <1>9, <1>10, <1>11, <1>12,
     <1>13, <1>14, <1>15, <1>16, <1>17, <1>18, <1>19, <1>20, <1>21
     DEF WriterMoves, ReaderMoves, MainThread

\* What InOrder and the position of the reader say of a finished reader.
LEMMA StreamGivesOutput == TInv /\ StreamInv => OutputInOrder
<1> SUFFICES ASSUME TInv, StreamInv, faults = 0
             PROVE  InOrder /\ (rpc = "done" => outLen >= Capacity \/ outLen = Total)
  BY DEF OutputInOrder
<1>1. Sent(ReaderAt)
  BY DEF StreamInv
<1>2. ASSUME rpc = "done" PROVE ReaderAt = Total
  BY <1>2, FilesAssumption DEF StreamInv, ReaderAt, Taken, Total, Transfer
<1>3. QED
  BY <1>1, <1>2 DEF Sent

\* The monitor sends the bytes of its files in the order of its arguments, none
\* twice and none before it was read; and all of them unless the files wrap
\* around the storage: whenever no read() or write() fails, for any lengths of
\* the files that never add up to exactly the capacity.
THEOREM OutputIsInOrder ==
  ASSUME NeverExactlyFull
  PROVE  Spec => []OutputInOrder
<1>1. Init => TInv /\ RingInv /\ StreamInv
  BY InitTInv, InitRingInv, InitStreamInv
<1>2. TInv /\ RingInv /\ StreamInv /\ [Next]_vars => (TInv /\ RingInv /\ StreamInv)'
  BY NextTInv, NextRingInv, NextStreamInv
<1>3. QED
  BY <1>1, <1>2, StreamGivesOutput, PTL DEF Spec

-----------------------------------------------------------------------------
(* The monitor implements the bounded FIFO of whole files.                 *)

\* Only the two marks count a file.
LEMMA MarksOnly ==
  [Next]_vars => WriterMark \/ ReaderMark \/ UNCHANGED <<wfile, rfile>>
<1> USE DEF header, writer, reader
<1>1. WriterMoves \/ ReaderMoves \/ MainThread \/ SpuriousWakeup \/ UNCHANGED vars
        => UNCHANGED <<wfile, rfile>>
  BY MovesLeaveBuffer DEF bufVars
<1>2. WriterReturn \/ WriterRead => UNCHANGED <<wfile, rfile>>
  BY DEF WriterReturn, WriterRead, ReadChunk, SafereadReturns, ReadPastEnd
<1>3. ReaderReturn \/ ReaderWrite => UNCHANGED <<wfile, rfile>>
  BY DEF ReaderReturn, ReaderWrite, WriteChunk, SafewriteReturns, WritePastEnd
<1>4. QED
  BY <1>1, <1>2, <1>3, StepKinds

\* complete_write is a Put of the abstract queue: the file fits.
LEMMA PutStep ==
  ASSUME TInv, RingInv, WriterMark
  PROVE  Queue!Put
<1>1. wpc = "put_mark" /\ wfile \in 1 .. NFiles /\ rfile \in 1 .. NFiles + 1
  BY FilesAssumption DEF WriterMark, TInv, ProgressInv, TypeOK, BufTypeOK
<1>2. fsize(wfile) \in Nat /\ Offset[wfile] = Written + fsize(wfile) /\ Written \in Nat
  BY <1>1, FileBounds DEF Written
<1>3. Taken \in Nat
  BY <1>1, FilesAssumption DEF Taken
<1>4. fsize(wfile) <= Capacity - (Written - Taken)
  BY <1>1, <1>2, <1>3, CapacityAssumption DEF RingInv, HeaderInv, Admitted, NoRoom
<1>5. Offset[wfile] - Taken <= Capacity
  BY <1>2, <1>3, <1>4, CapacityAssumption
<1>6. wfile' = wfile + 1 /\ rfile' = rfile
  BY DEF WriterMark, MarkWritten, reader
<1>7. wfile - 1 + 1 = wfile /\ wfile - 1 < NFiles /\ wfile' - 1 = (wfile - 1) + 1
  BY <1>1, <1>6, FilesAssumption
<1>8. QED
  BY <1>5, <1>6, <1>7 DEF Queue!Put, Taken

\* complete_read is a Take of the abstract queue: the file has been put.
LEMMA TakeStep ==
  ASSUME TInv, RingInv, ReaderMark
  PROVE  Queue!Take
<1>1. rpc = "put_mark" /\ rfile \in 1 .. NFiles /\ wfile \in 1 .. NFiles + 1
  BY FilesAssumption DEF ReaderMark, TInv, ProgressInv, TypeOK, BufTypeOK
<1>2. fsize(rfile) \in Nat /\ Offset[rfile] = Taken + fsize(rfile) /\ Taken \in Nat
  BY <1>1, FileBounds DEF Taken
<1>3. Written \in Nat
  BY <1>1, FilesAssumption DEF Written
<1>4. fsize(rfile) <= Written - Taken
  BY <1>1, <1>2, <1>3 DEF RingInv, HeaderInv, Admitted, NoData
<1>5. Offset[rfile] <= Written
  BY <1>2, <1>3, <1>4
<1>6. rfile' = rfile + 1 /\ wfile' = wfile
  BY DEF ReaderMark, MarkRead, writer
<1>7. rfile - 1 + 1 = rfile /\ rfile - 1 < NFiles /\ rfile' - 1 = (rfile - 1) + 1
  BY <1>1, <1>6, FilesAssumption
<1>8. QED
  BY <1>5, <1>6, <1>7 DEF Queue!Take, Written

\* The buffer behind the monitor is a FIFO of whole files that never holds more
\* than Capacity bytes: complete_write is its Put, complete_read its Take, all
\* else stutters.
THEOREM ImplementsFileQueue ==
  ASSUME NeverExactlyFull
  PROVE  Spec => QueueSpec
<1>1. Init => Queue!Init
  BY DEF Init, BufInit, Queue!Init
<1>2. TInv /\ RingInv /\ [Next]_vars => [Queue!Next]_(Queue!vars)
  <2> SUFFICES ASSUME TInv, RingInv, [Next]_vars PROVE [Queue!Next]_(Queue!vars)
    OBVIOUS
  <2>1. CASE WriterMark
    BY <2>1, PutStep DEF Queue!Next
  <2>2. CASE ReaderMark
    BY <2>2, TakeStep DEF Queue!Next
  <2>3. CASE UNCHANGED <<wfile, rfile>>
    BY <2>3 DEF Queue!vars
  <2>4. QED
    BY <2>1, <2>2, <2>3, MarksOnly
<1>3. QED
  BY <1>1, <1>2, RingAlways, PTL DEF Spec, QueueSpec, Queue!Spec
=============================================================================
