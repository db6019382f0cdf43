----------------------------- MODULE PcatProofs -----------------------------
(***************************************************************************)
(* Proofs about pcat on semaphores, for every capacity, every list of      *)
(* files and any number of failing calls: first of the children and their  *)
(* buffer (PcatSem), then of the whole program as it acquires, runs and    *)
(* cleans up (Pcat).                                                       *)
(***************************************************************************)
EXTENDS Pcat, PcatBufferProofs, SequenceTheorems

-----------------------------------------------------------------------------
(* Type correctness.                                                       *)

\* mutex is 1 less the children that hold it, and at most one does.
MutexInv ==
  \/ wpc \in Holding /\ rpc \notin Holding /\ mutex = 0
  \/ wpc \notin Holding /\ rpc \in Holding /\ mutex = 0
  \/ wpc \notin Holding /\ rpc \notin Holding /\ mutex = 1

\* A child between its first lock and its mark has a file to work on, and has
\* not transferred more than that file; no child runs before it is forked.
ProgressInv ==
  /\ wpc \notin {"put_post", "put_unlock", "done"} => wfile <= NFiles
  /\ rpc \notin {"put_post", "put_unlock", "done"} => rfile <= NFiles
  /\ wpc \in {"get_unlock", "io"} => got <= fsize(wfile)
  /\ rpc \in {"get_unlock", "io"} => put <= fsize(rfile)
  /\ ppc = "fork_writer" => wpc = "unborn" /\ rpc = "unborn"
  /\ ppc = "fork_reader" => rpc = "unborn"

TInv == TypeOK /\ MutexInv /\ ProgressInv

\* The state main forks from satisfies the type and mutual exclusion invariant.
LEMMA InitTInv == Init => TInv
<1> SUFFICES ASSUME Init PROVE TInv
  OBVIOUS
<1> USE DEF Init, BufInit
<1>1. 0 \in Addr /\ 1 \in 1 .. NFiles
  BY CapacityAssumption, FilesAssumption DEF Addr
<1>2. TypeOK
  <2>1. BufTypeOK
    <3>1. 0 \in 0 .. Capacity /\ 1 \in 1 .. NFiles + 1 /\ 0 \in 0 .. MaxFaults /\ 0 \in Nat
      BY CapacityAssumption, FilesAssumption, FaultsAssumption
    <3>2. Unset \in Byte
      BY DEF Byte, Unset
    <3>3. storage \in [Addr -> Byte] /\ out \in [0 .. Total - 1 -> Byte]
      BY <3>2
    <3>4. QED
      BY <1>1, <3>1, <3>3 DEF BufTypeOK
  <2>2. QED
    BY <2>1, ForkAssumption, CapacityAssumption DEF TypeOK, WriterPC, ReaderPC, ParentPC
<1>3. MutexInv
  BY DEF MutexInv, Holding
<1>4. ProgressInv
  BY <1>1 DEF ProgressInv
<1>5. QED
  BY <1>2, <1>3, <1>4 DEF TInv

\* Every step of the program keeps it well typed, the mutex exclusive and the
\* children within their files.
LEMMA NextTInv == TInv /\ [Next]_vars => TInv'
<1> SUFFICES ASSUME TInv, [Next]_vars PROVE TInv'
  OBVIOUS
<1> USE DEF TInv, vars, bufVars, header, writer, reader, io, sems, main,
            WriterPC, ReaderPC, ParentPC
<1> DEFINE Same == UNCHANGED <<bufVars, sems, wpc, rpc, main>>
<1>1. ASSUME Same PROVE TInv'
  BY <1>1 DEF TypeOK, BufTypeOK, MutexInv, ProgressInv, fsize
<1>2. ASSUME WriterGetLock PROVE TInv'
  <2>1. TypeOK'
    BY <1>2 DEF WriterGetLock, sem_wait, sem_post, TypeOK, BufTypeOK, MutexInv, Holding
  <2>2. MutexInv'
    BY <1>2 DEF WriterGetLock, sem_wait, sem_post, TypeOK, MutexInv, Holding
  <2>3. ProgressInv'
    BY <1>2 DEF WriterGetLock, sem_wait, sem_post, TypeOK, BufTypeOK, ProgressInv, fsize
  <2>4. QED
    BY <2>1, <2>2, <2>3
<1>3. ASSUME WriterPark PROVE TInv'
  <2>1. TypeOK'
    BY <1>3 DEF WriterPark, sem_wait, sem_post, TypeOK, BufTypeOK, MutexInv, Holding
  <2>2. MutexInv'
    BY <1>3 DEF WriterPark, sem_wait, sem_post, TypeOK, MutexInv, Holding
  <2>3. ProgressInv'
    BY <1>3 DEF WriterPark, sem_wait, sem_post, TypeOK, BufTypeOK, ProgressInv, fsize
  <2>4. QED
    BY <2>1, <2>2, <2>3
<1>4. ASSUME WriterWaitFull PROVE TInv'
  <2>1. TypeOK'
    BY <1>4 DEF WriterWaitFull, sem_wait, sem_post, TypeOK, BufTypeOK, MutexInv, Holding
  <2>2. MutexInv'
    BY <1>4 DEF WriterWaitFull, sem_wait, sem_post, TypeOK, MutexInv, Holding
  <2>3. ProgressInv'
    BY <1>4 DEF WriterWaitFull, sem_wait, sem_post, TypeOK, BufTypeOK, ProgressInv, fsize
  <2>4. QED
    BY <2>1, <2>2, <2>3
<1>5. ASSUME WriterGetUnlock PROVE TInv'
  <2>1. TypeOK'
    BY <1>5 DEF WriterGetUnlock, sem_wait, sem_post, TypeOK, BufTypeOK, MutexInv, Holding
  <2>2. MutexInv'
    BY <1>5 DEF WriterGetUnlock, sem_wait, sem_post, TypeOK, MutexInv, Holding
  <2>3. ProgressInv'
    BY <1>5 DEF WriterGetUnlock, sem_wait, sem_post, TypeOK, BufTypeOK, ProgressInv, fsize
  <2>4. QED
    BY <2>1, <2>2, <2>3
<1>6. ASSUME WriterPutLock PROVE TInv'
  <2>1. TypeOK'
    BY <1>6 DEF WriterPutLock, sem_wait, sem_post, TypeOK, BufTypeOK, MutexInv, Holding
  <2>2. MutexInv'
    BY <1>6 DEF WriterPutLock, sem_wait, sem_post, TypeOK, MutexInv, Holding
  <2>3. ProgressInv'
    BY <1>6 DEF WriterPutLock, sem_wait, sem_post, TypeOK, BufTypeOK, ProgressInv, fsize
  <2>4. QED
    BY <2>1, <2>2, <2>3
<1>7. ASSUME WriterPost PROVE TInv'
  <2>1. TypeOK'
    BY <1>7 DEF WriterPost, sem_wait, sem_post, TypeOK, BufTypeOK, MutexInv, Holding
  <2>2. MutexInv'
    BY <1>7 DEF WriterPost, sem_wait, sem_post, TypeOK, MutexInv, Holding
  <2>3. ProgressInv'
    BY <1>7 DEF WriterPost, sem_wait, sem_post, TypeOK, BufTypeOK, ProgressInv, fsize
  <2>4. QED
    BY <2>1, <2>2, <2>3
<1>8. ASSUME WriterPutUnlock PROVE TInv'
  <2>1. TypeOK'
    BY <1>8 DEF WriterPutUnlock, sem_wait, sem_post, TypeOK, BufTypeOK, MutexInv, Holding
  <2>2. MutexInv'
    BY <1>8 DEF WriterPutUnlock, sem_wait, sem_post, TypeOK, MutexInv, Holding
  <2>3. ProgressInv'
    BY <1>8 DEF WriterPutUnlock, sem_wait, sem_post, TypeOK, BufTypeOK, ProgressInv, fsize
  <2>4. QED
    BY <2>1, <2>2, <2>3
<1>9. ASSUME WriterCheck PROVE TInv'
  <2>1. TypeOK'
    BY <1>9 DEF WriterCheck, TypeOK, BufTypeOK
  <2>2. MutexInv'
    BY <1>9 DEF WriterCheck, TypeOK, MutexInv, Holding
  <2>3. ProgressInv'
    <3>1. wfile \in 1 .. NFiles
      BY <1>9 DEF WriterCheck, TypeOK, BufTypeOK, ProgressInv
    <3>2. 0 <= fsize(wfile)
      BY <3>1, FileBounds
    <3>3. QED
      BY <1>9, <3>1, <3>2 DEF WriterCheck, TypeOK, BufTypeOK, ProgressInv, fsize
  <2>4. QED
    BY <2>1, <2>2, <2>3
<1>10. ASSUME WriterRead PROVE TInv'
  <2>1. wfile \in 1 .. NFiles /\ got <= fsize(wfile) /\ wpc = "io"
    BY <1>10 DEF WriterRead, ProgressInv, TypeOK, BufTypeOK
  <2>2. CASE ReadChunk /\ UNCHANGED <<wpc, header, reader>>
    <3>1. storage' \in [Addr -> Byte] /\ got' \in Nat /\ got' <= fsize(wfile)
      BY <2>1, <2>2, ReadChunkType DEF TypeOK
    <3>2. UNCHANGED <<wfile, dest, out, outLen, faults, undefined, sems, rpc, main>>
      BY <1>10, <2>2 DEF WriterRead, ReadChunk
    <3>3. QED
      BY <2>1, <2>2, <3>1, <3>2 DEF TypeOK, BufTypeOK, MutexInv, ProgressInv, fsize, Holding
  <2>3. CASE SafereadReturns /\ wpc' = "put_lock" /\ UNCHANGED <<header, writer, reader>>
    <3>1. faults' \in 0 .. MaxFaults
      BY <2>3, FaultsAssumption DEF SafereadReturns, TypeOK, BufTypeOK
    <3>2. UNCHANGED <<storage, out, outLen, undefined, sems, rpc, main>>
      BY <1>10, <2>3 DEF WriterRead, SafereadReturns
    <3>3. QED
      BY <2>1, <2>3, <3>1, <3>2 DEF TypeOK, BufTypeOK, MutexInv, ProgressInv, fsize, Holding
  <2>4. CASE ReadPastEnd /\ UNCHANGED <<wpc, header, writer, reader>>
    BY <1>10, <2>4 DEF WriterRead, ReadPastEnd, TypeOK, BufTypeOK, MutexInv, ProgressInv, fsize,
       Holding
  <2>5. QED
    BY <1>10, <2>2, <2>3, <2>4 DEF WriterRead
<1>11. ASSUME WriterMark PROVE TInv'
  <2>1. wfile \in 1 .. NFiles /\ wpc = "put_mark"
    BY <1>11 DEF WriterMark, ProgressInv, TypeOK, BufTypeOK
  <2>2. end' \in Addr /\ size' \in 0 .. Capacity /\ wfile' \in 1 .. NFiles + 1
    <3>1. end' \in Addr
      BY <1>11, <2>1, FileBounds, ShiftInRange DEF WriterMark, MarkWritten, TypeOK, BufTypeOK
    <3>2. size' \in 0 .. Capacity
      <4>1. size' = upd_buffer_size(start, end')
        BY <1>11 DEF WriterMark, MarkWritten
      <4>2. size' \in 0 .. Capacity - 1
        BY <3>1, <4>1, SizeInRange DEF TypeOK, BufTypeOK
      <4>3. QED
        BY <4>2, CapacityAssumption
    <3>3. QED
      BY <1>11, <2>1, <3>1, <3>2, FilesAssumption DEF WriterMark, MarkWritten
  <2>3. QED
    BY <1>11, <2>1, <2>2 DEF WriterMark, MarkWritten, TypeOK, BufTypeOK, MutexInv, ProgressInv,
       fsize, Holding
<1>12. ASSUME ReaderGetLock PROVE TInv'
  <2>1. TypeOK'
    BY <1>12 DEF ReaderGetLock, sem_wait, sem_post, TypeOK, BufTypeOK, MutexInv, Holding
  <2>2. MutexInv'
    BY <1>12 DEF ReaderGetLock, sem_wait, sem_post, TypeOK, MutexInv, Holding
  <2>3. ProgressInv'
    BY <1>12 DEF ReaderGetLock, sem_wait, sem_post, TypeOK, BufTypeOK, ProgressInv, fsize
  <2>4. QED
    BY <2>1, <2>2, <2>3
<1>13. ASSUME ReaderPark PROVE TInv'
  <2>1. TypeOK'
    BY <1>13 DEF ReaderPark, sem_wait, sem_post, TypeOK, BufTypeOK, MutexInv, Holding
  <2>2. MutexInv'
    BY <1>13 DEF ReaderPark, sem_wait, sem_post, TypeOK, MutexInv, Holding
  <2>3. ProgressInv'
    BY <1>13 DEF ReaderPark, sem_wait, sem_post, TypeOK, BufTypeOK, ProgressInv, fsize
  <2>4. QED
    BY <2>1, <2>2, <2>3
<1>14. ASSUME ReaderWaitEmpty PROVE TInv'
  <2>1. TypeOK'
    BY <1>14 DEF ReaderWaitEmpty, sem_wait, sem_post, TypeOK, BufTypeOK, MutexInv, Holding
  <2>2. MutexInv'
    BY <1>14 DEF ReaderWaitEmpty, sem_wait, sem_post, TypeOK, MutexInv, Holding
  <2>3. ProgressInv'
    BY <1>14 DEF ReaderWaitEmpty, sem_wait, sem_post, TypeOK, BufTypeOK, ProgressInv, fsize
  <2>4. QED
    BY <2>1, <2>2, <2>3
<1>15. ASSUME ReaderGetUnlock PROVE TInv'
  <2>1. TypeOK'
    BY <1>15 DEF ReaderGetUnlock, sem_wait, sem_post, TypeOK, BufTypeOK, MutexInv, Holding
  <2>2. MutexInv'
    BY <1>15 DEF ReaderGetUnlock, sem_wait, sem_post, TypeOK, MutexInv, Holding
  <2>3. ProgressInv'
    BY <1>15 DEF ReaderGetUnlock, sem_wait, sem_post, TypeOK, BufTypeOK, ProgressInv, fsize
  <2>4. QED
    BY <2>1, <2>2, <2>3
<1>16. ASSUME ReaderPutLock PROVE TInv'
  <2>1. TypeOK'
    BY <1>16 DEF ReaderPutLock, sem_wait, sem_post, TypeOK, BufTypeOK, MutexInv, Holding
  <2>2. MutexInv'
    BY <1>16 DEF ReaderPutLock, sem_wait, sem_post, TypeOK, MutexInv, Holding
  <2>3. ProgressInv'
    BY <1>16 DEF ReaderPutLock, sem_wait, sem_post, TypeOK, BufTypeOK, ProgressInv, fsize
  <2>4. QED
    BY <2>1, <2>2, <2>3
<1>17. ASSUME ReaderPost PROVE TInv'
  <2>1. TypeOK'
    BY <1>17 DEF ReaderPost, sem_wait, sem_post, TypeOK, BufTypeOK, MutexInv, Holding
  <2>2. MutexInv'
    BY <1>17 DEF ReaderPost, sem_wait, sem_post, TypeOK, MutexInv, Holding
  <2>3. ProgressInv'
    BY <1>17 DEF ReaderPost, sem_wait, sem_post, TypeOK, BufTypeOK, ProgressInv, fsize
  <2>4. QED
    BY <2>1, <2>2, <2>3
<1>18. ASSUME ReaderPutUnlock PROVE TInv'
  <2>1. TypeOK'
    BY <1>18 DEF ReaderPutUnlock, sem_wait, sem_post, TypeOK, BufTypeOK, MutexInv, Holding
  <2>2. MutexInv'
    BY <1>18 DEF ReaderPutUnlock, sem_wait, sem_post, TypeOK, MutexInv, Holding
  <2>3. ProgressInv'
    BY <1>18 DEF ReaderPutUnlock, sem_wait, sem_post, TypeOK, BufTypeOK, ProgressInv, fsize
  <2>4. QED
    BY <2>1, <2>2, <2>3
<1>19. ASSUME ReaderCheck PROVE TInv'
  <2>1. TypeOK'
    BY <1>19 DEF ReaderCheck, TypeOK, BufTypeOK
  <2>2. MutexInv'
    BY <1>19 DEF ReaderCheck, TypeOK, MutexInv, Holding
  <2>3. ProgressInv'
    <3>1. rfile \in 1 .. NFiles
      BY <1>19 DEF ReaderCheck, TypeOK, BufTypeOK, ProgressInv
    <3>2. 0 <= fsize(rfile)
      BY <3>1, FileBounds
    <3>3. QED
      BY <1>19, <3>1, <3>2 DEF ReaderCheck, TypeOK, BufTypeOK, ProgressInv, fsize
  <2>4. QED
    BY <2>1, <2>2, <2>3
<1>20. ASSUME ReaderWrite PROVE TInv'
  <2>1. rfile \in 1 .. NFiles /\ put <= fsize(rfile) /\ rpc = "io"
    BY <1>20 DEF ReaderWrite, ProgressInv, TypeOK, BufTypeOK
  <2>2. CASE WriteChunk /\ UNCHANGED <<rpc, header, writer>>
    <3>1. /\ out' \in [0 .. Total - 1 -> Byte] /\ outLen' \in Nat
          /\ put' \in Nat /\ put' <= fsize(rfile)
      BY <2>1, <2>2, WriteChunkType DEF TypeOK
    <3>2. UNCHANGED <<rfile, src, storage, faults, undefined, sems, wpc, main>>
      BY <1>20, <2>2 DEF ReaderWrite, WriteChunk
    <3>3. QED
      BY <2>1, <2>2, <3>1, <3>2 DEF TypeOK, BufTypeOK, MutexInv, ProgressInv, fsize, Holding
  <2>3. CASE SafewriteReturns /\ rpc' = "put_lock" /\ UNCHANGED <<header, writer, reader>>
    <3>1. faults' \in 0 .. MaxFaults
      BY <2>3, FaultsAssumption DEF SafewriteReturns, TypeOK, BufTypeOK
    <3>2. UNCHANGED <<storage, out, outLen, undefined, sems, wpc, main>>
      BY <1>20, <2>3 DEF ReaderWrite, SafewriteReturns
    <3>3. QED
      BY <2>1, <2>3, <3>1, <3>2 DEF TypeOK, BufTypeOK, MutexInv, ProgressInv, fsize, Holding
  <2>4. CASE WritePastEnd /\ UNCHANGED <<rpc, header, writer, reader>>
    BY <1>20, <2>4 DEF ReaderWrite, WritePastEnd, TypeOK, BufTypeOK, MutexInv, ProgressInv,
       fsize, Holding
  <2>5. QED
    BY <1>20, <2>2, <2>3, <2>4 DEF ReaderWrite
<1>21. ASSUME ReaderMark PROVE TInv'
  <2>1. rfile \in 1 .. NFiles /\ rpc = "put_mark"
    BY <1>21 DEF ReaderMark, ProgressInv, TypeOK, BufTypeOK
  <2>2. start' \in Addr /\ size' \in 0 .. Capacity /\ rfile' \in 1 .. NFiles + 1
    <3>1. start' \in Addr
      BY <1>21, <2>1, FileBounds, ShiftInRange DEF ReaderMark, MarkRead, TypeOK, BufTypeOK
    <3>2. size' \in 0 .. Capacity
      <4>1. size' = upd_buffer_size(start', end)
        BY <1>21 DEF ReaderMark, MarkRead
      <4>2. size' \in 0 .. Capacity - 1
        BY <3>1, <4>1, SizeInRange DEF TypeOK, BufTypeOK
      <4>3. QED
        BY <4>2, CapacityAssumption
    <3>3. QED
      BY <1>21, <2>1, <3>1, <3>2, FilesAssumption DEF ReaderMark, MarkRead
  <2>3. QED
    BY <1>21, <2>1, <2>2 DEF ReaderMark, MarkRead, TypeOK, BufTypeOK, MutexInv, ProgressInv,
       fsize, Holding
<1>22. ASSUME ForkWriter PROVE TInv'
  <2>1. TypeOK'
    BY <1>22, ForkAssumption DEF ForkWriter, TypeOK, BufTypeOK
  <2>2. MutexInv' /\ ProgressInv'
    BY <1>22 DEF ForkWriter, TypeOK, MutexInv, ProgressInv, Holding, fsize
  <2>3. QED
    BY <2>1, <2>2
<1>23. ASSUME ForkReader PROVE TInv'
  <2>1. TypeOK'
    BY <1>23, ForkAssumption DEF ForkReader, TypeOK, BufTypeOK
  <2>2. MutexInv' /\ ProgressInv'
    BY <1>23 DEF ForkReader, TypeOK, MutexInv, ProgressInv, Holding, fsize
  <2>3. QED
    BY <2>1, <2>2
<1>24. ASSUME Reap PROVE TInv'
  <2>1. TypeOK'
    BY <1>24, ForkAssumption DEF Reap, TypeOK, BufTypeOK
  <2>2. MutexInv' /\ ProgressInv'
    BY <1>24 DEF Reap, TypeOK, MutexInv, ProgressInv, Holding, fsize
  <2>3. QED
    BY <2>1, <2>2
<1>25. QED
  <2>1. ASSUME Writer PROVE TInv'
    BY <2>1, <1>2, <1>3, <1>4, <1>5, <1>6, <1>7, <1>8, <1>9, <1>10, <1>11 DEF Writer
  <2>2. ASSUME Reader PROVE TInv'
    BY <2>2, <1>12, <1>13, <1>14, <1>15, <1>16, <1>17, <1>18, <1>19, <1>20, <1>21 DEF Reader
  <2>3. ASSUME Parent PROVE TInv'
    BY <2>3, <1>22, <1>23, <1>24 DEF Parent
  <2>4. Next \/ Same
    OBVIOUS
  <2>5. Writer \/ Reader \/ Parent \/ Same
    BY <2>4 DEF Next
  <2>6. QED
    BY <1>1, <2>1, <2>2, <2>3, <2>5

\* The shared header, the storage, both children's variables and the semaphores
\* stay in range on every run: the mutex is never posted twice, no index leaves
\* the storage, whatever the sizes of the files and whichever calls fail.
THEOREM TypeCorrect == Spec => []TypeOK
<1>1. Spec => []TInv
  BY InitTInv, NextTInv, PTL DEF Spec
<1>2. TInv => TypeOK
  BY DEF TInv
<1>3. QED
  BY <1>1, <1>2, PTL

-----------------------------------------------------------------------------
(* No lost wakeup.  A child decides to sleep with the mutex held, gives the*)
(* mutex up and only then waits; NoLostWakeup alone says nothing of the    *)
(* moment in between.                                                      *)

WakeInv ==
  /\ wpc = "get_park" => NoRoom
  /\ rpc = "get_park" => NoData
  /\ NoLostWakeup

\* At the start nobody is parked, so nobody waits for a post.
LEMMA InitWakeInv == Init => WakeInv
BY DEF Init, WakeInv, NoLostWakeup

\* NoRoom can only be falsified by ReaderMark and NoData by WriterMark; each
\* is followed by the post, under the mutex the parking child needs.
LEMMA NextWakeInv == TInv /\ WakeInv /\ [Next]_vars => WakeInv'
<1> SUFFICES ASSUME TInv, WakeInv, [Next]_vars PROVE WakeInv'
  OBVIOUS
<1> USE DEF vars, bufVars, header, writer, reader, io, sems, main
<1> DEFINE Same == UNCHANGED <<bufVars, sems, wpc, rpc, main>>
<1>1. ASSUME Same PROVE WakeInv'
  BY <1>1 DEF WakeInv, NoLostWakeup, NoRoom, NoData, fsize
<1>2. full \in Nat /\ empty \in Nat /\ MutexInv
  BY DEF TInv, TypeOK
<1>3. ASSUME WriterGetLock PROVE WakeInv'
  BY <1>2, <1>3 DEF WriterGetLock, sem_wait, sem_post, WakeInv, NoLostWakeup, NoRoom, NoData,
     fsize, MutexInv, Holding
<1>4. ASSUME WriterCheck PROVE WakeInv'
  BY <1>2, <1>4 DEF WriterCheck, WakeInv, NoLostWakeup, NoRoom, NoData, fsize, MutexInv, Holding
<1>5. ASSUME WriterPark PROVE WakeInv'
  BY <1>2, <1>5 DEF WriterPark, sem_wait, sem_post, WakeInv, NoLostWakeup, NoRoom, NoData,
     fsize, MutexInv, Holding
<1>6. ASSUME WriterWaitFull PROVE WakeInv'
  BY <1>2, <1>6 DEF WriterWaitFull, sem_wait, sem_post, WakeInv, NoLostWakeup, NoRoom, NoData,
     fsize, MutexInv, Holding
<1>7. ASSUME WriterGetUnlock PROVE WakeInv'
  BY <1>2, <1>7 DEF WriterGetUnlock, sem_wait, sem_post, WakeInv, NoLostWakeup, NoRoom, NoData,
     fsize, MutexInv, Holding
<1>8. ASSUME WriterRead PROVE WakeInv'
  BY <1>2, <1>8 DEF WriterRead, ReadChunk, SafereadReturns, ReadPastEnd, WakeInv, NoLostWakeup,
     NoRoom, NoData, fsize, MutexInv, Holding
<1>9. ASSUME WriterPutLock PROVE WakeInv'
  BY <1>2, <1>9 DEF WriterPutLock, sem_wait, sem_post, WakeInv, NoLostWakeup, NoRoom, NoData,
     fsize, MutexInv, Holding
<1>10. ASSUME WriterMark PROVE WakeInv'
  BY <1>2, <1>10 DEF WriterMark, MarkWritten, WakeInv, NoLostWakeup, NoRoom, NoData, fsize,
     MutexInv, Holding
<1>11. ASSUME WriterPost PROVE WakeInv'
  BY <1>2, <1>11 DEF WriterPost, sem_wait, sem_post, WakeInv, NoLostWakeup, NoRoom, NoData,
     fsize, MutexInv, Holding
<1>12. ASSUME WriterPutUnlock PROVE WakeInv'
  BY <1>2, <1>12 DEF WriterPutUnlock, sem_wait, sem_post, WakeInv, NoLostWakeup, NoRoom, NoData,
     fsize, MutexInv, Holding
<1>13. ASSUME ReaderGetLock PROVE WakeInv'
  BY <1>2, <1>13 DEF ReaderGetLock, sem_wait, sem_post, WakeInv, NoLostWakeup, NoRoom, NoData,
     fsize, MutexInv, Holding
<1>14. ASSUME ReaderCheck PROVE WakeInv'
  BY <1>2, <1>14 DEF ReaderCheck, WakeInv, NoLostWakeup, NoRoom, NoData, fsize, MutexInv, Holding
<1>15. ASSUME ReaderPark PROVE WakeInv'
  BY <1>2, <1>15 DEF ReaderPark, sem_wait, sem_post, WakeInv, NoLostWakeup, NoRoom, NoData,
     fsize, MutexInv, Holding
<1>16. ASSUME ReaderWaitEmpty PROVE WakeInv'
  BY <1>2, <1>16 DEF ReaderWaitEmpty, sem_wait, sem_post, WakeInv, NoLostWakeup, NoRoom, NoData,
     fsize, MutexInv, Holding
<1>17. ASSUME ReaderGetUnlock PROVE WakeInv'
  BY <1>2, <1>17 DEF ReaderGetUnlock, sem_wait, sem_post, WakeInv, NoLostWakeup, NoRoom, NoData,
     fsize, MutexInv, Holding
<1>18. ASSUME ReaderWrite PROVE WakeInv'
  BY <1>2, <1>18 DEF ReaderWrite, WriteChunk, SafewriteReturns, WritePastEnd, WakeInv,
     NoLostWakeup, NoRoom, NoData, fsize, MutexInv, Holding
<1>19. ASSUME ReaderPutLock PROVE WakeInv'
  BY <1>2, <1>19 DEF ReaderPutLock, sem_wait, sem_post, WakeInv, NoLostWakeup, NoRoom, NoData,
     fsize, MutexInv, Holding
<1>20. ASSUME ReaderMark PROVE WakeInv'
  BY <1>2, <1>20 DEF ReaderMark, MarkRead, WakeInv, NoLostWakeup, NoRoom, NoData, fsize,
     MutexInv, Holding
<1>21. ASSUME ReaderPost PROVE WakeInv'
  BY <1>2, <1>21 DEF ReaderPost, sem_wait, sem_post, WakeInv, NoLostWakeup, NoRoom, NoData,
     fsize, MutexInv, Holding
<1>22. ASSUME ReaderPutUnlock PROVE WakeInv'
  BY <1>2, <1>22 DEF ReaderPutUnlock, sem_wait, sem_post, WakeInv, NoLostWakeup, NoRoom, NoData,
     fsize, MutexInv, Holding
<1>23. ASSUME ForkWriter PROVE WakeInv'
  BY <1>2, <1>23 DEF ForkWriter, WakeInv, NoLostWakeup, NoRoom, NoData, fsize, MutexInv,
     Holding, TInv, ProgressInv
<1>24. ASSUME ForkReader PROVE WakeInv'
  BY <1>2, <1>24 DEF ForkReader, WakeInv, NoLostWakeup, NoRoom, NoData, fsize, MutexInv,
     Holding, TInv, ProgressInv
<1>25. ASSUME Reap PROVE WakeInv'
  BY <1>2, <1>25 DEF Reap, WakeInv, NoLostWakeup, NoRoom, NoData, fsize, MutexInv, Holding
<1>26. QED
  <2>1. ASSUME Writer PROVE WakeInv'
    BY <2>1, <1>3, <1>4, <1>5, <1>6, <1>7, <1>8, <1>9, <1>10, <1>11, <1>12 DEF Writer
  <2>2. ASSUME Reader PROVE WakeInv'
    BY <2>2, <1>13, <1>14, <1>15, <1>16, <1>17, <1>18, <1>19, <1>20, <1>21, <1>22 DEF Reader
  <2>3. ASSUME Parent PROVE WakeInv'
    BY <2>3, <1>23, <1>24, <1>25 DEF Parent
  <2>4. Writer \/ Reader \/ Parent \/ Same
    BY DEF Next
  <2>5. QED
    BY <1>1, <2>1, <2>2, <2>3, <2>4

\* A child asleep on full or empty with no post to come back to has a condition
\* that still fails, or the other child is about to post: also with empty files,
\* failed calls, failed forks and a stale initial value of full.
THEOREM NoWakeupIsLost == Spec => []NoLostWakeup
<1>1. Spec => []TInv
  BY InitTInv, NextTInv, PTL DEF Spec
<1>2. Spec => []WakeInv
  BY <1>1, InitWakeInv, NextWakeInv, PTL DEF Spec
<1>3. WakeInv => NoLostWakeup
  BY DEF WakeInv
<1>4. QED
  BY <1>2, <1>3, PTL

-----------------------------------------------------------------------------
(* The ring, for files no run of which adds up to exactly the capacity: a  *)
(* ring that is exactly full looks empty to upd_buffer_size.               *)

\* Where the writer, or the reader, has got its address and not yet given it up.
Transfer == {"get_unlock", "io", "put_lock", "put_mark"}

\* The header is right about the files written and read so far, and what a
\* child checked in get_write or get_read still holds when it marks its file.
RingInv ==
  /\ HeaderInv
  /\ wpc \in Transfer => ~NoRoom /\ dest = end
  /\ rpc \in Transfer => ~NoData /\ src = start

\* At the start the ring is empty and no transfer is under way.
LEMMA InitRingInv == Init => RingInv
BY InitHeader DEF Init, RingInv, Transfer

\* complete_write: there was room at the check, there still is; and the reader
\* finds no less in the ring than when it looked.
LEMMA MarkWrittenRing ==
  ASSUME NeverExactlyFull, TInv, RingInv, WriterMark
  PROVE  RingInv'
<1>1. /\ wpc = "put_mark" /\ wfile \in 1 .. NFiles /\ BufTypeOK
      /\ wpc' = "put_post" /\ MarkWritten /\ UNCHANGED <<rfile, src, put, rpc>>
  BY DEF WriterMark, reader, TInv, ProgressInv, TypeOK, BufTypeOK
<1>2. ~NoRoom
  BY <1>1 DEF RingInv, Transfer
<1>3. HeaderInv' /\ size' = size + fsize(wfile) /\ start' = start
  BY <1>1, <1>2, MarkWrittenHeader DEF RingInv
<1>4. rpc' \in Transfer => ~NoData' /\ src' = start'
  <2> SUFFICES ASSUME rpc \in Transfer PROVE ~NoData' /\ src' = start'
    BY <1>1
  <2>1. rfile \in 1 .. NFiles
    BY <1>1 DEF TInv, ProgressInv, Transfer, BufTypeOK
  <2>2. /\ fsize(rfile) \in Nat /\ fsize(wfile) \in Nat /\ size \in Nat
        /\ ~(size < fsize(rfile)) /\ src = start
    BY <1>1, <2>1, FileBounds, CapacityAssumption DEF RingInv, NoData, BufTypeOK
  <2>3. fsize(rfile)' = fsize(rfile)
    BY <1>1 DEF fsize
  <2>4. QED
    BY <1>1, <1>3, <2>2, <2>3 DEF NoData
<1>5. QED
  BY <1>1, <1>3, <1>4 DEF RingInv, Transfer

\* complete_read: there was enough to read at the check, there still is; and the
\* writer finds no less room than when it looked.
LEMMA MarkReadRing ==
  ASSUME TInv, RingInv, ReaderMark
  PROVE  RingInv'
<1>1. /\ rpc = "put_mark" /\ rfile \in 1 .. NFiles /\ BufTypeOK
      /\ rpc' = "put_post" /\ MarkRead /\ UNCHANGED <<wfile, dest, got, wpc>>
  BY DEF ReaderMark, writer, TInv, ProgressInv, TypeOK, BufTypeOK
<1>2. ~NoData
  BY <1>1 DEF RingInv, Transfer
<1>3. HeaderInv' /\ size' = size - fsize(rfile) /\ end' = end
  BY <1>1, <1>2, MarkReadHeader DEF RingInv
<1>4. wpc' \in Transfer => ~NoRoom' /\ dest' = end'
  <2> SUFFICES ASSUME wpc \in Transfer PROVE ~NoRoom' /\ dest' = end'
    BY <1>1
  <2>1. wfile \in 1 .. NFiles
    BY <1>1 DEF TInv, ProgressInv, Transfer, BufTypeOK
  <2>2. /\ fsize(rfile) \in Nat /\ fsize(wfile) \in Nat /\ size \in Nat
        /\ ~(Capacity - size < fsize(wfile)) /\ dest = end
    BY <1>1, <2>1, FileBounds, CapacityAssumption DEF RingInv, NoRoom, BufTypeOK
  <2>3. fsize(wfile)' = fsize(wfile)
    BY <1>1 DEF fsize
  <2>4. QED
    BY <1>1, <1>3, <2>2, <2>3, CapacityAssumption DEF NoRoom
<1>5. QED
  BY <1>1, <1>3, <1>4 DEF RingInv, Transfer

\* Every step keeps the header and the two transfers in agreement with the
\* files written and read so far, if the ring never is exactly full.
LEMMA NextRingInv ==
  ASSUME NeverExactlyFull
  PROVE  TInv /\ RingInv /\ [Next]_vars => RingInv'
<1> SUFFICES ASSUME TInv, RingInv, [Next]_vars PROVE RingInv'
  OBVIOUS
<1> USE DEF vars, bufVars, header, writer, reader, io, sems, main
<1> DEFINE Same == UNCHANGED <<bufVars, sems, wpc, rpc, main>>
<1>1. ASSUME Same PROVE RingInv'
  BY <1>1 DEF RingInv, HeaderInv, Written, Taken, NoRoom, NoData, fsize
<1>2. ASSUME WriterGetLock PROVE RingInv'
  BY <1>2 DEF WriterGetLock, sem_wait, sem_post, RingInv, Transfer, HeaderInv, Written, Taken,
     NoRoom, NoData, fsize
<1>3. ASSUME WriterCheck PROVE RingInv'
  BY <1>3 DEF WriterCheck, RingInv, Transfer, HeaderInv, Written, Taken, NoRoom, NoData, fsize
<1>4. ASSUME WriterPark PROVE RingInv'
  BY <1>4 DEF WriterPark, sem_wait, sem_post, RingInv, Transfer, HeaderInv, Written, Taken,
     NoRoom, NoData, fsize
<1>5. ASSUME WriterWaitFull PROVE RingInv'
  BY <1>5 DEF WriterWaitFull, sem_wait, sem_post, RingInv, Transfer, HeaderInv, Written, Taken,
     NoRoom, NoData, fsize
<1>6. ASSUME WriterGetUnlock PROVE RingInv'
  BY <1>6 DEF WriterGetUnlock, sem_wait, sem_post, RingInv, Transfer, HeaderInv, Written, Taken,
     NoRoom, NoData, fsize
<1>7. ASSUME WriterRead PROVE RingInv'
  BY <1>7 DEF WriterRead, ReadChunk, SafereadReturns, ReadPastEnd, RingInv, Transfer, HeaderInv,
     Written, Taken, NoRoom, NoData, fsize
<1>8. ASSUME WriterPutLock PROVE RingInv'
  BY <1>8 DEF WriterPutLock, sem_wait, sem_post, RingInv, Transfer, HeaderInv, Written, Taken,
     NoRoom, NoData, fsize
<1>9. ASSUME WriterMark PROVE RingInv'
  BY <1>9, MarkWrittenRing
<1>10. ASSUME WriterPost PROVE RingInv'
  BY <1>10 DEF WriterPost, sem_wait, sem_post, RingInv, Transfer, HeaderInv, Written, Taken,
     NoRoom, NoData, fsize
<1>11. ASSUME WriterPutUnlock PROVE RingInv'
  BY <1>11 DEF WriterPutUnlock, sem_wait, sem_post, RingInv, Transfer, HeaderInv, Written,
     Taken, NoRoom, NoData, fsize
<1>12. ASSUME ReaderGetLock PROVE RingInv'
  BY <1>12 DEF ReaderGetLock, sem_wait, sem_post, RingInv, Transfer, HeaderInv, Written, Taken,
     NoRoom, NoData, fsize
<1>13. ASSUME ReaderCheck PROVE RingInv'
  BY <1>13 DEF ReaderCheck, RingInv, Transfer, HeaderInv, Written, Taken, NoRoom, NoData, fsize
<1>14. ASSUME ReaderPark PROVE RingInv'
  BY <1>14 DEF ReaderPark, sem_wait, sem_post, RingInv, Transfer, HeaderInv, Written, Taken,
     NoRoom, NoData, fsize
<1>15. ASSUME ReaderWaitEmpty PROVE RingInv'
  BY <1>15 DEF ReaderWaitEmpty, sem_wait, sem_post, RingInv, Transfer, HeaderInv, Written,
     Taken, NoRoom, NoData, fsize
<1>16. ASSUME ReaderGetUnlock PROVE RingInv'
  BY <1>16 DEF ReaderGetUnlock, sem_wait, sem_post, RingInv, Transfer, HeaderInv, Written,
     Taken, NoRoom, NoData, fsize
<1>17. ASSUME ReaderWrite PROVE RingInv'
  BY <1>17 DEF ReaderWrite, WriteChunk, SafewriteReturns, WritePastEnd, RingInv, Transfer,
     HeaderInv, Written, Taken, NoRoom, NoData, fsize
<1>18. ASSUME ReaderPutLock PROVE RingInv'
  BY <1>18 DEF ReaderPutLock, sem_wait, sem_post, RingInv, Transfer, HeaderInv, Written, Taken,
     NoRoom, NoData, fsize
<1>19. ASSUME ReaderMark PROVE RingInv'
  BY <1>19, MarkReadRing
<1>20. ASSUME ReaderPost PROVE RingInv'
  BY <1>20 DEF ReaderPost, sem_wait, sem_post, RingInv, Transfer, HeaderInv, Written, Taken,
     NoRoom, NoData, fsize
<1>21. ASSUME ReaderPutUnlock PROVE RingInv'
  BY <1>21 DEF ReaderPutUnlock, sem_wait, sem_post, RingInv, Transfer, HeaderInv, Written,
     Taken, NoRoom, NoData, fsize
<1>22. ASSUME ForkWriter PROVE RingInv'
  BY <1>22 DEF ForkWriter, RingInv, Transfer, HeaderInv, Written, Taken, NoRoom, NoData, fsize,
     TInv, ProgressInv
<1>23. ASSUME ForkReader PROVE RingInv'
  BY <1>23 DEF ForkReader, RingInv, Transfer, HeaderInv, Written, Taken, NoRoom, NoData, fsize,
     TInv, ProgressInv
<1>24. ASSUME Reap PROVE RingInv'
  BY <1>24 DEF Reap, RingInv, Transfer, HeaderInv, Written, Taken, NoRoom, NoData, fsize
<1>25. QED
  <2>1. ASSUME Writer PROVE RingInv'
    BY <2>1, <1>2, <1>3, <1>4, <1>5, <1>6, <1>7, <1>8, <1>9, <1>10, <1>11 DEF Writer
  <2>2. ASSUME Reader PROVE RingInv'
    BY <2>2, <1>12, <1>13, <1>14, <1>15, <1>16, <1>17, <1>18, <1>19, <1>20, <1>21 DEF Reader
  <2>3. ASSUME Parent PROVE RingInv'
    BY <2>3, <1>22, <1>23, <1>24 DEF Parent
  <2>4. Writer \/ Reader \/ Parent \/ Same
    BY DEF Next
  <2>5. QED
    BY <1>1, <2>1, <2>2, <2>3, <2>4

\* Hence that agreement holds throughout every run.
LEMMA RingAlways ==
  ASSUME NeverExactlyFull
  PROVE  Spec => [](TInv /\ RingInv)
<1>1. Init => TInv /\ RingInv
  BY InitTInv, InitRingInv
<1>2. TInv /\ RingInv /\ [Next]_vars => (TInv /\ RingInv)'
  BY NextTInv, NextRingInv
<1>3. QED
  BY <1>1, <1>2, PTL DEF Spec

\* buffer->size is the number of unread bytes, always, unless some consecutive
\* files add up to exactly the capacity.
THEOREM SizeCountsUnread ==
  ASSUME NeverExactlyFull
  PROVE  Spec => []SizeIsUnread
<1>1. TInv /\ RingInv => SizeIsUnread
  BY DEF RingInv, HeaderInv, SizeIsUnread
<1>2. QED
  BY <1>1, RingAlways, PTL

\* The region get_write hands out never meets a byte still to be read.
THEOREM WriterNeverOverwrites ==
  ASSUME NeverExactlyFull
  PROVE  Spec => []NoOverwrite
<1>1. ASSUME TInv, RingInv PROVE NoOverwrite
  <2> SUFFICES ASSUME wpc \in Transfer, NEW a \in Addr,
                      dest <= a, a < dest + fsize(wfile),
                      \/ start <= a /\ a < start + (Written - Taken)
                      \/ a + Capacity < start + (Written - Taken)
               PROVE  FALSE
    BY DEF NoOverwrite, WriteRegion, UnreadRegion, Transfer
  <2>1. wfile \in 1 .. NFiles
    BY <1>1 DEF TInv, ProgressInv, TypeOK, BufTypeOK, Transfer
  <2>2. fsize(wfile) \in Nat
    BY <2>1, FileBounds
  <2>3. /\ dest = end /\ fsize(wfile) <= Capacity - size
        /\ size = Written - Taken
        /\ end = start + size \/ end = start + size - Capacity
    BY <1>1, <2>2, IndicesEnclose, CapacityAssumption
       DEF RingInv, HeaderInv, NoRoom, TInv, TypeOK, BufTypeOK, Transfer
  <2>4. a \in Nat /\ start \in Nat /\ size \in Nat /\ end \in Nat /\ Capacity \in Nat
    BY <1>1, CapacityAssumption DEF TInv, TypeOK, BufTypeOK, Addr
  <2>5. QED
    BY <2>2, <2>3, <2>4
<1>2. QED
  BY <1>1, RingAlways, PTL

-----------------------------------------------------------------------------
(* The bytes, for as long as no read() or write() fails.                   *)

\* How far the reader has come in the stream.
ReaderAt == IF rpc \in Transfer THEN Taken + put ELSE Taken

\* The storage holds what is to be read, the output has what was; and a child
\* gives up a file early only where the storage ends.
StreamInv ==
  /\ rpc = "done" => rfile = NFiles + 1
  /\ faults = 0 =>
       /\ FilesStored /\ Sent(ReaderAt)
       /\ wpc \in Transfer => Stored(wfile, got)
       /\ wpc \in {"put_lock", "put_mark"} => got = fsize(wfile) \/ dest + got >= Capacity
       /\ rpc = "get_unlock" => put = 0
       /\ rpc \in {"put_lock", "put_mark"} =>
            put <= fsize(rfile) /\ (put = fsize(rfile) \/ src + put >= Capacity)

\* The bytes are where they should be before the first call.
LEMMA InitStreamInv == Init => StreamInv
<1> SUFFICES ASSUME Init PROVE StreamInv
  OBVIOUS
<1>1. FilesStored /\ Sent(Taken)
  BY NothingSentYet DEF Init
<1>2. rpc = "unborn" /\ wpc = "unborn"
  BY DEF Init
<1>3. QED
  BY <1>1, <1>2 DEF StreamInv, ReaderAt, Transfer

\* A step that neither moves bytes nor marks a file changes nothing about them.
LEMMA QuietStep ==
  ASSUME StreamInv,
         UNCHANGED <<storage, wfile, dest, got, rfile, src, put, out, outLen, faults>>,
         wpc' \in Transfer => wpc \in Transfer,
         wpc' \in {"put_lock", "put_mark"} => wpc \in {"put_lock", "put_mark"},
         rpc' \in Transfer <=> rpc \in Transfer,
         rpc' = "get_unlock" => rpc = "get_unlock",
         rpc' \in {"put_lock", "put_mark"} => rpc \in {"put_lock", "put_mark"},
         rpc' = "done" => rpc = "done" \/ rfile = NFiles + 1
  PROVE  StreamInv'
<1>1. ReaderAt' = ReaderAt
  BY DEF ReaderAt, Taken
<1>2. ASSUME NEW f, NEW n, Stored(f, n) PROVE Stored(f, n)'
  BY <1>2 DEF Stored, Place
<1>3. FilesStored => FilesStored'
  BY DEF FilesStored, Stored, Place, fsize
<1>4. Sent(ReaderAt) => Sent(ReaderAt)'
  BY <1>1 DEF Sent, InOrder
<1>5. Stored(wfile, got) => Stored(wfile, got)'
  BY DEF Stored, Place
<1>6. QED
  BY <1>3, <1>4, <1>5 DEF StreamInv, fsize

\* get_write hands out an address: nothing of the file is there yet.
LEMMA WriterCheckStream ==
  ASSUME TInv, StreamInv, WriterCheck
  PROVE  StreamInv'
<1>1. /\ UNCHANGED <<storage, wfile, rfile, src, put, out, outLen, faults, rpc>>
      /\ wpc' \in {"get_park", "get_unlock"}
      /\ wpc' = "get_unlock" => got' = 0
  BY DEF WriterCheck, header, reader, io
<1>2. ReaderAt' = ReaderAt
  BY <1>1 DEF ReaderAt, Taken
<1>3. FilesStored => FilesStored'
  BY <1>1 DEF FilesStored, Stored, Place, fsize
<1>4. Sent(ReaderAt) => Sent(ReaderAt)'
  BY <1>1, <1>2 DEF Sent, InOrder
<1>5. wpc' \in Transfer => Stored(wfile, got)'
  BY <1>1 DEF Stored, Transfer
<1>6. QED
  BY <1>1, <1>3, <1>4, <1>5 DEF StreamInv, fsize

\* saferead: bytes arrive where no unread byte is.
LEMMA WriterReadStream ==
  ASSUME TInv, RingInv, StreamInv, WriterRead
  PROVE  StreamInv'
<1> SUFFICES ASSUME faults' = 0
             PROVE  /\ FilesStored' /\ Sent(ReaderAt)'
                    /\ wpc' \in Transfer => Stored(wfile, got)'
                    /\ wpc' \in {"put_lock", "put_mark"} => got' = fsize(wfile)' \/ dest' + got' >= Capacity
                    /\ UNCHANGED <<rfile, src, put, rpc, faults>>
  BY DEF StreamInv, WriterRead, reader, ReadChunk, SafereadReturns, ReadPastEnd, fsize
<1>1. /\ wpc = "io" /\ BufTypeOK /\ wfile <= NFiles /\ got <= fsize(wfile)
      /\ UNCHANGED <<wfile, dest, rfile, src, put, rpc, out, outLen>>
  BY DEF WriterRead, writer, reader, ReadChunk, SafereadReturns, ReadPastEnd,
         TInv, TypeOK, ProgressInv
<1>2. faults = 0 /\ faults' = faults
  BY <1>1, FaultsAssumption DEF WriterRead, ReadChunk, SafereadReturns, ReadPastEnd, BufTypeOK
<1>3. FilesStored /\ Sent(ReaderAt) /\ Stored(wfile, got)
  BY <1>1, <1>2 DEF StreamInv, Transfer
<1>4. ReaderAt' = ReaderAt
  BY <1>1 DEF ReaderAt, Taken
<1>5. Sent(ReaderAt)'
  BY <1>1, <1>3, <1>4 DEF Sent, InOrder
<1>6. FilesStored' /\ Stored(wfile, got)'
  <2>1. CASE ReadChunk
    BY <1>1, <1>3, <2>1, ReadChunkStores DEF RingInv, Transfer
  <2>2. CASE UNCHANGED <<storage, got>>
    BY <1>1, <1>3, <2>2 DEF FilesStored, Stored, Place, fsize
  <2>3. QED
    BY <2>1, <2>2 DEF WriterRead, writer, SafereadReturns, ReadPastEnd
<1>7. wpc' \in {"put_lock", "put_mark"} => got' = fsize(wfile)' \/ dest' + got' >= Capacity
  BY <1>1, <1>2, FaultsAssumption DEF WriterRead, writer, SafereadReturns, BufTypeOK, fsize
<1>8. QED
  BY <1>1, <1>2, <1>5, <1>6, <1>7

\* complete_write: the file has become one of those to be read.
LEMMA WriterMarkStream ==
  ASSUME TInv, RingInv, StreamInv, WriterMark
  PROVE  StreamInv'
<1>1. /\ wpc = "put_mark" /\ wpc' = "put_post" /\ BufTypeOK /\ wfile <= NFiles
      /\ MarkWritten
      /\ UNCHANGED <<rfile, src, put, rpc, storage, out, outLen, faults>>
  BY DEF WriterMark, reader, io, TInv, TypeOK, ProgressInv
<1>2. ReaderAt' = ReaderAt
  BY <1>1 DEF ReaderAt, Taken
<1>3. dest = Place(wfile)
  BY <1>1 DEF RingInv, HeaderInv, Transfer, Place, Written
<1>4. faults = 0 => FilesStored'
  BY <1>1, <1>3, MarkWrittenStores DEF StreamInv, Transfer
<1>5. Sent(ReaderAt) => Sent(ReaderAt)'
  BY <1>1, <1>2 DEF Sent, InOrder
<1>6. QED
  BY <1>1, <1>4, <1>5 DEF StreamInv, Transfer, fsize

\* get_read hands out the address of the first byte of the file.
LEMMA ReaderCheckStream ==
  ASSUME TInv, StreamInv, ReaderCheck
  PROVE  StreamInv'
<1>1. /\ UNCHANGED <<storage, wfile, dest, got, rfile, out, outLen, faults, wpc>>
      /\ rpc = "get_check" /\ rpc' \in {"get_park", "get_unlock"}
      /\ rpc' = "get_unlock" => put' = 0
  BY DEF ReaderCheck, header, writer, io
<1>2. ReaderAt' = ReaderAt
  <2>1. Taken \in Nat /\ Taken' = Taken
    BY <1>1, FilesAssumption DEF TInv, TypeOK, BufTypeOK, Taken
  <2>2. QED
    BY <1>1, <2>1 DEF ReaderAt, Transfer
<1>3. FilesStored => FilesStored'
  BY <1>1 DEF FilesStored, Stored, Place, fsize
<1>4. Sent(ReaderAt) => Sent(ReaderAt)'
  BY <1>1, <1>2 DEF Sent, InOrder
<1>5. Stored(wfile, got) => Stored(wfile, got)'
  BY <1>1 DEF Stored, Place
<1>6. QED
  BY <1>1, <1>3, <1>4, <1>5 DEF StreamInv, fsize

\* safewrite: the bytes that leave are the next ones of the stream.
LEMMA ReaderWriteStream ==
  ASSUME TInv, RingInv, StreamInv, ReaderWrite
  PROVE  StreamInv'
<1> SUFFICES ASSUME faults' = 0
             PROVE  /\ FilesStored' /\ Sent(ReaderAt)'
                    /\ Stored(wfile, got) => Stored(wfile, got)'
                    /\ rpc' \in {"put_lock", "put_mark"} =>
                         put' <= fsize(rfile)' /\ (put' = fsize(rfile)' \/ src' + put' >= Capacity)
                    /\ UNCHANGED <<wfile, dest, got, wpc, faults>> /\ rpc' \in {"io", "put_lock"}
  BY DEF StreamInv, ReaderWrite, writer, WriteChunk, SafewriteReturns, WritePastEnd, fsize
<1>1. /\ rpc = "io" /\ BufTypeOK /\ rfile <= NFiles /\ put <= fsize(rfile)
      /\ UNCHANGED <<wfile, dest, got, rfile, src, wpc, storage>>
      /\ rpc' \in {"io", "put_lock"}
  BY DEF ReaderWrite, writer, reader, WriteChunk, SafewriteReturns, WritePastEnd,
         TInv, TypeOK, ProgressInv
<1>2. faults = 0 /\ faults' = faults
  BY <1>1, FaultsAssumption DEF ReaderWrite, WriteChunk, SafewriteReturns, WritePastEnd, BufTypeOK
<1>3. FilesStored /\ Sent(Taken + put)
  BY <1>1, <1>2 DEF StreamInv, Transfer, ReaderAt
<1>4. FilesStored' /\ (Stored(wfile, got) => Stored(wfile, got)')
  BY <1>1, <1>3 DEF FilesStored, Stored, Place, fsize
<1>5. Sent(Taken + put)'
  <2>1. CASE WriteChunk
    BY <1>1, <1>3, <2>1, WriteChunkSends DEF RingInv, Transfer
  <2>2. CASE UNCHANGED <<put, out, outLen>>
    BY <1>1, <1>3, <2>2 DEF Sent, InOrder, Taken
  <2>3. QED
    BY <2>1, <2>2 DEF ReaderWrite, reader, SafewriteReturns, WritePastEnd
<1>6. Sent(ReaderAt)'
  BY <1>1, <1>5 DEF ReaderAt, Transfer
<1>7. rpc' \in {"put_lock", "put_mark"} =>
        put' <= fsize(rfile)' /\ (put' = fsize(rfile)' \/ src' + put' >= Capacity)
  BY <1>1, <1>2, FaultsAssumption DEF ReaderWrite, reader, SafewriteReturns, BufTypeOK, fsize
<1>8. QED
  BY <1>1, <1>2, <1>4, <1>6, <1>7

\* complete_read: what was not sent of the file did not fit.
LEMMA ReaderMarkStream ==
  ASSUME TInv, RingInv, StreamInv, ReaderMark
  PROVE  StreamInv'
<1>1. /\ rpc = "put_mark" /\ rpc' = "put_post" /\ BufTypeOK /\ rfile <= NFiles
      /\ MarkRead
      /\ UNCHANGED <<wfile, dest, got, wpc, storage, out, outLen, faults>>
  BY DEF ReaderMark, writer, io, TInv, TypeOK, ProgressInv
<1>2. FilesStored => FilesStored'
  BY <1>1, MarkReadStores
<1>3. Taken' = Taken + fsize(rfile)
  BY <1>1, MarkReadHeader DEF RingInv, Transfer
<1>4. faults = 0 => Sent(Taken + fsize(rfile))
  BY <1>1, GivingUpSends DEF StreamInv, RingInv, Transfer, ReaderAt
<1>5. ReaderAt' = Taken + fsize(rfile)
  BY <1>1, <1>3 DEF ReaderAt, Transfer
<1>6. faults = 0 => Sent(ReaderAt)'
  BY <1>1, <1>4, <1>5 DEF Sent, InOrder
<1>7. Stored(wfile, got) => Stored(wfile, got)'
  BY <1>1 DEF Stored, Place
<1>8. QED
  BY <1>1, <1>2, <1>6, <1>7 DEF StreamInv, Transfer, fsize

\* A step of the program keeps the bytes where they should be.
LEMMA NextStreamInv ==
  ASSUME TInv, RingInv, StreamInv, [Next]_vars
  PROVE  StreamInv'
<1> USE DEF TInv, vars, bufVars, header, writer, reader, io, sems, main, Transfer
<1>1. CASE UNCHANGED vars
  BY <1>1, QuietStep DEF StreamInv
<1>2. CASE Writer
  <2>1. CASE WriterCheck \/ WriterRead \/ WriterMark
    BY <2>1, WriterCheckStream, WriterReadStream, WriterMarkStream
  <2>2. CASE WriterGetLock
    BY <2>2, QuietStep DEF WriterGetLock, StreamInv
  <2>3. CASE WriterPark
    BY <2>3, QuietStep DEF WriterPark, StreamInv
  <2>4. CASE WriterWaitFull
    BY <2>4, QuietStep DEF WriterWaitFull, StreamInv
  <2>5. CASE WriterGetUnlock
    BY <2>5, QuietStep DEF WriterGetUnlock, StreamInv
  <2>6. CASE WriterPutLock
    BY <2>6, QuietStep DEF WriterPutLock, StreamInv
  <2>7. CASE WriterPost
    BY <2>7, QuietStep DEF WriterPost, StreamInv
  <2>8. CASE WriterPutUnlock
    BY <2>8, QuietStep DEF WriterPutUnlock, StreamInv
  <2>9. QED
    BY <1>2, <2>1, <2>2, <2>3, <2>4, <2>5, <2>6, <2>7, <2>8 DEF Writer
<1>3. CASE Reader
  <2>1. CASE ReaderCheck \/ ReaderWrite \/ ReaderMark
    BY <2>1, ReaderCheckStream, ReaderWriteStream, ReaderMarkStream
  <2>2. CASE ReaderGetLock
    BY <2>2, QuietStep DEF ReaderGetLock, StreamInv
  <2>3. CASE ReaderPark
    BY <2>3, QuietStep DEF ReaderPark, StreamInv
  <2>4. CASE ReaderWaitEmpty
    BY <2>4, QuietStep DEF ReaderWaitEmpty, StreamInv
  <2>5. CASE ReaderGetUnlock
    BY <2>5, QuietStep DEF ReaderGetUnlock, StreamInv
  <2>6. CASE ReaderPutLock
    BY <2>6, QuietStep DEF ReaderPutLock, StreamInv
  <2>7. CASE ReaderPost
    BY <2>7, QuietStep DEF ReaderPost, StreamInv
  <2>8. CASE ReaderPutUnlock
    <3>1. rfile \in Nat /\ NFiles \in Nat /\ rfile <= NFiles + 1
      BY FilesAssumption DEF TypeOK, BufTypeOK
    <3>2. QED
      BY <2>8, <3>1, QuietStep DEF ReaderPutUnlock, StreamInv
  <2>9. QED
    BY <1>3, <2>1, <2>2, <2>3, <2>4, <2>5, <2>6, <2>7, <2>8 DEF Reader
<1>4. CASE Parent
  <2>1. CASE ForkWriter
    BY <2>1, QuietStep DEF ForkWriter, StreamInv
  <2>2. CASE ForkReader
    BY <2>2, QuietStep DEF ForkReader, StreamInv, ProgressInv
  <2>3. CASE Reap
    BY <2>3, QuietStep DEF Reap, StreamInv
  <2>4. QED
    BY <1>4, <2>1, <2>2, <2>3 DEF Parent
<1>5. QED
  BY <1>1, <1>2, <1>3, <1>4 DEF Next

\* What InOrder and the position of the reader say of a finished reader.
LEMMA StreamGivesOutput == TInv /\ StreamInv => OutputInOrder
<1> SUFFICES ASSUME TInv, StreamInv, faults = 0
             PROVE  InOrder /\ (rpc = "done" => outLen >= Capacity \/ outLen = Total)
  BY DEF OutputInOrder
<1>1. Sent(ReaderAt)
  BY DEF StreamInv
<1>2. ASSUME rpc = "done" PROVE ReaderAt = Total
  BY <1>2, FilesAssumption DEF StreamInv, ReaderAt, Taken, Total, Transfer
<1>3. QED
  BY <1>1, <1>2 DEF Sent

\* pcat sends the bytes of its files in the order of its arguments, none twice
\* and none before it was read; and all of them unless the files wrap around
\* the storage: whenever no read() or write() fails, for any lengths of the
\* files that never add up to exactly the capacity.
THEOREM OutputIsInOrder ==
  ASSUME NeverExactlyFull
  PROVE  Spec => []OutputInOrder
<1>1. Init => TInv /\ RingInv /\ StreamInv
  BY InitTInv, InitRingInv, InitStreamInv
<1>2. TInv /\ RingInv /\ StreamInv /\ [Next]_vars => (TInv /\ RingInv /\ StreamInv)'
  BY NextTInv, NextRingInv, NextStreamInv
<1>3. QED
  BY <1>1, <1>2, StreamGivesOutput, PTL DEF Spec

-----------------------------------------------------------------------------
(* The buffer implements the bounded FIFO of whole files.                  *)

\* Only the two marks count a file.
LEMMA MarksOnly ==
  [Next]_vars => WriterMark \/ ReaderMark \/ UNCHANGED <<wfile, rfile>>
<1> SUFFICES ASSUME [Next]_vars, ~WriterMark, ~ReaderMark
             PROVE  UNCHANGED <<wfile, rfile>>
  OBVIOUS
<1> USE DEF vars, bufVars, header, writer, reader
<1>1. ASSUME Writer PROVE UNCHANGED <<wfile, rfile>>
  BY <1>1 DEF Writer, WriterGetLock, WriterCheck, WriterPark, WriterWaitFull, WriterGetUnlock,
              WriterRead, WriterPutLock, WriterPost, WriterPutUnlock,
              ReadChunk, SafereadReturns, ReadPastEnd
<1>2. ASSUME Reader PROVE UNCHANGED <<wfile, rfile>>
  BY <1>2 DEF Reader, ReaderGetLock, ReaderCheck, ReaderPark, ReaderWaitEmpty, ReaderGetUnlock,
              ReaderWrite, ReaderPutLock, ReaderPost, ReaderPutUnlock,
              WriteChunk, SafewriteReturns, WritePastEnd
<1>3. ASSUME Parent PROVE UNCHANGED <<wfile, rfile>>
  BY <1>3 DEF Parent, ForkWriter, ForkReader, Reap
<1>4. QED
  BY <1>1, <1>2, <1>3 DEF Next

\* complete_write is a Put of the abstract queue: the file fits.
LEMMA PutStep ==
  ASSUME TInv, RingInv, WriterMark
  PROVE  Queue!Put
<1>1. wpc = "put_mark" /\ wfile \in 1 .. NFiles /\ rfile \in 1 .. NFiles + 1
  BY DEF WriterMark, TInv, ProgressInv, TypeOK, BufTypeOK
<1>2. fsize(wfile) \in Nat /\ Offset[wfile] = Written + fsize(wfile) /\ Written \in Nat
  BY <1>1, FileBounds DEF Written
<1>3. Taken \in Nat
  BY <1>1, FilesAssumption DEF Taken
<1>4. fsize(wfile) <= Capacity - (Written - Taken)
  BY <1>1, <1>2, <1>3, CapacityAssumption DEF RingInv, HeaderInv, Transfer, NoRoom
<1>5. Offset[wfile] - Taken <= Capacity
  BY <1>2, <1>3, <1>4, CapacityAssumption
<1>6. wfile' = wfile + 1 /\ rfile' = rfile
  BY DEF WriterMark, MarkWritten, reader
<1>7. wfile - 1 + 1 = wfile /\ wfile - 1 < NFiles /\ wfile' - 1 = (wfile - 1) + 1
  BY <1>1, <1>6, FilesAssumption
<1>8. QED
  BY <1>5, <1>6, <1>7 DEF Queue!Put, Taken

\* complete_read is a Take of the abstract queue: the file has been put.
LEMMA TakeStep ==
  ASSUME TInv, RingInv, ReaderMark
  PROVE  Queue!Take
<1>1. rpc = "put_mark" /\ rfile \in 1 .. NFiles /\ wfile \in 1 .. NFiles + 1
  BY DEF ReaderMark, TInv, ProgressInv, TypeOK, BufTypeOK
<1>2. fsize(rfile) \in Nat /\ Offset[rfile] = Taken + fsize(rfile) /\ Taken \in Nat
  BY <1>1, FileBounds DEF Taken
<1>3. Written \in Nat
  BY <1>1, FilesAssumption DEF Written
<1>4. fsize(rfile) <= Written - Taken
  BY <1>1, <1>2, <1>3 DEF RingInv, HeaderInv, Transfer, NoData
<1>5. Offset[rfile] <= Written
  BY <1>2, <1>3, <1>4
<1>6. rfile' = rfile + 1 /\ wfile' = wfile
  BY DEF ReaderMark, MarkRead, writer
<1>7. rfile - 1 + 1 = rfile /\ rfile - 1 < NFiles /\ rfile' - 1 = (rfile - 1) + 1
  BY <1>1, <1>6, FilesAssumption
<1>8. QED
  BY <1>5, <1>6, <1>7 DEF Queue!Take, Written

\* pcat's buffer is a FIFO of whole files that never holds more than Capacity
\* bytes: complete_write is its Put, complete_read its Take, all else stutters.
THEOREM ImplementsFileQueue ==
  ASSUME NeverExactlyFull
  PROVE  Spec => QueueSpec
<1>1. Init => Queue!Init
  BY DEF Init, BufInit, Queue!Init
<1>2. TInv /\ RingInv /\ [Next]_vars => [Queue!Next]_(Queue!vars)
  <2> SUFFICES ASSUME TInv, RingInv, [Next]_vars PROVE [Queue!Next]_(Queue!vars)
    OBVIOUS
  <2>1. CASE WriterMark
    BY <2>1, PutStep DEF Queue!Next
  <2>2. CASE ReaderMark
    BY <2>2, TakeStep DEF Queue!Next
  <2>3. CASE UNCHANGED <<wfile, rfile>>
    BY <2>3 DEF Queue!vars
  <2>4. QED
    BY <2>1, <2>2, <2>3, MarksOnly
<1>3. QED
  BY <1>1, <1>2, RingAlways, PTL DEF Spec, QueueSpec, Queue!Spec

-----------------------------------------------------------------------------
(* The whole program.                                                      *)

\* Acquiring and giving back the shared memory never touches what PcatSem is
\* about: every step of the program is one of PcatSem or leaves it alone.
THEOREM ProgramImplementsPcatSem == PcatSpec => Spec
<1>1. PcatInit => Init
  BY DEF PcatInit
<1>2. [PcatNext]_allVars => [Next]_vars
  BY DEF PcatNext, WriterStep, ReaderStep, PcatMain, PcatStop, allVars, Next
<1>3. QED
  BY <1>1, <1>2, PTL DEF PcatSpec, Spec

\* So in the whole program no sleeping child misses its wakeup.
COROLLARY ProgramLosesNoWakeup == PcatSpec => []NoLostWakeup
BY ProgramImplementsPcatSem, NoWakeupIsLost, PTL

\* And it moves the files through a bounded first-in first-out queue.
COROLLARY ProgramImplementsFileQueue ==
  ASSUME NeverExactlyFull
  PROVE  PcatSpec => QueueSpec
BY ProgramImplementsPcatSem, ImplementsFileQueue, PTL

\* And whatever the children, their forks and the clean-up do, the bytes on
\* standard output are in order.
COROLLARY ProgramOutputIsInOrder ==
  ASSUME NeverExactlyFull
  PROVE  PcatSpec => []OutputInOrder
BY ProgramImplementsPcatSem, OutputIsInOrder, PTL

-----------------------------------------------------------------------------
(* Acquiring and giving back.                                              *)

\* What the calls of init_shared_memory before the i-th have added, and what all
\* of them add.
HeldBefore(i) == UNION {Setup!Acquired[k] : k \in 1 .. i - 1}
All == HeldBefore(13)

\* What a list of releases still gives back.
Pending(s) == {s[i] : i \in 1 .. Len(s)}

\* A list of releases in a workable order: nothing twice, and the mapping of the
\* semaphores after every semaphore.
InWorkableOrder(s) ==
  /\ s \in Seq(All)
  /\ \A i, j \in 1 .. Len(s) : i # j => s[i] # s[j]
  /\ \A i \in 1 .. Len(s) : s[i] \in Setup!Sems => \E j \in i + 1 .. Len(s) : s[j] = "map_sems"

\* What the process holds in each phase of main.
HeldInv ==
  /\ phase \in {"init", "alloc", "open", "stat", "run", "rollback", "cleanup", "exited"}
  /\ phase \in {"init", "alloc"} => files = {}
  /\ phase = "init" => step \in 1 .. 12 /\ held = HeldBefore(step)
  /\ phase \in {"alloc", "open", "stat", "run"} => held = All
  /\ phase = "run" => files = 1 .. NFiles
  /\ phase \notin {"rollback", "cleanup"} => todo = <<>>
  /\ phase = "rollback" =>
       /\ status = "init_failed" /\ InWorkableOrder(todo)
       /\ Pending(todo) \cap Setup!Names = {} /\ held \ Setup!Names = Pending(todo)
  /\ phase = "cleanup" =>
       /\ status \in {"failed", "succeeded"} /\ files = {}
       /\ InWorkableOrder(todo) /\ held = Pending(todo)
  /\ phase = "exited" =>
       /\ status \in {"init_failed", "fstat_failed", "failed", "succeeded"}
       /\ status = "init_failed" => held \subseteq Setup!Names
       /\ status = "fstat_failed" => held = All
       /\ status \in {"failed", "succeeded"} => held = {} /\ files = {}

\* The children live only while main is in phase "run".
ChildrenInv ==
  /\ ppc = "reaped" => wpc \in {"unborn", "done"} /\ rpc \in {"unborn", "done"}
  /\ phase # "run" => ppc \in {"fork_writer", "reaped"}

SetupInv == HeldInv /\ ChildrenInv

\* One more call, what it adds.
LEMMA HeldAfter ==
  ASSUME NEW i \in 1 .. 12
  PROVE  HeldBefore(i + 1) = HeldBefore(i) \cup Setup!Acquired[i]
BY DEF HeldBefore

\* What init_shared_memory holds when its i-th call is made.
LEMMA HeldTable ==
  /\ HeldBefore(1) = {}
  /\ HeldBefore(2) = HeldBefore(1) \cup {"name_buf", "fd_buf"}
  /\ HeldBefore(3) = HeldBefore(2)
  /\ HeldBefore(4) = HeldBefore(3) \cup {"map_buf"}
  /\ HeldBefore(5) = HeldBefore(4) \cup {"name_stor", "fd_stor"}
  /\ HeldBefore(6) = HeldBefore(5)
  /\ HeldBefore(7) = HeldBefore(6) \cup {"map_stor"}
  /\ HeldBefore(8) = HeldBefore(7) \cup {"name_sems", "fd_sems"}
  /\ HeldBefore(9) = HeldBefore(8)
  /\ HeldBefore(10) = HeldBefore(9) \cup {"map_sems"}
  /\ HeldBefore(11) = HeldBefore(10) \cup {"full"}
  /\ HeldBefore(12) = HeldBefore(11) \cup {"empty"}
  /\ HeldBefore(13) = HeldBefore(12) \cup {"mutex"}
<1>1. HeldBefore(1) = {}
  BY DEF HeldBefore
<1>2. HeldBefore(1 + 1) = HeldBefore(1) \cup {"name_buf", "fd_buf"}
  BY HeldAfter DEF Setup!Acquired
<1>3. HeldBefore(2 + 1) = HeldBefore(2) \cup {}
  BY HeldAfter DEF Setup!Acquired
<1>4. HeldBefore(3 + 1) = HeldBefore(3) \cup {"map_buf"}
  BY HeldAfter DEF Setup!Acquired
<1>5. HeldBefore(4 + 1) = HeldBefore(4) \cup {"name_stor", "fd_stor"}
  BY HeldAfter DEF Setup!Acquired
<1>6. HeldBefore(5 + 1) = HeldBefore(5) \cup {}
  BY HeldAfter DEF Setup!Acquired
<1>7. HeldBefore(6 + 1) = HeldBefore(6) \cup {"map_stor"}
  BY HeldAfter DEF Setup!Acquired
<1>8. HeldBefore(7 + 1) = HeldBefore(7) \cup {"name_sems", "fd_sems"}
  BY HeldAfter DEF Setup!Acquired
<1>9. HeldBefore(8 + 1) = HeldBefore(8) \cup {}
  BY HeldAfter DEF Setup!Acquired
<1>10. HeldBefore(9 + 1) = HeldBefore(9) \cup {"map_sems"}
  BY HeldAfter DEF Setup!Acquired
<1>11. HeldBefore(10 + 1) = HeldBefore(10) \cup {"full"}
  BY HeldAfter DEF Setup!Acquired
<1>12. HeldBefore(11 + 1) = HeldBefore(11) \cup {"empty"}
  BY HeldAfter DEF Setup!Acquired
<1>13. HeldBefore(12 + 1) = HeldBefore(12) \cup {"mutex"}
  BY HeldAfter DEF Setup!Acquired
<1>14. QED
  BY <1>1, <1>2, <1>3, <1>4, <1>5, <1>6, <1>7, <1>8, <1>9, <1>10, <1>11, <1>12, <1>13

\* Everything init_shared_memory acquires.
LEMMA AllOfThem ==
  All = Setup!Names \cup Setup!Sems \cup {"fd_buf", "fd_stor", "fd_sems", "map_buf",
                                          "map_stor", "map_sems"}
BY HeldTable DEF All, Setup!Names, Setup!Sems

\* The lists of releases, in full.
LEMMA RollbackTable ==
  /\ Setup!Rollback[1] = <<>>
  /\ Setup!Rollback[2] = <<"fd_buf">>
  /\ Setup!Rollback[3] = <<"fd_buf">>
  /\ Setup!Rollback[4] = <<"map_buf", "fd_buf">>
  /\ Setup!Rollback[5] = <<"fd_stor", "map_buf", "fd_buf">>
  /\ Setup!Rollback[6] = <<"fd_stor", "map_buf", "fd_buf">>
  /\ Setup!Rollback[7] = <<"map_stor", "fd_stor", "map_buf", "fd_buf">>
  /\ Setup!Rollback[8] = <<"fd_sems", "map_stor", "fd_stor", "map_buf", "fd_buf">>
  /\ Setup!Rollback[9] = <<"fd_sems", "map_stor", "fd_stor", "map_buf", "fd_buf">>
  /\ Setup!Rollback[10] = <<"map_sems", "fd_sems", "map_stor", "fd_stor", "map_buf", "fd_buf">>
  /\ Setup!Rollback[11] = <<"full", "map_sems", "fd_sems", "map_stor", "fd_stor", "map_buf", "fd_buf">>
  /\ Setup!Rollback[12] = <<"full", "empty", "map_sems", "fd_sems", "map_stor", "fd_stor", "map_buf", "fd_buf">>
<1> USE AllOfThem DEF Setup!Names, Setup!Sems
<1>1. <<"map_stor", "fd_stor">> \o <<"map_buf", "fd_buf">>
      = <<"map_stor", "fd_stor", "map_buf", "fd_buf">>
  <2> DEFINE s == <<"map_stor", "fd_stor">>
             t == <<"map_buf", "fd_buf">>
             u == <<"map_stor", "fd_stor", "map_buf", "fd_buf">>
  <2>1. s \in Seq(All) /\ t \in Seq(All) /\ u \in Seq(All)
    OBVIOUS
  <2>2. Len(s) = 2 /\ Len(t) = 2 /\ Len(u) = 4
    OBVIOUS
  <2>3. Len(s \o t) = 4 /\ s \o t \in Seq(All)
    BY <2>1, <2>2
  <2>4. \A i \in 1 .. 4 : (s \o t)[i] = u[i]
    BY <2>1, <2>2
  <2>5. QED
    BY <2>1, <2>2, <2>3, <2>4, SeqEqual
<1>2. <<"map_sems", "fd_sems">> \o <<"map_stor", "fd_stor", "map_buf", "fd_buf">>
      = <<"map_sems", "fd_sems", "map_stor", "fd_stor", "map_buf", "fd_buf">>
  <2> DEFINE s == <<"map_sems", "fd_sems">>
             t == <<"map_stor", "fd_stor", "map_buf", "fd_buf">>
             u == <<"map_sems", "fd_sems", "map_stor", "fd_stor", "map_buf", "fd_buf">>
  <2>1. s \in Seq(All) /\ t \in Seq(All) /\ u \in Seq(All)
    OBVIOUS
  <2>2. Len(s) = 2 /\ Len(t) = 4 /\ Len(u) = 6
    OBVIOUS
  <2>3. Len(s \o t) = 6 /\ s \o t \in Seq(All)
    BY <2>1, <2>2
  <2>4. \A i \in 1 .. 6 : (s \o t)[i] = u[i]
    BY <2>1, <2>2
  <2>5. QED
    BY <2>1, <2>2, <2>3, <2>4, SeqEqual
<1>3. <<"fd_stor">> \o <<"map_buf", "fd_buf">>
      = <<"fd_stor", "map_buf", "fd_buf">>
  <2> DEFINE s == <<"fd_stor">>
             t == <<"map_buf", "fd_buf">>
             u == <<"fd_stor", "map_buf", "fd_buf">>
  <2>1. s \in Seq(All) /\ t \in Seq(All) /\ u \in Seq(All)
    OBVIOUS
  <2>2. Len(s) = 1 /\ Len(t) = 2 /\ Len(u) = 3
    OBVIOUS
  <2>3. Len(s \o t) = 3 /\ s \o t \in Seq(All)
    BY <2>1, <2>2
  <2>4. \A i \in 1 .. 3 : (s \o t)[i] = u[i]
    BY <2>1, <2>2
  <2>5. QED
    BY <2>1, <2>2, <2>3, <2>4, SeqEqual
<1>4. <<"fd_sems">> \o <<"map_stor", "fd_stor", "map_buf", "fd_buf">>
      = <<"fd_sems", "map_stor", "fd_stor", "map_buf", "fd_buf">>
  <2> DEFINE s == <<"fd_sems">>
             t == <<"map_stor", "fd_stor", "map_buf", "fd_buf">>
             u == <<"fd_sems", "map_stor", "fd_stor", "map_buf", "fd_buf">>
  <2>1. s \in Seq(All) /\ t \in Seq(All) /\ u \in Seq(All)
    OBVIOUS
  <2>2. Len(s) = 1 /\ Len(t) = 4 /\ Len(u) = 5
    OBVIOUS
  <2>3. Len(s \o t) = 5 /\ s \o t \in Seq(All)
    BY <2>1, <2>2
  <2>4. \A i \in 1 .. 5 : (s \o t)[i] = u[i]
    BY <2>1, <2>2
  <2>5. QED
    BY <2>1, <2>2, <2>3, <2>4, SeqEqual
<1>5. <<"full">> \o <<"map_sems", "fd_sems", "map_stor", "fd_stor", "map_buf", "fd_buf">>
      = <<"full", "map_sems", "fd_sems", "map_stor", "fd_stor", "map_buf", "fd_buf">>
  <2> DEFINE s == <<"full">>
             t == <<"map_sems", "fd_sems", "map_stor", "fd_stor", "map_buf", "fd_buf">>
             u == <<"full", "map_sems", "fd_sems", "map_stor", "fd_stor", "map_buf", "fd_buf">>
  <2>1. s \in Seq(All) /\ t \in Seq(All) /\ u \in Seq(All)
    OBVIOUS
  <2>2. Len(s) = 1 /\ Len(t) = 6 /\ Len(u) = 7
    OBVIOUS
  <2>3. Len(s \o t) = 7 /\ s \o t \in Seq(All)
    BY <2>1, <2>2
  <2>4. \A i \in 1 .. 7 : (s \o t)[i] = u[i]
    BY <2>1, <2>2
  <2>5. QED
    BY <2>1, <2>2, <2>3, <2>4, SeqEqual
<1>6. <<"full", "empty">> \o <<"map_sems", "fd_sems", "map_stor", "fd_stor", "map_buf", "fd_buf">>
      = <<"full", "empty", "map_sems", "fd_sems", "map_stor", "fd_stor", "map_buf", "fd_buf">>
  <2> DEFINE s == <<"full", "empty">>
             t == <<"map_sems", "fd_sems", "map_stor", "fd_stor", "map_buf", "fd_buf">>
             u == <<"full", "empty", "map_sems", "fd_sems", "map_stor", "fd_stor", "map_buf", "fd_buf">>
  <2>1. s \in Seq(All) /\ t \in Seq(All) /\ u \in Seq(All)
    OBVIOUS
  <2>2. Len(s) = 2 /\ Len(t) = 6 /\ Len(u) = 8
    OBVIOUS
  <2>3. Len(s \o t) = 8 /\ s \o t \in Seq(All)
    BY <2>1, <2>2
  <2>4. \A i \in 1 .. 8 : (s \o t)[i] = u[i]
    BY <2>1, <2>2
  <2>5. QED
    BY <2>1, <2>2, <2>3, <2>4, SeqEqual
<1>7. QED
  BY <1>1, <1>2, <1>3, <1>4, <1>5, <1>6 DEF Setup!Rollback, Setup!BufOnly, Setup!StorAndBuf,
     Setup!Everything

\* Each error branch of init_shared_memory gives back, in a workable order, all
\* that the calls before have acquired, apart from the names.
LEMMA RollbackIsRight ==
  ASSUME NEW i \in 1 .. 12
  PROVE  /\ InWorkableOrder(Setup!Rollback[i])
         /\ Pending(Setup!Rollback[i]) \cap Setup!Names = {}
         /\ HeldBefore(i) \ Setup!Names = Pending(Setup!Rollback[i])
<1> DEFINE Right(s, h) == /\ InWorkableOrder(s) /\ Pending(s) \cap Setup!Names = {}
                          /\ h \ Setup!Names = Pending(s)
<1> USE AllOfThem DEF InWorkableOrder, Pending, Setup!Names, Setup!Sems
<1>1. Right(<<>>,
             {})
  OBVIOUS
<1>2. Right(<<"fd_buf">>,
             {"name_buf", "fd_buf"})
  OBVIOUS
<1>3. Right(<<"fd_buf">>,
             {"name_buf", "fd_buf"})
  OBVIOUS
<1>4. Right(<<"map_buf", "fd_buf">>,
             {"name_buf", "fd_buf", "map_buf"})
  OBVIOUS
<1>5. Right(<<"fd_stor", "map_buf", "fd_buf">>,
             {"name_buf", "fd_buf", "map_buf", "name_stor", "fd_stor"})
  OBVIOUS
<1>6. Right(<<"fd_stor", "map_buf", "fd_buf">>,
             {"name_buf", "fd_buf", "map_buf", "name_stor", "fd_stor"})
  OBVIOUS
<1>7. Right(<<"map_stor", "fd_stor", "map_buf", "fd_buf">>,
             {"name_buf", "fd_buf", "map_buf", "name_stor", "fd_stor", "map_stor"})
  OBVIOUS
<1>8. Right(<<"fd_sems", "map_stor", "fd_stor", "map_buf", "fd_buf">>,
             {"name_buf", "fd_buf", "map_buf", "name_stor", "fd_stor", "map_stor",
              "name_sems", "fd_sems"})
  OBVIOUS
<1>9. Right(<<"fd_sems", "map_stor", "fd_stor", "map_buf", "fd_buf">>,
             {"name_buf", "fd_buf", "map_buf", "name_stor", "fd_stor", "map_stor",
              "name_sems", "fd_sems"})
  OBVIOUS
<1>10. Right(<<"map_sems", "fd_sems", "map_stor", "fd_stor", "map_buf", "fd_buf">>,
             {"name_buf", "fd_buf", "map_buf", "name_stor", "fd_stor", "map_stor",
              "name_sems", "fd_sems", "map_sems"})
  OBVIOUS
<1>11. Right(<<"full", "map_sems", "fd_sems", "map_stor", "fd_stor", "map_buf", "fd_buf">>,
             {"name_buf", "fd_buf", "map_buf", "name_stor", "fd_stor", "map_stor",
              "name_sems", "fd_sems", "map_sems", "full"})
  OBVIOUS
<1>12. Right(<<"full", "empty", "map_sems", "fd_sems", "map_stor", "fd_stor", "map_buf", "fd_buf">>,
             {"name_buf", "fd_buf", "map_buf", "name_stor", "fd_stor", "map_stor",
              "name_sems", "fd_sems", "map_sems", "full", "empty"})
  OBVIOUS
<1> HIDE DEF Right
<1>13. i = 1 => Right(Setup!Rollback[i], HeldBefore(i))
  <2>1. HeldBefore(1) = {}
    BY HeldTable
  <2>2. QED
    BY <1>1, <2>1, RollbackTable
<1>14. i = 2 => Right(Setup!Rollback[i], HeldBefore(i))
  <2>1. HeldBefore(2) = {"name_buf", "fd_buf"}
    BY HeldTable
  <2>2. QED
    BY <1>2, <2>1, RollbackTable
<1>15. i = 3 => Right(Setup!Rollback[i], HeldBefore(i))
  <2>1. HeldBefore(3) = {"name_buf", "fd_buf"}
    BY HeldTable
  <2>2. QED
    BY <1>3, <2>1, RollbackTable
<1>16. i = 4 => Right(Setup!Rollback[i], HeldBefore(i))
  <2>1. HeldBefore(4) = {"name_buf", "fd_buf", "map_buf"}
    BY HeldTable
  <2>2. QED
    BY <1>4, <2>1, RollbackTable
<1>17. i = 5 => Right(Setup!Rollback[i], HeldBefore(i))
  <2>1. HeldBefore(5) = {"name_buf", "fd_buf", "map_buf", "name_stor", "fd_stor"}
    BY HeldTable
  <2>2. QED
    BY <1>5, <2>1, RollbackTable
<1>18. i = 6 => Right(Setup!Rollback[i], HeldBefore(i))
  <2>1. HeldBefore(6) = {"name_buf", "fd_buf", "map_buf", "name_stor", "fd_stor"}
    BY HeldTable
  <2>2. QED
    BY <1>6, <2>1, RollbackTable
<1>19. i = 7 => Right(Setup!Rollback[i], HeldBefore(i))
  <2>1. HeldBefore(7) = {"name_buf", "fd_buf", "map_buf", "name_stor", "fd_stor", "map_stor"}
    BY HeldTable
  <2>2. QED
    BY <1>7, <2>1, RollbackTable
<1>20. i = 8 => Right(Setup!Rollback[i], HeldBefore(i))
  <2>1. HeldBefore(8) = {"name_buf", "fd_buf", "map_buf", "name_stor", "fd_stor", "map_stor",
                         "name_sems", "fd_sems"}
    BY HeldTable
  <2>2. QED
    BY <1>8, <2>1, RollbackTable
<1>21. i = 9 => Right(Setup!Rollback[i], HeldBefore(i))
  <2>1. HeldBefore(9) = {"name_buf", "fd_buf", "map_buf", "name_stor", "fd_stor", "map_stor",
                         "name_sems", "fd_sems"}
    BY HeldTable
  <2>2. QED
    BY <1>9, <2>1, RollbackTable
<1>22. i = 10 => Right(Setup!Rollback[i], HeldBefore(i))
  <2>1. HeldBefore(10) = {"name_buf", "fd_buf", "map_buf", "name_stor", "fd_stor",
                          "map_stor", "name_sems", "fd_sems", "map_sems"}
    BY HeldTable
  <2>2. QED
    BY <1>10, <2>1, RollbackTable
<1>23. i = 11 => Right(Setup!Rollback[i], HeldBefore(i))
  <2>1. HeldBefore(11) = {"name_buf", "fd_buf", "map_buf", "name_stor", "fd_stor",
                          "map_stor", "name_sems", "fd_sems", "map_sems", "full"}
    BY HeldTable
  <2>2. QED
    BY <1>11, <2>1, RollbackTable
<1>24. i = 12 => Right(Setup!Rollback[i], HeldBefore(i))
  <2>1. HeldBefore(12) = {"name_buf", "fd_buf", "map_buf", "name_stor", "fd_stor",
                          "map_stor", "name_sems", "fd_sems", "map_sems", "full", "empty"}
    BY HeldTable
  <2>2. QED
    BY <1>12, <2>1, RollbackTable
<1>25. Right(Setup!Rollback[i], HeldBefore(i))
  BY <1>13, <1>14, <1>15, <1>16, <1>17, <1>18, <1>19, <1>20, <1>21, <1>22, <1>23, <1>24
<1>26. QED
  BY <1>25 DEF Right

\* cleanup_shared_memory gives back everything, in a workable order.
LEMMA CleanupIsRight ==
  InWorkableOrder(Setup!CleanupOrder) /\ Pending(Setup!CleanupOrder) = All
<1> USE AllOfThem DEF Setup!CleanupOrder, Setup!Names, Setup!Sems
<1>1. Setup!CleanupOrder \in Seq(All) /\ Len(Setup!CleanupOrder) = 12
  OBVIOUS
<1>2. InWorkableOrder(Setup!CleanupOrder)
  BY <1>1 DEF InWorkableOrder
<1>3. Pending(Setup!CleanupOrder) = All
  BY <1>1 DEF Pending
<1>4. QED
  BY <1>2, <1>3

\* One release off a list in a workable order leaves such a list, which no longer
\* holds what was released; and while a semaphore is on the list, so is the
\* mapping it lives in.
LEMMA OneRelease ==
  ASSUME NEW s, InWorkableOrder(s)
  PROVE  /\ s # <<>> => /\ InWorkableOrder(Tail(s)) /\ Head(s) \in Pending(s)
                        /\ Pending(Tail(s)) = Pending(s) \ {Head(s)}
         /\ s = <<>> => Pending(s) = {}
         /\ Pending(s) \cap Setup!Sems # {} => "map_sems" \in Pending(s)
<1>1. s \in Seq(All) /\ Len(s) \in Nat
  BY DEF InWorkableOrder
<1>2. ASSUME s # <<>>
      PROVE  /\ InWorkableOrder(Tail(s)) /\ Head(s) \in Pending(s)
             /\ Pending(Tail(s)) = Pending(s) \ {Head(s)}
  <2>1. /\ Len(s) \in Nat \ {0} /\ Tail(s) \in Seq(All) /\ Len(Tail(s)) = Len(s) - 1
        /\ Head(s) = s[1]
        /\ \A i \in 1 .. Len(s) - 1 : Tail(s)[i] = s[i + 1] /\ i + 1 \in 1 .. Len(s)
    BY <1>1, <1>2
  <2>2. InWorkableOrder(Tail(s))
    <3>1. ASSUME NEW i \in 1 .. Len(s) - 1, NEW j \in 1 .. Len(s) - 1, i # j
          PROVE  Tail(s)[i] # Tail(s)[j]
      <4>1. i + 1 # j + 1 /\ i + 1 \in 1 .. Len(s) /\ j + 1 \in 1 .. Len(s)
        BY <2>1, <3>1
      <4>2. QED
        BY <2>1, <4>1 DEF InWorkableOrder
    <3>2. ASSUME NEW i \in 1 .. Len(s) - 1, Tail(s)[i] \in Setup!Sems
          PROVE  \E j \in i + 1 .. Len(s) - 1 : Tail(s)[j] = "map_sems"
      <4>1. PICK j \in i + 1 + 1 .. Len(s) : s[j] = "map_sems"
        BY <2>1, <3>2 DEF InWorkableOrder
      <4>2. j - 1 \in i + 1 .. Len(s) - 1 /\ j - 1 \in 1 .. Len(s) - 1 /\ (j - 1) + 1 = j
        BY <2>1
      <4>3. QED
        BY <2>1, <4>1, <4>2
    <3>3. QED
      BY <2>1, <3>1, <3>2 DEF InWorkableOrder
  <2>3. ASSUME NEW x \in Pending(Tail(s)) PROVE x \in Pending(s) \ {Head(s)}
    <3>1. PICK i \in 1 .. Len(s) - 1 : x = Tail(s)[i]
      BY <2>1 DEF Pending
    <3>2. i + 1 \in 1 .. Len(s) /\ 1 \in 1 .. Len(s) /\ i + 1 # 1
      BY <2>1
    <3>3. QED
      BY <2>1, <3>1, <3>2 DEF Pending, InWorkableOrder
  <2>4. ASSUME NEW x \in Pending(s) \ {Head(s)} PROVE x \in Pending(Tail(s))
    <3>1. PICK i \in 1 .. Len(s) : x = s[i] /\ i # 1
      BY <2>1 DEF Pending
    <3>2. i - 1 \in 1 .. Len(s) - 1 /\ (i - 1) + 1 = i
      BY <2>1, <3>1
    <3>3. QED
      BY <2>1, <3>1, <3>2 DEF Pending
  <2>5. Head(s) \in Pending(s)
    BY <2>1 DEF Pending
  <2>6. Pending(Tail(s)) = Pending(s) \ {Head(s)}
    BY <2>3, <2>4
  <2>7. QED
    BY <2>2, <2>5, <2>6
<1>3. s = <<>> => Pending(s) = {}
  BY DEF Pending
<1>4. ASSUME NEW x \in Pending(s) \cap Setup!Sems PROVE "map_sems" \in Pending(s)
  <2>1. PICK i \in 1 .. Len(s) : x = s[i]
    BY DEF Pending
  <2>2. PICK j \in i + 1 .. Len(s) : s[j] = "map_sems"
    BY <2>1, <1>4 DEF InWorkableOrder
  <2>3. j \in 1 .. Len(s)
    BY <1>1
  <2>4. QED
    BY <2>2, <2>3 DEF Pending
<1>5. QED
  BY <1>2, <1>3, <1>4

\* The set-up step by step; main is in phase "run" only with everything there.
LEMMA SetupStep ==
  ASSUME HeldInv, Setup!Next
  PROVE  HeldInv'
<1>1. CASE Setup!InitCall
  <2>1. /\ phase = "init" /\ step \in 1 .. 12 /\ held = HeldBefore(step)
        /\ held' = held \cup Setup!Acquired[step] /\ step' = step + 1
        /\ phase' = IF step = 12 THEN "alloc" ELSE "init"
        /\ files = {} /\ files' = files /\ todo = <<>> /\ todo' = todo
    BY <1>1 DEF HeldInv, Setup!InitCall, Setup!Acquired
  <2>2. held' = HeldBefore(step + 1)
    BY <2>1, HeldAfter
  <2>3. step = 12 => held' = All
    BY <2>2 DEF All
  <2>4. step # 12 => step' \in 1 .. 12 /\ held' = HeldBefore(step')
    BY <2>1, <2>2
  <2>5. QED
    BY <2>1, <2>3, <2>4 DEF HeldInv
<1>2. CASE Setup!InitCallFails
  BY <1>2, RollbackIsRight DEF HeldInv, Setup!InitCallFails
<1>3. CASE Setup!Release
  <2>1. InWorkableOrder(todo) /\ phase \in {"rollback", "cleanup"} /\ UNCHANGED <<step, files, status>>
    BY <1>3 DEF HeldInv, Setup!Release
  <2>2. CASE todo = <<>>
    <3>1. Pending(todo) = {} /\ phase' = "exited" /\ UNCHANGED <<held, todo>>
      BY <1>3, <2>1, <2>2, OneRelease DEF Setup!Release
    <3>2. QED
      BY <2>1, <2>2, <3>1 DEF HeldInv
  <2>3. CASE todo # <<>>
    <3>1. /\ phase' = phase /\ todo' = Tail(todo) /\ held' = held \ {Head(todo)}
          /\ InWorkableOrder(todo') /\ Head(todo) \in Pending(todo)
          /\ Pending(todo') = Pending(todo) \ {Head(todo)}
      BY <1>3, <2>1, <2>3, OneRelease DEF Setup!Release
    <3>2. QED
      BY <2>1, <3>1 DEF HeldInv
  <2>4. QED
    BY <2>2, <2>3
<1>4. CASE Setup!AllocArrays
  BY <1>4, CleanupIsRight DEF HeldInv, Setup!AllocArrays, Setup!cleanup_shared_memory
<1>5. CASE Setup!OpenFile
  BY <1>5, CleanupIsRight DEF HeldInv, Setup!OpenFile, Setup!cleanup_shared_memory
<1>6. CASE Setup!StatFile
  BY <1>6 DEF HeldInv, Setup!StatFile
<1>7. CASE Setup!Finish
  BY <1>7, CleanupIsRight DEF HeldInv, Setup!Finish, Setup!cleanup_shared_memory
<1>8. QED
  BY <1>1, <1>2, <1>3, <1>4, <1>5, <1>6, <1>7 DEF Setup!Next

\* main starts with nothing.
LEMMA InitSetupInv == PcatInit => SetupInv
<1> SUFFICES ASSUME PcatInit PROVE SetupInv
  OBVIOUS
<1>1. HeldInv
  BY HeldTable DEF PcatInit, Setup!Init, HeldInv
<1>2. ChildrenInv
  BY DEF PcatInit, Init, ChildrenInv
<1>3. QED
  BY <1>1, <1>2 DEF SetupInv

\* Every step keeps what main holds in agreement with where it is, and the
\* children within the phase in which everything is there.
LEMMA NextSetupInv == TInv /\ SetupInv /\ [PcatNext]_allVars => SetupInv'
<1> SUFFICES ASSUME TInv, SetupInv, [PcatNext]_allVars PROVE SetupInv'
  OBVIOUS
<1> USE DEF SetupInv
<1>1. CASE UNCHANGED allVars
  BY <1>1 DEF allVars, vars, setup, main, HeldInv, ChildrenInv
<1>2. CASE WriterStep
  <2>1. UNCHANGED <<setup, rpc, main>> /\ phase = "run" /\ (wpc \in {"unborn", "done"} => FALSE)
    BY <1>2 DEF WriterStep, Writer, WriterGetLock, WriterCheck, WriterPark, WriterWaitFull,
                WriterGetUnlock, WriterRead, WriterPutLock, WriterMark, WriterPost, WriterPutUnlock
  <2>2. QED
    BY <2>1 DEF setup, main, HeldInv, ChildrenInv
<1>3. CASE ReaderStep
  <2>1. UNCHANGED <<setup, wpc, main>> /\ phase = "run" /\ (rpc \in {"unborn", "done"} => FALSE)
    BY <1>3 DEF ReaderStep, Reader, ReaderGetLock, ReaderCheck, ReaderPark, ReaderWaitEmpty,
                ReaderGetUnlock, ReaderWrite, ReaderPutLock, ReaderMark, ReaderPost, ReaderPutUnlock
  <2>2. QED
    BY <2>1 DEF setup, main, HeldInv, ChildrenInv
<1>4. CASE phase = "run" /\ Parent /\ UNCHANGED setup
  BY <1>4 DEF Parent, ForkWriter, ForkReader, Reap, setup, HeldInv, ChildrenInv
<1>5. CASE (phase = "run" => ppc = "reaped") /\ Setup!Next /\ UNCHANGED vars
  <2>1. HeldInv'
    BY <1>5, SetupStep
  <2>2. ChildrenInv'
    BY <1>5 DEF vars, main, ChildrenInv
  <2>3. QED
    BY <2>1, <2>2
<1>6. QED
  BY <1>1, <1>2, <1>3, <1>4, <1>5 DEF PcatNext, PcatMain, PcatStop

\* So it is on every run.
LEMMA SetupAlways == PcatSpec => [](TInv /\ SetupInv)
<1>1. PcatSpec => []TInv
  BY ProgramImplementsPcatSem, InitTInv, NextTInv, PTL DEF Spec
<1>2. QED
  BY <1>1, InitSetupInv, NextSetupInv, PTL DEF PcatSpec

\* Whichever call fails, in init_shared_memory, in main or in a fork(): on every
\* rollback and in the clean-up nothing is given back that is not held, no
\* semaphore outlives the mapping it lives in, and as long as a child runs all it
\* uses is there.
THEOREM EverythingReleasedInOrder == PcatSpec => []ReleasedInOrder
<1>1. ASSUME TInv, SetupInv PROVE ReleasedInOrder
  <2> USE <1>1 DEF SetupInv, HeldInv
  <2>1. ASSUME todo # <<>> PROVE Head(todo) \in held
    <3>1. CASE phase = "rollback"
      BY <2>1, <3>1, OneRelease
    <3>2. CASE phase = "cleanup"
      BY <2>1, <3>2, OneRelease
    <3>3. QED
      BY <2>1, <3>1, <3>2
  <2>2. ASSUME held \cap Setup!Sems # {} PROVE "map_sems" \in held
    <3>1. Setup!Sems \cap Setup!Names = {}
      BY DEF Setup!Sems, Setup!Names
    <3>2. CASE phase = "init"
      BY <2>2, <3>1, <3>2, RollbackIsRight, OneRelease
    <3>3. CASE phase \in {"rollback", "cleanup"}
      BY <2>2, <3>1, <3>3, OneRelease
    <3>4. CASE held = All
      BY <3>4, AllOfThem
    <3>5. QED
      BY <2>2, <3>1, <3>2, <3>3, <3>4
  <2>3. ASSUME wpc \notin {"unborn", "done"} \/ rpc \notin {"unborn", "done"}
        PROVE  /\ Setup!Sems \cup {"map_buf", "map_stor", "map_sems"} \subseteq held
               /\ files = 1 .. NFiles
    <3>1. phase = "run"
      BY <2>3 DEF ChildrenInv, TInv, ProgressInv
    <3>2. QED
      BY <3>1, AllOfThem
  <2>4. QED
    BY <2>1, <2>2, <2>3 DEF ReleasedInOrder
<1>2. QED
  BY <1>1, SetupAlways, PTL

\* However main ends, cleanup_shared_memory has given back everything, and the
\* failed init_shared_memory everything but the names.
THEOREM ProgramLeaksNothing == PcatSpec => []NothingLeaks
<1>1. SetupInv => NothingLeaks
  BY DEF SetupInv, HeldInv, NothingLeaks
<1>2. QED
  BY <1>1, SetupAlways, PTL
=============================================================================
