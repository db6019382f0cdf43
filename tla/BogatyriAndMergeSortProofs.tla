--------------------- MODULE BogatyriAndMergeSortProofs ---------------------
(***************************************************************************)
(* Proofs about the two programs whose main creates N threads and joins    *)
(* them: BogatyriMonitor, for any number of threads and all songs, and     *)
(* MergeSort, for any array.                                               *)
(***************************************************************************)
EXTENDS BogatyriMonitor, MergeSort, FiniteSetTheorems, SequenceTheorems,
        WellFoundedInduction, TLAPS

-----------------------------------------------------------------------------
(* The inductive invariant.                                                *)

Numbered == {t \in Threads : number[t] # NoNumber}
Failed   == mpc \in {"join_failed", "failed"}

\* The numbers given out so far are distinct, and last_assigned counts the
\* threads that have one: those that were created and are past the counter.
NumberInv ==
  /\ Cardinality(Numbered) = last_assigned + 1
  /\ \A t \in Threads : number[t] <= last_assigned
  /\ \A t, u \in Numbered : number[t] = number[u] => t = u
  /\ \A t \in Threads : tpc[t] \in {"unborn", "acquire"} <=> number[t] = NoNumber
  /\ \A t \in Threads : tpc[t] = "unborn" <=> t > created
  /\ mpc = "create" => created < N
  /\ mpc \in {"join", "finished"} => created = N

\* thread_count counts the same until main gives up and sets it to N; from then
\* on it is never N again when a thread has counted itself, and nobody reads.
CountInv ==
  /\ ~Failed => thread_count = last_assigned + 1
  /\ Failed => /\ thread_count >= N /\ thread_count <= N + last_assigned + 1
               /\ str_next_ind = 0
  /\ str_next_ind > 0 => \A t \in Threads : number[t] # NoNumber
  /\ ~Failed /\ thread_count = N => str_next_ind > 0

\* What has been said is the song up to the letter that is next.
SaidInv ==
  /\ str_next_ind = 0 => said = <<>> /\ current_char = Terminal
  /\ str_next_ind > 0 =>
       /\ str_next_ind = Len(said) + 1
       /\ current_char = IF Len(said) < Len(song) THEN song[Len(said) + 1] ELSE Terminal
  /\ Len(said) <= Len(song)
  /\ \A n \in 1 .. Len(said) : said[n] = song[n]

\* Nobody is past the barrier before it is open, nor out of the loop before the
\* song is over; main has waited for everybody it created.
LoopInv ==
  /\ \A t \in Threads : tpc[t] \in {"loop", "asleep", "done"} => thread_count >= N
  /\ \A t \in Threads : tpc[t] = "done" => current_char = Terminal
  /\ mpc \in {"finished", "failed"} => \A t \in 1 .. created : tpc[t] = "done"

IInv == TypeOK /\ NumberInv /\ CountInv /\ SaidInv /\ LoopInv /\ NoLostWakeup

ThreadPC == {"unborn", "acquire", "barrier", "barrier_asleep", "loop", "asleep", "done"}

\* What a broadcast does to the threads.
LEMMA WokenIs ==
  ASSUME TypeOK, NEW u \in Threads
  PROVE  woken(tpc[u]) = IF tpc[u] = "barrier_asleep" THEN "barrier"
                         ELSE IF tpc[u] = "asleep" THEN "loop" ELSE tpc[u]
<1>1. CASE tpc[u] = "barrier_asleep"
  BY <1>1 DEF woken
<1>2. CASE tpc[u] = "asleep"
  BY <1>2 DEF woken
<1>3. CASE tpc[u] \notin {"barrier_asleep", "asleep"}
  BY <1>3 DEF woken
<1>4. QED
  BY <1>1, <1>2, <1>3

\* Nobody is left asleep by it, and who was not asleep does not move.
LEMMA BroadcastIs ==
  ASSUME TypeOK, NEW t \in Threads, NEW p \in ThreadPC, Broadcast(t, p)
  PROVE  /\ tpc' \in [Threads -> ThreadPC] /\ tpc'[t] = p
         /\ \A u \in Threads : u # t =>
              tpc'[u] = IF tpc[u] = "barrier_asleep" THEN "barrier"
                        ELSE IF tpc[u] = "asleep" THEN "loop" ELSE tpc[u]
<1>1. tpc' = [u \in Threads |-> IF u = t THEN p ELSE woken(tpc[u])]
  BY DEF Broadcast
<1>2. \A u \in Threads : woken(tpc[u]) = IF tpc[u] = "barrier_asleep" THEN "barrier"
                         ELSE IF tpc[u] = "asleep" THEN "loop" ELSE tpc[u]
  BY WokenIs
<1>3. tpc \in [Threads -> ThreadPC]
  BY DEF TypeOK, ThreadPC
<1>4. QED
  BY <1>1, <1>2, <1>3 DEF ThreadPC

\* The threads with a number are finitely many, at most N, and N only if all
\* of them have one.
LEMMA NumberedBound ==
  ASSUME NEW S \in SUBSET Threads
  PROVE  /\ IsFiniteSet(S) /\ Cardinality(S) \in 0 .. N
         /\ Cardinality(S) = N => S = Threads
<1>1. IsFiniteSet(Threads) /\ Cardinality(Threads) = N
  BY FS_Interval, ThreadsAssumption DEF Threads
<1>2. QED
  BY <1>1, FS_Subset, FS_CardinalityType, ThreadsAssumption

\* One more thread has a number when acquire_thread_number returns.
LEMMA AcquireCounts ==
  ASSUME TypeOK, NumberInv, NEW t \in Threads, acquire_thread_number(t)
  PROVE  /\ Numbered' = Numbered \cup {t} /\ t \notin Numbered
         /\ Cardinality(Numbered') = last_assigned' + 1
         /\ last_assigned' = last_assigned + 1
         /\ last_assigned' \in 0 .. N - 1
         /\ last_assigned' = N - 1 => Numbered' = Threads
<1>1. /\ tpc[t] = "acquire" /\ number[t] = NoNumber
      /\ last_assigned' = last_assigned + 1
      /\ number' = [number EXCEPT ![t] = last_assigned']
  BY DEF acquire_thread_number, NumberInv
<1>2. last_assigned \in Int /\ last_assigned >= -1 /\ number \in [Threads -> Int]
  BY ThreadsAssumption DEF TypeOK, NoNumber
<1>3. Numbered' = Numbered \cup {t} /\ t \notin Numbered
  BY <1>1, <1>2 DEF Numbered, NoNumber
<1>4. IsFiniteSet(Numbered)
  BY NumberedBound DEF Numbered
<1>5. Cardinality(Numbered') = last_assigned' + 1
  <2>1. Cardinality(Numbered \cup {t}) = Cardinality(Numbered) + 1
    BY <1>3, <1>4, FS_AddElement
  <2>2. QED
    BY <1>1, <1>3, <2>1 DEF NumberInv
<1>6. /\ Cardinality(Numbered') \in 0 .. N
      /\ Cardinality(Numbered') = N => Numbered' = Threads
  <2>1. Numbered' \in SUBSET Threads
    BY <1>3 DEF Numbered
  <2>2. QED
    BY <2>1, NumberedBound
<1>7. QED
  BY <1>1, <1>2, <1>3, <1>5, <1>6, ThreadsAssumption

\* The state main starts from satisfies the invariant.
LEMMA InitIInv == Init => IInv
<1> SUFFICES ASSUME Init PROVE IInv
  OBVIOUS
<1> USE ThreadsAssumption DEF Init, NoNumber, Terminal, Threads
<1>1. song \in Seq(Nat \ {0}) /\ Len(song) \in Nat
  BY SongsAssumption
<1>2. TypeOK
  BY <1>1 DEF TypeOK
<1>3. NumberInv
  <2>1. Numbered = {}
    BY DEF Numbered
  <2>2. QED
    BY <2>1, FS_EmptySet DEF NumberInv
<1>4. CountInv
  BY DEF CountInv, Failed
<1>5. SaidInv
  BY <1>1 DEF SaidInv
<1>6. LoopInv /\ NoLostWakeup
  BY DEF LoopInv, NoLostWakeup
<1>7. QED
  BY <1>2, <1>3, <1>4, <1>5, <1>6 DEF IInv

-----------------------------------------------------------------------------
(* The threads.                                                            *)

\* A thread takes a number; the last one opens the barrier and wakes everybody.
LEMMA AcquireKeeps ==
  ASSUME IInv, NEW t \in Threads, acquire_thread_number(t)
  PROVE  IInv'
<1> USE ThreadsAssumption DEF IInv, NoNumber, Terminal
<1>1. /\ Numbered' = Numbered \cup {t} /\ t \notin Numbered
      /\ Cardinality(Numbered') = last_assigned' + 1
      /\ last_assigned' = last_assigned + 1
      /\ last_assigned' \in 0 .. N - 1
      /\ last_assigned' = N - 1 => Numbered' = Threads
  BY AcquireCounts
<1>2. /\ tpc[t] = "acquire" /\ number[t] = NoNumber
      /\ thread_count' = thread_count + 1
      /\ number' = [number EXCEPT ![t] = last_assigned']
      /\ UNCHANGED <<song, created, mpc, said>>
  BY DEF acquire_thread_number, NumberInv
<1>3. str_next_ind = 0 /\ said = <<>> /\ current_char = Terminal
  BY <1>2 DEF CountInv, SaidInv, TypeOK
<1>4. song \in Seq(Nat \ {0}) /\ Len(song) \in Nat
  BY SongsAssumption DEF TypeOK
<1>5. CASE thread_count' = N
  <2>1. ~Failed /\ last_assigned' = N - 1
    BY <1>2, <1>5, <1>1 DEF CountInv, TypeOK
  <2>2. /\ Broadcast(t, "barrier")
        /\ str_next_ind' = 1
        /\ current_char' = IF 0 < Len(song) THEN song[1] ELSE Terminal
    BY <1>3, <1>4, <1>5 DEF acquire_thread_number, read_next_char
  <2>woken. /\ tpc' \in [Threads -> ThreadPC] /\ tpc'[t] = "barrier"
        /\ \A u \in Threads : u # t =>
             tpc'[u] = IF tpc[u] = "barrier_asleep" THEN "barrier"
                       ELSE IF tpc[u] = "asleep" THEN "loop" ELSE tpc[u]
    BY <2>2, BroadcastIs DEF ThreadPC
  <2>3. \A u \in Threads : tpc[u] \notin {"loop", "asleep", "done"}
    BY <1>1, <1>2, <2>1 DEF LoopInv, CountInv, TypeOK
  <2>4. TypeOK'
    <3>1. /\ last_assigned' \in -1 .. N - 1 /\ thread_count' \in 0 .. 2 * N
          /\ number' \in [Threads -> -1 .. N - 1]
      BY <1>1, <1>2, <1>5 DEF TypeOK
    <3>2. current_char' \in Nat /\ str_next_ind' \in 0 .. Len(song') + 1
      BY <1>2, <1>4, <2>2
    <3>3. QED
      BY <1>2, <2>woken, <3>1, <3>2 DEF TypeOK, ThreadPC
  <2>5. NumberInv'
    <3>1. \A u \in Threads : number'[u] <= last_assigned'
      BY <1>1, <1>2 DEF NumberInv, TypeOK
    <3>2. \A u, v \in Numbered' : number'[u] = number'[v] => u = v
      BY <1>1, <1>2 DEF NumberInv, TypeOK, Numbered
    <3>3. \A u \in Threads : /\ tpc'[u] \in {"unborn", "acquire"} <=> number'[u] = NoNumber
                             /\ tpc'[u] = "unborn" <=> u > created'
      <4> SUFFICES ASSUME NEW u \in Threads
                   PROVE  /\ tpc'[u] \in {"unborn", "acquire"} <=> number'[u] = NoNumber
                          /\ tpc'[u] = "unborn" <=> u > created'
        OBVIOUS
      <4>1. /\ tpc[u] \in {"unborn", "acquire"} <=> number[u] = NoNumber
            /\ tpc[u] = "unborn" <=> u > created
            /\ tpc[t] = "unborn" <=> t > created
        BY DEF NumberInv
      <4>2. CASE u = t
        BY <1>1, <1>2, <2>woken, <4>1, <4>2 DEF TypeOK
      <4>3. CASE u # t
        BY <1>2, <2>woken, <4>1, <4>3 DEF TypeOK
      <4>4. QED
        BY <4>2, <4>3
    <3>4. QED
      BY <1>1, <1>2, <3>1, <3>2, <3>3 DEF NumberInv
  <2>6. CountInv'
    BY <1>1, <1>2, <2>1, <2>2 DEF CountInv, Numbered, Failed
  <2>7. SaidInv'
    BY <1>2, <1>3, <1>4, <2>2 DEF SaidInv
  <2>8. LoopInv' /\ NoLostWakeup'
    <3>1. \A u \in Threads : tpc'[u] \notin {"loop", "asleep", "done", "barrier_asleep"}
      BY <2>woken, <2>3
    <3>2. mpc \notin {"finished", "failed"}
      <4>1. t \in 1 .. created
        BY <1>2 DEF NumberInv, TypeOK, Threads
      <4>2. QED
        BY <1>2, <4>1 DEF LoopInv
    <3>3. QED
      BY <1>2, <3>1, <3>2 DEF LoopInv, NoLostWakeup
  <2>9. QED
    BY <2>4, <2>5, <2>6, <2>7, <2>8
<1>6. CASE thread_count' # N
  <2>1. tpc' = [tpc EXCEPT ![t] = "barrier"] /\ UNCHANGED <<current_char, str_next_ind>>
    BY <1>6 DEF acquire_thread_number
  <2>2. thread_count' <= N + last_assigned' + 1 /\ thread_count' \in 0 .. 2 * N
    BY <1>1, <1>2 DEF CountInv, TypeOK
  <2>3. TypeOK'
    BY <1>1, <1>2, <2>1, <2>2 DEF TypeOK
  <2>4. NumberInv'
    BY <1>1, <1>2, <2>1 DEF NumberInv, Numbered, TypeOK
  <2>5. CountInv'
    BY <1>1, <1>2, <1>3, <1>6, <2>1, <2>2 DEF CountInv, Failed, TypeOK
  <2>6. SaidInv'
    BY <1>2, <2>1 DEF SaidInv
  <2>7. LoopInv' /\ NoLostWakeup'
    BY <1>1, <1>2, <1>6, <2>1, <2>2 DEF LoopInv, NoLostWakeup, CountInv, TypeOK, Failed
  <2>8. QED
    BY <2>3, <2>4, <2>5, <2>6, <2>7
<1>7. QED
  BY <1>5, <1>6

\* The barrier lets a thread through only when it is open.
LEMMA BarrierKeeps ==
  ASSUME IInv, NEW t \in Threads, Barrier(t)
  PROVE  IInv'
<1> USE ThreadsAssumption DEF IInv, NoNumber, Terminal, monitor
<1>1. /\ tpc[t] = "barrier"
      /\ tpc' = [tpc EXCEPT ![t] = IF thread_count < N THEN "barrier_asleep" ELSE "loop"]
      /\ UNCHANGED <<song, monitor, number, created, mpc, said>>
  BY DEF Barrier
<1>2. TypeOK'
  BY <1>1 DEF TypeOK
<1>3. NumberInv'
  BY <1>1 DEF NumberInv, Numbered, TypeOK
<1>4. CountInv' /\ SaidInv'
  BY <1>1 DEF CountInv, SaidInv, Failed
<1>5. LoopInv'
  BY <1>1 DEF LoopInv, TypeOK
<1>6. NoLostWakeup'
  BY <1>1 DEF NoLostWakeup, TypeOK
<1>7. QED
  BY <1>2, <1>3, <1>4, <1>5, <1>6

\* A thread leaves the loop and wakes the others, who will leave it as well.
LEMMA LeaveKeeps ==
  ASSUME IInv, NEW t \in Threads, Leave(t)
  PROVE  IInv'
<1> USE ThreadsAssumption DEF IInv, NoNumber, Terminal, monitor
<1>1. /\ tpc[t] = "loop" /\ current_char = Terminal
      /\ UNCHANGED <<song, monitor, number, created, mpc, said>>
  BY DEF Leave
<1>2. /\ tpc' \in [Threads -> ThreadPC] /\ tpc'[t] = "done"
      /\ \A u \in Threads : u # t =>
           tpc'[u] = IF tpc[u] = "barrier_asleep" THEN "barrier"
                     ELSE IF tpc[u] = "asleep" THEN "loop" ELSE tpc[u]
  BY BroadcastIs DEF Leave, ThreadPC
<1>3. TypeOK'
  BY <1>1, <1>2 DEF TypeOK, ThreadPC
<1>4. NumberInv'
  <2>1. \A u \in Threads : /\ tpc'[u] \in {"unborn", "acquire"} <=> tpc[u] \in {"unborn", "acquire"}
                           /\ tpc'[u] = "unborn" <=> tpc[u] = "unborn"
    BY <1>1, <1>2
  <2>2. QED
    BY <1>1, <2>1 DEF NumberInv, Numbered
<1>5. CountInv' /\ SaidInv'
  BY <1>1 DEF CountInv, SaidInv, Failed
<1>6. LoopInv'
  <2>1. \A u \in Threads : /\ tpc'[u] \in {"loop", "asleep", "done"} => tpc[u] \in {"loop", "asleep", "done"}
                           /\ tpc[u] = "done" => tpc'[u] = "done"
    BY <1>1, <1>2
  <2>2. 1 .. created \subseteq Threads
    BY DEF TypeOK, Threads
  <2>3. QED
    BY <1>1, <2>1, <2>2 DEF LoopInv
<1>7. NoLostWakeup'
  BY <1>2 DEF NoLostWakeup
<1>8. QED
  BY <1>3, <1>4, <1>5, <1>6, <1>7

\* A thread goes to sleep only over a letter that is somebody else's.
LEMMA SleepKeeps ==
  ASSUME IInv, NEW t \in Threads, Sleep(t)
  PROVE  IInv'
<1> USE ThreadsAssumption DEF IInv, NoNumber, Terminal, monitor
<1>1. /\ tpc[t] = "loop" /\ current_char \notin {Terminal, number[t]}
      /\ tpc' = [tpc EXCEPT ![t] = "asleep"]
      /\ UNCHANGED <<song, monitor, number, created, mpc, said>>
  BY DEF Sleep
<1>2. TypeOK'
  BY <1>1 DEF TypeOK
<1>3. NumberInv'
  BY <1>1 DEF NumberInv, Numbered, TypeOK
<1>4. CountInv' /\ SaidInv'
  BY <1>1 DEF CountInv, SaidInv, Failed
<1>5. LoopInv' /\ NoLostWakeup'
  BY <1>1 DEF LoopInv, NoLostWakeup, TypeOK
<1>6. QED
  BY <1>2, <1>3, <1>4, <1>5

\* A letter is said, the next one is read, and everybody is woken for it.
LEMMA SayKeeps ==
  ASSUME IInv, NEW t \in Threads, Say(t)
  PROVE  IInv'
<1> USE ThreadsAssumption DEF IInv, NoNumber, Terminal
<1>1. /\ tpc[t] = "loop" /\ current_char # Terminal /\ current_char = number[t]
      /\ said' = Append(said, number[t])
      /\ UNCHANGED <<song, last_assigned, thread_count, number, created, mpc>>
  BY DEF Say
<1>2. /\ tpc' \in [Threads -> ThreadPC] /\ tpc'[t] = "loop"
      /\ \A u \in Threads : u # t =>
           tpc'[u] = IF tpc[u] = "barrier_asleep" THEN "barrier"
                     ELSE IF tpc[u] = "asleep" THEN "loop" ELSE tpc[u]
  BY BroadcastIs DEF Say, ThreadPC
<1>3. /\ song \in Seq(Nat \ {0}) /\ Len(song) \in Nat /\ said \in Seq(Nat)
      /\ number[t] \in Nat /\ Len(said) \in Nat
  BY <1>1, SongsAssumption DEF TypeOK
<1>4. /\ str_next_ind = Len(said) + 1 /\ Len(said) < Len(song)
      /\ number[t] = song[Len(said) + 1]
  BY <1>1, <1>3 DEF SaidInv, TypeOK
<1>5. /\ str_next_ind' = Len(said) + 2
      /\ current_char' = IF Len(said) + 1 < Len(song) THEN song[Len(said) + 2] ELSE Terminal
  BY <1>3, <1>4 DEF Say, read_next_char
<1>6. /\ said' \in Seq(Nat) /\ Len(said') = Len(said) + 1
      /\ \A n \in 1 .. Len(said) : said'[n] = said[n]
      /\ said'[Len(said) + 1] = number[t]
  BY <1>1, <1>3, AppendProperties
<1>7. TypeOK'
  BY <1>1, <1>2, <1>3, <1>4, <1>5, <1>6 DEF TypeOK, ThreadPC
<1>8. NumberInv'
  <2>1. \A u \in Threads : /\ tpc'[u] \in {"unborn", "acquire"} <=> tpc[u] \in {"unborn", "acquire"}
                           /\ tpc'[u] = "unborn" <=> tpc[u] = "unborn"
    BY <1>1, <1>2
  <2>2. QED
    BY <1>1, <2>1 DEF NumberInv, Numbered
<1>9. CountInv'
  BY <1>1, <1>3, <1>4, <1>5 DEF CountInv, Failed
<1>10. SaidInv'
  <2>1. \A n \in 1 .. Len(said') : said'[n] = song'[n]
    BY <1>1, <1>3, <1>4, <1>6 DEF SaidInv
  <2>2. QED
    BY <1>1, <1>3, <1>4, <1>5, <1>6, <2>1 DEF SaidInv
<1>11. LoopInv'
  <2>1. \A u \in Threads : tpc[u] # "done"
    BY <1>1 DEF LoopInv
  <2>2. \A u \in Threads : tpc'[u] # "done"
    BY <1>2, <2>1
  <2>3. t \in 1 .. created
    BY <1>1 DEF NumberInv, TypeOK, Threads
  <2>4. mpc \notin {"finished", "failed"}
    BY <2>1, <2>3 DEF LoopInv
  <2>5. QED
    BY <1>1, <1>2, <2>2, <2>4 DEF LoopInv
<1>12. NoLostWakeup'
  BY <1>2 DEF NoLostWakeup
<1>13. QED
  BY <1>7, <1>8, <1>9, <1>10, <1>11, <1>12

\* pthread_cond_wait may return at any time: the thread looks again.
LEMMA SpuriousKeeps ==
  ASSUME IInv, NEW t \in Threads, SpuriousWakeup(t)
  PROVE  IInv'
<1> USE ThreadsAssumption DEF IInv, NoNumber, Terminal, monitor
<1>1. /\ tpc[t] \in {"barrier_asleep", "asleep"}
      /\ tpc' = [tpc EXCEPT ![t] = IF tpc[t] = "asleep" THEN "loop" ELSE "barrier"]
      /\ UNCHANGED <<song, monitor, number, created, mpc, said>>
  BY WokenIs DEF SpuriousWakeup
<1>2. TypeOK'
  BY <1>1 DEF TypeOK
<1>3. NumberInv'
  BY <1>1 DEF NumberInv, Numbered, TypeOK
<1>4. CountInv' /\ SaidInv'
  BY <1>1 DEF CountInv, SaidInv, Failed
<1>5. LoopInv' /\ NoLostWakeup'
  BY <1>1 DEF LoopInv, NoLostWakeup, TypeOK
<1>6. QED
  BY <1>2, <1>3, <1>4, <1>5

-----------------------------------------------------------------------------
(* main.                                                                   *)

\* One thread more.
LEMMA CreateKeeps ==
  ASSUME IInv, CreateThread
  PROVE  IInv'
<1> USE ThreadsAssumption DEF IInv, NoNumber, Terminal, monitor
<1>1. /\ mpc = "create" /\ created' = created + 1
      /\ tpc' = [tpc EXCEPT ![created + 1] = "acquire"]
      /\ mpc' = IF created + 1 < N THEN "create" ELSE "join"
      /\ UNCHANGED <<song, monitor, number, said>>
  BY DEF CreateThread
<1>2. created + 1 \in Threads /\ tpc[created + 1] = "unborn" /\ created \in Nat
  BY <1>1 DEF NumberInv, TypeOK, Threads
<1>3. TypeOK'
  BY <1>1, <1>2 DEF TypeOK, Threads
<1>4. NumberInv'
  <2>1. \A u \in Threads : /\ tpc'[u] \in {"unborn", "acquire"} <=> number'[u] = NoNumber
                           /\ tpc'[u] = "unborn" <=> u > created'
    BY <1>1, <1>2 DEF NumberInv, TypeOK, Threads
  <2>2. QED
    BY <1>1, <1>2, <2>1 DEF NumberInv, Numbered, TypeOK
<1>5. CountInv' /\ SaidInv'
  BY <1>1 DEF CountInv, SaidInv, Failed
<1>6. LoopInv' /\ NoLostWakeup'
  BY <1>1, <1>2 DEF LoopInv, NoLostWakeup, TypeOK
<1>7. QED
  BY <1>3, <1>4, <1>5, <1>6

\* main gives up before the last thread exists, so no letter has been read, and
\* opens the barrier for those that wait at it.
LEMMA CreateFailsKeeps ==
  ASSUME IInv, CreateFails
  PROVE  IInv'
<1> USE ThreadsAssumption DEF IInv, NoNumber, Terminal
<1>1. /\ mpc = "create" /\ mpc' = "join_failed" /\ thread_count' = N
      /\ UNCHANGED <<song, last_assigned, current_char, str_next_ind, number, created, said>>
  BY DEF CreateFails
<1>2. /\ tpc' \in [Threads -> ThreadPC]
      /\ \A u \in Threads : tpc'[u] = IF tpc[u] = "barrier_asleep" THEN "barrier"
                                       ELSE IF tpc[u] = "asleep" THEN "loop" ELSE tpc[u]
  <2>1. tpc' = [u \in Threads |-> IF tpc[u] = "barrier_asleep" THEN "barrier"
                                 ELSE IF tpc[u] = "asleep" THEN "loop" ELSE tpc[u]]
    BY WokenIs DEF CreateFails
  <2>2. tpc \in [Threads -> ThreadPC]
    BY DEF TypeOK, ThreadPC
  <2>3. QED
    BY <2>1, <2>2 DEF ThreadPC
<1>3. str_next_ind = 0
  <2>1. N \in Threads /\ N > created
    BY <1>1 DEF NumberInv, TypeOK, Threads
  <2>2. number[N] = NoNumber
    BY <2>1 DEF NumberInv
  <2>3. QED
    BY <2>1, <2>2 DEF CountInv, TypeOK
<1>4. TypeOK'
  BY <1>1, <1>2 DEF TypeOK, ThreadPC
<1>5. NumberInv'
  <2>1. \A u \in Threads : /\ tpc'[u] \in {"unborn", "acquire"} <=> tpc[u] \in {"unborn", "acquire"}
                           /\ tpc'[u] = "unborn" <=> tpc[u] = "unborn"
    BY <1>2
  <2>2. QED
    BY <1>1, <2>1 DEF NumberInv, Numbered
<1>6. CountInv'
  BY <1>1, <1>3 DEF CountInv, Failed, TypeOK
<1>7. SaidInv'
  BY <1>1 DEF SaidInv
<1>8. LoopInv' /\ NoLostWakeup'
  BY <1>1, <1>2 DEF LoopInv, NoLostWakeup
<1>9. QED
  BY <1>4, <1>5, <1>6, <1>7, <1>8

\* main has joined everybody it created.
LEMMA JoinKeeps ==
  ASSUME IInv, Join
  PROVE  IInv'
<1> USE ThreadsAssumption DEF IInv, NoNumber, Terminal, monitor
<1>1. /\ mpc \in {"join", "join_failed"}
      /\ \A t \in 1 .. created : tpc[t] = "done"
      /\ mpc' = IF mpc = "join" THEN "finished" ELSE "failed"
      /\ UNCHANGED <<song, monitor, number, tpc, created, said>>
  BY DEF Join
<1>2. TypeOK'
  BY <1>1 DEF TypeOK
<1>3. NumberInv' /\ CountInv'
  BY <1>1 DEF NumberInv, Numbered, CountInv, Failed
<1>4. SaidInv' /\ LoopInv' /\ NoLostWakeup'
  BY <1>1 DEF SaidInv, LoopInv, NoLostWakeup
<1>5. QED
  BY <1>2, <1>3, <1>4

-----------------------------------------------------------------------------
(* The theorems.                                                           *)

\* No step breaks the invariant.
LEMMA NextIInv == IInv /\ [Next]_vars => IInv'
<1> SUFFICES ASSUME IInv, [Next]_vars PROVE IInv'
  OBVIOUS
<1>1. ASSUME UNCHANGED vars PROVE IInv'
  BY <1>1 DEF IInv, vars, monitor, TypeOK, NumberInv, Numbered, CountInv, Failed,
              SaidInv, LoopInv, NoLostWakeup
<1>2. ASSUME Main PROVE IInv'
  BY <1>2, CreateKeeps, CreateFailsKeeps, JoinKeeps DEF Main
<1>3. ASSUME NEW t \in Threads, Bogatyr(t) \/ SpuriousWakeup(t) PROVE IInv'
  BY <1>3, AcquireKeeps, BarrierKeeps, LeaveKeeps, SleepKeeps, SayKeeps, SpuriousKeeps DEF Bogatyr
<1>4. QED
  BY <1>1, <1>2, <1>3 DEF Next, Stop

\* It holds in every state of every run.
LEMMA IInvAlways == Spec => []IInv
BY InitIInv, NextIInv, PTL DEF Spec

\* monitor_t and the threads keep to their ranges: no thread gets a number
\* beyond N - 1, and the index never leaves the buffer.
THEOREM TypeCorrect == Spec => []TypeOK
<1>1. IInv => TypeOK
  BY DEF IInv
<1>2. QED
  BY <1>1, IInvAlways, PTL

\* No letter is there to be said before every thread has a number of its own.
THEOREM EverybodyNumberedFirst == Spec => []AllNumberedFirst
<1>1. ASSUME IInv, current_char # Terminal, NEW t \in Threads, NEW u \in Threads
      PROVE  number[t] # NoNumber /\ (number[t] = number[u] => t = u)
  <2>1. str_next_ind > 0
    BY <1>1 DEF IInv, SaidInv, TypeOK
  <2>2. QED
    BY <1>1, <2>1 DEF IInv, CountInv, NumberInv, Numbered
<1>2. IInv => AllNumberedFirst
  BY <1>1 DEF AllNumberedFirst
<1>3. QED
  BY <1>2, IInvAlways, PTL

\* One broadcast to all serves both waits: whoever sleeps sleeps for a reason
\* that still holds, also after main has given up.
THEOREM NobodySleepsForNothing == Spec => []NoLostWakeup
<1>1. IInv => NoLostWakeup
  BY DEF IInv
<1>2. QED
  BY <1>1, IInvAlways, PTL

\* The threads together say the song of Song: Say is its Say, main's last join
\* its End, all else stutters.
THEOREM SaysTheSong == Spec => SongSpec
<1>1. Init => TheSong!Init
  BY DEF Init, TheSong!Init
<1>2. ASSUME IInv, NEW t \in Threads, Say(t)
      PROVE  TheSong!Say
  <2>1. /\ tpc[t] = "loop" /\ current_char # Terminal /\ current_char = number[t]
        /\ said' = Append(said, number[t]) /\ song' = song /\ mpc' = mpc
    BY <1>2 DEF Say
  <2>2. Len(said) < Len(song) /\ number[t] = song[Len(said) + 1]
    BY <1>2, <2>1 DEF IInv, SaidInv, TypeOK
  <2>3. mpc # "finished"
    <3>1. t \in 1 .. created
      BY <1>2, <2>1, ThreadsAssumption DEF IInv, NumberInv, TypeOK, Threads
    <3>2. QED
      BY <1>2, <2>1, <3>1 DEF IInv, LoopInv
  <2>4. QED
    BY <2>1, <2>2, <2>3 DEF TheSong!Say
<1>3. ASSUME IInv, Join, mpc = "join"
      PROVE  TheSong!End
  <2>1. /\ \A t \in 1 .. created : tpc[t] = "done"
        /\ mpc' = "finished" /\ UNCHANGED <<song, said>>
    BY <1>3 DEF Join
  <2>2. 1 \in 1 .. created /\ 1 \in Threads /\ created = N
    BY <1>3, ThreadsAssumption DEF IInv, NumberInv, Threads
  <2>3. tpc[1] = "done" /\ current_char = Terminal /\ thread_count >= N
    BY <1>3, <2>1, <2>2 DEF IInv, LoopInv
  <2>4. str_next_ind > 0
    <3>1. thread_count = N
      BY <1>3, <2>3, ThreadsAssumption DEF IInv, CountInv, Failed, TypeOK
    <3>2. QED
      BY <1>3, <3>1 DEF IInv, CountInv, Failed
  <2>5. song \in Seq(Nat \ {0}) /\ said \in Seq(Nat) /\ song \in Seq(Nat)
    BY <1>3, SongsAssumption DEF IInv, TypeOK
  <2>6. Len(said) = Len(song)
    <3>1. ~(Len(said) < Len(song))
      BY <1>3, <2>3, <2>4, <2>5, ElementOfSeq DEF IInv, SaidInv, Terminal
    <3>2. QED
      BY <1>3, <2>5, <3>1 DEF IInv, SaidInv
  <2>7. said = song
    BY <1>3, <2>5, <2>6, SeqEqual DEF IInv, SaidInv
  <2>8. (mpc = "finished")' = TRUE
    BY <2>1
  <2>9. QED
    BY <2>1, <2>7, <2>8, Zenon DEF TheSong!End
<1>4. IInv /\ [Next]_vars => [TheSong!Next]_(TheSong!vars)
  <2> SUFFICES ASSUME IInv, [Next]_vars PROVE [TheSong!Next]_(TheSong!vars)
    OBVIOUS
  <2>1. CASE UNCHANGED vars
    BY <2>1 DEF vars, TheSong!vars
  <2>2. CASE CreateThread \/ CreateFails \/ (Join /\ mpc # "join")
    BY <2>2 DEF CreateThread, CreateFails, Join, TheSong!vars
  <2>3. CASE Join /\ mpc = "join"
    BY <2>3, <1>3 DEF TheSong!Next
  <2>4. ASSUME NEW t \in Threads, Bogatyr(t) \/ SpuriousWakeup(t)
        PROVE  [TheSong!Next]_(TheSong!vars)
    <3>1. CASE Say(t)
      BY <3>1, <1>2 DEF TheSong!Next
    <3>2. CASE acquire_thread_number(t) \/ Barrier(t) \/ Leave(t) \/ Sleep(t) \/ SpuriousWakeup(t)
      BY <3>2 DEF acquire_thread_number, Barrier, Leave, Sleep, SpuriousWakeup, TheSong!vars
    <3>3. QED
      BY <2>4, <3>1, <3>2 DEF Bogatyr
  <2>5. QED
    BY <2>1, <2>2, <2>3, <2>4 DEF Next, Main, Stop
<1>5. QED
  BY <1>1, <1>4, IInvAlways, PTL DEF Spec, SongSpec, TheSong!Spec

-----------------------------------------------------------------------------
(* The merge sort, for any numbers of elements and threads and any largest *)
(* int: the segments, what is counted how often, and what the merge has    *)
(* taken.                                                                  *)

\* How many elements a thread sorts.
Size == M \div NSorters

\* The elements of a segment that the merge has taken.
Taken(t) == Start(t) .. indices[t] - 1
Consumed == {n \in Index : \E t \in Sorters : n \in Taken(t)}

\* The segments have a length, and together they fit.
LEMMA SizeFits ==
  /\ Size \in Nat \ {0} /\ NSorters * Size <= M
  /\ M % NSorters = 0 => NSorters * Size = M
<1>1. M \in Int /\ NSorters \in Int /\ NSorters > 0 /\ M >= NSorters
  BY SizesAssumption
<1>2. /\ Size \in Int /\ M % NSorters \in 0 .. NSorters - 1
      /\ M = NSorters * Size + (M % NSorters)
  BY <1>1 DEF Size
<1>3. Size > 0
  <2>1. Size <= 0 => NSorters * Size <= 0
    BY <1>1, <1>2
  <2>2. QED
    BY <1>1, <1>2, <2>1
<1>4. QED
  BY <1>1, <1>2, <1>3

\* Where they begin, in the order of the threads.
LEMMA StartsInOrder ==
  /\ Start(0) = 0
  /\ \A t \in Sorters : Start(t) \in Nat /\ Start(t) + Size <= M
  /\ \A t, u \in Sorters : t < u => Start(t) + Size <= Start(u)
<1>1. /\ Size \in Nat /\ NSorters \in Nat /\ M \in Nat /\ NSorters * Size <= M
      /\ Sorters \subseteq Nat
      /\ \A t \in Sorters : t + 1 <= NSorters /\ Start(t) = t * Size
  BY SizeFits, SizesAssumption DEF Sorters, Start, Size
<1>2. \A a, b \in Nat : a <= b => a * Size <= b * Size
  BY <1>1
<1>3. \A a \in Nat : (a + 1) * Size = a * Size + Size /\ a * Size \in Nat
  BY <1>1
<1>4. Start(0) = 0
  BY <1>1 DEF Start, Size
<1>5. ASSUME NEW t \in Sorters PROVE Start(t) \in Nat /\ Start(t) + Size <= M
  <2>1. (t + 1) * Size <= NSorters * Size
    BY <1>1, <1>2
  <2>2. QED
    BY <1>1, <1>3, <2>1
<1>6. ASSUME NEW t \in Sorters, NEW u \in Sorters, t < u
      PROVE  Start(t) + Size <= Start(u)
  <2>1. (t + 1) * Size <= u * Size
    BY <1>1, <1>2, <1>6
  <2>2. QED
    BY <1>1, <1>3, <2>1
<1>7. QED
  BY <1>4, <1>5, <1>6

\* So the segments do not overlap, the last one ends with the array, and
\* where N divides M they are what the threads sort.
LEMMA Segments ==
  /\ \A t \in Sorters :
       /\ Start(t) \in Nat /\ End(t) \in 0 .. M
       /\ Start(t) + Size <= End(t)
       /\ M % NSorters = 0 => End(t) = Start(t) + Size
  /\ \A t, u \in Sorters : t < u => End(t) <= Start(u)
<1>1. /\ Size \in Nat /\ NSorters \in Nat \ {0} /\ M \in Nat
      /\ (M % NSorters = 0 => NSorters * Size = M)
      /\ Sorters = 0 .. NSorters - 1
      /\ \A t : Start(t) = t * Size
      /\ \A a \in Nat : (a + 1) * Size = a * Size + Size
  BY SizeFits, SizesAssumption DEF Sorters, Start, Size
<1>2. ASSUME NEW t \in Sorters
      PROVE  /\ Start(t) \in Nat /\ End(t) \in 0 .. M
             /\ Start(t) + Size <= End(t)
             /\ M % NSorters = 0 => End(t) = Start(t) + Size
  <2>1. CASE t = NSorters - 1
    <3>1. End(t) = M
      BY <2>1 DEF End
    <3>2. Start(t) + Size = NSorters * Size
      BY <1>1, <2>1
    <3>3. Start(t) \in Nat /\ Start(t) + Size <= M
      BY <1>2, StartsInOrder
    <3>4. M % NSorters = 0 => M = Start(t) + Size
      BY <1>1, <3>2
    <3>5. M \in 0 .. M
      BY <1>1
    <3>6. QED
      BY <3>1, <3>3, <3>4, <3>5
  <2>2. CASE t # NSorters - 1
    <3>1. t + 1 \in Sorters /\ t < t + 1
      BY <1>1, <1>2, <2>2
    <3>2. End(t) = Start(t + 1)
      BY <2>2 DEF End
    <3>3. Start(t + 1) = Start(t) + Size
      BY <1>1, <1>2
    <3>4. QED
      BY <1>1, <1>2, <3>1, <3>2, <3>3, StartsInOrder
  <2>3. QED
    BY <2>1, <2>2
<1>3. ASSUME NEW t \in Sorters, NEW u \in Sorters, t < u
      PROVE  End(t) <= Start(u)
  <2>1. t # NSorters - 1 /\ t \in Nat /\ End(t) = Start(t + 1)
    BY <1>1, <1>3 DEF End
  <2>2. Start(t + 1) = Start(t) + Size
    BY <1>1, <2>1
  <2>3. QED
    BY <1>3, <2>1, <2>2, StartsInOrder
<1>4. QED
  BY <1>2, <1>3

\* Every element is in some segment.
LEMMA Covered ==
  ASSUME NEW n \in Index
  PROVE  \E t \in Sorters : Start(t) <= n /\ n < End(t)
<1>1. /\ n \in Nat /\ n < M /\ Size \in Nat \ {0} /\ NSorters \in Nat \ {0} /\ M \in Nat
      /\ \A t : Start(t) = t * Size
      /\ Sorters = 0 .. NSorters - 1
  BY SizeFits, SizesAssumption DEF Index, Sorters, Start, Size
<1> DEFINE s == n \div Size
<1>2. s \in Int /\ n % Size \in 0 .. Size - 1 /\ n = Size * s + (n % Size)
  BY <1>1
<1> HIDE DEF s
<1>3. s >= 0
  <2>1. s <= -1 => Size * s <= Size * (-1)
    BY <1>1, <1>2
  <2>2. QED
    BY <1>1, <1>2, <2>1
<1>4. Size * s = s * Size /\ (s + 1) * Size = s * Size + Size
  BY <1>1, <1>2
<1>5. CASE s < NSorters - 1
  <2>1. s \in Sorters /\ End(s) = (s + 1) * Size
    BY <1>1, <1>2, <1>3, <1>5 DEF End
  <2>2. QED
    BY <1>1, <1>2, <1>4, <2>1
<1>6. CASE s >= NSorters - 1
  <2>1. (NSorters - 1) * Size <= s * Size
    BY <1>1, <1>2, <1>6
  <2>2. NSorters - 1 \in Sorters /\ End(NSorters - 1) = M
    BY <1>1 DEF End
  <2>3. Start(NSorters - 1) <= n
    BY <1>1, <1>2, <1>4, <2>1
  <2>4. QED
    BY <1>1, <2>2, <2>3
<1>7. QED
  BY <1>1, <1>2, <1>5, <1>6

-----------------------------------------------------------------------------
(* Counting elements.                                                      *)

\* One element more, or none.
LEMMA OneMore ==
  ASSUME NEW B, IsFiniteSet(B), NEW k, k \notin B, NEW p \in BOOLEAN,
         NEW C, C = IF p THEN B \cup {k} ELSE B
  PROVE  Cardinality(C) = Cardinality(B) + (IF p THEN 1 ELSE 0)
<1>1. Cardinality(B) \in Nat /\ Cardinality(B \cup {k}) = Cardinality(B) + 1
  BY FS_CardinalityType, FS_AddElement
<1>2. CASE p
  BY <1>1, <1>2
<1>3. CASE ~p
  BY <1>1, <1>3
<1>4. QED
  BY <1>2, <1>3

\* Two parts add up.
LEMMA TwoParts ==
  ASSUME NEW A, NEW B, IsFiniteSet(A), IsFiniteSet(B), A \cap B = {}
  PROVE  Cardinality(A \cup B) = Cardinality(A) + Cardinality(B)
<1>1. Cardinality(A) \in Nat /\ Cardinality(B) \in Nat /\ Cardinality({}) = 0
  BY FS_CardinalityType, FS_EmptySet
<1>2. Cardinality(A \cup B) = Cardinality(A) + Cardinality(B) - Cardinality({})
  BY FS_Union
<1>3. QED
  BY <1>1, <1>2

\* A thread that sorts its segment leaves the elements of the whole array what
\* they are.
LEMMA SortingRearranges ==
  ASSUME NEW a \in [Index -> Value],
         NEW from \in Nat, NEW to \in 0 .. M, NEW b \in qsort(a, from, to), NEW v \in Value
  PROVE  Count(b, 0, M, v) = Count(a, 0, M, v)
<1> DEFINE Segment == from .. to - 1
           Inside(f) == {n \in Segment : f[n] = v}
           Outside(f) == {n \in Index \ Segment : f[n] = v}
<1>1. /\ \A n \in Index \ Segment : b[n] = a[n]
      /\ Cardinality(Inside(b)) = Cardinality(Inside(a))
  <2>1. /\ \A n \in Index \ Segment : b[n] = a[n]
        /\ Count(b, from, to, v) = Count(a, from, to, v)
    BY DEF qsort
  <2>2. QED
    BY <2>1 DEF Count
<1>2. Segment \subseteq Index /\ Index = 0 .. M - 1
  BY SizesAssumption DEF Index
<1>3. IsFiniteSet(Index)
  BY <1>2, FS_Interval, SizesAssumption
<1> HIDE DEF Segment
<1>4. ASSUME NEW f
      PROVE  Count(f, 0, M, v) = Cardinality(Inside(f)) + Cardinality(Outside(f))
  <2>1. /\ {n \in Index : f[n] = v} = Inside(f) \cup Outside(f)
        /\ Inside(f) \cap Outside(f) = {}
    BY <1>2
  <2>2. IsFiniteSet(Inside(f)) /\ IsFiniteSet(Outside(f))
    <3>1. Inside(f) \in SUBSET Index /\ Outside(f) \in SUBSET Index
      BY <1>2
    <3>2. QED
      BY <1>3, <3>1, FS_Subset
  <2>3. Cardinality(Inside(f) \cup Outside(f)) = Cardinality(Inside(f)) + Cardinality(Outside(f))
    BY <2>1, <2>2, TwoParts
  <2>4. Count(f, 0, M, v) = Cardinality({n \in Index : f[n] = v})
    BY <1>2 DEF Count
  <2>5. QED
    BY <2>1, <2>3, <2>4
<1>5. Outside(b) = Outside(a)
  BY <1>1
<1> HIDE DEF Inside, Outside
<1>6. QED
  BY <1>1, <1>4, <1>5

\* A set of natural numbers that has an element has a least one.
LEMMA LeastOf ==
  ASSUME NEW A \in SUBSET Nat, A # {}
  PROVE  \E x \in A : \A y \in A : x <= y
<1>1. PICK x \in A : \A y \in A : ~ (<<y, x>> \in OpToRel(<, Nat))
  BY WFMin, NatLessThanWellFounded
<1>2. \A y \in A : ~ (y < x)
  BY <1>1 DEF OpToRel
<1>3. QED
  BY <1>2

-----------------------------------------------------------------------------
(* The invariant.                                                          *)

\* Threads are created in their order; who is joined is done, and what a thread
\* has sorted stays sorted.
ThreadsInv ==
  /\ \A t \in Sorters : sorter[t] = "none" <=> t >= started
  /\ sortpc = "create" => started < NSorters
  /\ sortpc \in {"join", "merge", "successful", "unsorted"} => started = NSorters
  /\ sortpc \in {"merge", "successful", "unsorted", "failed"} =>
       \A t \in Sorters : sorter[t] # "sort"
  /\ \A t \in Sorters : sorter[t] = "done" =>
       Sorted(array, Start(t), Start(t) + Size)

\* The array is a rearrangement of the input.
RearrangedInv == \A v \in Value : Count(array, 0, M, v) = Count(input, 0, M, v)

\* What the merge has taken it has taken once: the new array is a rearrangement of it.
TakenInv ==
  /\ \A t \in Sorters : indices[t] \in Start(t) .. End(t)
  /\ sortpc \in {"create", "join"} =>
       merged = 0 /\ \A t \in Sorters : indices[t] = Start(t)
  /\ sortpc = "merge" =>
       /\ Cardinality(Consumed) = merged
       /\ \A n \in 0 .. merged - 1 : new_array[n] \in Value
       /\ \A v \in Value :
            Count(new_array, 0, merged, v) = Cardinality({n \in Consumed : array[n] = v})

MergeSortInv ==
  SortTypeOK /\ ThreadsInv /\ RearrangedInv /\ TakenInv /\ SuccessIsTrue

\* Nothing has happened to the array main starts with.
LEMMA MergeSortInit == ASSUME SortInit PROVE MergeSortInv
<1>1. /\ M \in Nat \ {0} /\ NSorters \in Nat \ {0} /\ Sorters = 0 .. NSorters - 1
      /\ \A t \in Sorters : 0 <= t /\ Start(t) \in 0 .. M /\ Start(t) <= End(t)
  <2>1. /\ M \in Nat \ {0} /\ NSorters \in Nat \ {0} /\ Sorters = 0 .. NSorters - 1 /\ Size \in Nat
    BY SizeFits, SizesAssumption DEF Sorters
  <2>2. \A t \in Sorters : /\ Start(t) \in Nat /\ End(t) \in 0 .. M
                           /\ Start(t) + Size <= End(t)
    BY Segments
  <2>3. QED
    BY <2>1, <2>2
<1> USE DEF SortInit
<1>2. SortTypeOK
  BY <1>1 DEF SortTypeOK, Garbage
<1>3. ThreadsInv
  BY <1>1 DEF ThreadsInv
<1>4. RearrangedInv
  BY DEF RearrangedInv
<1>5. TakenInv
  BY <1>1 DEF TakenInv
<1>6. SuccessIsTrue
  BY DEF SuccessIsTrue
<1>7. QED
  BY <1>2, <1>3, <1>4, <1>5, <1>6 DEF MergeSortInv

\* A thread sorts its segment: nobody else's, and while there is no merge.
LEMMA SortStep ==
  ASSUME MergeSortInv, NEW t \in Sorters, sort_subarray(t)
  PROVE  MergeSortInv'
<1> DEFINE a == Start(t)
           b == Start(t) + Size
<1>1. /\ SortTypeOK /\ ThreadsInv /\ RearrangedInv /\ TakenInv
      /\ sorter[t] = "sort" /\ sorter' = [sorter EXCEPT ![t] = "done"]
      /\ array' \in qsort(array, a, b)
      /\ UNCHANGED <<input, sortpc, started, indices, new_array, merged>>
  BY DEF MergeSortInv, sort_subarray, Size
<1>2. sortpc \notin {"merge", "successful", "unsorted", "failed"}
  BY <1>1 DEF ThreadsInv
<1>3. /\ a \in Nat /\ b \in 0 .. M /\ Size \in Nat
      /\ \A u \in Sorters : /\ Start(u) \in Nat
                            /\ u < t => Start(u) + Size <= a
                            /\ t < u => b <= Start(u)
  BY StartsInOrder, SizeFits, SizesAssumption
<1> HIDE DEF a, b
<1>4. /\ array' \in [Index -> Value]
      /\ \A n \in Index \ (a .. b - 1) : array'[n] = array[n]
      /\ Sorted(array', a, b)
  BY <1>1 DEF qsort
<1>5. SortTypeOK'
  BY <1>1, <1>4 DEF SortTypeOK
<1>6. ASSUME NEW u \in Sorters, sorter'[u] = "done"
      PROVE  Sorted(array', Start(u), Start(u) + Size)
  <2>1. CASE u = t
    BY <1>4, <2>1 DEF a, b
  <2>2. CASE u # t
    <3>1. sorter[u] = "done"
      BY <1>1, <1>6, <2>2 DEF SortTypeOK
    <3>2. \A n \in Start(u) .. Start(u) + Size - 1 : array'[n] = array[n]
      <4>1. Start(u) + Size <= a \/ b <= Start(u)
        BY <1>3, <2>2 DEF Sorters
      <4>2. Start(u) + Size <= M /\ Start(u) \in Nat
        BY StartsInOrder
      <4>3. QED
        BY <1>3, <1>4, <4>1, <4>2, SizesAssumption DEF Index
    <3>3. Sorted(array, Start(u), Start(u) + Size)
      BY <1>1, <3>1 DEF ThreadsInv
    <3>4. QED
      BY <1>3, <3>2, <3>3 DEF Sorted
  <2>3. QED
    BY <2>1, <2>2
<1>7. ThreadsInv'
  <2>1. \A u \in Sorters : sorter'[u] = "none" <=> u >= started
    BY <1>1 DEF ThreadsInv, SortTypeOK
  <2>2. QED
    BY <1>1, <1>2, <1>6, <2>1 DEF ThreadsInv
<1>8. RearrangedInv'
  <2>1. \A v \in Value : Count(array', 0, M, v) = Count(array, 0, M, v)
    BY <1>1, <1>3, SortingRearranges DEF SortTypeOK
  <2>2. QED
    BY <1>1, <2>1 DEF RearrangedInv, Count
<1>9. TakenInv'
  BY <1>1, <1>2 DEF TakenInv
<1>10. SuccessIsTrue'
  BY <1>1, <1>2 DEF SuccessIsTrue
<1>11. QED
  BY <1>5, <1>7, <1>8, <1>9, <1>10 DEF MergeSortInv

\* main creates a thread or gives up, and joins what it has created.
LEMMA MainStep ==
  ASSUME MergeSortInv, StartSorter \/ StartFails \/ JoinSorters
  PROVE  MergeSortInv'
<1>1. /\ SortTypeOK /\ ThreadsInv /\ RearrangedInv /\ TakenInv
      /\ sortpc \in {"create", "join", "join_failed"}
      /\ sortpc' \in {"create", "join", "join_failed", "merge", "failed"}
      /\ sortpc' = "merge" => sortpc = "join"
      /\ UNCHANGED <<input, array, indices, new_array, merged>>
  BY DEF MergeSortInv, StartSorter, StartFails, JoinSorters
<1>2. M \in Nat \ {0} /\ NSorters \in Nat \ {0} /\ Sorters = 0 .. NSorters - 1
  BY SizesAssumption DEF Sorters
<1>3. SortTypeOK' /\ ThreadsInv'
  <2>1. CASE StartSorter
    <3>1. /\ started \in Sorters /\ started < NSorters /\ started' = started + 1
          /\ sorter' = [sorter EXCEPT ![started] = "sort"]
          /\ sortpc' = IF started' < NSorters THEN "create" ELSE "join"
      BY <1>1, <1>2, <2>1 DEF StartSorter, SortTypeOK, ThreadsInv
    <3>2. SortTypeOK'
      BY <1>1, <1>2, <3>1 DEF SortTypeOK
    <3>3. ThreadsInv'
      BY <1>1, <1>2, <3>1 DEF SortTypeOK, ThreadsInv
    <3>4. QED
      BY <3>2, <3>3
  <2>2. CASE StartFails
    BY <1>1, <2>2 DEF StartFails, SortTypeOK, ThreadsInv
  <2>3. CASE JoinSorters
    <3>1. \A t \in Sorters : sorter[t] # "sort"
      BY <1>1, <1>2, <2>3 DEF JoinSorters, SortTypeOK, ThreadsInv
    <3>2. QED
      BY <1>1, <2>3, <3>1 DEF JoinSorters, SortTypeOK, ThreadsInv
  <2>4. QED
    BY <2>1, <2>2, <2>3
<1>4. TakenInv'
  <2>1. CASE sortpc' # "merge"
    BY <1>1, <2>1 DEF TakenInv, StartSorter, StartFails, JoinSorters
  <2>2. CASE sortpc' = "merge"
    <3>1. merged = 0 /\ \A t \in Sorters : indices[t] = Start(t)
      BY <1>1, <2>2 DEF TakenInv
    <3>2. Consumed = {}
      BY <3>1, StartsInOrder DEF Consumed, Taken
    <3>3. /\ Cardinality({}) = 0
          /\ \A v : Count(new_array, 0, 0, v) = Cardinality({})
      BY FS_EmptySet DEF Count
    <3>4. /\ Cardinality(Consumed) = 0
          /\ \A v \in Value :
               Count(new_array, 0, 0, v) = Cardinality({n \in Consumed : array[n] = v})
      <4>1. \A v : {n \in Consumed : array[n] = v} = {}
        BY <3>2
      <4>2. QED
        BY <3>2, <3>3, <4>1
    <3>5. Consumed' = Consumed
      BY <1>1 DEF Consumed, Taken
    <3>6. \A t \in Sorters : indices'[t] \in Start(t) .. End(t)
      BY <1>1 DEF TakenInv
    <3>7. QED
      BY <1>1, <2>2, <3>1, <3>4, <3>5, <3>6 DEF TakenInv, Count
  <2>3. QED
    BY <2>1, <2>2
<1>5. RearrangedInv'
  BY <1>1 DEF RearrangedInv, Count
<1>6. SuccessIsTrue'
  BY <1>1 DEF SuccessIsTrue
<1>7. QED
  BY <1>3, <1>4, <1>5, <1>6 DEF MergeSortInv

\* The merge takes one more element, at the front of some segment.
LEMMA TakeOne ==
  ASSUME MergeSortInv, NEW t \in Sorters, indices[t] < End(t),
         indices' = [indices EXCEPT ![t] = @ + 1]
  PROVE  /\ indices[t] \in Index \ Consumed
         /\ Consumed' = Consumed \cup {indices[t]}
         /\ \A u \in Sorters : indices'[u] \in Start(u) .. End(u)
<1>1. /\ M \in Nat /\ Index = 0 .. M - 1 /\ Sorters \subseteq Int
      /\ indices \in [Sorters -> 0 .. M]
      /\ \A u \in Sorters : indices[u] \in Start(u) .. End(u)
      /\ \A u \in Sorters : Start(u) \in Nat /\ End(u) \in 0 .. M
      /\ \A u, w \in Sorters : u < w => End(u) <= Start(w)
  <2>1. /\ M \in Nat /\ Index = 0 .. M - 1 /\ Sorters \subseteq Int
    BY SizesAssumption DEF Index, Sorters
  <2>2. /\ indices \in [Sorters -> 0 .. M]
        /\ \A u \in Sorters : indices[u] \in Start(u) .. End(u)
    BY DEF MergeSortInv, TakenInv, SortTypeOK
  <2>3. QED
    BY <2>1, <2>2, Segments
<1>2. indices[t] \in Index
  BY <1>1
<1>3. indices[t] \notin Consumed
  <2> SUFFICES ASSUME NEW u \in Sorters, indices[t] \in Taken(u) PROVE FALSE
    BY DEF Consumed
  <2>1. u # t
    BY <1>1 DEF Taken
  <2>2. End(u) <= Start(t) \/ End(t) <= Start(u)
    BY <1>1, <2>1
  <2>3. QED
    BY <1>1, <2>2 DEF Taken
<1>4. \A u \in Sorters : indices'[u] = IF u = t THEN indices[t] + 1 ELSE indices[u]
  BY <1>1
<1>5. ASSUME NEW u \in Sorters
      PROVE  Taken(u)' = IF u = t THEN Taken(t) \cup {indices[t]} ELSE Taken(u)
  <2>1. Taken(u)' = Start(u) .. indices'[u] - 1
    BY DEF Taken
  <2>2. CASE u = t
    BY <1>1, <1>4, <2>1, <2>2 DEF Taken
  <2>3. CASE u # t
    BY <1>4, <2>1, <2>3 DEF Taken
  <2>4. QED
    BY <2>2, <2>3
<1>6. Consumed' = Consumed \cup {indices[t]}
  BY <1>2, <1>5 DEF Consumed
<1>7. QED
  BY <1>1, <1>2, <1>3, <1>4, <1>6

\* It becomes the last element of the new array.
LEMMA MergeStepTakes ==
  ASSUME MergeSortInv, MergeStep
  PROVE  MergeSortInv'
<1>1. PICK t \in Sorters :
        /\ indices[t] < End(t)
        /\ new_array' = [new_array EXCEPT ![merged] = array[indices[t]]]
        /\ indices' = [indices EXCEPT ![t] = @ + 1]
  BY DEF MergeStep, find_min_in_current_slice
<1>2. /\ SortTypeOK /\ ThreadsInv /\ RearrangedInv /\ TakenInv
      /\ sortpc = "merge" /\ merged \in Nat /\ merged < M /\ merged' = merged + 1
      /\ UNCHANGED <<input, array, sorter, sortpc, started>>
  BY SizesAssumption DEF MergeSortInv, MergeStep, SortTypeOK
<1>3. /\ indices[t] \in Index \ Consumed
      /\ Consumed' = Consumed \cup {indices[t]}
      /\ \A u \in Sorters : indices'[u] \in Start(u) .. End(u)
  BY <1>1, TakeOne
<1>4. M \in Nat /\ Index = 0 .. M - 1 /\ merged \in Index /\ IsFiniteSet(Index)
  BY <1>2, FS_Interval, SizesAssumption DEF Index
<1>5. /\ array[indices[t]] \in Value
      /\ new_array' \in [Index -> Value \cup {Garbage}]
      /\ new_array'[merged] = array[indices[t]]
      /\ \A n \in 0 .. merged - 1 : new_array'[n] = new_array[n]
  BY <1>1, <1>2, <1>3, <1>4 DEF SortTypeOK
<1>6. SortTypeOK'
  <2>1. indices' \in [Sorters -> 0 .. M]
    <3>1. \A u \in Sorters : indices'[u] \in 0 .. M
      BY <1>3, <1>4, Segments
    <3>2. QED
      BY <1>1, <1>2, <3>1 DEF SortTypeOK
  <2>2. QED
    BY <1>2, <1>4, <1>5, <2>1 DEF SortTypeOK
<1>7. ThreadsInv' /\ RearrangedInv' /\ SuccessIsTrue'
  BY <1>2 DEF ThreadsInv, RearrangedInv, Sorted, Count, SuccessIsTrue
<1>8. IsFiniteSet(Consumed) /\ IsFiniteSet(0 .. merged - 1)
  <2>1. Consumed \in SUBSET Index
    BY DEF Consumed
  <2>2. merged - 1 \in Int
    BY <1>2
  <2>3. IsFiniteSet(0 .. merged - 1)
    BY <2>2, FS_Interval
  <2>4. QED
    BY <1>4, <2>1, <2>3, FS_Subset
<1>9. Cardinality(Consumed') = merged'
  <2>1. Cardinality(Consumed \cup {indices[t]}) = Cardinality(Consumed) + 1
    BY <1>3, <1>8, FS_AddElement
  <2>2. QED
    BY <1>2, <1>3, <2>1 DEF TakenInv
<1>10. \A n \in 0 .. merged' - 1 : new_array'[n] \in Value
  BY <1>2, <1>5 DEF TakenInv
<1>11. ASSUME NEW v \in Value
       PROVE  Count(new_array', 0, merged', v) = Cardinality({n \in Consumed' : array[n] = v})
  <2> DEFINE p == array[indices[t]] = v
             OldTaken == {n \in Consumed : array[n] = v}
             NewTaken == {n \in Consumed' : array[n] = v}
             OldMerged == {n \in 0 .. merged - 1 : new_array[n] = v}
             NewMerged == {n \in 0 .. merged' - 1 : new_array'[n] = v}
  <2>1. OldTaken \in SUBSET Consumed /\ OldMerged \in SUBSET (0 .. merged - 1)
    OBVIOUS
  <2>2. IsFiniteSet(OldTaken) /\ IsFiniteSet(OldMerged)
    BY <1>8, <2>1, FS_Subset
  <2>3. indices[t] \notin OldTaken /\ NewTaken = IF p THEN OldTaken \cup {indices[t]} ELSE OldTaken
    BY <1>3
  <2>4. 0 .. merged' - 1 = (0 .. merged - 1) \cup {merged} /\ merged \notin 0 .. merged - 1
    BY <1>2
  <2>5. merged \notin OldMerged /\ NewMerged = IF p THEN OldMerged \cup {merged} ELSE OldMerged
    BY <1>5, <2>4
  <2>6. /\ Count(new_array, 0, merged, v) = Cardinality(OldMerged)
        /\ Count(new_array', 0, merged', v) = Cardinality(NewMerged)
    BY DEF Count
  <2>7. Cardinality(OldMerged) = Cardinality(OldTaken)
    BY <1>2, <2>6 DEF TakenInv
  <2> HIDE DEF OldTaken, NewTaken, OldMerged, NewMerged
  <2>8. Cardinality(NewTaken) = Cardinality(OldTaken) + (IF p THEN 1 ELSE 0)
    BY <2>2, <2>3, OneMore
  <2>9. Cardinality(NewMerged) = Cardinality(OldMerged) + (IF p THEN 1 ELSE 0)
    BY <2>2, <2>5, OneMore
  <2>10. Cardinality(NewMerged) = Cardinality(NewTaken)
    BY <2>7, <2>8, <2>9
  <2>11. QED
    BY <2>6, <2>10 DEF NewTaken
<1>12. TakenInv'
  <2>1. \A v \in Value :
          Count(new_array, 0, merged, v)' = Cardinality({n \in Consumed : array[n] = v})'
    BY <1>2, <1>11 DEF Count
  <2>2. QED
    BY <1>2, <1>3, <1>9, <1>10, <2>1 DEF TakenInv
<1>13. QED
  BY <1>6, <1>7, <1>12 DEF MergeSortInv

\* If no element is INT_MAX, none of the rearranged ones is.
LEMMA NoMaximumLeft ==
  ASSUME MergeSortInv, NoMaximum, NEW n \in Index
  PROVE  array[n] \in Nat /\ array[n] < INT_MAX
<1> DEFINE In(f) == {m \in Index : f[m] = INT_MAX}
<1>1. /\ M \in Nat /\ Index = 0 .. M - 1 /\ INT_MAX \in Value /\ INT_MAX \in Nat
      /\ array[n] \in Value /\ Value = 0 .. INT_MAX
  BY SizesAssumption DEF Index, Value, MergeSortInv, SortTypeOK
<1>2. Cardinality(In(array)) = Cardinality(In(input))
  BY <1>1 DEF MergeSortInv, RearrangedInv, Count
<1>3. In(input) = {}
  BY <1>1 DEF NoMaximum, MergeSortInv, SortTypeOK
<1>4. IsFiniteSet(In(array))
  <2>1. In(array) \in SUBSET Index /\ IsFiniteSet(Index)
    BY <1>1, FS_Interval
  <2>2. QED
    BY <2>1, FS_Subset
<1>5. In(array) = {}
  BY <1>2, <1>3, <1>4, FS_EmptySet
<1>6. array[n] # INT_MAX
  BY <1>5
<1>7. QED
  BY <1>1, <1>6

\* The search finds a segment if there is an element below INT_MAX at a front:
\* the first of those with the least one.
LEMMA MinimumFound ==
  ASSUME MergeSortInv, NEW t \in Sorters,
         indices[t] < End(t), array[indices[t]] < INT_MAX
  PROVE  \E u \in Sorters : find_min_in_current_slice(u)
<1> DEFINE Open == {u \in Sorters : indices[u] < End(u)}
           Fronts == {array[indices[u]] : u \in Open}
<1>1. \A u \in Open : array[indices[u]] \in Nat
  <2> SUFFICES ASSUME NEW u \in Open PROVE array[indices[u]] \in Nat
    OBVIOUS
  <2>1. /\ indices[u] \in 0 .. M /\ indices[u] < End(u) /\ End(u) \in 0 .. M
        /\ array \in [Index -> Value] /\ M \in Nat
    BY Segments, SizesAssumption DEF MergeSortInv, SortTypeOK
  <2>2. indices[u] \in Index
    BY <2>1 DEF Index
  <2>3. QED
    BY <2>1, <2>2, SizesAssumption DEF Value
<1>2. PICK least \in Fronts : \A x \in Fronts : least <= x
  <2>1. Fronts \in SUBSET Nat /\ Fronts # {}
    BY <1>1
  <2> HIDE DEF Fronts
  <2>2. QED
    BY <2>1, LeastOf
<1> DEFINE Least == {u \in Open : array[indices[u]] = least}
<1>3. PICK u \in Least : \A w \in Least : u <= w
  <2>1. Least \in SUBSET Nat /\ Least # {}
    BY <1>2, SizesAssumption DEF Sorters
  <2> HIDE DEF Least
  <2>2. QED
    BY <2>1, LeastOf
<1>4. least \in Nat /\ least <= array[indices[t]] /\ array[indices[t]] \in Nat
  BY <1>1, <1>2
<1>5. least < INT_MAX
  BY <1>4, SizesAssumption
<1>6. \A w \in Open : least < array[indices[w]] \/ (least = array[indices[w]] /\ u <= w)
  <2> SUFFICES ASSUME NEW w \in Open
               PROVE  least < array[indices[w]] \/ (least = array[indices[w]] /\ u <= w)
    OBVIOUS
  <2>1. least <= array[indices[w]] /\ array[indices[w]] \in Nat
    BY <1>1, <1>2
  <2>2. CASE least = array[indices[w]]
    BY <1>3, <2>2
  <2>3. CASE least # array[indices[w]]
    BY <1>4, <2>1, <2>3
  <2>4. QED
    BY <2>2, <2>3
<1>7. QED
  BY <1>3, <1>5, <1>6 DEF find_min_in_current_slice

\* So the merge stops only when it has taken everything.
LEMMA NothingLeft ==
  ASSUME MergeSortInv, NoMaximum, sortpc = "merge",
         merged = M \/ ~ \E t \in Sorters : find_min_in_current_slice(t)
  PROVE  merged = M /\ Consumed = Index
<1>1. /\ M \in Nat /\ Index = 0 .. M - 1
      /\ IsFiniteSet(Index) /\ Cardinality(Index) = M
      /\ Consumed \in SUBSET Index /\ Cardinality(Consumed) = merged
  BY FS_Interval, SizesAssumption DEF Index, Consumed, MergeSortInv, TakenInv
<1>2. CASE merged = M
  BY <1>1, <1>2, FS_Subset
<1>3. CASE ~ \E t \in Sorters : find_min_in_current_slice(t)
  <2>1. ASSUME NEW t \in Sorters PROVE indices[t] = End(t)
    <3> SUFFICES ASSUME indices[t] # End(t) PROVE FALSE
      OBVIOUS
    <3>1. indices[t] < End(t) /\ indices[t] \in Index
      BY <1>1, Segments DEF MergeSortInv, TakenInv
    <3>2. array[indices[t]] < INT_MAX
      BY <3>1, NoMaximumLeft
    <3>3. QED
      BY <1>3, <3>1, <3>2, MinimumFound
  <2>2. Consumed = Index
    <3> SUFFICES ASSUME NEW n \in Index PROVE n \in Consumed
      BY <1>1
    <3>1. PICK t \in Sorters : Start(t) <= n /\ n < End(t)
      BY Covered
    <3>2. n \in Taken(t)
      BY <1>1, <2>1, <3>1, Segments DEF Taken
    <3>3. QED
      BY <3>2 DEF Consumed
  <2>3. QED
    BY <1>1, <2>2
<1>4. QED
  BY <1>2, <1>3

\* check_sorting says yes to a sorted array, whose elements are those of the input.
LEMMA CheckStep ==
  ASSUME MergeSortInv, Check
  PROVE  MergeSortInv'
<1>1. PICK left \in [merged .. M - 1 -> Value] :
        new_array' = [n \in Index |-> IF n < merged THEN new_array[n] ELSE left[n]]
  BY DEF Check
<1>2. /\ SortTypeOK /\ ThreadsInv /\ RearrangedInv /\ TakenInv
      /\ sortpc = "merge" /\ merged \in 0 .. M /\ M \in Nat /\ Index = 0 .. M - 1
      /\ merged = M \/ ~ \E t \in Sorters : find_min_in_current_slice(t)
      /\ sortpc' = IF new_array' \in qsort(new_array', 0, M) THEN "successful" ELSE "unsorted"
      /\ UNCHANGED <<input, array, sorter, started, indices, merged>>
  BY SizesAssumption DEF MergeSortInv, Check, SortTypeOK, Index
<1>3. new_array' \in [Index -> Value]
  <2> SUFFICES ASSUME NEW n \in Index
               PROVE  (IF n < merged THEN new_array[n] ELSE left[n]) \in Value
    BY <1>1
  <2>1. CASE n < merged
    BY <1>2, <2>1 DEF TakenInv
  <2>2. CASE ~(n < merged)
    BY <1>1, <1>2, <2>2
  <2>3. QED
    BY <2>1, <2>2
<1>4. SortTypeOK'
  BY <1>2, <1>3 DEF SortTypeOK
<1>5. ThreadsInv' /\ RearrangedInv' /\ TakenInv'
  BY <1>2 DEF ThreadsInv, RearrangedInv, TakenInv, Sorted, Count
<1>6. SuccessIsTrue'
  <2> SUFFICES ASSUME sortpc' = "successful", NoMaximum
               PROVE  /\ Sorted(new_array', 0, M)
                      /\ \A v \in Value :
                           Count(new_array', 0, M, v) = Count(input, 0, M, v)
    BY <1>2 DEF SuccessIsTrue, NoMaximum, Sorted, Count
  <2>1. Sorted(new_array', 0, M)
    BY <1>2 DEF qsort
  <2>2. merged = M /\ Consumed = Index
    BY <1>2, NothingLeft
  <2>3. \A n \in 0 .. M - 1 : new_array'[n] = new_array[n]
    BY <1>1, <1>2, <2>2
  <2>4. ASSUME NEW v \in Value
        PROVE  Count(new_array', 0, M, v) = Count(input, 0, M, v)
    <3>1. Count(new_array', 0, M, v) = Count(new_array, 0, M, v)
      <4>1. {n \in 0 .. M - 1 : new_array'[n] = v} = {n \in 0 .. M - 1 : new_array[n] = v}
        BY <2>3
      <4>2. QED
        BY <4>1 DEF Count
    <3>2. Count(new_array, 0, M, v) = Cardinality({n \in Consumed : array[n] = v})
      BY <1>2, <2>2 DEF TakenInv
    <3>3. Count(array, 0, M, v) = Cardinality({n \in Consumed : array[n] = v})
      BY <1>2, <2>2 DEF Count
    <3>4. QED
      BY <1>2, <3>1, <3>2, <3>3 DEF RearrangedInv
  <2>5. QED
    BY <2>1, <2>4
<1>7. QED
  BY <1>4, <1>5, <1>6 DEF MergeSortInv

\* Every step keeps the invariant.
LEMMA MergeSortNext ==
  ASSUME MergeSortInv, [SortNext]_sortVars
  PROVE  MergeSortInv'
<1>1. CASE UNCHANGED sortVars
  BY <1>1 DEF sortVars, MergeSortInv, SortTypeOK, ThreadsInv, RearrangedInv, TakenInv, Consumed,
              Taken, Sorted, Count, SuccessIsTrue, NoMaximum
<1>2. CASE StartSorter \/ StartFails \/ JoinSorters
  BY <1>2, MainStep
<1>3. CASE MergeStep
  BY <1>3, MergeStepTakes
<1>4. CASE Check
  BY <1>4, CheckStep
<1>5. CASE SortStop
  BY <1>1, <1>5 DEF SortStop
<1>6. ASSUME NEW t \in Sorters, sort_subarray(t) PROVE MergeSortInv'
  BY <1>6, SortStep
<1>7. QED
  BY <1>1, <1>2, <1>3, <1>4, <1>5, <1>6 DEF SortNext

\* The invariant always holds.
LEMMA MergeSortAlways == SortSpec => []MergeSortInv
<1>1. SortInit => MergeSortInv
  BY MergeSortInit
<1>2. MergeSortInv /\ [SortNext]_sortVars => MergeSortInv'
  BY MergeSortNext
<1>3. QED
  BY <1>1, <1>2, PTL DEF SortSpec

\* "Sorting succesful" is printed for a sorted rearrangement of the input, also where
\* N does not divide M.
THEOREM SuccessMeansSorted == SortSpec => []SuccessIsTrue
<1>1. MergeSortInv => SuccessIsTrue
  BY DEF MergeSortInv
<1>2. QED
  BY <1>1, MergeSortAlways, PTL

\* Where N divides M main joins threads that have sorted all of the array.
THEOREM SegmentsAreSorted ==
  ASSUME M % NSorters = 0 PROVE SortSpec => []SortedWhenMerged
<1>1. MergeSortInv => SortedWhenMerged
  <2> SUFFICES ASSUME MergeSortInv, sortpc = "merge", NEW t \in Sorters
               PROVE  Sorted(array, Start(t), End(t))
    BY DEF SortedWhenMerged
  <2>1. sorter[t] = "done"
    BY SizesAssumption DEF MergeSortInv, ThreadsInv, SortTypeOK, Sorters
  <2>2. End(t) = Start(t) + Size
    BY Segments
  <2>3. QED
    BY <2>1, <2>2 DEF MergeSortInv, ThreadsInv
<1>2. QED
  BY <1>1, MergeSortAlways, PTL

\* The new array is sorted, and what is still to be taken is not less than what
\* has been: of each segment the front is least, and of the fronts the one taken.
OrderInv ==
  sortpc = "merge" =>
    /\ Sorted(new_array, 0, merged)
    /\ \A n \in 0 .. merged - 1, k \in Index \ Consumed : new_array[n] <= array[k]

\* The one that is taken is least of all that are left.
LEMMA FrontIsLeast ==
  ASSUME MergeSortInv, SortedWhenMerged, sortpc = "merge",
         NEW t \in Sorters, find_min_in_current_slice(t),
         NEW k \in Index \ Consumed
  PROVE  /\ array[indices[t]] \in Nat /\ array[k] \in Nat
         /\ array[indices[t]] <= array[k]
<1>1. PICK u \in Sorters : Start(u) <= k /\ k < End(u)
  BY Covered
<1>2. /\ M \in Nat /\ Index = 0 .. M - 1
      /\ indices[u] \in Start(u) .. End(u) /\ indices[t] \in 0 .. M
      /\ Start(u) \in Nat /\ End(u) \in 0 .. M /\ End(t) \in 0 .. M
      /\ array \in [Index -> Nat]
  BY Segments, SizesAssumption DEF MergeSortInv, TakenInv, SortTypeOK, Index, Value
<1>3. indices[u] <= k
  <2>1. k \notin Taken(u)
    BY DEF Consumed
  <2>2. QED
    BY <1>1, <1>2, <2>1 DEF Taken
<1>4. array[indices[u]] <= array[k]
  <2>1. Sorted(array, Start(u), End(u))
    BY DEF SortedWhenMerged
  <2>2. indices[u] \in Start(u) .. End(u) - 1 /\ k \in Start(u) .. End(u) - 1
    BY <1>1, <1>2, <1>3
  <2>3. QED
    BY <1>3, <2>1, <2>2 DEF Sorted
<1>5. indices[t] \in Index /\ indices[u] \in Index
  BY <1>1, <1>2, <1>3 DEF find_min_in_current_slice
<1>6. array[indices[t]] <= array[indices[u]]
  <2>1. indices[u] < End(u)
    BY <1>1, <1>2, <1>3
  <2>2. array[indices[t]] < array[indices[u]] \/ array[indices[t]] = array[indices[u]]
    BY <2>1 DEF find_min_in_current_slice
  <2>3. array[indices[t]] \in Nat /\ array[indices[u]] \in Nat
    BY <1>2, <1>5
  <2>4. QED
    BY <2>2, <2>3
<1>7. QED
  BY <1>2, <1>4, <1>5, <1>6

\* Every step keeps the order.
LEMMA OrderNext ==
  ASSUME MergeSortInv, SortedWhenMerged, OrderInv, [SortNext]_sortVars
  PROVE  OrderInv'
<1> SUFFICES ASSUME sortpc' = "merge" PROVE OrderInv'
  BY DEF OrderInv
<1>1. MergeSortInv'
  BY MergeSortNext
<1>2. CASE sortpc # "merge"
  <2>1. JoinSorters
    BY <1>2 DEF SortNext, sortVars, StartSorter, StartFails, MergeStep, Check,
                SortStop, sort_subarray
  <2>2. merged' = 0
    BY <1>2, <2>1 DEF JoinSorters, MergeSortInv, TakenInv
  <2>3. QED
    BY <2>2 DEF OrderInv, Sorted
<1>3. CASE sortpc = "merge" /\ ~MergeStep
  <2>1. UNCHANGED <<array, indices, new_array, merged>>
    BY <1>3 DEF SortNext, sortVars, StartSorter, StartFails, JoinSorters, Check,
                SortStop, sort_subarray, MergeSortInv, ThreadsInv
  <2>2. QED
    BY <1>3, <2>1 DEF OrderInv, Sorted, Consumed, Taken
<1>4. CASE sortpc = "merge" /\ MergeStep
  <2>1. PICK t \in Sorters :
          /\ find_min_in_current_slice(t)
          /\ new_array' = [new_array EXCEPT ![merged] = array[indices[t]]]
          /\ indices' = [indices EXCEPT ![t] = @ + 1]
    BY <1>4 DEF MergeStep
  <2>2. /\ merged \in Index /\ merged \in Nat /\ merged' = merged + 1
        /\ array' = array /\ Value \subseteq Nat
        /\ new_array'[merged] = array[indices[t]]
        /\ \A n \in 0 .. merged - 1 : new_array'[n] = new_array[n] /\ new_array[n] \in Value
    BY <1>4, <2>1, SizesAssumption DEF MergeStep, MergeSortInv, TakenInv, SortTypeOK, Index, Value
  <2>3. /\ indices[t] \in Index \ Consumed
        /\ Consumed' = Consumed \cup {indices[t]}
    BY <2>1, TakeOne DEF find_min_in_current_slice
  <2>4. /\ array[indices[t]] \in Nat
        /\ \A k \in Index \ Consumed : array[indices[t]] <= array[k]
    BY <1>4, <2>1, <2>3, FrontIsLeast
  <2>5. \A n \in 0 .. merged - 1 : new_array[n] <= array[indices[t]]
    BY <1>4, <2>3 DEF OrderInv
  <2>6. Sorted(new_array', 0, merged')
    <3> SUFFICES ASSUME NEW m \in 0 .. merged, NEW n \in 0 .. merged, m <= n
                 PROVE  new_array'[m] <= new_array'[n]
      BY <2>2 DEF Sorted
    <3>1. CASE n # merged
      <4>1. m \in 0 .. merged - 1 /\ n \in 0 .. merged - 1
        BY <2>2, <3>1
      <4>2. new_array[m] <= new_array[n]
        BY <1>4, <4>1 DEF OrderInv, Sorted
      <4>3. QED
        BY <2>2, <4>1, <4>2
    <3>2. CASE n = merged /\ m # merged
      BY <2>2, <2>5, <3>2
    <3>3. CASE n = merged /\ m = merged
      BY <2>2, <2>4, <3>3
    <3>4. QED
      BY <3>1, <3>2, <3>3
  <2>7. \A n \in 0 .. merged' - 1, k \in Index \ Consumed' : new_array'[n] <= array'[k]
    <3> SUFFICES ASSUME NEW n \in 0 .. merged, NEW k \in Index \ Consumed
                 PROVE  new_array'[n] <= array[k]
      BY <2>2, <2>3
    <3>1. CASE n = merged
      BY <2>2, <2>4, <3>1
    <3>2. CASE n # merged
      <4>1. n \in 0 .. merged - 1
        BY <2>2, <3>2
      <4>2. QED
        BY <1>4, <2>2, <4>1 DEF OrderInv
    <3>3. QED
      BY <3>1, <3>2
  <2>8. QED
    BY <2>6, <2>7 DEF OrderInv, Sorted
<1>5. QED
  BY <1>2, <1>3, <1>4

\* Where N divides M and no element is INT_MAX, "Sorting failed" is never printed.
THEOREM NeverUnsorted ==
  ASSUME M % NSorters = 0 PROVE SortSpec => [](NoMaximum => sortpc # "unsorted")
<1> DEFINE Good == NoMaximum => sortpc # "unsorted"
<1>1. SortInit => OrderInv /\ Good
  BY DEF SortInit, OrderInv
<1>2. /\ MergeSortInv /\ SortedWhenMerged /\ OrderInv /\ Good /\ [SortNext]_sortVars
      => OrderInv' /\ Good'
  <2> SUFFICES ASSUME MergeSortInv, SortedWhenMerged, OrderInv, Good, [SortNext]_sortVars
               PROVE  OrderInv' /\ Good'
    OBVIOUS
  <2>1. OrderInv'
    BY OrderNext
  <2>2. CASE ~Check
    BY <2>1, <2>2 DEF SortNext, sortVars, StartSorter, StartFails, JoinSorters, MergeStep,
                SortStop, sort_subarray, NoMaximum
  <2>3. CASE Check
    <3> SUFFICES ASSUME NoMaximum PROVE sortpc' = "successful"
      BY <2>1, <2>3 DEF Check, NoMaximum
    <3>1. MergeSortInv' /\ SortTypeOK
      BY <2>3, CheckStep DEF MergeSortInv
    <3>2. /\ sortpc = "merge" /\ merged = M /\ M \in Nat /\ Index = 0 .. M - 1
      BY <2>3, NothingLeft, SizesAssumption DEF Check, Index
    <3>3. Sorted(new_array, 0, M)
      BY <3>2 DEF OrderInv
    <3>4. /\ new_array' \in [Index -> Value]
          /\ \A n \in Index : new_array'[n] = new_array[n]
      BY <2>3, <3>2 DEF Check, MergeSortInv, TakenInv, SortTypeOK
    <3>5. Sorted(new_array', 0, M)
      BY <3>2, <3>3, <3>4 DEF Sorted
    <3>6. new_array' \in qsort(new_array', 0, M)
      BY <3>4, <3>5 DEF qsort
    <3>7. QED
      BY <2>3, <3>6 DEF Check
  <2>4. QED
    BY <2>1, <2>2, <2>3
<1>3. QED
  BY <1>1, <1>2, MergeSortAlways, SegmentsAreSorted, PTL DEF SortSpec
=============================================================================
