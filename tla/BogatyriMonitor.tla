--------------------------- MODULE BogatyriMonitor ---------------------------
(***************************************************************************)
(* The bogatyri as threads (sems/bogatyri/main.c): N threads number        *)
(* themselves, wait until all have a number, then say a song, thread n     *)
(* saying the letters whose code is n.  One mutex guards everything, so a  *)
(* critical section is one action; pthread_cond_wait ends one and the      *)
(* return from it starts another.                                          *)
(***************************************************************************)
EXTENDS Integers, Sequences

CONSTANTS
  N,       \* how many threads
  Songs    \* the lines main may read: sequences of letter codes, none of them 0

ASSUME ThreadsAssumption == N \in Nat \ {0}
ASSUME SongsAssumption == Songs \subseteq Seq(Nat \ {0})

Threads == 1 .. N    \* in the order main creates them
Terminal == 0        \* '\0'
NoNumber == -1

VARIABLES
  song,           \* string_buffer, up to its terminating zero
  last_assigned, thread_count, current_char, str_next_ind,   \* monitor_t
  number,         \* my_number of each thread
  tpc,            \* where each thread is
  created, mpc,   \* main: how many threads it has created, where it is
  said            \* what the threads have said

monitor == <<last_assigned, thread_count, current_char, str_next_ind>>
vars == <<song, monitor, number, tpc, created, mpc, said>>

Init ==
  /\ song \in Songs
  /\ last_assigned = -1 /\ thread_count = 0
  /\ current_char = Terminal /\ str_next_ind = 0
  /\ number = [t \in Threads |-> NoNumber]
  /\ tpc = [t \in Threads |-> "unborn"]
  /\ created = 0 /\ mpc = "create" /\ said = <<>>

Mutant_read_next_char ==
  /\ str_next_ind' = str_next_ind + 1
  /\ current_char' = IF str_next_ind' < Len(song) THEN song[str_next_ind' + 1] ELSE Terminal

read_next_char ==
  /\ current_char' = IF str_next_ind < Len(song) THEN song[str_next_ind + 1] ELSE Terminal
  /\ str_next_ind' = IF str_next_ind < Len(song) + 1 THEN str_next_ind + 1 ELSE str_next_ind

\* Where a thread is after pthread_cond_broadcast.
woken(p) == CASE p = "barrier_asleep" -> "barrier"
              [] p = "asleep"         -> "loop"
              [] OTHER                -> p

\* t goes to p and everybody who waits is woken.
Broadcast(t, p) == tpc' = [u \in Threads |-> IF u = t THEN p ELSE woken(tpc[u])]

-----------------------------------------------------------------------------
(* bogatyr                                                                 *)

Mutant_acquire_thread_number(t) ==
  /\ tpc[t] = "acquire"
  /\ last_assigned' = last_assigned + 1 /\ thread_count' = thread_count + 1
  /\ number' = [number EXCEPT ![t] = last_assigned']
  /\ Broadcast(t, "barrier") /\ read_next_char
  /\ UNCHANGED <<song, created, mpc, said>>

acquire_thread_number(t) ==
  /\ tpc[t] = "acquire"
  /\ last_assigned' = last_assigned + 1 /\ thread_count' = thread_count + 1
  /\ number' = [number EXCEPT ![t] = last_assigned']
  /\ IF thread_count' = N
       THEN Broadcast(t, "barrier") /\ read_next_char
       ELSE /\ tpc' = [tpc EXCEPT ![t] = "barrier"]
            /\ UNCHANGED <<current_char, str_next_ind>>
  /\ UNCHANGED <<song, created, mpc, said>>

Mutant_Barrier(t) ==
  /\ tpc[t] = "barrier"
  /\ tpc' = [tpc EXCEPT ![t] = IF thread_count # N THEN "barrier_asleep" ELSE "loop"]
  /\ UNCHANGED <<song, monitor, number, created, mpc, said>>

\* while (thread_count < N) pthread_cond_wait(...)
Barrier(t) ==
  /\ tpc[t] = "barrier"
  /\ tpc' = [tpc EXCEPT ![t] = IF thread_count < N THEN "barrier_asleep" ELSE "loop"]
  /\ UNCHANGED <<song, monitor, number, created, mpc, said>>

Leave(t) ==
  /\ tpc[t] = "loop" /\ current_char = Terminal
  /\ Broadcast(t, "done")
  /\ UNCHANGED <<song, monitor, number, created, mpc, said>>

Sleep(t) ==
  /\ tpc[t] = "loop" /\ current_char \notin {Terminal, number[t]}
  /\ tpc' = [tpc EXCEPT ![t] = "asleep"]
  /\ UNCHANGED <<song, monitor, number, created, mpc, said>>

Mutant_Say(t) ==
  /\ tpc[t] = "loop" /\ current_char # Terminal /\ current_char = number[t]
  /\ said' = Append(said, number[t])
  /\ read_next_char /\ UNCHANGED tpc
  /\ UNCHANGED <<song, last_assigned, thread_count, number, created, mpc>>

Say(t) ==
  /\ tpc[t] = "loop" /\ current_char # Terminal /\ current_char = number[t]
  /\ said' = Append(said, number[t])
  /\ read_next_char /\ Broadcast(t, "loop")
  /\ UNCHANGED <<song, last_assigned, thread_count, number, created, mpc>>

SpuriousWakeup(t) ==
  /\ tpc[t] \in {"barrier_asleep", "asleep"}
  /\ tpc' = [tpc EXCEPT ![t] = woken(@)]
  /\ UNCHANGED <<song, monitor, number, created, mpc, said>>

Bogatyr(t) ==
  acquire_thread_number(t) \/ Barrier(t) \/ Leave(t) \/ Sleep(t) \/ Say(t)

-----------------------------------------------------------------------------
(* main                                                                    *)

CreateThread ==
  /\ mpc = "create" /\ created' = created + 1
  /\ tpc' = [tpc EXCEPT ![created'] = "acquire"]
  /\ mpc' = IF created' < N THEN "create" ELSE "join"
  /\ UNCHANGED <<song, monitor, number, said>>

\* pthread_create fails: pretend that all threads exist and wake the waiting.
CreateFails ==
  /\ mpc = "create" /\ mpc' = "join_failed"
  /\ thread_count' = N
  /\ tpc' = [u \in Threads |-> woken(tpc[u])]
  /\ UNCHANGED <<song, last_assigned, current_char, str_next_ind, number, created, said>>

Join ==
  /\ mpc \in {"join", "join_failed"}
  /\ \A t \in 1 .. created : tpc[t] = "done"
  /\ mpc' = IF mpc = "join" THEN "finished" ELSE "failed"
  /\ UNCHANGED <<song, monitor, number, tpc, created, said>>

Main == CreateThread \/ CreateFails \/ Join

Stop == mpc \in {"finished", "failed"} /\ UNCHANGED vars

\* A letter no thread has puts everybody to sleep for good; only a spurious
\* wakeup interrupts that.
Next == Main \/ Stop \/ \E t \in Threads : Bogatyr(t) \/ SpuriousWakeup(t)

Spec == Init /\ [][Next]_vars

\* Every runnable thread gets the CPU and, while it asks for it, the mutex.
FairSpec == Spec /\ WF_vars(Main) /\ \A t \in Threads : WF_vars(Bogatyr(t))

-----------------------------------------------------------------------------
(* Properties.                                                             *)

TypeOK ==
  /\ song \in Songs /\ said \in Seq(Nat)
  /\ last_assigned \in -1 .. N - 1 /\ thread_count \in 0 .. 2 * N
  /\ current_char \in Nat /\ str_next_ind \in 0 .. Len(song) + 1
  /\ number \in [Threads -> NoNumber .. N - 1]
  /\ tpc \in [Threads -> {"unborn", "acquire", "barrier", "barrier_asleep",
                          "loop", "asleep", "done"}]
  /\ created \in 0 .. N /\ mpc \in {"create", "join", "join_failed", "finished", "failed"}

\* Through every broadcast, spurious wakeup and failed pthread_create the
\* threads say the song of Song, and main reports that all characters were
\* processed only when they are.
TheSong == INSTANCE Song WITH over <- mpc = "finished"
SongSpec == TheSong!Spec

\* Nobody speaks, and nobody gets past the barrier with a song to say, before
\* every thread has a number of its own.
AllNumberedFirst ==
  current_char # Terminal =>
    \A t, u \in Threads : /\ number[t] # NoNumber
                          /\ number[t] = number[u] => t = u

\* The thread whose letter is next is never asleep in the loop, and no thread
\* is asleep at the barrier once it is open: one broadcast serves everybody.
NoLostWakeup ==
  \A t \in Threads :
    /\ tpc[t] = "asleep" => current_char # number[t] /\ current_char # Terminal
    /\ tpc[t] = "barrier_asleep" => thread_count < N

\* If every letter has a thread main returns, also when it fails to create one.
Returns ==
  (\A i \in DOMAIN song : song[i] < N) ~> (mpc \in {"finished", "failed"})
=============================================================================
