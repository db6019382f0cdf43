---------------------------- MODULE BogatyriMsgq ----------------------------
(***************************************************************************)
(* The bogatyri as processes with a System V message queue                 *)
(* (sems/bogatyri/msgq_bogatyri.c).  Every child registers its pid in a    *)
(* file, waits until all have, and takes as rank its place among the       *)
(* sorted pids.  The process of rank n says the letters of code n, and     *)
(* sends the index of the next letter to the process whose turn it is.     *)
(* Whoever learns that the song is over tells everybody else, without      *)
(* waiting for room in the queue.  A child whose files or queue fail leaves*)
(* with exit(1) and tells nobody.                                          *)
(***************************************************************************)
EXTENDS Integers, Sequences, FiniteSets, Functions

CONSTANTS
  Pids,         \* the pids of the children
  Songs,        \* the lines main may read: sequences of letter codes
  QueueLimit    \* how many messages the kernel's queue holds

ASSUME PidsAssumption == Pids \subseteq Nat /\ IsFiniteSet(Pids) /\ Pids # {}
ASSUME SongsAssumption == Songs \subseteq Seq(Nat \ {0})
ASSUME LimitAssumption == QueueLimit \in Nat \ {0}

N      == Cardinality(Pids)   \* total_processes
Ranks  == 0 .. N - 1
Nobody == N                   \* stands for every rank no process has
EOF    == -1

VARIABLES
  song,       \* input_str
  registry,   \* the pids in REGISTRY_FILE
  queue,      \* for each rank, the messages of type rank + 1, oldest first
  pc, rank, index,   \* of each child: "failed" after exit(1); current_index
  target,     \* the loop variable of broadcast_eof_to_all
  mpc, said,
  dropped     \* has a msgsnd() failed, and its message been lost?

vars == <<song, registry, queue, pc, rank, index, target, mpc, said, dropped>>

Init ==
  /\ song \in Songs /\ registry = {} /\ said = <<>>
  /\ queue = [r \in 0 .. N |-> <<>>]
  /\ pc = [p \in Pids |-> "unborn"] /\ rank = [p \in Pids |-> Nobody]
  /\ index = [p \in Pids |-> 0] /\ target = [p \in Pids |-> 0]
  /\ mpc = "launch" /\ dropped = FALSE

Full == FoldFunction(LAMBDA q, n : n + Len(q), 0, queue) >= QueueLimit

To(p, label) == pc' = [pc EXCEPT ![p] = label]

Over(p) == index[p] >= Len(song)

\* The rank of the process that says letter i of the song.
Turn(i) == IF song[i + 1] < N THEN song[i + 1] ELSE Nobody

-----------------------------------------------------------------------------
(* get_my_rank                                                             *)

\* The append is one write() under the lock of LOCK_FILE.
register_pid_in_file(p) ==
  /\ pc[p] = "register" /\ To(p, "poll")
  /\ registry' = registry \cup {p}
  /\ UNCHANGED <<song, queue, rank, index, target, mpc, said, dropped>>

\* open() of the lock or fopen() of the registry fails.
register_pid_fails(p) ==
  /\ pc[p] = "register" /\ To(p, "failed")
  /\ UNCHANGED <<song, registry, queue, rank, index, target, mpc, said, dropped>>

\* wait_for_all_registrations polls the file without the lock; then its pids
\* are read again, sorted and searched.  With N lines in the file there are N
\* pids, its own among them.
get_my_rank(p) ==
  /\ pc[p] = "poll" /\ Cardinality(registry) >= N
  /\ rank' = [rank EXCEPT ![p] = Cardinality({q \in registry : q < p})]
  /\ To(p, IF song = <<>> THEN "eof" ELSE "loop")
  /\ UNCHANGED <<song, registry, queue, index, target, mpc, said, dropped>>

\* The file cannot be opened again, or after that the queue: exit(1).
get_my_rank_fails(p) ==
  /\ pc[p] = "poll" /\ Cardinality(registry) >= N /\ To(p, "failed")
  /\ UNCHANGED <<song, registry, queue, rank, index, target, mpc, said, dropped>>

-----------------------------------------------------------------------------
(* process_string_loop                                                     *)

Mutant_Say(p) ==
  /\ pc[p] \in {"loop", "say"} /\ ~Over(p)
  /\ said' = Append(said, song[index[p] + 1])
  /\ index' = [index EXCEPT ![p] = @ + 1]
  /\ To(p, "say")
  /\ UNCHANGED <<song, registry, queue, rank, target, mpc, dropped>>

\* One letter of process_my_characters_sequence, printed and flushed.
Say(p) ==
  /\ pc[p] \in {"loop", "say"} /\ ~Over(p) /\ Turn(index[p]) = rank[p]
  /\ said' = Append(said, song[index[p] + 1])
  /\ index' = [index EXCEPT ![p] = @ + 1]
  /\ To(p, "say")
  /\ UNCHANGED <<song, registry, queue, rank, target, mpc, dropped>>

\* send_message_to_process waits for room in the queue.
Pass(p) ==
  /\ pc[p] = "say" /\ ~Over(p) /\ Turn(index[p]) # rank[p]
  /\ ~Full
  /\ queue' = [queue EXCEPT ![Turn(index[p])] = Append(@, index[p])]
  /\ To(p, "loop")
  /\ UNCHANGED <<song, registry, rank, index, target, mpc, said, dropped>>

\* Any other failure of msgsnd() is printed, and the turn is lost.
PassFails(p) ==
  /\ pc[p] = "say" /\ ~Over(p) /\ Turn(index[p]) # rank[p]
  /\ dropped' = TRUE /\ To(p, "loop")
  /\ UNCHANGED <<song, registry, queue, rank, index, target, mpc, said>>

\* receive_message_for_me
Receive(p) ==
  /\ pc[p] = "loop" /\ ~Over(p) /\ Turn(index[p]) # rank[p]
  /\ queue[rank[p]] # <<>>
  /\ LET i == Head(queue[rank[p]])
     IN  IF i = EOF THEN To(p, "eof") /\ UNCHANGED index
                    ELSE index' = [index EXCEPT ![p] = i] /\ UNCHANGED pc
  /\ queue' = [queue EXCEPT ![rank[p]] = Tail(@)]
  /\ UNCHANGED <<song, registry, rank, target, mpc, said, dropped>>

\* msgrcv() fails: exit(1).
ReceiveFails(p) ==
  /\ pc[p] = "loop" /\ ~Over(p) /\ Turn(index[p]) # rank[p]
  /\ To(p, "failed")
  /\ UNCHANGED <<song, registry, queue, rank, index, target, mpc, said, dropped>>

SongOver(p) ==
  /\ pc[p] = "say" /\ Over(p) /\ To(p, "eof")
  /\ UNCHANGED <<song, registry, queue, rank, index, target, mpc, said, dropped>>

\* IPC_NOWAIT: with the queue full the message is lost, as on any other error.
SendEOF(p) ==
  \/ /\ ~Full /\ queue' = [queue EXCEPT ![target[p]] = Append(@, EOF)]
     /\ UNCHANGED dropped
  \/ dropped' = TRUE /\ UNCHANGED queue

Mutant_broadcast_eof_to_all(p) ==
  /\ pc[p] = "eof"
  /\ IF target[p] = rank[p] THEN UNCHANGED <<queue, dropped>> ELSE SendEOF(p)
  /\ target' = [target EXCEPT ![p] = @ + 1]
  /\ To(p, IF target[p] >= N - 2 THEN "exited" ELSE "eof")
  /\ UNCHANGED <<song, registry, rank, index, mpc, said>>

\* One turn of the loop.
broadcast_eof_to_all(p) ==
  /\ pc[p] = "eof"
  /\ IF target[p] = rank[p] THEN UNCHANGED <<queue, dropped>> ELSE SendEOF(p)
  /\ target' = [target EXCEPT ![p] = @ + 1]
  /\ To(p, IF target[p] = N - 1 THEN "exited" ELSE "eof")
  /\ UNCHANGED <<song, registry, rank, index, mpc, said>>

Child(p) ==
  \/ register_pid_in_file(p) \/ get_my_rank(p) \/ Say(p) \/ Pass(p)
  \/ Receive(p) \/ SongOver(p) \/ broadcast_eof_to_all(p)

CallFails(p) ==
  \/ register_pid_fails(p) \/ get_my_rank_fails(p) \/ PassFails(p)
  \/ ReceiveFails(p)

-----------------------------------------------------------------------------
(* main                                                                    *)

Launch ==
  /\ mpc = "launch"
  /\ \E p \in Pids : pc[p] = "unborn" /\ To(p, "register")
  /\ mpc' = IF \E p \in Pids : pc'[p] = "unborn" THEN "launch" ELSE "wait"
  /\ UNCHANGED <<song, registry, queue, rank, index, target, said, dropped>>

\* fork() fails: main exits at once and leaves the children and the queue.
LaunchFails ==
  /\ mpc = "launch" /\ mpc' = "failed"
  /\ UNCHANGED <<song, registry, queue, pc, rank, index, target, said, dropped>>

\* wait_for_all_children, cleanup_system_resources
CleanUp ==
  /\ mpc = "wait" /\ mpc' = "finished"
  /\ \A p \in Pids : pc[p] \in {"exited", "failed"}
  /\ queue' = [r \in 0 .. N |-> <<>>] /\ registry' = {}
  /\ UNCHANGED <<song, pc, rank, index, target, said, dropped>>

Main == Launch \/ LaunchFails \/ CleanUp

Next == Main \/ \E p \in Pids : Child(p) \/ CallFails(p)

Spec == Init /\ [][Next]_vars

\* Every process that can run does, and a message for it reaches it.
FairSpec == Spec /\ WF_vars(Main) /\ \A p \in Pids : WF_vars(Child(p))

-----------------------------------------------------------------------------
(* Properties.                                                             *)

TypeOK ==
  /\ song \in Songs /\ registry \in SUBSET Pids /\ said \in Seq(Nat)
  /\ DOMAIN queue = 0 .. N
  /\ \A r \in 0 .. N : queue[r] \in Seq(EOF .. Len(song) - 1)
  /\ pc \in [Pids -> {"unborn", "register", "poll", "loop", "say", "eof", "exited",
                      "failed"}]
  /\ rank \in [Pids -> 0 .. N] /\ index \in [Pids -> 0 .. Len(song)]
  /\ target \in [Pids -> 0 .. N]
  /\ mpc \in {"launch", "wait", "failed", "finished"} /\ dropped \in BOOLEAN

\* Each child computes the ranks for itself from a file the others still write,
\* and the index travels through the queue and through local variables that are
\* stale most of the time; yet what is said is the song of Song, and the end is
\* sent, received and acted upon only when it has been.
TheSong == INSTANCE Song WITH over <- \E p \in Pids : pc[p] \in {"eof", "exited"}
SongSpec == TheSong!Spec

Singable == \A i \in DOMAIN song : song[i] < N

\* If every letter has a process, main returns, unless fork() failed, a message
\* was lost, or a child left early: then the others may poll the registry or
\* wait for a turn for ever, and main for them.
Returns ==
  Singable ~> \/ mpc \in {"finished", "failed"} \/ dropped
              \/ \E p \in Pids : pc[p] = "failed"
=============================================================================
