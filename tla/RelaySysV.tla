----------------------------- MODULE RelaySysV -----------------------------
(***************************************************************************)
(* The relay race over a System V message queue                            *)
(* (sems/5week/relay_raceSysV.c): N runners report to a judge, the judge   *)
(* starts runner 1, every runner passes the baton to the next, the last    *)
(* one to the judge.  Reports, start signal and batons share one queue,    *)
(* and a runner's report has the type that runner itself then waits for.   *)
(***************************************************************************)
EXTENDS Integers, Sequences, SequencesExt, FiniteSets

CONSTANTS
  N,             \* how many runners
  MaxForkFails   \* how many fork() calls may fail

ASSUME RaceAssumption == N \in Nat \ {0} /\ MaxForkFails \in Nat

Runners == 1 .. N

VARIABLES
  queue,          \* the messages, oldest first; emptied by IPC_RMID
  valid,          \* did msgget succeed?
  forked,         \* main: how many of its N + 1 fork() calls it has made
  jpc,            \* where the judge is
  runners_ready,  \* its counter
  heard,          \* the runners whose number it has printed
  rpc,            \* where each runner is
  hand,           \* msg.number of each runner
  forkFails

vars == <<queue, valid, forked, jpc, runners_ready, heard, rpc, hand, forkFails>>

msg(t, n) == [mtype |-> t, number |-> n]

Init ==
  /\ queue = <<>> /\ valid \in BOOLEAN
  /\ forked = 0 /\ forkFails = 0
  /\ jpc = "unborn" /\ runners_ready = 0 /\ heard = {}
  /\ rpc = [n \in Runners |-> "unborn"] /\ hand = [n \in Runners |-> n]

msgsnd(m) == valid /\ queue' = Append(queue, m)

\* msgrcv with type t: the oldest message of that type, or of any if t = 0.
msgrcv(t, i) ==
  /\ valid /\ i \in DOMAIN queue
  /\ t \in {0, queue[i].mtype}
  /\ \A k \in 1 .. i - 1 : t \notin {0, queue[k].mtype}
  /\ queue' = RemoveAt(queue, i)

-----------------------------------------------------------------------------
(* judge                                                                   *)

Mutant_JudgeReceive ==
  /\ jpc = "gather"
  /\ \E i \in DOMAIN queue : msgrcv(0, i) /\ heard' = heard \cup {queue[i].number}
  /\ runners_ready' = runners_ready + 1
  /\ jpc' = IF runners_ready' >= N - 1 THEN "signal" ELSE "gather"
  /\ UNCHANGED <<valid, forked, rpc, hand, forkFails>>

\* One turn of the while loop.  A failed msgrcv is only reported.
JudgeReceive ==
  /\ jpc = "gather"
  /\ \E i \in DOMAIN queue : msgrcv(0, i) /\ heard' = heard \cup {queue[i].number}
  /\ runners_ready' = runners_ready + 1
  /\ jpc' = IF runners_ready' < N THEN "gather" ELSE "signal"
  /\ UNCHANGED <<valid, forked, rpc, hand, forkFails>>

JudgeReceiveFails == jpc = "gather" /\ ~valid /\ UNCHANGED vars

Mutant_JudgeSignal ==
  /\ jpc = "signal"
  /\ valid /\ queue' = queue \o [n \in Runners |-> msg(n, n)]
  /\ jpc' = "await"
  /\ UNCHANGED <<valid, forked, runners_ready, heard, rpc, hand, forkFails>>

\* "All runners are ready, start the relay race".  The signal carries the
\* number of the last report, which nobody reads any more.
JudgeSignal ==
  /\ jpc = "signal"
  /\ \E n \in heard : msgsnd(msg(1, n))
  /\ jpc' = "await"
  /\ UNCHANGED <<valid, forked, runners_ready, heard, rpc, hand, forkFails>>

Mutant_JudgeFinish ==
  /\ jpc = "await"
  /\ \E i \in DOMAIN queue : msgrcv(N, i)
  /\ jpc' = "exited"
  /\ UNCHANGED <<valid, forked, runners_ready, heard, rpc, hand, forkFails>>

\* "Last runner finished".
JudgeFinish ==
  /\ jpc = "await"
  /\ \E i \in DOMAIN queue : msgrcv(N + 1, i)
  /\ jpc' = "exited"
  /\ UNCHANGED <<valid, forked, runners_ready, heard, rpc, hand, forkFails>>

Judge == JudgeReceive \/ JudgeReceiveFails \/ JudgeSignal \/ JudgeFinish

-----------------------------------------------------------------------------
(* runner                                                                  *)

Ready(r) ==
  /\ rpc[r] = "created"
  /\ \/ msgsnd(msg(r, r)) /\ rpc' = [rpc EXCEPT ![r] = "waiting"]
     \/ ~valid /\ rpc' = [rpc EXCEPT ![r] = "exited"] /\ UNCHANGED queue
  /\ UNCHANGED <<valid, forked, jpc, runners_ready, heard, hand, forkFails>>

Start(r) ==
  /\ rpc[r] = "waiting"
  /\ \E i \in DOMAIN queue :
       msgrcv(r, i) /\ hand' = [hand EXCEPT ![r] = queue[i].number]
  /\ rpc' = [rpc EXCEPT ![r] = "running"]
  /\ UNCHANGED <<valid, forked, jpc, runners_ready, heard, forkFails>>

Finish(r) ==
  /\ rpc[r] = "running"
  /\ msgsnd(msg(r + 1, hand[r]))
  /\ rpc' = [rpc EXCEPT ![r] = "exited"]
  /\ UNCHANGED <<valid, forked, jpc, runners_ready, heard, hand, forkFails>>

Runner(r) == Ready(r) \/ Start(r) \/ Finish(r)

-----------------------------------------------------------------------------
(* main forks the judge and then the runners.  fork() = -1 is not 0, so a  *)
(* process that could not be created is simply missing.                    *)

Fork ==
  /\ forked <= N /\ forked' = forked + 1
  /\ \/ /\ IF forked = 0 THEN jpc' = "gather" /\ UNCHANGED rpc
                         ELSE rpc' = [rpc EXCEPT ![forked] = "created"] /\ UNCHANGED jpc
        /\ UNCHANGED forkFails
     \/ /\ forkFails < MaxForkFails /\ forkFails' = forkFails + 1
        /\ UNCHANGED <<jpc, rpc>>
  /\ UNCHANGED <<queue, valid, runners_ready, heard, hand>>

\* N + 1 calls of wait() outlast every child; then IPC_RMID, and main returns.
RemoveQueue ==
  /\ forked = N + 1 /\ forked' = N + 2
  /\ jpc \in {"unborn", "exited"}
  /\ \A r \in Runners : rpc[r] \in {"unborn", "exited"}
  /\ queue' = <<>>
  /\ UNCHANGED <<valid, jpc, runners_ready, heard, rpc, hand, forkFails>>

Main == Fork \/ RemoveQueue

Next == Judge \/ Main \/ \E r \in Runners : Runner(r)

Spec == Init /\ [][Next]_vars

\* Every process that can run does; a message for a waiting process reaches it.
FairSpec ==
  Spec /\ WF_vars(Judge) /\ WF_vars(Main) /\ \A r \in Runners : WF_vars(Runner(r))

-----------------------------------------------------------------------------
(* Properties.                                                             *)

Running == {r \in Runners : rpc[r] = "running"}

TypeOK ==
  /\ queue \in Seq([mtype : 1 .. N + 1, number : Runners]) /\ valid \in BOOLEAN
  /\ forked \in 0 .. N + 2 /\ forkFails \in 0 .. MaxForkFails
  /\ jpc \in {"unborn", "gather", "signal", "await", "exited"}
  /\ runners_ready \in 0 .. N /\ heard \in SUBSET Runners
  /\ rpc \in [Runners -> {"unborn", "created", "waiting", "running", "exited"}]
  /\ hand \in [Runners -> Runners]

\* Runners may take their own reports and the judge batons for reports.  Still,
\* when it says that all runners are ready it has heard each of them, and
\* nothing is left in the queue or in their hands to be taken for the signal.
AnnouncedMeansReady ==
  jpc = "signal" =>
    /\ heard = Runners
    /\ \A r \in Runners : rpc[r] \in {"waiting", "exited"}
    /\ queue = <<>>

\* After the signal there is one baton: in the queue, or with one runner.
OneBaton ==
  jpc = "await" => Len(queue) + Cardinality(Running) = 1

\* The race is run to its end if nobody has left before the signal.
RaceFinishes ==
  (jpc = "await" /\ \A r \in Runners : rpc[r] = "waiting") ~> (forked = N + 2)
=============================================================================
