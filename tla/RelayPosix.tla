----------------------------- MODULE RelayPosix -----------------------------
(***************************************************************************)
(* The relay race over a POSIX message queue                               *)
(* (sems/5week/relay_racePOSIX.c).  The types of RelaySysV are priorities  *)
(* here, and mq_receive cannot select one: it takes the most urgent        *)
(* message, and mq_receive_with_set_prio puts back what it did not want.   *)
(* Message bodies are never read, so a message is its priority.            *)
(***************************************************************************)
EXTENDS Integers, FiniteSets

CONSTANTS
  N,             \* runners_number
  MaxMsg,        \* mq_maxmsg
  Races,         \* K
  MaxForkFails   \* how many fork() calls may fail

ASSUME QueueAssumption == N \in Nat \ {0} /\ MaxMsg \in Nat \ {0}
ASSUME RacesAssumption == Races \in Nat \ {0} /\ MaxForkFails \in Nat

Runners == 1 .. N
Judge   == N + 1              \* the judge waits for priority N + 1
Prio    == 1 .. N + 1

VARIABLES
  queue,          \* how many messages of each priority are queued
  valid,          \* did mq_open succeed?
  pc,             \* where each runner, and the judge, is
  hand,           \* the priority of a message to be put back, or 0
  runners_ready,  \* the judge's counter
  forked, forkFails,   \* relay_race's fork() calls, and the ones that failed
  race            \* how many races are over

main == <<forked, forkFails, race>>
vars == <<queue, valid, pc, hand, runners_ready, main>>

Blank ==
  [queue |-> [p \in Prio |-> 0], pc |-> [x \in Prio |-> "unborn"], hand |-> [x \in Prio |-> 0]]

Init ==
  /\ queue = Blank.queue /\ valid \in BOOLEAN
  /\ pc = Blank.pc /\ hand = Blank.hand /\ runners_ready = 0
  /\ forked = 0 /\ forkFails = 0 /\ race = 0

\* The i-th of the messages of priority p, and how many there are in all.
Copies == {c \in Prio \X (1 .. MaxMsg) : c[2] <= queue[c[1]]}
Queued == Cardinality(Copies)

mq_send(p) ==
  /\ valid /\ Queued < MaxMsg
  /\ queue' = [queue EXCEPT ![p] = @ + 1]

mq_receive(p) ==
  /\ valid /\ queue[p] > 0
  /\ \A q \in Prio : q > p => queue[q] = 0
  /\ queue' = [queue EXCEPT ![p] = @ - 1]

At(x, from, to) == pc[x] = from /\ pc' = [pc EXCEPT ![x] = to]

-----------------------------------------------------------------------------
Mutant_Gather ==
  /\ \E p \in Prio : mq_receive(p)
  /\ runners_ready' = runners_ready + 1
  /\ At(Judge, "gather", IF runners_ready' >= N - 1 THEN "signal" ELSE "gather")
  /\ UNCHANGED <<valid, hand, main>>

\* One turn of the judge's loop; a failed mq_receive is only reported.
Gather ==
  /\ \E p \in Prio : mq_receive(p)
  /\ runners_ready' = runners_ready + 1
  /\ At(Judge, "gather", IF runners_ready' < N THEN "gather" ELSE "signal")
  /\ UNCHANGED <<valid, hand, main>>

GatherFails == pc[Judge] = "gather" /\ ~valid /\ UNCHANGED vars

Signal ==
  /\ At(Judge, "signal", "waiting") /\ mq_send(1)
  /\ UNCHANGED <<valid, hand, runners_ready, main>>

Ready(r) ==
  /\ \/ At(r, "created", "waiting") /\ mq_send(r)
     \/ At(r, "created", "exited") /\ ~valid /\ UNCHANGED queue
  /\ UNCHANGED <<valid, hand, runners_ready, main>>

(* mq_receive_with_set_prio(x), for a runner and for the judge at the end. *)

Mutant_Receive(x) ==
  /\ At(x, "waiting", IF x = Judge THEN "exited" ELSE "running")
  /\ mq_receive(IF x = Judge THEN N ELSE x)
  /\ UNCHANGED <<valid, hand, runners_ready, main>>

\* The right message: a runner goes on to run, the judge is done.
Receive(x) ==
  /\ At(x, "waiting", IF x = Judge THEN "exited" ELSE "running")
  /\ mq_receive(x)
  /\ UNCHANGED <<valid, hand, runners_ready, main>>

Mutant_ReceiveOther(x) ==
  /\ At(x, "waiting", "put_back")
  /\ \E p \in Prio \ {x} : queue[p] > 0 /\ hand' = [hand EXCEPT ![x] = p]
  /\ UNCHANGED <<queue, valid, runners_ready, main>>

ReceiveOther(x) ==
  /\ At(x, "waiting", "put_back")
  /\ \E p \in Prio \ {x} : mq_receive(p) /\ hand' = [hand EXCEPT ![x] = p]
  /\ UNCHANGED <<valid, runners_ready, main>>

Mutant_PutBack(x) ==
  /\ At(x, "put_back", "waiting") /\ mq_send(x)
  /\ hand' = [hand EXCEPT ![x] = 0]
  /\ UNCHANGED <<valid, runners_ready, main>>

PutBack(x) ==
  /\ At(x, "put_back", "waiting") /\ mq_send(hand[x])
  /\ hand' = [hand EXCEPT ![x] = 0]
  /\ UNCHANGED <<valid, runners_ready, main>>

Finish(r) ==
  /\ At(r, "running", "exited") /\ mq_send(r + 1)
  /\ UNCHANGED <<valid, hand, runners_ready, main>>

\* The judge first, then the runners; relay_race does not look for -1.
Fork ==
  /\ forked < N + 1 /\ forked' = forked + 1
  /\ \/ At(IF forked = 0 THEN Judge ELSE forked, "unborn", IF forked = 0 THEN "gather" ELSE "created")
        /\ UNCHANGED forkFails
     \/ forkFails < MaxForkFails /\ forkFails' = forkFails + 1 /\ UNCHANGED pc
  /\ UNCHANGED <<queue, valid, hand, runners_ready, race>>

\* N + 1 calls of wait(); then the queue is unlinked and, before the next race,
\* created anew.
Reap ==
  /\ forked = N + 1 /\ \A x \in Prio : pc[x] \in {"unborn", "exited"}
  /\ race < Races /\ race' = race + 1
  /\ queue' = Blank.queue /\ valid' \in BOOLEAN
  /\ pc' = Blank.pc /\ hand' = Blank.hand /\ runners_ready' = 0
  /\ forked' = IF race' < Races THEN 0 ELSE N + 1
  /\ UNCHANGED forkFails

relay_race == Fork \/ Reap

Taking(x) == Receive(x) \/ ReceiveOther(x)

Runner(r) == Ready(r) \/ Taking(r) \/ PutBack(r) \/ Finish(r)
TheJudge  == Gather \/ GatherFails \/ Signal \/ Taking(Judge) \/ PutBack(Judge)

Next == TheJudge \/ relay_race \/ \E r \in Runners : Runner(r)

Spec == Init /\ [][Next]_vars

\* Every process that can run does.  Blocked receivers are queued by the
\* kernel, so one that waits for messages eventually gets one.
FairSpec ==
  /\ Spec /\ WF_vars(TheJudge) /\ WF_vars(relay_race)
  /\ \A r \in Runners : WF_vars(Runner(r))
  /\ \A x \in Prio : SF_vars(Taking(x))

-----------------------------------------------------------------------------
(* Properties.                                                             *)

\* Processes with a message in hand: one to put back, or the baton.
Carrying == {x \in Prio : pc[x] \in {"put_back", "running"}}

TypeOK ==
  /\ queue \in [Prio -> Nat] /\ valid \in BOOLEAN
  /\ pc \in [Prio -> {"unborn", "created", "gather", "signal", "waiting", "put_back",
                      "running", "exited"}]
  /\ hand \in [Prio -> 0 .. N + 1]
  /\ runners_ready \in 0 .. N /\ forked \in 0 .. N + 1
  /\ forkFails \in 0 .. MaxForkFails /\ race \in 0 .. Races

\* The judge counts whatever it receives, runners take their own reports and
\* carry others around; still, when it announces that all runners are ready,
\* all have reported and no message is queued or on its way back.
AnnouncedMeansReady ==
  pc[Judge] = "signal" =>
    /\ \A r \in Runners : pc[r] \in {"waiting", "exited"}
    /\ Queued = 0

\* After the signal there is one baton, queued or carried; a receiver that
\* puts it back neither loses it nor changes whom it is for.
OneBaton ==
  pc[Judge] \in {"waiting", "put_back"} =>
    /\ Queued + Cardinality(Carrying) = 1
    /\ \A p \in Prio : queue[p] > 0 \/ (\E x \in Prio : hand[x] = p)
                       => \A r \in 1 .. p - 1 : pc[r] = "exited"

\* A queue for as many messages as there are runners is never full when
\* someone has a message to send, so nobody blocks in mq_send.
SendNeverBlocks ==
  (\E x \in Prio : pc[x] \in {"created", "put_back", "running", "signal"})
    => ~valid \/ Queued < MaxMsg

\* A race ends if nobody has left before the signal, however often the receivers
\* take and put back each other's messages.
RaceFinishes ==
  \A n \in 0 .. Races - 1 :
    (race = n /\ pc[Judge] = "waiting" /\ \A r \in Runners : pc[r] = "waiting")
      ~> (race > n)
=============================================================================
