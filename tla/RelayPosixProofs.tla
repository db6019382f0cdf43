-------------------------- MODULE RelayPosixProofs --------------------------
(***************************************************************************)
(* Proofs about RelayPosix, for any number of runners and races, any size  *)
(* of the queue and any number of failing forks.                           *)
(***************************************************************************)
EXTENDS RelayPosix, FiniteSetTheorems, TLAPS

\* Who has sent a report.
Reported == {r \in Runners : pc[r] \notin {"unborn", "created"}}

\* The queue holds what it may, and what is carried by whoever puts it back is a
\* message.
PlaceInv ==
  /\ queue \in [Prio -> 0 .. MaxMsg]
  /\ pc[Judge] \in {"unborn", "gather", "signal", "waiting", "put_back", "exited"}
  /\ \A r \in Runners : pc[r] \in {"unborn", "created", "waiting", "put_back", "running", "exited"}
  /\ \A x \in Prio : IF pc[x] = "put_back" THEN hand[x] \in Prio ELSE hand[x] = 0

\* Without a queue nobody gets anywhere.
InvalidInv ==
  ~valid => /\ pc[Judge] \in {"unborn", "gather"}
            /\ \A r \in Runners : pc[r] \in {"unborn", "created", "exited"}

\* Until the signal every report is a message, in the queue or carried by
\* somebody, or has been counted by the judge; a false start turns one message
\* into another.
GatherInv ==
  valid /\ pc[Judge] \in {"unborn", "gather", "signal"} =>
    /\ Cardinality(Reported) = runners_ready + Queued + Cardinality(Carrying)
    /\ pc[Judge] = "unborn" => runners_ready = 0
    /\ pc[Judge] = "gather" => runners_ready < N
    /\ pc[Judge] = "signal" => runners_ready = N

\* After it there is one message, and the runners before whom it is for are done.
RaceInv ==
  pc[Judge] \in {"waiting", "put_back"} =>
    /\ Reported = Runners
    /\ Queued + Cardinality(Carrying) = 1
    /\ \A p \in Prio : queue[p] > 0 \/ (\E x \in Prio : hand[x] = p)
                       => \A r \in 1 .. p - 1 : pc[r] = "exited"
    /\ \A p \in Runners : pc[p] = "running" => \A r \in 1 .. p - 1 : pc[r] = "exited"

\* The judge leaves last.
EndInv == pc[Judge] = "exited" => \A r \in Runners : pc[r] = "exited"

IInv == TypeOK /\ PlaceInv /\ InvalidInv /\ GatherInv /\ RaceInv /\ EndInv

-----------------------------------------------------------------------------
(* The queue.                                                              *)

\* What the assumptions say, in the form the steps use.
LEMMA Facts ==
  /\ N \in Nat \ {0} /\ MaxMsg \in Nat \ {0} /\ Races \in Nat \ {0} /\ MaxForkFails \in Nat
  /\ Runners = 1 .. N /\ Prio = 1 .. N + 1 /\ Judge = N + 1
  /\ Judge \in Prio /\ Judge \notin Runners /\ Runners \subseteq Prio
  /\ Prio = Runners \cup {Judge}
  /\ IsFiniteSet(Prio) /\ IsFiniteSet(Runners) /\ Cardinality(Runners) = N
<1>1. /\ N \in Nat \ {0} /\ MaxMsg \in Nat \ {0} /\ Races \in Nat \ {0} /\ MaxForkFails \in Nat
  BY QueueAssumption, RacesAssumption
<1>2. IsFiniteSet(1 .. N) /\ Cardinality(1 .. N) = N /\ IsFiniteSet(1 .. N + 1)
  BY <1>1, FS_Interval
<1>3. QED
  BY <1>1, <1>2 DEF Runners, Prio, Judge

\* The messages in the queue can be counted.
LEMMA CopiesFinite == IsFiniteSet(Copies) /\ Queued \in Nat
<1>1. IsFiniteSet(Prio \X (1 .. MaxMsg))
  <2>1. IsFiniteSet(1 .. MaxMsg)
    BY Facts, FS_Interval
  <2>2. QED
    BY <2>1, Facts, FS_Product
<1>2. Copies \in SUBSET (Prio \X (1 .. MaxMsg))
  BY DEF Copies
<1>3. QED
  BY <1>1, <1>2, FS_Subset, FS_CardinalityType DEF Queued

\* The messages of one priority are among all messages.
LEMMA PartOfAll ==
  ASSUME PlaceInv, NEW p \in Prio
  PROVE  queue[p] \in 0 .. MaxMsg /\ queue[p] <= Queued
<1>1. queue[p] \in 0 .. MaxMsg
  BY DEF PlaceInv
<1> DEFINE f == [i \in 1 .. queue[p] |-> <<p, i>>]
<1>2. f \in [1 .. queue[p] -> Copies]
  BY <1>1, Facts DEF Copies
<1>3. \A a, b \in 1 .. queue[p] : f[a] = f[b] => a = b
  OBVIOUS
<1>4. f \in Injection(1 .. queue[p], Copies)
  <2> HIDE DEF f
  <2>1. QED
    BY <1>2, <1>3 DEF Injection, IsInjective
<1>5. Cardinality(1 .. queue[p]) <= Cardinality(Copies)
  BY <1>4, CopiesFinite, FS_Injection
<1>6. Cardinality(1 .. queue[p]) = queue[p]
  <2>1. queue[p] \in Int /\ (IF 1 > queue[p] THEN 0 ELSE queue[p] - 1 + 1) = queue[p]
    BY <1>1, Facts
  <2>2. QED
    BY <2>1, FS_Interval
<1>7. QED
  BY <1>1, <1>5, <1>6 DEF Queued

\* No messages in all are none of any priority.
LEMMA NoneAtAll ==
  ASSUME PlaceInv
  PROVE  Queued = 0 <=> \A p \in Prio : queue[p] = 0
<1>1. ASSUME Queued = 0, NEW p \in Prio PROVE queue[p] = 0
  BY <1>1, PartOfAll
<1>2. ASSUME \A p \in Prio : queue[p] = 0 PROVE Queued = 0
  <2>1. Copies = {}
    BY <1>2 DEF Copies
  <2>2. QED
    BY <2>1, FS_EmptySet DEF Queued
<1>3. QED
  BY <1>1, <1>2

\* mq_send adds one message, mq_receive removes one.
LEMMA SentOne ==
  ASSUME PlaceInv, NEW p \in Prio, mq_send(p)
  PROVE  /\ queue' \in [Prio -> 0 .. MaxMsg] /\ Queued' = Queued + 1
         /\ queue'[p] > 0 /\ \A q \in Prio : q # p => queue'[q] = queue[q]
<1>1. /\ queue \in [Prio -> 0 .. MaxMsg] /\ queue' = [queue EXCEPT ![p] = @ + 1]
      /\ queue[p] \in 0 .. MaxMsg /\ queue[p] < MaxMsg
  <2>1. queue[p] < MaxMsg
    BY PartOfAll, CopiesFinite, Facts DEF mq_send
  <2>2. QED
    BY <2>1, PartOfAll DEF mq_send, PlaceInv
<1>2. queue[p] + 1 \in 1 .. MaxMsg
  BY <1>1, Facts
<1>3. queue' \in [Prio -> 0 .. MaxMsg]
  BY <1>1, <1>2, Facts
<1>4. Copies' = Copies \cup {<<p, queue[p] + 1>>} /\ <<p, queue[p] + 1>> \notin Copies
  <2>1. <<p, queue[p] + 1>> \notin Copies
    BY <1>1, Facts DEF Copies
  <2>2. ASSUME NEW c \in Prio \X (1 .. MaxMsg)
        PROVE  c[2] <= queue'[c[1]] <=> (c[2] <= queue[c[1]] \/ c = <<p, queue[p] + 1>>)
    <3>1. PICK q \in Prio, i \in 1 .. MaxMsg : c = <<q, i>>
      OBVIOUS
    <3>2. CASE q = p
      BY <1>1, <3>1, <3>2, Facts
    <3>3. CASE q # p
      BY <1>1, <3>1, <3>3, Facts
    <3>4. QED
      BY <3>2, <3>3
  <2>3. <<p, queue[p] + 1>> \in Prio \X (1 .. MaxMsg)
    BY <1>2
  <2>4. QED
    BY <2>1, <2>2, <2>3 DEF Copies
<1>5. Cardinality(Copies') = Cardinality(Copies) + 1
  BY <1>4, CopiesFinite, FS_AddElement
<1>6. QED
  BY <1>1, <1>3, <1>5 DEF Queued

\* What mq_receive takes is one message, of its priority.
LEMMA ReceivedOne ==
  ASSUME PlaceInv, NEW p \in Prio, mq_receive(p)
  PROVE  /\ queue' \in [Prio -> 0 .. MaxMsg] /\ Queued' = Queued - 1 /\ Queued > 0
         /\ queue[p] > 0 /\ \A q \in Prio : queue'[q] > 0 => queue[q] > 0
<1>1. /\ queue \in [Prio -> 0 .. MaxMsg] /\ queue' = [queue EXCEPT ![p] = @ - 1]
      /\ queue[p] \in 1 .. MaxMsg
  BY PartOfAll, Facts DEF mq_receive, PlaceInv
<1>2. queue[p] - 1 \in 0 .. MaxMsg
  BY <1>1, Facts
<1>3. queue' \in [Prio -> 0 .. MaxMsg] /\ \A q \in Prio : queue'[q] > 0 => queue[q] > 0
  BY <1>1, <1>2, Facts
<1>4. Copies' = Copies \ {<<p, queue[p]>>} /\ <<p, queue[p]>> \in Copies
  <2>1. <<p, queue[p]>> \in Copies
    BY <1>1, Facts DEF Copies
  <2>2. ASSUME NEW c \in Prio \X (1 .. MaxMsg)
        PROVE  c[2] <= queue'[c[1]] <=> (c[2] <= queue[c[1]] /\ c # <<p, queue[p]>>)
    <3>1. PICK q \in Prio, i \in 1 .. MaxMsg : c = <<q, i>>
      OBVIOUS
    <3>2. CASE q = p
      BY <1>1, <3>1, <3>2, Facts
    <3>3. CASE q # p
      BY <1>1, <3>1, <3>3, Facts
    <3>4. QED
      BY <3>2, <3>3
  <2>3. QED
    BY <2>1, <2>2 DEF Copies
<1>5. Cardinality(Copies') = Cardinality(Copies) - 1
  BY <1>4, CopiesFinite, FS_RemoveElement
<1>6. Queued > 0
  BY <1>1, PartOfAll, CopiesFinite, Facts
<1>7. QED
  BY <1>1, <1>3, <1>5, <1>6 DEF Queued

-----------------------------------------------------------------------------
(* The processes.                                                          *)

\* The runners with a message in hand can be counted,
LEMMA CarryingFinite ==
  /\ IsFiniteSet(Carrying) /\ Cardinality(Carrying) \in Nat
  /\ Cardinality(Carrying) = 0 <=> Carrying = {}
BY Facts, FS_Subset, FS_CardinalityType, FS_EmptySet DEF Carrying

\* so the numbers of the account are numbers.
LEMMA Counts == Queued \in Nat /\ Cardinality(Carrying) \in Nat
BY CopiesFinite, CarryingFinite

\* The runners that have reported can be counted.
LEMMA ReportedFinite ==
  /\ IsFiniteSet(Reported) /\ Cardinality(Reported) \in 0 .. N
  /\ Cardinality(Reported) = N => Reported = Runners
<1>1. Reported \in SUBSET Runners
  BY DEF Reported
<1>2. /\ IsFiniteSet(Reported) /\ Cardinality(Reported) <= Cardinality(Runners)
      /\ Cardinality(Runners) = Cardinality(Reported) => Runners = Reported
  BY <1>1, Facts, FS_Subset
<1>3. Cardinality(Reported) \in Nat
  BY <1>2, FS_CardinalityType
<1>4. QED
  BY <1>2, <1>3, Facts

Places == {"unborn", "created", "gather", "signal", "waiting", "put_back", "running", "exited"}

\* What a process that goes from one place to another does to who carries what.
LEMMA CarryingAfter ==
  ASSUME NEW x \in Prio, NEW from, NEW to, At(x, from, to), pc \in [Prio -> Places]
  PROVE  LET c  == Cardinality(Carrying)
             in == {"put_back", "running"}
         IN  /\ from \in in /\ to \notin in => Cardinality(Carrying') = c - 1 /\ c > 0
             /\ from \notin in /\ to \in in => Cardinality(Carrying') = c + 1
             /\ (from \in in) = (to \in in) => Cardinality(Carrying') = c
<1> DEFINE in == {"put_back", "running"}
<1>1. /\ pc[x] = from /\ pc' = [pc EXCEPT ![x] = to] /\ pc'[x] = to
      /\ \A y \in Prio : y # x => pc'[y] = pc[y]
  BY DEF At
<1>2. CASE from \in in /\ to \notin in
  <2>1. Carrying' = Carrying \ {x} /\ x \in Carrying
    BY <1>1, <1>2 DEF Carrying
  <2>2. Cardinality(Carrying') = Cardinality(Carrying) - 1
    BY <2>1, CarryingFinite, FS_RemoveElement
  <2>3. Cardinality(Carrying) > 0
    BY <2>1, CarryingFinite
  <2>4. QED
    BY <1>2, <2>2, <2>3
<1>3. CASE from \notin in /\ to \in in
  <2>1. Carrying' = Carrying \cup {x} /\ x \notin Carrying
    BY <1>1, <1>3 DEF Carrying
  <2>2. Cardinality(Carrying') = Cardinality(Carrying) + 1
    BY <2>1, CarryingFinite, FS_AddElement
  <2>3. QED
    BY <1>3, <2>2
<1>4. CASE (from \in in) = (to \in in)
  <2>1. Carrying' = Carrying
    BY <1>1, <1>4 DEF Carrying
  <2>2. QED
    BY <1>4, <2>1
<1>5. QED
  BY <1>2, <1>3, <1>4

\* And to who has reported.
LEMMA ReportedAfter ==
  ASSUME NEW x \in Prio, NEW from, NEW to, At(x, from, to), pc \in [Prio -> Places]
  PROVE  /\ x = Judge \/ (from \in {"unborn", "created"}) = (to \in {"unborn", "created"})
              => Reported' = Reported
         /\ x # Judge /\ from = "created" /\ to = "waiting"
              => Cardinality(Reported') = Cardinality(Reported) + 1
<1>1. /\ pc[x] = from /\ pc' = [pc EXCEPT ![x] = to] /\ pc'[x] = to
      /\ \A y \in Prio : y # x => pc'[y] = pc[y]
  BY DEF At
<1>2. CASE x = Judge
  BY <1>1, <1>2, Facts DEF Reported
<1>3. CASE x # Judge /\ (from \in {"unborn", "created"}) = (to \in {"unborn", "created"})
  BY <1>1, <1>3, Facts DEF Reported
<1>4. CASE x # Judge /\ from = "created" /\ to = "waiting"
  <2>1. Reported' = Reported \cup {x} /\ x \notin Reported
    BY <1>1, <1>4, Facts DEF Reported
  <2>2. QED
    BY <1>4, <2>1, ReportedFinite, FS_AddElement
<1>5. QED
  BY <1>2, <1>3, <1>4

-----------------------------------------------------------------------------
(* The steps.                                                              *)

Frame == <<valid, forked, forkFails, race>>

\* A process goes to a place of its own, and keeps in hand what it should.
LEMMA Moved ==
  ASSUME TypeOK, PlaceInv, NEW x \in Prio, NEW from, NEW to, At(x, from, to),
         IF x = Judge
           THEN to \in {"unborn", "gather", "signal", "waiting", "put_back", "exited"}
           ELSE to \in {"unborn", "created", "waiting", "put_back", "running", "exited"},
         queue' \in [Prio -> 0 .. MaxMsg], runners_ready' \in 0 .. N,
         hand' = [hand EXCEPT ![x] = hand'[x]],
         IF to = "put_back" THEN hand'[x] \in Prio ELSE hand'[x] = 0,
         UNCHANGED Frame
  PROVE  TypeOK' /\ PlaceInv'
<1>1. /\ pc \in [Prio -> Places] /\ hand \in [Prio -> 0 .. N + 1]
      /\ pc' = [pc EXCEPT ![x] = to] /\ UNCHANGED <<valid, forked, forkFails, race>>
  BY DEF TypeOK, Places, At, Frame
<1>2. hand'[x] \in 0 .. N + 1
  BY Facts
<1>3. pc' \in [Prio -> Places] /\ hand' \in [Prio -> 0 .. N + 1]
  BY <1>1, <1>2, Facts DEF Places
<1>4. queue' \in [Prio -> Nat]
  BY Facts
<1>5. TypeOK'
  BY <1>1, <1>3, <1>4 DEF TypeOK, Places
<1>6. PlaceInv'
  <2>1. \A y \in Prio : IF pc'[y] = "put_back" THEN hand'[y] \in Prio ELSE hand'[y] = 0
    BY <1>1 DEF PlaceInv
  <2>2. /\ pc'[Judge] \in {"unborn", "gather", "signal", "waiting", "put_back", "exited"}
        /\ \A r \in Runners : pc'[r] \in {"unborn", "created", "waiting", "put_back", "running", "exited"}
    BY <1>1, Facts DEF PlaceInv
  <2>3. QED
    BY <2>1, <2>2 DEF PlaceInv
<1>7. QED
  BY <1>5, <1>6

\* One that puts nothing back has nothing in hand, before or after.
LEMMA MovedEmptyHanded ==
  ASSUME TypeOK, PlaceInv, NEW x \in Prio, NEW from, NEW to, At(x, from, to),
         IF x = Judge
           THEN to \in {"unborn", "gather", "signal", "waiting", "exited"}
           ELSE to \in {"unborn", "created", "waiting", "running", "exited"},
         queue' \in [Prio -> 0 .. MaxMsg], runners_ready' \in 0 .. N,
         from # "put_back", UNCHANGED <<Frame, hand>>
  PROVE  TypeOK' /\ PlaceInv'
<1>1. hand \in [Prio -> 0 .. N + 1] /\ hand[x] = 0
  BY DEF At, PlaceInv, TypeOK
<1>2. hand' = [hand EXCEPT ![x] = hand'[x]] /\ hand'[x] = 0 /\ to # "put_back"
  BY <1>1
<1>3. QED
  BY <1>2, Moved

\* The judge counts one message less in the queue.
LEMMA GatherStep == ASSUME IInv, Gather PROVE IInv'
<1> DEFINE to == IF runners_ready + 1 < N THEN "gather" ELSE "signal"
<1>1. PICK p \in Prio : mq_receive(p)
  BY DEF Gather
<1>2. /\ valid /\ runners_ready' = runners_ready + 1 /\ At(Judge, "gather", to)
      /\ UNCHANGED <<Frame, hand>>
  BY <1>1 DEF Gather, mq_receive, main, Frame
<1>3. /\ queue' \in [Prio -> 0 .. MaxMsg] /\ Queued' = Queued - 1 /\ Queued \in Nat
  BY <1>1, ReceivedOne, CopiesFinite DEF IInv
<1>4. pc \in [Prio -> Places] /\ pc[Judge] = "gather" /\ pc'[Judge] = to
      /\ \A r \in Runners : pc'[r] = pc[r]
  BY <1>2, Facts DEF At, IInv, TypeOK, Places
<1>5. runners_ready \in 0 .. N /\ runners_ready < N
      /\ Cardinality(Reported) = runners_ready + Queued + Cardinality(Carrying)
  BY <1>2, <1>4 DEF IInv, TypeOK, GatherInv
<1>6. Reported' = Reported /\ Cardinality(Carrying') = Cardinality(Carrying)
  BY <1>2, <1>4, Facts, ReportedAfter, CarryingAfter
<1>7. TypeOK' /\ PlaceInv'
  BY <1>2, <1>3, <1>5, Facts, MovedEmptyHanded DEF IInv
<1>8. GatherInv'
  <2>1. /\ Cardinality(Reported') = runners_ready' + Queued' + Cardinality(Carrying')
        /\ pc'[Judge] = "gather" => runners_ready' < N
        /\ pc'[Judge] = "signal" => runners_ready' = N
    BY <1>2, <1>3, <1>4, <1>5, <1>6, CarryingFinite, Facts
  <2>2. QED
    BY <1>4, <2>1 DEF GatherInv
<1>9. InvalidInv' /\ RaceInv' /\ EndInv'
  BY <1>2, <1>4 DEF InvalidInv, RaceInv, EndInv, Frame
<1>10. QED
  BY <1>7, <1>8, <1>9 DEF IInv

\* Counted to N, there is no report left on its way.
LEMMA AllCounted ==
  ASSUME IInv, pc[Judge] = "signal"
  PROVE  valid /\ Reported = Runners /\ Queued = 0 /\ Carrying = {}
<1>1. valid /\ runners_ready = N
  BY DEF IInv, InvalidInv, GatherInv
<1>2. Cardinality(Reported) = N + Queued + Cardinality(Carrying)
  BY <1>1 DEF IInv, GatherInv
<1>3. Cardinality(Reported) = N /\ Queued = 0 /\ Cardinality(Carrying) = 0
  BY <1>2, ReportedFinite, CopiesFinite, CarryingFinite, Facts
<1>4. QED
  BY <1>1, <1>3, ReportedFinite, CarryingFinite

\* The signal is the only message there is.
LEMMA SignalStep == ASSUME IInv, Signal PROVE IInv'
<1>1. At(Judge, "signal", "waiting") /\ mq_send(1) /\ UNCHANGED <<Frame, hand, runners_ready>>
  BY DEF Signal, main, Frame
<1>2. 1 \in Prio /\ pc[Judge] = "signal" /\ pc'[Judge] = "waiting" /\ pc \in [Prio -> Places]
      /\ \A r \in Runners : pc'[r] = pc[r]
  BY <1>1, Facts DEF At, IInv, TypeOK, Places
<1>3. /\ queue' \in [Prio -> 0 .. MaxMsg] /\ Queued' = Queued + 1
      /\ \A q \in Prio : q # 1 => queue'[q] = queue[q]
  BY <1>1, <1>2, SentOne DEF IInv
<1>4. valid /\ Reported = Runners /\ Queued = 0 /\ Carrying = {}
  BY <1>2, AllCounted
<1>5. Reported' = Reported /\ Cardinality(Carrying') = Cardinality(Carrying)
  BY <1>1, <1>2, Facts, ReportedAfter, CarryingAfter
<1>6. TypeOK' /\ PlaceInv'
  <2>1. runners_ready' \in 0 .. N
    BY <1>1 DEF IInv, TypeOK
  <2>2. QED
    BY <1>1, <1>3, <2>1, Facts, MovedEmptyHanded DEF IInv
<1>7. RaceInv'
  <2>1. Queued' + Cardinality(Carrying') = 1
    BY <1>3, <1>4, <1>5, FS_EmptySet
  <2>2. ASSUME NEW p \in Prio, queue'[p] > 0 \/ (\E x \in Prio : hand'[x] = p)
        PROVE  \A r \in 1 .. p - 1 : pc'[r] = "exited"
    <3>1. p # 1 => queue[p] = 0
      BY <1>4, NoneAtAll DEF IInv
    <3>2. \A x \in Prio : hand[x] = 0
      BY <1>4 DEF Carrying, IInv, PlaceInv
    <3>3. p # 1 => ~(queue'[p] > 0)
      BY <1>3, <3>1
    <3>4. p = 1
      BY <1>1, <2>2, <3>2, <3>3, Facts
    <3>5. QED
      BY <3>4
  <2>3. \A p \in Runners : pc'[p] # "running"
    BY <1>2, <1>4, Facts DEF Carrying
  <2>4. QED
    BY <1>4, <1>5, <2>1, <2>2, <2>3 DEF RaceInv
<1>8. InvalidInv' /\ GatherInv' /\ EndInv'
  BY <1>1, <1>2, <1>4 DEF InvalidInv, GatherInv, EndInv, Frame
<1>9. QED
  BY <1>6, <1>7, <1>8 DEF IInv

\* A report adds one to both sides of the account.
LEMMA ReadyStep == ASSUME IInv, NEW r \in Runners, Ready(r) PROVE IInv'
<1>1. UNCHANGED <<Frame, hand, runners_ready>>
  BY DEF Ready, main, Frame
<1>2. /\ pc[r] = "created" /\ pc \in [Prio -> Places] /\ r \in Prio /\ r # Judge
      /\ runners_ready' \in 0 .. N
  BY <1>1, Facts DEF Ready, At, IInv, TypeOK, Places
<1>3. pc[Judge] \in {"unborn", "gather", "signal"}
  BY <1>2 DEF IInv, PlaceInv, RaceInv, EndInv, Reported
<1>4. CASE At(r, "created", "waiting") /\ mq_send(r)
  <2>1. valid /\ queue' \in [Prio -> 0 .. MaxMsg] /\ Queued' = Queued + 1
    BY <1>2, <1>4, SentOne DEF IInv, mq_send
  <2>2. /\ Cardinality(Reported') = Cardinality(Reported) + 1
        /\ Cardinality(Carrying') = Cardinality(Carrying)
    BY <1>2, <1>4, ReportedAfter, CarryingAfter
  <2>3. pc'[Judge] = pc[Judge]
    BY <1>2, <1>4, Facts DEF At
  <2>4. TypeOK' /\ PlaceInv'
    BY <1>1, <1>2, <1>4, <2>1, MovedEmptyHanded DEF IInv
  <2>5. GatherInv'
    <3>1. Cardinality(Reported) = runners_ready + Queued + Cardinality(Carrying)
          /\ runners_ready \in Nat /\ runners_ready' = runners_ready
      BY <1>1, <1>2, <1>3, <2>1, Facts DEF IInv, GatherInv
    <3>2. Cardinality(Reported') = runners_ready' + Queued' + Cardinality(Carrying')
      BY <2>1, <2>2, <3>1, CopiesFinite, CarryingFinite, ReportedFinite
    <3>3. QED
      BY <1>3, <2>1, <2>3, <3>1, <3>2 DEF IInv, GatherInv
  <2>6. InvalidInv' /\ RaceInv' /\ EndInv'
    BY <1>1, <1>3, <2>1, <2>3 DEF InvalidInv, RaceInv, EndInv, Frame
  <2>7. QED
    BY <2>4, <2>5, <2>6 DEF IInv
<1>5. CASE At(r, "created", "exited") /\ ~valid /\ UNCHANGED queue
  <2>1. queue' \in [Prio -> 0 .. MaxMsg] /\ ~valid'
    BY <1>1, <1>5 DEF IInv, PlaceInv, Frame
  <2>2. TypeOK' /\ PlaceInv'
    BY <1>1, <1>2, <1>5, <2>1, MovedEmptyHanded DEF IInv
  <2>3. pc'[Judge] = pc[Judge] /\ \A q \in Runners : pc'[q] \in {pc[q], "exited"}
    BY <1>2, <1>5, Facts DEF At
  <2>4. InvalidInv'
    BY <1>5, <2>3 DEF IInv, InvalidInv
  <2>5. GatherInv' /\ RaceInv' /\ EndInv'
    BY <1>3, <2>1, <2>3 DEF GatherInv, RaceInv, EndInv
  <2>6. QED
    BY <2>2, <2>4, <2>5 DEF IInv
<1>6. QED
  BY <1>4, <1>5 DEF Ready

\* A message that moves between the queue and somebody's hand stays in the account.
LEMMA AccountKept ==
  ASSUME IInv, NEW x \in Prio, NEW from \in {"waiting", "put_back", "running"},
         NEW to \in {"waiting", "put_back", "running", "exited"}, At(x, from, to),
         UNCHANGED <<Frame, runners_ready>>,
         x = Judge \/ Queued' + Cardinality(Carrying') = Queued + Cardinality(Carrying)
  PROVE  /\ InvalidInv' /\ GatherInv' /\ Reported' = Reported /\ valid
         /\ pc[x] = from /\ pc'[x] = to /\ \A y \in Prio : y # x => pc'[y] = pc[y]
<1>1. pc \in [Prio -> Places] /\ runners_ready \in 0 .. N /\ UNCHANGED <<valid, runners_ready>>
  BY DEF IInv, TypeOK, Places, Frame
<1>2. Reported' = Reported
  BY <1>1, ReportedAfter
<1>3. /\ pc[x] = from /\ pc'[x] = to
      /\ \A y \in Prio : y # x => pc'[y] = pc[y]
  BY <1>1 DEF At
<1>4. GatherInv'
  <2>1. CASE valid' /\ pc'[Judge] \in {"unborn", "gather", "signal"}
    <3>1. valid /\ pc'[Judge] = pc[Judge] /\ x # Judge
      BY <1>1, <1>3, <2>1, Facts
    <3>2. Cardinality(Reported) = runners_ready + Queued + Cardinality(Carrying)
      BY <2>1, <3>1 DEF IInv, GatherInv
    <3>3. Queued' \in Nat /\ Cardinality(Carrying') \in Nat
      <4>1. (Queued \in Nat /\ Cardinality(Carrying) \in Nat)'
        BY Counts, PTL
      <4>2. QED
        BY <4>1
    <3>4. Cardinality(Reported') = runners_ready' + Queued' + Cardinality(Carrying')
      <4>1. /\ Cardinality(Reported') = Cardinality(Reported) /\ runners_ready' = runners_ready
            /\ Queued' + Cardinality(Carrying') = Queued + Cardinality(Carrying)
        BY <1>1, <1>2, <3>1
      <4>2. /\ Queued \in Nat /\ Cardinality(Carrying) \in Nat /\ runners_ready \in Nat
        BY <1>1, Counts, Facts
      <4>3. QED
        BY <3>2, <3>3, <4>1, <4>2
    <3>5. QED
      BY <1>1, <2>1, <3>1, <3>4 DEF IInv, GatherInv
  <2>2. QED
    BY <2>1 DEF GatherInv
<1>5. valid
  BY <1>3, Facts DEF IInv, InvalidInv
<1>6. QED
  BY <1>1, <1>2, <1>3, <1>4, <1>5 DEF InvalidInv

\* Whoever has a message in hand, or waits for one, is not in a race that is over.
LEMMA NotOver ==
  ASSUME IInv, NEW x \in Prio, pc[x] \in {"waiting", "put_back", "running"}
  PROVE  pc[Judge] # "exited"
BY Facts DEF IInv, EndInv

\* A runner takes its message, or the judge the last one.
LEMMA ReceiveStep == ASSUME IInv, NEW x \in Prio, Receive(x) PROVE IInv'
<1> DEFINE to == IF x = Judge THEN "exited" ELSE "running"
<1>1. At(x, "waiting", to) /\ mq_receive(x) /\ UNCHANGED <<Frame, hand, runners_ready>>
  BY DEF Receive, main, Frame, mq_receive
<1>2. /\ queue' \in [Prio -> 0 .. MaxMsg] /\ Queued' = Queued - 1 /\ Queued > 0
      /\ queue[x] > 0 /\ \A q \in Prio : queue'[q] > 0 => queue[q] > 0
  BY <1>1, ReceivedOne DEF IInv
<1>3. pc \in [Prio -> Places] /\ runners_ready' \in 0 .. N
  BY <1>1 DEF IInv, TypeOK, Places
<1>4. x # Judge => Cardinality(Carrying') = Cardinality(Carrying) + 1
  BY <1>1, <1>3, CarryingAfter
<1>5. x = Judge \/ Queued' + Cardinality(Carrying') = Queued + Cardinality(Carrying)
  BY <1>2, <1>4, CopiesFinite, CarryingFinite
<1>6. /\ InvalidInv' /\ GatherInv' /\ Reported' = Reported
      /\ pc[x] = "waiting" /\ pc'[x] = to /\ \A y \in Prio : y # x => pc'[y] = pc[y]
  BY <1>1, <1>5, AccountKept
<1>7. TypeOK' /\ PlaceInv'
  BY <1>1, <1>2, <1>3, MovedEmptyHanded DEF IInv
<1>8. pc[Judge] # "exited"
  BY <1>6, NotOver
<1>9. EndInv'
  <2>1. CASE x = Judge
    <3>1. \A r \in 1 .. Judge - 1 : pc[r] = "exited"
      BY <1>2, <1>6, <2>1 DEF IInv, RaceInv
    <3>2. Judge - 1 = N
      BY Facts
    <3>3. QED
      BY <1>6, <2>1, <3>1, <3>2, Facts DEF EndInv
  <2>2. CASE x # Judge
    BY <1>6, <1>8, <2>2, Facts DEF EndInv
  <2>3. QED
    BY <2>1, <2>2
<1>10. RaceInv'
  <2>1. CASE pc'[Judge] \in {"waiting", "put_back"}
    <3>1. x # Judge /\ pc'[Judge] = pc[Judge]
      BY <1>6, <2>1, Facts
    <3>2. RaceInv /\ pc[Judge] \in {"waiting", "put_back"}
      BY <2>1, <3>1 DEF IInv
    <3>3. \A r \in 1 .. x - 1 : pc[r] = "exited"
      BY <1>2, <3>2 DEF RaceInv
    <3>4. \A y \in Prio : pc[y] = "exited" => pc'[y] = "exited"
      BY <1>6
    <3>5. \A p \in Prio : 1 .. p - 1 \subseteq Prio
      BY Facts
    <3>6. \A p \in Prio : queue'[p] > 0 \/ (\E y \in Prio : hand'[y] = p)
                          => \A r \in 1 .. p - 1 : pc'[r] = "exited"
      BY <1>1, <1>2, <3>2, <3>4, <3>5 DEF RaceInv
    <3>7. \A p \in Runners : pc'[p] = "running" => \A r \in 1 .. p - 1 : pc'[r] = "exited"
      BY <1>6, <3>2, <3>3, <3>4, <3>5, Facts DEF RaceInv
    <3>8. Reported' = Runners /\ Queued' + Cardinality(Carrying') = 1
      BY <1>5, <1>6, <3>1, <3>2 DEF RaceInv
    <3>9. QED
      BY <3>6, <3>7, <3>8 DEF RaceInv
  <2>2. QED
    BY <2>1 DEF RaceInv
<1>11. QED
  BY <1>6, <1>7, <1>9, <1>10 DEF IInv

\* Or it has somebody else's in hand.
LEMMA ReceiveOtherStep == ASSUME IInv, NEW x \in Prio, ReceiveOther(x) PROVE IInv'
<1>1. PICK m \in Prio : mq_receive(m) /\ hand' = [hand EXCEPT ![x] = m]
  BY DEF ReceiveOther
<1>2. At(x, "waiting", "put_back") /\ UNCHANGED <<Frame, runners_ready>>
  BY DEF ReceiveOther, main, Frame
<1>3. /\ queue' \in [Prio -> 0 .. MaxMsg] /\ Queued' = Queued - 1 /\ Queued > 0
      /\ queue[m] > 0 /\ \A q \in Prio : queue'[q] > 0 => queue[q] > 0
  BY <1>1, ReceivedOne DEF IInv
<1>4. pc \in [Prio -> Places] /\ runners_ready' \in 0 .. N /\ hand \in [Prio -> 0 .. N + 1]
  BY <1>2 DEF IInv, TypeOK, Places
<1>5. Cardinality(Carrying') = Cardinality(Carrying) + 1
  BY <1>2, <1>4, CarryingAfter
<1>6. Queued' + Cardinality(Carrying') = Queued + Cardinality(Carrying)
  BY <1>3, <1>5, CopiesFinite, CarryingFinite
<1>7. /\ InvalidInv' /\ GatherInv' /\ Reported' = Reported
      /\ pc[x] = "waiting" /\ pc'[x] = "put_back" /\ \A y \in Prio : y # x => pc'[y] = pc[y]
  BY <1>2, <1>6, AccountKept
<1>8. hand'[x] = m /\ hand' = [hand EXCEPT ![x] = hand'[x]] /\ \A y \in Prio : y # x => hand'[y] = hand[y]
  BY <1>1, <1>4
<1>9. TypeOK' /\ PlaceInv'
  BY <1>2, <1>3, <1>4, <1>8, Moved DEF IInv
<1>10. pc[Judge] # "exited"
  BY <1>7, NotOver
<1>11. EndInv'
  BY <1>7, <1>10, Facts DEF EndInv
<1>12. RaceInv'
  <2>1. CASE pc'[Judge] \in {"waiting", "put_back"}
    <3>1. RaceInv /\ pc[Judge] \in {"waiting", "put_back"}
      BY <1>7, <2>1, Facts DEF IInv
    <3>2. \A y \in Prio : pc[y] = "exited" => pc'[y] = "exited"
      BY <1>7
    <3>3. \A p \in Prio : 1 .. p - 1 \subseteq Prio
      BY Facts
    <3>4. \A p \in Prio : queue'[p] > 0 \/ (\E y \in Prio : hand'[y] = p)
                          => queue[p] > 0 \/ (\E y \in Prio : hand[y] = p)
      BY <1>3, <1>8
    <3>5. \A p \in Prio : queue'[p] > 0 \/ (\E y \in Prio : hand'[y] = p)
                          => \A r \in 1 .. p - 1 : pc'[r] = "exited"
      BY <3>1, <3>2, <3>3, <3>4 DEF RaceInv
    <3>6. \A p \in Runners : pc'[p] = "running" => \A r \in 1 .. p - 1 : pc'[r] = "exited"
      BY <1>7, <3>1, <3>2, <3>3, Facts DEF RaceInv
    <3>7. QED
      BY <1>6, <1>7, <3>1, <3>5, <3>6 DEF RaceInv
  <2>2. QED
    BY <2>1 DEF RaceInv
<1>13. QED
  BY <1>7, <1>9, <1>11, <1>12 DEF IInv

\* It goes back as what it was.
LEMMA PutBackStep == ASSUME IInv, NEW x \in Prio, PutBack(x) PROVE IInv'
<1>1. /\ At(x, "put_back", "waiting") /\ mq_send(hand[x]) /\ hand' = [hand EXCEPT ![x] = 0]
      /\ UNCHANGED <<Frame, runners_ready>>
  BY DEF PutBack, main, Frame
<1>2. /\ pc \in [Prio -> Places] /\ runners_ready' \in 0 .. N /\ hand \in [Prio -> 0 .. N + 1]
      /\ hand[x] \in Prio
  BY <1>1 DEF IInv, TypeOK, Places, At, PlaceInv
<1>3. /\ queue' \in [Prio -> 0 .. MaxMsg] /\ Queued' = Queued + 1
      /\ \A q \in Prio : q # hand[x] => queue'[q] = queue[q]
  BY <1>1, <1>2, SentOne DEF IInv
<1>4. Cardinality(Carrying') = Cardinality(Carrying) - 1 /\ Cardinality(Carrying) > 0
  BY <1>1, <1>2, CarryingAfter
<1>5. Queued' + Cardinality(Carrying') = Queued + Cardinality(Carrying)
  BY <1>3, <1>4, CopiesFinite, CarryingFinite
<1>6. /\ InvalidInv' /\ GatherInv' /\ Reported' = Reported
      /\ pc[x] = "put_back" /\ pc'[x] = "waiting" /\ \A y \in Prio : y # x => pc'[y] = pc[y]
  BY <1>1, <1>5, AccountKept
<1>7. hand'[x] = 0 /\ hand' = [hand EXCEPT ![x] = hand'[x]] /\ \A y \in Prio : y # x => hand'[y] = hand[y]
  BY <1>1, <1>2
<1>8. TypeOK' /\ PlaceInv'
  BY <1>1, <1>2, <1>3, <1>7, Moved DEF IInv
<1>9. pc[Judge] # "exited"
  BY <1>6, NotOver
<1>10. EndInv'
  BY <1>6, <1>9, Facts DEF EndInv
<1>11. RaceInv'
  <2>1. CASE pc'[Judge] \in {"waiting", "put_back"}
    <3>1. RaceInv /\ pc[Judge] \in {"waiting", "put_back"}
      BY <1>6, <2>1, Facts DEF IInv
    <3>2. \A y \in Prio : pc[y] = "exited" => pc'[y] = "exited"
      BY <1>6
    <3>3. \A p \in Prio : 1 .. p - 1 \subseteq Prio
      BY Facts
    <3>4. \A p \in Prio : queue'[p] > 0 \/ (\E y \in Prio : hand'[y] = p)
                          => queue[p] > 0 \/ (\E y \in Prio : hand[y] = p)
      BY <1>3, <1>7, Facts
    <3>5. \A p \in Prio : queue'[p] > 0 \/ (\E y \in Prio : hand'[y] = p)
                          => \A r \in 1 .. p - 1 : pc'[r] = "exited"
      BY <3>1, <3>2, <3>3, <3>4 DEF RaceInv
    <3>6. \A p \in Runners : pc'[p] = "running" => \A r \in 1 .. p - 1 : pc'[r] = "exited"
      BY <1>6, <3>1, <3>2, <3>3, Facts DEF RaceInv
    <3>7. QED
      BY <1>5, <1>6, <3>1, <3>5, <3>6 DEF RaceInv
  <2>2. QED
    BY <2>1 DEF RaceInv
<1>12. QED
  BY <1>6, <1>8, <1>10, <1>11 DEF IInv

\* A runner that finishes hands on to the one after it, whoever gave it the start.
LEMMA FinishStep == ASSUME IInv, NEW r \in Runners, Finish(r) PROVE IInv'
<1>1. At(r, "running", "exited") /\ mq_send(r + 1) /\ UNCHANGED <<Frame, hand, runners_ready>>
  BY DEF Finish, main, Frame
<1>2. /\ pc \in [Prio -> Places] /\ runners_ready' \in 0 .. N
      /\ r \in Prio /\ r + 1 \in Prio /\ r # Judge
  BY <1>1, Facts DEF IInv, TypeOK, Places
<1>3. /\ queue' \in [Prio -> 0 .. MaxMsg] /\ Queued' = Queued + 1
      /\ \A q \in Prio : q # r + 1 => queue'[q] = queue[q]
  BY <1>1, <1>2, SentOne DEF IInv
<1>4. Cardinality(Carrying') = Cardinality(Carrying) - 1 /\ Cardinality(Carrying) > 0
  BY <1>1, <1>2, CarryingAfter
<1>5. Queued' + Cardinality(Carrying') = Queued + Cardinality(Carrying)
  BY <1>3, <1>4, CopiesFinite, CarryingFinite
<1>6. /\ InvalidInv' /\ GatherInv' /\ Reported' = Reported
      /\ pc[r] = "running" /\ pc'[r] = "exited" /\ \A y \in Prio : y # r => pc'[y] = pc[y]
  BY <1>1, <1>2, <1>5, AccountKept
<1>7. TypeOK' /\ PlaceInv'
  BY <1>1, <1>2, <1>3, MovedEmptyHanded DEF IInv
<1>8. pc[Judge] # "exited"
  BY <1>2, <1>6, NotOver
<1>9. EndInv'
  BY <1>2, <1>6, <1>8, Facts DEF EndInv
<1>10. RaceInv'
  <2>1. CASE pc'[Judge] \in {"waiting", "put_back"}
    <3>1. RaceInv /\ pc[Judge] \in {"waiting", "put_back"}
      BY <1>2, <1>6, <2>1, Facts DEF IInv
    <3>2. \A y \in Prio : pc[y] = "exited" => pc'[y] = "exited"
      BY <1>6
    <3>3. \A p \in Prio : 1 .. p - 1 \subseteq Prio
      BY Facts
    <3>4. \A q \in 1 .. (r + 1) - 1 : pc'[q] = "exited"
      <4>1. \A q \in 1 .. r - 1 : pc'[q] = "exited"
        BY <1>2, <1>6, <3>1, <3>2, <3>3 DEF RaceInv
      <4>2. \A q \in 1 .. (r + 1) - 1 : q = r \/ q \in 1 .. r - 1
        BY Facts
      <4>3. QED
        BY <1>6, <4>1, <4>2
    <3>5. ASSUME NEW p \in Prio, queue'[p] > 0 \/ (\E y \in Prio : hand'[y] = p)
          PROVE  \A q \in 1 .. p - 1 : pc'[q] = "exited"
      <4>1. CASE p = r + 1
        BY <3>4, <4>1
      <4>2. CASE p # r + 1
        <5>1. queue[p] > 0 \/ (\E y \in Prio : hand[y] = p)
          BY <1>1, <1>3, <3>5, <4>2
        <5>2. QED
          BY <3>1, <3>2, <3>3, <5>1 DEF RaceInv
      <4>3. QED
        BY <4>1, <4>2
    <3>6. \A p \in Runners : pc'[p] = "running" => \A q \in 1 .. p - 1 : pc'[q] = "exited"
      BY <1>6, <3>1, <3>2, <3>3, Facts DEF RaceInv
    <3>7. QED
      BY <1>5, <1>6, <3>1, <3>5, <3>6 DEF RaceInv
  <2>2. QED
    BY <2>1 DEF RaceInv
<1>11. QED
  BY <1>6, <1>7, <1>9, <1>10 DEF IInv

\* Before a race there is nothing.
Fresh ==
  /\ queue = Blank.queue /\ pc = Blank.pc /\ hand = Blank.hand /\ runners_ready = 0

\* The start of main satisfies all that is not about types.
LEMMA FreshInv == Fresh => PlaceInv /\ InvalidInv /\ GatherInv /\ RaceInv /\ EndInv
<1> SUFFICES ASSUME Fresh PROVE PlaceInv /\ InvalidInv /\ GatherInv /\ RaceInv /\ EndInv
  OBVIOUS
<1>1. /\ queue = [p \in Prio |-> 0] /\ pc = [x \in Prio |-> "unborn"]
      /\ hand = [x \in Prio |-> 0] /\ runners_ready = 0
  BY DEF Fresh, Blank
<1>2. /\ queue \in [Prio -> 0 .. MaxMsg] /\ \A p \in Prio : queue[p] = 0
      /\ \A x \in Prio : pc[x] = "unborn" /\ hand[x] = 0
  BY <1>1, Facts
<1>3. PlaceInv
  BY <1>2, Facts DEF PlaceInv
<1>4. Reported = {} /\ Carrying = {} /\ Queued = 0
  BY <1>2, <1>3, Facts, NoneAtAll DEF Reported, Carrying
<1>5. GatherInv
  BY <1>1, <1>2, <1>4, FS_EmptySet, Facts DEF GatherInv
<1>6. QED
  BY <1>2, <1>3, <1>5, Facts DEF InvalidInv, RaceInv, EndInv

\* A process that is forked has not reported and carries nothing.
LEMMA ForkStep == ASSUME IInv, Fork PROVE IInv'
<1> DEFINE x == IF forked = 0 THEN Judge ELSE forked
           to == IF forked = 0 THEN "gather" ELSE "created"
<1>1. /\ forked < N + 1 /\ forked' = forked + 1
      /\ UNCHANGED <<queue, valid, hand, runners_ready, race>>
      /\ x \in Prio /\ (x = Judge <=> forked = 0)
  BY Facts DEF Fork, IInv, TypeOK
<1>2. /\ forked' \in 0 .. N + 1 /\ forkFails' \in 0 .. MaxForkFails
      /\ UNCHANGED pc \/ At(x, "unborn", to)
  <2>1. forked' \in 0 .. N + 1
    BY <1>1, Facts DEF IInv, TypeOK
  <2>2. forkFails' \in 0 .. MaxForkFails
    BY Facts DEF Fork, IInv, TypeOK
  <2>3. QED
    BY <2>1, <2>2 DEF Fork
<1>3. Queued' = Queued
  BY <1>1 DEF Queued, Copies
<1>4. CASE UNCHANGED pc
  <2>1. Reported' = Reported /\ Carrying' = Carrying
    BY <1>4 DEF Reported, Carrying
  <2>2. TypeOK'
    BY <1>1, <1>2, <1>4 DEF IInv, TypeOK
  <2>3. PlaceInv' /\ InvalidInv'
    BY <1>1, <1>4 DEF IInv, PlaceInv, InvalidInv
  <2>4. GatherInv' /\ RaceInv' /\ EndInv'
    BY <1>1, <1>3, <1>4, <2>1 DEF IInv, GatherInv, RaceInv, EndInv
  <2>5. QED
    BY <2>2, <2>3, <2>4 DEF IInv
<1>5. CASE At(x, "unborn", to)
  <2>1. /\ pc \in [Prio -> Places] /\ pc[x] = "unborn" /\ pc' = [pc EXCEPT ![x] = to] /\ pc'[x] = to
        /\ \A y \in Prio : y # x => pc'[y] = pc[y]
    BY <1>1, <1>5 DEF IInv, TypeOK, Places, At
  <2>2. Reported' = Reported /\ Cardinality(Carrying') = Cardinality(Carrying)
    <3>1. to \in {"created", "gather"} /\ (x # Judge => to = "created")
      BY <1>1
    <3>2. Reported' = Reported
      BY <1>1, <2>1, <3>1, Facts DEF Reported
    <3>3. Carrying' = Carrying
      BY <1>1, <2>1, <3>1 DEF Carrying
    <3>4. QED
      BY <3>2, <3>3
  <2>3. TypeOK'
    <3>1. pc' \in [Prio -> Places]
      BY <2>1 DEF Places
    <3>2. QED
      BY <1>1, <1>2, <3>1 DEF IInv, TypeOK, Places
  <2>4. PlaceInv' /\ InvalidInv'
    <3>1. \A y \in Prio : pc'[y] = pc[y] \/ (pc[y] = "unborn" /\ pc'[y] \in {"created", "gather"})
      BY <1>1, <2>1
    <3>2. \A y \in Prio : (pc'[y] = "put_back") = (pc[y] = "put_back")
      BY <3>1
    <3>3. PlaceInv'
      BY <1>1, <2>1, <3>1, <3>2, Facts DEF IInv, PlaceInv
    <3>4. InvalidInv'
      BY <1>1, <2>1, Facts DEF IInv, InvalidInv
    <3>5. QED
      BY <3>3, <3>4
  <2>5. CASE x = Judge
    <3>1. pc[Judge] = "unborn" /\ pc'[Judge] = "gather"
      BY <1>1, <2>1, <2>5
    <3>2. GatherInv'
      BY <1>1, <1>3, <2>2, <3>1, Facts DEF IInv, GatherInv
    <3>3. QED
      BY <2>3, <2>4, <3>1, <3>2 DEF IInv, RaceInv, EndInv
  <2>6. CASE x # Judge
    <3>1. pc'[Judge] = pc[Judge] /\ x \in Runners /\ x \notin Reported
      BY <1>1, <2>1, <2>6, Facts DEF Reported
    <3>2. pc[Judge] \notin {"waiting", "put_back", "exited"}
      BY <2>1, <3>1 DEF IInv, RaceInv, EndInv
    <3>3. GatherInv'
      BY <1>1, <1>3, <2>2, <3>1 DEF IInv, GatherInv
    <3>4. QED
      BY <2>3, <2>4, <3>1, <3>2, <3>3 DEF IInv, RaceInv, EndInv
  <2>7. QED
    BY <2>5, <2>6
<1>6. QED
  BY <1>2, <1>4, <1>5

\* The next race starts from nothing.
LEMMA ReapStep == ASSUME IInv, Reap PROVE IInv'
<1>1. Fresh'
  BY DEF Reap, Fresh, Blank
<1>2. (PlaceInv /\ InvalidInv /\ GatherInv /\ RaceInv /\ EndInv)'
  BY <1>1, FreshInv, PTL
<1>3. TypeOK'
  <2>1. /\ queue' = [p \in Prio |-> 0] /\ pc' = [x \in Prio |-> "unborn"]
        /\ hand' = [x \in Prio |-> 0] /\ runners_ready' = 0
    BY <1>1 DEF Fresh, Blank
  <2>2. /\ queue' \in [Prio -> Nat] /\ pc' \in [Prio -> Places] /\ hand' \in [Prio -> 0 .. N + 1]
        /\ runners_ready' \in 0 .. N
    BY <2>1, Facts DEF Places
  <2>3. race' \in 0 .. Races /\ forked' \in 0 .. N + 1
    BY Facts DEF Reap, IInv, TypeOK
  <2>4. valid' \in BOOLEAN /\ forkFails' \in 0 .. MaxForkFails
    BY DEF Reap, IInv, TypeOK
  <2>5. QED
    BY <2>2, <2>3, <2>4 DEF TypeOK, Places
<1>4. QED
  BY <1>2, <1>3 DEF IInv

-----------------------------------------------------------------------------
(* The theorems.                                                           *)

\* At the start nobody has reported and no baton is there.
LEMMA InitIInv == Init => IInv
<1> SUFFICES ASSUME Init PROVE IInv
  OBVIOUS
<1>1. PlaceInv /\ InvalidInv /\ GatherInv /\ RaceInv /\ EndInv
  BY FreshInv DEF Init, Fresh
<1>2. TypeOK
  <2>1. /\ queue \in [Prio -> Nat] /\ pc \in [Prio -> Places] /\ hand \in [Prio -> 0 .. N + 1]
    BY Facts DEF Init, Blank, Places
  <2>2. /\ runners_ready \in 0 .. N /\ forked \in 0 .. N + 1 /\ forkFails \in 0 .. MaxForkFails
        /\ race \in 0 .. Races
    BY Facts DEF Init
  <2>3. valid \in BOOLEAN
    BY DEF Init
  <2>4. QED
    BY <2>1, <2>2, <2>3 DEF TypeOK, Places
<1>3. QED
  BY <1>1, <1>2 DEF IInv

\* Every step keeps the account, and the race its one baton.
LEMMA NextIInv == IInv /\ [Next]_vars => IInv'
<1> SUFFICES ASSUME IInv, [Next]_vars PROVE IInv'
  OBVIOUS
<1>1. CASE UNCHANGED vars
  <2>1. UNCHANGED <<queue, valid, pc, hand, runners_ready, forked, forkFails, race>>
    BY <1>1 DEF vars, main
  <2>2. TypeOK' /\ PlaceInv' /\ InvalidInv'
    BY <2>1 DEF IInv, TypeOK, PlaceInv, InvalidInv
  <2>3. Queued' = Queued /\ Carrying' = Carrying /\ Reported' = Reported
    BY <2>1 DEF Queued, Copies, Carrying, Reported
  <2>4. GatherInv' /\ RaceInv' /\ EndInv'
    BY <2>1, <2>3 DEF IInv, GatherInv, RaceInv, EndInv
  <2>5. QED
    BY <2>2, <2>4 DEF IInv
<1>2. CASE TheJudge
  BY <1>1, <1>2, Facts, GatherStep, SignalStep, ReceiveStep, ReceiveOtherStep, PutBackStep
     DEF TheJudge, Taking, GatherFails
<1>3. CASE relay_race
  BY <1>3, ForkStep, ReapStep DEF relay_race
<1>4. ASSUME NEW r \in Runners, Runner(r) PROVE IInv'
  BY <1>4, Facts, ReadyStep, ReceiveStep, ReceiveOtherStep, PutBackStep, FinishStep
     DEF Runner, Taking
<1>5. QED
  BY <1>1, <1>2, <1>3, <1>4 DEF Next

\* So account and baton are right for as long as the race is run.
LEMMA IInvAlways == Spec => []IInv
BY InitIInv, NextIInv, PTL DEF Spec

\* All variables keep their types; the judge never counts past N.
THEOREM TypeCorrect == Spec => []TypeOK
<1>1. IInv => TypeOK
  BY DEF IInv
<1>2. QED
  BY <1>1, IInvAlways, PTL

\* "All runners are ready" is true when the judge says so, although it counts
\* whatever it receives while runners take and put back each other's messages.
THEOREM ReadyMeansReady == Spec => []AnnouncedMeansReady
<1>1. ASSUME IInv PROVE AnnouncedMeansReady
  <2>1. CASE pc[Judge] = "signal"
    <3>1. Reported = Runners /\ Queued = 0 /\ Carrying = {}
      BY <1>1, <2>1, AllCounted
    <3>2. \A r \in Runners : pc[r] \in {"waiting", "exited"}
      BY <1>1, <3>1, Facts DEF IInv, PlaceInv, Reported, Carrying
    <3>3. QED
      BY <3>1, <3>2 DEF AnnouncedMeansReady
  <2>2. QED
    BY <2>1 DEF AnnouncedMeansReady
<1>2. QED
  BY <1>1, IInvAlways, PTL

\* After the signal there is one baton, however often it is taken by the wrong
\* receiver and put back, and everybody before whom it is for has finished.
THEOREM BatonIsOne == Spec => []OneBaton
<1>1. ASSUME IInv PROVE OneBaton
  BY <1>1 DEF IInv, RaceInv, OneBaton
<1>2. QED
  BY <1>1, IInvAlways, PTL

\* With room for a message of every runner nobody ever blocks in mq_send, so that
\* all of them waiting to put a message back is no deadlock.
THEOREM NobodyBlocksInSend ==
  ASSUME N <= MaxMsg
  PROVE  Spec => []SendNeverBlocks
<1>1. ASSUME IInv PROVE SendNeverBlocks
  <2> SUFFICES ASSUME NEW x \in Prio, pc[x] \in {"created", "put_back", "running", "signal"}, valid
               PROVE  Queued < MaxMsg
    BY DEF SendNeverBlocks
  <2> USE <1>1
  <2>1. CASE pc[Judge] \in {"waiting", "put_back"}
    <3>1. pc[x] # "created" /\ pc[x] # "signal"
      BY <2>1, Facts DEF IInv, PlaceInv, RaceInv, Reported
    <3>2. Carrying # {}
      BY <3>1 DEF Carrying
    <3>3. QED
      BY <2>1, <3>2, CopiesFinite, CarryingFinite, Facts DEF IInv, RaceInv
  <2>2. CASE pc[Judge] = "exited"
    BY <2>2, Facts DEF IInv, EndInv
  <2>3. CASE pc[Judge] = "signal"
    BY <2>3, AllCounted, Facts
  <2>4. CASE pc[Judge] \in {"unborn", "gather"}
    <3>1. Cardinality(Reported) = runners_ready + Queued + Cardinality(Carrying) /\ runners_ready \in 0 .. N
      BY <2>4 DEF IInv, GatherInv, TypeOK
    <3>2. CASE pc[x] = "created"
      <4>1. x \in Runners /\ x \notin Reported
        BY <2>4, <3>2, Facts DEF Reported
      <4>2. Cardinality(Reported) < N
        BY <4>1, ReportedFinite, Facts
      <4>3. QED
        BY <3>1, <4>2, CopiesFinite, CarryingFinite, ReportedFinite, Facts
    <3>3. CASE pc[x] \in {"put_back", "running"}
      <4>1. Cardinality(Carrying) > 0
        BY <3>3, CarryingFinite DEF Carrying
      <4>2. QED
        BY <3>1, <4>1, CopiesFinite, CarryingFinite, ReportedFinite, Facts
    <3>4. CASE pc[x] = "signal"
      BY <2>4, <3>4, Facts DEF IInv, PlaceInv
    <3>5. QED
      BY <3>2, <3>3, <3>4
  <2>5. QED
    BY <2>1, <2>2, <2>3, <2>4 DEF IInv, PlaceInv
<1>2. QED
  BY <1>1, IInvAlways, PTL
=============================================================================
