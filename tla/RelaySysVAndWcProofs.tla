---------------------- MODULE RelaySysVAndWcProofs ----------------------
(***************************************************************************)
(* Proofs about RelaySysV, for any number of runners and any number of     *)
(* failing forks; and, after them, about WcCat, for any arguments of the   *)
(* command and any sizes of the buffer and the pipes.  The two systems     *)
(* share nothing but this module.                                          *)
(***************************************************************************)
EXTENDS RelaySysV, WcCat, FiniteSetTheorems, SequenceTheorems,
        WellFoundedInduction, TLAPS

-----------------------------------------------------------------------------
(* The relay race.                                                         *)

\* main forks the judge first and the runners in their order.
ForkInv ==
  /\ forked = 0 => jpc = "unborn"
  /\ \A r \in Runners : r >= forked => rpc[r] = "unborn"

\* Who has sent a message, under its own number or under the one it was handed.
Reported == {r \in Runners : rpc[r] \notin {"unborn", "created"}}

\* Until the signal every runner's number is sent once and travels on whatever is
\* sent, by whom and to whom: no number is in two messages, in two hands, in a
\* message and a hand, or there and among those the judge has heard.
NumbersApart ==
  /\ \A i \in DOMAIN queue : queue[i].number \in Reported \ heard
  /\ \A i, j \in DOMAIN queue : i # j => queue[i].number # queue[j].number
  /\ \A r \in Running : hand[r] \in Reported \ heard
  /\ \A r, s \in Running : r # s => hand[r] # hand[s]
  /\ \A r \in Running, i \in DOMAIN queue : hand[r] # queue[i].number

\* So what the judge receives are N different numbers, although it only counts.
GatherInv ==
  jpc \in {"unborn", "gather", "signal"} =>
    /\ NumbersApart
    /\ heard \subseteq Reported /\ runners_ready = Cardinality(heard)
    /\ jpc = "gather" => runners_ready < N
    /\ jpc = "unborn" => runners_ready = 0
    /\ jpc = "signal" => runners_ready = N

\* After the signal everybody has reported, and there is one message or one
\* runner on the way.
RaceInv ==
  jpc = "await" =>
    /\ Reported = Runners
    /\ \/ Len(queue) = 1 /\ Running = {}
       \/ queue = <<>> /\ \E r \in Runners : Running = {r}

IInv == TypeOK /\ ForkInv /\ GatherInv /\ RaceInv

-----------------------------------------------------------------------------
(* The queue.                                                              *)

Message == [mtype : 1 .. N + 1, number : Runners]

\* RemoveAt takes one element out and keeps the others in their order.
LEMMA Removed ==
  ASSUME NEW S, NEW s \in Seq(S), NEW i \in 1 .. Len(s)
  PROVE  /\ RemoveAt(s, i) \in Seq(S) /\ Len(RemoveAt(s, i)) = Len(s) - 1
         /\ \A k \in 1 .. Len(s) - 1 : RemoveAt(s, i)[k] = IF k < i THEN s[k] ELSE s[k + 1]
<1> DEFINE a == SubSeq(s, 1, i - 1)
           b == SubSeq(s, i + 1, Len(s))
<1>1. /\ a \in Seq(S) /\ Len(a) = i - 1
      /\ \A k \in 1 .. i - 1 : a[k] = s[k]
  OBVIOUS
<1>2. /\ b \in Seq(S) /\ Len(b) = Len(s) - i
      /\ \A k \in 1 .. Len(s) - i : b[k] = s[i + k]
  OBVIOUS
<1> HIDE DEF a, b
<1>3. /\ a \o b \in Seq(S) /\ Len(s) \in Nat /\ i \in Nat
      /\ (i - 1) + (Len(s) - i) = Len(s) - 1
  BY <1>1, <1>2, ConcatProperties
<1>4. /\ Len(a \o b) = Len(s) - 1
      /\ \A k \in 1 .. Len(s) - 1 : (a \o b)[k] = IF k <= i - 1 THEN a[k] ELSE b[k - (i - 1)]
  <2>1. Len(a) + Len(b) = Len(s) - 1
    BY <1>1, <1>2, <1>3
  <2>2. /\ Len(a \o b) = Len(a) + Len(b)
        /\ \A k \in 1 .. Len(a) + Len(b) : (a \o b)[k] = IF k <= Len(a) THEN a[k] ELSE b[k - Len(a)]
    BY <1>1, <1>2, ConcatProperties
  <2>3. QED
    BY <1>1, <2>1, <2>2
<1>5. ASSUME NEW k \in 1 .. Len(s) - 1
      PROVE  (a \o b)[k] = IF k < i THEN s[k] ELSE s[k + 1]
  <2>1. CASE k < i
    BY <1>1, <1>3, <1>4, <2>1
  <2>2. CASE ~(k < i)
    <3>1. k - (i - 1) \in 1 .. Len(s) - i /\ i + (k - (i - 1)) = k + 1
      BY <1>3, <2>2
    <3>2. QED
      BY <1>2, <1>3, <1>4, <2>2, <3>1
  <2>3. QED
    BY <2>1, <2>2
<1>6. QED
  BY <1>3, <1>4, <1>5 DEF RemoveAt, a, b

\* msgrcv takes one message out of the queue; every other one is still there once.
LEMMA ReceivedOne ==
  ASSUME TypeOK, NEW t, NEW i \in DOMAIN queue, msgrcv(t, i)
  PROVE  /\ queue[i] \in Message /\ t \in {0, queue[i].mtype}
         /\ queue' \in Seq(Message) /\ Len(queue) \in Nat \ {0} /\ Len(queue') = Len(queue) - 1
         /\ \A k \in DOMAIN queue' : \E m \in DOMAIN queue \ {i} : queue'[k] = queue[m]
         /\ \A k, l \in DOMAIN queue' :
              k # l => \E m, n \in DOMAIN queue \ {i} :
                         m # n /\ queue'[k] = queue[m] /\ queue'[l] = queue[n]
<1>1. queue \in Seq(Message) /\ i \in 1 .. Len(queue)
  BY DEF TypeOK, Message
<1>2. /\ queue' \in Seq(Message) /\ Len(queue') = Len(queue) - 1
      /\ \A k \in 1 .. Len(queue) - 1 : queue'[k] = IF k < i THEN queue[k] ELSE queue[k + 1]
  BY <1>1, Removed DEF msgrcv
<1> DEFINE At(k) == IF k < i THEN k ELSE k + 1
<1>3. \A k \in DOMAIN queue' : At(k) \in DOMAIN queue \ {i} /\ queue'[k] = queue[At(k)]
  BY <1>1, <1>2
<1>4. \A k, l \in DOMAIN queue' : k # l => At(k) # At(l)
  BY <1>1, <1>2
<1> HIDE DEF At
<1>5. QED
  BY <1>1, <1>2, <1>3, <1>4 DEF msgrcv

\* msgsnd adds one message at the end.
LEMMA SentOne ==
  ASSUME TypeOK, NEW m \in Message, msgsnd(m)
  PROVE  /\ queue' \in Seq(Message) /\ Len(queue) \in Nat /\ Len(queue') = Len(queue) + 1
         /\ DOMAIN queue' = 1 .. Len(queue) + 1 /\ DOMAIN queue = 1 .. Len(queue)
         /\ \A k \in DOMAIN queue : queue'[k] = queue[k]
         /\ queue'[Len(queue) + 1] = m
BY DEF msgsnd, TypeOK, Message

-----------------------------------------------------------------------------
(* The judge.                                                              *)

\* The judge has heard finitely many runners, and all of them once it has counted
\* to N.
LEMMA HeardCount ==
  ASSUME heard \subseteq Runners
  PROVE  /\ IsFiniteSet(heard) /\ Cardinality(heard) \in 0 .. N
         /\ Cardinality(heard) = N => heard = Runners
<1>1. IsFiniteSet(Runners) /\ Cardinality(Runners) = N
  BY FS_Interval, RaceAssumption DEF Runners
<1>2. QED
  BY <1>1, FS_Subset, FS_CardinalityType

\* What the judge takes for a report carries a number it has not heard.
LEMMA JudgeReceiveInv == ASSUME IInv, JudgeReceive PROVE IInv'
<1> USE DEF IInv
<1>1. PICK i \in DOMAIN queue : msgrcv(0, i) /\ heard' = heard \cup {queue[i].number}
  BY DEF JudgeReceive
<1>2. /\ jpc = "gather" /\ runners_ready' = runners_ready + 1
      /\ jpc' = IF runners_ready' < N THEN "gather" ELSE "signal"
      /\ UNCHANGED <<valid, forked, rpc, hand, forkFails>>
  BY DEF JudgeReceive
<1>3. queue[i].number \in Runners /\ queue[i].number \notin heard /\ queue[i].number \in Reported
  BY <1>1, <1>2, ReceivedOne DEF GatherInv, NumbersApart, Message, Reported
<1>4. runners_ready' = Cardinality(heard') /\ runners_ready' \in 0 .. N
  <2>1. heard \subseteq Runners /\ heard' \subseteq Runners
    BY <1>1, <1>3 DEF TypeOK
  <2>2. Cardinality(heard') = Cardinality(heard) + 1
    BY <1>1, <1>3, <2>1, HeardCount, FS_AddElement
  <2>3. runners_ready = Cardinality(heard) /\ runners_ready < N
    BY <1>2 DEF GatherInv
  <2>4. QED
    BY <1>2, <2>1, <2>2, <2>3, RaceAssumption DEF TypeOK
<1>5. TypeOK'
  BY <1>1, <1>2, <1>3, <1>4, ReceivedOne DEF TypeOK, Message
<1>6. ForkInv'
  BY <1>2 DEF ForkInv
<1>7. Reported' = Reported /\ Running' = Running
  BY <1>2 DEF Reported, Running
<1>8. NumbersApart'
  <2>1. NumbersApart
    BY <1>2 DEF GatherInv
  <2>2. \A k \in DOMAIN queue' : queue'[k].number \in Reported \ heard'
    BY <1>1, <2>1, ReceivedOne DEF NumbersApart
  <2>3. \A k, l \in DOMAIN queue' : k # l => queue'[k].number # queue'[l].number
    BY <1>1, <2>1, ReceivedOne DEF NumbersApart
  <2>4. \A r \in Running : hand[r] \in Reported \ heard'
    BY <1>1, <2>1 DEF NumbersApart
  <2>5. \A r \in Running, k \in DOMAIN queue' : hand[r] # queue'[k].number
    BY <1>1, <2>1, ReceivedOne DEF NumbersApart
  <2>6. QED
    BY <1>2, <1>7, <2>1, <2>2, <2>3, <2>4, <2>5 DEF NumbersApart
<1>9. GatherInv'
  BY <1>1, <1>2, <1>3, <1>4, <1>7, <1>8, RaceAssumption DEF GatherInv
<1>10. QED
  BY <1>2, <1>5, <1>6, <1>9 DEF RaceInv

\* Counted to N, heard them all: there is no number left to be on the way.
LEMMA AllHeard ==
  ASSUME IInv, jpc = "signal"
  PROVE  heard = Runners /\ Reported = Runners /\ Running = {} /\ queue = <<>>
<1>1. heard = Runners
  BY HeardCount DEF IInv, GatherInv, TypeOK
<1>2. Reported = Runners
  BY <1>1 DEF IInv, GatherInv, Reported
<1>3. Running = {}
  BY <1>1 DEF IInv, GatherInv, NumbersApart, Reported, Running
<1>4. \A i \in DOMAIN queue : FALSE
  BY <1>1 DEF IInv, GatherInv, NumbersApart, Reported
<1>5. queue = <<>>
  <2>1. queue \in Seq(Message)
    BY DEF IInv, TypeOK, Message
  <2>2. Len(queue) \notin Nat \ {0}
    <3> SUFFICES ASSUME Len(queue) \in Nat \ {0} PROVE FALSE
      OBVIOUS
    <3>1. 1 \in DOMAIN queue
      BY <2>1, LenProperties
    <3>2. QED
      BY <1>4, <3>1
  <2>3. QED
    BY <2>1, <2>2, EmptySeq
<1>6. QED
  BY <1>1, <1>2, <1>3, <1>5

\* The signal is the only message there is.
LEMMA JudgeSignalInv == ASSUME IInv, JudgeSignal PROVE IInv'
<1>1. PICK n \in heard : msgsnd(msg(1, n))
  BY DEF JudgeSignal
<1>2. /\ jpc = "signal" /\ jpc' = "await"
      /\ UNCHANGED <<valid, forked, runners_ready, heard, rpc, hand, forkFails>>
  BY DEF JudgeSignal
<1>3. msg(1, n) \in Message
  BY RaceAssumption DEF IInv, TypeOK, msg, Message
<1>4. TypeOK'
  BY <1>1, <1>2, <1>3, SentOne DEF IInv, TypeOK, Message
<1>5. RaceInv'
  <2>1. Len(queue') = 1
    BY <1>1, <1>2, <1>3, SentOne, AllHeard DEF IInv
  <2>2. Reported' = Runners /\ Running' = {}
    BY <1>2, AllHeard DEF Reported, Running
  <2>3. QED
    BY <2>1, <2>2 DEF RaceInv
<1>6. QED
  BY <1>2, <1>4, <1>5 DEF IInv, ForkInv, GatherInv

\* The last baton ends the race.
LEMMA JudgeFinishInv == ASSUME IInv, JudgeFinish PROVE IInv'
<1>1. PICK i \in DOMAIN queue : msgrcv(N + 1, i)
  BY DEF JudgeFinish
<1>2. /\ jpc = "await" /\ jpc' = "exited"
      /\ UNCHANGED <<valid, forked, runners_ready, heard, rpc, hand, forkFails>>
  BY DEF JudgeFinish
<1>3. TypeOK'
  BY <1>1, <1>2, ReceivedOne DEF IInv, TypeOK, Message
<1>4. QED
  BY <1>2, <1>3 DEF IInv, ForkInv, GatherInv, RaceInv

-----------------------------------------------------------------------------
(* The runners.                                                            *)

\* A report puts one more number on its way.
LEMMA ReadyInv == ASSUME IInv, NEW r \in Runners, Ready(r) PROVE IInv'
<1> USE DEF IInv
<1>1. /\ rpc[r] = "created" /\ UNCHANGED <<valid, forked, jpc, runners_ready, heard, hand, forkFails>>
      /\ rpc \in [Runners -> {"unborn", "created", "waiting", "running", "exited"}]
  BY DEF Ready, TypeOK
<1>2. r \notin Reported /\ r \notin Running
  BY <1>1 DEF Reported, Running
<1>3. CASE msgsnd(msg(r, r)) /\ rpc' = [rpc EXCEPT ![r] = "waiting"]
  <2>1. msg(r, r) \in Message /\ msg(r, r).number = r
    BY RaceAssumption DEF msg, Message, Runners
  <2>2. Reported' = Reported \cup {r} /\ Running' = Running
    BY <1>1, <1>3 DEF Reported, Running
  <2>3. TypeOK'
    BY <1>1, <1>3, <2>1, SentOne DEF TypeOK, Message
  <2>4. ForkInv'
    BY <1>1, <1>3 DEF ForkInv, TypeOK
  <2>5. RaceInv'
    BY <1>1, <1>2 DEF RaceInv
  <2>6. ASSUME NumbersApart, heard \subseteq Reported PROVE NumbersApart'
    <3>1. /\ DOMAIN queue' = 1 .. Len(queue) + 1 /\ DOMAIN queue = 1 .. Len(queue) /\ Len(queue) \in Nat
          /\ \A k \in DOMAIN queue : queue'[k] = queue[k]
          /\ queue'[Len(queue) + 1].number = r
      BY <1>3, <2>1, SentOne
    <3>2. \A k \in DOMAIN queue' : queue'[k].number \in Reported' \ heard'
      BY <1>1, <1>2, <2>2, <2>6, <3>1 DEF NumbersApart
    <3>3. \A k, l \in DOMAIN queue' : k # l => queue'[k].number # queue'[l].number
      BY <1>2, <2>6, <3>1 DEF NumbersApart
    <3>4. \A q \in Running, k \in DOMAIN queue' : hand[q] # queue'[k].number
      BY <1>2, <2>6, <3>1 DEF NumbersApart
    <3>5. QED
      BY <1>1, <2>2, <2>6, <3>2, <3>3, <3>4 DEF NumbersApart
  <2>7. GatherInv'
    BY <1>1, <2>2, <2>6 DEF GatherInv
  <2>8. QED
    BY <2>3, <2>4, <2>5, <2>7
<1>4. CASE ~valid /\ rpc' = [rpc EXCEPT ![r] = "exited"] /\ UNCHANGED queue
  <2>1. Reported' = Reported \cup {r} /\ Running' = Running
    BY <1>1, <1>4 DEF Reported, Running
  <2>2. TypeOK' /\ ForkInv' /\ RaceInv'
    BY <1>1, <1>2, <1>4 DEF TypeOK, ForkInv, RaceInv
  <2>3. GatherInv'
    BY <1>1, <1>4, <2>1 DEF GatherInv, NumbersApart
  <2>4. QED
    BY <2>2, <2>3
<1>5. QED
  BY <1>3, <1>4 DEF Ready

\* Whatever a runner receives, its number goes from the queue into its hand.
LEMMA StartInv == ASSUME IInv, NEW r \in Runners, Start(r) PROVE IInv'
<1> USE DEF IInv
<1>1. PICK i \in DOMAIN queue : msgrcv(r, i) /\ hand' = [hand EXCEPT ![r] = queue[i].number]
  BY DEF Start
<1>2. /\ rpc[r] = "waiting" /\ rpc' = [rpc EXCEPT ![r] = "running"]
      /\ UNCHANGED <<valid, forked, jpc, runners_ready, heard, forkFails>>
      /\ rpc \in [Runners -> {"unborn", "created", "waiting", "running", "exited"}]
      /\ hand \in [Runners -> Runners]
  BY DEF Start, TypeOK
<1>3. Reported' = Reported /\ Running' = Running \cup {r} /\ r \notin Running
  BY <1>2 DEF Reported, Running
<1>4. TypeOK'
  BY <1>1, <1>2, ReceivedOne DEF TypeOK, Message
<1>5. ForkInv'
  BY <1>2 DEF ForkInv, TypeOK
<1>6. RaceInv'
  <2> SUFFICES ASSUME jpc = "await" PROVE RaceInv'
    BY <1>2 DEF RaceInv
  <2>1. Len(queue) = 1 /\ Running = {} /\ Reported = Runners
    BY <1>1 DEF RaceInv
  <2>2. queue' = <<>>
    BY <1>1, <2>1, ReceivedOne, EmptySeq
  <2>3. QED
    BY <1>3, <2>1, <2>2 DEF RaceInv
<1>7. ASSUME NumbersApart PROVE NumbersApart'
  <2>1. \A k \in DOMAIN queue' : queue'[k].number \in Reported \ heard
    BY <1>1, <1>7, ReceivedOne DEF NumbersApart
  <2>2. \A k, l \in DOMAIN queue' : k # l => queue'[k].number # queue'[l].number
    BY <1>1, <1>7, ReceivedOne DEF NumbersApart
  <2>3. hand'[r] = queue[i].number /\ \A q \in Running : q \in Runners /\ hand'[q] = hand[q]
    BY <1>1, <1>2, <1>3 DEF Running
  <2>4. \A q \in Running' : hand'[q] \in Reported \ heard
    BY <1>1, <1>3, <1>7, <2>3 DEF NumbersApart
  <2>5. \A q, t \in Running' : q # t => hand'[q] # hand'[t]
    BY <1>1, <1>3, <1>7, <2>3 DEF NumbersApart
  <2>6. \A k \in DOMAIN queue' : queue'[k].number # queue[i].number
    BY <1>1, <1>7, ReceivedOne DEF NumbersApart
  <2>7. \A q \in Running, k \in DOMAIN queue' : hand[q] # queue'[k].number
    BY <1>1, <1>7, ReceivedOne DEF NumbersApart
  <2>8. QED
    BY <1>2, <1>3, <2>1, <2>2, <2>3, <2>4, <2>5, <2>6, <2>7 DEF NumbersApart
<1>8. GatherInv'
  BY <1>2, <1>3, <1>7 DEF GatherInv
<1>9. QED
  BY <1>4, <1>5, <1>6, <1>8

\* The number goes on to the next runner.
LEMMA FinishInv == ASSUME IInv, NEW r \in Runners, Finish(r) PROVE IInv'
<1> USE DEF IInv
<1> DEFINE m == msg(r + 1, hand[r])
<1>1. /\ rpc[r] = "running" /\ rpc' = [rpc EXCEPT ![r] = "exited"] /\ msgsnd(m)
      /\ UNCHANGED <<valid, forked, jpc, runners_ready, heard, hand, forkFails>>
      /\ rpc \in [Runners -> {"unborn", "created", "waiting", "running", "exited"}]
      /\ hand \in [Runners -> Runners]
  BY DEF Finish, TypeOK
<1>2. m \in Message /\ m.number = hand[r]
  BY <1>1, RaceAssumption DEF msg, Message, Runners
<1> HIDE DEF m
<1>3. Reported' = Reported /\ Running' = Running \ {r} /\ r \in Running
  BY <1>1 DEF Reported, Running
<1>4. /\ DOMAIN queue' = 1 .. Len(queue) + 1 /\ DOMAIN queue = 1 .. Len(queue) /\ Len(queue) \in Nat
      /\ \A k \in DOMAIN queue : queue'[k] = queue[k]
      /\ queue'[Len(queue) + 1].number = hand[r] /\ Len(queue') = Len(queue) + 1
  BY <1>1, <1>2, SentOne
<1>5. TypeOK'
  BY <1>1, <1>2, SentOne DEF TypeOK, Message
<1>6. ForkInv'
  BY <1>1 DEF ForkInv, TypeOK
<1>7. RaceInv'
  <2> SUFFICES ASSUME jpc = "await" PROVE RaceInv'
    BY <1>1 DEF RaceInv
  <2>1. queue = <<>> /\ Running = {r} /\ Reported = Runners
    BY <1>3 DEF RaceInv
  <2>2. QED
    BY <1>3, <1>4, <2>1 DEF RaceInv
<1>8. ASSUME NumbersApart PROVE NumbersApart'
  <2>1. \A k \in DOMAIN queue' : queue'[k].number \in Reported \ heard
    BY <1>3, <1>4, <1>8 DEF NumbersApart
  <2>2. \A k, l \in DOMAIN queue' : k # l => queue'[k].number # queue'[l].number
    BY <1>3, <1>4, <1>8 DEF NumbersApart
  <2>3. \A q \in Running', k \in DOMAIN queue' : hand[q] # queue'[k].number
    BY <1>3, <1>4, <1>8 DEF NumbersApart
  <2>4. QED
    BY <1>1, <1>3, <1>8, <2>1, <2>2, <2>3 DEF NumbersApart
<1>9. GatherInv'
  BY <1>1, <1>3, <1>8 DEF GatherInv
<1>10. QED
  BY <1>5, <1>6, <1>7, <1>9

-----------------------------------------------------------------------------
(* main, and the theorems.                                                 *)

\* A process that is forked has not reported; after the signal nobody is left to
\* be forked.
LEMMA ForkKeepsInv == ASSUME IInv, Fork PROVE IInv'
<1> USE DEF IInv
<1>1. /\ forked \in 0 .. N /\ forked' = forked + 1
      /\ UNCHANGED <<queue, valid, runners_ready, heard, hand>>
      /\ rpc \in [Runners -> {"unborn", "created", "waiting", "running", "exited"}]
  BY RaceAssumption DEF Fork, TypeOK
<1>2. \/ forked = 0 /\ jpc' = "gather" /\ UNCHANGED rpc
      \/ forked # 0 /\ rpc' = [rpc EXCEPT ![forked] = "created"] /\ UNCHANGED jpc
      \/ UNCHANGED <<jpc, rpc>>
  BY DEF Fork
<1>3. forkFails' \in 0 .. MaxForkFails
  BY RaceAssumption DEF Fork, TypeOK
<1>4. forked # 0 => forked \in Runners /\ rpc[forked] = "unborn"
  BY <1>1, RaceAssumption DEF ForkInv, Runners
<1>5. TypeOK'
  BY <1>1, <1>2, <1>3, <1>4, RaceAssumption DEF TypeOK
<1>6. ForkInv'
  BY <1>1, <1>2, <1>4, RaceAssumption DEF ForkInv, Runners
<1>7. Reported' = Reported /\ Running' = Running
  BY <1>1, <1>2, <1>4 DEF Reported, Running
<1>8. jpc' # "await"
  BY <1>1, <1>2, <1>4 DEF ForkInv, RaceInv, Reported
<1>9. GatherInv'
  <2>1. NumbersApart => NumbersApart'
    BY <1>1, <1>7 DEF NumbersApart
  <2>2. QED
    BY <1>1, <1>2, <1>7, <2>1, RaceAssumption DEF GatherInv, ForkInv
<1>10. QED
  BY <1>5, <1>6, <1>8, <1>9 DEF RaceInv

\* When main removes the queue there is no judge to count what it held.
LEMMA RemoveQueueInv == ASSUME IInv, RemoveQueue PROVE IInv'
<1> USE DEF IInv
<1>1. /\ forked = N + 1 /\ forked' = N + 2 /\ jpc \in {"unborn", "exited"} /\ queue' = <<>>
      /\ UNCHANGED <<valid, jpc, runners_ready, heard, rpc, hand, forkFails>>
  BY DEF RemoveQueue
<1>2. TypeOK'
  BY <1>1, EmptySeq, RaceAssumption DEF TypeOK
<1>3. ForkInv'
  BY <1>1, RaceAssumption DEF ForkInv, Runners
<1>4. Reported' = Reported /\ Running' = Running /\ DOMAIN queue' = {}
  BY <1>1 DEF Reported, Running
<1>5. GatherInv'
  BY <1>1, <1>4 DEF GatherInv, NumbersApart
<1>6. QED
  BY <1>1, <1>2, <1>3, <1>5 DEF RaceInv

\* Before the first fork nobody has sent anything.
LEMMA InitIInv == Init => IInv
<1> SUFFICES ASSUME Init PROVE IInv
  OBVIOUS
<1> USE DEF Init
<1>1. TypeOK
  BY RaceAssumption, EmptySeq DEF TypeOK, Runners
<1>2. ForkInv /\ RaceInv
  BY DEF ForkInv, RaceInv
<1>3. DOMAIN queue = {} /\ Running = {}
  BY DEF Running
<1>4. GatherInv
  BY <1>3, FS_EmptySet DEF GatherInv, NumbersApart
<1>5. QED
  BY <1>1, <1>2, <1>4 DEF IInv

\* Every step of main, the judge and the runners keeps the numbers apart before
\* the signal and the baton one after it.
LEMMA NextIInv == IInv /\ [Next]_vars => IInv'
<1> SUFFICES ASSUME IInv, [Next]_vars PROVE IInv'
  OBVIOUS
<1>1. CASE UNCHANGED vars
  BY <1>1 DEF vars, IInv, TypeOK, ForkInv, GatherInv, NumbersApart, RaceInv, Reported, Running
<1>2. CASE Judge
  BY <1>1, <1>2, JudgeReceiveInv, JudgeSignalInv, JudgeFinishInv DEF Judge, JudgeReceiveFails
<1>3. CASE Main
  BY <1>3, ForkKeepsInv, RemoveQueueInv DEF Main
<1>4. CASE \E r \in Runners : Runner(r)
  BY <1>4, ReadyInv, StartInv, FinishInv DEF Runner
<1>5. QED
  BY <1>1, <1>2, <1>3, <1>4 DEF Next

\* The queue, the judge's counter and the runners' hands stay in range: in
\* particular the judge never counts more than N reports.
THEOREM TypeCorrect == Spec => []TypeOK
<1>1. IInv => TypeOK
  BY DEF IInv
<1>2. QED
  BY <1>1, InitIInv, NextIInv, PTL DEF Spec

\* For any number of runners: although a runner may take its own report and the
\* judge a baton for one, the judge that counts to N has heard every runner, and
\* nothing is left that could be taken for the signal.
THEOREM ReadyMeansReady == Spec => []AnnouncedMeansReady
<1>1. ASSUME IInv PROVE AnnouncedMeansReady
  <2> SUFFICES ASSUME jpc = "signal"
               PROVE  /\ heard = Runners /\ queue = <<>>
                      /\ \A r \in Runners : rpc[r] \in {"waiting", "exited"}
    BY DEF AnnouncedMeansReady
  <2>1. heard = Runners /\ Reported = Runners /\ Running = {} /\ queue = <<>>
    BY <1>1, AllHeard
  <2>2. QED
    BY <1>1, <2>1 DEF IInv, TypeOK, Reported, Running
<1>2. QED
  BY <1>1, InitIInv, NextIInv, PTL DEF Spec

\* After the signal exactly one baton is on its way, for any number of runners.
THEOREM BatonIsOne == Spec => []OneBaton
<1>1. ASSUME IInv PROVE OneBaton
  <2> SUFFICES ASSUME jpc = "await" PROVE Len(queue) + Cardinality(Running) = 1
    BY DEF OneBaton
  <2>1. CASE Len(queue) = 1 /\ Running = {}
    BY <2>1, FS_EmptySet
  <2>2. CASE queue = <<>> /\ \E r \in Runners : Running = {r}
    <3>1. PICK r \in Runners : Running = {r}
      BY <2>2
    <3>2. Cardinality(Running) = 1
      BY <3>1, FS_Singleton
    <3>3. QED
      BY <2>2, <3>2
  <2>3. QED
    BY <1>1, <2>1, <2>2 DEF IInv, RaceInv
<1>2. QED
  BY <1>1, InitIInv, NextIInv, PTL DEF Spec

-----------------------------------------------------------------------------
(* Texts, and their halves.                                                *)

Text == Seq(Chars)

\* The smaller of two numbers, as Min of the community modules has it.
LEMMA MinOfTwo ==
  ASSUME NEW a \in Int, NEW b \in Int
  PROVE  Min({a, b}) \in Int /\ Min({a, b}) <= a /\ Min({a, b}) <= b /\ Min({a, b}) \in {a, b}
<1>1. \E x \in {a, b} : \A y \in {a, b} : x <= y
  OBVIOUS
<1>2. Min({a, b}) \in {a, b} /\ \A y \in {a, b} : Min({a, b}) <= y
  BY <1>1 DEF Min
<1>3. QED
  BY <1>2

\* A text is its first n characters and the others.
LEMMA Halves ==
  ASSUME NEW t \in Text, NEW n \in Nat, n <= Len(t)
  PROVE  /\ SubSeq(t, 1, n) \in Text /\ SubSeq(t, n + 1, Len(t)) \in Text
         /\ Len(SubSeq(t, 1, n)) = n
         /\ SubSeq(t, 1, n) \o SubSeq(t, n + 1, Len(t)) = t
<1>1. Len(t) \in Nat /\ \A i \in 1 .. Len(t) : t[i] \in Chars
  BY LenProperties, ElementOfSeq DEF Text
<1>2. /\ SubSeq(t, 1, n) \in Text /\ SubSeq(t, n + 1, Len(t)) \in Text
      /\ Len(SubSeq(t, 1, n)) = n
  BY <1>1, SubSeqProperties DEF Text
<1>3. 1 \in 1 .. Len(t) + 1 /\ n \in 1 - 1 .. Len(t) /\ Len(t) \in n .. Len(t)
  BY <1>1
<1>4. SubSeq(t, 1, n) \o SubSeq(t, n + 1, Len(t)) = SubSeq(t, 1, Len(t))
  BY <1>3, ConcatAdjacentSubSeq DEF Text
<1>5. SubSeq(t, 1, Len(t)) = t
  BY SubSeqFull DEF Text
<1>6. QED
  BY <1>2, <1>4, <1>5

\* What is known of the places of two texts put together.
LEMMA Joined ==
  ASSUME NEW u \in Text, NEW t \in Text
  PROVE  /\ u \o t \in Text /\ Len(u) \in Nat /\ Len(t) \in Nat
         /\ Len(u \o t) = Len(u) + Len(t)
         /\ \A i \in 1 .. Len(u) : (u \o t)[i] = u[i]
         /\ \A i \in 1 .. Len(t) : (u \o t)[Len(u) + i] = t[i]
<1>1. Len(u) \in Nat /\ Len(t) \in Nat
  BY LenProperties DEF Text
<1>2. /\ u \o t \in Text /\ Len(u \o t) = Len(u) + Len(t)
      /\ \A i \in 1 .. Len(u) + Len(t) :
           (u \o t)[i] = IF i <= Len(u) THEN u[i] ELSE t[i - Len(u)]
  BY ConcatProperties DEF Text
<1>3. ASSUME NEW i \in 1 .. Len(u) PROVE (u \o t)[i] = u[i]
  BY <1>1, <1>2
<1>4. ASSUME NEW i \in 1 .. Len(t) PROVE (u \o t)[Len(u) + i] = t[i]
  <2>1. Len(u) + i \in 1 .. Len(u) + Len(t) /\ ~(Len(u) + i <= Len(u)) /\ (Len(u) + i) - Len(u) = i
    BY <1>1
  <2>2. QED
    BY <1>2, <2>1
<1>5. QED
  BY <1>1, <1>2, <1>3, <1>4

-----------------------------------------------------------------------------
(* Counting.                                                               *)

\* Places moved by k are as many as before.
LEMMA Shifted ==
  ASSUME NEW k \in Nat, NEW A \in SUBSET Nat, IsFiniteSet(A)
  PROVE  /\ IsFiniteSet({k + i : i \in A})
         /\ Cardinality({k + i : i \in A}) = Cardinality(A)
<1> DEFINE B == {k + i : i \in A}
           f == [i \in A |-> k + i]
<1>1. f \in [A -> B] /\ \A i \in A : f[i] = k + i
  OBVIOUS
<1>2. \A i, j \in A : f[i] = f[j] => i = j
  BY <1>1
<1>3. \A b \in B : \E i \in A : f[i] = b
  BY <1>1
<1>4. f \in Bijection(A, B)
  BY <1>1, <1>2, <1>3 DEF Bijection, Injection, Surjection, IsInjective
<1>5. ExistsBijection(A, B)
  BY <1>4 DEF ExistsBijection
<1>6. QED
  BY <1>5, FS_Bijection

\* Sets that share nothing add up.
LEMMA Apart ==
  ASSUME NEW A, NEW B, IsFiniteSet(A), IsFiniteSet(B), A \cap B = {}
  PROVE  /\ IsFiniteSet(A \cup B)
         /\ Cardinality(A \cup B) = Cardinality(A) + Cardinality(B)
         /\ Cardinality(A) \in Nat /\ Cardinality(B) \in Nat
<1>1. Cardinality(A) \in Nat /\ Cardinality(B) \in Nat
  BY FS_CardinalityType
<1>2. Cardinality(A \cap B) = 0
  BY FS_EmptySet
<1>3. /\ IsFiniteSet(A \cup B)
      /\ Cardinality(A \cup B) = Cardinality(A) + Cardinality(B) - Cardinality(A \cap B)
  BY FS_Union
<1>4. QED
  BY <1>1, <1>2, <1>3

\* The places of a text are finitely many.
LEMMA Places ==
  ASSUME NEW t \in Text, NEW A \in SUBSET (1 .. Len(t))
  PROVE  IsFiniteSet(A) /\ A \in SUBSET Nat
<1>1. Len(t) \in Nat
  BY LenProperties DEF Text
<1>2. IsFiniteSet(1 .. Len(t))
  BY <1>1, FS_Interval
<1>3. IsFiniteSet(A)
  BY <1>2, FS_Subset
<1>4. QED
  BY <1>1, <1>3

\* Every line is counted by the read that sees its end.
LEMMA LinesAdd ==
  ASSUME NEW u \in Text, NEW t \in Text
  PROVE  Cardinality(NewLines(u \o t)) = Cardinality(NewLines(u)) + Lines(t)
<1> DEFINE M == {Len(u) + i : i \in NewLines(t)}
<1>1. /\ u \o t \in Text /\ Len(u) \in Nat /\ Len(t) \in Nat
      /\ Len(u \o t) = Len(u) + Len(t)
      /\ \A i \in 1 .. Len(u) : (u \o t)[i] = u[i]
      /\ \A i \in 1 .. Len(t) : (u \o t)[Len(u) + i] = t[i]
  BY Joined
<1>2. \A w \in Text : NewLines(w) = {i \in 1 .. Len(w) : w[i] = "n"}
  BY LenProperties DEF NewLines, Text
<1>3. NewLines(u) \in SUBSET (1 .. Len(u)) /\ NewLines(t) \in SUBSET (1 .. Len(t))
  BY <1>2
<1>4. NewLines(u \o t) = NewLines(u) \cup M
  <2>1. ASSUME NEW i \in NewLines(u \o t) PROVE i \in NewLines(u) \cup M
    <3>1. i \in 1 .. Len(u) + Len(t) /\ (u \o t)[i] = "n"
      BY <1>1, <1>2
    <3>2. CASE i <= Len(u)
      BY <1>1, <1>2, <3>1, <3>2
    <3>3. CASE i > Len(u)
      <4>1. i - Len(u) \in 1 .. Len(t) /\ Len(u) + (i - Len(u)) = i
        BY <1>1, <3>1, <3>3
      <4>2. t[i - Len(u)] = "n"
        BY <1>1, <3>1, <4>1
      <4>3. QED
        BY <1>2, <4>1, <4>2
    <3>4. QED
      BY <1>1, <3>1, <3>2, <3>3
  <2>2. ASSUME NEW i \in NewLines(u) PROVE i \in NewLines(u \o t)
    <3>1. i \in 1 .. Len(u) /\ u[i] = "n" /\ i \in 1 .. Len(u) + Len(t)
      BY <1>1, <1>2
    <3>2. QED
      BY <1>1, <1>2, <3>1
  <2>3. ASSUME NEW i \in NewLines(t) PROVE Len(u) + i \in NewLines(u \o t)
    <3>1. i \in 1 .. Len(t) /\ t[i] = "n" /\ Len(u) + i \in 1 .. Len(u) + Len(t)
      BY <1>1, <1>2
    <3>2. QED
      BY <1>1, <1>2, <3>1
  <2>4. QED
    BY <2>1, <2>2, <2>3
<1>5. NewLines(u) \cap M = {}
  BY <1>1, <1>3
<1>6. IsFiniteSet(NewLines(u)) /\ IsFiniteSet(NewLines(t)) /\ NewLines(t) \in SUBSET Nat
  BY <1>3, Places
<1>7. IsFiniteSet(M) /\ Cardinality(M) = Cardinality(NewLines(t))
  BY <1>1, <1>6, Shifted
<1>8. Lines(t) = Cardinality(NewLines(t))
  BY <1>2 DEF Lines
<1> HIDE DEF M
<1>9. QED
  BY <1>4, <1>5, <1>6, <1>7, <1>8, Apart

\* What the cuts add to the words.
WordCuts(t, C) == {i \in C : InWord(t, i)}

\* Every word is counted by the read that sees its start, and again by every
\* read that starts in it.
LEMMA WordsAdd ==
  ASSUME NEW u \in Text, NEW t \in Text, NEW C \in SUBSET (0 .. Len(u)),
         Len(u) # 0 => Len(u) \in C
  PROVE  Cardinality(WordStarts(u \o t)) + Cardinality(WordCuts(u \o t, C \cup {Len(u \o t)}))
           = Cardinality(WordStarts(u)) + Cardinality(WordCuts(u, C)) + Words(t)
<1> DEFINE v == u \o t
           k == Len(u)
           D == C \cup {Len(v)}
           S == {i \in 1 .. Len(t) : ~Space(t[i]) /\ ~InWord(v, (k + i) - 1)}
           M == {k + i : i \in S}
           F == {i \in 1 .. Len(t) : ~Space(t[i]) /\ (i = 1 \/ Space(t[i - 1]))}
<1>1. /\ v \in Text /\ k \in Nat /\ Len(t) \in Nat /\ Len(v) = k + Len(t)
      /\ \A i \in 1 .. k : v[i] = u[i]
      /\ \A i \in 1 .. Len(t) : v[k + i] = t[i]
  BY Joined
<1> HIDE DEF v, k
<1>2. ASSUME NEW i \in Nat, i < k PROVE InWord(v, i) <=> InWord(u, i)
  <2>1. CASE i = 0
    BY <2>1 DEF InWord
  <2>2. CASE i # 0
    <3>1. i \in 1 .. k /\ i + 1 \in 1 .. k /\ i \in 1 .. k - 1 /\ i \in 1 .. (k + Len(t)) - 1
      BY <1>1, <1>2, <2>2
    <3>2. v[i] = u[i] /\ v[i + 1] = u[i + 1]
      BY <1>1, <3>1
    <3>3. QED
      BY <1>1, <3>1, <3>2 DEF InWord, k
  <2>3. QED
    BY <2>1, <2>2
<1>3. ASSUME NEW i \in 1 .. Len(t), i # 1, ~Space(t[i])
      PROVE  InWord(v, (k + i) - 1) <=> ~Space(t[i - 1])
  <2>1. i - 1 \in 1 .. Len(t) /\ k + (i - 1) = (k + i) - 1 /\ ((k + i) - 1) + 1 = k + i
        /\ (k + i) - 1 \in 1 .. (k + Len(t)) - 1
    BY <1>1, <1>3
  <2>2. v[(k + i) - 1] = t[i - 1] /\ v[((k + i) - 1) + 1] = t[i]
    BY <1>1, <2>1
  <2>3. QED
    BY <1>1, <1>3, <2>1, <2>2 DEF InWord
<1>4. WordStarts(v) = WordStarts(u) \cup M
  <2>1. ASSUME NEW i \in WordStarts(v) PROVE i \in WordStarts(u) \cup M
    <3>1. i \in 1 .. k + Len(t) /\ ~Space(v[i]) /\ ~InWord(v, i - 1)
      BY <1>1 DEF WordStarts
    <3>2. CASE i <= k
      <4>1. i - 1 \in Nat /\ i - 1 < k /\ i \in 1 .. k
        BY <1>1, <3>1, <3>2
      <4>2. ~InWord(u, i - 1) /\ ~Space(u[i])
        BY <1>1, <1>2, <3>1, <4>1
      <4>3. QED
        BY <4>1, <4>2 DEF WordStarts, k
    <3>3. CASE i > k
      <4>1. i - k \in 1 .. Len(t) /\ k + (i - k) = i
        BY <1>1, <3>1, <3>3
      <4>2. ~Space(t[i - k]) /\ ~InWord(v, (k + (i - k)) - 1)
        BY <1>1, <3>1, <4>1
      <4>3. QED
        BY <4>1, <4>2
    <3>4. QED
      BY <1>1, <3>1, <3>2, <3>3
  <2>2. ASSUME NEW i \in WordStarts(u) PROVE i \in WordStarts(v)
    <3>1. i \in 1 .. k /\ ~Space(u[i]) /\ ~InWord(u, i - 1)
      BY DEF WordStarts, k
    <3>2. i - 1 \in Nat /\ i - 1 < k /\ i \in 1 .. k + Len(t)
      BY <1>1, <3>1
    <3>3. ~InWord(v, i - 1) /\ ~Space(v[i])
      BY <1>1, <1>2, <3>1, <3>2
    <3>4. QED
      BY <1>1, <3>2, <3>3 DEF WordStarts
  <2>3. ASSUME NEW i \in S PROVE k + i \in WordStarts(v)
    <3>1. k + i \in 1 .. k + Len(t) /\ ~Space(v[k + i]) /\ ~InWord(v, (k + i) - 1)
      BY <1>1
    <3>2. QED
      BY <1>1, <3>1 DEF WordStarts
  <2>4. QED
    BY <2>1, <2>2, <2>3
<1>5. /\ Cardinality(WordStarts(v)) = Cardinality(WordStarts(u)) + Cardinality(S)
      /\ Cardinality(WordStarts(u)) \in Nat /\ Cardinality(S) \in Nat /\ IsFiniteSet(S)
  <2>1. WordStarts(u) \in SUBSET (1 .. Len(u)) /\ S \in SUBSET (1 .. Len(t))
    BY DEF WordStarts
  <2>2. IsFiniteSet(WordStarts(u)) /\ IsFiniteSet(S) /\ S \in SUBSET Nat
    BY <2>1, Places
  <2>3. WordStarts(u) \cap M = {}
    BY <1>1, <2>1 DEF k
  <2> HIDE DEF S
  <2>4. IsFiniteSet(M) /\ Cardinality(M) = Cardinality(S)
    BY <1>1, <2>2, Shifted
  <2> HIDE DEF M
  <2>5. QED
    BY <1>4, <2>2, <2>3, <2>4, Apart
<1>6. /\ IsFiniteSet(WordCuts(u, C)) /\ Cardinality(WordCuts(u, C)) \in Nat
      /\ k \notin WordCuts(u, C)
  <2>1. WordCuts(u, C) \in SUBSET (1 .. Len(u))
    <3>1. \A i \in WordCuts(u, C) : i \in 1 .. Len(u) - 1
      BY DEF WordCuts, InWord
    <3>2. \A i \in 1 .. Len(u) - 1 : i \in 1 .. Len(u)
      BY <1>1 DEF k
    <3>3. QED
      BY <3>1, <3>2
  <2>2. IsFiniteSet(WordCuts(u, C))
    BY <2>1, Places
  <2>3. k \notin 1 .. k - 1
    BY <1>1
  <2>4. k \notin WordCuts(u, C)
    BY <2>3 DEF WordCuts, InWord, k
  <2>5. QED
    BY <2>2, <2>4, FS_CardinalityType
<1>7. \A i \in C : i \in Nat /\ (i < k \/ i = k)
  BY <1>1 DEF k
<1>8. ~InWord(v, Len(v)) /\ ~InWord(u, k)
  <2>1. Len(v) \notin 1 .. Len(v) - 1 /\ k \notin 1 .. k - 1
    BY <1>1
  <2>2. QED
    BY <2>1 DEF InWord, k
<1>9. Words(t) = Cardinality(F)
  BY DEF Words
<1>10. CASE InWord(v, k)
  <2>1. k # 0 /\ k \in C /\ 1 \in 1 .. Len(t) /\ ~Space(t[1])
    <3>1. k \in 1 .. (k + Len(t)) - 1 /\ ~Space(v[k + 1])
      BY <1>1, <1>10 DEF InWord
    <3>2. k # 0 /\ 1 \in 1 .. Len(t)
      BY <1>1, <3>1
    <3>3. QED
      BY <1>1, <3>1, <3>2 DEF k
  <2>2. (k + 1) - 1 = k
    BY <1>1
  <2>3. 1 \notin S
    BY <1>10, <2>2
  <2>4. ASSUME NEW i \in 1 .. Len(t), i # 1 PROVE i \in S <=> i \in F
    BY <1>3, <2>4
  <2>5. F = S \cup {1}
    BY <2>1, <2>4
  <2>6. WordCuts(v, D) = WordCuts(u, C) \cup {k}
    BY <1>2, <1>7, <1>8, <1>10, <2>1 DEF WordCuts
  <2> HIDE DEF F, S, D
  <2>7. Cardinality(F) = Cardinality(S) + 1
    BY <1>5, <2>3, <2>5, FS_AddElement
  <2>8. Cardinality(WordCuts(v, D)) = Cardinality(WordCuts(u, C)) + 1
    BY <1>6, <2>6, FS_AddElement
  <2>9. QED
    BY <1>5, <1>6, <1>9, <2>7, <2>8 DEF v, D
<1>11. CASE ~InWord(v, k)
  <2>1. (k + 1) - 1 = k
    BY <1>1
  <2>2. ASSUME NEW i \in 1 .. Len(t) PROVE i \in S <=> i \in F
    <3>1. CASE i = 1
      BY <1>11, <2>1, <3>1
    <3>2. CASE i # 1
      BY <1>3, <3>2
    <3>3. QED
      BY <3>1, <3>2
  <2>3. F = S
    BY <2>2
  <2>4. WordCuts(v, D) = WordCuts(u, C)
    BY <1>2, <1>7, <1>8, <1>11 DEF WordCuts
  <2> HIDE DEF F, S, D
  <2>5. QED
    BY <1>5, <1>6, <1>9, <2>3, <2>4 DEF v, D
<1>12. QED
  BY <1>10, <1>11

-----------------------------------------------------------------------------
(* What the command says.                                                  *)

\* A set of natural numbers that has an element has a least one.
LEMMA LeastOf ==
  ASSUME NEW A \in SUBSET Nat, A # {}
  PROVE  \E x \in A : \A y \in A : x <= y
<1>1. PICK x \in A : \A y \in A : ~ (<<y, x>> \in OpToRel(<, Nat))
  BY WFMin, NatLessThanWellFounded
<1>2. \A y \in A : ~ (y < x)
  BY <1>1 DEF OpToRel
<1>3. QED
  BY <1>2

\* Induction over the natural numbers, on a set of them.
LEMMA SetInduction ==
  ASSUME NEW A \in SUBSET Nat, 0 \in A, \A n \in A : n + 1 \in A
  PROVE  A = Nat
<1> SUFFICES ASSUME A # Nat PROVE FALSE
  OBVIOUS
<1>1. PICK x \in Nat \ A : \A y \in Nat \ A : x <= y
  BY LeastOf
<1>2. x # 0 /\ x - 1 \in A
  BY <1>1
<1>3. QED
  BY <1>1, <1>2

\* Min finds it.
LEMMA MinIs ==
  ASSUME NEW A \in SUBSET Nat, A # {}
  PROVE  Min(A) \in A /\ \A y \in A : Min(A) <= y
BY LeastOf DEF Min

\* What an argument makes the command say is a text.
LEMMA SaysIs ==
  ASSUME NEW s \in Streams, NEW arg \in Text \cup {Unreadable}
  PROVE  /\ Says(s, arg) \in Text
         /\ arg = Unreadable /\ s = "err" => Says(s, arg) = Complaint
         /\ arg = Unreadable /\ s = "out" => Says(s, arg) = <<>>
         /\ arg # Unreadable /\ s = "err" => Says(s, arg) = <<>>
         /\ arg # Unreadable /\ s = "out" => Says(s, arg) = arg
<1>1. Complaint \in Text /\ <<>> \in Text
  BY ComplaintAssumption, EmptySeq DEF Text
<1>2. QED
  BY <1>1 DEF Says

\* f is what s is told of the first m of the arguments a.
ToldOf(f, a, s, m) ==
  f = [n \in 0 .. m |-> IF n = 0 THEN <<>> ELSE f[n - 1] \o Says(s, a[n])]

\* It extends to the next argument.
LEMMA ToldStep ==
  ASSUME NEW a \in Seq(Text \cup {Unreadable}), NEW s \in Streams, NEW m \in Nat, m < Len(a),
         NEW f, ToldOf(f, a, s, m), f[m] \in Text
  PROVE  \E g : ToldOf(g, a, s, m + 1) /\ g[m + 1] \in Text
<1> DEFINE g == [n \in 0 .. m + 1 |-> IF n = m + 1 THEN f[m] \o Says(s, a[m + 1]) ELSE f[n]]
<1>1. g[m + 1] = f[m] \o Says(s, a[m + 1]) /\ \A n \in 0 .. m : g[n] = f[n]
  OBVIOUS
<1>2. a[m + 1] \in Text \cup {Unreadable}
  <2>1. m + 1 \in 1 .. Len(a)
    BY LenProperties
  <2>2. QED
    BY <2>1, ElementOfSeq
<1>3. g[m + 1] \in Text
  BY <1>1, <1>2, SaysIs, Joined
<1>4. ASSUME NEW n \in 0 .. m + 1
      PROVE  g[n] = IF n = 0 THEN <<>> ELSE g[n - 1] \o Says(s, a[n])
  <2>1. CASE n = m + 1
    <3>1. n - 1 = m /\ n # 0 /\ m \in 0 .. m
      BY <2>1
    <3>2. g[n - 1] = f[m]
      BY <1>1, <3>1
    <3>3. QED
      BY <1>1, <2>1, <3>1, <3>2
  <2>2. CASE n # m + 1
    <3>1. n \in 0 .. m
      BY <2>2
    <3>2. f[n] = IF n = 0 THEN <<>> ELSE f[n - 1] \o Says(s, a[n])
      BY <3>1 DEF ToldOf
    <3>3. n # 0 => n - 1 \in 0 .. m
      BY <3>1
    <3>4. n # 0 => g[n - 1] = f[n - 1]
      BY <1>1, <3>3
    <3>5. g[n] = f[n]
      BY <1>1, <3>1
    <3>6. QED
      BY <3>2, <3>4, <3>5
  <2>3. QED
    BY <2>1, <2>2
<1>5. ToldOf(g, a, s, m + 1)
  BY <1>4 DEF ToldOf
<1>6. QED
  BY <1>3, <1>5

\* So there is something to be told of all of them.
LEMMA ToldExists ==
  ASSUME NEW a \in Seq(Text \cup {Unreadable}), NEW s \in Streams
  PROVE  \E f : ToldOf(f, a, s, Len(a))
<1> DEFINE A == {m \in Nat : m <= Len(a) => \E f : ToldOf(f, a, s, m) /\ f[m] \in Text}
<1>0. Len(a) \in Nat
  BY LenProperties
<1>1. 0 \in A
  <2> DEFINE f == [n \in 0 .. 0 |-> <<>>]
  <2>1. f[0] = <<>> /\ <<>> \in Text
    BY EmptySeq DEF Text
  <2>2. ASSUME NEW n \in 0 .. 0 PROVE n = 0
    OBVIOUS
  <2>3. f = [n \in 0 .. 0 |-> IF n = 0 THEN <<>> ELSE f[n - 1] \o Says(s, a[n])]
    BY <2>2
  <2>4. ToldOf(f, a, s, 0)
    BY <2>3 DEF ToldOf
  <2>5. QED
    BY <2>1, <2>4
<1>2. ASSUME NEW m \in A PROVE m + 1 \in A
  <2> SUFFICES ASSUME m + 1 <= Len(a)
               PROVE  \E g : ToldOf(g, a, s, m + 1) /\ g[m + 1] \in Text
    OBVIOUS
  <2>1. m \in Nat /\ m < Len(a) /\ m <= Len(a)
    BY <1>0
  <2>2. PICK f : ToldOf(f, a, s, m) /\ f[m] \in Text
    BY <2>1
  <2>3. QED
    BY <2>1, <2>2, ToldStep
<1>3. A \in SUBSET Nat
  OBVIOUS
<1> HIDE DEF A
<1>4. A = Nat
  BY <1>1, <1>2, <1>3, SetInduction
<1>5. Len(a) \in A
  BY <1>0, <1>4
<1>6. QED
  BY <1>0, <1>5 DEF A

\* Output(s) is that, and grows by what the next argument makes the command say.
LEMMA OutputIs ==
  ASSUME args \in Seq(Text \cup {Unreadable}), NEW s \in Streams
  PROVE  /\ Output(s)[0] = <<>>
         /\ \A n \in Nat : n < Len(args) => Output(s)[n + 1] = Output(s)[n] \o Says(s, args[n + 1])
<1>1. Len(args) \in Nat
  BY LenProperties
<1>2. PICK f : ToldOf(f, args, s, Len(args))
  BY ToldExists
<1>3. Output(s) =
        CHOOSE g : g = [n \in 0 .. Len(args) |-> IF n = 0 THEN <<>> ELSE g[n - 1] \o Says(s, args[n])]
  BY DEF Output
<1>4. ToldOf(Output(s), args, s, Len(args))
  BY <1>2, <1>3 DEF ToldOf
<1> HIDE DEF Output
<1>5. \A n \in 0 .. Len(args) :
        Output(s)[n] = IF n = 0 THEN <<>> ELSE Output(s)[n - 1] \o Says(s, args[n])
  BY <1>4 DEF ToldOf
<1>6. Output(s)[0] = <<>>
  BY <1>1, <1>5
<1>7. ASSUME NEW n \in Nat, n < Len(args)
      PROVE  Output(s)[n + 1] = Output(s)[n] \o Says(s, args[n + 1])
  <2>1. n + 1 \in 0 .. Len(args) /\ n + 1 # 0 /\ (n + 1) - 1 = n
    BY <1>1, <1>7
  <2>2. QED
    BY <1>5, <2>1
<1>8. QED
  BY <1>6, <1>7

\* It depends on the arguments alone.
LEMMA SameOutput ==
  ASSUME args' = args, NEW s
  PROVE  Output(s)' = Output(s)
BY DEF Output

-----------------------------------------------------------------------------
(* wc and the command: types.                                              *)

Counts == [bytes : Nat, words : Nat, lines : Nat]

\* The type invariant.
WcTypeOK ==
  /\ args \in Args /\ file \in 0 .. Len(args)
  /\ to \in Streams /\ left \in Text /\ catpc \in {"running", "exited"}
  /\ pipe \in [Streams -> Text] /\ seen \in [Streams -> Text]
  /\ open \in SUBSET Streams /\ events \in SUBSET Streams
  /\ info \in [Streams -> Counts] /\ cuts \in [Streams -> SUBSET Nat]
  /\ mode \in {"count", "wait", "done"} /\ stops \in Nat

\* The arguments are texts, or cannot be read.
LEMMA ArgsAre ==
  ASSUME WcTypeOK
  PROVE  /\ args \in Seq(Text \cup {Unreadable}) /\ Len(args) \in Nat
         /\ \A i \in 1 .. Len(args) : args[i] \in Text \cup {Unreadable}
         /\ file \in Nat /\ file <= Len(args)
<1>1. args \in Seq(Text \cup {Unreadable})
  BY ArgsAssumption DEF WcTypeOK, Text
<1>2. Len(args) \in Nat /\ \A i \in 1 .. Len(args) : args[i] \in Text \cup {Unreadable}
  BY <1>1, LenProperties, ElementOfSeq
<1>3. QED
  BY <1>1, <1>2 DEF WcTypeOK

\* The next argument makes the command say what Says says.
LEMMA OpenNextIs ==
  ASSUME WcTypeOK, OpenNext
  PROVE  /\ file' = file + 1 /\ file < Len(args) /\ left = <<>> /\ to' \in Streams
         /\ left' \in Text /\ file' \in 0 .. Len(args)
         /\ \A s \in Streams : Says(s, args[file + 1]) = IF s = to' THEN left' ELSE <<>>
<1>1. file' = file + 1 /\ file < Len(args) /\ left = <<>>
  BY DEF OpenNext
<1>2. args[file + 1] \in Text \cup {Unreadable}
  BY <1>1, ArgsAre
<1>3. CASE args[file + 1] = Unreadable
  <2>1. to' = "err" /\ left' = Complaint
    BY <1>1, <1>3 DEF OpenNext
  <2>2. QED
    BY <1>1, <1>2, <1>3, <2>1, ArgsAre, SaysIs, ComplaintAssumption DEF Streams, Text
<1>4. CASE args[file + 1] # Unreadable
  <2>1. to' = "out" /\ left' = args[file + 1]
    BY <1>1, <1>4 DEF OpenNext
  <2>2. QED
    BY <1>1, <1>2, <1>4, <2>1, ArgsAre, SaysIs DEF Streams
<1>5. QED
  BY <1>3, <1>4

\* safewrite moves the beginning of what is left into the pipe.
LEMMA WriteIs ==
  ASSUME WcTypeOK, Write
  PROVE  \E t, rest \in Text :
           /\ left = t \o rest /\ left' = rest
           /\ pipe' = [pipe EXCEPT ![to] = @ \o t]
<1>1. PICK k \in 1 .. Min({Len(left), PipeCap - Len(pipe[to])}) :
        /\ pipe' = [pipe EXCEPT ![to] = @ \o SubSeq(left, 1, k)]
        /\ left' = SubSeq(left, k + 1, Len(left))
  BY DEF Write
<1>2. Len(left) \in Nat /\ Len(pipe[to]) \in Nat
  BY LenProperties DEF WcTypeOK, Text
<1>3. PipeCap - Len(pipe[to]) \in Int /\ Len(left) \in Int
  BY <1>2, SizesAssumption
<1>4. /\ Min({Len(left), PipeCap - Len(pipe[to])}) \in Int
      /\ Min({Len(left), PipeCap - Len(pipe[to])}) <= Len(left)
  BY <1>3, MinOfTwo
<1>5. k \in Nat /\ k <= Len(left)
  BY <1>2, <1>4
<1>6. /\ SubSeq(left, 1, k) \in Text /\ SubSeq(left, k + 1, Len(left)) \in Text
      /\ SubSeq(left, 1, k) \o SubSeq(left, k + 1, Len(left)) = left
  BY <1>5, Halves DEF WcTypeOK
<1>7. QED
  BY <1>1, <1>6

\* The three counters of count(), assigned one after the other.
LEMMA Assigned ==
  ASSUME NEW r \in Counts, NEW x, NEW y, NEW z
  PROVE  [r EXCEPT !.bytes = x, !.words = y, !.lines = z]
           = [bytes |-> x, words |-> y, lines |-> z]
<1>1. [r EXCEPT !.bytes = x] = [bytes |-> x, words |-> r.words, lines |-> r.lines]
  BY DEF Counts
<1>2. [[bytes |-> x, words |-> r.words, lines |-> r.lines] EXCEPT !.words = y]
        = [bytes |-> x, words |-> y, lines |-> r.lines]
  OBVIOUS
<1>3. [[bytes |-> x, words |-> y, lines |-> r.lines] EXCEPT !.lines = z]
        = [bytes |-> x, words |-> y, lines |-> z]
  OBVIOUS
<1>4. [r EXCEPT !.bytes = x, !.words = y, !.lines = z]
        = [[[r EXCEPT !.bytes = x] EXCEPT !.words = y] EXCEPT !.lines = z]
  OBVIOUS
<1>5. QED
  BY <1>1, <1>2, <1>3, <1>4, Zenon

\* count() moves the beginning of the pipe into what it has seen, and counts it.
LEMMA CountIs ==
  ASSUME WcTypeOK, NEW s \in Streams, count(s)
  PROVE  \E t, rest \in Text :
           /\ pipe[s] = t \o rest /\ pipe' = [pipe EXCEPT ![s] = rest]
           /\ seen' = [seen EXCEPT ![s] = @ \o t]
           /\ info' = [info EXCEPT ![s] = [bytes |-> info[s].bytes + Len(t),
                                           words |-> info[s].words + Words(t),
                                           lines |-> info[s].lines + Lines(t)]]
           /\ cuts' = [cuts EXCEPT ![s] = @ \cup {Len(seen[s] \o t)}]
<1> DEFINE n == Min({BUFFER_SIZE, Len(pipe[s])})
           t == SubSeq(pipe[s], 1, n)
           rest == SubSeq(pipe[s], n + 1, Len(pipe[s]))
<1>1. /\ pipe' = [pipe EXCEPT ![s] = SubSeq(@, n + 1, Len(@))]
      /\ info' = [info EXCEPT ![s].bytes = @ + n, ![s].words = @ + Words(t),
                              ![s].lines = @ + Lines(t)]
      /\ seen' = [seen EXCEPT ![s] = @ \o t]
      /\ cuts' = [cuts EXCEPT ![s] = @ \cup {Len(seen'[s])}]
  BY DEF count
<1>2. Len(pipe[s]) \in Nat /\ pipe[s] \in Text
  BY LenProperties DEF WcTypeOK, Text
<1>3. n \in Nat /\ n <= Len(pipe[s])
  <2>1. BUFFER_SIZE \in Int /\ Len(pipe[s]) \in Int /\ BUFFER_SIZE >= 0
    BY <1>2, SizesAssumption
  <2>2. n \in Int /\ n <= Len(pipe[s]) /\ n \in {BUFFER_SIZE, Len(pipe[s])}
    BY <2>1, MinOfTwo
  <2> HIDE DEF n
  <2>3. QED
    BY <1>2, <2>1, <2>2
<1> HIDE DEF n
<1>4. t \in Text /\ rest \in Text /\ Len(t) = n /\ t \o rest = pipe[s]
  BY <1>2, <1>3, Halves
<1>5. pipe' = [pipe EXCEPT ![s] = rest]
  BY <1>1
<1> HIDE DEF t, rest
<1>6. seen'[s] = seen[s] \o t
  BY <1>1 DEF WcTypeOK
<1>7. cuts' = [cuts EXCEPT ![s] = @ \cup {Len(seen[s] \o t)}]
  BY <1>1, <1>6
<1>8. info' = [info EXCEPT ![s] = [bytes |-> info[s].bytes + Len(t),
                                   words |-> info[s].words + Words(t),
                                   lines |-> info[s].lines + Lines(t)]]
  <2>1. info[s] \in Counts /\ s \in DOMAIN info /\ info = [r \in DOMAIN info |-> info[r]]
    BY DEF WcTypeOK
  <2>2. [info[s] EXCEPT !.bytes = @ + n, !.words = @ + Words(t), !.lines = @ + Lines(t)]
          = [bytes |-> info[s].bytes + n, words |-> info[s].words + Words(t),
             lines |-> info[s].lines + Lines(t)]
    BY <2>1, Assigned
  <2>3. info' = [info EXCEPT ![s] = [info[s] EXCEPT !.bytes = @ + n, !.words = @ + Words(t),
                                                    !.lines = @ + Lines(t)]]
    BY <1>1, <2>1 DEF Counts
  <2>4. QED
    BY <1>4, <2>2, <2>3
<1>9. QED
  BY <1>1, <1>4, <1>5, <1>7, <1>8

\* The words and the lines of a text are so many.
LEMMA CountsAreNat ==
  ASSUME NEW t \in Text
  PROVE  Words(t) \in Nat /\ Lines(t) \in Nat
<1> DEFINE W == {i \in 1 .. Len(t) : ~Space(t[i]) /\ (i = 1 \/ Space(t[i - 1]))}
           L == {i \in 1 .. Len(t) : t[i] = "n"}
<1>1. IsFiniteSet(W) /\ IsFiniteSet(L)
  BY Places
<1>2. Words(t) = Cardinality(W) /\ Lines(t) = Cardinality(L)
  BY DEF Words, Lines
<1> HIDE DEF W, L
<1>3. QED
  BY <1>1, <1>2, FS_CardinalityType

\* The types hold at first and every step keeps them.
LEMMA WcTyped ==
  /\ WcInit => WcTypeOK
  /\ WcTypeOK /\ [WcNext]_wcVars => WcTypeOK'
<1>1. WcInit => WcTypeOK
  <2> SUFFICES ASSUME WcInit PROVE WcTypeOK
    OBVIOUS
  <2>1. <<>> \in Text
    BY EmptySeq DEF Text
  <2>2. args \in Args /\ file = 0 /\ 0 \in 0 .. Len(args)
    <3>1. args \in Seq(Text \cup {Unreadable})
      BY ArgsAssumption DEF WcInit, Text
    <3>2. QED
      BY <3>1, LenProperties DEF WcInit
  <2>3. QED
    BY <2>1, <2>2 DEF WcInit, WcTypeOK, Streams, Counts
<1>2. ASSUME WcTypeOK, [WcNext]_wcVars PROVE WcTypeOK'
  <2>1. CASE OpenNext
    <3>1. file' \in 0 .. Len(args) /\ to' \in Streams /\ left' \in Text
      BY <1>2, <2>1, OpenNextIs
    <3>2. QED
      BY <1>2, <2>1, <3>1 DEF OpenNext, WcTypeOK
  <2>2. CASE Write
    <3>1. PICK t, rest \in Text : left' = rest /\ pipe' = [pipe EXCEPT ![to] = @ \o t]
      BY <1>2, <2>2, WriteIs
    <3>2. to \in Streams /\ pipe[to] \o t \in Text
      BY <1>2, Joined DEF WcTypeOK
    <3>3. pipe' \in [Streams -> Text]
      BY <1>2, <3>1, <3>2 DEF WcTypeOK
    <3>4. QED
      BY <1>2, <2>2, <3>1, <3>3 DEF Write, WcTypeOK
  <2>3. CASE Exit
    BY <1>2, <2>3 DEF Exit, WcTypeOK
  <2>4. CASE epoll_wait
    BY <1>2, <2>4 DEF epoll_wait, cat, WcTypeOK
  <2>5. CASE Handle
    <3>1. PICK s \in events : /\ events' = events \ {s} /\ count(s)
                              /\ open' = IF pipe[s] = <<>> THEN open \ {s} ELSE open
      BY <2>5 DEF Handle
    <3>2. s \in Streams
      BY <1>2 DEF WcTypeOK
    <3>3. PICK t, rest \in Text :
            /\ pipe' = [pipe EXCEPT ![s] = rest]
            /\ seen' = [seen EXCEPT ![s] = @ \o t]
            /\ info' = [info EXCEPT ![s] = [bytes |-> info[s].bytes + Len(t),
                                            words |-> info[s].words + Words(t),
                                            lines |-> info[s].lines + Lines(t)]]
            /\ cuts' = [cuts EXCEPT ![s] = @ \cup {Len(seen[s] \o t)}]
      BY <1>2, <3>1, <3>2, CountIs
    <3>4. seen[s] \o t \in Text /\ Len(seen[s] \o t) \in Nat /\ Len(t) \in Nat
      <4>1. seen[s] \in Text
        BY <1>2, <3>2 DEF WcTypeOK
      <4>2. seen[s] \o t \in Text /\ Len(t) \in Nat
        BY <4>1, Joined
      <4>3. QED
        BY <4>2, LenProperties DEF Text
    <3>5. [bytes |-> info[s].bytes + Len(t), words |-> info[s].words + Words(t),
           lines |-> info[s].lines + Lines(t)] \in Counts
      <4>1. info[s] \in Counts /\ Words(t) \in Nat /\ Lines(t) \in Nat
        BY <1>2, <3>2, CountsAreNat DEF WcTypeOK
      <4>2. QED
        BY <3>4, <4>1 DEF Counts
    <3>6. pipe' \in [Streams -> Text] /\ seen' \in [Streams -> Text]
      BY <1>2, <3>3, <3>4 DEF WcTypeOK
    <3>7. info' \in [Streams -> Counts]
      BY <1>2, <3>3, <3>5 DEF WcTypeOK
    <3>8. cuts' \in [Streams -> SUBSET Nat]
      BY <1>2, <3>2, <3>3, <3>4 DEF WcTypeOK
    <3>9. events' \in SUBSET Streams /\ open' \in SUBSET Streams
      BY <1>2, <3>1 DEF WcTypeOK
    <3>10. UNCHANGED <<args, file, to, left, catpc, mode, stops>>
      BY <2>5 DEF Handle, cat
    <3>11. QED
      BY <1>2, <3>6, <3>7, <3>8, <3>9, <3>10 DEF WcTypeOK
  <2>6. CASE Dump
    BY <1>2, <2>6 DEF Dump, cat, WcTypeOK
  <2>7. CASE Wait
    BY <1>2, <2>7 DEF Wait, cat, WcTypeOK
  <2>8. CASE Interrupted
    BY <1>2, <2>8 DEF Interrupted, cat, WcTypeOK
  <2>9. CASE UNCHANGED wcVars
    BY <1>2, <2>9 DEF wcVars, cat, WcTypeOK
  <2>10. QED
    BY <1>2, <2>1, <2>2, <2>3, <2>4, <2>5, <2>6, <2>7, <2>8, <2>9 DEF WcNext, Cat, Wc
<1>3. QED
  BY <1>1, <1>2

\* wc keeps its types, whatever the command writes and whatever the reads cut.
THEOREM WcTypes == WcSpec => []WcTypeOK
BY WcTyped, PTL DEF WcSpec

-----------------------------------------------------------------------------
(* What wc counts.                                                         *)

\* The inductive invariant of CountsAreExact, for a stream: the last read ended
\* where its text ends, so that what comes next may go on with a word.
Counted(s) ==
  /\ cuts[s] \in SUBSET (0 .. Len(seen[s]))
  /\ Len(seen[s]) # 0 => Len(seen[s]) \in cuts[s]
  /\ info[s] = [bytes |-> Len(seen[s]), lines |-> Cardinality(NewLines(seen[s])),
                words |-> Cardinality(WordStarts(seen[s]))
                            + Cardinality(WordCuts(seen[s], cuts[s]))]
CountInv == \A s \in Streams : Counted(s)

\* Before the first read there is nothing to count.
LEMMA NothingCounted ==
  ASSUME WcInit, NEW s \in Streams
  PROVE  Counted(s)
<1>1. seen[s] = <<>> /\ cuts[s] = {} /\ info[s] = [bytes |-> 0, words |-> 0, lines |-> 0]
  BY DEF WcInit
<1>2. Len(seen[s]) = 0 /\ DOMAIN seen[s] = {}
  BY <1>1
<1>3. NewLines(seen[s]) = {} /\ WordStarts(seen[s]) = {} /\ WordCuts(seen[s], cuts[s]) = {}
  BY <1>1, <1>2 DEF NewLines, WordStarts, WordCuts
<1>4. Cardinality({}) = 0
  BY FS_EmptySet
<1>5. info[s] = [bytes |-> 0, lines |-> 0, words |-> 0 + 0]
  BY <1>1
<1>6. QED
  BY <1>1, <1>2, <1>3, <1>4, <1>5 DEF Counted

\* Whatever has been read, the next read is counted right.
LEMMA CountedStep ==
  ASSUME WcTypeOK, NEW s \in Streams, count(s), Counted(s)
  PROVE  Counted(s)'
<1>1. PICK t, rest \in Text :
        /\ seen' = [seen EXCEPT ![s] = @ \o t]
        /\ info' = [info EXCEPT ![s] = [bytes |-> info[s].bytes + Len(t),
                                        words |-> info[s].words + Words(t),
                                        lines |-> info[s].lines + Lines(t)]]
        /\ cuts' = [cuts EXCEPT ![s] = @ \cup {Len(seen[s] \o t)}]
  BY CountIs
<1> DEFINE u == seen[s]
           C == cuts[s]
           v == u \o t
           D == C \cup {Len(v)}
<1>2. u \in Text
  BY DEF WcTypeOK
<1>3. /\ seen'[s] = v /\ cuts'[s] = D
      /\ info'[s] = [bytes |-> info[s].bytes + Len(t), words |-> info[s].words + Words(t),
                     lines |-> info[s].lines + Lines(t)]
  BY <1>1 DEF WcTypeOK
<1>4. /\ C \in SUBSET (0 .. Len(u)) /\ (Len(u) # 0 => Len(u) \in C)
      /\ info[s].bytes = Len(u) /\ info[s].lines = Cardinality(NewLines(u))
      /\ info[s].words = Cardinality(WordStarts(u)) + Cardinality(WordCuts(u, C))
  BY DEF Counted
<1>5. /\ Len(v) = Len(u) + Len(t) /\ Len(u) \in Nat /\ Len(t) \in Nat
  BY <1>2, Joined
<1>6. /\ Cardinality(NewLines(v)) = Cardinality(NewLines(u)) + Lines(t)
      /\ Cardinality(WordStarts(v)) + Cardinality(WordCuts(v, D))
           = Cardinality(WordStarts(u)) + Cardinality(WordCuts(u, C)) + Words(t)
  BY <1>2, <1>4, LinesAdd, WordsAdd
<1> HIDE DEF u, v, C, D
<1>7. D \in SUBSET (0 .. Len(v)) /\ Len(v) \in D
  <2>1. Len(v) \in 0 .. Len(v) /\ \A i \in 0 .. Len(u) : i \in 0 .. Len(v)
    BY <1>5
  <2>2. QED
    BY <1>4, <2>1 DEF D
<1>8. info'[s] = [bytes |-> Len(v), lines |-> Cardinality(NewLines(v)),
                  words |-> Cardinality(WordStarts(v)) + Cardinality(WordCuts(v, D))]
  BY <1>3, <1>4, <1>5, <1>6
<1>9. QED
  BY <1>3, <1>7, <1>8 DEF Counted

\* Only count() changes what is counted, and of one stream at a time.
LEMMA CountInvStep ==
  ASSUME WcTypeOK, CountInv, [WcNext]_wcVars
  PROVE  CountInv'
<1>1. CASE Handle
  <2>1. PICK s \in events : count(s)
    BY <1>1 DEF Handle
  <2>2. s \in Streams
    BY DEF WcTypeOK
  <2>3. Counted(s)'
    BY <2>1, <2>2, CountedStep DEF CountInv
  <2>4. ASSUME NEW r \in Streams, r # s PROVE Counted(r)'
    <3>1. seen'[r] = seen[r] /\ info'[r] = info[r] /\ cuts'[r] = cuts[r]
      BY <2>1, <2>2, <2>4, CountIs DEF WcTypeOK
    <3>2. QED
      BY <3>1 DEF CountInv, Counted
  <2>5. QED
    BY <2>3, <2>4 DEF CountInv
<1>2. CASE ~Handle
  <2>1. UNCHANGED <<seen, info, cuts>>
    BY <1>2 DEF WcNext, Cat, Wc, OpenNext, Write, Exit, epoll_wait, Dump, Wait, Interrupted, wcVars
  <2>2. QED
    BY <2>1 DEF CountInv, Counted
<1>3. QED
  BY <1>1, <1>2

\* Bytes and lines are exact, and words but for those a read ends in.
THEOREM WcCounts == WcSpec => []CountsAreExact
<1>1. WcInit => WcTypeOK /\ CountInv
  BY WcTyped, NothingCounted DEF CountInv
<1>2. WcTypeOK /\ CountInv /\ [WcNext]_wcVars => WcTypeOK' /\ CountInv'
  BY WcTyped, CountInvStep
<1>3. CountInv => CountsAreExact
  BY DEF CountInv, Counted, CountsAreExact, WordCuts
<1>4. QED
  BY <1>1, <1>2, <1>3, PTL DEF WcSpec

-----------------------------------------------------------------------------
(* What wc reports.                                                        *)

\* What the command has still to write in s.
Unwritten(s) == IF s = to THEN left ELSE <<>>

\* Nothing is lost on its way: what wc has seen, what is in the pipe and what
\* the command has still to write are what its first arguments make it say.
OnItsWay == \A s \in Streams : (seen[s] \o pipe[s]) \o Unwritten(s) = Output(s)[file]

\* A command that exited had written everything, or never ran; epoll_wait
\* returned only streams with bytes or an end; the ends closed are of streams
\* that are empty for good; and counting stops when all are closed.
EndOfStreams ==
  /\ catpc = "exited" => left = <<>> /\ (file = 0 \/ file = Len(args))
  /\ \A s \in events : pipe[s] # <<>> \/ catpc = "exited"
  /\ \A s \in Streams \ open : pipe[s] = <<>> /\ catpc = "exited"
  /\ mode # "count" /\ stops = 0 => open = {}

\* Texts put together in any order of steps are the same text.
LEMMA Regrouped ==
  ASSUME NEW a \in Text, NEW b \in Text, NEW c \in Text
  PROVE  (a \o b) \o c = a \o (b \o c)
BY ConcatAssociative DEF Text

\* The inductive invariant of ReportIsComplete, at first;
LEMMA ReportInit ==
  ASSUME WcInit
  PROVE  OnItsWay /\ EndOfStreams
<1>1. args \in Seq(Text \cup {Unreadable})
  BY ArgsAssumption DEF WcInit, Text
<1>2. <<>> \in Text /\ <<>> \o <<>> = <<>>
  BY EmptySeq, ConcatEmptySeq DEF Text
<1>3. ASSUME NEW s \in Streams
      PROVE  (seen[s] \o pipe[s]) \o Unwritten(s) = Output(s)[file]
  <2>1. Output(s)[0] = <<>>
    BY <1>1, OutputIs
  <2>2. seen[s] = <<>> /\ pipe[s] = <<>> /\ Unwritten(s) = <<>> /\ file = 0
    BY DEF WcInit, Unwritten
  <2>3. QED
    BY <1>2, <2>1, <2>2
<1>4. EndOfStreams
  BY DEF WcInit, EndOfStreams
<1>5. QED
  BY <1>3, <1>4 DEF OnItsWay

\* when the command goes on to its next argument;
LEMMA ReportOpens ==
  ASSUME WcTypeOK, OnItsWay, OpenNext
  PROVE  OnItsWay'
<1>1. /\ file' = file + 1 /\ file < Len(args) /\ left = <<>> /\ to' \in Streams /\ left' \in Text
      /\ \A s \in Streams : Says(s, args[file + 1]) = IF s = to' THEN left' ELSE <<>>
  BY OpenNextIs
<1>2. args' = args /\ seen' = seen /\ pipe' = pipe
  BY DEF OpenNext
<1>3. args \in Seq(Text \cup {Unreadable}) /\ file \in Nat
  BY ArgsAre
<1>4. ASSUME NEW s \in Streams
      PROVE  (seen'[s] \o pipe'[s]) \o Unwritten(s)' = Output(s)'[file']
  <2>1. Output(s)' = Output(s)
    BY <1>2, SameOutput
  <2>2. Output(s)[file + 1] = Output(s)[file] \o Says(s, args[file + 1])
    BY <1>1, <1>3, OutputIs
  <2>3. Unwritten(s) = <<>> /\ Unwritten(s)' = Says(s, args[file + 1])
    BY <1>1 DEF Unwritten
  <2>4. seen[s] \in Text /\ pipe[s] \in Text
    BY DEF WcTypeOK
  <2>5. seen[s] \o pipe[s] \in Text
    BY <2>4, Joined
  <2>6. (seen[s] \o pipe[s]) \o <<>> = seen[s] \o pipe[s]
    BY <2>5, ConcatEmptySeq DEF Text
  <2>7. (seen[s] \o pipe[s]) \o Unwritten(s) = Output(s)[file]
    BY DEF OnItsWay
  <2>8. Output(s)[file] = seen[s] \o pipe[s]
    BY <2>3, <2>6, <2>7
  <2>9. QED
    BY <1>1, <1>2, <2>1, <2>2, <2>3, <2>8
<1>5. QED
  BY <1>4 DEF OnItsWay

\* when it writes;
LEMMA ReportWrites ==
  ASSUME WcTypeOK, OnItsWay, Write
  PROVE  OnItsWay'
<1>1. PICK t, rest \in Text : /\ left = t \o rest /\ left' = rest
                              /\ pipe' = [pipe EXCEPT ![to] = @ \o t]
  BY WriteIs
<1>2. args' = args /\ seen' = seen /\ file' = file /\ to' = to /\ to \in Streams
  BY DEF Write, WcTypeOK
<1>3. ASSUME NEW s \in Streams
      PROVE  (seen'[s] \o pipe'[s]) \o Unwritten(s)' = Output(s)'[file']
  <2>1. Output(s)' = Output(s)
    BY <1>2, SameOutput
  <2>2. (seen[s] \o pipe[s]) \o Unwritten(s) = Output(s)[file]
    BY DEF OnItsWay
  <2>3. CASE s # to
    <3>1. pipe'[s] = pipe[s] /\ Unwritten(s)' = Unwritten(s)
      BY <1>1, <1>2, <2>3 DEF Unwritten, WcTypeOK
    <3>2. QED
      BY <1>2, <2>1, <2>2, <3>1
  <2>4. CASE s = to
    <3>1. pipe'[s] = pipe[s] \o t /\ Unwritten(s)' = rest /\ Unwritten(s) = t \o rest
      BY <1>1, <1>2, <2>4 DEF Unwritten, WcTypeOK
    <3>2. seen[s] \in Text /\ pipe[s] \in Text
      BY DEF WcTypeOK
    <3>3. seen[s] \o pipe[s] \in Text
      BY <3>2, Joined
    <3>4. seen[s] \o (pipe[s] \o t) = (seen[s] \o pipe[s]) \o t
      BY <3>2, Regrouped
    <3>5. ((seen[s] \o pipe[s]) \o t) \o rest = (seen[s] \o pipe[s]) \o (t \o rest)
      BY <3>3, Regrouped
    <3>6. QED
      BY <1>2, <2>1, <2>2, <3>1, <3>4, <3>5
  <2>5. QED
    BY <2>3, <2>4
<1>4. QED
  BY <1>3 DEF OnItsWay

\* when wc reads;
LEMMA ReportReads ==
  ASSUME WcTypeOK, OnItsWay, Handle
  PROVE  OnItsWay'
<1>1. PICK s \in events : count(s)
  BY DEF Handle
<1>2. s \in Streams
  BY DEF WcTypeOK
<1>3. PICK t, rest \in Text :
        /\ pipe[s] = t \o rest /\ pipe' = [pipe EXCEPT ![s] = rest]
        /\ seen' = [seen EXCEPT ![s] = @ \o t]
        /\ info' = [info EXCEPT ![s] = [bytes |-> info[s].bytes + Len(t),
                                        words |-> info[s].words + Words(t),
                                        lines |-> info[s].lines + Lines(t)]]
        /\ cuts' = [cuts EXCEPT ![s] = @ \cup {Len(seen[s] \o t)}]
  BY <1>1, <1>2, CountIs
<1>4. args' = args /\ file' = file /\ to' = to /\ left' = left
  BY DEF Handle, cat
<1>5. ASSUME NEW r \in Streams
      PROVE  (seen'[r] \o pipe'[r]) \o Unwritten(r)' = Output(r)'[file']
  <2>1. Output(r)' = Output(r) /\ Unwritten(r)' = Unwritten(r)
    BY <1>4, SameOutput DEF Unwritten
  <2>2. seen'[r] \o pipe'[r] = seen[r] \o pipe[r]
    <3>1. CASE r # s
      BY <1>3, <3>1 DEF WcTypeOK
    <3>2. CASE r = s
      <4>1. seen'[r] = seen[r] \o t /\ pipe'[r] = rest /\ seen[r] \in Text
        BY <1>3, <3>2 DEF WcTypeOK
      <4>2. (seen[r] \o t) \o rest = seen[r] \o (t \o rest)
        BY <4>1, Regrouped
      <4>3. QED
        BY <1>3, <3>2, <4>1, <4>2
    <3>3. QED
      BY <3>1, <3>2
  <2>3. QED
    BY <1>4, <2>1, <2>2 DEF OnItsWay
<1>6. QED
  BY <1>5 DEF OnItsWay

\* and at every step.
LEMMA ReportStep ==
  ASSUME WcTypeOK, OnItsWay, EndOfStreams, [WcNext]_wcVars
  PROVE  OnItsWay' /\ EndOfStreams'
<1>1. OnItsWay'
  <2>1. CASE OpenNext \/ Write \/ Handle
    BY <2>1, ReportOpens, ReportWrites, ReportReads
  <2>2. CASE ~(OpenNext \/ Write \/ Handle)
    <3>1. UNCHANGED <<args, file, to, left, pipe, seen>>
      BY <2>2 DEF WcNext, Cat, Wc, Exit, epoll_wait, Dump, Wait, Interrupted, wcVars, cat
    <3>2. ASSUME NEW s \in Streams
          PROVE  (seen'[s] \o pipe'[s]) \o Unwritten(s)' = Output(s)'[file']
      <4>1. Output(s)' = Output(s) /\ Unwritten(s)' = Unwritten(s)
        BY <3>1, SameOutput DEF Unwritten
      <4>2. QED
        BY <3>1, <4>1 DEF OnItsWay
    <3>3. QED
      BY <3>2 DEF OnItsWay
  <2>3. QED
    BY <2>1, <2>2
<1>2. CASE OpenNext
  BY <1>1, <1>2 DEF OpenNext, EndOfStreams
<1>3. CASE Write
  <2>1. PICK t, rest \in Text : /\ left = t \o rest /\ left' = rest
                                /\ pipe' = [pipe EXCEPT ![to] = @ \o t]
    BY <1>3, WriteIs
  <2>2. catpc # "exited" /\ catpc' = catpc /\ events' = events /\ open' = open
        /\ mode' = mode /\ stops' = stops /\ left # <<>>
    BY <1>3 DEF Write, EndOfStreams
  <2>3. ASSUME NEW s \in Streams, pipe[s] # <<>> PROVE pipe'[s] # <<>>
    <3>1. CASE s # to
      BY <2>1, <2>3, <3>1 DEF WcTypeOK
    <3>2. CASE s = to
      <4>1. pipe'[s] = pipe[s] \o t /\ pipe[s] \in Text
        BY <2>1, <3>2 DEF WcTypeOK
      <4>2. pipe[s] \o t = <<>> => pipe[s] = <<>>
        BY <4>1, ConcatEqualIffEmpty DEF Text
      <4>3. QED
        BY <2>3, <4>1, <4>2
    <3>3. QED
      BY <3>1, <3>2
  <2>4. QED
    BY <1>1, <2>2, <2>3 DEF EndOfStreams, WcTypeOK
<1>4. CASE Exit
  BY <1>1, <1>4 DEF Exit, EndOfStreams
<1>5. CASE epoll_wait
  BY <1>1, <1>5 DEF epoll_wait, HasEvent, cat, EndOfStreams
<1>6. CASE Handle
  <2>1. PICK s \in events : /\ events' = events \ {s} /\ count(s)
                            /\ open' = IF pipe[s] = <<>> THEN open \ {s} ELSE open
    BY <1>6 DEF Handle
  <2>2. s \in Streams
    BY DEF WcTypeOK
  <2>3. PICK t, rest \in Text :
          /\ pipe[s] = t \o rest /\ pipe' = [pipe EXCEPT ![s] = rest]
          /\ seen' = [seen EXCEPT ![s] = @ \o t]
          /\ info' = [info EXCEPT ![s] = [bytes |-> info[s].bytes + Len(t),
                                          words |-> info[s].words + Words(t),
                                          lines |-> info[s].lines + Lines(t)]]
          /\ cuts' = [cuts EXCEPT ![s] = @ \cup {Len(seen[s] \o t)}]
    BY <2>1, <2>2, CountIs
  <2>4. \A r \in Streams : r # s => pipe'[r] = pipe[r]
    BY <2>3 DEF WcTypeOK
  <2>5. pipe[s] = <<>> => pipe'[s] = <<>>
    <3>1. t \o rest = <<>> => rest = <<>>
      BY ConcatEqualIffEmpty DEF Text
    <3>2. pipe'[s] = rest
      BY <2>2, <2>3 DEF WcTypeOK
    <3>3. QED
      BY <2>3, <3>1, <3>2
  <2>6. catpc' = catpc /\ left' = left /\ file' = file /\ args' = args /\ mode' = mode /\ stops' = stops
    BY <1>6 DEF Handle, cat
  <2>7. \A r \in events' : pipe'[r] # <<>> \/ catpc' = "exited"
    BY <2>1, <2>4, <2>6 DEF EndOfStreams, WcTypeOK
  <2>8. ASSUME NEW r \in Streams \ open' PROVE pipe'[r] = <<>> /\ catpc' = "exited"
    <3>1. CASE r \notin open
      <4>1. pipe[r] = <<>> /\ catpc = "exited"
        BY <3>1 DEF EndOfStreams
      <4>2. QED
        BY <2>4, <2>5, <2>6, <4>1
    <3>2. CASE r \in open
      <4>1. r = s /\ pipe[s] = <<>>
        BY <2>1, <2>8, <3>2
      <4>2. catpc = "exited"
        BY <2>1, <4>1 DEF EndOfStreams
      <4>3. QED
        BY <2>5, <2>6, <4>1, <4>2
    <3>3. QED
      BY <3>1, <3>2
  <2>9. mode = "count"
    BY <1>6 DEF Handle
  <2>10. QED
    BY <1>1, <2>6, <2>7, <2>8, <2>9 DEF EndOfStreams
<1>7. CASE Dump
  BY <1>1, <1>7 DEF Dump, Counting, cat, EndOfStreams
<1>8. CASE Wait
  BY <1>1, <1>8 DEF Wait, cat, EndOfStreams
<1>9. CASE Interrupted
  <2>1. stops' # 0
    BY <1>9 DEF Interrupted, WcTypeOK
  <2>2. QED
    BY <1>1, <1>9, <2>1 DEF Interrupted, cat, EndOfStreams
<1>10. CASE UNCHANGED wcVars
  BY <1>1, <1>10 DEF wcVars, cat, EndOfStreams
<1>11. QED
  BY <1>1, <1>2, <1>3, <1>4, <1>5, <1>6, <1>7, <1>8, <1>9, <1>10 DEF WcNext, Cat, Wc

\* When both ends are closed nothing is on its way any more.
LEMMA ReportShown ==
  ASSUME WcTypeOK, OnItsWay, EndOfStreams
  PROVE  ReportIsComplete
<1> SUFFICES ASSUME mode # "count", stops = 0, NEW s \in Streams
             PROVE  seen[s] = Output(s)[IF file = 0 THEN 0 ELSE Len(args)]
  BY DEF ReportIsComplete
<1>1. pipe[s] = <<>> /\ left = <<>> /\ (file = 0 \/ file = Len(args))
  BY DEF EndOfStreams
<1>2. seen[s] \in Text /\ Unwritten(s) = <<>>
  BY <1>1 DEF WcTypeOK, Unwritten
<1>3. seen[s] \o <<>> = seen[s]
  BY <1>2, ConcatEmptySeq DEF Text
<1>4. seen[s] = Output(s)[file]
  BY <1>1, <1>2, <1>3 DEF OnItsWay
<1>5. QED
  BY <1>1, <1>4

\* Not interrupted, wc reports all the command wrote.
THEOREM WcReports == WcSpec => []ReportIsComplete
<1>1. WcInit => WcTypeOK /\ OnItsWay /\ EndOfStreams
  BY WcTyped, ReportInit
<1>2. WcTypeOK /\ OnItsWay /\ EndOfStreams /\ [WcNext]_wcVars
      => WcTypeOK' /\ OnItsWay' /\ EndOfStreams'
  BY WcTyped, ReportStep
<1>3. WcTypeOK /\ OnItsWay /\ EndOfStreams => ReportIsComplete
  BY ReportShown
<1>4. QED
  BY <1>1, <1>2, <1>3, PTL DEF WcSpec
=============================================================================
