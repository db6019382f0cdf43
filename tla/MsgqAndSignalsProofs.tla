------------------------ MODULE MsgqAndSignalsProofs ------------------------
(***************************************************************************)
(* Proofs about the two programs whose processes meet only in the kernel's *)
(* hands, where a message may find the queue full and a signal another one *)
(* pending: BogatyriMsgq, for any children, any songs and any limit of the *)
(* queue, and Signals, for any width of a byte and any texts.              *)
(***************************************************************************)
EXTENDS BogatyriMsgq, Signals, FiniteSetTheorems, SequenceTheorems, TLAPS

\* The rank a child has, or will have once it has read the whole registry.
Place(p) == Cardinality({q \in Pids : q < p})

\* A rank, once computed, is that of the whole list, although everybody reads the
\* file for itself; and the loop of broadcast_eof_to_all stays within the ranks.
RankInv ==
  \A p \in Pids : /\ pc[p] \in {"loop", "say", "eof", "exited"} => rank[p] = Place(p)
                  /\ pc[p] # "exited" => target[p] < N
                  /\ pc[p] \notin {"eof", "exited"} => target[p] = 0

\* Where a child is before it first speaks or while it sits in msgrcv; or it has
\* left from there.
Silent == {"unborn", "register", "poll", "loop", "failed"}

\* A child that does not have the turn and has not heard of the end: the letter at
\* its index, which may be one said long ago, is not its own.
Waiting(p) ==
  /\ pc[p] \in Silent
  /\ song = <<>> => pc[p] # "loop"
  /\ song # <<>> => index[p] < Len(song) /\ Turn(index[p]) # Place(p)

\* One child has the turn, perhaps without knowing yet, perhaps having left,
WithChild(p) ==
  /\ song # <<>> /\ index[p] = Len(said)
  /\ \/ pc[p] = "say"
     \/ /\ pc[p] \in Silent
        /\ index[p] < Len(song) /\ Turn(index[p]) = Place(p)
  /\ \A q \in Pids : q # p => Waiting(q)
  /\ \A r \in 0 .. N : queue[r] = <<>>

\* or it is in the queue, for the child whose letter is next,
OnItsWay ==
  /\ song # <<>> /\ Len(said) < Len(song)
  /\ queue[Turn(Len(said))] = <<Len(said)>>
  /\ \A r \in 0 .. N : r # Turn(Len(said)) => queue[r] = <<>>
  /\ \A q \in Pids : Waiting(q)

\* or nobody has it: the first letter is nobody's, or its message was lost,
TurnIsLost ==
  /\ song # <<>>
  /\ \A q \in Pids : Waiting(q)
  /\ \A r \in 0 .. N : queue[r] = <<>>

\* or the song is over and what is still sent says so.
Ended ==
  /\ said = song
  /\ \A q \in Pids : Waiting(q) \/ pc[q] \in {"eof", "exited"}
  /\ \A r \in 0 .. N : \A k \in DOMAIN queue[r] : queue[r][k] = EOF

TurnInv == (\E p \in Pids : WithChild(p)) \/ OnItsWay \/ TurnIsLost \/ Ended

\* What has been said is the beginning of the song.
SaidInv ==
  /\ Len(said) <= Len(song)
  /\ \A k \in 1 .. Len(said) : said[k] = song[k]

IInv == TypeOK /\ RankInv /\ TurnInv /\ SaidInv

-----------------------------------------------------------------------------
(* Ranks.                                                                  *)

Places == {"unborn", "register", "poll", "loop", "say", "eof", "exited", "failed"}

\* What the assumptions say, in the form the steps use.
LEMMA Facts ==
  /\ IsFiniteSet(Pids) /\ Pids \subseteq Nat /\ N \in Nat \ {0}
  /\ Songs \subseteq Seq(Nat \ {0}) /\ Nobody = N
<1>1. N \in Nat /\ N # 0
  BY PidsAssumption, FS_CardinalityType, FS_EmptySet DEF N
<1>2. QED
  BY <1>1, PidsAssumption, SongsAssumption DEF Nobody

\* A rank is one of N.
LEMMA PlaceType ==
  ASSUME NEW p \in Pids
  PROVE  Place(p) \in 0 .. N - 1 /\ IsFiniteSet({q \in Pids : q < p})
<1>1. {q \in Pids : q < p} \in SUBSET (Pids \ {p})
  BY Facts
<1>2. IsFiniteSet(Pids \ {p}) /\ Cardinality(Pids \ {p}) = N - 1
  BY Facts, FS_RemoveElement DEF N
<1>3. /\ IsFiniteSet({q \in Pids : q < p}) /\ Cardinality({q \in Pids : q < p}) <= N - 1
      /\ Cardinality({q \in Pids : q < p}) \in Nat
  BY <1>1, <1>2, FS_Subset, FS_CardinalityType
<1>4. QED
  BY <1>3, Facts DEF Place

\* No two children have the same rank: one has the smaller pid, and with it all
\* that have a smaller one still.
LEMMA PlaceDiffers ==
  ASSUME NEW p \in Pids, NEW q \in Pids, Place(p) = Place(q)
  PROVE  p = q
<1>1. ASSUME NEW a \in Pids, NEW b \in Pids, a < b
      PROVE  Place(a) # Place(b)
  <2> DEFINE A == {c \in Pids : c < a}
             B == {c \in Pids : c < b}
  <2>1. A \in SUBSET B /\ a \in B /\ a \notin A
    <3>1. \A c \in Pids : c \in Nat
      BY Facts
    <3>2. \A c \in Pids : c < a => c < b
      BY <1>1, <3>1
    <3>3. ~(a < a)
      BY <3>1
    <3>4. QED
      BY <1>1, <3>2, <3>3
  <2>2. IsFiniteSet(B)
    BY PlaceType
  <2> HIDE DEF A, B
  <2>3. Cardinality(B) # Cardinality(A)
    BY <2>1, <2>2, FS_Subset
  <2>4. QED
    BY <2>3 DEF Place, A, B
<1>2. p \in Nat /\ q \in Nat /\ ~(p < q) /\ ~(q < p)
  BY <1>1, Facts
<1>3. QED
  BY <1>2

\* Who computes its rank has read everybody's pid.
LEMMA RankIsPlace ==
  ASSUME TypeOK, RankInv, NEW p \in Pids, get_my_rank(p)
  PROVE  rank' = [rank EXCEPT ![p] = Place(p)]
<1>1. registry \in SUBSET Pids /\ IsFiniteSet(registry) /\ Cardinality(registry) \in Nat
  BY Facts, FS_Subset, FS_CardinalityType DEF TypeOK
<1>2. Cardinality(registry) = Cardinality(Pids)
  <2>1. Cardinality(registry) <= Cardinality(Pids)
    BY <1>1, Facts, FS_Subset
  <2>2. Cardinality(registry) >= Cardinality(Pids) /\ Cardinality(Pids) \in Nat
    BY Facts DEF get_my_rank, N
  <2>3. QED
    BY <1>1, <2>1, <2>2
<1>3. registry = Pids
  BY <1>1, <1>2, Facts, FS_Subset
<1>4. QED
  BY <1>3 DEF get_my_rank, Place

-----------------------------------------------------------------------------
(* Types.                                                                  *)

\* What the types say, in the form the steps use.
LEMMA TypeFacts ==
  ASSUME TypeOK
  PROVE  /\ song \in Seq(Nat \ {0}) /\ Len(song) \in Nat /\ said \in Seq(Nat) /\ Len(said) \in Nat
         /\ pc \in [Pids -> Places] /\ index \in [Pids -> 0 .. Len(song)]
         /\ \A r \in 0 .. N : queue[r] \in Seq(EOF .. Len(song) - 1)
         /\ DOMAIN queue = 0 .. N
         /\ \A i \in 0 .. Len(song) - 1 : Turn(i) \in 0 .. N /\ song[i + 1] \in Nat \ {0}
         /\ (song = <<>>) = (Len(song) = 0)
<1>1. song \in Seq(Nat \ {0}) /\ Len(song) \in Nat /\ said \in Seq(Nat) /\ Len(said) \in Nat
  BY Facts, LenProperties DEF TypeOK
<1>2. \A i \in 0 .. Len(song) - 1 : Turn(i) \in 0 .. N /\ song[i + 1] \in Nat \ {0}
  <2> SUFFICES ASSUME NEW i \in 0 .. Len(song) - 1
               PROVE  Turn(i) \in 0 .. N /\ song[i + 1] \in Nat \ {0}
    OBVIOUS
  <2>1. i + 1 \in 1 .. Len(song)
    BY <1>1
  <2>2. song[i + 1] \in Nat \ {0}
    BY <1>1, <2>1, ElementOfSeq
  <2>3. QED
    BY <2>2, Facts DEF Turn
<1>3. (song = <<>>) = (Len(song) = 0)
  BY <1>1, EmptySeq
<1>4. QED
  BY <1>1, <1>2, <1>3 DEF TypeOK, Places

\* An index stays within the song when a letter is said,
LEMMA SayType == ASSUME TypeOK, NEW p \in Pids, Say(p) PROVE TypeOK'
<1>1. /\ ~(index[p] >= Len(song)) /\ said' = Append(said, song[index[p] + 1])
      /\ index' = [index EXCEPT ![p] = @ + 1] /\ pc' = [pc EXCEPT ![p] = "say"]
      /\ UNCHANGED <<song, registry, queue, rank, target, mpc, dropped>>
  BY DEF Say, Over, To
<1>2. index[p] \in 0 .. Len(song) - 1 /\ index[p] + 1 \in 0 .. Len(song)
  BY <1>1, TypeFacts
<1>3. said' \in Seq(Nat)
  <2>1. song[index[p] + 1] \in Nat
    BY <1>2, TypeFacts
  <2>2. QED
    BY <1>1, <2>1, TypeFacts
<1>4. index' \in [Pids -> 0 .. Len(song)] /\ pc' \in [Pids -> Places]
  BY <1>1, <1>2, TypeFacts DEF Places
<1>5. QED
  BY <1>1, <1>3, <1>4 DEF TypeOK, Places

\* when it is sent,
LEMMA PassType == ASSUME TypeOK, NEW p \in Pids, Pass(p) PROVE TypeOK'
<1>1. /\ ~(index[p] >= Len(song)) /\ pc' = [pc EXCEPT ![p] = "loop"]
      /\ queue' = [queue EXCEPT ![Turn(index[p])] = Append(@, index[p])]
      /\ UNCHANGED <<song, registry, rank, index, target, mpc, said, dropped>>
  BY DEF Pass, Over, To
<1>2. index[p] \in 0 .. Len(song) - 1 /\ index[p] \in EOF .. Len(song) - 1
  BY <1>1, TypeFacts DEF EOF
<1>3. DOMAIN queue' = 0 .. N /\ \A r \in 0 .. N : queue'[r] \in Seq(EOF .. Len(song) - 1)
  <2>1. \A r \in 0 .. N : queue'[r] \in {queue[r], Append(queue[r], index[p])}
    BY <1>1, TypeFacts
  <2>2. \A r \in 0 .. N : Append(queue[r], index[p]) \in Seq(EOF .. Len(song) - 1)
    BY <1>2, TypeFacts, AppendProperties
  <2>3. QED
    BY <1>1, <2>1, <2>2, TypeFacts
<1>4. pc' \in [Pids -> Places]
  BY <1>1, TypeFacts DEF Places
<1>5. QED
  BY <1>1, <1>3, <1>4 DEF TypeOK, Places

\* and when one is received, which EOF is not taken for.
LEMMA ReceiveType == ASSUME TypeOK, NEW p \in Pids, Receive(p) PROVE TypeOK'
<1> DEFINE r == rank[p]
           i == Head(queue[r])
<1>1. /\ queue[r] # <<>> /\ queue' = [queue EXCEPT ![r] = Tail(@)] /\ r \in 0 .. N
      /\ UNCHANGED <<song, registry, rank, target, mpc, said, dropped>>
  BY DEF Receive, TypeOK
<1>2. queue[r] \in Seq(EOF .. Len(song) - 1)
  BY <1>1, TypeFacts
<1>3. i \in EOF .. Len(song) - 1 /\ Tail(queue[r]) \in Seq(EOF .. Len(song) - 1)
  BY <1>1, <1>2, HeadTailProperties
<1>4. DOMAIN queue' = 0 .. N /\ \A q \in 0 .. N : queue'[q] \in Seq(EOF .. Len(song) - 1)
  BY <1>1, <1>3, TypeFacts
<1>5. index' \in [Pids -> 0 .. Len(song)] /\ pc' \in [Pids -> Places]
  <2>1. CASE i = EOF
    <3>1. pc' = [pc EXCEPT ![p] = "eof"] /\ index' = index
      BY <2>1 DEF Receive, To
    <3>2. QED
      BY <3>1, TypeFacts DEF Places
  <2>2. CASE i # EOF
    <3>1. pc' = pc /\ index' = [index EXCEPT ![p] = i]
      BY <2>2 DEF Receive
    <3>2. i \in 0 .. Len(song)
      BY <1>3, <2>2, TypeFacts DEF EOF
    <3>3. QED
      BY <3>1, <3>2, TypeFacts
  <2>3. QED
    BY <2>1, <2>2
<1>6. QED
  BY <1>1, <1>4, <1>5 DEF TypeOK, Places

\* The last message of the loop is for the last rank.
LEMMA BroadcastType ==
  ASSUME TypeOK, RankInv, NEW p \in Pids, broadcast_eof_to_all(p)
  PROVE  TypeOK'
<1>1. /\ pc[p] = "eof" /\ target' = [target EXCEPT ![p] = @ + 1]
      /\ pc' = [pc EXCEPT ![p] = IF target[p] = N - 1 THEN "exited" ELSE "eof"]
      /\ UNCHANGED <<song, registry, rank, index, mpc, said>>
  BY DEF broadcast_eof_to_all, To
<1>2. target \in [Pids -> 0 .. N] /\ target[p] + 1 \in 0 .. N
  <2>1. target \in [Pids -> 0 .. N] /\ target[p] < N
    BY <1>1 DEF TypeOK, RankInv
  <2>2. QED
    BY <2>1, Facts
<1>3. target' \in [Pids -> 0 .. N] /\ pc' \in [Pids -> Places]
  BY <1>1, <1>2, TypeFacts DEF Places
<1>4. DOMAIN queue' = 0 .. N /\ \A r \in 0 .. N : queue'[r] \in Seq(EOF .. Len(song) - 1)
  <2>1. queue' = queue \/ queue' = [queue EXCEPT ![target[p]] = Append(@, EOF)]
    BY DEF broadcast_eof_to_all, SendEOF
  <2>2. EOF \in EOF .. Len(song) - 1
    BY TypeFacts DEF EOF
  <2>3. \A r \in 0 .. N : Append(queue[r], EOF) \in Seq(EOF .. Len(song) - 1)
    BY <2>2, TypeFacts, AppendProperties
  <2>4. QED
    BY <2>1, <2>3, TypeFacts
<1>5. dropped' \in BOOLEAN
  BY DEF broadcast_eof_to_all, SendEOF, TypeOK
<1>6. QED
  BY <1>1, <1>3, <1>4, <1>5 DEF TypeOK, Places

\* Everything stays of its type.
LEMMA TypeStays == ASSUME TypeOK, RankInv, [Next]_vars PROVE TypeOK'
<1>1. CASE UNCHANGED vars
  BY <1>1 DEF TypeOK, vars
<1>2. CASE Launch \/ LaunchFails
  <2>1. pc' \in [Pids -> Places] /\ mpc' \in {"launch", "wait", "failed", "finished"}
    BY <1>2, TypeFacts DEF Launch, LaunchFails, To, Places
  <2>2. QED
    BY <1>2, <2>1 DEF Launch, LaunchFails, TypeOK, Places
<1>3. CASE CleanUp
  <2>1. DOMAIN queue' = 0 .. N /\ \A r \in 0 .. N : queue'[r] \in Seq(EOF .. Len(song) - 1)
    BY <1>3, EmptySeq DEF CleanUp
  <2>2. QED
    BY <1>3, <2>1 DEF CleanUp, TypeOK
<1>4. ASSUME NEW p \in Pids, register_pid_in_file(p) \/ SongOver(p) \/ CallFails(p)
      PROVE  TypeOK'
  BY <1>4 DEF register_pid_in_file, SongOver, CallFails, register_pid_fails, get_my_rank_fails,
     PassFails, ReceiveFails, To, TypeOK
<1>5. ASSUME NEW p \in Pids, get_my_rank(p)
      PROVE  TypeOK'
  <2>1. rank' \in [Pids -> 0 .. N]
    <3>1. Place(p) \in 0 .. N - 1
      BY PlaceType
    <3>2. Place(p) \in 0 .. N
      BY <3>1, Facts
    <3>3. rank' = [rank EXCEPT ![p] = Place(p)] /\ rank \in [Pids -> 0 .. N]
      BY <1>5, RankIsPlace DEF TypeOK
    <3>4. QED
      BY <3>2, <3>3
  <2>2. QED
    BY <1>5, <2>1 DEF get_my_rank, To, TypeOK
<1>6. QED
  BY <1>1, <1>2, <1>3, <1>4, <1>5, SayType, PassType, ReceiveType, BroadcastType
     DEF Next, Main, Child

\* A step of a child changes where that child is and what it knows, and no other's.
LEMMA OneChildSteps ==
  ASSUME TypeOK, NEW p \in Pids, Child(p) \/ CallFails(p)
  PROVE  /\ UNCHANGED song
         /\ \A q \in Pids : q # p => /\ pc'[q] = pc[q] /\ index'[q] = index[q]
                                     /\ rank'[q] = rank[q] /\ target'[q] = target[q]
<1>1. CASE register_pid_in_file(p) \/ SongOver(p) \/ Say(p) \/ Pass(p)
  BY <1>1 DEF register_pid_in_file, SongOver, Say, Pass, To, TypeOK
<1>2. CASE get_my_rank(p)
  BY <1>2 DEF get_my_rank, To, TypeOK
<1>3. CASE Receive(p)
  BY <1>3 DEF Receive, To, TypeOK
<1>4. CASE broadcast_eof_to_all(p)
  BY <1>4 DEF broadcast_eof_to_all, To, TypeOK
<1>5. CASE CallFails(p)
  BY <1>5 DEF CallFails, register_pid_fails, get_my_rank_fails, PassFails, ReceiveFails, To, TypeOK
<1>6. QED
  BY <1>1, <1>2, <1>3, <1>4, <1>5 DEF Child

-----------------------------------------------------------------------------
(* Registration and ranks.                                                 *)

\* What a child's step changes of its own rank.
LEMMA OwnRank ==
  ASSUME TypeOK, RankInv, NEW p \in Pids, Child(p) \/ CallFails(p)
  PROVE  /\ pc'[p] \in {"loop", "say", "eof", "exited"} => rank'[p] = Place(p)
         /\ pc'[p] # "exited" => target'[p] < N
         /\ pc'[p] \notin {"eof", "exited"} => target'[p] = 0
<1>1. CASE register_pid_in_file(p)
  BY <1>1 DEF register_pid_in_file, To, TypeOK, RankInv
<1>2. CASE get_my_rank(p)
  <2>1. pc[p] = "poll" /\ pc'[p] \in {"eof", "loop"} /\ UNCHANGED target
    BY <1>2 DEF get_my_rank, To, TypeOK
  <2>2. rank'[p] = Place(p)
    BY <1>2, RankIsPlace DEF TypeOK
  <2>3. QED
    BY <2>1, <2>2 DEF RankInv
<1>3. CASE Say(p) \/ Pass(p) \/ Receive(p) \/ SongOver(p) \/ PassFails(p)
  <2>1. /\ pc[p] \in {"loop", "say"} /\ pc'[p] \in {"loop", "say", "eof"}
        /\ UNCHANGED <<target, rank>>
    BY <1>3 DEF Say, Pass, Receive, SongOver, PassFails, To, TypeOK
  <2>2. QED
    BY <2>1 DEF RankInv
<1>4. CASE broadcast_eof_to_all(p)
  <2>1. /\ pc[p] = "eof" /\ target' = [target EXCEPT ![p] = @ + 1]
        /\ pc'[p] = IF target[p] = N - 1 THEN "exited" ELSE "eof"
        /\ UNCHANGED rank
    BY <1>4 DEF broadcast_eof_to_all, To, TypeOK
  <2>2. target[p] < N /\ target[p] \in 0 .. N /\ target'[p] = target[p] + 1
    BY <2>1 DEF RankInv, TypeOK
  <2>3. pc'[p] # "exited" => target'[p] < N
    BY <2>1, <2>2, Facts
  <2>4. QED
    BY <2>1, <2>3 DEF RankInv
<1>5. CASE register_pid_fails(p) \/ get_my_rank_fails(p) \/ ReceiveFails(p)
  <2>1. /\ pc[p] \in {"register", "poll", "loop"} /\ pc'[p] = "failed"
        /\ UNCHANGED <<target, rank>>
    BY <1>5 DEF register_pid_fails, get_my_rank_fails, ReceiveFails, To, TypeOK
  <2>2. QED
    BY <2>1 DEF RankInv
<1>6. QED
  BY <1>1, <1>2, <1>3, <1>4, <1>5 DEF Child, CallFails

\* Ranks and the loop of broadcast_eof_to_all stay right.
LEMMA RankStays == ASSUME TypeOK, RankInv, [Next]_vars PROVE RankInv'
<1>1. CASE UNCHANGED vars
  BY <1>1 DEF RankInv, vars
<1>2. CASE Launch
  <2>1. PICK p \in Pids : pc[p] = "unborn" /\ pc' = [pc EXCEPT ![p] = "register"]
    BY <1>2 DEF Launch, To
  <2>2. UNCHANGED <<rank, target>>
    BY <1>2 DEF Launch
  <2>3. pc'[p] = "register" /\ \A q \in Pids : q # p => pc'[q] = pc[q]
    BY <2>1 DEF TypeOK
  <2>4. QED
    BY <2>1, <2>2, <2>3 DEF RankInv
<1>3. CASE LaunchFails \/ CleanUp
  BY <1>3 DEF LaunchFails, CleanUp, RankInv
<1>4. ASSUME NEW p \in Pids, Child(p) \/ CallFails(p) PROVE RankInv'
  BY <1>4, OneChildSteps, OwnRank DEF RankInv
<1>5. QED
  BY <1>1, <1>2, <1>3, <1>4 DEF Next, Main

-----------------------------------------------------------------------------
(* The turn.                                                               *)

\* Whoever says or passes has the turn: nobody else thinks it is its letter.
LEMMA SpeakerHasTurn ==
  ASSUME TypeOK, RankInv, TurnInv, NEW p \in Pids,
         pc[p] = "say" \/ (pc[p] = "loop" /\ ~Over(p) /\ Turn(index[p]) = rank[p])
  PROVE  WithChild(p)
<1>1. ~Waiting(p)
  <2>1. CASE pc[p] = "say"
    BY <2>1 DEF Waiting, Silent
  <2>2. CASE pc[p] = "loop" /\ ~Over(p) /\ Turn(index[p]) = rank[p]
    <3>1. rank[p] = Place(p)
      BY <2>2 DEF RankInv
    <3>2. QED
      BY <2>2, <3>1 DEF Waiting
  <2>3. QED
    BY <2>1, <2>2
<1>2. QED
  BY <1>1 DEF TurnInv, WithChild, OnItsWay, TurnIsLost, Ended

\* Who leaves is right to.
LEMMA LeavingIsRight ==
  ASSUME TurnInv, NEW p \in Pids, pc[p] \in {"eof", "exited"}
  PROVE  Ended
BY DEF TurnInv, WithChild, OnItsWay, TurnIsLost, Ended, Waiting, Silent

\* Forking, registering, computing a rank and leaving early change nothing about
\* whose turn it is.
Getting(p) ==
  \/ pc'[p] = pc[p]
  \/ pc[p] \in {"register", "poll", "loop"} /\ pc'[p] = "failed"
  \/ /\ pc[p] \in {"unborn", "register", "poll"}
     /\ pc'[p] \in {"register", "poll"} \/ pc'[p] = (IF song = <<>> THEN "eof" ELSE "loop")

\* So whoever has the turn, or is to get it, keeps it.
LEMMA GettingKeepsTurn ==
  ASSUME TypeOK, TurnInv, UNCHANGED <<song, queue, index, said>>, \A p \in Pids : Getting(p)
  PROVE  TurnInv'
<1>1. ASSUME NEW p \in Pids, song # <<>>, Waiting(p) PROVE Waiting(p)'
  <2>1. \A i : Turn(i)' = Turn(i)
    BY DEF Turn
  <2>2. pc'[p] \in Silent
    BY <1>1 DEF Waiting, Getting, Silent
  <2>3. QED
    BY <1>1, <2>1, <2>2 DEF Waiting
<1>2. \A i : Turn(i)' = Turn(i)
  BY DEF Turn
<1>3. ASSUME NEW p \in Pids, WithChild(p) PROVE WithChild(p)'
  <2>1. \A q \in Pids : q # p => Waiting(q)'
    BY <1>1, <1>3 DEF WithChild
  <2>2. \/ pc'[p] = "say"
        \/ /\ pc'[p] \in Silent
           /\ index[p] < Len(song) /\ Turn(index[p]) = Place(p)
    BY <1>3 DEF WithChild, Getting, Silent
  <2>3. QED
    BY <1>2, <1>3, <2>1, <2>2 DEF WithChild
<1>4. ASSUME OnItsWay PROVE OnItsWay'
  BY <1>1, <1>2, <1>4 DEF OnItsWay
<1>5. ASSUME TurnIsLost PROVE TurnIsLost'
  BY <1>1, <1>5 DEF TurnIsLost
<1>6. ASSUME Ended PROVE Ended'
  <2>1. ASSUME NEW p \in Pids PROVE Waiting(p)' \/ pc'[p] \in {"eof", "exited"}
    <3>1. CASE pc[p] \in {"eof", "exited"}
      BY <3>1 DEF Getting
    <3>2. CASE Waiting(p) /\ song # <<>>
      BY <1>1, <3>2
    <3>3. CASE Waiting(p) /\ song = <<>>
      <4>1. pc'[p] \in {"unborn", "register", "poll", "eof", "failed"}
        BY <3>3 DEF Waiting, Getting, Silent
      <4>2. QED
        BY <3>3, <4>1 DEF Waiting, Silent
    <3>4. QED
      BY <1>6, <3>1, <3>2, <3>3 DEF Ended
  <2>2. QED
    BY <1>6, <2>1 DEF Ended
<1>7. QED
  BY <1>3, <1>4, <1>5, <1>6 DEF TurnInv


\* A child that is waiting waits on while others move.
LEMMA OthersWait ==
  ASSUME NEW q \in Pids, Waiting(q), song' = song, pc'[q] = pc[q], index'[q] = index[q]
  PROVE  Waiting(q)'
<1>1. (Turn(index[q]))' = Turn(index[q])
  BY DEF Turn
<1>2. QED
  BY <1>1 DEF Waiting

\* What is said is the next letter, and the turn stays with who said it.
LEMMA SayInv ==
  ASSUME IInv, NEW p \in Pids, Say(p)
  PROVE  /\ TurnInv' /\ SaidInv' /\ WithChild(p) /\ pc'[p] = "say"
         /\ Len(said) < Len(song) /\ said' = Append(said, song[Len(said) + 1])
<1>1. /\ pc[p] \in {"loop", "say"} /\ ~(index[p] >= Len(song)) /\ Turn(index[p]) = rank[p]
      /\ said' = Append(said, song[index[p] + 1])
      /\ index' = [index EXCEPT ![p] = @ + 1] /\ pc' = [pc EXCEPT ![p] = "say"]
      /\ UNCHANGED <<queue, song>>
  BY DEF Say, Over, To
<1>2. WithChild(p) /\ index[p] = Len(said)
  <2>1. WithChild(p)
    BY <1>1, SpeakerHasTurn DEF IInv, Over
  <2>2. QED
    BY <2>1 DEF WithChild
<1>3. Len(said) \in Nat /\ Len(song) \in Nat /\ said \in Seq(Nat) /\ Len(said) < Len(song)
  BY <1>1, <1>2, TypeFacts DEF IInv
<1>4. song[Len(said) + 1] \in Nat
  <2>1. Len(said) \in 0 .. Len(song) - 1
    BY <1>3
  <2>2. QED
    BY <2>1, TypeFacts DEF IInv
<1>5. /\ Len(said') = Len(said) + 1
      /\ \A k \in 1 .. Len(said) : said'[k] = said[k]
      /\ said'[Len(said) + 1] = song[Len(said) + 1]
  BY <1>1, <1>2, <1>3, <1>4, AppendProperties
<1>6. SaidInv'
  <2>1. Len(said') <= Len(song)
    BY <1>3, <1>5
  <2>2. ASSUME NEW k \in 1 .. Len(said') PROVE said'[k] = song[k]
    <3>1. k \in 1 .. Len(said) \/ k = Len(said) + 1
      BY <1>3, <1>5
    <3>2. QED
      BY <1>5, <3>1 DEF IInv, SaidInv
  <2>3. QED
    BY <1>1, <2>1, <2>2 DEF SaidInv
<1>7. pc'[p] = "say" /\ index'[p] = Len(said')
  BY <1>1, <1>2, <1>3, <1>5, TypeFacts DEF IInv
<1>8. WithChild(p)'
  <2>1. ASSUME NEW q \in Pids, q # p PROVE Waiting(q)'
    BY <1>1, <1>2, <2>1, OthersWait DEF WithChild, IInv
  <2>2. QED
    BY <1>1, <1>2, <1>7, <2>1 DEF WithChild
<1>9. QED
  BY <1>1, <1>2, <1>3, <1>6, <1>7, <1>8 DEF TurnInv

\* The turn goes into the queue, to the child whose letter is next.
LEMMA PassInv ==
  ASSUME IInv, NEW p \in Pids, Pass(p)
  PROVE  TurnInv'
<1>1. /\ pc[p] = "say" /\ ~(index[p] >= Len(song)) /\ Turn(index[p]) # rank[p]
      /\ queue' = [queue EXCEPT ![Turn(index[p])] = Append(@, index[p])]
      /\ pc' = [pc EXCEPT ![p] = "loop"] /\ UNCHANGED <<song, index, said>>
  BY DEF Pass, Over, To
<1>2. WithChild(p) /\ index[p] = Len(said) /\ song # <<>>
  <2>1. WithChild(p)
    BY <1>1, SpeakerHasTurn DEF IInv
  <2>2. QED
    BY <2>1 DEF WithChild
<1>3. Len(said) \in Nat /\ Len(song) \in Nat /\ Len(said) < Len(song) /\ Len(said) \in 0 .. Len(song) - 1
  BY <1>1, <1>2, TypeFacts DEF IInv
<1>4. Turn(Len(said)) \in 0 .. N /\ DOMAIN queue = 0 .. N
  BY <1>3, TypeFacts DEF IInv
<1>5. queue'[Turn(Len(said))] = <<Len(said)>>
  <2>1. queue[Turn(Len(said))] = <<>>
    BY <1>2, <1>4 DEF WithChild
  <2>2. QED
    BY <1>1, <1>2, <1>4, <2>1
<1>6. \A r \in 0 .. N : r # Turn(Len(said)) => queue'[r] = <<>>
  BY <1>1, <1>2, <1>4 DEF WithChild
<1>7. ASSUME NEW q \in Pids PROVE Waiting(q)'
  <2>1. CASE q = p
    <3>1. rank[p] = Place(p) /\ pc'[p] = "loop"
      BY <1>1, TypeFacts DEF IInv, RankInv
    <3>2. (Turn(index[p]))' = Turn(index[p])
      BY <1>1 DEF Turn
    <3>3. QED
      BY <1>1, <1>2, <1>3, <2>1, <3>1, <3>2 DEF Waiting, Silent
  <2>2. CASE q # p
    BY <1>1, <1>2, <2>2, OthersWait DEF WithChild, IInv
  <2>3. QED
    BY <2>1, <2>2
<1>8. OnItsWay'
  <2>1. (Turn(Len(said)))' = Turn(Len(said))
    BY <1>1 DEF Turn
  <2>2. QED
    BY <1>1, <1>2, <1>3, <1>5, <1>6, <1>7, <2>1 DEF OnItsWay
<1>9. QED
  BY <1>8 DEF TurnInv

\* Or it is lost.
LEMMA PassFailsInv ==
  ASSUME IInv, NEW p \in Pids, PassFails(p)
  PROVE  TurnInv'
<1>1. /\ pc[p] = "say" /\ ~(index[p] >= Len(song)) /\ Turn(index[p]) # rank[p]
      /\ pc' = [pc EXCEPT ![p] = "loop"] /\ UNCHANGED <<song, index, said, queue>>
  BY DEF PassFails, Over, To
<1>2. WithChild(p)
  BY <1>1, SpeakerHasTurn DEF IInv
<1>3. song # <<>> /\ index[p] < Len(song)
  BY <1>1, <1>2, TypeFacts DEF WithChild, IInv
<1>4. ASSUME NEW q \in Pids PROVE Waiting(q)'
  <2>1. CASE q = p
    <3>1. rank[p] = Place(p) /\ pc'[p] = "loop"
      BY <1>1, TypeFacts DEF IInv, RankInv
    <3>2. (Turn(index[p]))' = Turn(index[p])
      BY <1>1 DEF Turn
    <3>3. QED
      BY <1>1, <1>3, <2>1, <3>1, <3>2 DEF Waiting, Silent
  <2>2. CASE q # p
    BY <1>1, <1>2, <2>2, OthersWait DEF WithChild, IInv
  <2>3. QED
    BY <2>1, <2>2
<1>5. TurnIsLost'
  BY <1>1, <1>2, <1>3, <1>4 DEF WithChild, TurnIsLost
<1>6. QED
  BY <1>5 DEF TurnInv

\* What is received is the turn, or the end when there is no turn any more.
LEMMA ReceiveInv ==
  ASSUME IInv, NEW p \in Pids, Receive(p)
  PROVE  TurnInv'
<1> DEFINE r == rank[p]
<1>1. /\ pc[p] = "loop" /\ queue[r] # <<>> /\ queue' = [queue EXCEPT ![r] = Tail(@)]
      /\ r = Place(p) /\ r \in 0 .. N /\ UNCHANGED <<song, said>>
  BY DEF Receive, IInv, RankInv, TypeOK
<1>2. queue[r] \in Seq(EOF .. Len(song) - 1)
  BY <1>1, TypeFacts DEF IInv
<1>3. CASE Ended
  <2>1. Head(queue[r]) = EOF
    BY <1>1, <1>2, <1>3 DEF Ended
  <2>2. pc' = [pc EXCEPT ![p] = "eof"] /\ index' = index
    BY <2>1 DEF Receive, To
  <2>3. ASSUME NEW s \in 0 .. N, NEW k \in DOMAIN queue'[s] PROVE queue'[s][k] = EOF
    <3>1. CASE s # r
      BY <1>1, <1>3, <2>3, <3>1, TypeFacts DEF Ended, IInv
    <3>2. CASE s = r
      <4>1. queue'[r] = Tail(queue[r])
        BY <1>1, TypeFacts DEF IInv
      <4>2. /\ DOMAIN Tail(queue[r]) = 1 .. Len(queue[r]) - 1
            /\ \A l \in 1 .. Len(queue[r]) - 1 : Tail(queue[r])[l] = queue[r][l + 1]
        BY <1>1, <1>2, HeadTailProperties
      <4>3. Len(queue[r]) \in Nat /\ \A l \in 1 .. Len(queue[r]) - 1 : l + 1 \in DOMAIN queue[r]
        BY <1>2
      <4>4. QED
        BY <1>1, <1>3, <2>3, <3>2, <4>1, <4>2, <4>3 DEF Ended
    <3>3. QED
      BY <3>1, <3>2
  <2>4. ASSUME NEW q \in Pids PROVE Waiting(q)' \/ pc'[q] \in {"eof", "exited"}
    <3>1. CASE q = p
      BY <2>2, <3>1, TypeFacts DEF IInv
    <3>2. CASE q # p
      BY <1>1, <1>3, <2>2, <3>2, OthersWait, TypeFacts DEF Ended, IInv
    <3>3. QED
      BY <3>1, <3>2
  <2>5. Ended'
    BY <1>1, <1>3, <2>3, <2>4 DEF Ended
  <2>6. QED
    BY <2>5 DEF TurnInv
<1>4. CASE OnItsWay
  <2>1. r = Turn(Len(said)) /\ queue[r] = <<Len(said)>>
    BY <1>1, <1>4 DEF OnItsWay
  <2>2. Len(said) \in Nat /\ Len(song) \in Nat /\ Len(said) < Len(song)
    BY <1>4, TypeFacts DEF OnItsWay, IInv
  <2>3. Head(queue[r]) = Len(said) /\ Tail(queue[r]) = <<>> /\ Len(said) # EOF
    BY <2>1, <2>2 DEF EOF
  <2>4. pc' = pc /\ index' = [index EXCEPT ![p] = Len(said)]
    BY <2>3 DEF Receive
  <2>5. \A s \in 0 .. N : queue'[s] = <<>>
    BY <1>1, <1>4, <2>1, <2>3, TypeFacts DEF OnItsWay, IInv
  <2>6. pc'[p] = "loop" /\ index'[p] = Len(said)
    BY <1>1, <2>4, TypeFacts DEF IInv
  <2>7. \A i : Turn(i)' = Turn(i)
    BY <1>1 DEF Turn
  <2>8. ASSUME NEW q \in Pids, q # p PROVE Waiting(q)'
    BY <1>1, <1>4, <2>4, <2>8, OthersWait, TypeFacts DEF OnItsWay, IInv
  <2>9. song' # <<>> /\ Turn(index'[p]) = Place(p)
    BY <1>1, <1>4, <2>1, <2>6 DEF OnItsWay
  <2>10. (Turn(index[p]))' = Turn(index'[p])
    BY <1>1 DEF Turn
  <2>11. WithChild(p)'
    BY <1>1, <2>2, <2>5, <2>6, <2>8, <2>9, <2>10 DEF WithChild, Silent
  <2>12. QED
    BY <2>11 DEF TurnInv
<1>5. QED
  BY <1>1, <1>3, <1>4 DEF IInv, TurnInv, WithChild, TurnIsLost

\* The index of the one that has the turn says that all has been said.
LEMMA EndInv ==
  ASSUME IInv, NEW p \in Pids, SongOver(p)
  PROVE  TurnInv'
<1>1. /\ pc[p] = "say" /\ pc' = [pc EXCEPT ![p] = "eof"] /\ index[p] >= Len(song)
      /\ UNCHANGED <<said, index, queue, song>>
  BY DEF SongOver, Over, To
<1>2. WithChild(p)
  BY <1>1, SpeakerHasTurn DEF IInv
<1>3. said = song
  <2>1. said \in Seq(Nat) /\ song \in Seq(Nat) /\ Len(said) \in Nat /\ Len(song) \in Nat
    BY SongsAssumption, LenProperties DEF IInv, TypeOK
  <2>2. Len(said) = Len(song)
    BY <1>1, <1>2, <2>1 DEF WithChild, IInv, SaidInv
  <2>3. QED
    BY <2>1, <2>2, SeqEqual DEF IInv, SaidInv
<1>4. ASSUME NEW q \in Pids PROVE Waiting(q)' \/ pc'[q] \in {"eof", "exited"}
  <2>1. CASE q = p
    BY <1>1, <2>1, TypeFacts DEF IInv
  <2>2. CASE q # p
    BY <1>1, <1>2, <2>2, OthersWait DEF WithChild, IInv
  <2>3. QED
    BY <2>1, <2>2
<1>5. Ended'
  BY <1>1, <1>2, <1>3, <1>4 DEF WithChild, Ended
<1>6. QED
  BY <1>5 DEF TurnInv

\* Telling the others of the end starts nothing again, and a message that finds the
\* queue full is only missing.
LEMMA BroadcastInv ==
  ASSUME IInv, NEW p \in Pids, broadcast_eof_to_all(p)
  PROVE  TurnInv'
<1>1. /\ pc[p] = "eof" /\ UNCHANGED <<said, index, song>>
      /\ pc' = [pc EXCEPT ![p] = IF target[p] = N - 1 THEN "exited" ELSE "eof"]
  BY DEF broadcast_eof_to_all, To
<1>2. Ended
  BY <1>1, LeavingIsRight DEF IInv
<1>3. queue' = queue \/ \E x : queue' = [queue EXCEPT ![x] = Append(@, EOF)]
  BY DEF broadcast_eof_to_all, SendEOF
<1>4. ASSUME NEW r \in 0 .. N PROVE \A k \in DOMAIN queue'[r] : queue'[r][k] = EOF
  <2>1. queue[r] \in Seq(EOF .. Len(song) - 1) /\ EOF \in EOF .. Len(song) - 1
    BY TypeFacts DEF IInv, EOF
  <2>2. queue'[r] = queue[r] \/ queue'[r] = Append(queue[r], EOF)
    BY <1>3, TypeFacts DEF IInv
  <2>3. /\ DOMAIN Append(queue[r], EOF) = 1 .. Len(queue[r]) + 1
        /\ \A k \in 1 .. Len(queue[r]) : Append(queue[r], EOF)[k] = queue[r][k]
        /\ Append(queue[r], EOF)[Len(queue[r]) + 1] = EOF
    BY <2>1, AppendProperties
  <2>4. DOMAIN queue[r] = 1 .. Len(queue[r]) /\ Len(queue[r]) \in Nat
    BY <2>1
  <2>5. \A k \in 1 .. Len(queue[r]) + 1 : k \in 1 .. Len(queue[r]) \/ k = Len(queue[r]) + 1
    BY <2>4
  <2>6. QED
    BY <1>2, <2>2, <2>3, <2>4, <2>5 DEF Ended
<1>5. ASSUME NEW q \in Pids PROVE Waiting(q)' \/ pc'[q] \in {"eof", "exited"}
  <2>1. CASE q = p
    BY <1>1, <2>1, TypeFacts DEF IInv
  <2>2. CASE q # p
    BY <1>1, <1>2, <2>2, OthersWait, TypeFacts DEF Ended, IInv
  <2>3. QED
    BY <2>1, <2>2
<1>6. Ended'
  BY <1>1, <1>2, <1>4, <1>5 DEF Ended
<1>7. QED
  BY <1>6 DEF TurnInv

-----------------------------------------------------------------------------
(* The theorems.                                                           *)

\* At the start nobody has said anything, and the first letter may be nobody's.
LEMMA InitIInv == Init => IInv
<1> SUFFICES ASSUME Init PROVE IInv
  OBVIOUS
<1>1. TypeOK
  <2>1. /\ 0 \in 0 .. N /\ Nobody \in 0 .. N /\ <<>> \in Seq(EOF .. Len(song) - 1)
        /\ Len(song) \in Nat /\ said \in Seq(Nat)
    BY Facts, LenProperties, EmptySeq DEF Init
  <2>2. 0 \in 0 .. Len(song)
    BY <2>1
  <2>3. /\ pc \in [Pids -> Places] /\ rank \in [Pids -> 0 .. N] /\ target \in [Pids -> 0 .. N]
        /\ index \in [Pids -> 0 .. Len(song)]
    BY <2>1, <2>2 DEF Init, Places
  <2>4. DOMAIN queue = 0 .. N /\ \A r \in 0 .. N : queue[r] \in Seq(EOF .. Len(song) - 1)
    BY <2>1 DEF Init
  <2>5. QED
    BY <2>1, <2>3, <2>4 DEF Init, TypeOK, Places
<1>2. RankInv
  BY Facts DEF Init, RankInv
<1>3. SaidInv
  <2>1. Len(song) \in Nat /\ said = <<>> /\ Len(said) = 0
    BY <1>1, TypeFacts DEF Init
  <2>2. QED
    BY <2>1 DEF SaidInv
<1>4. TurnInv
  <2>1. /\ said = <<>> /\ Len(said) = 0
        /\ \A q \in Pids : pc[q] = "unborn" /\ index[q] = 0
        /\ \A r \in 0 .. N : queue[r] = <<>>
    BY DEF Init
  <2>2. CASE song = <<>>
    BY <2>1, <2>2 DEF TurnInv, Ended, Waiting, Silent
  <2>3. CASE song # <<>>
    <3>1. 0 < Len(song)
      BY <1>1, <2>3, TypeFacts
    <3>2. ASSUME NEW p \in Pids, Place(p) = Turn(0) PROVE WithChild(p)
      <4>1. \A q \in Pids : q # p => Place(q) # Turn(0)
        BY <3>2, PlaceDiffers
      <4>2. \A q \in Pids : q # p => Waiting(q)
        BY <2>1, <2>3, <3>1, <4>1 DEF Waiting, Silent
      <4>3. QED
        BY <2>1, <2>3, <3>1, <3>2, <4>2 DEF WithChild, Silent
    <3>3. CASE \A p \in Pids : Place(p) # Turn(0)
      BY <2>1, <2>3, <3>1, <3>3 DEF TurnInv, TurnIsLost, Waiting, Silent
    <3>4. QED
      BY <3>2, <3>3 DEF TurnInv
  <2>4. QED
    BY <2>2, <2>3
<1>5. QED
  BY <1>1, <1>2, <1>3, <1>4 DEF IInv

\* What a child does before its loop, and leaving early.
Prepares(p) ==
  \/ register_pid_in_file(p) \/ get_my_rank(p) \/ register_pid_fails(p)
  \/ get_my_rank_fails(p) \/ ReceiveFails(p)

\* Forking and failing to, registering, computing a rank and leaving say nothing.
LEMMA AsideInv ==
  ASSUME IInv, Launch \/ LaunchFails \/ \E p \in Pids : Prepares(p)
  PROVE  TurnInv' /\ SaidInv'
<1>1. UNCHANGED <<song, queue, index, said>>
  BY DEF Launch, LaunchFails, Prepares, register_pid_in_file, get_my_rank, register_pid_fails,
     get_my_rank_fails, ReceiveFails
<1>2. ASSUME NEW p \in Pids PROVE Getting(p)
  <2>1. CASE LaunchFails
    BY <2>1 DEF LaunchFails, Getting
  <2>2. CASE Launch
    BY <2>2, TypeFacts DEF Launch, To, Getting, IInv
  <2>3. CASE \E q \in Pids : Prepares(q)
    BY <2>3, TypeFacts DEF Prepares, register_pid_in_file, get_my_rank, register_pid_fails,
       get_my_rank_fails, ReceiveFails, To, Getting, IInv
  <2>4. QED
    BY <2>1, <2>2, <2>3
<1>3. QED
  BY <1>1, <1>2, GettingKeepsTurn DEF IInv, SaidInv

\* main removes the queue only after the last child has left; a turn that was
\* still in it was for one that had left early.
LEMMA CleanUpInv == ASSUME IInv, CleanUp PROVE TurnInv' /\ SaidInv'
<1>1. /\ \A q \in Pids : pc[q] \in {"exited", "failed"}
      /\ UNCHANGED <<song, pc, index, said>> /\ \A r \in 0 .. N : queue'[r] = <<>>
  BY DEF CleanUp
<1>2. \A q \in Pids : Waiting(q) => Waiting(q)'
  BY <1>1, OthersWait
<1>3. \A i : Turn(i)' = Turn(i)
  BY <1>1 DEF Turn
<1>4. ASSUME NEW p \in Pids, WithChild(p) PROVE WithChild(p)'
  BY <1>1, <1>2, <1>3, <1>4 DEF WithChild
<1>5. CASE OnItsWay \/ TurnIsLost
  <2>1. TurnIsLost'
    BY <1>1, <1>2, <1>5 DEF OnItsWay, TurnIsLost
  <2>2. QED
    BY <1>1, <2>1 DEF TurnInv, IInv, SaidInv
<1>6. CASE Ended
  <2>1. Ended'
    BY <1>1, <1>2, <1>6 DEF Ended
  <2>2. QED
    BY <1>1, <2>1 DEF TurnInv, IInv, SaidInv
<1>7. QED
  BY <1>1, <1>4, <1>5, <1>6 DEF TurnInv, IInv, SaidInv

\* Every step keeps the turn where it is, or hands it on.
LEMMA NextIInv == IInv /\ [Next]_vars => IInv'
<1> SUFFICES ASSUME IInv, [Next]_vars PROVE IInv'
  OBVIOUS
<1>1. TypeOK' /\ RankInv'
  BY TypeStays, RankStays DEF IInv
<1>2. TurnInv' /\ SaidInv'
  <2>1. CASE UNCHANGED vars
    <3>1. UNCHANGED <<song, queue, index, said>> /\ \A p \in Pids : Getting(p)
      BY <2>1 DEF vars, Getting
    <3>2. QED
      BY <3>1, GettingKeepsTurn DEF IInv, SaidInv
  <2>2. CASE CleanUp
    BY <2>2, CleanUpInv
  <2>3. CASE Launch \/ LaunchFails
    BY <2>3, AsideInv
  <2>4. ASSUME NEW p \in Pids, Child(p) \/ CallFails(p) PROVE TurnInv' /\ SaidInv'
    <3>1. CASE Prepares(p)
      BY <3>1, AsideInv
    <3>2. CASE Say(p)
      BY <3>2, SayInv
    <3>3. CASE Pass(p) \/ PassFails(p) \/ Receive(p) \/ SongOver(p) \/ broadcast_eof_to_all(p)
      <4>1. UNCHANGED <<song, said>>
        BY <3>3 DEF Pass, PassFails, Receive, SongOver, broadcast_eof_to_all
      <4>2. TurnInv'
        BY <3>3, PassInv, PassFailsInv, ReceiveInv, EndInv, BroadcastInv
      <4>3. QED
        BY <4>1, <4>2 DEF IInv, SaidInv
    <3>4. QED
      BY <2>4, <3>1, <3>2, <3>3 DEF Child, CallFails, Prepares
  <2>5. QED
    BY <2>1, <2>2, <2>3, <2>4 DEF Next, Main
<1>3. QED
  BY <1>1, <1>2 DEF IInv

\* So the turn is at one of those places for as long as the program runs.
LEMMA IInvAlways == Spec => []IInv
BY InitIInv, NextIInv, PTL DEF Spec

\* All variables keep their types: no rank is read that is not one, and the loop of
\* broadcast_eof_to_all sends to no type the receivers do not have.
THEOREM TypeCorrect == Spec => []TypeOK
<1>1. IInv => TypeOK
  BY DEF IInv
<1>2. QED
  BY <1>1, IInvAlways, PTL

SomebodyLeaves == \E p \in Pids : pc[p] \in {"eof", "exited"}

\* The end is declared only when everything has been said.
LEMMA OverMeansSung ==
  ASSUME IInv, SomebodyLeaves
  PROVE  said = song
BY LeavingIsRight DEF IInv, Ended, SomebodyLeaves

\* The children together say the song of Song, whatever stale indices they hold,
\* whatever messages are lost and whoever leaves early: Say is its Say, the step by which the first of
\* them learns of the end its End, and all else stutters.
THEOREM SaysTheSong == Spec => SongSpec
<1> DEFINE over == \E p \in Pids : pc[p] \in {"eof", "exited"}
<1>1. Init => TheSong!Init
  BY DEF Init, TheSong!Init
<1>2. ASSUME IInv, NEW p \in Pids, Say(p)
      PROVE  TheSong!Say
  <2>1. /\ WithChild(p) /\ pc[p] \in {"loop", "say"} /\ pc'[p] = "say" /\ song' = song
        /\ Len(said) < Len(song) /\ said' = Append(said, song[Len(said) + 1])
    BY <1>2, SayInv DEF Say
  <2>2. \A q \in Pids : q # p => pc'[q] = pc[q]
    BY <1>2, OneChildSteps DEF IInv, Child
  <2>3. ~over /\ ~over'
    BY <2>1, <2>2 DEF WithChild, Waiting, Silent
  <2>4. QED
    BY <2>1, <2>3 DEF TheSong!Say
<1>3. ASSUME IInv, IInv', UNCHANGED <<song, said>>,
             \A q \in Pids : pc[q] \in {"eof", "exited"} => pc'[q] \in {"eof", "exited"}
      PROVE  [TheSong!Next]_(TheSong!vars)
  <2>1. CASE over'
    <3>1. SomebodyLeaves'
      BY <2>1 DEF SomebodyLeaves
    <3>2. (said = song)'
      BY <1>3, <3>1, OverMeansSung, PTL
    <3>3. said = song /\ over' = TRUE
      BY <1>3, <2>1, <3>2
    <3>4. QED
      BY <1>3, <3>3 DEF TheSong!Next, TheSong!End
  <2>2. CASE ~over'
    <3>1. over' = over
      BY <1>3, <2>2
    <3>2. QED
      BY <1>3, <3>1 DEF TheSong!vars
  <2>3. QED
    BY <2>1, <2>2
<1>4. IInv /\ IInv' /\ [Next]_vars => [TheSong!Next]_(TheSong!vars)
  <2> SUFFICES ASSUME IInv, IInv', [Next]_vars PROVE [TheSong!Next]_(TheSong!vars)
    OBVIOUS
  <2>1. CASE UNCHANGED vars \/ LaunchFails \/ CleanUp
    BY <1>3, <2>1 DEF vars, LaunchFails, CleanUp
  <2>2. CASE Launch
    <3>1. /\ UNCHANGED <<song, said>>
          /\ \E p \in Pids : pc[p] = "unborn" /\ pc' = [pc EXCEPT ![p] = "register"]
      BY <2>2 DEF Launch, To
    <3>2. \A q \in Pids : pc[q] \in {"eof", "exited"} => pc'[q] \in {"eof", "exited"}
      BY <3>1, TypeFacts DEF IInv
    <3>3. QED
      BY <1>3, <3>1, <3>2
  <2>3. ASSUME NEW p \in Pids, Child(p) PROVE [TheSong!Next]_(TheSong!vars)
    <3>1. CASE Say(p)
      BY <1>2, <3>1 DEF TheSong!Next
    <3>2. CASE ~Say(p)
      <4>1. song' = song /\ \A q \in Pids : q # p => pc'[q] = pc[q]
        BY <2>3, OneChildSteps DEF IInv
      <4>2. said' = said
        BY <2>3, <3>2 DEF Child, register_pid_in_file, get_my_rank, Pass, Receive, SongOver,
           broadcast_eof_to_all
      <4>3. pc[p] \in {"eof", "exited"} => pc'[p] \in {"eof", "exited"}
        <5> SUFFICES ASSUME pc[p] \in {"eof", "exited"} PROVE pc'[p] \in {"eof", "exited"}
          OBVIOUS
        <5>1. broadcast_eof_to_all(p)
          BY <2>3 DEF Child, register_pid_in_file, get_my_rank, Say, Pass, Receive, SongOver
        <5>2. QED
          BY <5>1, TypeFacts DEF broadcast_eof_to_all, To, IInv
      <4>4. QED
        BY <1>3, <2>3, <4>1, <4>2, <4>3
    <3>3. QED
      BY <3>1, <3>2
  <2>4. ASSUME NEW p \in Pids, CallFails(p) PROVE [TheSong!Next]_(TheSong!vars)
    <3>1. /\ UNCHANGED <<song, said>> /\ pc[p] \notin {"eof", "exited"}
          /\ \A q \in Pids : q # p => pc'[q] = pc[q]
      <4>1. song' = song /\ \A q \in Pids : q # p => pc'[q] = pc[q]
        BY <2>4, OneChildSteps DEF IInv
      <4>2. said' = said /\ pc[p] \notin {"eof", "exited"}
        BY <2>4 DEF CallFails, register_pid_fails, get_my_rank_fails, PassFails, ReceiveFails
      <4>3. QED
        BY <4>1, <4>2
    <3>2. QED
      BY <1>3, <3>1
  <2>5. QED
    BY <2>1, <2>2, <2>3, <2>4 DEF Next, Main
<1>5. QED
  BY <1>1, <1>4, IInvAlways, PTL DEF Spec, SongSpec, TheSong!Spec

-----------------------------------------------------------------------------
(* Signals, for every width of a byte and every set of texts.  The two     *)
(* processes alternate: a signal is pending at one of them, or the child   *)
(* has taken one and not yet acknowledged it, or the parent is about to    *)
(* send one.  Only using the bit overlaps with what the parent does next.  *)

\* The bit the parent has sent or is about to send.
CurrentBit == (msg[byteNo] \div 2 ^ bitNo) % 2

\* The part of TypeOK the alternation rests on.
CountersOK ==
  /\ byteNo \in Nat /\ bitNo \in 0 .. Bits - 1 /\ childBit \in 0 .. Bits - 1
  /\ ppend \subseteq {SIG_GOT}
  /\ ppc \in {"fork", "send", "suspend", "wait", "exited"}
  /\ cpc \in {"unborn", "sigaction", "suspend", "got", "acked", "exited"}

\* Where the token of the conversation is: at most one signal is on its way,
\* and none while the parent sends or the child has one to acknowledge.
TokenInv ==
  /\ ppc # "suspend" => cpend = {} /\ ppend = {} /\ cpc # "got"
  /\ cpc = "got" => cpend = {} /\ ppend = {}
  /\ cpc = "unborn" => cpend = {} /\ ppend = {}
  /\ cpend # {} => ppend = {} /\ cpend = {CurrentBit}
  /\ SIG_GOT \in ppend => cpc \in {"suspend", "acked", "exited"}

\* The child exists only after the fork, at which both loops start from 0.
ForkInv ==
  /\ ppc = "fork" => cpc = "unborn" /\ bitNo = 0
  /\ cpc = "unborn" => childBit = 0

SignalsIInv == CountersOK /\ TokenInv /\ ForkInv /\ InStep

\* A loop variable stays below Bits.
LEMMA NextPlace ==
  \A n \in 0 .. Bits - 1 : (n + 1) % Bits \in 0 .. Bits - 1
BY BitsAssumption

\* main starts with no signal pending and no child.
LEMMA InitSignals == SignalsInit => SignalsIInv
BY BitsAssumption DEF SignalsInit, SignalsIInv, CountersOK, TokenInv, ForkInv,
       InStep, SIG_GOT, SIG_0

\* Every step hands the conversation from one process to the other, or stays.
LEMMA NextSignals == SignalsIInv /\ [SignalsNext]_signalsVars => SignalsIInv'
<1> SUFFICES ASSUME SignalsIInv, [SignalsNext]_signalsVars PROVE SignalsIInv'
  OBVIOUS
<1> USE DEF signalsVars, parent, child, SignalsIInv, CountersOK, TokenInv, ForkInv, InStep,
            childByteNo, CurrentBit, SIG_GOT, SIG_0
<1>1. CASE UNCHANGED signalsVars
  BY <1>1
<1>2. CASE Fork
  BY <1>2, BitsAssumption DEF Fork
<1>3. CASE ForkFails
  BY <1>3 DEF ForkFails
<1>4. CASE SendBit
  BY <1>4 DEF SendBit
<1>5. CASE Acknowledged
  BY <1>5, NextPlace, BitsAssumption DEF Acknowledged
<1>6. CASE Reap
  BY <1>6 DEF Reap
<1>7. CASE Handlers
  BY <1>7 DEF Handlers
<1>8. CASE Deliver
  BY <1>8 DEF Deliver
<1>9. CASE Got
  BY <1>9 DEF Got
<1>10. CASE Store
  BY <1>10, NextPlace, BitsAssumption DEF Store
<1>11. QED
  BY <1>1, <1>2, <1>3, <1>4, <1>5, <1>6, <1>7, <1>8, <1>9, <1>10 DEF SignalsNext, TheParent, TheChild

\* So the conversation keeps that shape for as long as it lasts.
LEMMA SignalsAlways == SignalsSpec => []SignalsIInv
BY InitSignals, NextSignals, PTL DEF SignalsSpec

-----------------------------------------------------------------------------
(* What the texts through signals rely on.                                 *)

\* No signal is sent while another is pending at the same process, in
\* particular not to a child that has not installed its handlers yet.
THEOREM NothingMerges ==
  SignalsSpec => []NoSignalLost
<1>1. SignalsIInv => NoSignalLost
  BY DEF SignalsIInv, TokenInv, NoSignalLost
<1>2. QED
  BY <1>1, SignalsAlways, PTL

\* Parent and child, who count the bits each for itself, never disagree on
\* which bit of the byte is being sent; and recieve_byte adds every bit as
\* send_bit sent it at the place it was sent for, though the parent, who has the
\* acknowledgement already, may be sending the next one.
THEOREM CountersInStep ==
  SignalsSpec => []InStep
<1>1. SignalsIInv => InStep
  BY DEF SignalsIInv
<1>2. QED
  BY <1>1, SignalsAlways, PTL
=============================================================================
