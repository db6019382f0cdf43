----------------------- MODULE SocketsAndShellProofs -----------------------
(***************************************************************************)
(* Proofs about BogatyriSockets, for any number of processes, any songs,   *)
(* any numbers of tries and any failures of fork() and bind(); and, after  *)
(* them, about Shell, for any scripts, any chunks of read() and any        *)
(* failures of fork() and exec().  The two systems share nothing but this  *)
(* module.                                                                 *)
(***************************************************************************)
EXTENDS BogatyriSockets, Shell, FiniteSetTheorems, SequenceTheorems,
        WellFoundedInduction, TLAPS

-----------------------------------------------------------------------------
(* The processes of the song and their sockets.                            *)

\* Where a process has no part in the song yet, or never will have.
SettingUp == {"unborn", "start", "accept", "send", "listen", "await", "server", "sleep", "failed"}

\* Where it knows or has declared that the song is over.
Leaving == {"eof", "exited"}

\* The pids differ; processes are forked in the order of their indices; and the
\* loops that use `target` stay within the processes.
ProcessInv ==
  /\ \A i, j \in Index : pid[i] = pid[j] => i = j
  /\ \A i \in Index : i >= forked => pc[i] = "unborn"
  /\ \A i \in Index : pc[i] \in {"send", "eof"} => target[i] < N

\* The process of rank 0, if there is one, has left its sleep(2).
Started == \A i \in Index : Rank(i) = 0 => pc[i] \notin SettingUp

\* The four stages of the turn.  Nobody has it yet;
NotStarted ==
  /\ said = <<>>
  /\ \A i \in Index : /\ pc[i] \notin {"active", "pass"} \cup Leaving
                      /\ index[i] = 0 /\ inbox[i] = <<>>

\* one process has it, and its index is right;
WithProcess(i) ==
  /\ Started
  /\ pc[i] \in {"active", "pass"} /\ index[i] = Len(said)
  /\ pc[i] = "pass" => index[i] < Len(song)
  /\ \A j \in Index : /\ pc[j] \notin Leaving /\ inbox[j] = <<>>
                      /\ j # i => pc[j] \notin {"active", "pass"}

\* it is in the backlog of one server;
OnItsWayTo(i) ==
  /\ Started
  /\ inbox[i] = <<Len(said)>>
  /\ \A j \in Index : /\ pc[j] \notin {"active", "pass"} \cup Leaving
                      /\ j # i => inbox[j] = <<>>

\* or the song is over, and what is still sent says so.
Ended ==
  /\ Started
  /\ said = song
  /\ \A i \in Index : /\ pc[i] \notin {"active", "pass"}
                      /\ pc[i] = "eof" => index[i] = Len(said)
                      /\ \A k \in DOMAIN inbox[i] : inbox[i][k] = EOF
  /\ \A i, j \in Index : pc[i] = "eof" /\ pc[j] = "eof" => i = j

TurnInv ==
  \/ NotStarted
  \/ \E i \in Index : WithProcess(i) \/ OnItsWayTo(i)
  \/ Ended

\* What has been said is the beginning of the song.
SaidInv ==
  /\ Len(said) <= Len(song)
  /\ \A k \in 1 .. Len(said) : said[k] = song[k]

IInv == TypeOK /\ ProcessInv /\ TurnInv /\ SaidInv

-----------------------------------------------------------------------------
(* Ranks.                                                                  *)

Labels == {"unborn", "start", "accept", "send", "listen", "await", "server",
           "sleep", "active", "pass", "eof", "idle", "failed", "exited"}

\* Whose pids come before i's in the sorted list.
Before(i) == {j \in Index : pid[j] > pid[i]}

\* There are N indices.
LEMMA IndexSize == IsFiniteSet(Index) /\ Cardinality(Index) = N /\ N \in Nat \ {0}
BY FS_Interval, SizesAssumption DEF Index

\* A rank is a place in the list.
LEMMA RankType ==
  ASSUME TypeOK, NEW i \in Index
  PROVE  Rank(i) \in Ranks /\ IsFiniteSet(Before(i)) /\ Rank(i) = Cardinality(Before(i))
<1>1. Rank(i) = Cardinality(Before(i))
  BY DEF Rank, Before
<1>2. Before(i) \in SUBSET (Index \ {i})
  BY DEF TypeOK, Before
<1>3. IsFiniteSet(Index \ {i}) /\ Cardinality(Index \ {i}) = N - 1
  BY IndexSize, FS_RemoveElement
<1>4. /\ IsFiniteSet(Before(i)) /\ Cardinality(Before(i)) <= N - 1
      /\ Cardinality(Before(i)) \in Nat
  BY <1>2, <1>3, FS_Subset, FS_CardinalityType
<1>5. QED
  BY <1>1, <1>4, IndexSize DEF Ranks

\* No two processes have the same place: one is before the other, and with it
\* all that are before that one.
LEMMA RankDiffers ==
  ASSUME TypeOK, ProcessInv, NEW i \in Index, NEW j \in Index, Rank(i) = Rank(j)
  PROVE  i = j
<1>1. ASSUME NEW a \in Index, NEW b \in Index, pid[a] > pid[b]
      PROVE  Rank(a) # Rank(b)
  <2>1. Before(a) \in SUBSET Before(b) /\ a \in Before(b) /\ a \notin Before(a)
    <3>1. \A c \in Index : pid[c] \in Int
      <4>1. pid \in [Index -> 1 .. N] /\ 1 .. N \subseteq Int
        BY IndexSize DEF TypeOK
      <4>2. QED
        BY <4>1
    <3>2. \A c \in Index : pid[c] > pid[a] => pid[c] > pid[b]
      BY <1>1, <3>1
    <3>3. QED
      BY <1>1, <3>1, <3>2 DEF Before
  <2>2. Cardinality(Before(b)) # Cardinality(Before(a))
    BY <2>1, RankType, FS_Subset
  <2>3. QED
    BY <2>2, RankType
<1>2. pid[i] \in Nat /\ pid[j] \in Nat
  BY SizesAssumption DEF TypeOK
<1>3. ~(pid[i] > pid[j]) /\ ~(pid[j] > pid[i])
  BY <1>1
<1>4. pid[i] = pid[j]
  BY <1>2, <1>3
<1>5. QED
  BY <1>4 DEF ProcessInv

\* So every place is somebody's, and Who finds whose.
LEMMA RankTaken ==
  ASSUME TypeOK, ProcessInv, NEW r \in Ranks
  PROVE  Who(r) \in Index /\ Rank(Who(r)) = r
<1> DEFINE f == [i \in Index |-> Rank(i)]
<1>1. f \in Injection(Index, Ranks)
  <2>1. f \in [Index -> Ranks]
    BY RankType
  <2>2. \A i, j \in Index : f[i] = f[j] => i = j
    BY RankDiffers
  <2> HIDE DEF f
  <2>3. QED
    BY <2>1, <2>2 DEF Injection, IsInjective
<1>2. IsFiniteSet(Ranks) /\ Cardinality(Index) = Cardinality(Ranks)
  BY IndexSize DEF Ranks, Index
<1>3. f \in Surjection(Index, Ranks)
  BY <1>1, <1>2, FS_Injection
<1>4. \E i \in Index : Rank(i) = r
  BY <1>3 DEF Surjection
<1>5. QED
  BY <1>4 DEF Who

\* The list does not change.
LEMMA SameRanks ==
  ASSUME pid' = pid
  PROVE  \A i \in Index : Rank(i)' = Rank(i)
BY DEF Rank

-----------------------------------------------------------------------------
(* Getting ready.                                                          *)

\* A refused connect counts the try or goes on.
LEMMA RefusedStep ==
  ASSUME TypeOK, NEW i \in Index, NEW max \in Nat, NEW next, Refused(i, max, next)
  PROVE  /\ tries' \in [Index -> Nat]
         /\ LastTry(i, max) => pc' = [pc EXCEPT ![i] = next]
         /\ ~LastTry(i, max) => pc' = pc
<1>1. tries \in [Index -> Nat] /\ tries[i] + 1 \in Nat
  BY DEF TypeOK
<1>2. CASE tries[i] + 1 < max
  BY <1>1, <1>2 DEF Refused, LastTry
<1>3. CASE ~(tries[i] + 1 < max)
  BY <1>1, <1>3 DEF Refused, LastTry, To
<1>4. QED
  BY <1>2, <1>3

\* A process that gets ready, gives up or joins the others without being the first
\* leaves the turn where it is.
Aside(j) == \/ pc'[j] = pc[j]
            \/ pc[j] \in SettingUp /\ pc'[j] \in SettingUp \cup {"idle"}

\* A step of a process that is getting ready leaves the turn where it is.
LEMMA AsideKeepsTurn ==
  ASSUME TurnInv, UNCHANGED <<turn, song, pid>>, \A j \in Index : Aside(j)
  PROVE  TurnInv'
<1>1. \A i \in Index : Rank(i)' = Rank(i)
  BY SameRanks
<1>2. UNCHANGED <<said, index, inbox>>
  BY DEF turn
<1>3. /\ \A j \in Index : pc'[j] \notin SettingUp \cup {"idle"} => pc'[j] = pc[j]
      /\ \A j \in Index : pc[j] \notin SettingUp => pc'[j] = pc[j]
  BY DEF Aside
<1>4. Started => Started'
  BY <1>1, <1>3 DEF Started
<1>5. CASE NotStarted
  <2>1. NotStarted'
    BY <1>2, <1>3, <1>5 DEF NotStarted, SettingUp, Leaving
  <2>2. QED
    BY <2>1 DEF TurnInv
<1>6. ASSUME NEW i \in Index, WithProcess(i) PROVE TurnInv'
  <2>1. WithProcess(i)'
    BY <1>2, <1>3, <1>4, <1>6 DEF WithProcess, SettingUp, Leaving
  <2>2. QED
    BY <2>1 DEF TurnInv
<1>7. ASSUME NEW i \in Index, OnItsWayTo(i) PROVE TurnInv'
  <2>1. OnItsWayTo(i)'
    BY <1>2, <1>3, <1>4, <1>7 DEF OnItsWayTo, SettingUp, Leaving
  <2>2. QED
    BY <2>1 DEF TurnInv
<1>8. CASE Ended
  <2>1. Ended'
    BY <1>2, <1>3, <1>4, <1>8 DEF Ended, SettingUp
  <2>2. QED
    BY <2>1 DEF TurnInv
<1>9. QED
  BY <1>5, <1>6, <1>7, <1>8 DEF TurnInv

-----------------------------------------------------------------------------
(* Types.                                                                  *)

\* What the constants are, in the form the steps use.
LEMMA IndexFacts ==
  /\ 0 \in Index /\ Index = 0 .. N - 1 /\ Index \subseteq Nat /\ N \in Nat \ {0}
  /\ Tries \in Nat /\ ReportTries \in Nat
BY SizesAssumption DEF Index

\* The loop variable of process 0 and of the EOF loop is a process.
LEMMA TargetFacts ==
  ASSUME TypeOK, ProcessInv, NEW i \in Index, pc[i] \in {"send", "eof"}
  PROVE  /\ target \in [Index -> 0 .. N]
         /\ target[i] \in 0 .. N - 1 /\ target[i] \in Index /\ target[i] + 1 \in 0 .. N
         /\ target[i] # N - 1 => target[i] + 1 < N
<1>1. target \in [Index -> 0 .. N] /\ target[i] < N
  BY DEF TypeOK, ProcessInv
<1>2. target[i] \in 0 .. N
  BY <1>1
<1>3. QED
  BY <1>1, <1>2, IndexFacts

\* A message more leaves every backlog a sequence of messages.
LEMMA Delivered ==
  ASSUME TypeOK, NEW t, NEW m \in Nat \cup {EOF}
  PROVE  [inbox EXCEPT ![t] = Append(@, m)] \in [Index -> Seq(Nat \cup {EOF})]
<1>1. inbox \in [Index -> Seq(Nat \cup {EOF})]
  BY DEF TypeOK
<1>2. \A j \in Index : Append(inbox[j], m) \in Seq(Nat \cup {EOF})
  BY <1>1, AppendProperties
<1>3. QED
  BY <1>1, <1>2

\* Process 0 sends the list to processes only.
LEMMA SendListType == ASSUME TypeOK, ProcessInv, SendList PROVE TypeOK'
<1> DEFINE t == target[0]
           next == IF t = N - 1 THEN "server" ELSE "send"
<1>1. /\ pc[0] = "send" /\ t \in 0 .. N - 1 /\ t \in Index /\ t + 1 \in 0 .. N
      /\ UNCHANGED <<turn, song, pid, reported, mainVars, bindFails>>
  <2>1. pc[0] = "send" /\ UNCHANGED <<turn, song, pid, reported, mainVars, bindFails>>
    BY DEF SendList
  <2>2. QED
    BY <2>1, IndexFacts, TargetFacts
<1>2. UNCHANGED <<said, index, inbox, forked, forkFails>>
  BY <1>1 DEF turn, mainVars
<1>3. CASE /\ listed' = listed \cup {t} /\ target' = [target EXCEPT ![0] = t + 1]
           /\ tries' = [tries EXCEPT ![0] = 0] /\ To(0, next) /\ UNCHANGED missed
  BY <1>1, <1>2, <1>3, IndexFacts DEF TypeOK, To
<1>4. CASE /\ Refused(0, Tries, next)
           /\ target' = [target EXCEPT ![0] = IF LastTry(0, Tries) THEN t + 1 ELSE t]
           /\ missed' = (missed \/ LastTry(0, Tries)) /\ UNCHANGED listed
  <2>1. missed' \in BOOLEAN
    BY <1>4 DEF TypeOK, LastTry
  <2>2. target' \in [Index -> 0 .. N]
    BY <1>1, <1>4 DEF TypeOK
  <2>3. tries' \in [Index -> Nat] /\ (pc' = pc \/ pc' = [pc EXCEPT ![0] = next])
    BY <1>4, RefusedStep, IndexFacts
  <2>4. QED
    BY <1>1, <1>2, <1>4, <2>1, <2>2, <2>3 DEF TypeOK
<1>5. QED
  BY <1>3, <1>4 DEF SendList

\* The exchange of pids keeps every variable of its type.
LEMMA ExchangeType ==
  ASSUME TypeOK, ProcessInv, NEW i \in Index, exchange_pids(i)
  PROVE  TypeOK'
<1>1. CASE Listen0 \/ ListenForList(i) \/ GetList(i)
  BY <1>1 DEF Listen0, ListenForList, GetList, TypeOK, To, turn, pids, mainVars
<1>2. CASE AcceptAll
  <2>1. target' \in [Index -> 0 .. N]
    <3>1. 1 \in 0 .. N
      BY IndexFacts
    <3>2. QED
      BY <1>2, <3>1 DEF AcceptAll, TypeOK
  <2>2. pc' \in [Index -> Labels]
    BY <1>2 DEF AcceptAll, TypeOK, To, Labels
  <2>3. QED
    BY <1>2, <2>1, <2>2 DEF AcceptAll, TypeOK, Labels, turn, pids, mainVars
<1>3. CASE Report(i)
  <2>1. UNCHANGED <<said, index, inbox, song, pid, listed, target, forked, forkFails, bindFails>>
    BY <1>3 DEF Report, turn, mainVars
  <2>2. CASE /\ reported' = reported \cup {i} /\ tries' = [tries EXCEPT ![i] = 0]
             /\ To(i, "listen") /\ UNCHANGED missed
    BY <2>1, <2>2 DEF TypeOK, To
  <2>3. CASE /\ Refused(i, ReportTries, "listen") /\ UNCHANGED reported
             /\ missed' = (missed \/ LastTry(i, ReportTries))
    <3>1. missed' \in BOOLEAN
      BY <2>3 DEF TypeOK, LastTry
    <3>2. tries' \in [Index -> Nat] /\ (pc' = pc \/ pc' = [pc EXCEPT ![i] = "listen"])
      BY <2>3, RefusedStep, IndexFacts
    <3>3. QED
      BY <2>1, <2>3, <3>1, <3>2 DEF TypeOK
  <2>4. QED
    BY <1>3, <2>2, <2>3 DEF Report
<1>4. QED
  BY <1>1, <1>2, <1>3, SendListType DEF exchange_pids

\* So do the steps of the song,
LEMMA TurnType ==
  ASSUME TypeOK, NEW i \in Index, SongOver(i) \/ Say(i) \/ NotMine(i) \/ Pass(i) \/ Receive(i)
  PROVE  TypeOK'
<1>1. CASE SongOver(i) \/ NotMine(i)
  <2>1. target' \in [Index -> 0 .. N]
    <3>1. 0 \in 0 .. N
      BY IndexFacts
    <3>2. QED
      BY <1>1, <3>1 DEF SongOver, NotMine, TypeOK
  <2>2. pc' \in [Index -> Labels]
    BY <1>1 DEF SongOver, NotMine, TypeOK, To, Labels
  <2>3. QED
    BY <1>1, <2>1, <2>2 DEF SongOver, NotMine, TypeOK, Labels, turn, pids, mainVars
<1>2. CASE Say(i)
  <2>1. said' \in Seq(Ranks)
    <3>1. Turn(i) \in Ranks
      BY <1>2, RankType DEF Say
    <3>2. QED
      BY <1>2, <3>1 DEF Say, TypeOK
  <2>2. index' = [index EXCEPT ![i] = @ + 1] /\ index' \in [Index -> Nat]
    BY <1>2 DEF Say, TypeOK
  <2>3. QED
    BY <1>2, <2>1, <2>2 DEF Say, TypeOK, To, turn, pids, mainVars
<1>3. CASE Pass(i)
  <2>1. UNCHANGED <<said, index, song, pid, reported, listed, target, forked, forkFails,
                    bindFails, missed>>
    BY <1>3 DEF Pass, pids, mainVars
  <2>2. CASE \E next : /\ inbox' = [inbox EXCEPT ![next] = Append(@, index[i])]
                       /\ tries' = [tries EXCEPT ![i] = 0] /\ To(i, "idle")
    <3>1. PICK next : inbox' = [inbox EXCEPT ![next] = Append(@, index[i])]
      BY <2>2
    <3>2. inbox' \in [Index -> Seq(Nat \cup {EOF})]
      <4>1. index[i] \in Nat \cup {EOF}
        BY DEF TypeOK
      <4>2. QED
        BY <3>1, <4>1, Delivered
    <3>3. tries' \in [Index -> Nat] /\ pc' \in [Index -> Labels]
      BY <2>2 DEF TypeOK, To, Labels
    <3>4. QED
      BY <2>1, <3>2, <3>3 DEF TypeOK, Labels
  <2>3. CASE Refused(i, Tries, "active") /\ UNCHANGED inbox
    <3>1. tries' \in [Index -> Nat] /\ (pc' = pc \/ pc' = [pc EXCEPT ![i] = "active"])
      BY <2>3, RefusedStep, IndexFacts
    <3>2. QED
      BY <2>1, <2>3, <3>1 DEF TypeOK
  <2>4. QED
    BY <1>3, <2>2, <2>3 DEF Pass
<1>4. CASE Receive(i)
  <2> DEFINE m == Head(inbox[i])
  <2>1. inbox[i] \in Seq(Nat \cup {EOF}) /\ inbox[i] # <<>>
    BY <1>4 DEF Receive, TypeOK
  <2>2. m \in Nat \cup {EOF} /\ Tail(inbox[i]) \in Seq(Nat \cup {EOF})
    BY <2>1
  <2>3. inbox' \in [Index -> Seq(Nat \cup {EOF})]
    BY <1>4, <2>2 DEF Receive, TypeOK
  <2>4. index' \in [Index -> Nat] /\ pc' \in [Index -> Labels]
    BY <1>4, <2>2 DEF Receive, TypeOK, To, Labels
  <2>5. QED
    BY <1>4, <2>3, <2>4 DEF Receive, TypeOK, Labels, pids, mainVars
<1>5. QED
  BY <1>1, <1>2, <1>3, <1>4

\* and the loop that tells everybody of its end.
LEMMA SendEOFType == ASSUME TypeOK, ProcessInv, NEW i \in Index, SendEOF(i) PROVE TypeOK'
<1> DEFINE t == Who(target[i])
           next == IF target[i] = N - 1 THEN "exited" ELSE "eof"
<1>1. /\ pc[i] = "eof" /\ target[i] \in 0 .. N - 1 /\ target[i] + 1 \in 0 .. N
      /\ UNCHANGED <<said, index, song, pid, reported, listed, forked, forkFails, bindFails>>
  <2>1. /\ pc[i] = "eof"
        /\ UNCHANGED <<said, index, song, pid, reported, listed, forked, forkFails, bindFails>>
    BY DEF SendEOF, pids, mainVars
  <2>2. QED
    BY <2>1, TargetFacts
<1>2. [target EXCEPT ![i] = @ + 1] \in [Index -> 0 .. N]
  BY <1>1 DEF TypeOK
<1>3. missed' \in BOOLEAN
  BY DEF SendEOF, TypeOK
<1>4. target' \in [Index -> 0 .. N]
  <2>1. target' = [target EXCEPT ![i] = @ + 1] \/ target' = target
    BY DEF SendEOF
  <2>2. QED
    BY <1>2, <2>1 DEF TypeOK
<1>5. inbox' \in [Index -> Seq(Nat \cup {EOF})]
  <2>1. inbox' = [inbox EXCEPT ![t] = Append(@, EOF)] \/ inbox' = inbox
    BY DEF SendEOF
  <2>2. EOF \in Nat \cup {EOF}
    OBVIOUS
  <2> HIDE DEF t
  <2>3. [inbox EXCEPT ![t] = Append(@, EOF)] \in [Index -> Seq(Nat \cup {EOF})]
    BY <2>2, Delivered
  <2>4. QED
    BY <2>1, <2>3 DEF TypeOK
<1>6. /\ tries' \in [Index -> Nat]
      /\ pc' = pc \/ pc' = [pc EXCEPT ![i] = next]
  <2>1. CASE Refused(i, Tries, next)
    BY <2>1, RefusedStep, IndexFacts
  <2>2. CASE To(i, next) /\ (tries' = tries \/ tries' = [tries EXCEPT ![i] = 0])
    <3>1. tries' \in [Index -> Nat]
      BY <2>2 DEF TypeOK
    <3>2. QED
      BY <2>2, <3>1 DEF To
  <2>3. QED
    BY <2>1, <2>2 DEF SendEOF
<1>7. QED
  BY <1>1, <1>3, <1>4, <1>5, <1>6 DEF TypeOK

\* Everything stays of its type.
LEMMA TypeStays == ASSUME TypeOK, ProcessInv, [Next]_vars PROVE TypeOK'
<1>1. CASE UNCHANGED vars
  BY <1>1 DEF TypeOK, vars, turn, pids, mainVars
<1>2. CASE Fork
  <2>1. forked \in Index /\ forked + 1 \in 0 .. N + 1
    BY <1>2, IndexFacts DEF Fork, TypeOK
  <2>2. pc' \in [Index -> Labels] /\ forkFails' \in 0 .. MaxForkFails
    <3>1. pc' \in [Index -> Labels]
      BY <1>2 DEF Fork, TypeOK, To, Labels
    <3>2. CASE UNCHANGED forkFails
      BY <3>1, <3>2 DEF TypeOK
    <3>3. CASE forkFails < MaxForkFails /\ forkFails' = forkFails + 1
      BY <3>1, <3>3, SizesAssumption DEF TypeOK
    <3>4. QED
      BY <1>2, <3>2, <3>3 DEF Fork
  <2>3. QED
    BY <1>2, <2>1, <2>2 DEF Fork, TypeOK, turn, pids, Labels
<1>3. CASE Wait
  <2>1. forked' \in 0 .. N + 1
    BY <1>3, IndexFacts DEF Wait
  <2>2. QED
    BY <1>3, <2>1 DEF Wait, TypeOK, turn, pids
<1>4. ASSUME NEW i \in Index, create_tcp_server(i) \/ Wake(i) PROVE TypeOK'
  <2>1. /\ bindFails' \in 0 .. MaxBindFails /\ pc' \in [Index -> Labels]
        /\ UNCHANGED <<turn, pids, tries, target, mainVars>>
    <3>1. pc' \in [Index -> Labels] /\ UNCHANGED <<turn, pids, tries, target, mainVars>>
      BY <1>4 DEF create_tcp_server, Wake, TypeOK, To, Labels
    <3>2. CASE UNCHANGED bindFails
      BY <3>1, <3>2 DEF TypeOK
    <3>3. CASE bindFails < MaxBindFails /\ bindFails' = bindFails + 1
      BY <3>1, <3>3, SizesAssumption DEF TypeOK
    <3>4. QED
      BY <1>4, <3>2, <3>3 DEF create_tcp_server, Wake
  <2>2. missed' \in BOOLEAN
    BY <1>4 DEF create_tcp_server, Wake, TypeOK
  <2>3. QED
    BY <2>1, <2>2 DEF TypeOK, Labels, turn, pids, mainVars
<1>5. QED
  BY <1>1, <1>2, <1>3, <1>4, ExchangeType, TurnType, SendEOFType DEF Next, Main, Process

-----------------------------------------------------------------------------
(* The processes.                                                          *)

\* A step of a process changes where that process is, and no other.
LEMMA OneProcessSteps ==
  ASSUME TypeOK, NEW i \in Index, Process(i)
  PROVE  /\ pc[i] # "unborn" /\ UNCHANGED <<song, pid, forked>>
         /\ \A j \in Index : j # i => pc'[j] = pc[j] /\ target'[j] = target[j]
<1>1. CASE SendList /\ i = 0
  <2>1. pc' = pc \/ \E x : pc' = [pc EXCEPT ![0] = x]
    BY <1>1 DEF SendList, Refused, To
  <2>2. \E x : target' = [target EXCEPT ![0] = x]
    BY <1>1 DEF SendList
  <2>3. pc[0] = "send" /\ UNCHANGED <<song, pid, forked>>
    BY <1>1 DEF SendList, mainVars
  <2>4. QED
    BY <1>1, <2>1, <2>2, <2>3 DEF TypeOK
<1>2. CASE SendEOF(i)
  <2>1. pc' = pc \/ \E x : pc' = [pc EXCEPT ![i] = x]
    BY <1>2 DEF SendEOF, Refused, To
  <2>2. target' = target \/ target' = [target EXCEPT ![i] = @ + 1]
    BY <1>2 DEF SendEOF
  <2>3. pc[i] = "eof" /\ UNCHANGED <<song, pid, forked>>
    BY <1>2 DEF SendEOF, pids, mainVars
  <2>4. QED
    BY <2>1, <2>2, <2>3 DEF TypeOK
<1>3. CASE i = 0 /\ (Listen0 \/ AcceptAll)
  BY <1>3 DEF Listen0, AcceptAll, To, TypeOK, pids, mainVars
<1>4. CASE Report(i) \/ Pass(i)
  <2>1. pc' = pc \/ \E x : pc' = [pc EXCEPT ![i] = x]
    BY <1>4 DEF Report, Pass, Refused, To
  <2>2. pc[i] # "unborn" /\ UNCHANGED <<song, pid, forked, target>>
    BY <1>4 DEF Report, Pass, pids, mainVars
  <2>3. QED
    BY <2>1, <2>2 DEF TypeOK
<1>5. CASE ListenForList(i) \/ GetList(i) \/ create_tcp_server(i) \/ Wake(i)
  <2>1. \E x : pc' = [pc EXCEPT ![i] = x]
    BY <1>5 DEF ListenForList, GetList, create_tcp_server, Wake, To
  <2>2. pc[i] # "unborn" /\ UNCHANGED <<song, pid, forked, target>>
    BY <1>5 DEF ListenForList, GetList, create_tcp_server, Wake, pids, mainVars
  <2>3. QED
    BY <2>1, <2>2 DEF TypeOK
<1>6. CASE SongOver(i) \/ Say(i) \/ NotMine(i) \/ Receive(i)
  <2>1. \E x : pc' = [pc EXCEPT ![i] = x]
    BY <1>6 DEF SongOver, Say, NotMine, Receive, To
  <2>2. /\ pc[i] # "unborn" /\ UNCHANGED <<song, pid, forked>>
        /\ target' = target \/ target' = [target EXCEPT ![i] = 0]
    BY <1>6 DEF SongOver, Say, NotMine, Receive, pids, mainVars
  <2>3. QED
    BY <2>1, <2>2 DEF TypeOK
<1>7. QED
  BY <1>1, <1>2, <1>3, <1>4, <1>5, <1>6 DEF Process, exchange_pids

\* The two loops over the processes end at the last one.
LEMMA LoopsStayInside ==
  ASSUME TypeOK, ProcessInv, NEW i \in Index, Process(i)
  PROVE  pc'[i] \in {"send", "eof"} => target'[i] < N
<1>1. CASE SendList /\ i = 0
  <2>1. target[0] # N - 1 => target[0] + 1 < N
    BY <1>1, IndexFacts, TargetFacts DEF SendList
  <2>2. target[0] < N /\ target \in [Index -> 0 .. N]
    BY <1>1, IndexFacts, TargetFacts DEF SendList, ProcessInv
  <2> DEFINE next == IF target[0] = N - 1 THEN "server" ELSE "send"
  <2>3. CASE target' = [target EXCEPT ![0] = target[0]]
    BY <1>1, <2>2, <2>3, IndexFacts
  <2>4. CASE target' = [target EXCEPT ![0] = target[0] + 1] /\ pc' = [pc EXCEPT ![0] = next]
    BY <1>1, <2>1, <2>2, <2>4, IndexFacts DEF TypeOK
  <2>5. \/ target' = [target EXCEPT ![0] = target[0]]
        \/ target' = [target EXCEPT ![0] = target[0] + 1] /\ pc' = [pc EXCEPT ![0] = next]
    <3>1. CASE Refused(0, Tries, next) /\
               target' = [target EXCEPT ![0] = IF LastTry(0, Tries) THEN target[0] + 1 ELSE target[0]]
      BY <3>1, RefusedStep, IndexFacts
    <3>2. CASE To(0, next) /\ target' = [target EXCEPT ![0] = target[0] + 1]
      BY <3>2 DEF To
    <3>3. QED
      BY <1>1, <3>1, <3>2 DEF SendList
  <2>6. QED
    BY <2>3, <2>4, <2>5
<1>2. CASE SendEOF(i)
  <2>1. target[i] # N - 1 => target[i] + 1 < N
    BY <1>2, TargetFacts DEF SendEOF
  <2>2. target[i] < N /\ target \in [Index -> 0 .. N]
    BY <1>2, TargetFacts DEF SendEOF, ProcessInv
  <2> DEFINE next == IF target[i] = N - 1 THEN "exited" ELSE "eof"
  <2>3. CASE target' = target
    BY <2>2, <2>3
  <2>4. CASE target' = [target EXCEPT ![i] = @ + 1] /\ pc' = [pc EXCEPT ![i] = next]
    BY <2>1, <2>2, <2>4 DEF TypeOK
  <2>5. target' = target \/ (target' = [target EXCEPT ![i] = @ + 1] /\ pc' = [pc EXCEPT ![i] = next])
    <3>1. CASE /\ Refused(i, Tries, next)
               /\ IF LastTry(i, Tries) THEN target' = [target EXCEPT ![i] = @ + 1]
                                       ELSE UNCHANGED target
      BY <3>1, RefusedStep, IndexFacts
    <3>2. CASE To(i, next) /\ target' = [target EXCEPT ![i] = @ + 1]
      BY <3>2 DEF To
    <3>3. QED
      BY <1>2, <3>1, <3>2 DEF SendEOF
  <2>6. QED
    BY <2>3, <2>4, <2>5
<1>3. CASE i = 0 /\ (Listen0 \/ AcceptAll)
  BY <1>3, IndexFacts DEF Listen0, AcceptAll, To, TypeOK
<1>4. CASE Report(i) \/ Pass(i)
  <2>1. pc' = pc \/ \E x \in {"listen", "idle", "active"} : pc' = [pc EXCEPT ![i] = x]
    BY <1>4 DEF Report, Pass, Refused, To
  <2>2. pc[i] \notin {"send", "eof"}
    BY <1>4 DEF Report, Pass
  <2>3. QED
    BY <2>1, <2>2 DEF TypeOK
<1>5. CASE ListenForList(i) \/ GetList(i) \/ create_tcp_server(i) \/ Wake(i)
  BY <1>5 DEF ListenForList, GetList, create_tcp_server, Wake, To, TypeOK
<1>6. CASE SongOver(i)
  BY <1>6, IndexFacts DEF SongOver, TypeOK
<1>7. CASE Say(i) \/ NotMine(i) \/ Receive(i)
  BY <1>7 DEF Say, NotMine, Receive, To, TypeOK
<1>8. QED
  BY <1>1, <1>2, <1>3, <1>4, <1>5, <1>6, <1>7 DEF Process, exchange_pids

\* The pids never change, forks go on in order, and loops stay inside.
LEMMA ProcessStays == ASSUME TypeOK, ProcessInv, [Next]_vars PROVE ProcessInv'
<1>1. CASE UNCHANGED vars
  BY <1>1 DEF ProcessInv, vars, pids, mainVars
<1>2. CASE Fork
  <2>1. /\ UNCHANGED <<pid, target>> /\ forked' = forked + 1 /\ forked \in Nat
        /\ pc' = pc \/ pc' = [pc EXCEPT ![forked] = "start"]
    BY <1>2 DEF Fork, To, TypeOK, pids
  <2>2. /\ \A j \in Index : j # forked => pc'[j] = pc[j]
        /\ \A j \in Index : pc'[j] \in {pc[j], "start"}
    BY <2>1 DEF TypeOK
  <2>3. \A j \in Index : j >= forked' => pc'[j] = "unborn"
    BY <2>1, <2>2, IndexFacts DEF ProcessInv
  <2>4. QED
    BY <2>1, <2>2, <2>3 DEF ProcessInv
<1>3. CASE Wait
  <2>1. UNCHANGED <<pid, pc, target>> /\ forked' = forked + 1 /\ forked \in Nat
    BY <1>3, IndexFacts DEF Wait, TypeOK, pids
  <2>2. QED
    BY <2>1, IndexFacts DEF ProcessInv, TypeOK
<1>4. ASSUME NEW i \in Index, Process(i) PROVE ProcessInv'
  <2>1. \A j \in Index : j >= forked' => pc'[j] = "unborn"
    BY <1>4, OneProcessSteps DEF ProcessInv
  <2>2. \A j \in Index : pc'[j] \in {"send", "eof"} => target'[j] < N
    BY <1>4, OneProcessSteps, LoopsStayInside DEF ProcessInv
  <2>3. pid' = pid
    BY <1>4, OneProcessSteps
  <2>4. QED
    BY <2>1, <2>2, <2>3 DEF ProcessInv
<1>5. QED
  BY <1>1, <1>2, <1>3, <1>4 DEF Next, Main

-----------------------------------------------------------------------------
(* The turn.                                                               *)

\* A process that thinks it has the turn has it.
LEMMA ActiveHasTurn ==
  ASSUME TurnInv, NEW i \in Index, pc[i] \in {"active", "pass"}
  PROVE  WithProcess(i)
BY DEF TurnInv, NotStarted, WithProcess, OnItsWayTo, Ended

\* A process that leaves is right to.
LEMMA LeavingIsRight ==
  ASSUME TurnInv, NEW i \in Index, pc[i] \in Leaving
  PROVE  Ended
BY DEF TurnInv, NotStarted, WithProcess, OnItsWayTo, Ended, Leaving

\* Steps that get ready take no part in the song.
LEMMA GettingReady ==
  ASSUME TypeOK, ProcessInv, NEW i \in Index,
         exchange_pids(i) \/ create_tcp_server(i) \/ (Wake(i) /\ Rank(i) # 0)
  PROVE  UNCHANGED turn /\ \A j \in Index : Aside(j)
<1>1. UNCHANGED turn
  BY DEF exchange_pids, Listen0, AcceptAll, SendList, Report, ListenForList, GetList,
         create_tcp_server, Wake
<1>2. \A j \in Index : j # i => pc'[j] = pc[j]
  BY OneProcessSteps DEF Process
<1>3. pc'[i] = pc[i] \/ (pc[i] \in SettingUp /\ pc'[i] \in SettingUp \cup {"idle"})
  <2>1. pc[i] \in SettingUp
    BY DEF exchange_pids, Listen0, AcceptAll, SendList, Report, ListenForList, GetList,
           create_tcp_server, Wake, SettingUp
  <2>2. pc' = pc \/ \E x \in SettingUp \cup {"idle"} : pc' = [pc EXCEPT ![i] = x]
    <3>1. CASE i = 0 /\ SendList
      BY <3>1 DEF SendList, Refused, To, SettingUp
    <3>2. CASE Report(i)
      BY <3>2 DEF Report, Refused, To, SettingUp
    <3>3. CASE i = 0 /\ (Listen0 \/ AcceptAll)
      BY <3>3 DEF Listen0, AcceptAll, To, SettingUp
    <3>4. CASE ListenForList(i) \/ GetList(i) \/ create_tcp_server(i) \/ (Wake(i) /\ Rank(i) # 0)
      BY <3>4 DEF ListenForList, GetList, create_tcp_server, Wake, To, SettingUp
    <3>5. QED
      BY <3>1, <3>2, <3>3, <3>4 DEF exchange_pids
  <2>3. QED
    BY <2>1, <2>2 DEF TypeOK
<1>4. QED
  BY <1>1, <1>2, <1>3 DEF Aside

\* The process of rank 0 starts, and it is the only one that does.
LEMMA FirstWakes ==
  ASSUME IInv, NEW i \in Index, Wake(i), Rank(i) = 0
  PROVE  TurnInv'
<1>1. /\ pc[i] = "sleep" /\ pc' = [pc EXCEPT ![i] = "active"]
      /\ UNCHANGED <<said, index, inbox, song, pid>> /\ pc \in [Index -> Labels]
  BY DEF Wake, To, turn, pids, IInv, TypeOK, Labels
<1>2. NotStarted
  BY <1>1 DEF IInv, TurnInv, WithProcess, OnItsWayTo, Ended, Started, SettingUp
<1>3. Started'
  <2>1. \A j \in Index : Rank(j)' = 0 => j = i
    BY <1>1, SameRanks, RankDiffers DEF IInv
  <2>2. QED
    BY <1>1, <2>1 DEF Started, SettingUp
<1>4. Len(said) = 0
  BY <1>2 DEF NotStarted
<1>5. WithProcess(i)'
  BY <1>1, <1>2, <1>3, <1>4 DEF NotStarted, WithProcess, Leaving
<1>6. QED
  BY <1>5 DEF TurnInv

\* The index of the one that has the turn says that all has been said.
LEMMA EndInv ==
  ASSUME IInv, NEW i \in Index, SongOver(i)
  PROVE  TurnInv' /\ SaidInv'
<1>1. /\ pc[i] = "active" /\ pc' = [pc EXCEPT ![i] = "eof"] /\ index[i] >= Len(song)
      /\ UNCHANGED <<said, index, inbox, song, pid>> /\ pc \in [Index -> Labels]
  BY DEF SongOver, Over, To, turn, pids, IInv, TypeOK, Labels
<1>2. WithProcess(i)
  BY <1>1, ActiveHasTurn DEF IInv
<1>3. said = song
  <2>1. said \in Seq(Ranks) /\ song \in Seq(Ranks)
    BY SongsAssumption DEF IInv, TypeOK
  <2>2. Len(said) = Len(song)
    BY <1>1, <1>2, <2>1 DEF WithProcess, IInv, SaidInv
  <2>3. QED
    BY <2>1, <2>2, SeqEqual DEF IInv, SaidInv
<1>4. Started'
  BY <1>1, <1>2, SameRanks DEF WithProcess, Started, SettingUp
<1>5. Ended'
  BY <1>1, <1>2, <1>3, <1>4 DEF WithProcess, Ended, Leaving
<1>6. QED
  BY <1>1, <1>5 DEF TurnInv, IInv, SaidInv

\* What is said is the next letter, and the turn stays with who said it.
LEMMA SayInv ==
  ASSUME IInv, NEW i \in Index, Say(i)
  PROVE  /\ TurnInv' /\ SaidInv' /\ WithProcess(i) /\ pc'[i] \in {"active", "pass"}
         /\ Len(said) < Len(song) /\ said' = Append(said, song[Len(said) + 1])
<1>1. /\ pc[i] = "active" /\ ~(index[i] >= Len(song))
      /\ said' = Append(said, song[index[i] + 1])
      /\ index' = [index EXCEPT ![i] = @ + 1]
      /\ pc' = [pc EXCEPT ![i] = IF index'[i] < Len(song) THEN "pass" ELSE "active"]
      /\ UNCHANGED <<inbox, song, pid>>
  BY DEF Say, Over, Turn, To, pids
<1>2. WithProcess(i) /\ index[i] = Len(said)
  BY <1>1, ActiveHasTurn DEF IInv, WithProcess
<1>3. /\ said \in Seq(Ranks) /\ song \in Seq(Ranks) /\ Len(said) \in Nat /\ Len(song) \in Nat
      /\ pc \in [Index -> Labels] /\ index \in [Index -> Nat]
  BY SongsAssumption, LenProperties DEF IInv, TypeOK, Labels
<1>4. Len(said) < Len(song) /\ song[Len(said) + 1] \in Ranks
  <2>1. Len(said) < Len(song)
    BY <1>1, <1>2, <1>3
  <2>2. Len(said) + 1 \in 1 .. Len(song)
    BY <1>3, <2>1
  <2>3. QED
    BY <1>3, <2>1, <2>2, ElementOfSeq
<1>5. /\ Len(said') = Len(said) + 1
      /\ \A k \in 1 .. Len(said) : said'[k] = said[k]
      /\ said'[Len(said) + 1] = song[Len(said) + 1]
  BY <1>1, <1>2, <1>3, <1>4, AppendProperties
<1>6. SaidInv'
  <2>1. Len(said') <= Len(song)
    BY <1>3, <1>4, <1>5
  <2>2. ASSUME NEW k \in 1 .. Len(said') PROVE said'[k] = song[k]
    <3>1. k \in 1 .. Len(said) \/ k = Len(said) + 1
      BY <1>3, <1>5
    <3>2. QED
      BY <1>5, <3>1 DEF IInv, SaidInv
  <2>3. QED
    BY <1>1, <2>1, <2>2 DEF SaidInv
<1>7. pc'[i] \in {"active", "pass"} /\ index'[i] = Len(said') /\ (pc'[i] = "pass" => index'[i] < Len(song))
  <2>1. index'[i] = Len(said')
    BY <1>1, <1>2, <1>3, <1>5
  <2>2. QED
    BY <1>1, <1>3, <2>1
<1>8. Started'
  BY <1>1, <1>2, <1>3, <1>7, SameRanks DEF WithProcess, Started, SettingUp
<1>9. WithProcess(i)'
  <2>1. \A j \in Index : j # i => pc'[j] = pc[j]
    BY <1>1, <1>3
  <2>2. QED
    BY <1>1, <1>2, <1>7, <1>8, <2>1 DEF WithProcess, Leaving
<1>10. QED
  BY <1>1, <1>2, <1>4, <1>6, <1>7, <1>9 DEF TurnInv

\* A letter that is not one's own is passed on.
LEMMA NotMineInv ==
  ASSUME IInv, NEW i \in Index, NotMine(i)
  PROVE  TurnInv'
<1>1. /\ pc[i] = "active" /\ pc' = [pc EXCEPT ![i] = "pass"] /\ ~(index[i] >= Len(song))
      /\ UNCHANGED <<said, index, inbox, song, pid>> /\ pc \in [Index -> Labels]
      /\ index[i] \in Nat /\ Len(song) \in Nat
  BY SongsAssumption DEF NotMine, Over, To, turn, pids, IInv, TypeOK, Labels
<1>2. WithProcess(i)
  BY <1>1, ActiveHasTurn DEF IInv
<1>3. Started'
  BY <1>1, <1>2, SameRanks DEF WithProcess, Started, SettingUp
<1>4. index[i] < Len(song)
  BY <1>1
<1>5. WithProcess(i)'
  BY <1>1, <1>2, <1>3, <1>4 DEF WithProcess, Leaving
<1>6. QED
  BY <1>5 DEF TurnInv

\* The turn goes to the process whose letter is next, this one perhaps; refused
\* it stays where it is.
LEMMA PassInv ==
  ASSUME IInv, NEW i \in Index, Pass(i)
  PROVE  TurnInv'
<1>1. /\ pc[i] = "pass" /\ UNCHANGED <<said, index, song, pid>> /\ pc \in [Index -> Labels]
      /\ inbox \in [Index -> Seq(Nat \cup {EOF})]
  BY DEF Pass, pids, IInv, TypeOK, Labels
<1>2. WithProcess(i) /\ index[i] = Len(said) /\ index[i] < Len(song)
  BY <1>1, ActiveHasTurn DEF IInv, WithProcess
<1>3. PICK next \in Index : next = Who(Turn(i))
  <2>1. song \in Seq(Ranks) /\ index[i] \in Nat
    BY SongsAssumption DEF IInv, TypeOK
  <2>2. index[i] + 1 \in 1 .. Len(song)
    BY <1>2, <2>1
  <2>3. Turn(i) \in Ranks
    BY <2>1, <2>2, ElementOfSeq DEF Turn
  <2>4. QED
    BY <2>3, RankTaken DEF IInv
<1>4. CASE inbox' = [inbox EXCEPT ![next] = Append(@, index[i])] /\ To(i, "idle")
  <2>1. pc' = [pc EXCEPT ![i] = "idle"]
    BY <1>4 DEF To
  <2>2. Started'
    BY <1>1, <1>2, <2>1, SameRanks DEF WithProcess, Started, SettingUp
  <2>3. inbox'[next] = <<Len(said)>>
    <3>1. inbox[next] = <<>>
      BY <1>2, <1>3 DEF WithProcess
    <3>2. QED
      BY <1>1, <1>2, <1>3, <1>4, <3>1
  <2>4. OnItsWayTo(next)'
    BY <1>1, <1>2, <1>3, <1>4, <2>1, <2>2, <2>3 DEF WithProcess, OnItsWayTo, Leaving
  <2>5. QED
    BY <1>3, <2>4 DEF TurnInv
<1>5. CASE Refused(i, Tries, "active") /\ UNCHANGED inbox
  <2>1. pc' = pc \/ pc' = [pc EXCEPT ![i] = "active"]
    BY <1>5 DEF Refused, To
  <2>2. Started'
    BY <1>1, <1>2, <2>1, SameRanks DEF WithProcess, Started, SettingUp
  <2>3. WithProcess(i)'
    BY <1>1, <1>2, <1>5, <2>1, <2>2 DEF WithProcess, Leaving
  <2>4. QED
    BY <2>3 DEF TurnInv
<1>6. QED
  BY <1>3, <1>4, <1>5 DEF Pass

\* What is received is the turn, or the end when there is no turn any more.
LEMMA ReceiveInv ==
  ASSUME IInv, NEW i \in Index, Receive(i)
  PROVE  TurnInv'
<1>1. /\ pc[i] = "idle" /\ inbox[i] # <<>> /\ inbox' = [inbox EXCEPT ![i] = Tail(@)]
      /\ UNCHANGED <<said, song, pid>> /\ pc \in [Index -> Labels]
      /\ inbox \in [Index -> Seq(Nat \cup {EOF})] /\ index \in [Index -> Nat]
  BY DEF Receive, pids, IInv, TypeOK, Labels
<1>2. inbox[i] \in Seq(Nat \cup {EOF}) /\ Len(inbox[i]) \in Nat \ {0} /\ 1 \in DOMAIN inbox[i]
      /\ Head(inbox[i]) = inbox[i][1]
  BY <1>1
<1>3. CASE Ended
  <2>1. pc' = [pc EXCEPT ![i] = "exited"] /\ index' = index
    BY <1>2, <1>3 DEF Receive, To, Ended
  <2>2. Started'
    BY <1>1, <1>3, <2>1, SameRanks DEF Ended, Started, SettingUp
  <2>3. /\ \A k \in DOMAIN inbox'[i] : inbox'[i][k] = EOF
        /\ \A j \in Index : j # i => inbox'[j] = inbox[j]
    <3>1. inbox'[i] = Tail(inbox[i])
      BY <1>1
    <3>2. DOMAIN Tail(inbox[i]) = 1 .. Len(inbox[i]) - 1
          /\ \A k \in 1 .. Len(inbox[i]) - 1 : Tail(inbox[i])[k] = inbox[i][k + 1]
      BY <1>1, <1>2, HeadTailProperties
    <3>3. \A k \in 1 .. Len(inbox[i]) - 1 : k + 1 \in DOMAIN inbox[i]
      BY <1>2
    <3>4. QED
      BY <1>1, <1>3, <3>1, <3>2, <3>3 DEF Ended
  <2>4. Ended'
    BY <1>1, <1>3, <2>1, <2>2, <2>3 DEF Ended
  <2>5. QED
    BY <2>4 DEF TurnInv
<1>4. CASE OnItsWayTo(i)
  <2>1. Head(inbox[i]) = Len(said) /\ Tail(inbox[i]) = <<>> /\ Len(said) \in Nat
    <3>1. inbox[i] = <<Len(said)>> /\ Len(said) \in Nat
      BY <1>4 DEF OnItsWayTo, IInv, TypeOK
    <3>2. QED
      BY <3>1
  <2>2. Len(said) # EOF
    BY <2>1 DEF EOF
  <2>3. pc' = [pc EXCEPT ![i] = "active"] /\ index' = [index EXCEPT ![i] = Len(said)]
    BY <2>1, <2>2 DEF Receive, To
  <2>4. Started'
    BY <1>1, <1>4, <2>3, SameRanks DEF OnItsWayTo, Started, SettingUp
  <2>5. WithProcess(i)'
    BY <1>1, <1>4, <2>1, <2>3, <2>4 DEF OnItsWayTo, WithProcess, Leaving
  <2>6. QED
    BY <2>5 DEF TurnInv
<1>5. QED
  BY <1>1, <1>3, <1>4 DEF IInv, TurnInv, NotStarted, WithProcess, OnItsWayTo

\* Telling the others of the end starts nothing again.
LEMMA SendEOFInv ==
  ASSUME IInv, NEW i \in Index, SendEOF(i)
  PROVE  TurnInv'
<1> DEFINE t == Who(target[i])
           next == IF target[i] = N - 1 THEN "exited" ELSE "eof"
<1>1. /\ pc[i] = "eof" /\ UNCHANGED <<said, index, song, pid>> /\ pc \in [Index -> Labels]
      /\ inbox \in [Index -> Seq(Nat \cup {EOF})]
  BY DEF SendEOF, pids, IInv, TypeOK, Labels
<1>2. Ended
  BY <1>1, LeavingIsRight DEF IInv, Leaving
<1>3. pc' = pc \/ pc' = [pc EXCEPT ![i] = next]
  BY DEF SendEOF, Refused, To
<1>4. inbox' = inbox \/ \E x : inbox' = [inbox EXCEPT ![x] = Append(@, EOF)]
  BY DEF SendEOF
<1> HIDE DEF t
<1>5. /\ pc'[i] \in Leaving /\ \A j \in Index : j # i => pc'[j] = pc[j]
  BY <1>1, <1>3 DEF Leaving
<1>6. Started'
  BY <1>1, <1>2, <1>5, SameRanks DEF Ended, Started, SettingUp, Leaving
<1>7. ASSUME NEW j \in Index PROVE \A k \in DOMAIN inbox'[j] : inbox'[j][k] = EOF
  <2>1. inbox[j] \in Seq(Nat \cup {EOF})
    BY <1>1
  <2>2. inbox'[j] = inbox[j] \/ inbox'[j] = Append(inbox[j], EOF)
    BY <1>1, <1>4
  <2>3. /\ DOMAIN Append(inbox[j], EOF) = 1 .. Len(inbox[j]) + 1
        /\ \A k \in 1 .. Len(inbox[j]) : Append(inbox[j], EOF)[k] = inbox[j][k]
        /\ Append(inbox[j], EOF)[Len(inbox[j]) + 1] = EOF
    BY <2>1, AppendProperties
  <2>4. DOMAIN inbox[j] = 1 .. Len(inbox[j]) /\ Len(inbox[j]) \in Nat
    BY <2>1
  <2>5. \A k \in 1 .. Len(inbox[j]) + 1 : k \in 1 .. Len(inbox[j]) \/ k = Len(inbox[j]) + 1
    BY <2>4
  <2>6. QED
    BY <1>2, <2>2, <2>3, <2>4, <2>5 DEF Ended
<1>8. Ended'
  BY <1>1, <1>2, <1>5, <1>6, <1>7 DEF Ended, Leaving
<1>9. QED
  BY <1>8 DEF TurnInv

-----------------------------------------------------------------------------
(* The theorems.                                                           *)

\* At the start nobody has the turn.
LEMMA InitIInv == Init => IInv
<1> SUFFICES ASSUME Init PROVE IInv
  OBVIOUS
<1>1. TypeOK
  <2>1. /\ pid \in [Index -> 1 .. N] /\ song \in Songs /\ said \in Seq(Ranks)
        /\ reported \subseteq Index /\ listed \subseteq Index /\ missed \in BOOLEAN
    BY EmptySeq DEF Init
  <2>2. /\ 0 \in 0 .. N /\ 0 \in 0 .. N + 1 /\ 0 \in 0 .. MaxForkFails /\ 0 \in 0 .. MaxBindFails
        /\ <<>> \in Seq(Nat \cup {EOF})
    BY SizesAssumption, EmptySeq
  <2>3. /\ pc \in [Index -> Labels] /\ tries \in [Index -> Nat] /\ target \in [Index -> 0 .. N]
        /\ index \in [Index -> Nat] /\ inbox \in [Index -> Seq(Nat \cup {EOF})]
    BY <2>2 DEF Init, Labels
  <2>4. /\ forked \in 0 .. N + 1 /\ forkFails \in 0 .. MaxForkFails /\ bindFails \in 0 .. MaxBindFails
    BY <2>2 DEF Init
  <2>5. QED
    BY <2>1, <2>3, <2>4 DEF TypeOK, Labels
<1>2. ProcessInv
  BY DEF Init, ProcessInv
<1>3. NotStarted
  BY DEF Init, NotStarted, Leaving
<1>4. SaidInv
  <2>1. song \in Seq(Ranks) /\ Len(song) \in Nat /\ said = <<>> /\ Len(said) = 0
    BY SongsAssumption, LenProperties DEF Init
  <2>2. QED
    BY <2>1 DEF SaidInv
<1>5. QED
  BY <1>1, <1>2, <1>3, <1>4 DEF IInv, TurnInv

\* Every step leaves the turn where it is, or takes it one stage further.
LEMMA NextIInv == IInv /\ [Next]_vars => IInv'
<1> SUFFICES ASSUME IInv, [Next]_vars PROVE IInv'
  OBVIOUS
<1>1. TypeOK' /\ ProcessInv'
  BY TypeStays, ProcessStays DEF IInv
<1>2. TurnInv' /\ SaidInv'
  <2>1. ASSUME UNCHANGED <<turn, song, pid>>, \A j \in Index : Aside(j)
        PROVE  TurnInv' /\ SaidInv'
    <3>1. SaidInv'
      BY <2>1 DEF IInv, SaidInv, turn
    <3>2. QED
      BY <2>1, <3>1, AsideKeepsTurn DEF IInv
  <2>2. CASE UNCHANGED vars
    BY <2>1, <2>2 DEF vars, pids, Aside
  <2>3. CASE Fork
    <3>1. UNCHANGED <<turn, song, pid>> /\ (pc' = pc \/ pc' = [pc EXCEPT ![forked] = "start"])
      BY <2>3 DEF Fork, To, pids
    <3>2. forked \in Index => pc[forked] = "unborn"
      BY IndexFacts DEF IInv, ProcessInv
    <3>3. \A j \in Index : Aside(j)
      BY <3>1, <3>2 DEF Aside, SettingUp, IInv, TypeOK
    <3>4. QED
      BY <2>1, <3>1, <3>3
  <2>4. CASE Wait
    BY <2>1, <2>4 DEF Wait, pids, Aside
  <2>5. ASSUME NEW i \in Index, Process(i) PROVE TurnInv' /\ SaidInv'
    <3>1. song' = song /\ pid' = pid
      BY <2>5, OneProcessSteps DEF IInv
    <3>2. CASE exchange_pids(i) \/ create_tcp_server(i) \/ (Wake(i) /\ Rank(i) # 0)
      BY <2>1, <3>1, <3>2, GettingReady DEF IInv
    <3>3. CASE Wake(i) /\ Rank(i) = 0
      <4>1. said' = said
        BY <3>3 DEF Wake, turn
      <4>2. QED
        BY <3>1, <3>3, <4>1, FirstWakes DEF IInv, SaidInv
    <3>4. CASE SongOver(i) \/ Say(i)
      BY <3>4, EndInv, SayInv
    <3>5. CASE NotMine(i) \/ Pass(i) \/ Receive(i) \/ SendEOF(i)
      <4>1. said' = said
        BY <3>5 DEF NotMine, Pass, Receive, SendEOF, turn
      <4>2. QED
        BY <3>1, <3>5, <4>1, NotMineInv, PassInv, ReceiveInv, SendEOFInv DEF IInv, SaidInv
    <3>6. QED
      BY <2>5, <3>2, <3>3, <3>4, <3>5 DEF Process
  <2>6. QED
    BY <2>2, <2>3, <2>4, <2>5 DEF Next, Main
<1>3. QED
  BY <1>1, <1>2 DEF IInv

\* So the turn is at one of its stages for as long as the program runs.
LEMMA IInvAlways == Spec => []IInv
BY InitIInv, NextIInv, PTL DEF Spec

\* All variables keep their types: no loop leaves the processes, no index the
\* numbers, whatever is refused and however often.
THEOREM TypeCorrect == Spec => []TypeOK
<1>1. IInv => TypeOK
  BY DEF IInv
<1>2. QED
  BY <1>1, IInvAlways, PTL

\* A set without two elements counts at most one.
LEMMA AtMostOne ==
  ASSUME NEW S, NEW x, S \subseteq {x}
  PROVE  IsFiniteSet(S) /\ Cardinality(S) \in {0, 1}
<1>1. S = {} \/ S = {x}
  OBVIOUS
<1>2. CASE S = {}
  BY <1>2, FS_EmptySet
<1>3. CASE S = {x}
  <2>1. IsFiniteSet({x}) /\ Cardinality({x}) = 1
    BY FS_Singleton
  <2>2. QED
    BY <1>3, <2>1
<1>4. QED
  BY <1>1, <1>2, <1>3

\* Retries that look again at a server that is not up yet, a process that sends to
\* itself, a rank that never gets its server: there are never two turns, neither
\* with processes nor on the way to them, and the index of the one there is counts
\* the letters said.
THEOREM OneTurnOnly == Spec => []OneTurn
<1>1. ASSUME IInv PROVE OneTurn
  <2>1. CASE NotStarted
    <3>1. Active = {} /\ InTransit = {}
      BY <2>1 DEF NotStarted, Active, InTransit, Leaving
    <3>2. QED
      BY <3>1, FS_EmptySet DEF OneTurn
  <2>2. ASSUME NEW i \in Index, WithProcess(i) PROVE OneTurn
    <3>1. Active = {i} /\ InTransit = {}
      BY <2>2 DEF WithProcess, Active, InTransit, Leaving
    <3>2. Cardinality(Active) = 1 /\ Cardinality(InTransit) = 0
      BY <3>1, FS_EmptySet, FS_Singleton
    <3>3. index[i] = Len(said)
      BY <2>2 DEF WithProcess
    <3>4. QED
      BY <3>1, <3>2, <3>3 DEF OneTurn
  <2>3. ASSUME NEW i \in Index, OnItsWayTo(i) PROVE OneTurn
    <3>1. Active = {} /\ InTransit \subseteq {i}
      BY <2>3 DEF OnItsWayTo, Active, InTransit, Leaving
    <3>2. Cardinality(Active) = 0 /\ Cardinality(InTransit) \in {0, 1}
      BY <3>1, FS_EmptySet, AtMostOne
    <3>3. \A k \in DOMAIN inbox[i] : inbox[i][k] = Len(said)
      BY <2>3 DEF OnItsWayTo
    <3>4. QED
      BY <3>1, <3>2, <3>3 DEF OneTurn
  <2>4. CASE Ended
    <3>1. InTransit = {}
      BY <2>4 DEF Ended, InTransit
    <3>2. \A i \in Active : pc[i] = "eof" /\ index[i] = Len(said)
      BY <2>4 DEF Ended, Active
    <3>3. \E x : Active \subseteq {x}
      BY <2>4, <3>2 DEF Ended, Active
    <3>4. Cardinality(Active) \in {0, 1} /\ Cardinality(InTransit) = 0
      BY <3>1, <3>3, FS_EmptySet, AtMostOne
    <3>5. QED
      BY <3>1, <3>2, <3>4 DEF OneTurn
  <2>5. QED
    BY <1>1, <2>1, <2>2, <2>3, <2>4 DEF IInv, TurnInv
<1>2. QED
  BY <1>1, IInvAlways, PTL

\* The end is declared only when everything has been said.
LEMMA OverMeansSung ==
  ASSUME IInv, \E i \in Index : pc[i] \in Leaving
  PROVE  said = song
BY LeavingIsRight DEF IInv, Ended

\* The processes together say the song of Song: Say is its Say, the step by which
\* the first of them leaves its End, and all else stutters.
THEOREM SaysTheSong == Spec => SongSpec
<1> DEFINE over == \E i \in Index : pc[i] \in {"eof", "exited"}
<1>1. Init => TheSong!Init
  BY DEF Init, TheSong!Init
<1>2. ASSUME IInv, NEW i \in Index, Say(i)
      PROVE  TheSong!Say
  <2>1. /\ WithProcess(i) /\ pc'[i] \in {"active", "pass"} /\ song' = song
        /\ Len(said) < Len(song) /\ said' = Append(said, song[Len(said) + 1])
    BY <1>2, SayInv DEF Say, pids
  <2>2. \A j \in Index : j # i => pc'[j] = pc[j]
    BY <1>2, OneProcessSteps DEF IInv, Process
  <2>3. ~over /\ ~over'
    BY <2>1, <2>2 DEF WithProcess, Leaving
  <2>4. QED
    BY <2>1, <2>3 DEF TheSong!Say
<1>3. ASSUME IInv, IInv', UNCHANGED <<song, said>>,
             \A j \in Index : pc[j] \in Leaving => pc'[j] \in Leaving
      PROVE  [TheSong!Next]_(TheSong!vars)
  <2>1. CASE over'
    <3>1. (\E i \in Index : pc[i] \in Leaving)'
      BY <2>1 DEF Leaving
    <3>2. (said = song)'
      BY <1>3, <3>1, OverMeansSung, PTL
    <3>3. said = song /\ over' = TRUE
      BY <1>3, <2>1, <3>2
    <3>4. QED
      BY <1>3, <3>3 DEF TheSong!Next, TheSong!End
  <2>2. CASE ~over'
    <3>1. ~over
      BY <1>3, <2>2 DEF Leaving
    <3>2. over' = over
      BY <2>2, <3>1
    <3>3. QED
      BY <1>3, <3>2 DEF TheSong!vars
  <2>3. QED
    BY <2>1, <2>2
<1>4. IInv /\ IInv' /\ [Next]_vars => [TheSong!Next]_(TheSong!vars)
  <2> SUFFICES ASSUME IInv, IInv', [Next]_vars PROVE [TheSong!Next]_(TheSong!vars)
    OBVIOUS
  <2>1. CASE UNCHANGED vars
    BY <1>3, <2>1 DEF vars, turn, pids
  <2>2. CASE Fork
    <3>1. UNCHANGED <<song, said>> /\ (pc' = pc \/ pc' = [pc EXCEPT ![forked] = "start"])
      BY <2>2 DEF Fork, To, turn, pids
    <3>2. forked \in Index => pc[forked] = "unborn"
      BY IndexFacts DEF IInv, ProcessInv
    <3>3. \A j \in Index : pc[j] \in Leaving => pc'[j] \in Leaving
      BY <3>1, <3>2 DEF Leaving, IInv, TypeOK
    <3>4. QED
      BY <1>3, <3>1, <3>3
  <2>3. CASE Wait
    BY <1>3, <2>3 DEF Wait, turn, pids
  <2>4. ASSUME NEW i \in Index, Process(i) PROVE [TheSong!Next]_(TheSong!vars)
    <3>1. CASE Say(i)
      BY <1>2, <3>1 DEF TheSong!Next
    <3>2. CASE ~Say(i)
      <4>1. song' = song /\ \A j \in Index : j # i => pc'[j] = pc[j]
        BY <2>4, OneProcessSteps DEF IInv
      <4>2. said' = said
        BY <2>4, <3>2 DEF Process, exchange_pids, Listen0, AcceptAll, SendList, Report,
           ListenForList, GetList, create_tcp_server, Wake, SongOver, NotMine, Pass, Receive,
           SendEOF, turn
      <4>3. pc[i] \in Leaving => pc'[i] \in Leaving
        <5> SUFFICES ASSUME pc[i] \in Leaving PROVE pc'[i] \in Leaving
          OBVIOUS
        <5>1. SendEOF(i)
          BY <2>4 DEF Process, exchange_pids, Listen0, AcceptAll, SendList, Report,
             ListenForList, GetList, create_tcp_server, Wake, SongOver, Say, NotMine, Pass,
             Receive, Leaving
        <5>2. pc' = pc \/ \E x \in Leaving : pc' = [pc EXCEPT ![i] = x]
          BY <5>1 DEF SendEOF, Refused, To, Leaving
        <5>3. QED
          BY <5>2 DEF IInv, TypeOK
      <4>4. QED
        BY <1>3, <2>4, <4>1, <4>2, <4>3
    <3>3. QED
      BY <3>1, <3>2
  <2>5. QED
    BY <2>1, <2>2, <2>3, <2>4 DEF Next, Main
<1>5. QED
  BY <1>1, <1>4, IInvAlways, PTL DEF Spec, SongSpec, TheSong!Spec

-----------------------------------------------------------------------------
(* Numbers and the places of a buffer.                                     *)

\* A set of natural numbers that has an element has a least one.
LEMMA LeastOf ==
  ASSUME NEW A \in SUBSET Nat, A # {}
  PROVE  \E x \in A : \A y \in A : x <= y
<1>1. PICK x \in A : \A y \in A : ~ (<<y, x>> \in OpToRel(<, Nat))
  BY WFMin, NatLessThanWellFounded
<1>2. \A y \in A : ~ (y < x)
  BY <1>1 DEF OpToRel
<1>3. QED
  BY <1>2

\* Induction over the natural numbers, on a set of them.
LEMMA SetInduction ==
  ASSUME NEW A \in SUBSET Nat, 0 \in A, \A n \in A : n + 1 \in A
  PROVE  A = Nat
<1> SUFFICES ASSUME A # Nat PROVE FALSE
  OBVIOUS
<1>1. PICK x \in Nat \ A : \A y \in Nat \ A : x <= y
  BY LeastOf
<1>2. x # 0 /\ x - 1 \in A
  BY <1>1
<1>3. QED
  BY <1>1, <1>2

\* Min finds it.
LEMMA MinIs ==
  ASSUME NEW A \in SUBSET Nat, A # {}
  PROVE  Min(A) \in A /\ \A y \in A : Min(A) <= y
BY LeastOf DEF Min

\* The Min and Max of the community modules, of two numbers.
LEMMA MinOfTwo ==
  ASSUME NEW a \in Nat, NEW b \in Nat
  PROVE  Min({a, b}) = IF a <= b THEN a ELSE b
<1>1. Min({a, b}) \in {a, b} /\ \A y \in {a, b} : Min({a, b}) <= y
  BY MinIs
<1>2. QED
  BY <1>1

LEMMA MaxOfTwo ==
  ASSUME NEW a \in Nat, NEW b \in Nat
  PROVE  Max({a, b}) = IF a >= b THEN a ELSE b
<1>1. \E x \in {a, b} : \A y \in {a, b} : x >= y
  OBVIOUS
<1>2. Max({a, b}) \in {a, b} /\ \A y \in {a, b} : Max({a, b}) >= y
  BY <1>1 DEF Max
<1>3. QED
  BY <1>2

-----------------------------------------------------------------------------
(* The parser: types.                                                      *)

\* What the parser reads and makes, and the invariant that says so: the words
\* of a command, the commands of a line.
Words == Seq(Chars)
Lines == Seq(Seq(Words))

\* The type invariant of the parser: the live part of the buffer is within its
\* capacity and has been written, whatever lies behind it.
ParserTypeOK ==
  /\ text \in Seq(Chars) /\ fed \in 0 .. Len(text)
  /\ mem \in Seq(Chars \cup {Unknown}) /\ size \in 0 .. Len(mem)
  /\ \A i \in 1 .. size : mem[i] \in Chars
  /\ pos \in Nat /\ line \in Lines /\ popped \in Seq(Lines)
  /\ mode \in {"read", "parse", "skip", "execute", "crashed", "done"}

\* The facts about lengths the steps need.
LEMMA ParserFacts ==
  ASSUME ParserTypeOK
  PROVE  /\ text \in Seq(Chars) /\ Len(text) \in Nat /\ Len(mem) \in Nat
         /\ fed \in Nat /\ size \in Nat /\ size <= Len(mem) /\ fed <= Len(text)
         /\ DOMAIN mem = 1 .. Len(mem) /\ DOMAIN text = 1 .. Len(text)
         /\ \A i \in 1 .. Len(mem) : mem[i] \in Chars \cup {Unknown}
         /\ \A i \in 1 .. Len(text) : text[i] \in Chars
         /\ Unknown \notin Chars /\ pos \in Nat
         /\ \A i \in 1 .. size : mem[i] \in Chars
<1>1. text \in Seq(Chars) /\ mem \in Seq(Chars \cup {Unknown})
  BY DEF ParserTypeOK
<1>2. /\ Len(text) \in Nat /\ DOMAIN text = 1 .. Len(text)
      /\ Len(mem) \in Nat /\ DOMAIN mem = 1 .. Len(mem)
  BY <1>1, LenProperties
<1>3. /\ \A i \in 1 .. Len(mem) : mem[i] \in Chars \cup {Unknown}
      /\ \A i \in 1 .. Len(text) : text[i] \in Chars
  BY <1>1, ElementOfSeq
<1>4. Unknown \notin Chars
  BY DEF Unknown, Chars
<1>5. QED
  BY <1>1, <1>2, <1>3, <1>4 DEF ParserTypeOK

\* First looks at the live part only.
LEMMA FirstIs ==
  ASSUME ParserTypeOK, NEW S, NEW i \in Nat
  PROVE  /\ First(S, i) \in Nat /\ First(S, i) <= size
         /\ i <= size \/ First(S, i) < size => i <= First(S, i)
         /\ \A j \in i + 1 .. First(S, i) : mem[j] \notin S
         /\ First(S, i) < size => mem[First(S, i) + 1] \in S
<1> DEFINE A == {j \in i .. size - 1 : mem[j + 1] \in S} \cup {size}
<1>1. size \in Nat
  BY ParserFacts
<1>2. A \in SUBSET Nat /\ A # {}
  BY <1>1
<1>3. First(S, i) \in A /\ \A y \in A : First(S, i) <= y
  BY <1>2, MinIs DEF First
<1>4. ASSUME NEW j \in i + 1 .. First(S, i) PROVE mem[j] \notin S
  <2>1. j - 1 \in i .. size - 1 /\ j - 1 \notin A
    BY <1>1, <1>3
  <2>2. (j - 1) + 1 = j
    OBVIOUS
  <2>3. QED
    BY <2>1, <2>2
<1>5. QED
  BY <1>1, <1>3, <1>4

\* A search of parse_token never leaves the live part of the buffer.
LEMMA FirstIn ==
  ASSUME ParserTypeOK, NEW S, NEW i \in Nat, i <= size
  PROVE  First(S, i) \in Nat /\ i <= First(S, i) /\ First(S, i) <= size
BY FirstIs

\* Up to Start there are spaces; parse_token looks at the character there, or, past the
\* live part, at anything.
LEMMA StartIs ==
  ASSUME ParserTypeOK, pos < size
  PROVE  /\ Start \in Nat /\ pos <= Start /\ Start <= size
         /\ \A j \in pos + 1 .. Start : mem[j] = " "
         /\ Start < size => mem[Start + 1] \in Chars \ {" "} /\ Seen = {mem[Start + 1]}
         /\ Seen \subseteq Chars
<1>1. pos \in Nat /\ size \in Nat /\ pos < size /\ pos <= size
  BY ParserFacts
<1>2. Start \in Nat /\ pos <= Start /\ Start <= size
  BY <1>1, FirstIn DEF Start
<1>a. Start < size => mem[Start + 1] \in Chars \ {" "}
  BY <1>1, FirstIs DEF Start
<1>3. \A j \in pos + 1 .. Start : mem[j] \notin Chars \ {" "}
  BY <1>1, FirstIs DEF Start
<1>4. ASSUME NEW j \in pos + 1 .. Start PROVE mem[j] = " "
  <2>1. j \in 1 .. size
    BY <1>1, <1>2
  <2>2. mem[j] \in Chars
    BY <2>1, ParserFacts
  <2>3. QED
    BY <1>3, <2>2
<1>5. Start + 1 \in 1 .. Len(mem) => mem[Start + 1] \in Chars \cup {Unknown}
  BY ParserFacts
<1>6. size <= Len(mem) /\ Len(mem) \in Nat /\ Unknown \notin Chars
  BY ParserFacts
<1>7. Start < size => Seen = {mem[Start + 1]}
  <2> SUFFICES ASSUME Start < size PROVE Seen = {mem[Start + 1]}
    OBVIOUS
  <2>1. Start < Len(mem)
    BY <1>1, <1>2, <1>6
  <2>2. mem[Start + 1] # Unknown
    BY <1>a, <1>6
  <2>3. QED
    BY <2>1, <2>2 DEF Seen
<1>8. Seen \subseteq Chars
  <2>1. CASE Start < Len(mem)
    <3>1. Start + 1 \in 1 .. Len(mem)
      BY <1>2, <1>6, <2>1
    <3>2. QED
      BY <1>5, <3>1 DEF Seen
  <2>2. CASE ~ (Start < Len(mem))
    BY <2>2 DEF Seen
  <2>3. QED
    BY <2>1, <2>2
<1>9. QED
  BY <1>2, <1>a, <1>4, <1>7, <1>8

\* The characters of a word.
LEMMA WordEndIs ==
  ASSUME ParserTypeOK, pos < size
  PROVE  /\ WordEnd \in Nat /\ Start <= WordEnd /\ WordEnd <= size
         /\ \A j \in Start + 1 .. WordEnd : mem[j] \in {"a", "|"}
         /\ WordEnd < size => mem[WordEnd + 1] \in {" ", "n", "r"}
<1>1. Start \in Nat /\ size \in Nat /\ Start <= size
  BY StartIs, ParserFacts
<1>2. WordEnd \in Nat /\ WordEnd <= size /\ Start <= WordEnd
  BY <1>1, FirstIn DEF WordEnd
<1>a. WordEnd < size => mem[WordEnd + 1] \in {" ", "n", "r"}
  BY <1>1, FirstIs DEF WordEnd
<1>3. \A j \in Start + 1 .. WordEnd : mem[j] \notin {" ", "n", "r"}
  BY <1>1, FirstIs DEF WordEnd
<1>4. ASSUME NEW j \in Start + 1 .. WordEnd PROVE mem[j] \in {"a", "|"}
  <2>1. j \in 1 .. size
    BY <1>1, <1>2
  <2>2. mem[j] \in Chars
    BY <2>1, ParserFacts
  <2>3. QED
    BY <1>3, <2>2 DEF Chars
<1>5. QED
  BY <1>2, <1>a, <1>4

\* So a word that is read is one that has been written.
LEMMA WordIs ==
  ASSUME ParserTypeOK, pos < size, NEW next, AtWord(next)
  PROVE  /\ next \in Nat /\ Start < next /\ next < size /\ pos <= Start
         /\ SubSeq(mem, Start + 1, next) \in Words
         /\ Len(SubSeq(mem, Start + 1, next)) = next - Start
         /\ \A j \in 1 .. next - Start : SubSeq(mem, Start + 1, next)[j] = mem[Start + j]
         /\ mem[Start + 1] = "a"
<1>1. /\ next = WordEnd /\ WordEnd < size /\ Seen \subseteq {"a"}
      /\ Start \in Nat /\ pos <= Start /\ Start <= WordEnd /\ WordEnd \in Nat
      /\ size \in Nat /\ pos \in Nat
  BY StartIs, WordEndIs, ParserFacts DEF AtWord
<1>2. mem[Start + 1] = "a"
  <2>1. Start < size
    BY <1>1
  <2>2. Seen = {mem[Start + 1]}
    BY <2>1, StartIs
  <2>3. QED
    BY <1>1, <2>2
<1>3. Start # WordEnd
  BY <1>1, <1>2, WordEndIs
<1>4. \A i \in Start + 1 .. next : mem[i] \in Chars
  BY <1>1, ParserFacts
<1>5. Start + 1 \in Int /\ next \in Int
  BY <1>1
<1>6. /\ SubSeq(mem, Start + 1, next) \in Seq(Chars)
      /\ Len(SubSeq(mem, Start + 1, next)) =
           IF Start + 1 <= next THEN next - (Start + 1) + 1 ELSE 0
      /\ \A j \in 1 .. next - (Start + 1) + 1 :
           SubSeq(mem, Start + 1, next)[j] = mem[Start + 1 + j - 1]
  BY <1>4, <1>5, SubSeqProperties
<1>7. QED
  BY <1>1, <1>2, <1>3, <1>6 DEF Words

-----------------------------------------------------------------------------
(* The parser: its steps.                                                  *)

\* Feed appends what it reads to the live part.
LEMMA FeedIs ==
  ASSUME ParserTypeOK, Feed
  PROVE  \E k \in Nat :
           /\ k > 0 /\ size' = size + k /\ fed' = fed + k /\ fed + k <= Len(text)
           /\ \A i \in 1 .. size : mem'[i] = mem[i]
           /\ \A i \in size + 1 .. size + k : mem'[i] = text[fed + i - size]
           /\ mem' \in Seq(Chars \cup {Unknown}) /\ size + k <= Len(mem')
<1>1. PICK k \in 1 .. Min({ReadSize, Len(text) - fed}) :
        mem' = [i \in 1 .. NewCapacity(k) |->
            CASE size < i /\ i <= size + k -> text[fed + i - size]
              [] i <= Len(mem) /\ (i <= size \/ i > size + k) -> mem[i]
              [] OTHER -> Unknown]
        /\ size' = size + k /\ fed' = fed + k
  BY DEF Feed
<1>2. /\ fed \in Nat /\ size \in Nat /\ size <= Len(mem) /\ fed <= Len(text)
      /\ Len(mem) \in Nat /\ Len(text) \in Nat
  BY ParserFacts
<1>3. Len(text) - fed \in Nat /\ ReadSize \in Nat
  BY <1>2, ReadSizeAssumption
<1>4. Min({ReadSize, Len(text) - fed}) \in Nat /\ Min({ReadSize, Len(text) - fed}) <= Len(text) - fed
  BY <1>3, MinOfTwo
<1>a. k \in 1 .. Min({ReadSize, Len(text) - fed})
  BY <1>1
<1>b. k \in Int /\ 1 <= k /\ k <= Min({ReadSize, Len(text) - fed})
  BY <1>a, <1>4
<1>5. k \in Nat /\ k > 0 /\ k <= Len(text) - fed
  BY <1>b, <1>3, <1>4
<1>6. fed + k <= Len(text)
  BY <1>2, <1>5
<1>7. NewCapacity(k) \in Nat /\ NewCapacity(k) >= size + k /\ NewCapacity(k) >= Len(mem)
  <2>1. 2 * (Len(mem) + 1) \in Nat /\ size + k \in Nat /\ 2 * (Len(mem) + 1) >= Len(mem)
    BY <1>2, <1>5
  <2>2. /\ Max({2 * (Len(mem) + 1), size + k}) \in Nat
        /\ Max({2 * (Len(mem) + 1), size + k}) >= size + k
        /\ Max({2 * (Len(mem) + 1), size + k}) >= 2 * (Len(mem) + 1)
    BY <2>1, MaxOfTwo
  <2>3. QED
    BY <1>2, <1>5, <2>1, <2>2 DEF NewCapacity
<1> DEFINE C == NewCapacity(k)
<1> HIDE DEF C
<1>8. C \in Nat /\ C >= size + k /\ C >= Len(mem)
  BY <1>7 DEF C
<1>9. mem' = [i \in 1 .. C |->
            CASE size < i /\ i <= size + k -> text[fed + i - size]
              [] i <= Len(mem) /\ (i <= size \/ i > size + k) -> mem[i]
              [] OTHER -> Unknown]
  BY <1>1 DEF C
<1>10. ASSUME NEW i \in 1 .. size PROVE mem'[i] = mem[i]
  BY <1>2, <1>5, <1>8, <1>9
<1>11. ASSUME NEW i \in size + 1 .. size + k PROVE mem'[i] = text[fed + i - size]
  BY <1>2, <1>5, <1>8, <1>9
<1>12. ASSUME NEW i \in 1 .. C PROVE mem'[i] \in Chars \cup {Unknown}
  <2>1. CASE size < i /\ i <= size + k
    <3>1. fed + i - size \in 1 .. Len(text)
      BY <1>2, <1>5, <1>6, <2>1
    <3>2. mem'[i] = text[fed + i - size]
      BY <1>2, <1>8, <1>9, <2>1
    <3>3. QED
      BY <3>1, <3>2, ParserFacts
  <2>2. CASE ~ (size < i /\ i <= size + k) /\ i <= Len(mem) /\ (i <= size \/ i > size + k)
    <3>1. i \in 1 .. Len(mem)
      BY <2>2, <1>2
    <3>2. mem'[i] = mem[i]
      BY <1>9, <2>2
    <3>3. QED
      BY <3>1, <3>2, ParserFacts
  <2>3. CASE ~ (size < i /\ i <= size + k) /\ ~ (i <= Len(mem) /\ (i <= size \/ i > size + k))
    BY <1>9, <2>3
  <2>4. QED
    BY <2>1, <2>2, <2>3
<1>13. mem' \in [1 .. C -> Chars \cup {Unknown}]
  BY <1>9, <1>12
<1>14. mem' \in Seq(Chars \cup {Unknown}) /\ DOMAIN mem' = 1 .. C
  BY <1>8, <1>13
<1>15. Len(mem') = C
  BY <1>14, <1>8, LenProperties
<1>16. QED
  BY <1>1, <1>5, <1>6, <1>8, <1>10, <1>11, <1>14, <1>15

\* parser_consume drops the beginning of the live part.
LEMMA ConsumeIs ==
  ASSUME ParserTypeOK, NEW n \in Nat, parser_consume(n)
  PROVE  /\ n <= size /\ size' = size - n /\ size' \in Nat /\ size' <= Len(mem')
         /\ mem' \in Seq(Chars \cup {Unknown})
         /\ \A i \in 1 .. size' : mem'[i] = mem[n + i]
         /\ \A i \in 1 .. size' : mem'[i] \in Chars
<1>1. /\ n <= size /\ size' = size - n
      /\ mem' = [i \in DOMAIN mem |-> IF i <= size - n THEN mem[i + n] ELSE mem[i]]
  BY DEF parser_consume
<1>2. size \in Nat /\ size <= Len(mem) /\ Len(mem) \in Nat /\ DOMAIN mem = 1 .. Len(mem)
  BY ParserFacts
<1>3. size' \in Nat /\ size' <= Len(mem)
  BY <1>1, <1>2
<1>4. ASSUME NEW i \in 1 .. Len(mem) PROVE mem'[i] \in Chars \cup {Unknown}
  <2>1. CASE i <= size - n
    <3>1. i + n \in 1 .. Len(mem)
      BY <1>2, <2>1
    <3>2. QED
      BY <1>1, <1>2, <2>1, <3>1, ParserFacts
  <2>2. CASE ~ (i <= size - n)
    BY <1>1, <1>2, <2>2, ParserFacts
  <2>3. QED
    BY <2>1, <2>2
<1>5. mem' \in [1 .. Len(mem) -> Chars \cup {Unknown}]
  BY <1>1, <1>2, <1>4
<1>6. mem' \in Seq(Chars \cup {Unknown}) /\ Len(mem') = Len(mem)
  BY <1>2, <1>5, LenProperties
<1>7. ASSUME NEW i \in 1 .. size' PROVE mem'[i] = mem[n + i] /\ mem'[i] \in Chars
  <2>1. i \in 1 .. Len(mem) /\ i <= size - n /\ i + n \in 1 .. size /\ i + n = n + i
    BY <1>1, <1>2
  <2>2. mem'[i] = mem[i + n]
    BY <1>1, <1>2, <2>1
  <2>3. mem[i + n] \in Chars
    BY <2>1, ParserFacts
  <2>4. QED
    BY <2>1, <2>2, <2>3
<1>8. QED
  BY <1>1, <1>3, <1>6, <1>7

\* A line grows by a word or by a pipe.
LEMMA LineGrows ==
  ASSUME line \in Lines, NEW word \in Words
  PROVE  /\ Append(line, Pipe) \in Lines /\ Append(line, <<word>>) \in Lines
         /\ EndsInCommand => [line EXCEPT ![Len(line)] = Append(@, word)] \in Lines
         /\ EndsInCommand => [line EXCEPT ![Len(line)] = Append(@, word)] # <<>>
         /\ Append(line, Pipe) # <<>> /\ Append(line, <<word>>) # <<>>
<1>1. line \in Seq(Seq(Words))
  BY DEF Lines
<1>2. Pipe \in Seq(Words) /\ <<word>> \in Seq(Words)
  BY DEF Pipe
<1>a. Append(line, Pipe) \in Seq(Seq(Words)) /\ Append(line, Pipe) # <<>>
  BY <1>1, <1>2, AppendProperties
<1>b. Append(line, <<word>>) \in Seq(Seq(Words)) /\ Append(line, <<word>>) # <<>>
  BY <1>1, <1>2, AppendProperties
<1>3. /\ Append(line, Pipe) \in Seq(Seq(Words)) /\ Append(line, <<word>>) \in Seq(Seq(Words))
      /\ Append(line, Pipe) # <<>> /\ Append(line, <<word>>) # <<>>
  BY <1>a, <1>b
<1>4. ASSUME EndsInCommand
      PROVE  /\ [line EXCEPT ![Len(line)] = Append(@, word)] \in Seq(Seq(Words))
             /\ [line EXCEPT ![Len(line)] = Append(@, word)] # <<>>
  <2>1. line # <<>>
    BY <1>4 DEF EndsInCommand
  <2>2. Len(line) \in 1 .. Len(line) /\ DOMAIN line = 1 .. Len(line) /\ Len(line) \in Nat
    BY <1>1, <2>1, EmptySeq, LenProperties
  <2>3. line[Len(line)] \in Seq(Words)
    BY <1>1, <2>2, ElementOfSeq
  <2>4. Append(line[Len(line)], word) \in Seq(Words)
    BY <2>3, AppendProperties
  <2>5. [line EXCEPT ![Len(line)] = Append(line[Len(line)], word)] \in Seq(Seq(Words))
    BY <1>1, <2>2, <2>4, ExceptSeq
  <2>6. Len([line EXCEPT ![Len(line)] = Append(line[Len(line)], word)]) = Len(line)
    BY <1>1, <2>2, <2>4, ExceptSeq
  <2>7. QED
    BY <2>2, <2>5, <2>6, EmptySeq
<1>5. QED
  BY <1>3, <1>4 DEF Lines

\* A token ends at most two characters behind the live part: the '\r' and '\n'
\* parse_token takes for granted.
LEMMA NextsAreNat ==
  ASSUME ParserTypeOK, NEW next \in Nexts
  PROVE  next \in Nat /\ pos < next /\ next <= size + 2
<1>1. pos \in Nat /\ size \in Nat
  BY ParserFacts
<1>2. next \in pos + 1 .. size + 2
  BY DEF Nexts
<1>3. QED
  BY <1>1, <1>2

\* Every step of the shell is one of these.
LEMMA ShellSteps ==
  ASSUME ShellNext
  PROVE  \/ Feed /\ UNCHANGED execVars
         \/ (NoLine \/ EndOfInput) /\ UNCHANGED execVars
         \/ /\ pos < size /\ UNCHANGED execVars
            /\ \E next \in Nexts :
                 \/ Word(next) \/ PipeToken(next) \/ BlankLine(next) \/ EndOfLine(next)
                 \/ SkipToken(next) \/ SkipLine(next) \/ ConsumeFails(next)
         \/ execute_cmd \/ Reap \/ LineDone \/ Command
BY DEF ShellNext, TheShell, Parser, parser_pop_next

\* What a command takes of the script leaves what the shell has read of it.
LEMMA WithoutIs ==
  ASSUME ParserTypeOK, NEW k \in 1 .. Len(text) - fed
  PROVE  /\ Without(k) \in Seq(Chars) /\ fed <= Len(Without(k))
         /\ \A i \in 1 .. fed : Without(k)[i] = text[i]
<1> DEFINE a == SubSeq(text, 1, fed)
           b == SubSeq(text, fed + k + 1, Len(text))
<1>1. /\ text \in Seq(Chars) /\ Len(text) \in Nat /\ fed \in Nat /\ fed <= Len(text)
      /\ k \in Nat
  BY ParserFacts
<1>2. a \in Seq(Chars) /\ Len(a) = fed /\ \A i \in 1 .. fed : a[i] = text[i]
  <2>1. \A i \in 1 .. fed : text[i] \in Chars
    BY <1>1, ParserFacts
  <2>2. /\ SubSeq(text, 1, fed) \in Seq(Chars)
        /\ Len(SubSeq(text, 1, fed)) = IF 1 <= fed THEN fed - 1 + 1 ELSE 0
        /\ \A i \in 1 .. fed - 1 + 1 : SubSeq(text, 1, fed)[i] = text[1 + i - 1]
    BY <1>1, <2>1, SubSeqProperties
  <2>3. fed - 1 + 1 = fed /\ (~ (1 <= fed) => fed = 0)
    BY <1>1
  <2>4. ASSUME NEW i \in 1 .. fed PROVE a[i] = text[i]
    <3>1. 1 + i - 1 = i
      OBVIOUS
    <3>2. QED
      BY <2>2, <2>3, <3>1
  <2>5. QED
    BY <2>2, <2>3, <2>4
<1>3. b \in Seq(Chars) /\ Len(b) \in Nat
  <2>1. \A i \in fed + k + 1 .. Len(text) : text[i] \in Chars
    BY <1>1, ParserFacts
  <2>2. SubSeq(text, fed + k + 1, Len(text)) \in Seq(Chars)
    BY <1>1, <2>1, SubSeqProperties
  <2>3. QED
    BY <2>2, LenProperties
<1> HIDE DEF a, b
<1>4. /\ a \o b \in Seq(Chars) /\ Len(a \o b) = Len(a) + Len(b)
      /\ \A i \in 1 .. Len(a) + Len(b) : (a \o b)[i] = IF i <= Len(a) THEN a[i] ELSE b[i - Len(a)]
  BY <1>1, <1>2, <1>3, ConcatProperties
<1>5. Without(k) = a \o b
  BY DEF Without, a, b
<1>6. QED
  BY <1>1, <1>2, <1>3, <1>4, <1>5

\* The commands leave the parser's state alone, but for what they read of the script.
LEMMA OtherSteps ==
  ASSUME execute_cmd \/ Reap \/ LineDone \/ Command \/ UNCHANGED shellVars
  PROVE  /\ mem' = mem /\ size' = size /\ popped' = popped /\ fed' = fed
         /\ \/ text' = text /\ UNCHANGED <<pos, line, mode>>
            \/ text' = text /\ pos' = 0 /\ line' = <<>> /\ mode' = "parse"
            \/ /\ UNCHANGED <<pos, line, mode>>
               /\ \E k \in 1 .. Len(text) - fed : text' = Without(k)
<1>1. CASE execute_cmd
  BY <1>1 DEF execute_cmd, parserVars
<1>2. CASE Reap
  BY <1>2 DEF Reap, parserVars
<1>3. CASE LineDone
  BY <1>3 DEF LineDone, PopNext
<1>4. CASE Command
  <2>1. CASE ReadPipe
    BY <2>1 DEF ReadPipe, parserVars
  <2>2. CASE ReadEnds
    BY <2>2 DEF ReadEnds, parserVars
  <2>3. CASE ReadScript
    BY <2>3 DEF ReadScript
  <2>4. CASE Write
    BY <2>4 DEF Write, parserVars
  <2>5. QED
    BY <1>4, <2>1, <2>2, <2>3, <2>4 DEF Command
<1>5. CASE UNCHANGED shellVars
  BY <1>5 DEF shellVars, parserVars, execVars
<1>6. QED
  BY <1>1, <1>2, <1>3, <1>4, <1>5

\* The loops of the shell, by name.
Modes == {"read", "parse", "skip", "execute", "crashed", "done"}

\* A step that leaves the buffer and the script alone is easily typed.
LEMMA SameBuffer ==
  ASSUME ParserTypeOK, UNCHANGED <<text, fed, mem, size>>,
         pos' \in Nat, line' \in Lines, popped' \in Seq(Lines), mode' \in Modes
  PROVE  ParserTypeOK'
BY DEF ParserTypeOK, Modes

\* parser_pop_next starts with an empty line.
LEMMA EmptyLine == <<>> \in Lines /\ <<>> \in Seq(Lines)
BY DEF Lines

\* The types hold at first and every step of the shell keeps them.
LEMMA ParserTyped ==
  /\ ShellInit => ParserTypeOK
  /\ ParserTypeOK /\ [ShellNext]_shellVars => ParserTypeOK'
<1>1. ASSUME ShellInit PROVE ParserTypeOK
  <2>1. /\ text \in Texts /\ fed = 0 /\ mem = <<>> /\ size = 0 /\ pos = 0 /\ line = <<>>
        /\ popped = <<>> /\ mode = "read"
    BY <1>1 DEF ShellInit, ParserInit
  <2>2. text \in Seq(Chars) /\ Len(text) \in Nat
    BY <2>1, TextsAssumption, LenProperties
  <2>3. mem \in Seq(Chars \cup {Unknown}) /\ Len(mem) = 0
    BY <2>1
  <2>4. QED
    BY <2>1, <2>2, <2>3, EmptyLine DEF ParserTypeOK
<1>2. ASSUME ParserTypeOK, [ShellNext]_shellVars PROVE ParserTypeOK'
  <2>0. /\ pos \in Nat /\ line \in Lines /\ popped \in Seq(Lines) /\ size \in Nat
        /\ mode \in Modes
    BY <1>2, ParserFacts DEF ParserTypeOK, Modes
  <2>1. CASE Feed
    <3>1. PICK k \in Nat :
           /\ size' = size + k /\ fed' = fed + k /\ fed + k <= Len(text)
           /\ \A i \in 1 .. size : mem'[i] = mem[i]
           /\ \A i \in size + 1 .. size + k : mem'[i] = text[fed + i - size]
           /\ mem' \in Seq(Chars \cup {Unknown}) /\ size + k <= Len(mem')
      BY <1>2, <2>1, FeedIs
    <3>2. /\ text' = text /\ popped' = popped /\ pos' = 0 /\ line' = <<>> /\ mode' = "parse"
      BY <2>1 DEF Feed, PopNext
    <3>3. fed \in Nat /\ Len(text) \in Nat /\ fed + k <= Len(text) /\ fed' = fed + k
          /\ size' = size + k /\ size + k <= Len(mem')
      BY <1>2, <3>1, ParserFacts
    <3>4. fed' \in 0 .. Len(text)
      BY <3>3
    <3>5. Len(mem') \in Nat
      BY <3>1, LenProperties
    <3>6. size' \in 0 .. Len(mem')
      BY <2>0, <3>3, <3>5
    <3>7. ASSUME NEW i \in 1 .. size' PROVE mem'[i] \in Chars
      <4>1. CASE i <= size
        <5>1. i \in 1 .. size
          BY <2>0, <3>3, <4>1
        <5>2. QED
          BY <1>2, <3>1, <5>1, ParserFacts
      <4>2. CASE ~ (i <= size)
        <5>1. i \in size + 1 .. size + k /\ fed + i - size \in 1 .. Len(text)
          BY <2>0, <3>3, <4>2
        <5>2. QED
          BY <1>2, <3>1, <5>1, ParserFacts
      <4>3. QED
        BY <4>1, <4>2
    <3>8. text \in Seq(Chars) /\ mem' \in Seq(Chars \cup {Unknown})
      BY <1>2, <3>1 DEF ParserTypeOK
    <3>9. QED
      BY <2>0, <3>2, <3>4, <3>6, <3>7, <3>8, EmptyLine DEF ParserTypeOK
  <2>2. CASE NoLine \/ EndOfInput
    <3>1. UNCHANGED <<text, fed, mem, size, pos, line, popped>> /\ mode' \in {"read", "done"}
      BY <2>2 DEF NoLine, EndOfInput
    <3>2. mode' \in Modes
      BY <3>1 DEF Modes
    <3>3. QED
      BY <1>2, <2>0, <3>1, <3>2, SameBuffer
  <2>3. ASSUME pos < size, NEW next \in Nexts,
               \/ Word(next) \/ PipeToken(next) \/ BlankLine(next) \/ EndOfLine(next)
               \/ SkipToken(next) \/ SkipLine(next) \/ ConsumeFails(next)
        PROVE  ParserTypeOK'
    <3>0. next \in Nat
      BY <1>2, NextsAreNat
    <3>1. CASE Word(next)
      <4>1. SubSeq(mem, Start + 1, next) \in Words
        BY <1>2, <2>3, <3>1, WordIs DEF Word
      <4>2. line' \in Lines
        BY <2>0, <3>1, <4>1, LineGrows DEF Word
      <4>3. UNCHANGED <<text, fed, mem, size, popped, mode>> /\ pos' = next
        BY <3>1 DEF Word
      <4>4. QED
        BY <1>2, <2>0, <3>0, <4>2, <4>3, SameBuffer
    <3>2. CASE PipeToken(next)
      <4>1. Append(line, Pipe) \in Lines
        <5>1. Pipe \in Seq(Words)
          BY DEF Pipe
        <5>2. QED
          BY <2>0, <5>1, AppendProperties DEF Lines
      <4>2. /\ UNCHANGED <<text, fed, mem, size, popped>> /\ pos' = next
            /\ line' \in Lines /\ mode' \in {mode, "skip"}
        BY <2>0, <3>2, <4>1 DEF PipeToken
      <4>3. mode' \in Modes
        BY <2>0, <4>2 DEF Modes
      <4>4. QED
        BY <1>2, <2>0, <3>0, <4>2, <4>3, SameBuffer
    <3>3. CASE BlankLine(next) \/ SkipToken(next) \/ ConsumeFails(next)
      <4>1. /\ UNCHANGED <<text, fed, mem, size, line, popped>> /\ pos' \in {pos, next}
            /\ mode' \in {mode, "crashed"}
        BY <3>3 DEF BlankLine, SkipToken, ConsumeFails
      <4>2. mode' \in Modes
        BY <2>0, <4>1 DEF Modes
      <4>3. QED
        BY <1>2, <2>0, <3>0, <4>1, <4>2, SameBuffer
    <3>4. CASE EndOfLine(next) \/ SkipLine(next)
      <4>1. parser_consume(next) /\ fed' = fed /\ text' = text
        BY <3>4 DEF EndOfLine, SkipLine
      <4>2. /\ pos' \in {pos, 0} /\ line' \in {line, <<>>}
            /\ mode' \in {"execute", "parse"} /\ popped' \in {popped, Append(popped, line)}
        BY <3>4 DEF EndOfLine, SkipLine, PopNext
      <4>3. Append(popped, line) \in Seq(Lines)
        BY <2>0, AppendProperties
      <4>4. /\ size' \in Nat /\ size' <= Len(mem') /\ mem' \in Seq(Chars \cup {Unknown})
            /\ \A i \in 1 .. size' : mem'[i] \in Chars
        BY <1>2, <3>0, <4>1, ConsumeIs
      <4>5. size' \in 0 .. Len(mem')
        BY <4>4, LenProperties
      <4>6. text' \in Seq(Chars) /\ fed' \in 0 .. Len(text')
        BY <1>2, <4>1 DEF ParserTypeOK
      <4>7. pos' \in Nat /\ line' \in Lines /\ popped' \in Seq(Lines) /\ mode' \in Modes
        BY <2>0, <4>2, <4>3, EmptyLine DEF Modes
      <4>8. QED
        BY <4>4, <4>5, <4>6, <4>7 DEF ParserTypeOK, Modes
    <3>5. QED
      BY <2>3, <3>1, <3>2, <3>3, <3>4
  <2>4. CASE execute_cmd \/ Reap \/ LineDone \/ Command \/ UNCHANGED shellVars
    <3>1. /\ UNCHANGED <<fed, mem, size, popped>>
          /\ pos' \in {pos, 0} /\ line' \in {line, <<>>} /\ mode' \in {mode, "parse"}
          /\ text' = text \/ \E k \in 1 .. Len(text) - fed : text' = Without(k)
      BY <2>4, OtherSteps
    <3>2. pos' \in Nat /\ line' \in Lines /\ popped' \in Seq(Lines) /\ mode' \in Modes
      BY <2>0, <3>1, EmptyLine DEF Modes
    <3>3. CASE text' = text
      BY <1>2, <3>1, <3>2, <3>3, SameBuffer
    <3>4. CASE \E k \in 1 .. Len(text) - fed : text' = Without(k)
      <4>1. text' \in Seq(Chars) /\ fed <= Len(text') /\ fed \in Nat
        BY <1>2, <3>4, WithoutIs, ParserFacts
      <4>2. fed' \in 0 .. Len(text')
        BY <3>1, <4>1, LenProperties
      <4>3. /\ mem' \in Seq(Chars \cup {Unknown}) /\ size' \in 0 .. Len(mem')
            /\ \A i \in 1 .. size' : mem'[i] \in Chars
        BY <1>2, <3>1 DEF ParserTypeOK
      <4>4. QED
        BY <3>2, <4>1, <4>2, <4>3 DEF ParserTypeOK, Modes
    <3>5. QED
      BY <3>1, <3>3, <3>4
  <2>5. QED
    BY <1>2, <2>1, <2>2, <2>3, <2>4, ShellSteps
<1>3. QED
  BY <1>1, <1>2

\* The parser keeps its types: the live part of its buffer is within what
\* realloc gave it and has all been written, whatever is fed and consumed.
THEOREM ShellTyped == ShellSpec => []ParserTypeOK
BY ParserTyped, PTL DEF ShellSpec

-----------------------------------------------------------------------------
(* Why an assertion may fail.                                              *)

\* What BlankAt says of the live part, of any part.
Blank(i) == mem[i] \in {" ", "n", "r"} \/ (i > 1 /\ mem[i - 1] = "r")

\* Before the first word of a line there are only spaces and new lines.
OnlyBlanks == mode = "parse" /\ line = <<>> => pos <= size /\ \A i \in 1 .. pos : Blank(i)

\* What the crash leaves in the buffer.
CrashReason ==
  mode = "crashed" =>
    size >= 1 /\ (mem[size] \in {"r", " "} \/ \A i \in 1 .. size : Blank(i))

\* A new line parse_token sees at Start, or thinks it sees past the end.
LEMMA NewLineIs ==
  ASSUME ParserTypeOK, pos < size, NEW next, AtNewLine(next)
  PROVE  /\ next \in Nat
         /\ \/ Start < size /\ mem[Start + 1] = "n" /\ next = Start + 1
            \/ Start < size /\ mem[Start + 1] = "r" /\ next = Start + 2
            \/ Start = size /\ mem[size] = " "
<1>1. PICK c \in Seen \cap {"n", "r"} : next = Start + (IF c = "r" THEN 2 ELSE 1)
  BY DEF AtNewLine
<1>2. /\ Start \in Nat /\ pos <= Start /\ Start <= size /\ size \in Nat /\ pos \in Nat
      /\ pos < size
  BY StartIs, ParserFacts
<1>3. next \in Nat /\ (c = "r" => next = Start + 2) /\ (c = "n" => next = Start + 1)
  BY <1>1, <1>2
<1>4. CASE Start < size
  <2>1. Seen = {mem[Start + 1]}
    BY <1>4, StartIs
  <2>2. mem[Start + 1] = c
    BY <1>1, <2>1
  <2>3. c \in {"n", "r"}
    BY <1>1
  <2>4. QED
    BY <1>3, <1>4, <2>2, <2>3
<1>5. CASE Start = size
  <2>1. size \in pos + 1 .. Start
    BY <1>2, <1>5
  <2>2. mem[size] = " "
    BY <2>1, StartIs
  <2>3. QED
    BY <1>3, <1>5, <2>2
<1>6. Start < size \/ Start = size
  BY <1>2
<1>7. QED
  BY <1>4, <1>5, <1>6

\* The blanks reach as far as the new line.
LEMMA BlanksGrow ==
  ASSUME ParserTypeOK, OnlyBlanks, mode = "parse", line = <<>>, pos < size,
         NEW next, AtNewLine(next), Start < size
  PROVE  \A i \in 1 .. next : Blank(i)
<1>1. /\ Start \in Nat /\ pos <= Start /\ Start <= size /\ size \in Nat /\ pos \in Nat
  BY StartIs, ParserFacts
<1>2. /\ next \in Nat
      /\ \/ mem[Start + 1] = "n" /\ next = Start + 1
         \/ mem[Start + 1] = "r" /\ next = Start + 2
  <2>1. Start # size
    BY <1>1
  <2>2. QED
    BY <2>1, NewLineIs
<1>3. ASSUME NEW i \in 1 .. pos PROVE Blank(i)
  BY <1>3 DEF OnlyBlanks
<1>4. ASSUME NEW i \in pos + 1 .. Start PROVE Blank(i)
  <2>1. mem[i] = " "
    BY StartIs
  <2>2. QED
    BY <2>1 DEF Blank
<1>5. Blank(Start + 1)
  BY <1>2 DEF Blank
<1>6. ASSUME next = Start + 2, mem[Start + 1] = "r" PROVE Blank(Start + 2)
  <2>1. (Start + 2) - 1 = Start + 1 /\ Start + 2 > 1
    BY <1>1
  <2>2. mem[(Start + 2) - 1] = "r"
    BY <1>6, <2>1
  <2>3. QED
    BY <2>1, <2>2 DEF Blank
<1>7. next = Start + 1 \/ (next = Start + 2 /\ Blank(Start + 2))
  BY <1>2, <1>6
<1>8. ASSUME NEW i \in 1 .. next PROVE Blank(i)
  <2>1. i \in 1 .. pos \/ i \in pos + 1 .. Start \/ i = Start + 1 \/ (next = Start + 2 /\ i = Start + 2)
    BY <1>1, <1>7
  <2>2. QED
    BY <1>3, <1>4, <1>5, <1>7, <2>1
<1>9. QED
  BY <1>8

\* A step that leaves the buffer alone makes nothing blank.
LEMMA SameBlanks ==
  ASSUME mem' = mem, NEW i
  PROVE  Blank(i)' <=> Blank(i)
BY DEF Blank

\* Both invariants survive every step: only parse_token's own reading fails an
\* assertion of the parser.
LEMMA CrashReasonStep ==
  ASSUME ParserTypeOK, OnlyBlanks, CrashReason, [ShellNext]_shellVars
  PROVE  OnlyBlanks' /\ CrashReason'
<1>0. pos \in Nat /\ size \in Nat
  BY ParserFacts
<1>1. CASE Feed
  <2>1. mode' = "parse" /\ pos' = 0
    BY <1>1 DEF Feed, PopNext
  <2>2. PICK k \in Nat : size' = size + k
    BY <1>1, FeedIs
  <2>3. pos' <= size' /\ 1 .. pos' = {}
    BY <1>0, <2>1, <2>2
  <2>4. QED
    BY <2>1, <2>3 DEF OnlyBlanks, CrashReason
<1>2. CASE NoLine \/ EndOfInput
  <2>1. mode' \in {"read", "done"}
    BY <1>2 DEF NoLine, EndOfInput
  <2>2. QED
    BY <2>1 DEF OnlyBlanks, CrashReason
<1>3. ASSUME pos < size, NEW next \in Nexts,
             \/ Word(next) \/ PipeToken(next) \/ BlankLine(next) \/ EndOfLine(next)
             \/ SkipToken(next) \/ SkipLine(next) \/ ConsumeFails(next)
      PROVE  OnlyBlanks' /\ CrashReason'
  <2>0. next \in Nat
    BY NextsAreNat
  <2>a. pos < size
    BY <1>3
  <2>b. size >= 1
    BY <1>0, <2>a
  <2>1. CASE Word(next)
    <3>1. line \in Lines /\ SubSeq(mem, Start + 1, next) \in Words
      BY <1>3, <2>1, WordIs DEF Word, ParserTypeOK
    <3>2. line' # <<>> /\ mode' = "parse"
      BY <2>1, <3>1, LineGrows DEF Word
    <3>3. QED
      BY <3>2 DEF OnlyBlanks, CrashReason
  <2>2. CASE PipeToken(next)
    <3>1. line \in Seq(Seq(Words)) /\ Pipe \in Seq(Words)
      BY DEF ParserTypeOK, Lines, Pipe
    <3>2. Append(line, Pipe) # <<>>
      BY <3>1, AppendProperties
    <3>3. mode' = "skip" \/ (mode' = mode /\ mode = "parse" /\ line' = Append(line, Pipe))
      BY <2>2 DEF PipeToken
    <3>4. mode' # "crashed" /\ ~ (mode' = "parse" /\ line' = <<>>)
      BY <3>2, <3>3
    <3>5. QED
      BY <3>4 DEF OnlyBlanks, CrashReason
  <2>3. CASE BlankLine(next)
    <3>1. /\ mode = "parse" /\ AtNewLine(next) /\ line = <<>> /\ pos' = next
          /\ mode' = (IF next < size THEN mode ELSE "crashed")
          /\ mem' = mem /\ size' = size /\ line' = line
      BY <2>3 DEF BlankLine
    <3>2. Start \in Nat /\ Start <= size
      BY <1>3, StartIs
    <3>3. CASE Start < size
      <4>1. \A i \in 1 .. next : Blank(i)
        BY <1>3, <3>1, <3>3, BlanksGrow
      <4>2. \A i \in 1 .. next : Blank(i)'
        BY <3>1, <4>1, SameBlanks
      <4>3. CASE next < size
        <5>1. mode' = "parse" /\ pos' = next /\ next <= size'
          BY <2>0, <1>0, <3>1, <4>3
        <5>2. QED
          BY <4>2, <5>1 DEF OnlyBlanks, CrashReason
      <4>4. CASE ~ (next < size)
        <5>1. mode' = "crashed" /\ size' >= 1
          BY <1>0, <1>3, <3>1, <4>4
        <5>2. \A i \in 1 .. size' : i \in 1 .. next
          BY <1>0, <2>0, <3>1, <4>4
        <5>3. \A i \in 1 .. size' : Blank(i)'
          BY <4>2, <5>2
        <5>4. QED
          BY <5>1, <5>3 DEF OnlyBlanks, CrashReason
      <4>5. QED
        BY <4>3, <4>4
    <3>4. CASE Start = size
      <4>1. mem[size] = " "
        <5>1. ~ (Start < size)
          BY <1>0, <3>4
        <5>2. QED
          BY <1>3, <3>1, <5>1, NewLineIs
      <4>2. size >= 1 /\ mem'[size'] = " " /\ size' = size
        BY <2>b, <3>1, <4>1
      <4>3. ~ (next < size)
        <5>1. next > Start
          <6>1. PICK c \in Seen \cap {"n", "r"} : next = Start + (IF c = "r" THEN 2 ELSE 1)
            BY <3>1 DEF AtNewLine
          <6>2. QED
            BY <3>2, <6>1
        <5>2. QED
          BY <1>0, <2>0, <3>4, <5>1
      <4>4. mode' = "crashed"
        BY <3>1, <4>3
      <4>5. QED
        BY <4>2, <4>4 DEF OnlyBlanks, CrashReason
    <3>5. QED
      BY <1>0, <3>2, <3>3, <3>4
  <2>4. CASE EndOfLine(next) \/ SkipLine(next)
    <3>1. parser_consume(next) /\ (mode' = "execute" \/ (mode' = "parse" /\ pos' = 0))
      BY <2>4 DEF EndOfLine, SkipLine, PopNext
    <3>2. size' \in Nat
      BY <2>0, <3>1, ConsumeIs
    <3>3. mode' # "crashed"
      BY <3>1
    <3>4. mode' = "parse" => pos' <= size' /\ 1 .. pos' = {}
      BY <3>1, <3>2
    <3>5. QED
      BY <3>3, <3>4 DEF OnlyBlanks, CrashReason
  <2>5. CASE SkipToken(next)
    BY <2>5 DEF SkipToken, OnlyBlanks, CrashReason
  <2>6. CASE ConsumeFails(next)
    <3>1. AtNewLine(next) /\ next > size /\ mem' = mem /\ size' = size /\ mode' = "crashed"
      BY <2>6 DEF ConsumeFails
    <3>2. Start \in Nat /\ size >= 1
      BY <2>a, <2>b, StartIs
    <3>3. mem[size] \in {"r", " "}
      <4>1. CASE Start < size /\ mem[Start + 1] = "n" /\ next = Start + 1
        <5>1. Start < size /\ next = Start + 1 /\ next > size
          BY <3>1, <4>1
        <5>2. Start + 1 > size
          BY <5>1
        <5>3. ~ (Start < size)
          BY <1>0, <3>2, <5>2
        <5>4. QED
          BY <5>1, <5>3
      <4>2. CASE Start < size /\ mem[Start + 1] = "r" /\ next = Start + 2
        <5>1. Start + 1 = size
          BY <1>0, <3>1, <3>2, <4>2
        <5>2. QED
          BY <4>2, <5>1
      <4>3. QED
        BY <1>3, <3>1, <4>1, <4>2, NewLineIs
    <3>4. QED
      BY <3>1, <3>2, <3>3 DEF OnlyBlanks, CrashReason
  <2>7. QED
    BY <1>3, <2>1, <2>2, <2>3, <2>4, <2>5, <2>6
<1>4. CASE execute_cmd \/ Reap \/ LineDone \/ Command \/ UNCHANGED shellVars
  <2>1. /\ mem' = mem /\ size' = size
        /\ UNCHANGED <<pos, line, mode>> \/ (pos' = 0 /\ mode' = "parse")
    BY <1>4, OtherSteps
  <2>2. \A i \in 1 .. size : Blank(i)' <=> Blank(i)
    BY <2>1, SameBlanks
  <2>3. \A i \in 1 .. pos : Blank(i)' <=> Blank(i)
    BY <2>1, SameBlanks
  <2>4. CASE UNCHANGED <<pos, line, mode>>
    BY <2>1, <2>2, <2>3, <2>4 DEF OnlyBlanks, CrashReason
  <2>5. CASE pos' = 0 /\ mode' = "parse"
    <3>1. pos' <= size' /\ 1 .. pos' = {}
      BY <1>0, <2>1, <2>5
    <3>2. QED
      BY <2>5, <3>1 DEF OnlyBlanks, CrashReason
  <2>6. QED
    BY <2>1, <2>4, <2>5
<1>5. QED
  BY <1>1, <1>2, <1>3, <1>4, ShellSteps

\* Live is what is live.
LEMMA LiveIs ==
  ASSUME ParserTypeOK
  PROVE  \A i \in 1 .. size : Live[i] = mem[i]
<1>1. size \in Nat /\ \A i \in 1 .. size : mem[i] \in Chars
  BY ParserFacts
<1>2. \A i \in 1 .. size - 1 + 1 : SubSeq(mem, 1, size)[i] = mem[1 + i - 1]
  BY <1>1, SubSeqProperties
<1>3. ASSUME NEW i \in 1 .. size PROVE Live[i] = mem[i]
  <2>1. i \in 1 .. size - 1 + 1 /\ 1 + i - 1 = i
    BY <1>1
  <2>2. QED
    BY <1>2, <2>1 DEF Live
<1>4. QED
  BY <1>3

\* They are what CrashesOnlyThen says.
LEMMA CrashReasonShown ==
  ASSUME ParserTypeOK, CrashReason
  PROVE  CrashesOnlyThen
<1> SUFFICES ASSUME mode = "crashed"
             PROVE  Live[size] \in {"r", " "} \/ \A i \in 1 .. size : BlankAt(i)
  BY DEF CrashesOnlyThen
<1>a. size \in Nat
  BY ParserFacts
<1>b. size >= 1
  BY DEF CrashReason
<1>1. size \in Nat /\ size >= 1 /\ size \in 1 .. size
  BY <1>a, <1>b
<1>2. CASE mem[size] \in {"r", " "}
  BY <1>1, <1>2, LiveIs
<1>3. ASSUME \A i \in 1 .. size : Blank(i), NEW i \in 1 .. size PROVE BlankAt(i)
  <2>1. Live[i] = mem[i]
    BY LiveIs
  <2>2. i > 1 => i - 1 \in 1 .. size
    BY <1>1
  <2>3. i > 1 => Live[i - 1] = mem[i - 1]
    BY <2>2, LiveIs
  <2>4. QED
    BY <1>3, <2>1, <2>3 DEF Blank, BlankAt
<1>4. QED
  BY <1>2, <1>3 DEF CrashReason

\* Crashing is the only way, and only then.
THEOREM ShellCrashes == ShellSpec => []CrashesOnlyThen
<1>1. ShellInit => ParserTypeOK /\ OnlyBlanks /\ CrashReason
  <2> SUFFICES ASSUME ShellInit PROVE ParserTypeOK /\ OnlyBlanks /\ CrashReason
    OBVIOUS
  <2>1. mode = "read"
    BY DEF ShellInit, ParserInit
  <2>2. QED
    BY <2>1, ParserTyped DEF OnlyBlanks, CrashReason
<1>2. /\ ParserTypeOK /\ OnlyBlanks /\ CrashReason /\ [ShellNext]_shellVars
      => ParserTypeOK' /\ OnlyBlanks' /\ CrashReason'
  BY ParserTyped, CrashReasonStep
<1>3. ParserTypeOK /\ CrashReason => CrashesOnlyThen
  BY CrashReasonShown
<1>4. QED
  BY <1>1, <1>2, <1>3, PTL DEF ShellSpec

-----------------------------------------------------------------------------
(* The descriptors of a pipeline.                                          *)

\* What a descriptor may name, and a command that runs.
Entries == {"closed", "script", "terminal", "read", "write"} \X Nat
Tables  == [Fds -> Entries]
Commands == [fds : Tables, reads : {"nothing", "once", "all", "done"}, left : Nat, got : Nat, wrote : Nat]

\* What the shell starts with, and what it has while a pipe waits for its reader.
FirstFds == [f \in Fds |-> CASE f = 0 -> Script [] f \in {1, 2} -> Terminal [] OTHER -> Closed]
HoldsPipe(f, p) == fds = [FirstFds EXCEPT ![f] = ReadEnd(p)]
HoldsLast == input_fd \in {3, 4} /\ Len(pipes) >= 1 /\ HoldsPipe(input_fd, Len(pipes))
HoldsNone == fds = FirstFds /\ input_fd = 0

\* AfterPipeline, of the first k lines.
NoPipeUpTo(k) == \A i \in 1 .. k : Pipe \notin Range(popped[i])

\* Commands and pipes take turns.
Alternates(l) ==
  /\ l # <<>> => l[1] # Pipe
  /\ \A i \in 1 .. Len(l) - 1 : l[i] = Pipe <=> l[i + 1] # Pipe

\* The line that is executed is the last one popped, it is a pipeline, and cmd is
\* at a command of it, or past its end.
LineShape ==
  /\ mode \in {"parse", "execute"} => Alternates(line)
  /\ mode = "execute" =>
       /\ popped # <<>> /\ line = popped[Len(popped)]
       /\ line # <<>> /\ line[Len(line)] # Pipe
       /\ cmd \in Nat \ {0} /\ (cmd <= Len(line) => line[cmd] # Pipe)
       /\ child # NoChild => cmd <= Len(line)

\* Between two lines.
Idle == mode # "execute" => cmd = 1 /\ child = NoChild
Between ==
  mode # "execute" /\ NoPipeUpTo(Len(popped)) =>
    pipes \in Seq(Nat) /\ piped \in Nat /\ HoldsNone

\* Between two commands.
BetweenCommands ==
  child = NoChild =>
    /\ cmd = 1 \/ Len(line) = 1 => HoldsNone
    /\ cmd > 1 /\ cmd <= Len(line) => HoldsLast /\ pipes[Len(pipes)] = piped

\* The pipe a command reads, when it has one.
Its == IF is_next_pipe THEN Len(pipes) - 1 ELSE Len(pipes)

\* While a command runs: the shell holds the pipe it made for the next one, and
\* what has been read of the pipe before and what is left of it make `piped`.
WhileItRuns ==
  child # NoChild =>
    /\ child \in Commands
    /\ IF is_next_pipe
         THEN /\ HoldsLast
              /\ stdout = WriteEnd(Len(pipes)) /\ pipes[Len(pipes)] = child.wrote
         ELSE stdout = Terminal /\ (Len(line) = 1 => HoldsNone)
    /\ cmd = 1 => stdin = Script
    /\ cmd > 1 =>
         /\ Its \in 1 .. Len(pipes) /\ stdin = ReadEnd(Its)
         /\ pipes[Its] + child.got = piped
         /\ child.reads = "done" => pipes[Its] = 0

\* Both, until a line with a pipe is done: from then on the code loses track of
\* input_fd, and so does AfterPipeline.
Executing ==
  mode = "execute" /\ NoPipeUpTo(Len(popped) - 1) =>
    pipes \in Seq(Nat) /\ piped \in Nat /\ BetweenCommands /\ WhileItRuns

\* The inductive invariant of PipelineConnects.
Descriptors == LineShape /\ Idle /\ Between /\ Executing

\* A word starts a command or goes on with it; only a command is followed by a pipe.
LEMMA WordAlternates ==
  ASSUME line \in Lines, Alternates(line), NEW word \in Words
  PROVE  /\ EndsInCommand => Alternates([line EXCEPT ![Len(line)] = Append(@, word)])
         /\ ~EndsInCommand => Alternates(Append(line, <<word>>))
         /\ EndsInCommand => Alternates(Append(line, Pipe))
<1>0. line \in Seq(Seq(Words)) /\ Len(line) \in Nat /\ DOMAIN line = 1 .. Len(line)
  BY LenProperties DEF Lines
<1>1. ASSUME EndsInCommand PROVE Alternates([line EXCEPT ![Len(line)] = Append(@, word)])
  <2> DEFINE l == [line EXCEPT ![Len(line)] = Append(line[Len(line)], word)]
  <2>1. line # <<>> /\ line[Len(line)] # Pipe
    BY <1>1 DEF EndsInCommand
  <2>2. Len(line) \in 1 .. Len(line)
    BY <1>0, <2>1, EmptySeq
  <2>3. line[Len(line)] \in Seq(Words)
    BY <1>0, <2>2, ElementOfSeq
  <2>4. Append(line[Len(line)], word) \in Seq(Words) /\ Append(line[Len(line)], word) # <<>>
    BY <2>3, AppendProperties
  <2>5. /\ Len(l) = Len(line) /\ l \in Seq(Seq(Words))
        /\ \A j \in 1 .. Len(line) :
             l[j] = IF j = Len(line) THEN Append(line[Len(line)], word) ELSE line[j]
    BY <1>0, <2>2, <2>4, ExceptSeq
  <2> HIDE DEF l
  <2>6. ASSUME NEW j \in 1 .. Len(line) PROVE l[j] = Pipe <=> line[j] = Pipe
    BY <2>1, <2>4, <2>5 DEF Pipe
  <2>7. 1 \in 1 .. Len(line) /\ l[1] # Pipe
    <3>1. 1 \in 1 .. Len(line)
      BY <1>0, <2>2
    <3>2. line[1] # Pipe
      BY <2>1 DEF Alternates
    <3>3. QED
      BY <2>6, <3>1, <3>2
  <2>8. ASSUME NEW i \in 1 .. Len(line) - 1 PROVE l[i] = Pipe <=> l[i + 1] # Pipe
    <3>1. i \in 1 .. Len(line) /\ i + 1 \in 1 .. Len(line)
      BY <1>0
    <3>2. line[i] = Pipe <=> line[i + 1] # Pipe
      BY DEF Alternates
    <3>3. QED
      BY <2>6, <3>1, <3>2
  <2>9. Alternates(l)
    BY <2>5, <2>7, <2>8 DEF Alternates
  <2>10. QED
    BY <2>9 DEF l
<1>2. ASSUME NEW e \in Seq(Words), EndsInCommand <=> e = Pipe PROVE Alternates(Append(line, e))
  <2> DEFINE l == Append(line, e)
  <2>1. /\ Len(l) = Len(line) + 1 /\ l[Len(line) + 1] = e
        /\ \A i \in 1 .. Len(line) : l[i] = line[i]
    BY <1>0, AppendProperties
  <2> HIDE DEF l
  <2>2. l[1] # Pipe
    <3>1. CASE line = <<>>
      <4>1. Len(line) + 1 = 1 /\ ~EndsInCommand
        BY <3>1 DEF EndsInCommand
      <4>2. QED
        BY <1>2, <2>1, <4>1
    <3>2. CASE line # <<>>
      <4>1. 1 \in 1 .. Len(line)
        BY <1>0, <3>2, EmptySeq
      <4>2. QED
        BY <2>1, <3>2, <4>1 DEF Alternates
    <3>3. QED
      BY <3>1, <3>2
  <2>3. ASSUME NEW i \in 1 .. Len(l) - 1 PROVE l[i] = Pipe <=> l[i + 1] # Pipe
    <3>0. i \in 1 .. Len(line)
      BY <1>0, <2>1
    <3>1. CASE i = Len(line)
      <4>1. line # <<>>
        BY <3>0, <3>1
      <4>2. l[i] = line[Len(line)] /\ l[i + 1] = e
        BY <2>1, <3>0, <3>1
      <4>3. QED
        BY <1>2, <4>1, <4>2 DEF EndsInCommand
    <3>2. CASE i # Len(line)
      <4>1. i \in 1 .. Len(line) - 1 /\ i + 1 \in 1 .. Len(line)
        <5>1. Len(line) \in Nat
          BY <1>0
        <5>2. i \in Int /\ 1 <= i /\ i <= Len(line)
          BY <3>0, <5>1
        <5>3. i <= Len(line) - 1
          BY <3>2, <5>1, <5>2
        <5>4. QED
          BY <5>1, <5>2, <5>3
      <4>2. line[i] = Pipe <=> line[i + 1] # Pipe
        BY <4>1 DEF Alternates
      <4>3. QED
        BY <2>1, <3>0, <4>1, <4>2
    <3>3. QED
      BY <3>1, <3>2
  <2>4. QED
    BY <2>2, <2>3 DEF Alternates, l
<1>3. <<word>> \in Seq(Words) /\ <<word>> # Pipe /\ Pipe \in Seq(Words)
  BY DEF Pipe
<1>4. QED
  BY <1>1, <1>2, <1>3

\* A pipe follows a command unless the line ends, and a command follows a pipe.
LEMMA NextCommand ==
  ASSUME ParserTypeOK, LineShape, mode = "execute", cmd <= Len(line)
  PROVE  /\ Len(line) \in Nat /\ cmd \in Nat \ {0}
         /\ is_next_pipe <=> cmd < Len(line)
         /\ cmd < Len(line) => cmd + 2 <= Len(line) /\ line[cmd + 2] # Pipe
         /\ line[Len(line)] # Pipe
<1>1. Len(line) \in Nat
  BY LenProperties DEF ParserTypeOK, Lines
<1>2. cmd \in Nat \ {0} /\ line[cmd] # Pipe /\ line[Len(line)] # Pipe /\ Alternates(line)
  BY DEF LineShape
<1>3. ASSUME cmd < Len(line) PROVE line[cmd + 1] = Pipe
  <2>1. cmd \in 1 .. Len(line) - 1
    BY <1>1, <1>2, <1>3
  <2>2. QED
    BY <1>2, <2>1 DEF Alternates
<1>4. ASSUME cmd < Len(line) PROVE cmd + 2 <= Len(line) /\ line[cmd + 2] # Pipe
  <2>1. line[cmd + 1] = Pipe
    BY <1>3, <1>4
  <2>2. cmd + 1 # Len(line)
    BY <1>2, <2>1
  <2>3. cmd + 1 \in 1 .. Len(line) - 1 /\ (cmd + 1) + 1 = cmd + 2 /\ cmd + 2 <= Len(line)
    BY <1>1, <1>2, <1>4, <2>2
  <2>4. line[(cmd + 1) + 1] # Pipe
    BY <1>2, <2>1, <2>3 DEF Alternates
  <2>5. QED
    BY <2>3, <2>4
<1>5. QED
  BY <1>1, <1>2, <1>3, <1>4 DEF is_next_pipe

\* A line of several commands has a pipe in it.
LEMMA HasPipe ==
  ASSUME NEW l \in Lines, Alternates(l), Len(l) > 1
  PROVE  Pipe \in Range(l)
<1>1. Len(l) \in Nat /\ DOMAIN l = 1 .. Len(l) /\ l # <<>>
  BY LenProperties DEF Lines
<1>2. 1 \in 1 .. Len(l) - 1 /\ 1 + 1 \in 1 .. Len(l)
  BY <1>1
<1>3. l[1] # Pipe /\ (l[1] = Pipe <=> l[1 + 1] # Pipe)
  BY <1>1, <1>2 DEF Alternates
<1>4. QED
  BY <1>1, <1>2, <1>3 DEF Range

\* A command runs only while its line is executed.
LEMMA IdleStep ==
  ASSUME Idle, LineShape, [ShellNext]_shellVars
  PROVE  Idle'
<1>1. CASE UNCHANGED execVars /\ (mode = "execute" => mode' = "execute")
  BY <1>1 DEF Idle, execVars
<1>2. CASE Feed /\ UNCHANGED execVars
  BY <1>2, <1>1 DEF Feed
<1>3. CASE (NoLine \/ EndOfInput) /\ UNCHANGED execVars
  BY <1>3, <1>1 DEF NoLine, EndOfInput
<1>4. ASSUME UNCHANGED execVars, NEW next \in Nexts,
             \/ Word(next) \/ PipeToken(next) \/ BlankLine(next) \/ EndOfLine(next)
             \/ SkipToken(next) \/ SkipLine(next) \/ ConsumeFails(next)
      PROVE  Idle'
  <2>1. mode \in {"parse", "skip"}
    BY <1>4 DEF Word, PipeToken, BlankLine, EndOfLine, SkipToken, SkipLine, ConsumeFails
  <2>2. QED
    BY <1>1, <1>4, <2>1
<1>5. CASE execute_cmd
  <2>1. mode' = mode /\ mode = "execute"
    BY <1>5 DEF execute_cmd, parserVars
  <2>2. QED
    BY <2>1 DEF Idle
<1>6. CASE Reap
  <2>1. mode' = mode /\ child # NoChild
    BY <1>6 DEF Reap, parserVars
  <2>2. QED
    BY <2>1 DEF Idle
<1>7. CASE LineDone
  BY <1>7 DEF LineDone, Idle, NoChild
<1>8. CASE Command
  <2>1. child # NoChild
    BY <1>8 DEF Command, ReadPipe, ReadEnds, ReadScript, Write, Reading, NoChild
  <2>2. mode' = mode
    BY <1>8 DEF Command, ReadPipe, ReadEnds, ReadScript, Write, parserVars
  <2>3. QED
    BY <2>1, <2>2 DEF Idle
<1>9. CASE UNCHANGED shellVars
  <2>1. UNCHANGED execVars /\ mode' = mode
    BY <1>9 DEF shellVars, parserVars
  <2>2. QED
    BY <1>1, <2>1
<1>10. QED
  BY <1>2, <1>3, <1>4, <1>5, <1>6, <1>7, <1>8, <1>9, ShellSteps

\* Of what happens to the line only its shape matters.
LEMMA LineShapeStep ==
  ASSUME ParserTypeOK, LineShape, Idle, [ShellNext]_shellVars
  PROVE  LineShape'
<1>0. line \in Lines /\ popped \in Seq(Lines)
  BY DEF ParserTypeOK
<1>e. Alternates(<<>>)
  BY DEF Alternates
<1>1. CASE mode' \notin {"parse", "execute"}
  BY <1>1 DEF LineShape
<1>2. CASE mode' = "parse" /\ Alternates(line')
  BY <1>2 DEF LineShape, Alternates
<1>3. CASE Feed \/ NoLine \/ EndOfInput \/ LineDone
  <2>1. \/ line' = <<>> /\ mode' = "parse"
        \/ mode' \in {"read", "done"}
    BY <1>3 DEF Feed, NoLine, EndOfInput, LineDone, PopNext
  <2>2. QED
    BY <1>e, <1>1, <1>2, <2>1
<1>4. ASSUME pos < size, UNCHANGED execVars, NEW next \in Nexts,
             \/ Word(next) \/ PipeToken(next) \/ BlankLine(next) \/ EndOfLine(next)
             \/ SkipToken(next) \/ SkipLine(next) \/ ConsumeFails(next)
      PROVE  LineShape'
  <2>1. CASE Word(next)
    <3>1. SubSeq(mem, Start + 1, next) \in Words /\ Alternates(line) /\ mode' = "parse"
      BY <1>4, <2>1, WordIs DEF Word, LineShape
    <3>2. Alternates(line')
      BY <1>0, <2>1, <3>1, WordAlternates DEF Word
    <3>3. QED
      BY <1>2, <3>1, <3>2
  <2>2. CASE PipeToken(next)
    <3>1. CASE EndsInCommand
      <4>1. mode' = "parse" /\ line' = Append(line, Pipe) /\ Alternates(line)
        BY <2>2, <3>1 DEF PipeToken, LineShape
      <4>2. <<>> \in Words
        BY DEF Words
      <4>3. Alternates(line')
        BY <1>0, <3>1, <4>1, <4>2, WordAlternates
      <4>4. QED
        BY <1>2, <4>1, <4>3
    <3>2. CASE ~EndsInCommand
      BY <1>1, <2>2, <3>2 DEF PipeToken
    <3>3. QED
      BY <3>1, <3>2
  <2>3. CASE BlankLine(next) \/ SkipToken(next) \/ ConsumeFails(next)
    <3>1. mode' \notin {"parse", "execute"} \/ (mode = "parse" /\ mode' = "parse" /\ line' = line)
      BY <2>3 DEF BlankLine, SkipToken, ConsumeFails
    <3>2. QED
      BY <1>1, <1>2, <3>1 DEF LineShape
  <2>4. CASE SkipLine(next) \/ (EndOfLine(next) /\ ~EndsInCommand)
    BY <1>e, <1>2, <2>4 DEF SkipLine, EndOfLine, PopNext
  <2>5. CASE EndOfLine(next) /\ EndsInCommand
    <3>1. /\ mode = "parse" /\ line' = line /\ popped' = Append(popped, line)
          /\ mode' = "execute" /\ cmd' = cmd /\ child' = child
      BY <1>4, <2>5 DEF EndOfLine, execVars
    <3>2. /\ Alternates(line) /\ cmd = 1 /\ child = NoChild
      BY <3>1 DEF LineShape, Idle
    <3>3. line # <<>> /\ line[Len(line)] # Pipe
      BY <2>5 DEF EndsInCommand
    <3>4. /\ Len(popped') = Len(popped) + 1 /\ popped'[Len(popped) + 1] = line
          /\ popped' # <<>>
      BY <1>0, <3>1, AppendProperties
    <3>5. Alternates(line') /\ line'[1] # Pipe
      BY <3>1, <3>2, <3>3 DEF Alternates
    <3>6. QED
      BY <3>1, <3>2, <3>3, <3>4, <3>5 DEF LineShape, Alternates, NoChild
  <2>6. QED
    BY <1>4, <2>1, <2>2, <2>3, <2>4, <2>5
<1>5. CASE execute_cmd \/ Reap
  <2>1. /\ mode = "execute" /\ cmd <= Len(line)
        /\ mode' = mode /\ line' = line /\ popped' = popped
        /\ \/ cmd' = cmd
           \/ cmd' = cmd + 2 /\ child' = NoChild
    <3>1. CASE execute_cmd
      BY <3>1 DEF execute_cmd, parserVars
    <3>2. CASE Reap
      BY <3>2 DEF Reap, parserVars, Idle, LineShape
    <3>3. QED
      BY <1>5, <3>1, <3>2
  <2>2. /\ cmd \in Nat \ {0} /\ Len(line) \in Nat /\ line[cmd] # Pipe
        /\ cmd < Len(line) => cmd + 2 <= Len(line) /\ line[cmd + 2] # Pipe
    BY <2>1, NextCommand DEF LineShape
  <2>3. /\ cmd' \in Nat \ {0} /\ (cmd' <= Len(line) => line[cmd'] # Pipe)
    BY <2>1, <2>2
  <2>4. child' # NoChild => cmd' <= Len(line)
    BY <2>1
  <2>5. /\ popped # <<>> /\ line = popped[Len(popped)] /\ Alternates(line)
        /\ line # <<>> /\ line[Len(line)] # Pipe
    BY <2>1 DEF LineShape
  <2>6. QED
    BY <2>1, <2>3, <2>4, <2>5 DEF LineShape, Alternates, NoChild
<1>6. CASE Command \/ UNCHANGED shellVars
  <2>1. mode' = mode /\ line' = line /\ popped' = popped /\ cmd' = cmd
    <3>1. CASE Command
      BY <3>1 DEF Command, ReadPipe, ReadEnds, ReadScript, Write, parserVars
    <3>2. CASE UNCHANGED shellVars
      BY <3>2 DEF shellVars, parserVars, execVars
    <3>3. QED
      BY <1>6, <3>1, <3>2
  <2>2. child' # NoChild => child # NoChild
    <3>1. CASE Command
      BY <3>1 DEF Command, ReadPipe, ReadEnds, ReadScript, Write, Reading, NoChild
    <3>2. CASE UNCHANGED shellVars
      BY <3>2 DEF shellVars, execVars
    <3>3. QED
      BY <1>6, <3>1, <3>2
  <2>3. QED
    BY <2>1, <2>2 DEF LineShape, Alternates, NoChild
<1>7. QED
  BY <1>3, <1>4, <1>5, <1>6, ShellSteps

\* The kinds of descriptors differ, and where the shell keeps its own.
LEMMA FirstFdsAre ==
  /\ FirstFds \in Tables
  /\ FirstFds[0] = Script /\ FirstFds[1] = Terminal /\ FirstFds[2] = Terminal
  /\ \A f \in 3 .. 9 : FirstFds[f] = Closed
  /\ Script # Closed /\ Terminal # Closed /\ Script # Terminal /\ Script[1] = "script"
  /\ Terminal[1] = "terminal"
  /\ \A p : /\ ReadEnd(p) \notin {Closed, Script, Terminal} /\ ReadEnd(p)[1] = "read"
            /\ WriteEnd(p) \notin {Closed, Script, Terminal} /\ WriteEnd(p)[1] = "write"
            /\ ReadEnd(p)[2] = p /\ WriteEnd(p)[2] = p
  /\ \A p \in Nat : ReadEnd(p) \in Entries /\ WriteEnd(p) \in Entries
  /\ Closed \in Entries
<1>1. /\ Script # Closed /\ Terminal # Closed /\ Script # Terminal /\ Script[1] = "script"
      /\ Terminal[1] = "terminal"
  BY DEF Script, Terminal, Closed
<1>2. \A p : /\ ReadEnd(p) \notin {Closed, Script, Terminal} /\ ReadEnd(p)[1] = "read"
            /\ WriteEnd(p) \notin {Closed, Script, Terminal} /\ WriteEnd(p)[1] = "write"
            /\ ReadEnd(p)[2] = p /\ WriteEnd(p)[2] = p
  BY DEF Script, Terminal, Closed, ReadEnd, WriteEnd
<1>3. \A p \in Nat : ReadEnd(p) \in Entries /\ WriteEnd(p) \in Entries
  BY DEF ReadEnd, WriteEnd, Entries
<1>4. Closed \in Entries /\ Script \in Entries /\ Terminal \in Entries
  BY DEF Closed, Script, Terminal, Entries
<1>5. ASSUME NEW f \in Fds PROVE FirstFds[f] \in Entries
  <2>1. FirstFds[f] \in {Script, Terminal, Closed}
    BY DEF FirstFds
  <2>2. QED
    BY <1>4, <2>1
<1>6. FirstFds \in Tables
  BY <1>5 DEF FirstFds, Tables
<1>7. /\ FirstFds[0] = Script /\ FirstFds[1] = Terminal /\ FirstFds[2] = Terminal
      /\ \A f \in 3 .. 9 : FirstFds[f] = Closed
  BY DEF FirstFds, Fds
<1>8. QED
  BY <1>1, <1>2, <1>3, <1>4, <1>6, <1>7

\* A table whose entries 0, 1, 2 and f are the only ones in use.
LEMMA FreeFds ==
  ASSUME NEW f \in {0, 3, 4}, \A g \in Fds : fds[g] = Closed <=> g \notin {0, 1, 2, f}
  PROVE  /\ fildes[1] = (IF f = 3 THEN 4 ELSE 3)
         /\ fildes[2] = (IF f = 0 THEN 4 ELSE 5)
<1> DEFINE A == {g \in Fds : fds[g] = Closed}
<1>1. A = {g \in Fds : g \notin {0, 1, 2, f}}
  OBVIOUS
<1>2. A \in SUBSET Nat /\ (IF f = 3 THEN 4 ELSE 3) \in A /\ \A g \in A : (IF f = 3 THEN 4 ELSE 3) <= g
  BY <1>1 DEF Fds
<1>3. Min(A) \in A /\ \A y \in A : Min(A) <= y
  BY <1>2, MinIs
<1>4. Min(A) = IF f = 3 THEN 4 ELSE 3
  BY <1>2, <1>3
<1>5. Lowest = IF f = 3 THEN 4 ELSE 3
  BY <1>4 DEF Lowest
<1> DEFINE B == {g \in Fds : fds[g] = Closed /\ g # Lowest}
<1>6. B = {g \in Fds : g \notin {0, 1, 2, f} /\ g # (IF f = 3 THEN 4 ELSE 3)}
  BY <1>5
<1>7. B \in SUBSET Nat /\ (IF f = 0 THEN 4 ELSE 5) \in B /\ \A g \in B : (IF f = 0 THEN 4 ELSE 5) <= g
  BY <1>6 DEF Fds
<1>8. Min(B) \in B /\ \A y \in B : Min(B) <= y
  BY <1>7, MinIs
<1>9. Min(B) = IF f = 0 THEN 4 ELSE 5
  BY <1>7, <1>8
<1>10. QED
  BY <1>5, <1>9 DEF fildes

\* The first command of a line: what it inherits, and what the shell keeps.
LEMMA FirstForks ==
  ASSUME HoldsNone, Len(pipes) \in Nat
  PROVE  /\ ChildFds \in Tables /\ ChildFds[0] = Script
         /\ is_next_pipe =>
              /\ ChildFds[1] = WriteEnd(NewPipe)
              /\ NextInput = 3 /\ ParentFds = [FirstFds EXCEPT ![3] = ReadEnd(NewPipe)]
         /\ ~is_next_pipe =>
              ChildFds[1] = Terminal /\ NextInput = 0 /\ ParentFds = FirstFds
<1>1. fds = FirstFds /\ input_fd = 0
  BY DEF HoldsNone
<1>2. CASE ~is_next_pipe
  <2>1. ChildFds = FirstFds /\ ParentFds = FirstFds /\ NextInput = 0
    BY <1>1, <1>2 DEF ChildFds, ParentFds, NextInput, WithPipe
  <2>2. QED
    BY <1>2, <2>1, FirstFdsAre
<1>3. CASE is_next_pipe
  <2>1. \A g \in Fds : fds[g] = Closed <=> g \notin {0, 1, 2, 0}
    BY <1>1, FirstFdsAre DEF Fds
  <2>2. fildes[1] = 3 /\ fildes[2] = 4
    BY <2>1, FreeFds
  <2> DEFINE T == [FirstFds EXCEPT ![3] = ReadEnd(NewPipe), ![4] = WriteEnd(NewPipe)]
  <2>3. WithPipe = T
    BY <1>1, <1>3, <2>2 DEF WithPipe
  <2>4. NewPipe \in Nat
    BY DEF NewPipe
  <2>5. T \in Tables /\ T[4] = WriteEnd(NewPipe) /\ T[0] = Script
    BY <2>4, FirstFdsAre DEF Tables, Fds
  <2>6. T[4] # Closed
    BY <2>5, FirstFdsAre
  <2>7. dup2(T, 4, 1) = [T EXCEPT ![1] = T[4]]
    BY <2>6 DEF dup2
  <2>8. ChildFds = [[[T EXCEPT ![1] = T[4]] EXCEPT ![3] = Closed] EXCEPT ![4] = Closed]
    BY <1>1, <1>3, <2>2, <2>3, <2>7 DEF ChildFds, close
  <2>9. ParentFds = [T EXCEPT ![4] = Closed] /\ NextInput = 3
    BY <1>1, <1>3, <2>2, <2>3 DEF ParentFds, NextInput, close
  <2> HIDE DEF T
  <2>10. ChildFds \in Tables /\ ChildFds[0] = Script /\ ChildFds[1] = WriteEnd(NewPipe)
    BY <2>5, <2>8, FirstFdsAre DEF Tables, Fds
  <2>11. [T EXCEPT ![4] = Closed] = [FirstFds EXCEPT ![3] = ReadEnd(NewPipe)]
    BY FirstFdsAre DEF T, Tables, Fds
  <2>12. QED
    BY <1>3, <2>9, <2>10, <2>11
<1>4. QED
  BY <1>2, <1>3

\* A later command reads the pipe the shell holds.
LEMMA LaterForks ==
  ASSUME HoldsLast, Len(pipes) \in Nat
  PROVE  /\ ChildFds \in Tables /\ ChildFds[0] = ReadEnd(Len(pipes))
         /\ is_next_pipe =>
              /\ ChildFds[1] = WriteEnd(NewPipe) /\ NextInput \in {3, 4}
              /\ ParentFds = [FirstFds EXCEPT ![NextInput] = ReadEnd(NewPipe)]
         /\ ~is_next_pipe => ChildFds[1] = Terminal
<1> DEFINE f == input_fd
           P == ReadEnd(Len(pipes))
<1>1. f \in {3, 4} /\ fds = [FirstFds EXCEPT ![f] = P] /\ f # 0
  BY DEF HoldsLast, HoldsPipe
<1>2. P # Closed /\ P \in Entries
  BY FirstFdsAre
<1> HIDE DEF P
<1>3. fds \in Tables /\ fds[f] = P /\ fds[1] = Terminal
  BY <1>1, <1>2, FirstFdsAre DEF Tables, Fds
<1>4. CASE ~is_next_pipe
  <2>1. WithPipe = fds
    BY <1>4 DEF WithPipe
  <2>2. ChildFds = close(dup2(fds, f, 0), f)
    BY <1>1, <1>4, <2>1 DEF ChildFds
  <2>3. ChildFds = [[fds EXCEPT ![0] = fds[f]] EXCEPT ![f] = Closed]
    BY <1>2, <1>3, <2>2 DEF close, dup2
  <2>4. ChildFds \in Tables /\ ChildFds[0] = P /\ ChildFds[1] = Terminal
    BY <1>1, <1>2, <1>3, <2>3, FirstFdsAre DEF Tables, Fds
  <2>5. QED
    BY <1>4, <2>4 DEF P
<1>5. CASE is_next_pipe
  <2>1. \A g \in Fds : fds[g] = Closed <=> g \notin {0, 1, 2, f}
    BY <1>1, <1>2, FirstFdsAre DEF Fds, Tables
  <2> DEFINE h == IF f = 3 THEN 4 ELSE 3
             R == ReadEnd(NewPipe)
             W == WriteEnd(NewPipe)
  <2>2. fildes[1] = h /\ fildes[2] = 5 /\ h \in {3, 4} /\ h # f
    BY <1>1, <2>1, FreeFds
  <2>4. NewPipe \in Nat
    BY DEF NewPipe
  <2>a. R \in Entries /\ W \in Entries /\ R # Closed /\ W # Closed
    BY <2>4, FirstFdsAre
  <2> DEFINE T == [fds EXCEPT ![h] = R, ![5] = W]
  <2>3. WithPipe = T
    BY <1>5, <2>2 DEF WithPipe
  <2>5. ChildFds = close(close(dup2(close(dup2(T, f, 0), f), 5, 1), h), 5)
    BY <1>1, <1>5, <2>2, <2>3 DEF ChildFds
  <2>6. ParentFds = close(close(T, f), 5) /\ NextInput = h
    BY <1>1, <1>5, <2>2, <2>3 DEF ParentFds, NextInput
  <2> HIDE DEF R, W, h
  <2>7. T \in Tables /\ T[f] = P /\ T[5] = W /\ T[h] = R
    BY <1>1, <1>3, <2>2, <2>a DEF Tables, Fds
  <2> HIDE DEF T
  <2> DEFINE U == [[T EXCEPT ![0] = T[f]] EXCEPT ![f] = Closed]
  <2>8. close(dup2(T, f, 0), f) = U
    BY <1>2, <2>7 DEF close, dup2
  <2>9. U \in Tables /\ U[0] = P /\ U[5] = W
    BY <1>1, <1>2, <2>2, <2>7, FirstFdsAre DEF Tables, Fds
  <2> HIDE DEF U
  <2>10. ChildFds = [[[U EXCEPT ![1] = U[5]] EXCEPT ![h] = Closed] EXCEPT ![5] = Closed]
    BY <2>5, <2>8, <2>9, <2>a DEF close, dup2
  <2>11. ChildFds \in Tables /\ ChildFds[0] = P /\ ChildFds[1] = W
    BY <2>2, <2>9, <2>10, <2>a, FirstFdsAre DEF Tables, Fds
  <2>12. [[T EXCEPT ![f] = Closed] EXCEPT ![5] = Closed] = [FirstFds EXCEPT ![h] = R]
    BY <1>1, <2>2, <2>a, FirstFdsAre DEF T, Tables, Fds
  <2>13. QED
    BY <1>5, <2>2, <2>6, <2>11, <2>12 DEF close, P, R, W
<1>6. QED
  BY <1>4, <1>5

\* The state of the descriptors while a line is executed.
Shared == pipes \in Seq(Nat) /\ piped \in Nat /\ BetweenCommands /\ WhileItRuns

\* execute_cmd forks a command whose stdin is the pipe before it and whose stdout
\* is the pipe after it.
LEMMA NewCommand ==
  ASSUME ParserTypeOK, LineShape, Shared, execute_cmd
  PROVE  Shared'
<1>0. /\ pipes \in Seq(Nat) /\ Len(pipes) \in Nat /\ piped \in Nat
      /\ mode = "execute" /\ child = NoChild /\ cmd <= Len(line)
      /\ line' = line /\ fds' = ParentFds /\ input_fd' = NextInput
      /\ pipes' = IF is_next_pipe THEN Append(pipes, 0) ELSE pipes
  BY LenProperties DEF Shared, execute_cmd, parserVars
<1>1. /\ Len(line) \in Nat /\ cmd \in Nat \ {0}
      /\ is_next_pipe <=> cmd < Len(line)
      /\ cmd < Len(line) => cmd + 2 <= Len(line) /\ line[cmd + 2] # Pipe
  BY <1>0, NextCommand
<1>2. /\ cmd = 1 => HoldsNone
      /\ cmd > 1 => HoldsLast /\ pipes[Len(pipes)] = piped
  BY <1>0 DEF Shared, BetweenCommands
<1>3. cmd = 1 \/ cmd > 1
  BY <1>1
<1>4. /\ ChildFds \in Tables
      /\ cmd = 1 => ChildFds[0] = Script
      /\ cmd > 1 => ChildFds[0] = ReadEnd(Len(pipes))
      /\ is_next_pipe => ChildFds[1] = WriteEnd(NewPipe)
      /\ ~is_next_pipe => ChildFds[1] = Terminal
  BY <1>0, <1>2, <1>3, FirstForks, LaterForks
<1>5. is_next_pipe => /\ NextInput \in {3, 4}
                      /\ ParentFds = [FirstFds EXCEPT ![NextInput] = ReadEnd(NewPipe)]
  BY <1>0, <1>2, <1>3, FirstForks, LaterForks
<1>6. cmd = 1 /\ ~is_next_pipe => ParentFds = FirstFds /\ NextInput = 0
  BY <1>0, <1>2, FirstForks
<1>7. pipes' \in Seq(Nat) /\ Len(pipes') \in Nat
  <2>1. 0 \in Nat
    OBVIOUS
  <2>2. Append(pipes, 0) \in Seq(Nat)
    BY <1>0, <2>1, AppendProperties
  <2>3. pipes' \in Seq(Nat)
    BY <1>0, <2>2
  <2>4. QED
    BY <2>3, LenProperties
<1>8. /\ is_next_pipe => Len(pipes') = NewPipe /\ pipes'[Len(pipes')] = 0
      /\ ~is_next_pipe => pipes' = pipes
      /\ cmd > 1 => pipes'[Len(pipes)] = piped /\ Len(pipes) >= 1 /\ Len(pipes) \in 1 .. Len(pipes')
  <2>1. CASE is_next_pipe
    <3>1. /\ Len(pipes') = Len(pipes) + 1 /\ pipes'[Len(pipes) + 1] = 0
          /\ \A i \in 1 .. Len(pipes) : pipes'[i] = pipes[i]
      BY <1>0, <2>1, AppendProperties
    <3>2. cmd > 1 => Len(pipes) >= 1 /\ Len(pipes) \in 1 .. Len(pipes)
      BY <1>0, <1>2 DEF HoldsLast
    <3>3. QED
      BY <1>0, <1>2, <2>1, <3>1, <3>2 DEF NewPipe
  <2>2. CASE ~is_next_pipe
    <3>2. cmd > 1 => Len(pipes) >= 1 /\ Len(pipes) \in 1 .. Len(pipes)
      BY <1>0, <1>2 DEF HoldsLast
    <3>3. QED
      BY <1>0, <1>2, <2>2, <3>2
  <2>3. QED
    BY <2>1, <2>2
<1>9. is_next_pipe => HoldsLast'
  <2>1. is_next_pipe => Len(pipes') >= 1
    BY <1>0, <1>8 DEF NewPipe
  <2>2. QED
    BY <1>0, <1>5, <1>8, <2>1 DEF HoldsLast, HoldsPipe
<1>10. Len(line) = 1 => HoldsNone'
  <2>1. Len(line) = 1 => cmd = 1 /\ ~is_next_pipe
    BY <1>0, <1>1
  <2>2. QED
    BY <1>0, <1>6, <2>1 DEF HoldsNone
<1>11. ASSUME cmd' = cmd, piped' = piped,
              NEW r \in {"nothing", "once", "all"}, NEW n \in 0 .. MaxOutput,
              child' = [fds |-> ChildFds, reads |-> r, left |-> n, got |-> 0, wrote |-> 0]
       PROVE  Shared'
  <2>1. child'.reads = r /\ r # "done" /\ NoChild.reads = "done"
    BY <1>11 DEF NoChild
  <2>2. child' # NoChild
    BY <2>1
  <2>a. n \in Nat
    BY LimitsAssumption
  <2>3. child' \in Commands
    BY <1>4, <1>11, <2>a DEF Commands
  <2>4. is_next_pipe' <=> is_next_pipe
    BY <1>0, <1>11 DEF is_next_pipe
  <2>5. stdin' = ChildFds[0] /\ stdout' = ChildFds[1] /\ child'.wrote = 0 /\ child'.got = 0
    BY <1>11 DEF stdin, stdout
  <2>6. Its' = Len(pipes)
    <3>1. is_next_pipe => (Len(pipes) + 1) - 1 = Len(pipes)
      BY <1>0
    <3>2. QED
      BY <1>8, <2>4, <3>1 DEF Its, NewPipe
  <2>7. IF is_next_pipe'
          THEN /\ HoldsLast'
               /\ stdout' = WriteEnd(Len(pipes')) /\ pipes'[Len(pipes')] = child'.wrote
          ELSE stdout' = Terminal /\ (Len(line') = 1 => HoldsNone')
    BY <1>0, <1>4, <1>8, <1>9, <1>10, <2>4, <2>5
  <2>8. cmd' > 1 => /\ Its' \in 1 .. Len(pipes') /\ stdin' = ReadEnd(Its')
                    /\ pipes'[Its'] + child'.got = piped'
    BY <1>0, <1>4, <1>8, <1>11, <2>5, <2>6
  <2>9. cmd' = 1 => stdin' = Script
    BY <1>4, <1>11, <2>5
  <2>10. WhileItRuns'
    BY <2>1, <2>3, <2>7, <2>8, <2>9 DEF WhileItRuns
  <2>11. BetweenCommands'
    BY <2>2 DEF BetweenCommands, NoChild
  <2>12. QED
    BY <1>0, <1>7, <1>11, <2>10, <2>11 DEF Shared
<1>12. ASSUME piped' = 0, cmd' = cmd + 2, child' = child
       PROVE  Shared'
  <2>1. cmd' > 1 /\ cmd' # 1
    BY <1>1, <1>12
  <2>2. cmd' <= Len(line) => is_next_pipe
    BY <1>1, <1>12
  <2>3. BetweenCommands'
    BY <1>0, <1>8, <1>9, <1>10, <1>12, <2>1, <2>2 DEF BetweenCommands, NoChild
  <2>4. WhileItRuns'
    BY <1>0, <1>12 DEF WhileItRuns, NoChild
  <2>5. QED
    BY <1>7, <1>12, <2>3, <2>4 DEF Shared
<1>13. QED
  BY <1>11, <1>12 DEF execute_cmd

\* When a command has been waited for, its pipe has what it wrote, for the next.
LEMMA CommandEnds ==
  ASSUME ParserTypeOK, LineShape, mode = "execute", Shared, Reap
  PROVE  Shared'
<1>0. /\ child # NoChild /\ piped' = child.wrote /\ cmd' = cmd + 2 /\ child' = NoChild
      /\ line' = line /\ fds' = fds /\ input_fd' = input_fd /\ pipes' = pipes
  BY DEF Reap, parserVars
<1>1. cmd <= Len(line)
  BY <1>0 DEF LineShape
<1>2. /\ Len(line) \in Nat /\ cmd \in Nat \ {0} /\ (is_next_pipe <=> cmd < Len(line))
      /\ cmd < Len(line) => cmd + 2 <= Len(line)
  BY <1>1, NextCommand
<1>3. /\ child.wrote \in Nat
      /\ is_next_pipe => HoldsLast /\ pipes[Len(pipes)] = child.wrote
      /\ ~is_next_pipe /\ Len(line) = 1 => HoldsNone
  BY <1>0 DEF Shared, WhileItRuns, Commands
<1>4. cmd' > 1 /\ cmd' # 1 /\ (cmd' <= Len(line) => is_next_pipe)
      /\ (Len(line) = 1 => ~is_next_pipe)
  <2>1. cmd + 2 > 1 /\ cmd + 2 # 1 /\ (cmd + 2 <= Len(line) => cmd < Len(line))
    BY <1>2
  <2>2. Len(line) = 1 => ~ (cmd < Len(line))
    BY <1>2
  <2>3. QED
    BY <1>0, <1>2, <2>1, <2>2
<1>5. BetweenCommands'
  BY <1>0, <1>3, <1>4 DEF BetweenCommands, HoldsNone, HoldsLast, HoldsPipe, NoChild
<1>6. WhileItRuns'
  BY <1>0 DEF WhileItRuns, NoChild
<1>7. QED
  BY <1>0, <1>3, <1>5, <1>6 DEF Shared

\* What a command does to the pipes and to itself.
LEMMA CommandRuns ==
  ASSUME ParserTypeOK, LineShape, mode = "execute", Shared, Command
  PROVE  Shared'
<1>1. /\ child # NoChild
      /\ line' = line /\ fds' = fds /\ input_fd' = input_fd /\ cmd' = cmd /\ piped' = piped
      /\ child'.fds = child.fds
  <2>1. child # NoChild
    BY DEF Command, ReadPipe, ReadEnds, ReadScript, Write, Reading, NoChild
  <2>2. child \in Commands
    BY <2>1 DEF Shared, WhileItRuns
  <2>3. QED
    BY <2>1, <2>2 DEF Command, ReadPipe, ReadEnds, ReadScript, Write, parserVars, Commands
<1>2. cmd <= Len(line)
  BY <1>1 DEF LineShape
<1>3. /\ Len(line) \in Nat /\ cmd \in Nat \ {0} /\ (is_next_pipe <=> cmd < Len(line))
  BY <1>2, NextCommand
<1>4. /\ child \in Commands
      /\ pipes \in Seq(Nat) /\ Len(pipes) \in Nat /\ piped \in Nat
      /\ is_next_pipe => /\ HoldsLast
                         /\ stdout = WriteEnd(Len(pipes)) /\ pipes[Len(pipes)] = child.wrote
      /\ ~is_next_pipe => stdout = Terminal /\ (Len(line) = 1 => HoldsNone)
      /\ cmd = 1 => stdin = Script
      /\ cmd > 1 => /\ Its \in 1 .. Len(pipes) /\ stdin = ReadEnd(Its)
                    /\ pipes[Its] + child.got = piped
                    /\ child.reads = "done" => pipes[Its] = 0
  BY <1>1, LenProperties DEF Shared, WhileItRuns
<1>5. cmd = 1 \/ cmd > 1
  BY <1>3
<1>6. is_next_pipe' = is_next_pipe /\ stdin' = stdin /\ stdout' = stdout
  BY <1>1 DEF is_next_pipe, stdin, stdout
<1>7. child' \in Commands /\ child' # NoChild
  <2>1. child' \in Commands
    <3>0. child \in Commands
      BY <1>4
    <3>1. CASE ReadPipe
      <4>1. PICK r \in {"nothing", "once", "all", "done"} :
              child' = [child EXCEPT !.got = child.got + 1, !.reads = r]
        <5>1. (IF child.reads = "once" THEN "nothing" ELSE child.reads)
                \in {"nothing", "once", "all", "done"}
          BY <3>0 DEF Commands
        <5>2. QED
          BY <3>1, <5>1 DEF ReadPipe
      <4>2. child.got + 1 \in Nat
        BY <3>0 DEF Commands
      <4>3. QED
        BY <3>0, <4>1, <4>2 DEF Commands
    <3>2. CASE ReadEnds
      BY <3>0, <3>2 DEF ReadEnds, Commands
    <3>3. CASE ReadScript
      <4>1. PICK r \in {"nothing", "once", "all", "done"} : child' = [child EXCEPT !.reads = r]
        <5>1. (IF child.reads = "once" THEN "nothing" ELSE child.reads)
                \in {"nothing", "once", "all", "done"}
          BY <3>0 DEF Commands
        <5>2. QED
          BY <3>3, <5>1 DEF ReadScript
      <4>2. QED
        BY <3>0, <4>1 DEF Commands
    <3>4. CASE Write
      <4>1. child.left - 1 \in Nat /\ child.wrote + 1 \in Nat
        BY <3>0, <3>4 DEF Write, Commands
      <4>2. child' = [child EXCEPT !.left = child.left - 1, !.wrote = child.wrote + 1]
        BY <3>4 DEF Write
      <4>3. QED
        BY <3>0, <4>1, <4>2 DEF Commands
    <3>5. QED
      BY <3>1, <3>2, <3>3, <3>4 DEF Command
  <2>2. 0 \in DOMAIN child'.fds
    BY <2>1 DEF Commands, Tables, Fds
  <2>3. 0 \notin DOMAIN NoChild.fds
    BY DEF NoChild
  <2>4. QED
    BY <2>1, <2>2, <2>3
<1>8. BetweenCommands'
  BY <1>7 DEF BetweenCommands, NoChild
<1>9. ASSUME pipes' \in Seq(Nat), Len(pipes') = Len(pipes),
             is_next_pipe => pipes'[Len(pipes)] = child'.wrote,
             cmd > 1 => /\ pipes'[Its] + child'.got = piped
                        /\ child'.reads = "done" => pipes'[Its] = 0
      PROVE  Shared'
  <2>1. Its' = Its
    BY <1>6, <1>9 DEF Its
  <2>2. HoldsLast => HoldsLast'
    BY <1>1, <1>9 DEF HoldsLast, HoldsPipe
  <2>3. HoldsNone => HoldsNone'
    BY <1>1 DEF HoldsNone
  <2>4. WhileItRuns'
    BY <1>1, <1>4, <1>6, <1>7, <1>9, <2>1, <2>2, <2>3 DEF WhileItRuns
  <2>5. QED
    BY <1>1, <1>4, <1>8, <1>9, <2>4 DEF Shared
<1>10. \A i \in 1 .. Len(pipes) : pipes[i] \in Nat
  BY <1>4, ElementOfSeq
<1>11. CASE ReadPipe
  <2>1. /\ stdin[1] = "read" /\ pipes[stdin[2]] > 0 /\ Reading
        /\ pipes' = [pipes EXCEPT ![stdin[2]] = @ - 1]
        /\ child' = [child EXCEPT !.got = @ + 1,
                            !.reads = IF @ = "once" THEN "nothing" ELSE @]
    BY <1>11 DEF ReadPipe
  <2>2. cmd > 1 /\ stdin[2] = Its /\ Its \in 1 .. Len(pipes)
    BY <1>4, <1>5, <2>1, FirstFdsAre
  <2>3. pipes[Its] \in Nat /\ pipes[Its] > 0
    BY <1>10, <2>1, <2>2
  <2>4. pipes[Its] - 1 \in Nat
    BY <2>3
  <2>5. pipes' = [pipes EXCEPT ![Its] = pipes[Its] - 1]
    BY <2>1, <2>2
  <2>6. /\ pipes' \in Seq(Nat) /\ Len(pipes') = Len(pipes)
        /\ \A j \in 1 .. Len(pipes) : pipes'[j] = IF j = Its THEN pipes[Its] - 1 ELSE pipes[j]
    BY <1>4, <2>2, <2>4, <2>5, ExceptSeq
  <2>7. child'.wrote = child.wrote /\ child'.got = child.got + 1 /\ child'.reads # "done"
    BY <1>4, <2>1 DEF Commands, Reading
  <2>8. pipes'[Its] + child'.got = piped
    <3>1. pipes'[Its] = pipes[Its] - 1
      BY <2>2, <2>6
    <3>2. child.got \in Nat
      BY <1>4 DEF Commands
    <3>3. QED
      BY <1>4, <2>2, <2>3, <2>7, <3>1, <3>2
  <2>9. is_next_pipe => Its # Len(pipes) /\ Len(pipes) \in 1 .. Len(pipes)
    BY <1>4, <2>2 DEF Its
  <2>10. is_next_pipe => pipes'[Len(pipes)] = child'.wrote
    BY <1>4, <2>6, <2>7, <2>9
  <2>11. QED
    BY <1>9, <2>6, <2>7, <2>8, <2>10
<1>12. CASE ReadEnds
  <2>1. /\ pipes' = pipes /\ child' = [child EXCEPT !.reads = "done"]
        /\ \/ stdin[1] = "write"
           \/ stdin[1] = "read" /\ pipes[stdin[2]] = 0
    BY <1>12 DEF ReadEnds
  <2>2. cmd > 1 => pipes[Its] = 0
    BY <1>4, <2>1, FirstFdsAre
  <2>3. child'.wrote = child.wrote /\ child'.got = child.got
    BY <1>4, <2>1 DEF Commands
  <2>4. QED
    BY <1>4, <1>9, <2>1, <2>2, <2>3
<1>13. CASE ReadScript
  <2>1. /\ stdin = Script /\ pipes' = pipes
        /\ \E r : child' = [child EXCEPT !.reads = r]
    BY <1>13 DEF ReadScript
  <2>2. ~ (cmd > 1)
    BY <1>4, <2>1, FirstFdsAre
  <2>3. child'.wrote = child.wrote
    BY <1>4, <2>1 DEF Commands
  <2>4. QED
    BY <1>4, <1>9, <2>1, <2>2, <2>3
<1>14. CASE Write
  <2>1. /\ child.left > 0 /\ child' = [child EXCEPT !.left = @ - 1, !.wrote = @ + 1]
        /\ \/ stdout = Terminal /\ pipes' = pipes
           \/ /\ stdout[1] = "write"
              /\ pipes' = [pipes EXCEPT ![stdout[2]] = @ + 1]
    BY <1>14 DEF Write
  <2>2. /\ child'.wrote = child.wrote + 1 /\ child'.got = child.got /\ child'.reads = child.reads
        /\ child.wrote \in Nat
    BY <1>4, <2>1 DEF Commands
  <2>3. CASE ~is_next_pipe
    <3>1. pipes' = pipes
      BY <1>4, <2>1, <2>3, FirstFdsAre
    <3>2. QED
      BY <1>4, <1>9, <2>2, <2>3, <3>1
  <2>4. CASE is_next_pipe
    <3>1. /\ stdout # Terminal /\ stdout[2] = Len(pipes) /\ pipes[Len(pipes)] = child.wrote
          /\ Len(pipes) \in 1 .. Len(pipes)
      BY <1>4, <2>4, FirstFdsAre DEF HoldsLast
    <3>2. pipes' = [pipes EXCEPT ![Len(pipes)] = child.wrote + 1]
      BY <2>1, <3>1
    <3>a. child.wrote + 1 \in Nat
      BY <2>2
    <3>3. /\ pipes' \in Seq(Nat) /\ Len(pipes') = Len(pipes)
          /\ \A j \in 1 .. Len(pipes) :
               pipes'[j] = IF j = Len(pipes) THEN child.wrote + 1 ELSE pipes[j]
      BY <1>4, <3>1, <3>2, <3>a, ExceptSeq
    <3>4. pipes'[Len(pipes)] = child'.wrote
      BY <2>2, <3>1, <3>3
    <3>5. cmd > 1 => Its # Len(pipes) /\ Its \in 1 .. Len(pipes)
      BY <1>4, <2>4 DEF Its
    <3>6. cmd > 1 => pipes'[Its] = pipes[Its]
      BY <3>3, <3>5
    <3>7. QED
      BY <1>4, <1>9, <2>2, <3>3, <3>4, <3>6
  <2>5. QED
    BY <2>3, <2>4
<1>15. QED
  BY <1>11, <1>12, <1>13, <1>14 DEF Command

\* Steps of the parser change no descriptor; they may pop a line.
LEMMA ParserDescriptors ==
  ASSUME ParserTypeOK, Descriptors, Parser, UNCHANGED execVars
  PROVE  Between' /\ Executing'
<1>1. mode # "execute" /\ cmd = 1 /\ child = NoChild /\ popped \in Seq(Lines)
      /\ cmd' = cmd /\ child' = child
  BY DEF Parser, Feed, EndOfInput, parser_pop_next, NoLine, Word, PipeToken, BlankLine,
         EndOfLine, SkipToken, SkipLine, ConsumeFails, Descriptors, Idle, execVars, ParserTypeOK
<1>2. \/ popped' = popped /\ mode' # "execute"
      \/ popped' = Append(popped, line) /\ mode' = "execute"
  BY <1>1 DEF Parser, Feed, EndOfInput, parser_pop_next, NoLine, Word, PipeToken, BlankLine,
         EndOfLine, SkipToken, SkipLine, ConsumeFails, PopNext
<1>3. NoPipeUpTo(Len(popped)) => pipes' \in Seq(Nat) /\ piped' \in Nat /\ HoldsNone'
  BY <1>1 DEF Descriptors, Between, HoldsNone, execVars
<1>4. CASE popped' = popped /\ mode' # "execute"
  <2>1. NoPipeUpTo(Len(popped))' <=> NoPipeUpTo(Len(popped))
    BY <1>4 DEF NoPipeUpTo
  <2>2. QED
    BY <1>3, <1>4, <2>1 DEF Between, Executing
<1>5. CASE popped' = Append(popped, line) /\ mode' = "execute"
  <2>1. /\ Len(popped') = Len(popped) + 1 /\ Len(popped) \in Nat
        /\ \A i \in 1 .. Len(popped) : popped'[i] = popped[i]
    BY <1>1, <1>5, AppendProperties, LenProperties DEF ParserTypeOK
  <2>2. Len(popped') - 1 = Len(popped)
    BY <2>1
  <2>3. ASSUME NoPipeUpTo(Len(popped) - 1)' PROVE Shared'
    <3>1. NoPipeUpTo(Len(popped))
      BY <2>1, <2>2, <2>3 DEF NoPipeUpTo
    <3>2. /\ pipes' \in Seq(Nat) /\ piped' \in Nat /\ HoldsNone'
      BY <1>3, <3>1
    <3>3. BetweenCommands' /\ WhileItRuns'
      BY <1>1, <3>2 DEF BetweenCommands, WhileItRuns, NoChild
    <3>4. QED
      BY <3>2, <3>3 DEF Shared
  <2>4. QED
    BY <1>5, <2>3 DEF Between, Executing, Shared
<1>6. QED
  BY <1>2, <1>4, <1>5

\* The descriptors are the shell's own again once a line without a pipe is done.
LEMMA DoneDescriptors ==
  ASSUME ParserTypeOK, Descriptors, LineDone
  PROVE  Between' /\ Executing'
<1>1. /\ mode = "execute" /\ child = NoChild /\ cmd > Len(line) /\ mode' = "parse"
      /\ popped' = popped /\ UNCHANGED <<fds, input_fd, pipes, child, piped>>
  BY DEF LineDone, PopNext
<1>2. /\ popped # <<>> /\ line = popped[Len(popped)] /\ line # <<>> /\ Alternates(line)
      /\ popped \in Seq(Lines) /\ line \in Lines
  BY <1>1 DEF Descriptors, LineShape, ParserTypeOK
<1>3. Len(popped) \in Nat /\ Len(popped) \in 1 .. Len(popped) /\ Len(line) \in Nat
      /\ Len(line) # 0
  BY <1>2, LenProperties, EmptySeq DEF Lines
<1>4. ASSUME NoPipeUpTo(Len(popped))
      PROVE  pipes \in Seq(Nat) /\ piped \in Nat /\ HoldsNone
  <2>1. NoPipeUpTo(Len(popped) - 1)
    BY <1>3, <1>4 DEF NoPipeUpTo
  <2>2. Pipe \notin Range(line)
    BY <1>2, <1>3, <1>4 DEF NoPipeUpTo
  <2>3. ~ (Len(line) > 1)
    BY <1>2, <2>2, HasPipe
  <2>4. Len(line) = 1
    BY <1>3, <2>3
  <2>5. QED
    BY <1>1, <2>1, <2>4 DEF Descriptors, Executing, BetweenCommands
<1>5. NoPipeUpTo(Len(popped))' <=> NoPipeUpTo(Len(popped))
  BY <1>1 DEF NoPipeUpTo
<1>6. QED
  BY <1>1, <1>4, <1>5 DEF Between, Executing, HoldsNone

\* Descriptors survives every step of the shell and of its command.
LEMMA DescriptorsStep ==
  ASSUME ParserTypeOK, Descriptors, [ShellNext]_shellVars
  PROVE  Descriptors'
<1>1. LineShape' /\ Idle'
  BY IdleStep, LineShapeStep DEF Descriptors
<1>2. CASE Parser /\ UNCHANGED execVars
  BY <1>1, <1>2, ParserDescriptors DEF Descriptors
<1>3. CASE LineDone
  BY <1>1, <1>3, DoneDescriptors DEF Descriptors
<1>4. CASE execute_cmd \/ Reap \/ Command
  <2>1. mode = "execute"
    <3>1. CASE execute_cmd
      BY <3>1 DEF execute_cmd
    <3>2. CASE Reap \/ Command
      <4>1. child # NoChild
        BY <3>2 DEF Reap, Command, ReadPipe, ReadEnds, ReadScript, Write, Reading, NoChild
      <4>2. QED
        BY <4>1 DEF Descriptors, Idle
    <3>3. QED
      BY <1>4, <3>1, <3>2
  <2>2. mode' = mode /\ popped' = popped
    BY <1>4 DEF execute_cmd, Reap, Command, ReadPipe, ReadEnds, ReadScript, Write, parserVars
  <2>3. NoPipeUpTo(Len(popped) - 1)' <=> NoPipeUpTo(Len(popped) - 1)
    BY <2>2 DEF NoPipeUpTo
  <2>4. NoPipeUpTo(Len(popped) - 1) => Shared
    BY <2>1 DEF Descriptors, Executing, Shared
  <2>5. Shared => Shared'
    BY <1>4, <2>1, NewCommand, CommandEnds, CommandRuns DEF Descriptors
  <2>6. Executing'
    BY <2>3, <2>4, <2>5 DEF Executing, Shared
  <2>7. Between'
    BY <2>1, <2>2 DEF Between
  <2>8. QED
    BY <1>1, <2>6, <2>7 DEF Descriptors
<1>5. CASE UNCHANGED shellVars
  <2>1. Between' /\ Executing'
    BY <1>5 DEF shellVars, parserVars, execVars, Descriptors, Between, Executing, HoldsNone,
                HoldsLast, HoldsPipe, NoPipeUpTo, BetweenCommands, WhileItRuns, Its,
                is_next_pipe, stdin, stdout, NoChild
  <2>2. QED
    BY <1>1, <2>1 DEF Descriptors
<1>6. QED
  BY <1>2, <1>3, <1>4, <1>5 DEF ShellNext, TheShell

\* The shell starts with the script, the terminal and no pipe.
LEMMA DescriptorsInit ==
  ASSUME ShellInit
  PROVE  Descriptors
<1>1. /\ mode = "read" /\ popped = <<>> /\ cmd = 1 /\ child = NoChild /\ pipes = <<>>
      /\ piped = 0 /\ HoldsNone
  BY DEF ShellInit, ParserInit, HoldsNone, FirstFds
<1>2. QED
  BY <1>1 DEF Descriptors, LineShape, Idle, Between, Executing, NoChild

\* Descriptors implies PipelineConnects.
LEMMA DescriptorsShow ==
  ASSUME ParserTypeOK, Descriptors
  PROVE  PipelineConnects
<1> SUFFICES ASSUME child # NoChild, cmd > 1, ~AfterPipeline
             PROVE  stdin # Script /\ (child.reads = "done" => child.got = piped)
  BY DEF PipelineConnects
<1>1. mode = "execute"
  BY DEF Descriptors, Idle
<1>2. NoPipeUpTo(Len(popped) - 1)
  BY DEF AfterPipeline, NoPipeUpTo
<1>3. /\ child \in Commands /\ stdin = ReadEnd(Its) /\ piped \in Nat
      /\ pipes[Its] + child.got = piped
      /\ child.reads = "done" => pipes[Its] = 0
  BY <1>1, <1>2 DEF Descriptors, Executing, WhileItRuns
<1>4. child.got \in Nat
  BY <1>3 DEF Commands
<1>5. QED
  BY <1>3, <1>4, FirstFdsAre

\* Every command but the first reads exactly what the one before it wrote.
THEOREM ShellConnects == ShellSpec => []PipelineConnects
<1>1. ShellInit => ParserTypeOK /\ Descriptors
  BY ParserTyped, DescriptorsInit
<1>2. ParserTypeOK /\ Descriptors /\ [ShellNext]_shellVars => ParserTypeOK' /\ Descriptors'
  BY ParserTyped, DescriptorsStep
<1>3. ParserTypeOK /\ Descriptors => PipelineConnects
  BY DescriptorsShow
<1>4. QED
  BY <1>1, <1>2, <1>3, PTL DEF ShellSpec

-----------------------------------------------------------------------------
(* What a script says, character by character.                             *)

\* The states of the one who reads a script character by character.
Readers == [lines : Seq(Lines), line : Lines, word : Words, cr : BOOLEAN]

\* A word added to a line makes a line.
LEMMA AddWordIs ==
  ASSUME NEW l \in Lines, NEW w \in Words
  PROVE  AddWord(l, w) \in Lines
<1>1. l \in Seq(Seq(Words)) /\ <<w>> \in Seq(Words)
  BY DEF Lines
<1>2. CASE l # <<>> /\ l[Len(l)] # Pipe
  <2>1. Len(l) \in 1 .. Len(l)
    BY <1>1, <1>2, EmptySeq, LenProperties
  <2>2. l[Len(l)] \in Seq(Words)
    BY <1>1, <2>1, ElementOfSeq
  <2>3. Append(l[Len(l)], w) \in Seq(Words)
    BY <2>2, AppendProperties
  <2>4. [l EXCEPT ![Len(l)] = Append(l[Len(l)], w)] \in Seq(Seq(Words))
    BY <1>1, <2>1, <2>3, ExceptSeq
  <2>5. QED
    BY <1>2, <2>4 DEF AddWord, Lines
<1>3. CASE ~ (l # <<>> /\ l[Len(l)] # Pipe)
  <2>1. Append(l, <<w>>) \in Seq(Seq(Words))
    BY <1>1, AppendProperties
  <2>2. AddWord(l, w) = Append(l, <<w>>)
    BY <1>3 DEF AddWord
  <2>3. QED
    BY <2>1, <2>2 DEF Lines
<1>4. QED
  BY <1>2, <1>3

\* The end of a word changes the line only if there was a word.
LEMMA EndWordIs ==
  ASSUME NEW s \in Readers
  PROVE  /\ EndWord(s) \in Readers
         /\ EndWord(s).lines = s.lines /\ EndWord(s).cr = s.cr /\ EndWord(s).word = <<>>
         /\ s.word = <<>> => EndWord(s) = s
         /\ s.word # <<>> => EndWord(s).line = AddWord(s.line, s.word)
<1>1. s.line \in Lines /\ s.word \in Words /\ <<>> \in Words
  BY DEF Readers, Words
<1>2. CASE s.word = <<>>
  <2>1. EndWord(s) = s
    BY <1>2 DEF EndWord
  <2>2. QED
    BY <1>2, <2>1 DEF Readers
<1>3. CASE s.word # <<>>
  <2> DEFINE l == AddWord(s.line, s.word)
  <2>1. l \in Lines
    BY <1>1, AddWordIs
  <2>2. EndWord(s) = [s EXCEPT !.word = <<>>, !.line = l]
    BY <1>3 DEF EndWord
  <2> HIDE DEF l
  <2>3. /\ EndWord(s) \in Readers
        /\ EndWord(s).lines = s.lines /\ EndWord(s).cr = s.cr /\ EndWord(s).word = <<>>
        /\ EndWord(s).line = l
    BY <1>1, <2>1, <2>2 DEF Readers
  <2>4. QED
    BY <1>3, <2>3 DEF l
<1>4. QED
  BY <1>2, <1>3

\* The end of a line adds it to the lines if it is a pipeline.
LEMMA EndLineIs ==
  ASSUME NEW s \in Readers
  PROVE  /\ EndLine(s) \in Readers
         /\ EndLine(s).word = s.word /\ EndLine(s).cr = s.cr /\ EndLine(s).line = <<>>
         /\ EndLine(s).lines = IF IsPipeline(s.line) THEN Append(s.lines, s.line) ELSE s.lines
<1>1. s.lines \in Seq(Lines) /\ s.line \in Lines
  BY DEF Readers
<1> DEFINE L == IF IsPipeline(s.line) THEN Append(s.lines, s.line) ELSE s.lines
<1>2. L \in Seq(Lines)
  BY <1>1, AppendProperties
<1>3. EndLine(s) = [s EXCEPT !.lines = L, !.line = <<>>]
  BY DEF EndLine
<1> HIDE DEF L
<1>4. QED
  <2>1. /\ EndLine(s) \in Readers
        /\ EndLine(s).word = s.word /\ EndLine(s).cr = s.cr /\ EndLine(s).line = <<>>
        /\ EndLine(s).lines = L
    BY <1>2, <1>3, EmptyLine DEF Readers
  <2>2. QED
    BY <2>1 DEF L

\* One character.
LEMMA TakeIs ==
  ASSUME NEW s \in Readers, NEW c \in Chars
  PROVE  /\ Take(s, c) \in Readers
         /\ s.cr => Take(s, c) = [s EXCEPT !.cr = FALSE]
         /\ ~s.cr /\ c = "n" => Take(s, c) = [EndLine(EndWord(s)) EXCEPT !.cr = FALSE]
         /\ ~s.cr /\ c = "r" => Take(s, c) = [EndLine(EndWord(s)) EXCEPT !.cr = TRUE]
         /\ ~s.cr /\ c = " " => Take(s, c) = EndWord(s)
         /\ ~s.cr /\ c = "|" /\ s.word = <<>> => Take(s, c) = [s EXCEPT !.line = Append(s.line, Pipe)]
         /\ ~s.cr /\ (c = "a" \/ (c = "|" /\ s.word # <<>>)) =>
              Take(s, c) = [s EXCEPT !.word = Append(s.word, c)]
<1>1. s.cr \in BOOLEAN /\ s.line \in Lines /\ s.word \in Words
  BY DEF Readers
<1>2. s.cr => Take(s, c) = [s EXCEPT !.cr = FALSE]
  BY DEF Take
<1>3. ~s.cr /\ c = "n" => Take(s, c) = [EndLine(EndWord(s)) EXCEPT !.cr = FALSE]
  BY DEF Take
<1>4. ~s.cr /\ c = "r" => Take(s, c) = [EndLine(EndWord(s)) EXCEPT !.cr = TRUE]
  BY DEF Take
<1>5. ~s.cr /\ c = " " => Take(s, c) = EndWord(s)
  BY DEF Take
<1>6. ~s.cr /\ c = "|" /\ s.word = <<>> => Take(s, c) = [s EXCEPT !.line = Append(s.line, Pipe)]
  BY DEF Take
<1>7. ~s.cr /\ (c = "a" \/ (c = "|" /\ s.word # <<>>)) =>
              Take(s, c) = [s EXCEPT !.word = Append(s.word, c)]
  BY DEF Take
<1>8. EndWord(s) \in Readers /\ EndLine(EndWord(s)) \in Readers
  BY EndWordIs, EndLineIs
<1>9. Append(s.line, Pipe) \in Lines
  <2>1. Pipe \in Seq(Words) /\ s.line \in Seq(Seq(Words))
    BY <1>1 DEF Pipe, Lines
  <2>2. QED
    BY <2>1, AppendProperties DEF Lines
<1>10. Append(s.word, c) \in Words
  BY <1>1, AppendProperties DEF Words
<1>11. c \in {"n", "r", " ", "|", "a"}
  BY DEF Chars
<1>a. CASE s.cr
  BY <1>2, <1>a DEF Readers
<1>b. CASE ~s.cr /\ c \in {"n", "r", " "}
  BY <1>3, <1>4, <1>5, <1>8, <1>b DEF Readers
<1>c. CASE ~s.cr /\ c = "|" /\ s.word = <<>>
  BY <1>6, <1>9, <1>c DEF Readers
<1>d. CASE ~s.cr /\ (c = "a" \/ (c = "|" /\ s.word # <<>>))
  BY <1>7, <1>10, <1>d DEF Readers
<1>12. Take(s, c) \in Readers
  BY <1>1, <1>11, <1>a, <1>b, <1>c, <1>d
<1>13. QED
  BY <1>2, <1>3, <1>4, <1>5, <1>6, <1>7, <1>12

\* Take keeps to those states, and they start with Nothing.
LEMMA TakeTyped == \A s \in Readers : \A c \in Chars : Take(s, c) \in Readers
BY TakeIs

LEMMA NothingIs == Nothing \in Readers
<1>1. <<>> \in Seq(Lines) /\ <<>> \in Lines /\ <<>> \in Words
  BY EmptyLine DEF Words
<1>2. QED
  BY <1>1 DEF Nothing, Readers

\* A reading of the first m characters.
ReadingOf(f, t, m) ==
  f = [n \in 0 .. m |-> IF n = 0 THEN Nothing ELSE Take(f[n - 1], t[n])]

\* A reading of the first m characters extends to the next one.
LEMMA ReadingStep ==
  ASSUME NEW t \in Seq(Chars), NEW m \in Nat, m < Len(t), NEW f, ReadingOf(f, t, m),
         f[m] \in Readers
  PROVE  \E g : ReadingOf(g, t, m + 1) /\ g[m + 1] \in Readers
<1> DEFINE g == [n \in 0 .. m + 1 |-> IF n = m + 1 THEN Take(f[m], t[m + 1]) ELSE f[n]]
<1>1. g[m + 1] = Take(f[m], t[m + 1]) /\ \A n \in 0 .. m : g[n] = f[n]
  OBVIOUS
<1>2. t[m + 1] \in Chars
  <2>1. m + 1 \in 1 .. Len(t)
    BY LenProperties
  <2>2. QED
    BY <2>1, ElementOfSeq
<1>3. g[m + 1] \in Readers
  BY <1>1, <1>2, TakeTyped
<1>4. ASSUME NEW n \in 0 .. m + 1
      PROVE  g[n] = IF n = 0 THEN Nothing ELSE Take(g[n - 1], t[n])
  <2>1. CASE n = m + 1
    <3>1. n - 1 = m /\ n # 0 /\ m \in 0 .. m
      BY <2>1
    <3>2. g[n - 1] = f[m]
      BY <1>1, <3>1
    <3>3. QED
      BY <1>1, <2>1, <3>1, <3>2
  <2>2. CASE n # m + 1
    <3>1. n \in 0 .. m
      BY <2>2
    <3>2. f[n] = IF n = 0 THEN Nothing ELSE Take(f[n - 1], t[n])
      BY <3>1 DEF ReadingOf
    <3>3. n # 0 => n - 1 \in 0 .. m
      BY <3>1
    <3>4. n # 0 => g[n - 1] = f[n - 1]
      BY <1>1, <3>3
    <3>5. g[n] = f[n]
      BY <1>1, <3>1
    <3>6. QED
      BY <3>2, <3>4, <3>5
  <2>3. QED
    BY <2>1, <2>2
<1>5. ReadingOf(g, t, m + 1)
  BY <1>4 DEF ReadingOf
<1>6. QED
  BY <1>3, <1>5

\* So the script has a reading.
LEMMA ReadingExists ==
  ASSUME NEW t \in Seq(Chars)
  PROVE  \E f : ReadingOf(f, t, Len(t))
<1> DEFINE A == {m \in Nat : m <= Len(t) => \E f : ReadingOf(f, t, m) /\ f[m] \in Readers}
<1>0. Len(t) \in Nat
  BY LenProperties
<1>1. 0 \in A
  <2> DEFINE f == [n \in 0 .. 0 |-> Nothing]
  <2>1. f[0] = Nothing
    OBVIOUS
  <2>2. ASSUME NEW n \in 0 .. 0 PROVE n = 0
    OBVIOUS
  <2>3. f = [n \in 0 .. 0 |-> IF n = 0 THEN Nothing ELSE Take(f[n - 1], t[n])]
    BY <2>2
  <2>4. ReadingOf(f, t, 0)
    BY <2>3 DEF ReadingOf
  <2>5. QED
    BY <2>1, <2>4, NothingIs
<1>2. ASSUME NEW m \in A PROVE m + 1 \in A
  <2> SUFFICES ASSUME m + 1 <= Len(t)
               PROVE  \E g : ReadingOf(g, t, m + 1) /\ g[m + 1] \in Readers
    OBVIOUS
  <2>1. m \in Nat /\ m < Len(t) /\ m <= Len(t)
    BY <1>0
  <2>2. PICK f : ReadingOf(f, t, m) /\ f[m] \in Readers
    BY <2>1
  <2>3. QED
    BY <2>1, <2>2, ReadingStep
<1>3. A \in SUBSET Nat
  OBVIOUS
<1> HIDE DEF A
<1>4. A = Nat
  BY <1>1, <1>2, <1>3, SetInduction
<1>5. Len(t) \in A
  BY <1>0, <1>4
<1>6. QED
  BY <1>0, <1>5 DEF A

\* Readings(t) is the reading of all of t: the recursion has a solution.
LEMMA ReadingsAre ==
  ASSUME NEW t \in Seq(Chars)
  PROVE  ReadingOf(Readings(t), t, Len(t))
<1>1. PICK f : ReadingOf(f, t, Len(t))
  BY ReadingExists
<1>2. Readings(t) =
        CHOOSE g : g = [n \in 0 .. Len(t) |-> IF n = 0 THEN Nothing ELSE Take(g[n - 1], t[n])]
  BY DEF Readings
<1>3. QED
  BY <1>1, <1>2 DEF ReadingOf

\* What is understood after n characters of the script.
After(n) == Readings(text)[n]

\* After steps by Take.
LEMMA AfterIs ==
  ASSUME text \in Seq(Chars)
  PROVE  /\ After(0) = Nothing
         /\ \A n \in Nat : n < Len(text) => After(n + 1) = Take(After(n), text[n + 1])
<1> DEFINE f == Readings(text)
<1>1. f = [n \in 0 .. Len(text) |-> IF n = 0 THEN Nothing ELSE Take(f[n - 1], text[n])]
  BY ReadingsAre DEF ReadingOf
<1>2. Len(text) \in Nat
  BY LenProperties
<1> HIDE DEF f
<1>3. f[0] = Nothing
  <2>1. 0 \in 0 .. Len(text)
    BY <1>2
  <2>2. QED
    BY <1>1, <2>1
<1>4. ASSUME NEW n \in Nat, n < Len(text) PROVE f[n + 1] = Take(f[n], text[n + 1])
  <2>1. n + 1 \in 0 .. Len(text) /\ n + 1 # 0 /\ (n + 1) - 1 = n
    BY <1>2, <1>4
  <2>2. QED
    BY <1>1, <2>1
<1>5. QED
  BY <1>3, <1>4 DEF After, f

\* And so never leaves the states of a reader.
LEMMA AfterTyped ==
  ASSUME text \in Seq(Chars)
  PROVE  \A n \in Nat : n <= Len(text) => After(n) \in Readers
<1> DEFINE A == {n \in Nat : n <= Len(text) => After(n) \in Readers}
<1>1. 0 \in A
  BY AfterIs, NothingIs
<1>2. ASSUME NEW n \in A PROVE n + 1 \in A
  <2> SUFFICES ASSUME n + 1 <= Len(text) PROVE After(n + 1) \in Readers
    OBVIOUS
  <2>1. Len(text) \in Nat /\ n \in Nat /\ n < Len(text)
    BY LenProperties
  <2>2. After(n) \in Readers
    BY <2>1
  <2>3. n + 1 \in 1 .. Len(text)
    BY <2>1
  <2>4. text[n + 1] \in Chars
    BY <2>3, ElementOfSeq
  <2>5. After(n + 1) = Take(After(n), text[n + 1])
    BY <2>1, AfterIs
  <2>6. QED
    BY <2>2, <2>4, <2>5, TakeTyped
<1>3. A \in SUBSET Nat
  OBVIOUS
<1> HIDE DEF A
<1>4. A = Nat
  BY <1>1, <1>2, <1>3, SetInduction
<1>5. QED
  BY <1>4 DEF A

\* Induction from one number to another.
LEMMA Along ==
  ASSUME NEW a \in Nat, NEW b \in Nat, a <= b, NEW A \in SUBSET Nat, a \in A,
         \A n \in A : a <= n /\ n < b => n + 1 \in A
  PROVE  b \in A
<1> DEFINE B == {j \in Nat : a + j <= b => a + j \in A}
<1>1. B \in SUBSET Nat /\ 0 \in B
  OBVIOUS
<1>2. ASSUME NEW j \in B PROVE j + 1 \in B
  <2> SUFFICES ASSUME a + (j + 1) <= b PROVE a + (j + 1) \in A
    OBVIOUS
  <2>1. a + j \in A /\ a <= a + j /\ a + j < b /\ (a + j) + 1 = a + (j + 1)
    OBVIOUS
  <2>2. QED
    BY <2>1
<1>3. b - a \in Nat /\ a + (b - a) = b /\ b <= b
  OBVIOUS
<1> HIDE DEF B
<1>4. B = Nat
  BY <1>1, <1>2, SetInduction
<1>5. QED
  BY <1>3, <1>4 DEF B

\* The characters from a on, up to b, are in S.
AllIn(a, b, S) == \A j \in a + 1 .. b : text[j] \in S

\* AllIn, one character at a time.
LEMMA NextIn ==
  ASSUME NEW a \in Nat, NEW b \in Nat, NEW S, AllIn(a, b, S), NEW n \in Nat, a <= n, n < b
  PROVE  text[n + 1] \in S
<1>1. n + 1 \in a + 1 .. b
  OBVIOUS
<1>2. QED
  BY <1>1 DEF AllIn

\* A place before a place of the script is a place of the script.
LEMMA Inside ==
  ASSUME text \in Seq(Chars)
  PROVE  /\ Len(text) \in Nat
         /\ \A a, b \in Nat : a < b /\ b <= Len(text) => a < Len(text) /\ a <= Len(text)
<1>1. Len(text) \in Nat
  BY LenProperties
<1>2. QED
  BY <1>1

Spaces  == {" "}
\* The characters by what they do to a word.
Letters == {"a", "|"}
Plain   == {"a", " ", "|"}

\* They are characters all.
LEMMA CharSets ==
  /\ Spaces \subseteq Chars /\ Letters \subseteq Chars /\ Plain \subseteq Chars
  /\ Spaces \subseteq Plain /\ Letters \subseteq Plain
BY DEF Spaces, Letters, Plain, Chars

\* Spaces end the word, once.
LEMMA SpacesRead ==
  ASSUME text \in Seq(Chars), NEW a \in Nat, NEW b \in Nat, a < b, b <= Len(text),
         AllIn(a, b, Spaces), ~After(a).cr
  PROVE  After(b) = EndWord(After(a))
<1>0. Len(text) \in Nat /\ a < Len(text) /\ a <= Len(text)
  BY Inside
<1>c. After(a) \in Readers /\ " " \in Chars
  BY <1>0, AfterTyped DEF Chars
<1>e. /\ EndWord(After(a)) \in Readers /\ EndWord(After(a)).word = <<>>
      /\ ~EndWord(After(a)).cr
  BY <1>c, EndWordIs
<1>1. After(a + 1) = EndWord(After(a))
  <2>a. a <= a
    OBVIOUS
  <2>b. text[a + 1] \in Spaces
    BY <2>a, NextIn
  <2>1. text[a + 1] = " "
    BY <2>b DEF Spaces
  <2>2. After(a + 1) = Take(After(a), " ")
    BY <1>0, <2>1, AfterIs
  <2>3. QED
    BY <1>c, <2>2, TakeIs
<1>2. ASSUME NEW n \in Nat, a + 1 <= n, n < b, After(n) = EndWord(After(a))
      PROVE  After(n + 1) = EndWord(After(a))
  <2>a. a + 1 <= n /\ n < b /\ n \in Nat
    BY <1>2
  <2>0. a <= n /\ n < Len(text)
    BY <1>0, <2>a
  <2>b. text[n + 1] \in Spaces
    BY <2>0, <2>a, NextIn
  <2>1. text[n + 1] = " "
    BY <2>b DEF Spaces
  <2>2. After(n + 1) = Take(After(n), " ")
    BY <2>0, <2>1, AfterIs
  <2>3. After(n) \in Readers /\ After(n).word = <<>> /\ ~After(n).cr
    BY <1>2, <1>e
  <2>4. Take(After(n), " ") = EndWord(After(n))
    BY <1>c, <2>3, TakeIs
  <2>5. EndWord(After(n)) = After(n)
    BY <2>3, EndWordIs
  <2>6. QED
    BY <1>2, <2>2, <2>4, <2>5
<1>3. QED
  <2> DEFINE A == {n \in Nat : After(n) = EndWord(After(a))}
  <2>1. a + 1 \in A /\ A \in SUBSET Nat
    BY <1>1
  <2>2. \A n \in A : a + 1 <= n /\ n < b => n + 1 \in A
    BY <1>2
  <2>3. a + 1 \in Nat /\ a + 1 <= b
    OBVIOUS
  <2> HIDE DEF A
  <2>4. b \in A
    BY <2>1, <2>2, <2>3, Along
  <2>5. QED
    BY <2>4 DEF A

\* The word from a to n.
WordTo(a, n) == SubSeq(text, a + 1, n)

\* A word grows by the next character.
LEMMA WordToIs ==
  ASSUME text \in Seq(Chars), NEW a \in Nat, NEW b \in Nat, b <= Len(text)
  PROVE  \A n \in Nat : a <= n /\ n < b =>
            /\ WordTo(a, n) \in Words
            /\ WordTo(a, n + 1) = Append(WordTo(a, n), text[n + 1])
            /\ a < n => WordTo(a, n) # <<>>
            /\ a = n => WordTo(a, n) = <<>>
<1>0. Len(text) \in Nat
  BY Inside
<1>w. ASSUME NEW n \in Nat, a <= n, n < b
      PROVE  /\ SubSeq(text, a + 1, n) \in Words
             /\ SubSeq(text, a + 1, n + 1) = Append(SubSeq(text, a + 1, n), text[n + 1])
             /\ a < n => SubSeq(text, a + 1, n) # <<>>
             /\ a = n => SubSeq(text, a + 1, n) = <<>>
  <2>0. \A j \in 1 .. Len(text) : text[j] \in Chars
    BY ElementOfSeq
  <2>1. \A j \in a + 1 .. n + 1 : text[j] \in Chars
    BY <1>0, <1>w, <2>0
  <2>2. \A j \in a + 1 .. n : text[j] \in Chars
    BY <1>0, <1>w, <2>0
  <2>a. a + 1 \in Int /\ n \in Int /\ n + 1 \in Int /\ n - (a + 1) + 1 = n - a
        /\ (n + 1) - (a + 1) + 1 = n - a + 1
        /\ \A j \in Int : a + 1 + j - 1 = a + j
    BY <1>w
  <2>3. /\ SubSeq(text, a + 1, n) \in Seq(Chars)
        /\ Len(SubSeq(text, a + 1, n)) = IF a + 1 <= n THEN n - (a + 1) + 1 ELSE 0
        /\ \A j \in 1 .. n - (a + 1) + 1 : SubSeq(text, a + 1, n)[j] = text[a + 1 + j - 1]
    BY <2>2, <2>a, SubSeqProperties
  <2>4. /\ SubSeq(text, a + 1, n + 1) \in Seq(Chars)
        /\ Len(SubSeq(text, a + 1, n + 1)) = IF a + 1 <= n + 1 THEN (n + 1) - (a + 1) + 1 ELSE 0
        /\ \A j \in 1 .. (n + 1) - (a + 1) + 1 : SubSeq(text, a + 1, n + 1)[j] = text[a + 1 + j - 1]
    BY <2>1, <2>a, SubSeqProperties
  <2> DEFINE u == SubSeq(text, a + 1, n)
             v == SubSeq(text, a + 1, n + 1)
  <2>5. u \in Seq(Chars) /\ Len(u) = n - a /\ \A j \in 1 .. n - a : u[j] = text[a + j]
    <3>1. ASSUME NEW j \in 1 .. n - a PROVE u[j] = text[a + j]
      <4>1. a + 1 + j - 1 = a + j
        BY <1>w
      <4>2. QED
        BY <2>a, <2>3, <4>1
    <3>2. Len(u) = n - a
      BY <1>w, <2>3
    <3>3. QED
      BY <2>3, <3>1, <3>2
  <2>6. v \in Seq(Chars) /\ Len(v) = n - a + 1 /\ \A j \in 1 .. n - a + 1 : v[j] = text[a + j]
    <3>1. ASSUME NEW j \in 1 .. n - a + 1 PROVE v[j] = text[a + j]
      <4>1. a + 1 + j - 1 = a + j
        BY <1>w
      <4>2. QED
        BY <2>a, <2>4, <4>1
    <3>2. Len(v) = n - a + 1
      BY <1>w, <2>4
    <3>3. QED
      BY <2>4, <3>1, <3>2
  <2> HIDE DEF u, v
  <2>7. text[n + 1] \in Chars
    <3>1. n + 1 \in 1 .. Len(text)
      BY <1>0, <1>w
    <3>2. QED
      BY <2>0, <3>1
  <2>8. /\ Append(u, text[n + 1]) \in Seq(Chars)
        /\ Len(Append(u, text[n + 1])) = n - a + 1
        /\ Append(u, text[n + 1])[n - a + 1] = text[n + 1]
        /\ \A j \in 1 .. n - a : Append(u, text[n + 1])[j] = text[a + j]
    <3>1. /\ Append(u, text[n + 1]) \in Seq(Chars)
          /\ Len(Append(u, text[n + 1])) = Len(u) + 1
          /\ \A j \in 1 .. Len(u) : Append(u, text[n + 1])[j] = u[j]
          /\ Append(u, text[n + 1])[Len(u) + 1] = text[n + 1]
      BY <2>5, <2>7, AppendProperties
    <3>2. QED
      BY <2>5, <3>1
  <2>9. a + (n - a + 1) = n + 1
    BY <1>w
  <2>b. ASSUME NEW j \in 1 .. n - a + 1 PROVE Append(u, text[n + 1])[j] = v[j]
    <3>1. CASE j = n - a + 1
      BY <2>6, <2>8, <2>9, <3>1
    <3>2. CASE j # n - a + 1
      <4>1. j \in 1 .. n - a
        BY <1>w, <3>2
      <4>2. QED
        BY <2>6, <2>8, <4>1
    <3>3. QED
      BY <3>1, <3>2
  <2>10. v = Append(u, text[n + 1])
    BY <2>6, <2>8, <2>b, SeqEqual
  <2>11. (a < n => u # <<>>) /\ (a = n => u = <<>>)
    BY <1>w, <2>5, EmptySeq
  <2>12. QED
    BY <2>5, <2>10, <2>11 DEF u, v, Words
<1>1. QED
  BY <1>w DEF WordTo

\* Letters, and bars among them, make a word.
LEMMA LettersRead ==
  ASSUME text \in Seq(Chars), NEW a \in Nat, NEW b \in Nat, a < b, b <= Len(text),
         AllIn(a, a + 1, {"a"}), AllIn(a, b, Letters), ~After(a).cr, After(a).word = <<>>
  PROVE  After(b) = [After(a) EXCEPT !.word = WordTo(a, b)]
<1>0. Len(text) \in Nat /\ a < Len(text) /\ a <= Len(text)
  BY Inside
<1>c. After(a) \in Readers /\ "a" \in Chars /\ "|" \in Chars
  BY <1>0, AfterTyped DEF Chars
<1>1. After(a) = [After(a) EXCEPT !.word = WordTo(a, a)]
  <2>1. WordTo(a, a) = <<>>
    BY WordToIs
  <2>2. After(a) = [After(a) EXCEPT !.word = <<>>]
    BY <1>c DEF Readers
  <2>3. QED
    BY <2>1, <2>2
<1>2. ASSUME NEW n \in Nat, a <= n, n < b, After(n) = [After(a) EXCEPT !.word = WordTo(a, n)]
      PROVE  After(n + 1) = [After(a) EXCEPT !.word = WordTo(a, n + 1)]
  <2> DEFINE u == WordTo(a, n)
             v == WordTo(a, n + 1)
             c == text[n + 1]
  <2>0. n < Len(text)
    BY <1>0, <1>2
  <2>1. u \in Words /\ v = Append(u, c) /\ (a < n => u # <<>>) /\ (a = n => u = <<>>)
    BY <1>2, WordToIs
  <2>2. c = "a" \/ (c = "|" /\ u # <<>>)
    <3>1. c \in Letters
      BY <1>2, NextIn
    <3>2. a = n => c = "a"
      <4>1. AllIn(a, a + 1, {"a"}) /\ a + 1 \in Nat /\ a < a + 1
        OBVIOUS
      <4>2. a <= a
        OBVIOUS
      <4>3. text[a + 1] \in {"a"}
        BY <4>1, <4>2, NextIn
      <4>4. QED
        BY <4>3
    <3>3. a = n \/ a < n
      BY <1>2
    <3>4. QED
      BY <2>1, <3>1, <3>2, <3>3 DEF Letters
  <2>3. After(n + 1) = Take(After(n), c)
    BY <2>0, AfterIs
  <2>4. After(n) = [After(a) EXCEPT !.word = u]
    BY <1>2
  <2> HIDE DEF u, v, c
  <2>5. After(n) \in Readers /\ ~After(n).cr /\ After(n).word = u
    BY <1>c, <2>1, <2>4 DEF Readers
  <2>6. Take(After(n), c) = [After(n) EXCEPT !.word = Append(u, c)]
    <3>1. c \in Chars
      BY <1>c, <2>2
    <3>2. c = "a" \/ (c = "|" /\ After(n).word # <<>>)
      BY <2>2, <2>5
    <3>3. Take(After(n), c) = [After(n) EXCEPT !.word = Append(After(n).word, c)]
      BY <2>5, <3>1, <3>2, TakeIs
    <3>4. QED
      BY <2>5, <3>3
  <2>7. After(n + 1) = [After(a) EXCEPT !.word = v]
    BY <1>c, <2>1, <2>3, <2>4, <2>6 DEF Readers
  <2>8. QED
    BY <2>7 DEF v
<1>3. QED
  <2> DEFINE W(n) == [After(a) EXCEPT !.word = WordTo(a, n)]
             A == {n \in Nat : After(n) = W(n)}
  <2>a. After(a) = W(a)
    BY <1>1
  <2>b. ASSUME NEW n \in Nat, a <= n, n < b, After(n) = W(n) PROVE After(n + 1) = W(n + 1)
    BY <1>2, <2>b
  <2> HIDE DEF W
  <2>1. a \in A /\ A \in SUBSET Nat
    BY <2>a
  <2>2. \A n \in A : a <= n /\ n < b => n + 1 \in A
    BY <2>b
  <2>3. a <= b
    OBVIOUS
  <2> HIDE DEF A
  <2>4. b \in A
    BY <2>1, <2>2, <2>3, Along
  <2>5. QED
    BY <2>4 DEF A, W

\* Without a new line no line ends.
LEMMA NoNewLineRead ==
  ASSUME text \in Seq(Chars), NEW a \in Nat, NEW b \in Nat, a <= b, b <= Len(text),
         AllIn(a, b, Plain), ~After(a).cr
  PROVE  After(b).lines = After(a).lines /\ ~After(b).cr
<1>0. Len(text) \in Nat
  BY Inside
<1>c. Plain \subseteq Chars
  BY CharSets
<1>2. ASSUME NEW n \in Nat, a <= n, n < b, After(n).lines = After(a).lines, ~After(n).cr
      PROVE  After(n + 1).lines = After(a).lines /\ ~After(n + 1).cr
  <2> DEFINE c == text[n + 1]
             s == After(n)
  <2>1. n < Len(text) /\ n <= Len(text)
    BY <1>0, <1>2
  <2>2. c \in Plain
    BY <1>2, NextIn
  <2>3. s \in Readers /\ ~s.cr /\ s.lines = After(a).lines
    BY <1>2, <2>1, AfterTyped
  <2>4. After(n + 1) = Take(s, c)
    BY <2>1, AfterIs
  <2> HIDE DEF c, s
  <2>5. c \in Chars
    BY <1>c, <2>2
  <2>6. Take(s, c).lines = s.lines /\ ~Take(s, c).cr
    <3>1. CASE c = " "
      BY <2>3, <2>5, <3>1, TakeIs, EndWordIs
    <3>2. CASE c = "|" /\ s.word = <<>>
      <4>1. Take(s, c) = [s EXCEPT !.line = Append(s.line, Pipe)]
        BY <2>3, <2>5, <3>2, TakeIs
      <4>2. QED
        BY <2>3, <4>1 DEF Readers
    <3>3. CASE c = "a" \/ (c = "|" /\ s.word # <<>>)
      <4>1. Take(s, c) = [s EXCEPT !.word = Append(s.word, c)]
        BY <2>3, <2>5, <3>3, TakeIs
      <4>2. QED
        BY <2>3, <4>1 DEF Readers
    <3>4. QED
      BY <2>2, <3>1, <3>2, <3>3 DEF Plain
  <2>7. QED
    BY <2>3, <2>4, <2>6
<1>3. QED
  <2> DEFINE A == {n \in Nat : After(n).lines = After(a).lines /\ ~After(n).cr}
  <2>1. a \in A /\ A \in SUBSET Nat
    OBVIOUS
  <2>2. \A n \in A : a <= n /\ n < b => n + 1 \in A
    BY <1>2
  <2> HIDE DEF A
  <2>4. b \in A
    BY <2>1, <2>2, Along
  <2>5. QED
    BY <2>4 DEF A

\* IsPrefix, by places.
Begins(s, t) == Len(s) <= Len(t) /\ \A i \in 1 .. Len(s) : s[i] = t[i]

\* It is IsPrefix.
LEMMA BeginsIs ==
  ASSUME NEW S, NEW s \in Seq(S), NEW t \in Seq(S), Begins(s, t)
  PROVE  IsPrefix(s, t)
<1>1. Len(s) \in Nat /\ Len(t) \in Nat /\ Len(s) <= Len(t)
  BY LenProperties DEF Begins
<1>2. (\A i \in 1 .. Len(s) : s[i] \in S) /\ (\A i \in 1 .. Len(t) : t[i] \in S)
  BY ElementOfSeq
<1>3. \A i \in 1 .. Len(s) : t[i] \in S
  BY <1>1, <1>2
<1>4. /\ SubSeq(s, 1, Len(s)) \in Seq(S)
      /\ Len(SubSeq(s, 1, Len(s))) = IF 1 <= Len(s) THEN Len(s) - 1 + 1 ELSE 0
      /\ \A i \in 1 .. Len(s) - 1 + 1 : SubSeq(s, 1, Len(s))[i] = s[1 + i - 1]
  BY <1>1, <1>2, SubSeqProperties
<1>5. /\ SubSeq(t, 1, Len(s)) \in Seq(S)
      /\ Len(SubSeq(t, 1, Len(s))) = IF 1 <= Len(s) THEN Len(s) - 1 + 1 ELSE 0
      /\ \A i \in 1 .. Len(s) - 1 + 1 : SubSeq(t, 1, Len(s))[i] = t[1 + i - 1]
  BY <1>1, <1>3, SubSeqProperties
<1>6. ASSUME NEW i \in 1 .. Len(SubSeq(s, 1, Len(s)))
      PROVE  SubSeq(s, 1, Len(s))[i] = SubSeq(t, 1, Len(s))[i]
  <2>1. i \in 1 .. Len(s) - 1 + 1 /\ 1 + i - 1 = i /\ i \in 1 .. Len(s)
    BY <1>1, <1>4
  <2>2. s[i] = t[i]
    BY <2>1 DEF Begins
  <2>3. QED
    BY <1>4, <1>5, <2>1, <2>2
<1>7. SubSeq(s, 1, Len(s)) = SubSeq(t, 1, Len(s))
  <2>1. Len(SubSeq(s, 1, Len(s))) = Len(SubSeq(t, 1, Len(s)))
    BY <1>4, <1>5
  <2>2. QED
    BY <1>4, <1>5, <1>6, <2>1, SeqEqual
<1>8. QED
  BY <1>1, <1>7 DEF IsPrefix

\* Lines are only ever added.
LEMMA LinesGrow ==
  ASSUME text \in Seq(Chars), NEW a \in Nat, NEW b \in Nat, a <= b, b <= Len(text)
  PROVE  Begins(After(a).lines, After(b).lines)
<1>0. Len(text) \in Nat /\ a <= Len(text)
  <2>1. Len(text) \in Nat
    BY Inside
  <2>2. QED
    BY <2>1
<1>a. After(a) \in Readers
  BY <1>0, AfterTyped
<1>1. Begins(After(a).lines, After(a).lines)
  <2>1. Len(After(a).lines) \in Nat
    BY <1>a, LenProperties DEF Readers
  <2>2. QED
    BY <2>1 DEF Begins
<1>2. ASSUME NEW n \in Nat, a <= n, n < b, Begins(After(a).lines, After(n).lines)
      PROVE  Begins(After(a).lines, After(n + 1).lines)
  <2> DEFINE c == text[n + 1]
             s == After(n)
  <2>1. n < Len(text) /\ n <= Len(text) /\ n + 1 \in 1 .. Len(text)
    BY <1>0, <1>2
  <2>2. c \in Chars /\ s \in Readers
    BY <2>1, AfterTyped, ElementOfSeq
  <2>3. After(n + 1) = Take(s, c)
    BY <2>1, AfterIs
  <2>4. Begins(After(a).lines, s.lines)
    BY <1>2
  <2> HIDE DEF c, s
  <2>5. Take(s, c).lines = s.lines \/ \E l \in Lines : Take(s, c).lines = Append(s.lines, l)
    <3>1. CASE s.cr
      <4>1. Take(s, c) = [s EXCEPT !.cr = FALSE]
        BY <2>2, <3>1, TakeIs
      <4>2. QED
        BY <2>2, <4>1 DEF Readers
    <3>2. CASE ~s.cr /\ c \in {"n", "r"}
      <4>1. PICK e \in BOOLEAN : Take(s, c) = [EndLine(EndWord(s)) EXCEPT !.cr = e]
        BY <2>2, <3>2, TakeIs
      <4>2. EndWord(s) \in Readers /\ EndWord(s).lines = s.lines
        BY <2>2, EndWordIs
      <4>3. /\ EndLine(EndWord(s)) \in Readers
            /\ EndLine(EndWord(s)).lines = IF IsPipeline(EndWord(s).line)
                 THEN Append(EndWord(s).lines, EndWord(s).line) ELSE EndWord(s).lines
        BY <4>2, EndLineIs
      <4>4. EndWord(s).line \in Lines
        BY <4>2 DEF Readers
      <4>5. Take(s, c).lines = EndLine(EndWord(s)).lines
        BY <4>1, <4>3 DEF Readers
      <4>6. QED
        BY <4>2, <4>3, <4>4, <4>5
    <3>3. CASE ~s.cr /\ c \in Plain
      <4>1. CASE c \in Spaces
        BY <2>2, <3>3, <4>1, TakeIs, EndWordIs DEF Spaces
      <4>2. CASE c = "|" /\ s.word = <<>>
        <5>1. Take(s, c) = [s EXCEPT !.line = Append(s.line, Pipe)]
          BY <2>2, <3>3, <4>2, TakeIs
        <5>2. QED
          BY <2>2, <5>1 DEF Readers
      <4>3. CASE c = "a" \/ (c = "|" /\ s.word # <<>>)
        <5>1. Take(s, c) = [s EXCEPT !.word = Append(s.word, c)]
          BY <2>2, <3>3, <4>3, TakeIs
        <5>2. QED
          BY <2>2, <5>1 DEF Readers
      <4>4. QED
        BY <3>3, <4>1, <4>2, <4>3 DEF Plain, Spaces
    <3>4. QED
      BY <2>2, <3>1, <3>2, <3>3 DEF Chars, Plain
  <2>6. s.lines \in Seq(Lines) /\ Len(s.lines) \in Nat /\ After(a).lines \in Seq(Lines)
        /\ Len(After(a).lines) \in Nat
    BY <1>a, <2>2, LenProperties DEF Readers
  <2>7. ASSUME NEW l \in Lines PROVE Begins(After(a).lines, Append(s.lines, l))
    <3>1. /\ Len(Append(s.lines, l)) = Len(s.lines) + 1
          /\ \A i \in 1 .. Len(s.lines) : Append(s.lines, l)[i] = s.lines[i]
      BY <2>6, AppendProperties
    <3>2. QED
      BY <2>4, <2>6, <3>1 DEF Begins
  <2>8. QED
    BY <2>3, <2>4, <2>5, <2>7
<1>3. QED
  <2> DEFINE A == {n \in Nat : Begins(After(a).lines, After(n).lines)}
  <2>1. a \in A /\ A \in SUBSET Nat
    BY <1>1
  <2>2. \A n \in A : a <= n /\ n < b => n + 1 \in A
    BY <1>2
  <2> HIDE DEF A
  <2>4. b \in A
    BY <2>1, <2>2, Along
  <2>5. QED
    BY <2>4 DEF A

\* A new line ends the line l: it is popped if it is a pipeline.
LineEnds(n, L, l) ==
  /\ After(n).lines = (IF IsPipeline(l) THEN Append(L, l) ELSE L)
  /\ ~After(n).cr /\ After(n).line = <<>> /\ After(n).word = <<>>

\* A '\n', or a '\r' and what follows it, ends the word and the line.
LEMMA NewLineRead ==
  ASSUME text \in Seq(Chars), NEW a \in Nat, a < Len(text), ~After(a).cr
  PROVE  /\ text[a + 1] = "n" => LineEnds(a + 1, After(a).lines, EndWord(After(a)).line)
         /\ text[a + 1] = "r" /\ a + 1 < Len(text) =>
              LineEnds(a + 2, After(a).lines, EndWord(After(a)).line)
<1> DEFINE s == After(a)
           c == text[a + 1]
           e == EndLine(EndWord(s))
<1>0. Len(text) \in Nat /\ a <= Len(text) /\ a + 1 \in 1 .. Len(text) /\ a + 1 \in Nat
      /\ (a + 1) + 1 = a + 2
  <2>1. Len(text) \in Nat
    BY Inside
  <2>2. QED
    BY <2>1
<1>1. s \in Readers /\ c \in Chars /\ After(a + 1) = Take(s, c) /\ ~s.cr
  BY <1>0, AfterTyped, AfterIs, ElementOfSeq
<1>2. /\ EndWord(s) \in Readers /\ EndWord(s).lines = s.lines /\ EndWord(s).word = <<>>
      /\ ~EndWord(s).cr
  BY <1>1, EndWordIs
<1>3. /\ e \in Readers /\ e.word = <<>> /\ ~e.cr /\ e.line = <<>>
      /\ e.lines = IF IsPipeline(EndWord(s).line)
                     THEN Append(s.lines, EndWord(s).line) ELSE s.lines
  BY <1>2, EndLineIs
<1> HIDE DEF c
<1>4. CASE c = "n"
  <2>1. After(a + 1) = [e EXCEPT !.cr = FALSE]
    BY <1>1, <1>4, TakeIs
  <2> DEFINE l == EndWord(s).line
  <2> HIDE DEF e, l
  <2>2. /\ After(a + 1).lines = e.lines /\ After(a + 1).word = <<>>
        /\ ~After(a + 1).cr /\ After(a + 1).line = <<>>
    BY <1>3, <2>1 DEF Readers
  <2>3. LineEnds(a + 1, s.lines, l)
    BY <1>3, <2>2 DEF LineEnds, l
  <2>4. QED
    BY <1>4, <2>3 DEF c, l
<1>5. CASE c = "r" /\ a + 1 < Len(text)
  <2>1. After(a + 1) = [e EXCEPT !.cr = TRUE]
    BY <1>1, <1>5, TakeIs
  <2>a. After(a + 2) = Take(After(a + 1), text[a + 2])
    BY <1>0, <1>5, AfterIs
  <2>b. text[a + 2] \in Chars
    <3>1. a + 2 \in 1 .. Len(text)
      BY <1>0, <1>5
    <3>2. QED
      BY <3>1, ElementOfSeq
  <2> DEFINE l == EndWord(s).line
             f == After(a + 1)
  <2> HIDE DEF e, l, f
  <2>c. f \in Readers /\ f.cr /\ f = [e EXCEPT !.cr = TRUE]
    BY <1>3, <2>1 DEF Readers, f
  <2>d. After(a + 2) = [f EXCEPT !.cr = FALSE]
    BY <2>a, <2>b, <2>c, TakeIs DEF f
  <2>2. /\ After(a + 2).lines = e.lines /\ After(a + 2).word = <<>>
        /\ ~After(a + 2).cr /\ After(a + 2).line = <<>>
    BY <1>3, <2>c, <2>d DEF Readers
  <2>3. LineEnds(a + 2, s.lines, l)
    BY <1>3, <2>2 DEF LineEnds, l
  <2>4. QED
    BY <1>5, <2>3 DEF c, l
<1>6. QED
  BY <1>4, <1>5 DEF c

-----------------------------------------------------------------------------
(* The parser and the script.                                              *)

\* A line that is not a pipeline, whatever follows.
Broken(l) ==
  l # <<>> /\ (l[1] = Pipe \/ \E i \in 1 .. Len(l) - 1 : l[i] = Pipe /\ l[i + 1] = Pipe)

\* The buffer holds the script from o on.
Buffered(o) ==
  /\ o \in Nat /\ o + size = fed
  /\ \A i \in 1 .. size : mem[i] = text[o + i]

\* What is understood after n is what has been popped, outside a "\r\n".
Popped(n) == After(n).lines = popped /\ ~After(n).cr

\* At o a line begins.
LineBegins(o) == Popped(o) /\ After(o).line = <<>> /\ After(o).word = <<>>

\* The word before pos is over.
Blanks == {" ", "n", "r"}
WordOver(o) == After(o + pos).word = <<>> \/ (pos < size /\ mem[pos + 1] \in Blanks)

\* At pos the parser has understood what the reader has: its line is the
\* reader's, and a line it skips is one the reader will drop.
Reached(o) ==
  /\ Popped(o + pos) /\ WordOver(o)
  /\ mode = "parse" => EndWord(After(o + pos)).line = line
  /\ mode = "skip" => Broken(EndWord(After(o + pos)).line)

\* Where the parser stands; pos may be past the end after a '\r' at the end.
Understood(o) ==
  /\ mode \in {"parse", "skip"} /\ pos <= size => Reached(o)
  /\ mode \in {"parse", "skip"} /\ pos > size => After(o + size).lines = popped
  /\ mode \in {"read", "done"} => After(o + size).lines = popped

\* The inductive invariant of ChunksDoNotMatter: the parser follows the reader.
Follows ==
  /\ mode = "done" => fed = Len(text)
  /\ \E o \in Nat : Buffered(o) /\ LineBegins(o) /\ Understood(o)
\* A broken line stays broken and is no pipeline: why return_error may skip it.
LEMMA BrokenIs ==
  ASSUME NEW l \in Lines
  PROVE  /\ Broken(l) => ~IsPipeline(l)
         /\ Broken(l) => Broken(Append(l, Pipe))
         /\ \A w \in Words : Broken(l) => Broken(AddWord(l, w))
<1>0. l \in Seq(Seq(Words)) /\ Len(l) \in Nat /\ DOMAIN l = 1 .. Len(l)
  BY LenProperties DEF Lines
<1>1. Broken(l) => ~IsPipeline(l)
  BY DEF Broken, IsPipeline
<1>2. ASSUME NEW m \in Lines, Len(m) >= Len(l),
             \A i \in 1 .. Len(l) : l[i] = Pipe => m[i] = Pipe, Broken(l)
      PROVE  Broken(m)
  <2>1. Len(m) \in Nat
    BY LenProperties DEF Lines
  <2>2. l # <<>> /\ 1 \in 1 .. Len(l)
    BY <1>0, <1>2, EmptySeq DEF Broken
  <2>3. m # <<>>
    BY <1>0, <1>2, <2>2
  <2>4. CASE l[1] = Pipe
    BY <1>2, <2>2, <2>3, <2>4 DEF Broken
  <2>5. CASE l[1] # Pipe
    <3>1. PICK i \in 1 .. Len(l) - 1 : l[i] = Pipe /\ l[i + 1] = Pipe
      BY <1>2, <2>5 DEF Broken
    <3>2. i \in 1 .. Len(l) /\ i + 1 \in 1 .. Len(l) /\ i \in 1 .. Len(m) - 1
      BY <1>0, <1>2, <2>1
    <3>3. m[i] = Pipe /\ m[i + 1] = Pipe
      BY <1>2, <3>1, <3>2
    <3>4. QED
      BY <2>3, <3>2, <3>3 DEF Broken
  <2>6. QED
    BY <2>4, <2>5
<1>3. Broken(l) => Broken(Append(l, Pipe))
  <2>1. Pipe \in Seq(Words)
    BY DEF Pipe
  <2>2. /\ Append(l, Pipe) \in Lines /\ Len(Append(l, Pipe)) = Len(l) + 1
        /\ \A i \in 1 .. Len(l) : Append(l, Pipe)[i] = l[i]
    BY <1>0, <2>1, AppendProperties DEF Lines
  <2>3. Len(Append(l, Pipe)) >= Len(l)
    BY <1>0, <2>2
  <2>4. QED
    BY <1>2, <2>2, <2>3
<1>4. ASSUME NEW w \in Words, Broken(l) PROVE Broken(AddWord(l, w))
  <2>1. CASE l # <<>> /\ l[Len(l)] # Pipe
    <3>1. Len(l) \in 1 .. Len(l)
      BY <1>0, <2>1, EmptySeq
    <3>2. l[Len(l)] \in Seq(Words)
      BY <1>0, <3>1, ElementOfSeq
    <3>3. Append(l[Len(l)], w) \in Seq(Words)
      BY <3>2, AppendProperties
    <3> DEFINE m == [l EXCEPT ![Len(l)] = Append(l[Len(l)], w)]
    <3>4. /\ m \in Seq(Seq(Words)) /\ Len(m) = Len(l)
          /\ \A j \in 1 .. Len(l) : m[j] = IF j = Len(l) THEN Append(l[Len(l)], w) ELSE l[j]
      BY <1>0, <3>1, <3>3, ExceptSeq
    <3>5. AddWord(l, w) = m
      BY <2>1 DEF AddWord
    <3> HIDE DEF m
    <3>6. m \in Lines /\ Len(m) >= Len(l) /\ \A i \in 1 .. Len(l) : l[i] = Pipe => m[i] = Pipe
      <4>1. m \in Lines /\ Len(m) >= Len(l)
        <5>1. m \in Lines /\ Len(m) = Len(l)
          BY <3>4 DEF Lines
        <5>2. QED
          BY <1>0, <5>1
      <4>2. ASSUME NEW i \in 1 .. Len(l), l[i] = Pipe PROVE m[i] = Pipe
        <5>1. i # Len(l)
          BY <2>1, <4>2
        <5>2. QED
          BY <3>4, <4>2, <5>1
      <4>3. QED
        BY <4>1, <4>2
    <3>7. QED
      BY <1>2, <1>4, <3>5, <3>6
  <2>2. CASE ~ (l # <<>> /\ l[Len(l)] # Pipe)
    <3>1. AddWord(l, w) = Append(l, <<w>>) /\ <<w>> \in Seq(Words)
      BY <2>2 DEF AddWord
    <3>2. /\ Append(l, <<w>>) \in Lines /\ Len(Append(l, <<w>>)) = Len(l) + 1
          /\ \A i \in 1 .. Len(l) : Append(l, <<w>>)[i] = l[i]
      BY <1>0, <3>1, AppendProperties DEF Lines
    <3>3. Len(Append(l, <<w>>)) >= Len(l)
      BY <1>0, <3>2
    <3>4. Broken(Append(l, <<w>>))
      BY <1>2, <1>4, <3>2, <3>3
    <3>5. QED
      BY <3>1, <3>4
  <2>3. QED
    BY <2>1, <2>2
<1>5. QED
  BY <1>1, <1>3, <1>4

\* The line the parser has is a pipeline if it ends in a command.
LEMMA LineIsPipeline ==
  ASSUME line \in Lines, Alternates(line)
  PROVE  /\ EndsInCommand <=> IsPipeline(line)
         /\ ~EndsInCommand => Broken(Append(line, Pipe))
<1>0. line \in Seq(Seq(Words)) /\ Len(line) \in Nat /\ DOMAIN line = 1 .. Len(line)
  BY LenProperties DEF Lines
<1>1. EndsInCommand <=> IsPipeline(line)
  BY DEF EndsInCommand, IsPipeline, Alternates
<1>2. ASSUME ~EndsInCommand PROVE Broken(Append(line, Pipe))
  <2>1. Pipe \in Seq(Words)
    BY DEF Pipe
  <2>2. /\ Append(line, Pipe) \in Seq(Seq(Words)) /\ Append(line, Pipe) # <<>>
        /\ Len(Append(line, Pipe)) = Len(line) + 1 /\ Append(line, Pipe)[Len(line) + 1] = Pipe
        /\ \A i \in 1 .. Len(line) : Append(line, Pipe)[i] = line[i]
    BY <1>0, <2>1, AppendProperties
  <2>3. CASE line = <<>>
    <3>1. Len(line) + 1 = 1
      BY <2>3
    <3>2. QED
      BY <2>2, <3>1 DEF Broken
  <2>4. CASE line # <<>>
    <3>1. line[Len(line)] = Pipe
      BY <1>2, <2>4 DEF EndsInCommand
    <3>2. Len(line) \in 1 .. Len(line) /\ Len(line) \in 1 .. Len(Append(line, Pipe)) - 1
      BY <1>0, <2>2, <2>4, EmptySeq
    <3>3. QED
      BY <2>2, <3>1, <3>2 DEF Broken
  <2>5. QED
    BY <2>3, <2>4
<1>3. QED
  BY <1>1, <1>2

\* The characters of the buffer from a on, up to b, are in S.
MemIn(a, b, S) == \A j \in a + 1 .. b : mem[j] \in S

\* The places of the buffer are places of the script.
LEMMA BufferIs ==
  ASSUME ParserTypeOK, NEW o \in Nat, Buffered(o)
  PROVE  /\ text \in Seq(Chars) /\ Len(text) \in Nat /\ o + size <= Len(text)
         /\ \A i \in 1 .. size : mem[i] = text[o + i]
         /\ \A n \in Nat : n <= size => o + n \in Nat /\ o + n <= Len(text)
         /\ \A n \in Nat : n < size => o + n < Len(text) /\ o + n <= Len(text)
<1>1. /\ text \in Seq(Chars) /\ Len(text) \in Nat /\ fed \in Nat /\ size \in Nat
      /\ fed <= Len(text)
  BY ParserFacts
<1>2. o + size = fed /\ \A i \in 1 .. size : mem[i] = text[o + i]
  BY DEF Buffered
<1>3. o + size <= fed
  BY <1>1, <1>2
<1>4. o + size <= Len(text)
  BY <1>1, <1>3
<1>5. \A n \in Nat : n <= size => o + n \in Nat /\ o + n <= Len(text)
  BY <1>1, <1>4
<1>6. \A n \in Nat : n < size => o + n < Len(text) /\ o + n <= Len(text)
  BY <1>1, <1>4
<1>7. QED
  BY <1>1, <1>2, <1>4, <1>5, <1>6

\* What is in the buffer is in the script.
LEMMA Shift ==
  ASSUME ParserTypeOK, NEW o \in Nat, Buffered(o), NEW a \in Nat, NEW b \in Nat, b <= size,
         NEW S, MemIn(a, b, S)
  PROVE  AllIn(o + a, o + b, S)
<1>1. ASSUME NEW j \in (o + a) + 1 .. o + b PROVE text[j] \in S
  <2>1. size \in Nat
    BY ParserFacts
  <2>2. j - o \in a + 1 .. b /\ j - o \in 1 .. size /\ o + (j - o) = j
    BY <2>1
  <2>3. mem[j - o] = text[o + (j - o)]
    BY <2>2, BufferIs
  <2>4. mem[j - o] \in S
    BY <2>2 DEF MemIn
  <2>5. QED
    BY <2>2, <2>3, <2>4
<1>2. QED
  BY <1>1 DEF AllIn

\* The next character of the buffer is the next of the script.
LEMMA NextShift ==
  ASSUME ParserTypeOK, NEW o \in Nat, Buffered(o), NEW n \in Nat, n < size
  PROVE  text[(o + n) + 1] = mem[n + 1] /\ (o + n) + 1 = o + (n + 1)
<1>1. size \in Nat /\ n + 1 \in 1 .. size /\ (o + n) + 1 = o + (n + 1)
  BY ParserFacts
<1>2. mem[n + 1] = text[o + (n + 1)]
  BY <1>1, BufferIs
<1>3. QED
  BY <1>1, <1>2

\* The spaces before the next token.
LEMMA StartReached ==
  ASSUME ParserTypeOK, NEW o \in Nat, Buffered(o), Reached(o), pos < size
  PROVE  /\ Popped(o + Start)
         /\ EndWord(After(o + Start)).line = EndWord(After(o + pos)).line
         /\ Start < size /\ mem[Start + 1] \notin {"n", "r"} => After(o + Start).word = <<>>
<1>1. /\ Start \in Nat /\ pos \in Nat /\ pos <= Start /\ Start <= size /\ size \in Nat
      /\ pos <= size
  <2>1. pos \in Nat /\ size \in Nat
    BY ParserFacts
  <2>2. pos <= size
    BY <2>1
  <2>3. QED
    BY <2>1, <2>2, StartIs
<1>2. After(o + pos) \in Readers /\ ~After(o + pos).cr
  BY <1>1, BufferIs, AfterTyped DEF Reached, Popped
<1>3. CASE Start = pos
  <2>1. Start < size => mem[Start + 1] \notin Spaces
    BY StartIs DEF Spaces
  <2>2. Start < size /\ mem[Start + 1] \notin {"n", "r"} => After(o + Start).word = <<>>
    BY <1>3, <2>1 DEF Reached, WordOver, Spaces, Blanks
  <2>3. QED
    BY <1>3, <2>2 DEF Reached
<1>4. CASE pos < Start
  <2>1. MemIn(pos, Start, Spaces)
    BY StartIs DEF MemIn, Spaces
  <2>2. AllIn(o + pos, o + Start, Spaces)
    BY <1>1, <2>1, Shift
  <2>3. /\ o + pos < o + Start /\ o + Start <= Len(text) /\ o + pos \in Nat /\ o + Start \in Nat
        /\ text \in Seq(Chars)
    BY <1>1, <1>4, BufferIs
  <2>4. After(o + Start) = EndWord(After(o + pos))
    BY <1>2, <2>2, <2>3, SpacesRead
  <2>5. /\ EndWord(After(o + pos)) \in Readers /\ EndWord(After(o + pos)).word = <<>>
        /\ EndWord(After(o + pos)).lines = After(o + pos).lines /\ ~EndWord(After(o + pos)).cr
    BY <1>2, EndWordIs
  <2>6. EndWord(EndWord(After(o + pos))) = EndWord(After(o + pos))
    BY <2>5, EndWordIs
  <2>7. QED
    BY <2>4, <2>5, <2>6 DEF Reached, Popped
<1>5. QED
  BY <1>1, <1>3, <1>4

\* A word.
LEMMA WordReached ==
  ASSUME ParserTypeOK, NEW o \in Nat, Buffered(o), Reached(o), pos < size,
         NEW next, AtWord(next)
  PROVE  /\ Popped(o + next)
         /\ EndWord(After(o + next)).line =
              AddWord(EndWord(After(o + pos)).line, SubSeq(mem, Start + 1, next))
         /\ next < size /\ mem[next + 1] \in Blanks /\ next \in Nat
<1>1. /\ next \in Nat /\ Start < next /\ next < size /\ pos <= Start
      /\ SubSeq(mem, Start + 1, next) \in Words
      /\ Len(SubSeq(mem, Start + 1, next)) = next - Start
      /\ \A j \in 1 .. next - Start : SubSeq(mem, Start + 1, next)[j] = mem[Start + j]
      /\ mem[Start + 1] = "a"
  BY WordIs
<1>2. next = WordEnd
  BY DEF AtWord
<1>3. \A j \in Start + 1 .. next : mem[j] \in {"a", "|"}
  BY <1>2, WordEndIs
<1>4. mem[next + 1] \in Blanks
  BY <1>1, <1>2, WordEndIs DEF Blanks
<1> DEFINE w == SubSeq(mem, Start + 1, next)
           s == After(o + Start)
<1>5. MemIn(Start, next, Letters)
  BY <1>3 DEF MemIn, Letters
<1>s. Start \in Nat
  BY StartIs
<1>6. MemIn(Start, Start + 1, {"a"})
  <2>1. ASSUME NEW j \in Start + 1 .. Start + 1 PROVE mem[j] = "a"
    <3>1. j = Start + 1
      BY <1>s
    <3>2. QED
      BY <1>1, <3>1
  <2>2. QED
    BY <2>1 DEF MemIn
<1>7. Start \in Nat /\ size \in Nat
  BY StartIs, ParserFacts
<1>8. next \in Nat /\ Start < next /\ next < size
  BY <1>1
<1>9. next <= size /\ Start + 1 <= size /\ Start < size /\ Start + 1 \in Nat
  BY <1>7, <1>8
<1>10. AllIn(o + Start, o + next, Letters) /\ AllIn(o + Start, o + (Start + 1), {"a"})
  BY <1>5, <1>6, <1>7, <1>8, <1>9, Shift
<1>11. /\ o + Start \in Nat /\ o + next \in Nat /\ o + Start < o + next /\ o + next <= Len(text)
       /\ o + (Start + 1) = (o + Start) + 1 /\ text \in Seq(Chars) /\ o + Start <= Len(text)
  <2>1. o + next <= Len(text) /\ o + Start <= Len(text) /\ text \in Seq(Chars)
    BY <1>7, <1>8, <1>9, BufferIs
  <2>2. QED
    BY <1>7, <1>8, <2>1
<1>12. Popped(o + Start) /\ s.word = <<>> /\ EndWord(s).line = EndWord(After(o + pos)).line
  BY <1>1, <1>9, StartReached
<1>13. After(o + next) = [s EXCEPT !.word = WordTo(o + Start, o + next)]
  BY <1>10, <1>11, <1>12, LettersRead DEF Popped
<1>14. WordTo(o + Start, o + next) = w
  <2> DEFINE v == WordTo(o + Start, o + next)
  <2>1. ASSUME NEW j \in (o + Start) + 1 .. o + next PROVE text[j] \in Chars
    <3>1. j \in 1 .. Len(text)
      BY <1>7, <1>8, <1>11
    <3>2. QED
      BY <3>1, ParserFacts
  <2>2. (o + Start) + 1 \in Int /\ o + next \in Int /\ (o + Start) + 1 <= o + next
        /\ (o + next) - ((o + Start) + 1) + 1 = next - Start
    BY <1>7, <1>8
  <2>3. /\ v \in Seq(Chars)
        /\ Len(v) = IF (o + Start) + 1 <= o + next
                      THEN (o + next) - ((o + Start) + 1) + 1 ELSE 0
        /\ \A j \in 1 .. (o + next) - ((o + Start) + 1) + 1 :
             v[j] = text[(o + Start) + 1 + j - 1]
    BY <2>1, <2>2, SubSeqProperties DEF WordTo
  <2>4. v \in Seq(Chars) /\ Len(v) = next - Start
    BY <2>2, <2>3
  <2> HIDE DEF v
  <2>5. ASSUME NEW j \in 1 .. next - Start PROVE v[j] = w[j]
    <3>1. v[j] = text[(o + Start) + 1 + j - 1]
      BY <2>2, <2>3
    <3>2. (o + Start) + 1 + j - 1 = o + (Start + j) /\ Start + j \in 1 .. size
      BY <1>7, <1>8
    <3>3. mem[Start + j] = text[o + (Start + j)]
      BY <3>2, BufferIs
    <3>4. w[j] = mem[Start + j]
      BY <1>1
    <3>5. QED
      BY <3>1, <3>2, <3>3, <3>4
  <2>6. w \in Seq(Chars) /\ Len(w) = next - Start
    BY <1>1 DEF Words
  <2> HIDE DEF w
  <2>7. v = w
    BY <2>4, <2>5, <2>6, SeqEqual
  <2>8. QED
    BY <2>7 DEF v
<1>15. w \in Words /\ w # <<>>
  <2>1. next - Start # 0
    BY <1>7, <1>8
  <2>2. QED
    BY <1>1, <2>1
<1>16. s \in Readers
  BY <1>11, AfterTyped
<1> DEFINE t == After(o + next)
<1> HIDE DEF w, s, t
<1>17. t = [s EXCEPT !.word = w]
  BY <1>13, <1>14 DEF t, s
<1>18. t \in Readers /\ t.lines = s.lines /\ t.cr = s.cr /\ t.line = s.line /\ t.word = w
  BY <1>15, <1>16, <1>17 DEF Readers
<1>19. EndWord(t).line = AddWord(s.line, w) /\ EndWord(s) = s
  BY <1>12, <1>15, <1>16, <1>18, EndWordIs
<1>20. EndWord(t).line = AddWord(EndWord(After(o + pos)).line, w)
  BY <1>12, <1>19
<1>21. Popped(o + next)
  BY <1>12, <1>18 DEF Popped, s, t
<1>22. QED
  BY <1>4, <1>8, <1>20, <1>21 DEF w, t

\* A pipe.
LEMMA PipeReached ==
  ASSUME ParserTypeOK, NEW o \in Nat, Buffered(o), Reached(o), pos < size,
         Start < size, mem[Start + 1] = "|"
  PROVE  /\ Popped(o + (Start + 1))
         /\ EndWord(After(o + (Start + 1))).line = Append(EndWord(After(o + pos)).line, Pipe)
         /\ After(o + (Start + 1)).word = <<>>
<1> DEFINE s == After(o + Start)
           t == After(o + (Start + 1))
<1>1. Start \in Nat /\ Start < size
  BY StartIs
<1>2. Popped(o + Start) /\ s.word = <<>> /\ EndWord(s).line = EndWord(After(o + pos)).line
  BY StartReached
<1>3. text[(o + Start) + 1] = "|" /\ (o + Start) + 1 = o + (Start + 1)
  BY <1>1, NextShift
<1>4. o + Start \in Nat /\ o + Start < Len(text) /\ text \in Seq(Chars) /\ o + Start <= Len(text)
  BY <1>1, BufferIs
<1>5. s \in Readers /\ ~s.cr /\ "|" \in Chars
  BY <1>2, <1>4, AfterTyped DEF Popped, Chars
<1>6. t = Take(s, "|")
  <2>1. After((o + Start) + 1) = Take(s, text[(o + Start) + 1])
    BY <1>4, AfterIs
  <2>2. QED
    BY <1>3, <2>1
<1> HIDE DEF s, t
<1>7. t = [s EXCEPT !.line = Append(s.line, Pipe)]
  <2>1. s.word = <<>>
    BY <1>2
  <2>2. Take(s, "|") = [s EXCEPT !.line = Append(s.line, Pipe)]
    BY <1>5, <2>1, TakeIs
  <2>3. QED
    BY <1>6, <2>2
<1>8. Append(s.line, Pipe) \in Lines
  <2>1. Pipe \in Seq(Words) /\ s.line \in Seq(Seq(Words))
    BY <1>5 DEF Pipe, Lines, Readers
  <2>2. QED
    BY <2>1, AppendProperties DEF Lines
<1>9. /\ t \in Readers /\ t.lines = s.lines /\ t.cr = s.cr /\ t.word = <<>>
      /\ t.line = Append(s.line, Pipe)
  BY <1>2, <1>5, <1>7, <1>8 DEF Readers
<1>10. EndWord(t) = t /\ EndWord(s) = s
  BY <1>2, <1>5, <1>9, EndWordIs
<1>11. EndWord(t).line = Append(EndWord(After(o + pos)).line, Pipe)
  BY <1>2, <1>9, <1>10
<1>12. Popped(o + (Start + 1))
  BY <1>2, <1>9 DEF Popped, s, t
<1>13. QED
  BY <1>9, <1>11, <1>12 DEF t

\* A new line.
LEMMA NewLineReached ==
  ASSUME ParserTypeOK, NEW o \in Nat, Buffered(o), Reached(o), pos < size,
         NEW next, AtNewLine(next), next <= size
  PROVE  next \in Nat /\ LineEnds(o + next, popped, EndWord(After(o + pos)).line)
<1> DEFINE s == After(o + Start)
<1>0. Start \in Nat /\ size \in Nat /\ Start <= size
  BY StartIs, ParserFacts
<1>1. /\ next \in Nat
      /\ \/ mem[Start + 1] = "n" /\ next = Start + 1
         \/ mem[Start + 1] = "r" /\ next = Start + 2
  <2>1. PICK c \in Seen \cap {"n", "r"} : next = Start + (IF c = "r" THEN 2 ELSE 1)
    BY DEF AtNewLine
  <2>2. next \in Nat /\ next > Start
    BY <1>0, <2>1
  <2>3. next <= size
    OBVIOUS
  <2>4. Start # size
    BY <1>0, <2>2, <2>3
  <2>5. QED
    BY <2>4, NewLineIs
<1>2. /\ Popped(o + Start) /\ EndWord(s).line = EndWord(After(o + pos)).line
  BY StartReached
<1>a. next <= size
  OBVIOUS
<1>b. next > Start
  BY <1>0, <1>1
<1>3. Start < size
  BY <1>0, <1>1, <1>a, <1>b
<1>4. o + Start \in Nat /\ o + Start < Len(text) /\ text \in Seq(Chars)
  BY <1>0, <1>3, BufferIs
<1>5. text[(o + Start) + 1] = mem[Start + 1] /\ (o + Start) + 1 = o + (Start + 1)
  BY <1>0, <1>3, NextShift
<1>6. ~s.cr /\ s.lines = popped
  BY <1>2 DEF Popped
<1>7. /\ text[(o + Start) + 1] = "n" => LineEnds((o + Start) + 1, s.lines, EndWord(s).line)
      /\ text[(o + Start) + 1] = "r" /\ (o + Start) + 1 < Len(text) =>
           LineEnds((o + Start) + 2, s.lines, EndWord(s).line)
  BY <1>4, <1>6, NewLineRead
<1>8. CASE mem[Start + 1] = "n" /\ next = Start + 1
  BY <1>1, <1>2, <1>5, <1>6, <1>7, <1>8
<1>9. CASE mem[Start + 1] = "r" /\ next = Start + 2
  <2>1. next = Start + 2
    BY <1>9
  <2>2. o + next <= Len(text)
    BY <1>1, <1>a, BufferIs
  <2>3. (o + Start) + 1 < Len(text) /\ (o + Start) + 2 = o + next
    <3>1. Len(text) \in Nat
      BY BufferIs
    <3>2. QED
      BY <1>0, <2>1, <2>2, <3>1
  <2>4. QED
    BY <1>1, <1>2, <1>5, <1>6, <1>7, <1>9, <2>3
<1>10. QED
  BY <1>1, <1>8, <1>9

\* Without a new line nothing more is popped.
LEMMA RestReached ==
  ASSUME ParserTypeOK, NEW o \in Nat, Buffered(o), Reached(o), pos < size,
         Start = size \/ WordEnd = size
  PROVE  After(o + size).lines = popped
<1>1. /\ Start \in Nat /\ pos \in Nat /\ pos <= Start /\ Start <= size /\ size \in Nat
      /\ size <= size
  <2>1. pos \in Nat /\ size \in Nat
    BY ParserFacts
  <2>2. size <= size
    BY <2>1
  <2>3. QED
    BY <2>1, <2>2, StartIs
<1>2. MemIn(pos, Start, Plain)
  BY StartIs DEF MemIn, Plain
<1>3. MemIn(Start, size, Plain)
  <2>1. CASE Start = size
    <3>1. Start + 1 .. size = {}
      BY <1>1, <2>1
    <3>2. QED
      BY <3>1 DEF MemIn
  <2>2. CASE WordEnd = size
    BY <2>2, WordEndIs DEF MemIn, Plain
  <2>3. QED
    BY <2>1, <2>2
<1>4. AllIn(o + pos, o + Start, Plain) /\ AllIn(o + Start, o + size, Plain)
  BY <1>1, <1>2, <1>3, Shift
<1>5. /\ o + pos \in Nat /\ o + Start \in Nat /\ o + size \in Nat /\ o + pos <= o + Start
      /\ o + Start <= o + size /\ o + size <= Len(text) /\ o + Start <= Len(text)
      /\ text \in Seq(Chars)
  BY <1>1, BufferIs
<1>6. After(o + Start).lines = After(o + pos).lines /\ ~After(o + Start).cr
  BY <1>4, <1>5, NoNewLineRead DEF Reached, Popped
<1>7. After(o + size).lines = After(o + Start).lines
  BY <1>4, <1>5, <1>6, NoNewLineRead
<1>8. QED
  BY <1>6, <1>7 DEF Reached, Popped

\* What Follows' takes.
LEMMA FollowsIf ==
  ASSUME text' = text, NEW q \in Nat, NEW p \in Nat, NEW z \in Nat, pos' = p, size' = z,
         q + z = fed', \A i \in 1 .. z : mem'[i] = text[q + i],
         mode' = "done" => fed' = Len(text),
         After(q).lines = popped', ~After(q).cr, After(q).line = <<>>, After(q).word = <<>>,
         mode' \in {"parse", "skip"} /\ p <= z =>
           /\ After(q + p).lines = popped' /\ ~After(q + p).cr
           /\ After(q + p).word = <<>> \/ (p < z /\ mem'[p + 1] \in Blanks)
           /\ mode' = "parse" => EndWord(After(q + p)).line = line'
           /\ mode' = "skip" => Broken(EndWord(After(q + p)).line),
         (mode' \in {"parse", "skip"} /\ p > z) \/ mode' \in {"read", "done"} =>
           After(q + z).lines = popped'
  PROVE  Follows'
<1>1. Buffered(q)'
  BY DEF Buffered
<1>2. LineBegins(q)'
  BY DEF LineBegins, Popped, After
<1>3. mode' \in {"parse", "skip"} /\ p <= z => Reached(q)'
  BY DEF Reached, Popped, WordOver, After
<1>4. (mode' \in {"parse", "skip"} /\ p > z) \/ mode' \in {"read", "done"} =>
        (After(q + size).lines)' = popped'
  BY DEF After
<1>5. Understood(q)'
  BY <1>3, <1>4 DEF Understood
<1>6. QED
  BY <1>1, <1>2, <1>5 DEF Follows

\* A new line seen at its place: the parser starts again behind it, or executes the line.
LEMMA ConsumeFollows ==
  ASSUME ParserTypeOK, NEW o \in Nat, Buffered(o), Reached(o), pos < size,
         NEW next \in Nat, AtNewLine(next), parser_consume(next), text' = text, fed' = fed,
         popped' = IF IsPipeline(EndWord(After(o + pos)).line)
                     THEN Append(popped, EndWord(After(o + pos)).line) ELSE popped,
         (mode' = "execute" /\ pos' \in Nat) \/ (mode' = "parse" /\ pos' = 0 /\ line' = <<>>)
  PROVE  Follows'
<1>1. /\ next <= size /\ size' = size - next /\ size' \in Nat
      /\ \A i \in 1 .. size' : mem'[i] = mem[next + i]
  BY ConsumeIs
<1>2. next <= size
  BY <1>1
<1>3. LineEnds(o + next, popped, EndWord(After(o + pos)).line)
  BY <1>2, NewLineReached
<1>4. /\ After(o + next).lines = popped' /\ ~After(o + next).cr
      /\ After(o + next).line = <<>> /\ After(o + next).word = <<>>
  BY <1>3 DEF LineEnds
<1>5. size \in Nat /\ o + next \in Nat /\ fed \in Nat
  BY ParserFacts
<1>6. o + size = fed
  BY DEF Buffered
<1>7. (o + next) + size' = fed'
  <2>1. (o + next) + size' = o + size
    BY <1>1, <1>5
  <2>2. QED
    BY <1>6, <2>1
<1>8. ASSUME NEW i \in 1 .. size' PROVE mem'[i] = text[(o + next) + i]
  <2>1. next + i \in 1 .. size /\ o + (next + i) = (o + next) + i
    BY <1>1, <1>5
  <2>2. mem[next + i] = text[o + (next + i)]
    BY <2>1, BufferIs
  <2>3. QED
    BY <1>1, <2>1, <2>2
<1>9. pos' \in Nat /\ mode' # "done" /\ mode' \notin {"skip", "read", "done"}
  OBVIOUS
<1>10. mode' = "parse" => pos' = 0 /\ line' = <<>> /\ (o + next) + pos' = o + next /\ ~ (pos' > size')
  BY <1>1, <1>5
<1>11. After(o + next) \in Readers
  <2>1. o + next <= Len(text) /\ text \in Seq(Chars)
    BY <1>2, BufferIs
  <2>2. QED
    BY <1>5, <2>1, AfterTyped
<1>12. EndWord(After(o + next)).line = <<>>
  <2>1. EndWord(After(o + next)) = After(o + next)
    BY <1>4, <1>11, EndWordIs
  <2>2. QED
    BY <1>4, <2>1
<1> DEFINE q == o + next
           p == pos'
           z == size'
<1> HIDE DEF q, p, z
<1>13. /\ q \in Nat /\ p \in Nat /\ z \in Nat /\ pos' = p /\ size' = z
       /\ q + z = fed'
       /\ \A i \in 1 .. z : mem'[i] = text[q + i]
       /\ mode' = "done" => fed' = Len(text)
       /\ After(q).lines = popped' /\ ~After(q).cr /\ After(q).line = <<>> /\ After(q).word = <<>>
  BY <1>1, <1>4, <1>5, <1>7, <1>8, <1>9 DEF q, p, z
<1>14. mode' \in {"parse", "skip"} /\ p <= z =>
         /\ After(q + p).lines = popped' /\ ~After(q + p).cr
         /\ After(q + p).word = <<>> \/ (p < z /\ mem'[p + 1] \in Blanks)
         /\ mode' = "parse" => EndWord(After(q + p)).line = line'
         /\ mode' = "skip" => Broken(EndWord(After(q + p)).line)
  BY <1>4, <1>9, <1>10, <1>12 DEF q, p
<1>15. ~ (mode' \in {"parse", "skip"} /\ p > z) /\ mode' \notin {"read", "done"}
  BY <1>9, <1>10 DEF p, z
<1>16. QED
  BY <1>13, <1>14, <1>15, FollowsIf

\* Steps that keep the buffer.
LEMMA KeepFollows ==
  ASSUME ParserTypeOK, NEW o \in Nat, Buffered(o), LineBegins(o),
         text' = text, mem' = mem, size' = size, popped' = popped,
         mode' = "done" => fed' = Len(text),
         fed' = fed,
         NEW p \in Nat, pos' = p,
         mode' \in {"parse", "skip"} /\ p <= size =>
           /\ Popped(o + p)
           /\ After(o + p).word = <<>> \/ (p < size /\ mem[p + 1] \in Blanks)
           /\ mode' = "parse" => EndWord(After(o + p)).line = line'
           /\ mode' = "skip" => Broken(EndWord(After(o + p)).line),
         (mode' \in {"parse", "skip"} /\ p > size) \/ mode' \in {"read", "done"} =>
           After(o + size).lines = popped
  PROVE  Follows'
<1>1. size \in Nat /\ fed \in Nat /\ fed <= Len(text) /\ Len(text) \in Nat
  BY ParserFacts
<1>2. o + size = fed'
  BY DEF Buffered
<1>5. \A i \in 1 .. size : mem'[i] = text[o + i]
  BY BufferIs
<1>6. /\ After(o).lines = popped' /\ ~After(o).cr /\ After(o).line = <<>> /\ After(o).word = <<>>
  BY DEF LineBegins, Popped
<1> DEFINE z == size
<1> HIDE DEF z
<1>7. /\ z \in Nat /\ size' = z /\ o + z = fed'
      /\ \A i \in 1 .. z : mem'[i] = text[o + i]
  BY <1>1, <1>2, <1>5 DEF z
<1>8. mode' \in {"parse", "skip"} /\ p <= z =>
           /\ After(o + p).lines = popped' /\ ~After(o + p).cr
           /\ After(o + p).word = <<>> \/ (p < z /\ mem'[p + 1] \in Blanks)
           /\ mode' = "parse" => EndWord(After(o + p)).line = line'
           /\ mode' = "skip" => Broken(EndWord(After(o + p)).line)
  BY DEF z, Popped
<1>9. (mode' \in {"parse", "skip"} /\ p > z) \/ mode' \in {"read", "done"} =>
           After(o + z).lines = popped'
  BY DEF z
<1>10. QED
  BY <1>6, <1>7, <1>8, <1>9, FollowsIf

\* A line without words is no pipeline: BlankLine may skip it.
LEMMA BlankLineIs == ~IsPipeline(<<>>)
BY DEF IsPipeline

\* The line goes on in the state just shown: a token was taken.
LEMMA TokenFollows ==
  ASSUME ParserTypeOK, NEW o \in Nat, Buffered(o), LineBegins(o), NEW next \in Nat,
         text' = text, mem' = mem, size' = size, popped' = popped, fed' = fed,
         pos' = next,
         next <= size => Popped(o + next),
         mode' \in {"parse", "skip"},
         next <= size => After(o + next).word = <<>> \/ (next < size /\ mem[next + 1] \in Blanks),
         next <= size /\ mode' = "parse" => EndWord(After(o + next)).line = line',
         next <= size /\ mode' = "skip" => Broken(EndWord(After(o + next)).line),
         next > size => After(o + size).lines = popped
  PROVE  Follows'
<1>1. mode' = "done" => fed' = Len(text)
  OBVIOUS
<1>2. mode' \in {"parse", "skip"} /\ next <= size =>
           /\ Popped(o + next)
           /\ After(o + next).word = <<>> \/ (next < size /\ mem[next + 1] \in Blanks)
           /\ mode' = "parse" => EndWord(After(o + next)).line = line'
           /\ mode' = "skip" => Broken(EndWord(After(o + next)).line)
  OBVIOUS
<1>3. (mode' \in {"parse", "skip"} /\ next > size) \/ mode' \in {"read", "done"} =>
           After(o + size).lines = popped
  OBVIOUS
<1>4. QED
  BY <1>1, <1>2, <1>3, KeepFollows

\* Every token that does not end the line keeps the parser with the reader.
LEMMA NextToken ==
  ASSUME ParserTypeOK, LineShape, NEW o \in Nat, Buffered(o), LineBegins(o), Reached(o),
         pos < size,
         NEW next \in Nexts,
         Word(next) \/ PipeToken(next) \/ BlankLine(next) \/ SkipToken(next)
  PROVE  Follows'
<1>0. /\ next \in Nat /\ size \in Nat /\ Start \in Nat /\ Start <= size /\ line \in Lines
      /\ pos \in Nat
  BY NextsAreNat, StartIs, ParserFacts DEF ParserTypeOK
<1>1. /\ text' = text /\ mem' = mem /\ size' = size /\ popped' = popped /\ fed' = fed
      /\ pos' = next
  BY DEF Word, PipeToken, BlankLine, SkipToken
<1> DEFINE l == EndWord(After(o + pos)).line
<1>2. /\ mode = "parse" => l = line
      /\ mode = "skip" => Broken(l)
  BY DEF Reached
<1>a. l \in Lines
  <2>1. After(o + pos) \in Readers
    <3>1. pos <= size
      BY <1>0
    <3>2. QED
      BY <1>0, <3>1, BufferIs, AfterTyped
  <2>2. QED
    BY <2>1, EndWordIs DEF Readers
<1>3. CASE AtWord(next) /\ (Word(next) \/ SkipToken(next))
  <2> DEFINE w == SubSeq(mem, Start + 1, next)
  <2>1. /\ Popped(o + next) /\ EndWord(After(o + next)).line = AddWord(l, w)
        /\ next < size /\ mem[next + 1] \in Blanks
    BY <1>3, WordReached
  <2>2. w \in Words
    BY <1>3, WordIs
  <2> HIDE DEF w
  <2>3. mode = "skip" => Broken(AddWord(l, w))
    BY <1>2, <1>a, <2>2, BrokenIs
  <2>4. mode = "parse" => line' = AddWord(l, w) /\ mode' = "parse"
    BY <1>2, <1>3 DEF Word, SkipToken, AddWord, EndsInCommand, w
  <2>5. mode' = mode /\ mode \in {"parse", "skip"}
    BY <1>3 DEF Word, SkipToken
  <2>6. ~ (next > size)
    BY <1>0, <2>1
  <2> HIDE DEF l
  <2>7. QED
    BY <1>0, <1>1, <2>1, <2>3, <2>4, <2>5, <2>6, TokenFollows
<1>4. CASE AtPipe(next) /\ (PipeToken(next) \/ SkipToken(next))
  <2>1. next = Start + 1 /\ "|" \in Seen
    BY <1>4 DEF AtPipe
  <2>2. mode' \in {"parse", "skip"} /\ mode \in {"parse", "skip"}
    BY <1>4 DEF PipeToken, SkipToken
  <2>3. CASE Start < size
    <3>1. mem[Start + 1] = "|"
      <4>1. Seen = {mem[Start + 1]}
        BY <2>3, StartIs
      <4>2. QED
        BY <2>1, <4>1
    <3>2. /\ Popped(o + next) /\ EndWord(After(o + next)).line = Append(l, Pipe)
          /\ After(o + next).word = <<>>
      BY <2>1, <2>3, <3>1, PipeReached
    <3>3. mode' = "parse" => line' = Append(l, Pipe)
      BY <1>2, <1>4 DEF PipeToken, SkipToken
    <3>4. mode' = "skip" => Broken(Append(l, Pipe))
      <4>1. CASE mode = "skip"
        BY <1>2, <1>a, <4>1, BrokenIs
      <4>2. CASE mode = "parse" /\ mode' = "skip"
        <5>1. ~EndsInCommand /\ Alternates(line) /\ l = line
          BY <1>2, <1>4, <4>2 DEF PipeToken, SkipToken, LineShape
        <5>2. QED
          BY <1>0, <5>1, LineIsPipeline
      <4>3. QED
        BY <2>2, <4>1, <4>2
    <3>5. ~ (next > size)
      BY <1>0, <2>1, <2>3
    <3> HIDE DEF l
    <3>6. QED
      BY <1>0, <1>1, <2>2, <3>2, <3>3, <3>4, <3>5, TokenFollows
  <2>4. CASE Start = size
    <3>1. After(o + size).lines = popped
      BY <2>4, RestReached
    <3>2. ~ (next <= size)
      BY <1>0, <2>1, <2>4
    <3>3. QED
      BY <1>0, <1>1, <2>2, <3>1, <3>2, TokenFollows
  <2>5. QED
    BY <1>0, <2>3, <2>4
<1>5. CASE BlankLine(next)
  <2>1. /\ mode = "parse" /\ AtNewLine(next) /\ line = <<>> /\ line' = line
        /\ mode' = IF next < size THEN mode ELSE "crashed"
    BY <1>5 DEF BlankLine
  <2>2. CASE next < size
    <3>0. next <= size /\ ~ (next > size)
      BY <1>0, <2>2
    <3>1. LineEnds(o + next, popped, l)
      BY <2>1, <3>0, NewLineReached
    <3>2. l = <<>> /\ ~IsPipeline(l)
      BY <1>2, <2>1, BlankLineIs
    <3>3. /\ After(o + next).lines = popped /\ ~After(o + next).cr
          /\ After(o + next).line = <<>> /\ After(o + next).word = <<>>
      BY <3>1, <3>2 DEF LineEnds
    <3>4. After(o + next) \in Readers
      BY <1>0, <3>0, BufferIs, AfterTyped
    <3>5. EndWord(After(o + next)) = After(o + next)
      BY <3>3, <3>4, EndWordIs
    <3>6. Popped(o + next) /\ EndWord(After(o + next)).line = line'
      BY <2>1, <3>3, <3>5 DEF Popped
    <3>7. mode' = "parse"
      BY <2>1, <2>2
    <3>8. QED
      BY <1>0, <1>1, <3>0, <3>3, <3>6, <3>7, TokenFollows
  <2>3. CASE ~ (next < size)
    <3>1. mode' \notin {"parse", "skip", "read", "done"}
      BY <2>1, <2>3
    <3>2. mode' = "done" => fed' = Len(text)
      BY <3>1
    <3>3. mode' \in {"parse", "skip"} /\ next <= size =>
           /\ Popped(o + next)
           /\ After(o + next).word = <<>> \/ (next < size /\ mem[next + 1] \in Blanks)
           /\ mode' = "parse" => EndWord(After(o + next)).line = line'
           /\ mode' = "skip" => Broken(EndWord(After(o + next)).line)
      BY <3>1
    <3>4. (mode' \in {"parse", "skip"} /\ next > size) \/ mode' \in {"read", "done"} =>
           After(o + size).lines = popped
      BY <3>1
    <3>5. QED
      BY <1>0, <1>1, <3>2, <3>3, <3>4, KeepFollows
  <2>4. QED
    BY <2>2, <2>3
<1>6. QED
  BY <1>3, <1>4, <1>5 DEF Word, PipeToken, SkipToken

\* A reading goes no further than what it has read: texts that begin alike are
\* read alike.
LEMMA ReadAlike ==
  ASSUME NEW t \in Seq(Chars), NEW u \in Seq(Chars), NEW m \in Nat, m <= Len(t), m <= Len(u),
         \A i \in 1 .. m : t[i] = u[i]
  PROVE  \A n \in Nat : n <= m => Readings(t)[n] = Readings(u)[n]
<1> DEFINE f == Readings(t)
           g == Readings(u)
           A == {n \in Nat : n <= m => f[n] = g[n]}
<1>1. /\ f = [n \in 0 .. Len(t) |-> IF n = 0 THEN Nothing ELSE Take(f[n - 1], t[n])]
      /\ g = [n \in 0 .. Len(u) |-> IF n = 0 THEN Nothing ELSE Take(g[n - 1], u[n])]
  BY ReadingsAre DEF ReadingOf
<1>2. Len(t) \in Nat /\ Len(u) \in Nat
  BY LenProperties
<1> HIDE DEF f, g
<1>3. 0 \in A
  <2>1. 0 \in 0 .. Len(t) /\ 0 \in 0 .. Len(u)
    BY <1>2
  <2>2. f[0] = Nothing /\ g[0] = Nothing
    BY <1>1, <2>1
  <2>3. QED
    BY <2>2
<1>4. ASSUME NEW n \in A PROVE n + 1 \in A
  <2> SUFFICES ASSUME n + 1 <= m PROVE f[n + 1] = g[n + 1]
    OBVIOUS
  <2>1. /\ n \in Nat /\ n <= m /\ n + 1 \in 1 .. m /\ n + 1 # 0 /\ (n + 1) - 1 = n
        /\ n + 1 \in 0 .. Len(t) /\ n + 1 \in 0 .. Len(u)
    BY <1>2
  <2>2. f[n] = g[n] /\ t[n + 1] = u[n + 1]
    BY <2>1
  <2>3. f[n + 1] = Take(f[n], t[n + 1]) /\ g[n + 1] = Take(g[n], u[n + 1])
    BY <1>1, <2>1
  <2>4. QED
    BY <2>2, <2>3
<1>5. A \in SUBSET Nat
  OBVIOUS
<1> HIDE DEF A
<1>6. A = Nat
  BY <1>3, <1>4, <1>5, SetInduction
<1>7. QED
  BY <1>6 DEF A, f, g

\* A command takes nothing that the shell has read: what was understood still is.
LEMMA WithoutFollows ==
  ASSUME ParserTypeOK, Follows, UNCHANGED <<fed, mem, size, pos, line, popped, mode>>,
         NEW k \in 1 .. Len(text) - fed, text' = Without(k)
  PROVE  Follows'
<1>0. PICK o \in Nat : Buffered(o) /\ LineBegins(o) /\ Understood(o)
  BY DEF Follows
<1>1. /\ text \in Seq(Chars) /\ Len(text) \in Nat /\ fed \in Nat /\ fed <= Len(text)
      /\ size \in Nat /\ pos \in Nat
  BY ParserFacts
<1>2. /\ text' \in Seq(Chars) /\ fed <= Len(text') /\ \A i \in 1 .. fed : text'[i] = text[i]
  BY WithoutIs
<1>3. \A n \in Nat : n <= fed => Readings(text')[n] = Readings(text)[n]
  BY <1>1, <1>2, ReadAlike
<1>4. o + size = fed /\ \A i \in 1 .. size : mem[i] = text[o + i]
  BY <1>0 DEF Buffered
<1>5. Buffered(o)'
  <2>1. ASSUME NEW i \in 1 .. size PROVE mem[i] = text'[o + i]
    <3>1. o + i \in 1 .. fed
      BY <1>1, <1>4
    <3>2. QED
      BY <1>2, <1>4, <3>1
  <2>2. QED
    BY <1>4, <2>1 DEF Buffered
<1>6. Readings(text')[o] = Readings(text)[o] /\ Readings(text')[o + size] = Readings(text)[o + size]
  <2>1. o <= fed /\ o + size <= fed /\ o + size \in Nat
    BY <1>1, <1>4
  <2>2. QED
    BY <1>3, <2>1
<1>7. pos <= size => Readings(text')[o + pos] = Readings(text)[o + pos]
  <2>1. pos <= size => o + pos <= fed /\ o + pos \in Nat
    BY <1>1, <1>4
  <2>2. QED
    BY <1>3, <2>1
<1>8. LineBegins(o)'
  BY <1>0, <1>6 DEF LineBegins, Popped, After
<1>9. pos <= size /\ Reached(o) => Reached(o)'
  BY <1>7 DEF Reached, Popped, WordOver, After
<1>10. Understood(o)'
  BY <1>0, <1>6, <1>9 DEF Understood, After
<1>11. mode' # "done"
  <2>1. fed # Len(text)
    BY <1>1
  <2>2. QED
    BY <2>1 DEF Follows
<1>12. QED
  BY <1>5, <1>8, <1>10, <1>11 DEF Follows

\* The whole state of the reading is kept by what is not the parser's.
LEMMA RestFollows ==
  ASSUME ParserTypeOK, Follows,
         execute_cmd \/ Reap \/ LineDone \/ Command \/ UNCHANGED shellVars
  PROVE  Follows'
<1>0. PICK o \in Nat : Buffered(o) /\ LineBegins(o) /\ Understood(o)
  BY DEF Follows
<1>1. /\ mem' = mem /\ size' = size /\ popped' = popped /\ fed' = fed
      /\ \/ text' = text /\ UNCHANGED <<pos, line, mode>>
         \/ text' = text /\ pos' = 0 /\ line' = <<>> /\ mode' = "parse"
         \/ /\ UNCHANGED <<pos, line, mode>>
            /\ \E k \in 1 .. Len(text) - fed : text' = Without(k)
  BY OtherSteps
<1>2. pos \in Nat /\ size \in Nat
  BY ParserFacts
<1>3. mode = "done" => fed = Len(text)
  BY DEF Follows
<1>4. CASE text' = text /\ UNCHANGED <<pos, line, mode>>
  <2>1. mode' = "done" => fed' = Len(text)
    BY <1>1, <1>3, <1>4
  <2>2. mode' \in {"parse", "skip"} /\ pos <= size =>
           /\ Popped(o + pos)
           /\ After(o + pos).word = <<>> \/ (pos < size /\ mem[pos + 1] \in Blanks)
           /\ mode' = "parse" => EndWord(After(o + pos)).line = line'
           /\ mode' = "skip" => Broken(EndWord(After(o + pos)).line)
    BY <1>0, <1>4 DEF Understood, Reached, WordOver
  <2>3. (mode' \in {"parse", "skip"} /\ pos > size) \/ mode' \in {"read", "done"} =>
           After(o + size).lines = popped
    BY <1>0, <1>4 DEF Understood
  <2> DEFINE p == pos
  <2> HIDE DEF p
  <2>4. p \in Nat /\ pos' = p
    BY <1>2, <1>4 DEF p
  <2>5. QED
    BY <1>0, <1>1, <1>4, <2>1, <2>2, <2>3, <2>4, KeepFollows DEF p
<1>5. CASE text' = text /\ pos' = 0 /\ line' = <<>> /\ mode' = "parse"
  <2>1. mode' = "done" => fed' = Len(text)
    BY <1>5
  <2>2. o + 0 = o /\ ~ (0 > size) /\ text \in Seq(Chars) /\ o <= Len(text)
    <3>1. text \in Seq(Chars) /\ o + size <= Len(text) /\ Len(text) \in Nat
      BY <1>0, BufferIs
    <3>2. QED
      BY <1>2, <3>1
  <2>3. /\ Popped(o) /\ After(o).word = <<>> /\ After(o).line = <<>> /\ After(o) \in Readers
    BY <1>0, <2>2, AfterTyped DEF LineBegins
  <2>4. EndWord(After(o)).line = line'
    BY <1>5, <2>3, EndWordIs
  <2>5. mode' \in {"parse", "skip"} /\ 0 <= size =>
           /\ Popped(o + 0)
           /\ After(o + 0).word = <<>> \/ (0 < size /\ mem[0 + 1] \in Blanks)
           /\ mode' = "parse" => EndWord(After(o + 0)).line = line'
           /\ mode' = "skip" => Broken(EndWord(After(o + 0)).line)
    BY <1>5, <2>2, <2>3, <2>4
  <2>6. (mode' \in {"parse", "skip"} /\ 0 > size) \/ mode' \in {"read", "done"} =>
           After(o + size).lines = popped
    BY <1>5, <2>2
  <2>7. 0 \in Nat /\ pos' = 0
    BY <1>5
  <2>8. QED
    BY <1>0, <1>1, <1>5, <2>1, <2>5, <2>6, <2>7, KeepFollows
<1>6. CASE /\ UNCHANGED <<pos, line, mode>>
           /\ \E k \in 1 .. Len(text) - fed : text' = Without(k)
  BY <1>1, <1>6, WithoutFollows
<1>7. QED
  BY <1>1, <1>4, <1>5, <1>6

\* read() appends the next characters of the script, wherever it cuts it.
LEMMA FeedFollows ==
  ASSUME ParserTypeOK, Follows, Feed, UNCHANGED execVars
  PROVE  Follows'
<1>0. PICK o \in Nat : Buffered(o) /\ LineBegins(o) /\ Understood(o)
  BY DEF Follows
<1>1. PICK k \in Nat :
        /\ k > 0 /\ size' = size + k /\ fed' = fed + k /\ fed + k <= Len(text)
        /\ \A i \in 1 .. size : mem'[i] = mem[i]
        /\ \A i \in size + 1 .. size + k : mem'[i] = text[fed + i - size]
  BY FeedIs
<1>2. k > 0 /\ size' = size + k /\ fed' = fed + k /\ fed + k <= Len(text)
  BY <1>1
<1>3. text' = text /\ popped' = popped /\ pos' = 0 /\ line' = <<>> /\ mode' = "parse"
  BY DEF Feed, PopNext
<1>4. fed \in Nat /\ size \in Nat /\ Len(text) \in Nat
  BY ParserFacts
<1>6. o + size = fed
  BY <1>0 DEF Buffered
<1>7. o + (size + k) = fed'
  BY <1>2, <1>4, <1>6
<1>8. ASSUME NEW i \in 1 .. size + k PROVE mem'[i] = text[o + i]
  <2>1. CASE i <= size
    <3>1. i \in 1 .. size
      BY <1>4, <2>1
    <3>2. QED
      BY <1>0, <1>1, <3>1, BufferIs
  <2>2. CASE ~ (i <= size)
    <3>1. i \in size + 1 .. size + k /\ fed + i - size = o + i
      BY <1>4, <1>6, <2>2
    <3>2. QED
      BY <1>1, <3>1
  <2>3. QED
    BY <2>1, <2>2
<1>9. /\ After(o).lines = popped' /\ ~After(o).cr /\ After(o).line = <<>> /\ After(o).word = <<>>
  BY <1>0, <1>3 DEF LineBegins, Popped
<1>10. o + 0 = o /\ text \in Seq(Chars) /\ o <= Len(text)
  BY <1>0, <1>4, <1>6, <1>2, ParserFacts
<1>11. EndWord(After(o)).line = line'
  <2>1. After(o) \in Readers
    BY <1>10, AfterTyped
  <2>2. QED
    BY <1>3, <1>9, <2>1, EndWordIs
<1> DEFINE z == size + k
<1>12. z \in Nat /\ size' = z /\ o + z = fed' /\ o + z <= fed' /\ ~ (0 > z)
  BY <1>2, <1>4, <1>7
<1>13. \A i \in 1 .. z : mem'[i] = text[o + i]
  BY <1>8
<1> HIDE DEF z
<1>14. mode' = "done" => fed' = Len(text)
  BY <1>3
<1>15. mode' \in {"parse", "skip"} /\ 0 <= z =>
           /\ After(o + 0).lines = popped' /\ ~After(o + 0).cr
           /\ After(o + 0).word = <<>> \/ (0 < z /\ mem'[0 + 1] \in Blanks)
           /\ mode' = "parse" => EndWord(After(o + 0)).line = line'
           /\ mode' = "skip" => Broken(EndWord(After(o + 0)).line)
  BY <1>3, <1>9, <1>10, <1>11
<1>16. (mode' \in {"parse", "skip"} /\ 0 > z) \/ mode' \in {"read", "done"} =>
           After(o + z).lines = popped'
  BY <1>3, <1>12
<1>17. 0 \in Nat /\ pos' = 0 /\ o + z = fed'
  BY <1>3, <1>12
<1>18. QED
  BY <1>3, <1>9, <1>12, <1>13, <1>14, <1>15, <1>16, <1>17, FollowsIf

\* No line is found: what is left holds none.
LEMMA NoLineFollows ==
  ASSUME ParserTypeOK, Follows, NoLine \/ EndOfInput, UNCHANGED execVars
  PROVE  Follows'
<1>0. PICK o \in Nat : Buffered(o) /\ LineBegins(o) /\ Understood(o)
  BY DEF Follows
<1>1. /\ UNCHANGED <<text, fed, mem, size, pos, line, popped>>
      /\ mode' \in {"read", "done"} /\ (mode' = "done" => fed = Len(text))
      /\ pos \in Nat /\ size \in Nat
  BY ParserFacts DEF NoLine, EndOfInput, execVars
<1>2. After(o + size).lines = popped
  <2>1. CASE EndOfInput
    BY <1>0, <2>1 DEF EndOfInput, Understood
  <2>2. CASE NoLine
    <3>1. mode \in {"parse", "skip"} /\ (pos >= size \/ NoToken)
      BY <2>2 DEF NoLine
    <3>2. CASE pos > size
      BY <1>0, <3>1, <3>2 DEF Understood
    <3>3. CASE pos = size
      <4>1. pos <= size
        BY <1>1, <3>3
      <4>2. QED
        BY <1>0, <3>1, <3>3, <4>1 DEF Understood, Reached, Popped
    <3>4. CASE pos < size
      <4>1. pos <= size /\ ~ (pos >= size)
        BY <1>1, <3>4
      <4>2. Reached(o) /\ WordEnd = size
        BY <1>0, <3>1, <4>1 DEF Understood, NoToken
      <4>3. QED
        BY <1>0, <3>4, <4>2, RestReached
    <3>5. QED
      BY <1>1, <3>2, <3>3, <3>4
  <2>3. QED
    BY <2>1, <2>2
<1>4. mode' = "done" => fed' = Len(text)
  BY <1>1
<1>5. mode' \notin {"parse", "skip"}
  BY <1>1
<1> DEFINE p == pos
<1> HIDE DEF p
<1>6. p \in Nat /\ pos' = p
  BY <1>1 DEF p
<1>7. mode' \in {"parse", "skip"} /\ p <= size =>
           /\ Popped(o + p)
           /\ After(o + p).word = <<>> \/ (p < size /\ mem[p + 1] \in Blanks)
           /\ mode' = "parse" => EndWord(After(o + p)).line = line'
           /\ mode' = "skip" => Broken(EndWord(After(o + p)).line)
  BY <1>5
<1>8. (mode' \in {"parse", "skip"} /\ p > size) \/ mode' \in {"read", "done"} =>
           After(o + size).lines = popped
  BY <1>2
<1>9. QED
  BY <1>0, <1>1, <1>4, <1>6, <1>7, <1>8, KeepFollows

\* A line ends, or the shell crashes.
LEMMA EndFollows ==
  ASSUME ParserTypeOK, LineShape, Follows, pos < size, NEW next \in Nexts,
         EndOfLine(next) \/ SkipLine(next) \/ ConsumeFails(next)
  PROVE  Follows'
<1>0. PICK o \in Nat : Buffered(o) /\ LineBegins(o) /\ Understood(o)
  BY DEF Follows
<1>1. next \in Nat /\ pos \in Nat /\ size \in Nat /\ line \in Lines
  BY NextsAreNat, ParserFacts DEF ParserTypeOK
<1>3. pos <= size
  BY <1>1
<1> DEFINE l == EndWord(After(o + pos)).line
<1>4. CASE EndOfLine(next)
  <2>1. /\ mode = "parse" /\ AtNewLine(next) /\ line # <<>> /\ parser_consume(next)
        /\ text' = text /\ fed' = fed
        /\ IF EndsInCommand
             THEN popped' = Append(popped, line) /\ mode' = "execute" /\ pos' = pos
             ELSE pos' = 0 /\ line' = <<>> /\ mode' = "parse" /\ popped' = popped
    BY <1>4 DEF EndOfLine, PopNext
  <2>2. Reached(o) /\ l = line
    BY <1>0, <1>3, <2>1 DEF Understood, Reached
  <2>3. EndsInCommand <=> IsPipeline(line)
    BY <1>1, <2>1, LineIsPipeline DEF LineShape
  <2>4. popped' = IF IsPipeline(l) THEN Append(popped, l) ELSE popped
    BY <2>1, <2>2, <2>3
  <2>5. (mode' = "execute" /\ pos' \in Nat) \/ (mode' = "parse" /\ pos' = 0 /\ line' = <<>>)
    BY <1>1, <2>1
  <2>6. QED
    BY <1>0, <1>1, <2>1, <2>2, <2>4, <2>5, ConsumeFollows
<1>5. CASE SkipLine(next)
  <2>1. /\ mode = "skip" /\ AtNewLine(next) /\ parser_consume(next)
        /\ text' = text /\ fed' = fed
        /\ pos' = 0 /\ line' = <<>> /\ mode' = "parse" /\ popped' = popped
    BY <1>5 DEF SkipLine, PopNext
  <2>2. Reached(o) /\ Broken(l)
    BY <1>0, <1>3, <2>1 DEF Understood, Reached
  <2>3. l \in Lines
    <3>1. After(o + pos) \in Readers
      BY <1>0, <1>1, <1>3, BufferIs, AfterTyped
    <3>2. QED
      BY <3>1, EndWordIs DEF Readers
  <2>4. popped' = IF IsPipeline(l) THEN Append(popped, l) ELSE popped
    BY <2>1, <2>2, <2>3, BrokenIs
  <2>5. (mode' = "execute" /\ pos' \in Nat) \/ (mode' = "parse" /\ pos' = 0 /\ line' = <<>>)
    BY <2>1
  <2>6. QED
    BY <1>0, <1>1, <2>1, <2>2, <2>4, <2>5, ConsumeFollows
<1>6. CASE ConsumeFails(next)
  <2>1. UNCHANGED <<text, fed, mem, size, pos, line, popped>> /\ mode' = "crashed"
    BY <1>6 DEF ConsumeFails
  <2>2. mode' = "done" => fed' = Len(text)
    BY <2>1
  <2> DEFINE p == pos
  <2> HIDE DEF p
  <2>3. p \in Nat /\ pos' = p
    BY <1>1, <2>1 DEF p
  <2>4. mode' \in {"parse", "skip"} /\ p <= size =>
           /\ Popped(o + p)
           /\ After(o + p).word = <<>> \/ (p < size /\ mem[p + 1] \in Blanks)
           /\ mode' = "parse" => EndWord(After(o + p)).line = line'
           /\ mode' = "skip" => Broken(EndWord(After(o + p)).line)
    BY <2>1
  <2>5. (mode' \in {"parse", "skip"} /\ p > size) \/ mode' \in {"read", "done"} =>
           After(o + size).lines = popped
    BY <2>1
  <2>6. QED
    BY <1>0, <2>1, <2>2, <2>3, <2>4, <2>5, KeepFollows
<1>7. QED
  BY <1>4, <1>5, <1>6

\* Follows survives every step of the shell and of its commands.
LEMMA FollowsStep ==
  ASSUME ParserTypeOK, LineShape, Follows, [ShellNext]_shellVars
  PROVE  Follows'
<1>1. CASE Feed /\ UNCHANGED execVars
  BY <1>1, FeedFollows
<1>2. CASE (NoLine \/ EndOfInput) /\ UNCHANGED execVars
  BY <1>2, NoLineFollows
<1>3. ASSUME pos < size, UNCHANGED execVars, NEW next \in Nexts,
             \/ Word(next) \/ PipeToken(next) \/ BlankLine(next) \/ EndOfLine(next)
             \/ SkipToken(next) \/ SkipLine(next) \/ ConsumeFails(next)
      PROVE  Follows'
  <2>1. CASE EndOfLine(next) \/ SkipLine(next) \/ ConsumeFails(next)
    BY <1>3, <2>1, EndFollows
  <2>2. CASE Word(next) \/ PipeToken(next) \/ BlankLine(next) \/ SkipToken(next)
    <3>1. PICK o \in Nat : Buffered(o) /\ LineBegins(o) /\ Understood(o)
      BY DEF Follows
    <3>2. mode \in {"parse", "skip"}
      BY <2>2 DEF Word, PipeToken, BlankLine, SkipToken
    <3>3. pos <= size
      BY <1>3, ParserFacts
    <3>4. Reached(o)
      BY <3>1, <3>2, <3>3 DEF Understood
    <3>5. QED
      BY <1>3, <2>2, <3>1, <3>4, NextToken
  <2>3. QED
    BY <1>3, <2>1, <2>2
<1>4. CASE execute_cmd \/ Reap \/ LineDone \/ Command \/ UNCHANGED shellVars
  BY <1>4, RestFollows
<1>5. QED
  BY <1>1, <1>2, <1>3, <1>4, ShellSteps

\* At first nothing has been read.
LEMMA FollowsInit ==
  ASSUME ShellInit
  PROVE  Follows
<1>1. /\ text \in Texts /\ fed = 0 /\ mem = <<>> /\ size = 0 /\ pos = 0 /\ popped = <<>>
      /\ mode = "read"
  BY DEF ShellInit, ParserInit
<1>2. text \in Seq(Chars)
  BY <1>1, TextsAssumption
<1>3. After(0) = Nothing
  BY <1>2, AfterIs
<1>4. /\ After(0).lines = <<>> /\ After(0).line = <<>> /\ After(0).word = <<>> /\ ~After(0).cr
  BY <1>3 DEF Nothing
<1>5. Buffered(0)
  BY <1>1 DEF Buffered
<1>6. LineBegins(0)
  BY <1>1, <1>4 DEF LineBegins, Popped
<1>7. Understood(0)
  <2>1. After(0 + size).lines = popped
    BY <1>1, <1>4
  <2>2. QED
    BY <1>1, <2>1 DEF Understood
<1>8. QED
  BY <1>1, <1>5, <1>6, <1>7 DEF Follows

\* Follows implies ChunksDoNotMatter: what comes later only adds lines.
LEMMA FollowsShows ==
  ASSUME ParserTypeOK, Follows
  PROVE  ChunksDoNotMatter
<1>0. PICK o \in Nat : Buffered(o) /\ LineBegins(o) /\ Understood(o)
  BY DEF Follows
<1>1. text \in Seq(Chars) /\ Len(text) \in Nat /\ o + size <= Len(text) /\ size \in Nat
  BY <1>0, BufferIs, ParserFacts
<1>2. o <= Len(text) /\ Len(text) <= Len(text)
  BY <1>1
<1>3. Meaning(text) = After(Len(text)).lines
  BY DEF Meaning, After
<1>4. After(o) \in Readers /\ After(Len(text)) \in Readers
  BY <1>1, <1>2, AfterTyped
<1>5. After(o).lines = popped
  BY <1>0 DEF LineBegins, Popped
<1>6. Begins(popped, Meaning(text))
  BY <1>1, <1>2, <1>3, <1>5, LinesGrow
<1>7. popped \in Seq(Lines) /\ Meaning(text) \in Seq(Lines)
  BY <1>3, <1>4, <1>5 DEF Readers
<1>8. IsPrefix(popped, Meaning(text))
  BY <1>6, <1>7, BeginsIs
<1>9. ASSUME mode = "done" PROVE popped = Meaning(text)
  <2>1. fed = Len(text) /\ o + size = fed /\ After(o + size).lines = popped
    BY <1>0, <1>9 DEF Follows, Buffered, Understood
  <2>2. QED
    BY <1>3, <2>1
<1>10. QED
  BY <1>8, <1>9 DEF ChunksDoNotMatter

\* Wherever the script is cut, the lines popped are the ones it says.
THEOREM ShellReads == ShellSpec => []ChunksDoNotMatter
<1>1. ShellInit => ParserTypeOK /\ Idle /\ LineShape /\ Follows
  BY ParserTyped, DescriptorsInit, FollowsInit DEF Descriptors
<1>2. ParserTypeOK /\ Idle /\ LineShape /\ Follows /\ [ShellNext]_shellVars
      => ParserTypeOK' /\ Idle' /\ LineShape' /\ Follows'
  BY ParserTyped, IdleStep, LineShapeStep, FollowsStep
<1>3. ParserTypeOK /\ Follows => ChunksDoNotMatter
  BY FollowsShows
<1>4. QED
  BY <1>1, <1>2, <1>3, PTL DEF ShellSpec
=============================================================================
