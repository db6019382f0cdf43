--------------------------- MODULE BogatyriSockets ---------------------------
(***************************************************************************)
(* The bogatyri as processes with TCP sockets (sems/bogatyri/sockets2.c).  *)
(* Process 0 collects the pids of the others and sends the sorted list     *)
(* back; the place in it is a process's rank.  Every rank then has a       *)
(* server; the active process says its letter and connects to the one      *)
(* whose turn is next.  All connects are tried a bounded number of times,  *)
(* with nothing but sleeps to make the other side ready.  A process is     *)
(* known by its index, the argument of process_function.                   *)
(***************************************************************************)
EXTENDS Integers, Sequences, FiniteSets

CONSTANTS
  N,              \* how many processes
  Songs,          \* argv[1]: sequences of letters, as their rank (code % N)
  ReportTries,    \* how often a process tries to reach process 0
  Tries,          \* how often any other connect is tried
  MaxForkFails,   \* how many fork() calls may fail
  MaxBindFails    \* how many create_tcp_server calls may fail

ASSUME SizesAssumption ==
  /\ N \in Nat \ {0} /\ ReportTries \in Nat \ {0} /\ Tries \in Nat \ {0}
  /\ MaxForkFails \in Nat /\ MaxBindFails \in Nat

Index == 0 .. N - 1
Ranks == 0 .. N - 1

ASSUME SongsAssumption == Songs \subseteq Seq(Ranks)

EOF == -1

VARIABLES
  song, said,
  pid,        \* the pid the kernel gives each process
  pc,         \* where each process is
  tries,      \* failed attempts of the connect loop it is in
  target,     \* the loop variable of process 0's and of the EOF loop
  index,      \* current_index
  reported,   \* whose pid process 0 has, or has in its backlog
  listed,     \* to whom the list of pids has been sent
  inbox,      \* what waits in the backlog of each process's server
  forked, forkFails, bindFails,
  missed      \* has somebody been given up on?

turn    == <<said, index, inbox>>
pids    == <<song, pid, reported, listed>>
mainVars == <<forked, forkFails>>
vars == <<turn, pids, pc, tries, target, mainVars, bindFails, missed>>

Init ==
  /\ song \in Songs /\ said = <<>>
  /\ pid \in {f \in [Index -> 1 .. N] : \A i, j \in Index : f[i] = f[j] => i = j}
  /\ pc = [i \in Index |-> "unborn"]
  /\ tries = [i \in Index |-> 0] /\ target = [i \in Index |-> 0]
  /\ index = [i \in Index |-> 0]
  /\ reported = {} /\ listed = {} /\ inbox = [i \in Index |-> <<>>]
  /\ forked = 0 /\ forkFails = 0 /\ bindFails = 0 /\ missed = FALSE

To(i, label) == pc' = [pc EXCEPT ![i] = label]

\* compare_pids sorts in descending order.  Process 0 waits for N - 1 pids, so
\* everybody who gets a list gets all of them.
Rank(i) == Cardinality({j \in Index : pid[j] > pid[i]})
Who(r)  == CHOOSE i \in Index : Rank(i) = r

Mutant_Over(i) == index[i] >= Len(song) - 1

Over(i) == index[i] >= Len(song)
Turn(i) == song[index[i] + 1]

\* A process with a server; the kernel completes connects on its behalf.
Up(i) == pc[i] \in {"sleep", "active", "pass", "eof", "idle"}

\* One more attempt of a loop of max is refused: on to `next` after the last.
Refused(i, max, next) ==
  IF tries[i] + 1 < max
    THEN tries' = [tries EXCEPT ![i] = @ + 1] /\ UNCHANGED pc
    ELSE tries' = [tries EXCEPT ![i] = 0] /\ To(i, next)

LastTry(i, max) == tries[i] + 1 >= max

-----------------------------------------------------------------------------
(* exchange_pids                                                           *)

\* Process 0: socket, bind, listen.
Listen0 ==
  /\ pc[0] = "start" /\ To(0, "accept")
  /\ UNCHANGED <<turn, pids, tries, target, mainVars, bindFails, missed>>

\* The N-th pid is in; sort them.
AcceptAll ==
  /\ pc[0] = "accept" /\ reported = Index \ {0}
  /\ To(0, IF N > 1 THEN "send" ELSE "server")
  /\ target' = [target EXCEPT ![0] = 1]
  /\ UNCHANGED <<turn, pids, tries, mainVars, bindFails, missed>>

\* The list goes to process target: sent, or given up after the last try.
SendList ==
  /\ pc[0] = "send"
  /\ LET t    == target[0]
         next == IF t = N - 1 THEN "server" ELSE "send"
     IN  \/ /\ pc[t] = "await"
            /\ listed' = listed \cup {t} /\ target' = [target EXCEPT ![0] = t + 1]
            /\ tries' = [tries EXCEPT ![0] = 0] /\ To(0, next)
            /\ UNCHANGED missed
         \/ /\ pc[t] # "await" /\ Refused(0, Tries, next)
            /\ target' = [target EXCEPT ![0] = IF LastTry(0, Tries) THEN t + 1 ELSE t]
            /\ missed' = (missed \/ LastTry(0, Tries))
            /\ UNCHANGED listed
  /\ UNCHANGED <<turn, song, pid, reported, mainVars, bindFails>>

\* Another process reports its pid, or gives up and waits for the list anyway.
Report(i) ==
  /\ i # 0 /\ pc[i] = "start"
  /\ \/ /\ pc[0] = "accept"
        /\ reported' = reported \cup {i}
        /\ tries' = [tries EXCEPT ![i] = 0] /\ To(i, "listen")
        /\ UNCHANGED missed
     \/ /\ pc[0] # "accept" /\ Refused(i, ReportTries, "listen")
        /\ missed' = (missed \/ LastTry(i, ReportTries))
        /\ UNCHANGED reported
  /\ UNCHANGED <<turn, song, pid, listed, target, mainVars, bindFails>>

ListenForList(i) ==
  /\ pc[i] = "listen" /\ To(i, "await")
  /\ UNCHANGED <<turn, pids, tries, target, mainVars, bindFails, missed>>

GetList(i) ==
  /\ pc[i] = "await" /\ i \in listed /\ To(i, "server")
  /\ UNCHANGED <<turn, pids, tries, target, mainVars, bindFails, missed>>

exchange_pids(i) ==
  \/ i = 0 /\ (Listen0 \/ AcceptAll \/ SendList)
  \/ Report(i) \/ ListenForList(i) \/ GetList(i)

-----------------------------------------------------------------------------
(* process_function                                                        *)

create_tcp_server(i) ==
  /\ pc[i] = "server"
  /\ \/ To(i, "sleep") /\ UNCHANGED <<bindFails, missed>>
     \/ /\ bindFails < MaxBindFails /\ bindFails' = bindFails + 1
        /\ To(i, "failed") /\ missed' = TRUE
  /\ UNCHANGED <<turn, pids, tries, target, mainVars>>

Mutant_Wake(i) ==
  /\ pc[i] = "sleep" /\ To(i, IF Rank(i) <= 1 THEN "active" ELSE "idle")
  /\ UNCHANGED <<turn, pids, tries, target, mainVars, bindFails, missed>>

\* sleep(2) is all there is of a barrier.
Wake(i) ==
  /\ pc[i] = "sleep" /\ To(i, IF Rank(i) = 0 THEN "active" ELSE "idle")
  /\ UNCHANGED <<turn, pids, tries, target, mainVars, bindFails, missed>>

SongOver(i) ==
  /\ pc[i] = "active" /\ Over(i) /\ To(i, "eof")
  /\ target' = [target EXCEPT ![i] = 0]
  /\ UNCHANGED <<turn, pids, tries, mainVars, bindFails, missed>>

Say(i) ==
  /\ pc[i] = "active" /\ ~Over(i) /\ Turn(i) = Rank(i)
  /\ said' = Append(said, Turn(i))
  /\ index' = [index EXCEPT ![i] = @ + 1]
  /\ To(i, IF index'[i] < Len(song) THEN "pass" ELSE "active")
  /\ UNCHANGED <<inbox, pids, tries, target, mainVars, bindFails, missed>>

NotMine(i) ==
  /\ pc[i] = "active" /\ ~Over(i) /\ Turn(i) # Rank(i) /\ To(i, "pass")
  /\ UNCHANGED <<turn, pids, tries, target, mainVars, bindFails, missed>>

Mutant_Pass(i) ==
  /\ pc[i] = "pass"
  /\ LET next == Who(Turn(i))
     IN  \/ /\ Up(next) /\ inbox' = [inbox EXCEPT ![next] = Append(@, index[i])]
            /\ tries' = [tries EXCEPT ![i] = 0] /\ To(i, "idle")
         \/ ~Up(next) /\ Refused(i, Tries, "idle") /\ UNCHANGED inbox
  /\ UNCHANGED <<said, index, pids, target, mainVars, bindFails, missed>>

\* connect_to_process and send; the process whose turn is next may be this one.
\* If it cannot be reached this one stays active and starts again.
Pass(i) ==
  /\ pc[i] = "pass"
  /\ LET next == Who(Turn(i))
     IN  \/ /\ Up(next) /\ inbox' = [inbox EXCEPT ![next] = Append(@, index[i])]
            /\ tries' = [tries EXCEPT ![i] = 0] /\ To(i, "idle")
         \/ ~Up(next) /\ Refused(i, Tries, "active") /\ UNCHANGED inbox
  /\ UNCHANGED <<said, index, pids, target, mainVars, bindFails, missed>>

\* poll, accept, recv; a process that leaves closes its server.
Receive(i) ==
  /\ pc[i] = "idle" /\ inbox[i] # <<>>
  /\ LET m == Head(inbox[i])
     IN  IF m = EOF THEN To(i, "exited") /\ UNCHANGED index
                    ELSE To(i, "active") /\ index' = [index EXCEPT ![i] = m]
  /\ inbox' = [inbox EXCEPT ![i] = Tail(@)]
  /\ UNCHANGED <<said, pids, tries, target, mainVars, bindFails, missed>>

\* One attempt to tell rank target of the end, itself left out.
SendEOF(i) ==
  /\ pc[i] = "eof"
  /\ LET t    == Who(target[i])
         next == IF target[i] = N - 1 THEN "exited" ELSE "eof"
         on   == target' = [target EXCEPT ![i] = @ + 1]
     IN  \/ t = i /\ To(i, next) /\ on /\ UNCHANGED <<tries, inbox, missed>>
         \/ /\ t # i /\ Up(t) /\ inbox' = [inbox EXCEPT ![t] = Append(@, EOF)]
            /\ tries' = [tries EXCEPT ![i] = 0] /\ To(i, next) /\ on
            /\ UNCHANGED missed
         \/ /\ t # i /\ ~Up(t) /\ Refused(i, Tries, next)
            /\ IF LastTry(i, Tries) THEN on /\ missed' = TRUE
                                    ELSE UNCHANGED <<target, missed>>
            /\ UNCHANGED inbox
  /\ UNCHANGED <<said, index, pids, mainVars, bindFails>>

Process(i) ==
  \/ exchange_pids(i) \/ create_tcp_server(i) \/ Wake(i) \/ SongOver(i) \/ Say(i)
  \/ NotMine(i) \/ Pass(i) \/ Receive(i) \/ SendEOF(i)

-----------------------------------------------------------------------------
(* main                                                                    *)

\* fork() = -1 is not 0: the loop goes on without that process.
Fork ==
  /\ forked < N /\ forked' = forked + 1
  /\ \/ To(forked, "start") /\ UNCHANGED forkFails
     \/ forkFails < MaxForkFails /\ forkFails' = forkFails + 1 /\ UNCHANGED pc
  /\ UNCHANGED <<turn, pids, tries, target, bindFails, missed>>

\* N calls of wait(), and "Done!".
Wait ==
  /\ forked = N /\ forked' = N + 1
  /\ \A i \in Index : pc[i] \in {"unborn", "failed", "exited"}
  /\ UNCHANGED <<turn, pids, pc, tries, target, forkFails, bindFails, missed>>

Main == Fork \/ Wait

Next == Main \/ \E i \in Index : Process(i)

Spec == Init /\ [][Next]_vars

\* Every process that can run does; a connection to it reaches it.
FairSpec == Spec /\ WF_vars(Main) /\ \A i \in Index : WF_vars(Process(i))

-----------------------------------------------------------------------------
(* Properties.                                                             *)

TypeOK ==
  /\ song \in Songs /\ said \in Seq(Ranks)
  /\ pid \in [Index -> 1 .. N]
  /\ pc \in [Index -> {"unborn", "start", "accept", "send", "listen", "await", "server",
                       "sleep", "active", "pass", "eof", "idle", "failed", "exited"}]
  /\ tries \in [Index -> Nat] /\ target \in [Index -> 0 .. N]
  /\ index \in [Index -> Nat]
  /\ reported \subseteq Index /\ listed \subseteq Index
  /\ inbox \in [Index -> Seq(Nat \cup {EOF})]
  /\ forked \in 0 .. N + 1 /\ forkFails \in 0 .. MaxForkFails
  /\ bindFails \in 0 .. MaxBindFails /\ missed \in BOOLEAN

\* There is never more than one turn, held by a process or on its way to one,
\* however often a connect is refused and tried again; and the index that goes
\* with it counts the letters said.
Active == {i \in Index : pc[i] \in {"active", "pass", "eof"}}
InTransit == {i \in Index : \E k \in DOMAIN inbox[i] : inbox[i][k] # EOF}
OneTurn ==
  /\ Cardinality(Active) + Cardinality(InTransit) <= 1
  /\ \A i \in Active : index[i] = Len(said)
  /\ \A i \in InTransit : \A k \in DOMAIN inbox[i] : inbox[i][k] = Len(said)

\* Through retries, self-connections and lost processes, what is said is the
\* song of Song, and the end is sent only after its last letter.
TheSong == INSTANCE Song WITH over <- \E i \in Index : pc[i] \in {"eof", "exited"}
SongSpec == TheSong!Spec

\* main returns unless a process is missing, could not have its port, or was
\* given up on: by process 0, by itself, or by the one that sends EOF.  A refused
\* turn alone loses nothing.
Returns == <>(forked = N + 1 \/ missed \/ forkFails > 0)
=============================================================================
