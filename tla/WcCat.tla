-------------------------------- MODULE WcCat --------------------------------
(***************************************************************************)
(* wc (sems/wc/wc.c) runs a command and counts what it writes to standard  *)
(* output and to standard error, through two pipes and one epoll loop.     *)
(* The command here is mycat (sems/3week/mycat.c): it copies the files its *)
(* arguments name, or its standard input when there are none, to standard  *)
(* output, and complains on standard error about what it cannot read.      *)
(***************************************************************************)
EXTENDS Integers, Sequences, FiniteSetsExt

CONSTANTS
  Args,          \* what mycat copies, its arguments or standard input alone:
                 \* sequences of texts, or Unreadable
  Complaint,     \* what perror writes
  BUFFER_SIZE,   \* of wc
  PipeCap,       \* how much a pipe holds
  MaxStops       \* how often epoll_wait may be interrupted

Chars == {"a", " ", "n"}   \* any letter, ' ' and '\n'
Unreadable == <<"?">>

ASSUME ArgsAssumption == Args \subseteq Seq(Seq(Chars) \cup {Unreadable}) \ {<<>>}
ASSUME ComplaintAssumption == Complaint \in Seq(Chars)
ASSUME SizesAssumption ==
  BUFFER_SIZE \in Nat \ {0} /\ PipeCap \in Nat \ {0} /\ MaxStops \in Nat

Streams == {"out", "err"}

VARIABLES
  args, file,     \* mycat: what it copies, and how many of them it has begun
  to, left,       \* where it writes, and what it has still to write there
  catpc,
  pipe,           \* the bytes in each pipe
  open, events,   \* wc: the read ends not closed, those epoll_wait returned
  info,           \* stdout_info and stderr_info
  mode,           \* wc is counting, waiting for the command, or done
  stops,          \* interruptions of epoll_wait
  seen, cuts      \* what count() has read of each stream, and where reads ended

cat  == <<args, file, to, left, catpc>>
wcVars == <<cat, pipe, open, events, info, mode, stops, seen, cuts>>

\* A fork() or an execvp() that fails leaves pipes nobody writes to.
WcInit ==
  /\ args \in Args /\ file = 0 /\ to = "out" /\ left = <<>>
  /\ catpc \in {"running", "exited"}
  /\ pipe = [s \in Streams |-> <<>>]
  /\ open = Streams /\ events = {}
  /\ info = [s \in Streams |-> [bytes |-> 0, words |-> 0, lines |-> 0]]
  /\ mode = "count" /\ stops = 0
  /\ seen = [s \in Streams |-> <<>>] /\ cuts = [s \in Streams |-> {}]

-----------------------------------------------------------------------------
(* mycat                                                                   *)

\* open() and stream(), or stream() of standard input, or perror(): a directory
\* opens but cannot be read.
OpenNext ==
  /\ catpc = "running" /\ left = <<>> /\ file < Len(args)
  /\ file' = file + 1
  /\ IF args[file'] = Unreadable THEN to' = "err" /\ left' = Complaint
                                 ELSE to' = "out" /\ left' = args[file']
  /\ UNCHANGED <<args, catpc, pipe, open, events, info, mode, stops, seen, cuts>>

\* safewrite: the pipe takes as much as it has room for.
Write ==
  /\ left # <<>>
  /\ \E k \in 1 .. Min({Len(left), PipeCap - Len(pipe[to])}) :
       /\ pipe' = [pipe EXCEPT ![to] = @ \o SubSeq(left, 1, k)]
       /\ left' = SubSeq(left, k + 1, Len(left))
  /\ UNCHANGED <<args, file, to, catpc, open, events, info, mode, stops, seen, cuts>>

Exit ==
  /\ catpc = "running" /\ left = <<>> /\ file = Len(args) /\ catpc' = "exited"
  /\ UNCHANGED <<args, file, to, left, pipe, open, events, info, mode, stops, seen, cuts>>

Cat == OpenNext \/ Write \/ Exit

-----------------------------------------------------------------------------
(* wc                                                                      *)

Mutant_HasEvent(s) == s \in open /\ pipe[s] # <<>>

\* Bytes to read, or the end of the stream (EPOLLHUP needs no asking for).
HasEvent(s) == s \in open /\ (pipe[s] # <<>> \/ catpc = "exited")

Mutant_Counting == open = Streams

Counting == open # {}

epoll_wait ==
  /\ mode = "count" /\ events = {} /\ Counting
  /\ events' = {s \in Streams : HasEvent(s)} /\ events' # {}
  /\ UNCHANGED <<cat, pipe, open, info, mode, stops, seen, cuts>>

\* A SIGSTOP and a SIGCONT while it sleeps are enough for EINTR: wc stops
\* counting, keeps its ends of the pipes and goes on to wait().
Interrupted ==
  /\ mode = "count" /\ events = {} /\ Counting /\ stops < MaxStops
  /\ \A s \in Streams : ~HasEvent(s)
  /\ stops' = stops + 1 /\ mode' = "wait"
  /\ UNCHANGED <<cat, pipe, open, events, info, seen, cuts>>

Space(c) == c \in {" ", "n"}

Mutant_Words(t) ==
  Cardinality({i \in 1 .. Len(t) : ~Space(t[i]) /\ i > 1 /\ Space(t[i - 1])})

\* The words of one buffer: in_word is false at its start.
Words(t) ==
  Cardinality({i \in 1 .. Len(t) : ~Space(t[i]) /\ (i = 1 \/ Space(t[i - 1]))})

Lines(t) == Cardinality({i \in 1 .. Len(t) : t[i] = "n"})

\* read(); the bytes are those there now, not those there at epoll_wait.
count(s) ==
  LET n == Min({BUFFER_SIZE, Len(pipe[s])})
      t == SubSeq(pipe[s], 1, n)
  IN  /\ pipe' = [pipe EXCEPT ![s] = SubSeq(@, n + 1, Len(@))]
      /\ info' = [info EXCEPT ![s].bytes = @ + n, ![s].words = @ + Words(t),
                              ![s].lines = @ + Lines(t)]
      /\ seen' = [seen EXCEPT ![s] = @ \o t]
      /\ cuts' = [cuts EXCEPT ![s] = @ \cup {Len(seen'[s])}]

Handle ==
  /\ mode = "count"
  /\ \E s \in events :
       /\ events' = events \ {s}
       /\ count(s)
       /\ open' = IF pipe[s] = <<>> THEN open \ {s} ELSE open
  /\ UNCHANGED <<cat, mode, stops>>

\* dump_wc_info of both.
Dump ==
  /\ mode = "count" /\ events = {} /\ ~Counting /\ mode' = "wait"
  /\ UNCHANGED <<cat, pipe, open, events, info, stops, seen, cuts>>

Wait ==
  /\ mode = "wait" /\ catpc = "exited" /\ mode' = "done"
  /\ UNCHANGED <<cat, pipe, open, events, info, stops, seen, cuts>>

Wc == epoll_wait \/ Handle \/ Dump \/ Wait

WcNext == Cat \/ Wc \/ Interrupted

WcSpec == WcInit /\ [][WcNext]_wcVars

\* Both processes get the CPU; what is ready is reported.
WcFairSpec == WcSpec /\ WF_wcVars(Cat) /\ WF_wcVars(Wc)

-----------------------------------------------------------------------------
(* Properties.                                                             *)

\* Bytes and lines are exact whatever the reads cut; of the words, one that a
\* read ends in the middle of is counted once more for every such cut.
NewLines(t) == {i \in DOMAIN t : t[i] = "n"}
InWord(t, i) == i \in 1 .. Len(t) - 1 /\ ~Space(t[i]) /\ ~Space(t[i + 1])
WordStarts(t) == {i \in 1 .. Len(t) : ~Space(t[i]) /\ ~InWord(t, i - 1)}
CountsAreExact ==
  \A s \in Streams :
    LET t == seen[s]
    IN  info[s] = [bytes |-> Len(t), lines |-> Cardinality(NewLines(t)),
                   words |-> Cardinality(WordStarts(t))
                               + Cardinality({i \in cuts[s] : InWord(t, i)})]

\* What the command says in s of its first n arguments: a readable one's text
\* goes to standard output, a complaint about any other to standard error.
Says(s, arg) ==
  IF arg = Unreadable THEN IF s = "err" THEN Complaint ELSE <<>>
                      ELSE IF s = "out" THEN arg ELSE <<>>
Output(s) ==
  LET said[n \in 0 .. Len(args)] ==
        IF n = 0 THEN <<>> ELSE said[n - 1] \o Says(s, args[n])
  IN  said

\* If epoll_wait is never interrupted, what is reported is all the command
\* wrote, or nothing if it never ran.
ReportIsComplete ==
  mode # "count" /\ stops = 0 =>
    \A s \in Streams : seen[s] = Output(s)[IF file = 0 THEN 0 ELSE Len(args)]

\* wc returns, unless it was interrupted and the command waits for room in a
\* pipe that wc holds and does not read.
Stuck == mode = "wait" /\ stops > 0 /\ left # <<>> /\ Len(pipe[to]) = PipeCap
Termination == <>(mode = "done" \/ Stuck)
=============================================================================
