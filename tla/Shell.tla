-------------------------------- MODULE Shell --------------------------------
(***************************************************************************)
(* The shell of sems/4week/myshell/src: the parser of ShellParser and the  *)
(* execution of each line it pops (execute_cmd of myshell.c).  The         *)
(* commands of a pipeline run one after the other: each is forked, its     *)
(* descriptors are redirected, and it is waited for before the next one    *)
(* exists.  Descriptors are modelled as the kernel hands them out, because *)
(* input_fd outlives the line, and the descriptor, it was set for.         *)
(***************************************************************************)
EXTENDS ShellParser, SequencesExt

CONSTANTS
  PipeCap,       \* how much a pipe holds
  MaxOutput,     \* how much a command may write
  MaxFailures    \* how many fork() calls may fail

ASSUME LimitsAssumption ==
  PipeCap \in Nat \ {0} /\ MaxOutput \in Nat /\ MaxFailures \in Nat

Fds == 0 .. 9   \* more than are ever open at once
Closed   == <<"closed", 0>>
Script   == <<"script", 0>>
Terminal == <<"terminal", 0>>
ReadEnd(p)  == <<"read", p>>
WriteEnd(p) == <<"write", p>>

VARIABLES
  fds, input_fd,   \* the shell's descriptors
  pipes,           \* how much each pipe holds
  cmd,             \* which expression of the line is next
  child,           \* the command that runs, if any
  piped,           \* how much the command before it wrote
  failures

execVars == <<fds, input_fd, pipes, cmd, child, piped, failures>>
shellVars == <<parserVars, execVars>>

NoChild == [fds |-> <<>>, reads |-> "done", left |-> 0, got |-> 0, wrote |-> 0]

ShellInit ==
  /\ ParserInit
  /\ fds = [f \in Fds |-> CASE f = 0 -> Script [] f \in {1, 2} -> Terminal [] OTHER -> Closed]
  /\ input_fd = 0 /\ pipes = <<>> /\ cmd = 1 /\ child = NoChild
  /\ piped = 0 /\ failures = 0

close(t, f)   == [t EXCEPT ![f] = Closed]
dup2(t, f, g) == IF t[f] = Closed THEN t ELSE [t EXCEPT ![g] = t[f]]

-----------------------------------------------------------------------------
(* execute_cmd                                                             *)

is_next_pipe == cmd < Len(line) /\ line[cmd + 1] = Pipe

\* pipe() returns the lowest free descriptors.
Lowest  == Min({f \in Fds : fds[f] = Closed})
fildes  == <<Lowest, Min({f \in Fds : fds[f] = Closed /\ f # Lowest})>>
NewPipe == Len(pipes) + 1
WithPipe ==
  IF is_next_pipe
    THEN [fds EXCEPT ![fildes[1]] = ReadEnd(NewPipe), ![fildes[2]] = WriteEnd(NewPipe)]
    ELSE fds

\* What the child makes of the descriptors it inherits.
ChildFds ==
  LET in == IF input_fd # 0 THEN close(dup2(WithPipe, input_fd, 0), input_fd) ELSE WithPipe
  IN  IF is_next_pipe THEN close(close(dup2(in, fildes[2], 1), fildes[1]), fildes[2]) ELSE in

Mutant_ParentFds == IF input_fd # 0 THEN close(WithPipe, input_fd) ELSE WithPipe

ParentFds ==
  LET in == IF input_fd # 0 THEN close(WithPipe, input_fd) ELSE WithPipe
  IN  IF is_next_pipe THEN close(in, fildes[2]) ELSE in

Mutant_NextInput == input_fd

NextInput == IF is_next_pipe THEN fildes[1] ELSE input_fd

\* A command reads nothing, once, or all there is, and writes what it likes; one
\* that cannot be exec'd does neither.  A failed fork() goes the parent's way.
execute_cmd ==
  /\ mode = "execute" /\ child = NoChild /\ cmd <= Len(line)
  /\ fds' = ParentFds
  /\ input_fd' = NextInput
  /\ pipes' = IF is_next_pipe THEN Append(pipes, 0) ELSE pipes
  /\ \/ /\ \E r \in {"nothing", "once", "all"}, n \in 0 .. MaxOutput :
             child' = [fds |-> ChildFds, reads |-> r, left |-> n, got |-> 0, wrote |-> 0]
        /\ UNCHANGED <<failures, piped, cmd>>
     \/ /\ failures < MaxFailures /\ failures' = failures + 1
        /\ piped' = 0 /\ cmd' = cmd + 2 /\ UNCHANGED child
  /\ UNCHANGED parserVars

\* waitpid; the expression after a command, a pipe, does nothing.
Reap ==
  /\ child # NoChild /\ child.reads \in {"nothing", "done"} /\ child.left = 0
  /\ piped' = child.wrote /\ cmd' = cmd + 2 /\ child' = NoChild
  /\ UNCHANGED <<parserVars, fds, input_fd, pipes, failures>>

LineDone ==
  /\ mode = "execute" /\ child = NoChild /\ cmd > Len(line)
  /\ cmd' = 1 /\ PopNext
  /\ UNCHANGED <<text, fed, mem, size, popped>>
  /\ UNCHANGED <<fds, input_fd, pipes, child, piped, failures>>

-----------------------------------------------------------------------------
(* The command.                                                            *)

stdin  == child.fds[0]
stdout == child.fds[1]
Reading == child # NoChild /\ child.reads \in {"once", "all"}
Holds(t, e) == \E f \in DOMAIN t : t[f] = e

ReadPipe ==
  /\ Reading /\ stdin[1] = "read" /\ pipes[stdin[2]] > 0
  /\ pipes' = [pipes EXCEPT ![stdin[2]] = @ - 1]
  /\ child' = [child EXCEPT !.got = @ + 1,
                            !.reads = IF @ = "once" THEN "nothing" ELSE @]
  /\ UNCHANGED <<parserVars, fds, input_fd, cmd, piped, failures>>

\* The pipe is empty and nobody can write to it any more, or stdin cannot be
\* read from at all.
ReadEnds ==
  /\ Reading
  /\ \/ stdin[1] = "write"
     \/ /\ stdin[1] = "read" /\ pipes[stdin[2]] = 0
        /\ ~Holds(fds, WriteEnd(stdin[2])) /\ ~Holds(child.fds, WriteEnd(stdin[2]))
  /\ child' = [child EXCEPT !.reads = "done"]
  /\ UNCHANGED <<parserVars, fds, input_fd, pipes, cmd, piped, failures>>

\* The next k characters of the script, behind those the shell has read, are taken.
Without(k) == SubSeq(text, 1, fed) \o SubSeq(text, fed + k + 1, Len(text))

\* The command shares the script with the shell: one read() takes some of what
\* is left, a line of a terminal or a buffer of a file, and the shell goes on
\* behind it; or it is told that nothing is left.
ReadScript ==
  /\ Reading /\ stdin = Script
  /\ \/ /\ fed = Len(text) /\ UNCHANGED text
        /\ child' = [child EXCEPT !.reads = "done"]
     \/ /\ \E k \in 1 .. Len(text) - fed : text' = Without(k)
        /\ child' = [child EXCEPT !.reads = IF @ = "once" THEN "nothing" ELSE @]
  /\ UNCHANGED <<fed, mem, size, pos, line, popped, mode>>
  /\ UNCHANGED <<fds, input_fd, pipes, cmd, piped, failures>>

\* Somebody always holds the other end: the shell, or the command itself.
Write ==
  /\ child.left > 0
  /\ \/ stdout = Terminal /\ UNCHANGED pipes
     \/ /\ stdout[1] = "write" /\ pipes[stdout[2]] < PipeCap
        /\ pipes' = [pipes EXCEPT ![stdout[2]] = @ + 1]
  /\ child' = [child EXCEPT !.left = @ - 1, !.wrote = @ + 1]
  /\ UNCHANGED <<parserVars, fds, input_fd, cmd, piped, failures>>

Command == ReadPipe \/ ReadEnds \/ ReadScript \/ Write

TheShell == (Parser /\ UNCHANGED execVars) \/ execute_cmd \/ Reap \/ LineDone

ShellNext == TheShell \/ Command

ShellSpec == ShellInit /\ [][ShellNext]_shellVars

\* The shell and the command it waits for get the CPU.
ShellFairSpec == ShellSpec /\ WF_shellVars(TheShell) /\ WF_shellVars(Command)

-----------------------------------------------------------------------------
(* Properties.                                                             *)

\* What a script says, character by character and whatever its chunks: its
\* complete lines, without the ones whose pipes lack a command.  A '\r' ends a
\* line and takes the next character, its '\n', with it.
AddWord(l, w) ==
  IF l # <<>> /\ l[Len(l)] # Pipe THEN [l EXCEPT ![Len(l)] = Append(@, w)]
                                  ELSE Append(l, <<w>>)
EndWord(s) ==
  IF s.word = <<>> THEN s ELSE [s EXCEPT !.word = <<>>, !.line = AddWord(@, s.word)]
IsPipeline(l) ==
  /\ l # <<>> /\ l[1] # Pipe /\ l[Len(l)] # Pipe
  /\ \A i \in 1 .. Len(l) - 1 : l[i] = Pipe => l[i + 1] # Pipe
EndLine(s) ==
  [s EXCEPT !.lines = IF IsPipeline(s.line) THEN Append(@, s.line) ELSE @, !.line = <<>>]
Take(s, c) ==
  CASE s.cr -> [s EXCEPT !.cr = FALSE]
    [] ~s.cr /\ c \in {"n", "r"} -> [EndLine(EndWord(s)) EXCEPT !.cr = c = "r"]
    [] ~s.cr /\ c = " " -> EndWord(s)
    [] ~s.cr /\ c = "|" /\ s.word = <<>> -> [s EXCEPT !.line = Append(@, Pipe)]
    [] OTHER -> [s EXCEPT !.word = Append(@, c)]
Nothing == [lines |-> <<>>, line |-> <<>>, word |-> <<>>, cr |-> FALSE]
Readings(t) ==
  LET reading[n \in 0 .. Len(t)] == IF n = 0 THEN Nothing ELSE Take(reading[n - 1], t[n])
  IN  reading
Meaning(t) == Readings(t)[Len(t)].lines

\* Wherever read() cuts the script, and whatever commands take out of it, the
\* lines popped are the beginning of the ones that the rest of it says, and at
\* its end all of them.
ChunksDoNotMatter ==
  LET lines == Meaning(text)
  IN  /\ IsPrefix(popped, lines)
      /\ mode = "done" => popped = lines

\* An assertion fails only if a chunk ended between '\r' and '\n', or after a
\* space, or if all that has been read since the last line is blank lines.
Live == SubSeq(mem, 1, size)
BlankAt(i) == Live[i] \in {" ", "n", "r"} \/ (i > 1 /\ Live[i - 1] = "r")
CrashesOnlyThen ==
  mode = "crashed" => Live[size] \in {"r", " "} \/ \A i \in 1 .. size : BlankAt(i)

\* A command that reads all of its pipe has got all the command before it
\* wrote, and the script is read only by the first command of a line, unless
\* an earlier line had a pipe: then input_fd is that pipe's, and closed.
AfterPipeline == \E i \in 1 .. Len(popped) - 1 : Pipe \in Range(popped[i])
PipelineConnects ==
  child # NoChild /\ cmd > 1 /\ ~AfterPipeline =>
    stdin # Script /\ (child.reads = "done" => child.got = piped)

\* The script is worked through to its end, unless the shell crashes, a command
\* writes more than its pipe holds while its reader does not exist yet, or,
\* after an earlier pipeline, waits for the end of its own output.
Overflows   == child.left > 0 /\ stdout[1] = "write" /\ pipes[stdout[2]] = PipeCap
ReadsItself == AfterPipeline /\ Reading /\ stdin = ReadEnd(stdout[2])
Termination == <>(mode \in {"done", "crashed"} \/ Overflows \/ ReadsItself)

\* assert(line->tail != NULL) in parser_pop_next, assert(p->size >= size) in
\* parser_consume.
AssertionsHold == mode # "crashed"
=============================================================================
