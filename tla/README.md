# Specifications of the programs of 3sem-OS

TLA+ models of the concurrent programs under `src/sems/`, the TLC
configurations that check them and the TLAPS proofs about every program modelled.
`PROJECT.json` is the index: the components, the runs with what each checks,
the definition-to-source map, the hazards, the findings and the theorems.

## The system

The repository is a collection of small C programs, one per topic of an
operating systems course. They share no code except copies of `safewrite` and
`saferead`, so every component below is a program of its own; inside a
program, processes or threads interact through shared memory, message queues,
signals, pipes or sockets.

| component | source | state | operations | interaction | what makes it correct |
|---|---|---|---|---|---|
| pcat on semaphores | `pcat/on_semaphors/pcat.c` | ring buffer header and storage, semaphores full, empty, mutex, in shared memory | `get_write`, `complete_write`, `get_read`, `complete_read`, set-up and clean-up | a writer and a reader process; the bytes are transferred outside the mutex | the output is the concatenation; unread bytes are not overwritten; no post is missed; it ends; everything acquired is released |
| pcat on monitors | `pcat/on_monitors/pcat.c` | the same buffer, a mutex, two condition variables | the same | two threads | the same |
| relay race | `5week/relay_raceSysV.c`, `relay_racePOSIX.c` | one message queue, the judge's counter | report, start, pass the baton, finish | N runners, a judge, a parent | the judge's announcement is true; one baton; the race ends and the queue goes away |
| bogatyri as threads | `bogatyri/main.c` | song position, current letter, numbers given out | take a number, barrier, say, sleep, leave | N threads on one condition variable | the song comes out in order; nobody sleeps through their letter; main returns |
| bogatyri with a message queue | `bogatyri/msgq_bogatyri.c` | registry file, message queue, an index per process | register, find one's rank, say, pass, end of song | N processes | different ranks; the song in order; everybody hears of the end |
| bogatyri with sockets | `bogatyri/sockets2.c` | pids at process 0, one listening socket per rank, an index per process | exchange pids, connect with retries, say, pass, end of string | N processes | one turn at a time; the song in order; main returns unless somebody was given up on |
| signals | `signals/main.c` | pending and blocked signals, bit and byte counters | send a bit, sleep, acknowledge | parent and child, two signals | no signal is merged or lost; the text arrives |
| merge sort | `mergesort/mergesort.c` | the array, the segments | sort a segment, join, merge, check | N threads and main | the result is the sorted input |
| wc | `wc/wc.c`, with `3week/mycat.c` as its command | counters per stream, epoll set | count what a read returns, close, report, wait | a child process, two pipes | the counts are those of the whole stream; nothing is dropped; it returns |
| shell | `4week/myshell/src/` | the parser's buffer; the descriptors and `static input_fd` | feed, pop a line, execute, wait | a pipeline of processes | lines are the same however they are cut; every command runs with its neighbours' pipe ends; the script is worked through |
| cp, ls, sym, exercises | `3week`, `myls`, `symlinks_recursive`, `2week` | none to speak of | copy a stream, list a directory | files | the copy is the original |

The hard parts are the interleavings of two to 128 actors around a lock or a
queue, wakeups that can be missed, messages that can be taken by the wrong
party, calls that fail half way (`fork`, `pthread_create`, `shm_open`, `read`),
queues and buffers at their limit, and index arithmetic at a boundary.
`PROJECT.json` lists them one by one with the line they bite at.

## The modules

**PcatBuffer** is what the two pcats have in common: the header (`start`, `end`,
`size` with `upd_buffer_size` and `shift_*_by_k`), the storage, and the
`saferead`/`safewrite` loops that move a file in chunks of any length, may fail
(`MaxFaults`), and may run past the end of the storage. There the kernel either
stops (`EFAULT`: a short transfer that nobody notices) or overwrites what is
mapped next (`undefined`, after which nothing is claimed); both are explored. A byte is its position in the
concatenation of the files, so "the right byte at the right place" is an
equality.

**PcatSem** adds the three semaphores, the two children and the parent: one
action per call that somebody else can observe, with the program counters named
after the place in `get_*` (`get_lock`, `get_check`, `get_park`, `wait_full`,
`get_unlock`), in the transfer (`io`) and in `complete_*` (`put_lock`,
`put_mark`, `put_post`, `put_unlock`). `full` starts at 0 or at `Capacity`,
because `sem_init` reads the capacity field of the header before it is set.
**PcatMon** is the same with a mutex, wait sets and spurious wakeups, and with
the address computed after the unlock, where the code computes it. Its `main` looks at
the result of neither `pthread_create`: a thread may be `missing`, and joining it,
with an id nobody set, may return, hang or end the process.

**FileQueue** is the abstract specification of both: a FIFO of whole files that
holds at most `Capacity` bytes. `QueueSpec` in PcatSem and PcatMon is its
instance with `written <- wfile - 1`, `taken <- rfile - 1`; `complete_write` is
`Put`, `complete_read` is `Take`, everything else stutters.

**PcatSetup** is the sequential frame of the semaphore version: the twelve calls
of `init_shared_memory` with their error branches, `main`'s allocations and
`open`s, `get_filesize`, `cleanup_shared_memory`. `held` is the set of what the
process has, `todo` the releases that a rollback or the clean-up still has to make.
**Pcat** composes the two into the whole program: PcatSetup up to its phase `run`, then PcatSem (the children take steps only then), and after
`Reap` PcatSetup again. A property of the one that depends on the other, such as
"nothing is given back that a child still uses", is stated there.

**RelaySysV** and **RelayPosix**: a queue as a sequence from which `msgrcv`
takes the oldest message of a type, and as a bag from which `mq_receive` takes
one of the highest priority. In the latter `mq_receive_with_set_prio` is its two
steps, take and put back. Both have main's forks, which may fail, and a queue
that may not have been created; RelayPosix runs several races, as its `main`
does, each with `mq_unlink`, a new queue and new processes.

**Song** is the abstract specification of the three bogatyri: the letters of a
song are said one at a time, in order, and the end is declared only when all
have been said. `SongSpec` in each is its instance with the version's own idea of
the end. **BogatyriMonitor**: one action per critical section of `bogatyr`; a
broadcast moves every sleeper to where it looks again. The failure branch of
`main` (`CreateFails`) is included. **BogatyriMsgq**: the registry is a set (the
append is one write under `flock`), the queue a sequence per rank with a common
limit, and `broadcast_eof_to_all` one turn of its loop at a time. Any call of a child may
fail (`CallFails`): with the registry, `msgget` and `msgrcv` the child is `failed`
afterwards and tells nobody, with `msgsnd` it goes on and the message is lost.
**BogatyriSockets**: a process is known by its index; the pids, any permutation,
give the ranks. Each attempt of a `connect` loop is a step that succeeds if the
other side listens at that moment (`accept`, `await`, or `Up` for the servers of
the ranks) and otherwise counts in `tries`; `inbox` is the backlog of a server.
Time does not pass in the model: a loop may use up its attempts before the other
side is there, which covers every length of `usleep` and `sleep(2)`.

**Signals**: each process has a set of pending signals (they do not queue) that
are only delivered in its `sigsuspend`. The child's acknowledgement (`Got`) and its use of
the bit (`Store`) are two steps, so that the parent may have sent the next bit, of the
next byte even, while this one is still to be stored. **MergeSort**: the threads, the joins,
and the merge one element at a time; what it leaves unwritten of `malloc`ed
memory is any value.

**ShellParser** is `parser.c` and the reading loop of `main.c`: the script arrives
in chunks cut anywhere, `mem` is the whole allocated buffer (so what
`parser_consume` leaves behind the live part is in it, and `Unknown` where
nothing was ever written), and each action is one token of `parser_pop_next` or
of its error path. **Shell** extends it by `execute_cmd`. A descriptor table is a
function from numbers to what they stand for (the script, the terminal, an end
of a pipe), `pipe()` takes the lowest free numbers, and `input_fd` keeps its value
from one line to the next, as the `static` does. A command reads nothing, once or
to the end of its standard input and writes any amount up to `MaxOutput`, in any order.
If its standard input is the script, it shares it with the shell: each `read()` takes
any number of the characters behind those the shell has (a line of a terminal, a
buffer of a file), and the shell goes on behind them. `text` is the script less what
commands have taken.
`Meaning` is the reference the parser is held against: a reader that takes the
script one character at a time (`Take`) and knows nothing of chunks and buffers.

**WcCat** is `wc` running `mycat`. The command's texts, two pipes of finite
capacity, what `epoll_wait` returned and has not been handled yet, and one `read`
per event; `seen` and `cuts` record what was read and where reads ended, for the
properties only. `Output` is what the arguments make the command say, whatever pipes
and reads do to it; without arguments `mycat` copies standard input, which is then its
one text.

The `MC*` modules give the constants that a `.cfg` cannot write down.
Definitions named `Mutant_X` are variants of `X` with a bug a programmer might
make; each shows that the property it is listed with in `PROJECT.json` can fail.

## The runs

| run | bounds | what it shows |
|---|---|---|
| Pcat | capacity 3, files of 2, 0, 2, 2 bytes, any call of the set-up failing, one failing `read` or `write`, one failing fork | the whole program: every rollback is complete, nothing is given back twice, too early or never; in between the indices wrap, the writer blocks, an empty file passes through: size counts the unread bytes, the handed out region is free, no wakeup is lost, the bytes come out in order, pcat returns, and it implements FileQueue |
| PcatMon | the same files, with spurious wakeups, either `pthread_create` failing | wakeups, order and FileQueue of the monitor version, also with one thread missing; main returns when both exist |
| RelaySysV | 4 runners, one failing fork, queue valid or not | the announcement is true although reports are taken by the wrong party; one baton; the race ends |
| RelayPosix | 4 runners, a queue of 4, 2 races, one failing fork, queue valid or not | the same with receivers that put messages back; nobody blocks in `mq_send`; nothing of a race reaches the next |
| BogatyriMonitor | 3 threads, songs of up to 3 letters out of 3 codes, one of which nobody has | numbers, wakeups, Song; main returns for songs that can be sung, also when a thread cannot be created |
| BogatyriMsgq | 3 processes, such songs, a queue of 4, any call of a child failing | Song, whatever fails; main returns unless a message was lost or a child left early |
| BogatyriSockets | 3 processes, all songs of up to 3 letters, 2 attempts per connect, one failing fork, one failing bind | one turn, whatever is refused; Song; main returns unless somebody is missing or was given up on |
| Signals | bytes of 2 bits, texts of up to 3 bytes, fork may fail | no signal is merged; a bit acknowledged before it is used goes to its own place; texts without zero bytes arrive |
| MergeSort | 4 elements out of 0..3, 2 threads | segments are sorted when merged; success is true |
| Shell | scripts of up to 4 keys (letter, space, pipe, `\n`, `\r\n`, `\r`) and five with pipelines after one another, chunks of up to 4, pipes of 1, outputs of up to 2, one failing fork | the lines are those of the script less what commands read of it, however both are cut; assertions fail only in the cases named; pipelines connect, except after a pipeline; the script is worked through, except where a pipe overflows |
| ShellBlankLine | the same, outputs of up to 1, no failing fork | **violated**: a chunk that ends with a blank line aborts the shell |
| WcCat | files or standard input of up to 4 characters, one case with two files around one that is not there, reads of 2, pipes of 3, one interruption | bytes and lines are exact, words up to one per cut word; the report is complete; wc returns unless it was interrupted while the command needed it |

Two pcat properties are about the data. `OutputInOrder`: as long as no call has
failed and nothing was corrupted, no byte is sent twice, out of order or before
it was read, none of the first `Capacity` bytes is missing, and when the reader
is done it has sent at least those. It stops there because of the linear
transfer: a file that lies across the end of the storage is cut off by `EFAULT`,
and in these runs some are. `NeverExactlyFull` (see the proofs) holds of these
files. Without it pcat hangs: one file of exactly the capacity makes
`end = start`, `upd_buffer_size` (`on_semaphors/pcat.c:77`,
`on_monitors/pcat.c:76`) computes 0, and the reader waits for bytes that are
there. That is a defect of the program, listed among the hazards; no comment or
test of the repository says otherwise, so it is a condition here and not a
finding.

Four disagreements between the code and what it says of itself showed up.
One is a run, `ShellBlankLine`: `assert(line->tail != NULL)` (`parser.c:253`) fails
when "Skip new lines." (line 228) skips the last character there is, for instance
a blank line at a prompt. The others are conditions of the properties:

* A runner of RelaySysV can receive its own report as its start signal
  (`relay_raceSysV.c:48` and 54 use the same type) and print "start!" before the
  judge has printed that the race starts. `AnnouncedMeansReady` and `OneBaton`
  say what still holds.
* `broadcast_eof_to_all` (`msgq_bogatyri.c:182`) sends "EOF to all other
  processes" with `IPC_NOWAIT`; with the queue full the message is lost and its
  addressee waits for ever. `Returns` of BogatyriMsgq is claimed where no message was
  lost, and no child left early.
* "The last one may get more" (`mergesort.c:83`): it never does, so with M not a
  multiple of N, as the file's own 16 and 5, the last element is merged unsorted.
  Line 10 asks for a multiple, and the run has one.

The shell has two that its parser's comments do not mention. `input_fd` is not reset
after the last command of a pipeline: the next line closes a descriptor that is
closed already, and a `pipe()` in it gets that number back, so that in
`data/test.txt` a second pipeline writes to the terminal, and a command that reads
may wait for the end of its own output. And a command is waited for before the
next one is forked: more output than a pipe holds and the shell hangs.
`PipelineConnects` and `Termination` of Shell name both as exceptions, so that
whatever else could go wrong would show; the compiled program behaves the same
way. The assertion fails in more cases than the finding names, all in
`CrashesOnlyThen`: a chunk that ends between `\r` and `\n`, or in spaces behind
which an old `\n` still lies in the buffer.

The bounds. A ring of 3 with four files is the least that wraps both indices,
blocks each side, and has files that are pending, in transfer and done at once;
the proofs below do away with the bound. Three threads or processes are the
least with a first, a middle and a last one; with four runners a false start can
overtake another, and a receiver can carry away a message two others want. Two
races are the least with a next one. Three bytes of two bits carry the counters
over byte boundaries with every combination of bits. Three processes that all
see the end of the song send up to six end-of-song messages, so a queue of 4
is full in some runs of BogatyriMsgq and not in others, as it can be for the
program, whose queue holds 4096 four-byte messages by default while 128
processes send up to 128 * 127. Two attempts per connect have a first, a last and
what happens after it; more only repeat the first. Chunks of 4 over scripts of
4 keys cut every line everywhere, and the longer scripts have a pipeline before
and after every other kind of line. A pipe of one and two outputs overflows and
does not. Reads of 2 from pipes of 3 end in the middle of words, at spaces and at
the end of a text, and the last read of a full pipe is a short one.

`CHECK_DEADLOCK FALSE` stands where the program may really stop for good: a
child waits for one that was never forked (Pcat, RelaySysV, RelayPosix, Signals),
for a letter nobody has, a message that was lost or a child that
left (BogatyriMsgq), for a
report that a false start used up (RelaySysV), for a process that gave up
(BogatyriSockets), for room in a pipe nobody reads (Shell, WcCat), or in the
finished state of programs modelled without a final self-loop.

Fairness is weak fairness of each process or thread: the scheduler runs what can
run, and a call that stays possible returns. Spurious wakeups, interruptions,
failing calls and forks have none. Two models need strong fairness as well. In PcatMon spurious
wakeups let a waiting thread take and give back the mutex for ever, and the
other must get it in between (`WriterLock`, `WriterPutLock` and the reader's):
the kernel hands a contended futex on, and a wakeup for no reason is rare.
In RelayPosix a waiting receiver can be passed over by others that take and put
back the same message, hence strong fairness of `Taking`, justified by the
kernel's FIFO of blocked receivers. `Termination` of pcat is claimed for files that
each fit in the buffer (the model's do), with both children forked, or both threads
created, and nothing corrupted; `RaceFinishes`, `Returns`, `Delivered` and the
`Termination`s of Shell and WcCat state their conditions in the same way.

## The proofs

Every theorem is about the specification a run checks, and holds for every value
of its constants: any number of runners, threads or processes, any capacity, files,
songs, and any number of failing calls, under the named assumptions of the modules,
which TLC evaluates on every run. What a theorem assumes beyond them is said here.

| module | theorems | beyond the assumptions |
|---|---|---|
| PcatProofs, of the children | `TypeCorrect`, `NoWakeupIsLost`, `OutputIsInOrder`; `SizeCountsUnread`, `WriterNeverOverwrites`, `ImplementsFileQueue` | `NeverExactlyFull` for the last three and `OutputIsInOrder` |
| PcatProofs, of the program | `ProgramImplementsPcatSem`, `ProgramLosesNoWakeup`, `ProgramOutputIsInOrder`, `ProgramImplementsFileQueue`, `EverythingReleasedInOrder`, `ProgramLeaksNothing` | the same for what is carried over |
| PcatMonProofs | `TypeCorrect`, `OneInside`, `NobodySleepsForNothing`; `AddressIsNotStale`, `OutputIsInOrder`, `ImplementsFileQueue` | `NeverExactlyFull` for the last three |
| RelaySysVAndWcProofs, of RelaySysV | `TypeCorrect`, `ReadyMeansReady`, `BatonIsOne` | |
| RelaySysVAndWcProofs, of WcCat | `WcTypes`, `WcCounts`, `WcReports` | |
| RelayPosixProofs | `TypeCorrect`, `ReadyMeansReady`, `BatonIsOne`, `NobodyBlocksInSend` | `N <= MaxMsg` for the last |
| BogatyriAndMergeSortProofs, of BogatyriMonitor | `TypeCorrect`, `EverybodyNumberedFirst`, `NobodySleepsForNothing`, `SaysTheSong` | |
| BogatyriAndMergeSortProofs, of MergeSort | `SuccessMeansSorted`; `SegmentsAreSorted`, `NeverUnsorted` | `M % NSorters = 0` for the last two |
| MsgqAndSignalsProofs, of BogatyriMsgq | `TypeCorrect`, `SaysTheSong` | |
| MsgqAndSignalsProofs, of Signals | `NothingMerges`, `CountersInStep` | |
| SocketsAndShellProofs, of BogatyriSockets | `TypeCorrect`, `OneTurnOnly`, `SaysTheSong` | |
| SocketsAndShellProofs, of Shell | `ShellTyped`, `ShellReads`, `ShellCrashes`, `ShellConnects` | |

**The two pcats.** `PcatBufferProofs` has the lemmas both need: the arithmetic of
positions modulo the capacity (`LapAndAddress`, `AddressesDiffer`), the header
(`HeaderInv`: the indices follow the stream, and the size that is computed from them
alone is the bytes between them), and the bytes (`ReadChunkStores`,
`WriteChunkSends`: what a chunk does to what is stored and sent). On them rest two
inductive invariants of the same shape, each in layers.

* `TInv` adds to `TypeOK` who is inside: `mutex \in {0, 1}` is not inductive by
  itself, `MutexInv` (`OwnerInv`) says who holds it, which is why no child posts it
  twice; `ProgressInv` says that a child in the middle of `buf_write` or `buf_read`
  still has a file, so that `fsize` is defined where it is used.
* `WakeInv` adds the moment between the check and the wait: the condition that
  made the child give up the mutex still holds there, because only a mark under the
  mutex changes it. `NoLostWakeup` follows.
* `RingInv` adds `HeaderInv` and that what a child checked under the mutex still
  holds when it marks, long after it gave the mutex up. In PcatMon, where the
  address is computed after the unlock, it is also why that address is the right one
  (`AddressIsNotStale`).
* `StreamInv` adds the bytes: until a call fails, every written file is in the
  storage up to where the storage ends, and what has been sent is the stream.
  `OutputInOrder` needs all of the above: the writer's chunk leaves the unread bytes
  alone because the addresses of positions less than a lap apart differ.

`NeverExactlyFull` says that no run of consecutive files adds up to exactly the
capacity. Without it `upd_buffer_size` is wrong, see above, so the condition is
necessary; the files of the runs meet it. In `ImplementsFileQueue` the two marks
are `Put` and `Take`, and every other action is shown to stutter. `PcatProofs` then
carries these over to the whole program: every step of `main` outside the run, and
every release, leaves PcatSem's variables alone (`ProgramImplementsPcatSem`).
`SetupInv` is about `main` itself. It says what is held after each call of the set-up,
and that what is still to be released, in a rollback as in the clean-up, is held, each
thing listed once, and the mapping of the semaphores after the last semaphore, wherever
the set-up failed;
`ChildrenInv` says that nobody runs outside phase `run`.

**The relay races.** A report can be taken by a runner that takes it for its start
signal, so "who reported is counted or in the queue" is not inductive. With System V
the number a runner was handed travels on in its next message: `NumbersApart` says
that no number is in two messages, in two hands, in a message and a hand, or there
and already heard. So the judge, which only counts, has heard N different runners. With
POSIX the messages are indistinguishable but conserved: reported = counted + queued
+ carried by somebody about to put it back. After the signal both become "one
message or one runner". Nobody blocks in `mq_send` as long as the queue has room
for N messages, as the code's ten have for its five runners.

**The bogatyri.** For the monitor, `NumberInv` and `CountInv` tie the numbers given
out to the threads that have one (a bijection, by cardinality), also after `main`
gave up and set the count to N; `NoLostWakeup` is inductive on top of it because
every change of the letter is a broadcast. For the processes, a rank is a place in an
order (`PlaceDiffers`, `RankTaken`: different, and every place taken), and `TurnInv`
lists the stages of the turn: not there yet, with one process, in one queue, lost, or
over with nothing but end-of-song messages left. With the message queue a child may enter
the loop with an index that is long stale; `Waiting` says that the letter there is
never its own, and `TurnIsLost` is the stage a lost message leads to; a child that has
left is where it was, as far as the turn is concerned. `SaysTheSong` is
`Spec => SongSpec` in each: saying a letter is `Song`'s step, declaring the end happens only when all is said, the rest stutters.

**Merge sort.** The segments do not overlap and cover the array (`Segments`,
`Covered`), so what a thread has sorted stays sorted whoever runs next. `RearrangedInv`
counts: sorting a segment leaves every value as often in the array as it was in the
input. `TakenInv` is about the merge: it has taken every element at most once
and put it into the new array, and it stops only when it has taken all of them
(`MinimumFound`, `NothingLeft`). With the self-check this makes "Sorting succesful" true
for every M and N; `OrderInv`, which needs sorted segments and so the
multiple that line 10 of the source asks for, shows that "Sorting failed" is never
printed. Both are about inputs without `INT_MAX`, which the search for the least
element cannot find. `qsort` is a relation: the same elements, sorted between the
two bounds, nothing else touched.

**Signals.** `TokenInv`: at most one signal of the conversation exists, so none can
merge with another, and `CurrentBit` is what it carries. `InStep` is inductive on top
of it: between its acknowledgement and its use of a bit the child may be a place behind
the parent, and the bit it holds is the one sent for its own place.

**The shell.** `ParserTypeOK` says that the live part of the buffer is within what
`realloc` gave and has been written; behind it there may be anything. On it rest
three inductive invariants.

* `CrashReason`, with `OnlyBlanks`: before the first word of a line the parser has
  passed only spaces and new lines. The assertion of `parser_pop_next` then fails
  only with nothing else in the buffer, and the one of `parser_consume` only where a
  new line was seen at the end of the live part or past it.
* `Follows`: there is a place `o` of the script such that the buffer holds the script
  from `o` on, a line begins there, and what the character-by-character reader has
  understood when it comes to `o + pos` (`After`) is what the parser has: the same
  lines, the same line begun, no word begun unless the parser ends it there. In the
  error path the two differ, and what counts is that the reader's line is `Broken`:
  it stays one whatever follows, so the reader drops it as `return_error` does. The
  reader's state after n characters is a recursive function; that it has a solution
  and is stepped by `Take` is `ReadingExists` and `AfterIs`. Spaces, words and new
  lines are read in one step by the parser and in many by the reader (`SpacesRead`,
  `LettersRead`, `NewLineRead`). A command that reads the script takes characters behind
  the buffer, `o + size`; what lies before is read as it was (`ReadAlike`,
  `WithoutFollows`).
* `Descriptors`: `LineShape` (the line that is executed alternates commands and pipes
  and begins and ends with a command), between two commands the shell's table is the
  one it started with plus the end of at most one pipe, which is `input_fd`
  (`HoldsLast`, `HoldsNone`), and while a command runs what it has read and what is
  left in its pipe add up to what its predecessor wrote (`WhileItRuns`). This holds up
  to the first line with a pipe and no longer: then the code closes a descriptor it
  does not hold. `PipelineConnects` has the same limit.

**wc.** `CountInv`: the last read of a stream ended where the text read so far ends, so
that the next one may begin inside a word; `WordsAdd` counts the words of a text
put together from two by where they begin, and one more if the second begins in
one. `OnItsWay`: what has been counted, what is in the pipe and what the command has
still to write are, in this order, what its arguments so far make it say; and
`EndOfStreams`: an end of a pipe is closed only when the command has exited and the
pipe is empty, although the bytes are read later than `epoll_wait` reported them.

Four of the proof modules are about two programs each, one after the other. What is
proved of one says nothing of the other.

Only model-checked: all liveness (`Termination`, `RaceFinishes`, `Returns`,
`Delivered`), which is outside what the prover does, and with it the fairness
conditions. Every safety property, action property and refinement that a run checks is
a theorem, some with the hypotheses in the table, which the runs meet; `AssertionsHold`
of the shell is false.

## Not modelled

`mycp` copies a file with the stream loop of `mycat`, which is modelled, after
parsing options and asking for permission: sequential input and output. `ls`, the
symlink search and the exercises of `2week` format what the kernel says and keep
no state. Wording, timing statistics, debug output and option parsing are left
out everywhere, and so is a failing `malloc`.

Failures left out because nothing follows from them but an exit: `pipe` and
`epoll_ctl` in wc, `open` in pcat on monitors. A failing `pipe` in the shell is not
checked by the code and would leave `fildes` at 0, 0; the models' shell has
descriptors enough. `mycat` has branches for an interrupted `read` or `write`
(`safewrite` would count the -1 as progress), but it installs no handler, so
neither can be interrupted. In `msgq_bogatyri.c` a child that leaves with the registry's
lock gives it up by leaving. The model of it starts from an empty queue
although the code would reuse one left by a run that was killed. The width of
integers plays no part in what is modelled: sizes are bounded by capacities
and buffers, and the merge sort's elements are non-negative.

## Plan

All components with state of their own are modelled, the abstract specifications
FileQueue and Song are implemented by what they abstract from, and what the runs
check of safety is proved. Left, in this order:

1. A pipeline after a pipeline: `input_fd` is then a number somebody else may have. What
   still holds of it is only known from the run of Shell, which names two exceptions.
2. An abstract specification of the relay race, which the two versions implement with
   different queues, and which would say "one baton" once for both.

The number of runs is kept at a dozen, one per program and one for the assertion
of the shell that fails.
