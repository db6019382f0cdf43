-------------------------------- MODULE Pcat --------------------------------
(***************************************************************************)
(* The whole of pcat on semaphores: main acquires the shared memory and    *)
(* opens the files (PcatSetup), forks the two children and reaps them      *)
(* (PcatSem), and gives everything back (PcatSetup again).                 *)
(***************************************************************************)
EXTENDS PcatSem, Sequences

VARIABLES phase, step, held, todo, files, status   \* PcatSetup's

Setup == INSTANCE PcatSetup WITH pc <- phase

setup   == <<phase, step, held, todo, files, status>>
allVars == <<vars, setup>>

PcatInit == Init /\ Setup!Init

WriterStep == ~undefined /\ phase = "run" /\ Writer /\ UNCHANGED setup
ReaderStep == ~undefined /\ phase = "run" /\ Reader /\ UNCHANGED setup

\* main forks and waits once everything is there, and cleans up after wait()
\* has returned -1.
PcatMain ==
  /\ ~undefined
  /\ \/ phase = "run" /\ Parent /\ UNCHANGED setup
     \/ (phase = "run" => ppc = "reaped") /\ Setup!Next /\ UNCHANGED vars

\* The program has returned, or its memory is corrupt and it is given up.
PcatStop == (phase = "exited" \/ undefined) /\ UNCHANGED allVars

PcatNext == WriterStep \/ ReaderStep \/ PcatMain \/ PcatStop

PcatSpec == PcatInit /\ [][PcatNext]_allVars

\* Every runnable process gets the CPU, and a sem_wait that stays possible
\* returns.
PcatFairSpec ==
  /\ PcatSpec
  /\ WF_allVars(PcatMain) /\ WF_allVars(WriterStep) /\ WF_allVars(ReaderStep)

-----------------------------------------------------------------------------
(* Properties.                                                             *)

\* Whichever call fails, the rollback of that call and the clean-up give back
\* only what is held, so nothing twice; no path unmaps the memory of a semaphore
\* it has still to destroy; and as long as a child runs nothing it uses is gone,
\* also when the other fork() failed.
ReleasedInOrder ==
  /\ todo # <<>> => Head(todo) \in held
  /\ held \cap Setup!Sems # {} => "map_sems" \in held
  /\ wpc \notin {"unborn", "done"} \/ rpc \notin {"unborn", "done"}
       => /\ Setup!Sems \cup {"map_buf", "map_stor", "map_sems"} \subseteq held
          /\ files = 1 .. NFiles

\* A failed init_shared_memory keeps no descriptor, mapping or semaphore (the
\* names remain), and exits through cleanup_shared_memory keep nothing at all.
NothingLeaks ==
  phase = "exited" =>
    /\ status = "init_failed" => held \subseteq Setup!Names
    /\ status \in {"failed", "succeeded"} => held = {} /\ files = {}

\* pcat returns, unless it could not create its children; and it ends as one
\* that succeeded only with all files through the buffer.
Termination ==
  /\ <>(phase = "exited" \/ forkFails > 0 \/ undefined)
  /\ [](phase = "exited" /\ status = "succeeded" /\ forkFails = 0
          => wfile = NFiles + 1 /\ rfile = NFiles + 1)
=============================================================================
