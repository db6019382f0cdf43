------------------------------ MODULE PcatSetup ------------------------------
(***************************************************************************)
(* How pcat on semaphores acquires and gives back its shared memory: the   *)
(* calls of init_shared_memory, each of which may fail and has its own     *)
(* rollback, main's allocation and opening of the files, and               *)
(* cleanup_shared_memory.  The kernel takes back descriptors and mappings  *)
(* at exit but not the names of shared memory objects.                     *)
(***************************************************************************)
EXTENDS Integers, Sequences

CONSTANT NFiles   \* argc - 1; at least 1, see PcatBuffer

\* buf, stor and sems name the three objects; full, empty and mutex live in
\* the mapping of sems.
Names == {"name_buf", "name_stor", "name_sems"}
Sems  == {"full", "empty", "mutex"}

\* What the i-th call of init_shared_memory adds (ftruncate adds nothing).
Acquired == <<
  {"name_buf", "fd_buf"},   {}, {"map_buf"},
  {"name_stor", "fd_stor"}, {}, {"map_stor"},
  {"name_sems", "fd_sems"}, {}, {"map_sems"},
  {"full"}, {"empty"}, {"mutex"} >>

BufOnly     == <<"map_buf", "fd_buf">>
StorAndBuf  == <<"map_stor", "fd_stor">> \o BufOnly
Everything  == <<"map_sems", "fd_sems">> \o StorAndBuf

Mutant_Rollback == <<
  <<>>, <<"fd_buf">>, <<"fd_buf">>,
  BufOnly, <<"fd_stor">> \o BufOnly, <<"fd_stor">> \o BufOnly,
  StorAndBuf, <<"fd_sems">> \o StorAndBuf, StorAndBuf,
  Everything, <<"full">> \o Everything, <<"full", "empty">> \o Everything >>

\* What the error branch of the i-th call releases, in its order.
Rollback == <<
  <<>>, <<"fd_buf">>, <<"fd_buf">>,
  BufOnly, <<"fd_stor">> \o BufOnly, <<"fd_stor">> \o BufOnly,
  StorAndBuf, <<"fd_sems">> \o StorAndBuf, <<"fd_sems">> \o StorAndBuf,
  Everything, <<"full">> \o Everything, <<"full", "empty">> \o Everything >>

Mutant_CleanupOrder == <<
  "full", "empty", "mutex", "map_sems", "map_stor", "map_buf",
  "fd_sems", "name_sems", "fd_sems", "name_stor", "fd_buf", "name_buf" >>

\* What cleanup_shared_memory releases, in its order.
CleanupOrder == <<
  "full", "empty", "mutex", "map_sems", "map_stor", "map_buf",
  "fd_sems", "name_sems", "fd_stor", "name_stor", "fd_buf", "name_buf" >>

VARIABLES
  pc,       \* where main is
  step,     \* the next call of init_shared_memory
  held,     \* what the process holds of the shared memory
  todo,     \* what is left to release on the current path
  files,    \* descriptors of input files that are open
  status    \* how main is going to end

vars == <<pc, step, held, todo, files, status>>

Init ==
  /\ pc = "init" /\ step = 1 /\ held = {} /\ todo = <<>>
  /\ files = {} /\ status = "running"

-----------------------------------------------------------------------------
\* One call of init_shared_memory, and the branch taken when it fails.
InitCall ==
  /\ pc = "init"
  /\ held' = held \cup Acquired[step]
  /\ step' = step + 1
  /\ pc' = IF step = Len(Acquired) THEN "alloc" ELSE "init"
  /\ UNCHANGED <<todo, files, status>>

InitCallFails ==
  /\ pc = "init"
  /\ todo' = Rollback[step]
  /\ pc' = "rollback" /\ status' = "init_failed"
  /\ UNCHANGED <<step, held, files>>

\* One release on an error path or in cleanup_shared_memory; then exit.
Release ==
  /\ pc \in {"rollback", "cleanup"}
  /\ IF todo = <<>>
       THEN pc' = "exited" /\ UNCHANGED <<held, todo>>
       ELSE /\ held' = held \ {Head(todo)} /\ todo' = Tail(todo)
            /\ UNCHANGED pc
  /\ UNCHANGED <<step, files, status>>

cleanup_shared_memory(how) ==
  /\ todo' = CleanupOrder /\ pc' = "cleanup" /\ status' = how

AllocArrays ==
  /\ pc = "alloc"
  /\ \/ pc' = "open" /\ UNCHANGED <<todo, status>>
     \/ cleanup_shared_memory("failed")
  /\ UNCHANGED <<step, held, files>>

\* open(argv[file_ind]): on failure close the files opened before.
OpenFile ==
  /\ pc = "open"
  /\ \/ /\ \E f \in 1 .. NFiles \ files :
             (\A g \in 1 .. f - 1 : g \in files) /\ files' = files \cup {f}
        /\ pc' = "stat" /\ UNCHANGED <<todo, status>>
     \/ files' = {} /\ cleanup_shared_memory("failed")
  /\ UNCHANGED <<step, held>>

\* get_filesize: on failure it closes that file and calls exit() itself.
StatFile ==
  /\ pc = "stat"
  /\ \/ /\ pc' = IF files = 1 .. NFiles THEN "run" ELSE "open"
        /\ UNCHANGED <<files, status>>
     \/ /\ \E f \in files : (\A g \in files : g <= f) /\ files' = files \ {f}
        /\ pc' = "exited" /\ status' = "fstat_failed"
  /\ UNCHANGED <<step, held, todo>>

\* The children ran and were reaped (Pcat says when); close everything.
Finish ==
  /\ pc = "run"
  /\ files' = {} /\ cleanup_shared_memory("succeeded")
  /\ UNCHANGED <<step, held>>

Next ==
  \/ InitCall \/ InitCallFails \/ Release \/ AllocArrays
  \/ OpenFile \/ StatFile \/ Finish
=============================================================================
