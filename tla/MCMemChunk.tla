------------------------------ MODULE MCMemChunk ------------------------------
(* Command lines and tasks for the arena runs.                             *)
EXTENDS MemChunk

\* The defaults of main.cpp, --thresh 30 --mem-thresh 20, for a task of
\* three candidates; and --thresh 2 --mem-thresh 30, under which a child
\* receives P' and X' from the chunk, for a task of one candidate.
MCSetups ==
  { [cands |-> 3, thresh |-> 30, mem_thresh |-> 20],
    [cands |-> 1, thresh |-> 2, mem_thresh |-> 30] }

\* --thresh 2 --mem-thresh 30, two candidates: two children share the chunk.
MCSharedSetups == { [cands |-> 2, thresh |-> 2, mem_thresh |-> 30] }
=============================================================================
