---------------------------- MODULE MCParallelRead ----------------------------
(* Arrays of one to five elements, chunks of two, up to three tasks: one    *)
(* task and several, uneven divisions, a short last chunk, and tasks with   *)
(* several chunks.                                                          *)
EXTENDS ParallelRead
=============================================================================
