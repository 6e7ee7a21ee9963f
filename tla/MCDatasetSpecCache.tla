------------------------- MODULE MCDatasetSpecCache -------------------------
(***************************************************************************)
(* TLC instances of DatasetSpecCache.                                      *)
(***************************************************************************)
EXTENDS DatasetSpecCache

\* Rewrites that keep the size, or the first 64 KiB, are told apart by the
\* modification time alone.
MCSize == [v \in Version |-> v \div 2]
MCMtime == [v \in Version |-> v]
MCPrefix == [v \in Version |-> 0]
MCContent == [v \in Version |-> v]

\* Every second rewrite puts the original file back, time stamp included
\* (a rename of a backup, a copy that preserves times).  The signature still
\* tells any two different contents apart.
MCRestored == [v \in Version |-> v % 2]

=============================================================================
