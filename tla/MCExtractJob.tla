---------------------------- MODULE MCExtractJob ----------------------------
(***************************************************************************)
(* Two jobs for one file name: a file queued twice, or two files of the    *)
(* same name one after the other.                                          *)
(***************************************************************************)
EXTENDS ExtractJob, TLC

CONSTANTS j1, j2, f1

MCJobs == {j1, j2}
MCFiles == {f1}
MCSymmetry == Permutations(MCJobs)
MCFileOf == [j \in MCJobs |-> f1]

\* A file that ends at its last record, one that stops parsing behind its first
\* data row, one that does so at its first record, and an empty one.
MCSizes == {<<2, 2>>, <<3, 2>>, <<1, 0>>, <<0, 0>>}
============================================================================
