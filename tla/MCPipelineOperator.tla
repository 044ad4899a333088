------------------------ MODULE MCPipelineOperator ------------------------
(***************************************************************************)
(* The bounds under which TLC checks PipelineOperator.                     *)
(***************************************************************************)
EXTENDS PipelineOperator

\* The kinds of resource: the longest program, and the one with objects
\* outside its namespace; or all of them.
MCTwoKinds == {"cockroachdb", "churroui"}
MCAllKinds == {"cockroachdb", "mysql", "singlestore", "other", "churroui"}

\* The garbage collector takes all that it can, or one secret first, between
\* two reconciles.
MCSweeps == {Children, {"cockroachdb.client.root"}}
MCSweepSteps == {"none"}
=============================================================================
