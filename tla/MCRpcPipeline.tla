---------------------------- MODULE MCRpcPipeline ----------------------------
(* Small instances of RpcPipeline.                                         *)
EXTENDS RpcPipeline, TLC

\* The connections of one client, which takes over its own address.
SameClient == [c \in Conns |-> "addr"]

Symmetry == Permutations(Conns) \cup Permutations(Xids)
==============================================================================
