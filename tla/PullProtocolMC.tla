--------------------------- MODULE PullProtocolMC ---------------------------
(* Small instances of PullProtocol for TLC.                                *)
EXTENDS PullProtocol, TLC

CONSTANTS role1

(* Every handle and every dispatch has the same role.                      *)
OneRole == [x \in Workers \cup Dispatches |-> role1]

(* Interchangeable when every id has the same role and nothing is timed.   *)
Ids == Permutations(Workers) \cup Permutations(Dispatches)
=============================================================================
