---------------------------- MODULE AutopilotMC ----------------------------
(* Small instances of Autopilot for TLC: processes and answering handlers  *)
(* are interchangeable.                                                    *)
EXTENDS Autopilot, TLC

Symmetry == Permutations(Runners) \cup Permutations(Answerers)
=============================================================================
