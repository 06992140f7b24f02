------------------------------ MODULE Scheduler ------------------------------
(***************************************************************************)
(* Which plans of a manifest may start now: coding/manifest/scheduler.go.  *)
(* Pure functions of the manifest's graph and of the plans completed and   *)
(* active.  Plan ids are compared for equality only, so the plans are      *)
(* numbered in the order the manifest lists them.                          *)
(***************************************************************************)
EXTENDS Naturals, FiniteSets

CONSTANTS
    Plans,             \* the manifest's plans
    MaxParallelPolicy  \* policy.concurrency_limits.max_parallel_plans, 0 if unset

ASSUME PlansAssumption == Plans \subseteq Nat \ {0} /\ IsFiniteSet(Plans)
ASSUME PolicyAssumption == MaxParallelPolicy \in Nat

MaxParallelPlans == IF MaxParallelPolicy > 0 THEN MaxParallelPolicy ELSE 2

(* Mutant: the two maps swapped.                                           *)
EligibleOnActive(blocksOn, completed, active) ==
    {p \in Plans \ (completed \cup active) : blocksOn[p] \subseteq active}

Eligible(blocksOn, completed, active) ==
    {p \in Plans \ (completed \cup active) : blocksOn[p] \subseteq completed}

(* Mutant: active plans take no slot.                                      *)
ReadyIgnoringSlots(blocksOn, completed, active) ==
    LET eligible == Eligible(blocksOn, completed, active) IN
    {p \in eligible : Cardinality({q \in eligible : q < p}) < MaxParallelPlans}

(* The first eligible plans of the manifest, as many as slots are free.    *)
ReadyPlans(blocksOn, completed, active) ==
    LET eligible == Eligible(blocksOn, completed, active) IN
    {p \in eligible :
        Cardinality({q \in eligible : q < p}) + Cardinality(active) < MaxParallelPlans}

(* What Validate lets through: plans name plans of the manifest and the    *)
(* graph has no cycle, that is, some order puts every plan after those it  *)
(* blocks on.                                                              *)
Acyclic(blocksOn) ==
    \A S \in SUBSET Plans \ {{}} : \E p \in S : blocksOn[p] \cap S = {}

Graphs == {blocksOn \in [Plans -> SUBSET Plans] : Acyclic(blocksOn)}
=============================================================================
