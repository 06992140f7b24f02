------------------------------- MODULE FixLoop -------------------------------
(***************************************************************************)
(* What a phase promises: versions of the work are developed one after the *)
(* other, each is reported on by every role, and the phase is clean only   *)
(* if the last version was reported on by all of them and faulted by none. *)
(* A new version is made only to answer a report, and at most MaxVersions  *)
(* of them.                                                                *)
(***************************************************************************)
EXTENDS Naturals

CONSTANTS Reporters, MaxVersions

VARIABLES
    version,  \* the version under review, 0 before the first
    report,   \* what each role said of it
    outcome

fixVars == <<version, report, outcome>>

FixInit ==
    /\ version = 0
    /\ report = [r \in Reporters |-> "pending"]
    /\ outcome = "none"

AllReported == \A r \in Reporters : report[r] # "pending"
Faulted == \E r \in Reporters : report[r] = "faulted"

Develop ==
    /\ outcome = "none" /\ version < MaxVersions
    /\ version = 0 \/ (AllReported /\ Faulted)
    /\ version' = version + 1
    /\ report' = [r \in Reporters |-> "pending"]
    /\ UNCHANGED outcome

Report(r) ==
    /\ outcome = "none" /\ version > 0 /\ report[r] = "pending"
    /\ \E said \in {"clean", "faulted", "skipped"} : report' = [report EXCEPT ![r] = said]
    /\ UNCHANGED <<version, outcome>>

EndClean == AllReported /\ ~Faulted /\ outcome' = "clean"
EndDirty == AllReported /\ Faulted /\ version = MaxVersions /\ outcome' = "dirty"
EndFailed == outcome' = "failed"

End ==
    /\ outcome = "none" /\ version > 0
    /\ EndClean \/ EndDirty \/ EndFailed
    /\ UNCHANGED <<version, report>>

FixNext == Develop \/ (\E r \in Reporters : Report(r)) \/ End

FixSpec == FixInit /\ [][FixNext]_fixVars
=============================================================================
