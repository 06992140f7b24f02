------------------------------ MODULE JobHandle ------------------------------
(***************************************************************************)
(* The promise of core.Agent and core.JobHandle (core/agent.go).  Dispatch *)
(* starts some work or fails; Wait answers once, with a result only when   *)
(* the work is over; giving up on it may leave it running for a while.     *)
(***************************************************************************)
VARIABLES work, answer

jobVars == <<work, answer>>

JobInit == work = "none" /\ answer = "none"

Begin == answer = "none" /\ work = "none" /\ work' = "alive" /\ answer' = "awaited"
Refuse == answer = "none" /\ work = "none" /\ answer' = "error" /\ UNCHANGED work
End == work = "alive" /\ work' = "over" /\ UNCHANGED answer
Deliver == answer = "awaited" /\ work = "over" /\ answer' = "result" /\ UNCHANGED work
GiveUp == answer = "awaited" /\ answer' = "error" /\ UNCHANGED work

JobSpec == JobInit /\ [][Begin \/ Refuse \/ End \/ Deliver \/ GiveUp]_jobVars
=============================================================================
