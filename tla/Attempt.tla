------------------------------- MODULE Attempt -------------------------------
(***************************************************************************)
(* One attempt at a job as coding/dispatch.go makes it: a context that ends *)
(* with the role's budget, or with the caller's, and a handle that is       *)
(* waited for.  What an agent does in between is CliJob or OpenCodeJob.     *)
(***************************************************************************)
EXTENDS Integers, Sequences, FiniteSets

CONSTANT HasBudget  \* has the role a positive max_wallclock_minutes?

ASSUME BudgetAssumption == HasBudget \in BOOLEAN

VARIABLES
    ctx,      \* the attempt's context: "live", past its "deadline", or "cancelled"
    answer,   \* of the handle: "none" before Dispatch, "awaited", "result", "error"
    found,    \* result.Findings, by where the agent said them
    exit      \* result.ExitCode

attemptVars == <<ctx, answer, found, exit>>

AttemptInit == ctx = "live" /\ answer = "none" /\ found = {} /\ exit = 0

Done == ctx # "live"

(* executil.BudgetTimeout: the budget is used up.  One of 0 minutes or     *)
(* less is none, and validateRole accepts it; the roles that are shipped   *)
(* have 5 to 60.                                                           *)
Deadline ==
    /\ HasBudget /\ ctx = "live"
    /\ ctx' = "deadline"
    /\ UNCHANGED <<answer, found, exit>>

(* The caller's context is cancelled, and with it the attempt's.           *)
Interrupt == ctx # "cancelled" /\ ctx' = "cancelled" /\ UNCHANGED <<answer, found, exit>>
=============================================================================
