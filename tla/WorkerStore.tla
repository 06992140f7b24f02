----------------------------- MODULE WorkerStore -----------------------------
(***************************************************************************)
(* The worker registry: table `workers` and the operations of              *)
(* store/worker_store.go on it.  Every operator below is one committed     *)
(* SQL statement or transaction; what happens between two of them is for   *)
(* the composing module to interleave.                                     *)
(*                                                                         *)
(* Time is the age of a heartbeat, in some unit; ages at and beyond MaxAge *)
(* need not be told apart when every cutoff lies below it.                 *)
(***************************************************************************)
EXTENDS Handles

CONSTANT MaxAge \* ages are counted up to here

ASSUME MaxAgeAssumption == MaxAge \in Nat

VARIABLES
    wstate,     \* workers.state, "none" while there is no row
    age,        \* time since workers.last_heartbeat_at, up to MaxAge
    regAt,      \* workers.registered_at, an ordinal of its second
    regSecond,  \* the ordinal of the second of the latest registration
    left        \* history: the handles that deregistered by themselves

workerVars == <<wstate, age, regAt, regSecond, left>>

WorkerStates == {"none", "live", "stale", "evicted"}

WorkerInit ==
    /\ wstate = [w \in Workers |-> "none"]
    /\ age = [w \in Workers |-> 0]
    /\ regAt = [w \in Workers |-> 0]
    /\ regSecond = 0
    /\ left = {}

Registered == {w \in Workers : wstate[w] # "none"}
Evicted == {w \in Workers : wstate[w] = "evicted"}

(***************************************************************************)
(* Register inserts a live row.  registered_at has a resolution of one     *)
(* second: the new row shares the second of the latest one or opens a new  *)
(* one.                                                                    *)
(***************************************************************************)
Register(w) ==
    /\ wstate[w] = "none"
    /\ \E s \in {regSecond, regSecond + 1} :
          /\ regAt' = [regAt EXCEPT ![w] = s]
          /\ regSecond' = s
    /\ wstate' = [wstate EXCEPT ![w] = "live"]
    /\ age' = [age EXCEPT ![w] = 0]
    /\ UNCHANGED left

(* Heartbeat revives a stale worker and refuses an evicted one.            *)
Heartbeat(w) ==
    /\ wstate[w] \in {"live", "stale"}
    /\ wstate' = [wstate EXCEPT ![w] = "live"]
    /\ age' = [age EXCEPT ![w] = 0]
    /\ UNCHANGED <<regAt, regSecond, left>>

(* Deregister evicts the caller and touches no dispatch.                   *)
Deregister(w) ==
    /\ wstate[w] \in {"live", "stale"}
    /\ wstate' = [wstate EXCEPT ![w] = "evicted"]
    /\ left' = left \cup {w}
    /\ UNCHANGED <<age, regAt, regSecond>>

LiveWorkersForRole(role) == {w \in Workers : wstate[w] = "live" /\ RoleOf[w] = role}

(* The rows ORDER BY registered_at ASC may list first.                     *)
Oldest(ws) == {w \in ws : \A v \in ws : regAt[w] <= regAt[v]}

(* MarkStale's bulk UPDATE; its SELECT feeds only the log line.            *)
MarkStale(staleAfter) ==
    /\ wstate' = [w \in Workers |->
                     IF wstate[w] = "live" /\ age[w] > staleAfter THEN "stale" ELSE wstate[w]]
    /\ UNCHANGED <<age, regAt, regSecond, left>>

NewlyStale(staleAfter) == {w \in Workers : wstate[w] = "live" /\ age[w] > staleAfter}

(* MarkEvicted's transaction for one selected handle: it takes effect only *)
(* while the row is still stale, otherwise event and update roll back.     *)
MarkEvicted(w) ==
    /\ wstate[w] = "stale"
    /\ wstate' = [wstate EXCEPT ![w] = "evicted"]
    /\ UNCHANGED <<age, regAt, regSecond, left>>

(* One unit of time: every heartbeat that can still matter grows older.    *)
Age ==
    /\ age' = [w \in Workers |->
                  IF wstate[w] \in {"live", "stale"} /\ age[w] < MaxAge THEN age[w] + 1
                  ELSE age[w]]
    /\ UNCHANGED <<wstate, regAt, regSecond, left>>

WorkerTypeOK ==
    /\ wstate \in [Workers -> WorkerStates]
    /\ age \in [Workers -> 0 .. MaxAge]
    /\ regAt \in [Workers -> Nat]
    /\ regSecond \in Nat
    /\ left \subseteq Workers
=============================================================================
