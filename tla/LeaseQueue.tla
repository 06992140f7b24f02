----------------------------- MODULE LeaseQueue -----------------------------
(***************************************************************************)
(* What the pull protocol promises about work, without registry, routing,  *)
(* watchdog or database: a dispatch is leased to one agent at a time, the  *)
(* lease is taken back only from an agent that was evicted for its         *)
(* silence, and a completed dispatch is out of play.                       *)
(***************************************************************************)
CONSTANTS Agents, Dispatches, NoAgent

VARIABLES
    state,    \* of each dispatch: "none", "pending", "leased", "completed"
    holder,   \* the agent a leased dispatch is leased to
    evicted   \* the agents evicted for their silence

leaseVars == <<state, holder, evicted>>

LeaseInit ==
    /\ state = [d \in Dispatches |-> "none"]
    /\ holder = [d \in Dispatches |-> NoAgent]
    /\ evicted = {}

Move(d, from, to, agent) ==
    /\ state[d] = from
    /\ state' = [state EXCEPT ![d] = to]
    /\ holder' = [holder EXCEPT ![d] = agent]
    /\ UNCHANGED evicted

Enqueue(d) == Move(d, "none", "pending", NoAgent)

Lease(d, a) == Move(d, "pending", "leased", a)

TakeBack(d) == holder[d] \in evicted /\ Move(d, "leased", "pending", NoAgent)

Complete(d) == Move(d, "leased", "completed", NoAgent)

EvictAgent(a) == evicted' = evicted \cup {a} /\ UNCHANGED <<state, holder>>

LeaseNext ==
    \/ \E d \in Dispatches : Enqueue(d) \/ TakeBack(d) \/ Complete(d)
    \/ \E d \in Dispatches, a \in Agents : Lease(d, a)
    \/ \E a \in Agents : EvictAgent(a)

LeaseSpec == LeaseInit /\ [][LeaseNext]_leaseVars
=============================================================================
