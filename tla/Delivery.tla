------------------------------ MODULE Delivery ------------------------------
(***************************************************************************)
(* What the autopilot promises of the plans of a manifest, whatever        *)
(* processes run it: a plan is put to a person only after the plans it     *)
(* blocks on were delivered, and is delivered only after a person approved *)
(* it.                                                                     *)
(***************************************************************************)
CONSTANT Plans

VARIABLES
    blocksOn,   \* the manifest's graph
    gated,      \* plans put to a person
    approved,   \* plans a person approved
    delivered   \* plans whose pull request was opened, or whose work is done

deliveryVars == <<blocksOn, gated, approved, delivered>>

DeliveryInit ==
    /\ blocksOn \in [Plans -> SUBSET Plans]
    /\ gated = {}
    /\ approved = {}
    /\ delivered = {}

GatePlan(p) ==
    /\ blocksOn[p] \subseteq delivered
    /\ gated' = gated \cup {p}
    /\ UNCHANGED <<blocksOn, approved, delivered>>

ApprovePlan(p) ==
    /\ p \in gated
    /\ approved' = approved \cup {p}
    /\ UNCHANGED <<blocksOn, gated, delivered>>

DeliverPlan(p) ==
    /\ p \in approved
    /\ delivered' = delivered \cup {p}
    /\ UNCHANGED <<blocksOn, gated, approved>>

DeliveryNext ==
    \E p \in Plans : GatePlan(p) \/ ApprovePlan(p) \/ DeliverPlan(p)

DeliverySpec == DeliveryInit /\ [][DeliveryNext]_deliveryVars
=============================================================================
