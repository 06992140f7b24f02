----------------------------- MODULE EventFeedMC -----------------------------
(* A small instance of EventFeed for TLC: two goroutines that write for    *)
(* the same two runs, a `coworker watch --run` of one of them and a        *)
(* dashboard of the other.                                                 *)
EXTENDS EventFeed, TLC

CONSTANTS w1, w2, r1, r2, k1, watch, dashboard, c1, c2

CallsMC ==
    w1 :> {<<"cost", r1>>, <<"keyed", r2>>}
    @@ w2 :> {<<"cost", r1>>, <<"keyed", r1>>, <<"state", r2>>}
WantedMC == watch :> {r1} @@ dashboard :> {r2}
=============================================================================
