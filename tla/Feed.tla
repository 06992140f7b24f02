-------------------------------- MODULE Feed --------------------------------
(***************************************************************************)
(* What the live view of the runtime promises: an event is shown only once *)
(* it is in the log, at most once to a viewer, only if the viewer asked    *)
(* for it, and the events of one writer in the order it wrote them.  A     *)
(* viewer may miss any of them.                                            *)
(***************************************************************************)
EXTENDS Naturals, Sequences

CONSTANTS Viewers, Accepts(_, _)

VARIABLES
    written,  \* the writers' events, in the order of the log
    seen      \* what each viewer was shown, as positions in the log

feedVars == <<written, seen>>

FeedInit == written = <<>> /\ seen = [v \in Viewers |-> <<>>]

Write ==
    /\ Len(written') = Len(written) + 1 /\ SubSeq(written', 1, Len(written)) = written
    /\ UNCHANGED seen

Follows(v, n) ==
    \A i \in 1..Len(seen[v]) :
        /\ seen[v][i] # n
        /\ written[seen[v][i]].by = written[n].by => seen[v][i] < n

Show(v, n) ==
    /\ Accepts(v, written[n]) /\ Follows(v, n)
    /\ seen' = [seen EXCEPT ![v] = Append(@, n)]
    /\ UNCHANGED written

FeedNext == Write \/ \E v \in Viewers : \E n \in 1..Len(written) : Show(v, n)

FeedSpec == FeedInit /\ [][FeedNext]_feedVars
=============================================================================
