------------------------------ MODULE MCDoors ------------------------------
(* What comes through the peer door, one side of it at a time: signed       *)
(* requests before a small replay window, the fleet view of two ships with  *)
(* clocks that lag, agree or lead as one request after the other draws it,  *)
(* and requests that overlap while all clocks agree and no ship answers.    *)
EXTENDS PeerAuth, FleetView

CONSTANT MCSides

VARIABLE side
doorsVars == <<side, doorVars, viewVars>>

MCAnyOffset == {-2, 0, 1, 2}
MCAgreeing == {0}

MCNoOffset == [m \in Members |-> 0]

DoorsInit ==
    /\ side \in MCSides /\ DoorInit /\ ViewInit
    /\ side # "view" => offset = MCNoOffset
    /\ side # "overlap" => documents = <<Members>>

MCFirst == CHOOSE t \in Threads : TRUE

\* One request after the other, and two revisions.
ViewAlone ==
    /\ ViewNext
    /\ \A t \in Threads \ {MCFirst} : pc'[t] = "idle"
    /\ Len(documents') <= 2

\* The clock is at rest and nobody answers: what overlaps is what is recorded.
ViewOverlap ==
    /\ ViewNext
    /\ UNCHANGED <<clock, lastSeen>>
    /\ \A t \in Threads, m \in Members : rows'[t][m] # NoRow => rows'[t][m].answer = "none"

DoorsNext ==
    \/ side = "replay" /\ DoorNext /\ UNCHANGED <<side, viewVars>>
    \/ side = "view" /\ ViewAlone /\ UNCHANGED <<side, doorVars>>
    \/ side = "overlap" /\ ViewOverlap /\ UNCHANGED <<side, doorVars>>

DoorsSpec == DoorsInit /\ [][DoorsNext]_doorsVars

\* The revisions that add makes: they keep every member.
AddsOnly == documents[Len(documents)] \subseteq documents'[Len(documents')]

DoorsAddSpec == DoorsInit /\ [][DoorsNext /\ AddsOnly]_doorsVars
=============================================================================
