------------------------------ MODULE MCFleet  ------------------------------
(***************************************************************************)
(* A small fleet whose machines are interchangeable together with the keys *)
(* they start with; the key none of them starts with is what a reinstall   *)
(* may generate.  Beside it, what comes through the peer door (MCDoors).    *)
(***************************************************************************)
EXTENDS Orders, MCDoors, TLC

CONSTANTS m1, m2, m3, k1, k2, k3

MCFirstKey ==
    [m \in Machines |-> CASE m = m1 -> k1 [] m = m2 -> k2 [] m = m3 -> k3]

\* A permutation of the machines, carried over to their first keys.
WithFirstKeys(p) ==
    [x \in Machines \cup {MCFirstKey[m] : m \in Machines} |->
        IF x \in Machines THEN p[x]
        ELSE MCFirstKey[p[CHOOSE m \in Machines : MCFirstKey[m] = x]]]

MCSymmetry ==
    {WithFirstKeys(p) @@ q : p \in Permutations(Machines), q \in Permutations(Fleets)}

FleetSideInit ==
    /\ side \in MCSides /\ Init
    /\ IF side = "orders" THEN DoorInit /\ ViewInit /\ offset = MCNoOffset /\ documents = <<Members>>
       ELSE DoorsInit

FleetSideNext ==
    \/ side = "orders" /\ Next /\ UNCHANGED doorsVars
    \/ DoorsNext /\ UNCHANGED vars

FleetSideSpec == FleetSideInit /\ [][FleetSideNext]_<<vars, doorsVars>>
=============================================================================
