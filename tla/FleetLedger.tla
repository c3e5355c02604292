---------------------------- MODULE FleetLedger ----------------------------
(***************************************************************************)
(* What signed fleet membership promises, with the protocol left out.      *)
(*                                                                         *)
(* A fleet has a ledger of revisions.  A revision is published once, above *)
(* every earlier revision of its fleet, by the fleet's one author, and     *)
(* never drops a member.  A machine's view is one revision of the ledger   *)
(* and only moves forward inside its fleet; a machine that is reinstalled  *)
(* forgets its view.                                                       *)
(***************************************************************************)
EXTENDS Naturals

CONSTANTS
    Machines,   \* the machines that keep a view
    NoOrders    \* the view of a machine that has none

VARIABLES
    ledger,     \* every revision ever published
    view        \* the revision each machine goes by

vars == <<ledger, view>>

Init ==
    /\ ledger = {}
    /\ view = [m \in Machines |-> NoOrders]

Follows(d, e) ==
    /\ e.version < d.version
    /\ e.author = d.author
    /\ e.members \subseteq d.members

Publish(m, d) ==
    /\ d \notin ledger
    /\ view[m] # NoOrders => view[m].fleet = d.fleet
    /\ \A e \in ledger : e.fleet = d.fleet => Follows(d, e)
    /\ ledger' = ledger \cup {d}

Adopt(m, d) ==
    /\ d \in ledger
    /\ view[m] # NoOrders => d.fleet = view[m].fleet /\ view[m].version < d.version
    /\ UNCHANGED ledger

\* A machine moves to revision `d`, which is the one it holds afterwards.
MoveTo(m, d) ==
    /\ d # NoOrders
    /\ view' = [view EXCEPT ![m] = d]
    /\ Publish(m, d) \/ Adopt(m, d)

Forget(m) ==
    /\ view' = [view EXCEPT ![m] = NoOrders]
    /\ UNCHANGED ledger

Next == \E m \in Machines : Forget(m) \/ MoveTo(m, view'[m])

Spec == Init /\ [][Next]_vars
=============================================================================
