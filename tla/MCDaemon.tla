------------------------------ MODULE MCDaemon ------------------------------
(* A daemon, one question at a time: processes that come up, by hand or by *)
(* systemd, and die over the same files; the index of one that came up,     *)
(* with two local records, one of them refused, and another member; and its *)
(* doors, while there is nothing to index.                                  *)
EXTENDS DaemonStart, DaemonLife, TLC

CONSTANTS p1, p2, p3, good, bad, m1, MCAges

VARIABLE age
daemonVars == <<age, vars, lifeVars>>

MCHandOrUnit == {{}, {p1}}
MCUnit == {{p1}}

DaemonInit ==
    /\ age \in MCAges /\ Init /\ LifeInit
    /\ age = "start" => peer.door = "disabled" /\ ~tailnet
    /\ age = "index" => peer.door = "fixed"
    /\ age # "start" => units = {}

\* The tailnet of the first moment lasts: the fixed peer door opens or cannot be bound.
IndexNext == LifeNext /\ UNCHANGED tailnet

DoorsNext == LifeNext /\ UNCHANGED corpus /\ \A m \in Members : thread'[m] = "off"

DaemonNext ==
    \/ age = "start" /\ Next /\ UNCHANGED <<age, lifeVars>>
    \/ age = "index" /\ IndexNext /\ UNCHANGED <<age, vars>>
    \/ age = "doors" /\ DoorsNext /\ UNCHANGED <<age, vars>>

DaemonSpec ==
    DaemonInit /\ [][DaemonNext]_daemonVars /\ (age # "start" => LifeFairness)
=============================================================================
