------------------------------- MODULE Changes -------------------------------
(***************************************************************************)
(* What a step leaves of a record of which it changes several fields.      *)
(***************************************************************************)

Changed(record, change) ==
    [f \in DOMAIN change \cup DOMAIN record |->
        IF f \in DOMAIN change THEN change[f] ELSE record[f]]
=============================================================================
