----------------------------- MODULE FleetView -----------------------------
(***************************************************************************)
(* The liveness view of the fleet (daemon/fleet.py, FleetManager).         *)
(*                                                                         *)
(* GET /v1/fleet runs `FleetRuntime.snapshot` in a thread of the server's  *)
(* pool: it loads fleet.yaml, compares it with the revision the manager    *)
(* recorded, asks every member for a signed picture, one after the other,  *)
(* and replies with one row per member.  The manager takes no lock, so two *)
(* requests interleave between its assignments.                            *)
(*                                                                         *)
(* Time is in seconds of this machine's clock.  A member samples its       *)
(* picture when it answers, by a clock that is off by a fixed amount.      *)
(***************************************************************************)
EXTENDS Integers, Sequences

CONSTANTS
    Members,      \* the ships that may be enrolled
    Threads,      \* the requests that may be served at the same time
    Offsets,      \* by how much a member's clock may be ahead
    Freshness,    \* freshness_seconds
    MaxRevision,   \* bound: revisions of fleet.yaml
    LastTick,      \* bound: the clock stops here
    Never,        \* the time a member was last seen that never was
    NoRow         \* a row of a member the reply leaves out

ASSUME FleetViewAssumption ==
    /\ Offsets \subseteq Int /\ Offsets # {}
    /\ Freshness \in Nat
    /\ Never \notin Int

VARIABLES
    clock,            \* the clock
    offset,         \* how far each member's clock is ahead of it
    documents,      \* the rosters of the signed revisions, newest last
    ordersVersion,  \* manager: the recorded revision, 0 for none
    members,        \* manager: the recorded roster
    lastSeen,       \* manager: when each member was last observed
    gone,           \* manager: the rows of removed members
    crossed,        \* history: the recorded revision was recorded while another
                    \* request was about to record the roster of a different one
    pc,             \* per request: the next step of refresh
    view,           \* per request: the revision it loaded
    start,          \* per request: the clock as refresh began
    sent,           \* per request: when the picture in flight was asked for
    todo,           \* per request: the members still to ask
    rows            \* per request: the rows so far; the reply once pc is idle

manager == <<ordersVersion, members, lastSeen, gone, crossed>>
world == <<clock, offset, documents>>
viewVars == <<world, manager, pc, view, start, sent, todo, rows>>

Roster(t) == documents[view[t]]

NoRows == [m \in Members |-> NoRow]

Row(state, observed, answer) == [state |-> state, observed |-> observed, answer |-> answer]

ViewInit ==
    /\ clock = 0
    /\ offset \in [Members -> Offsets]
    /\ documents \in {<<roster>> : roster \in (SUBSET Members) \ {{}}}
    /\ ordersVersion = 0
    /\ members = {}
    /\ lastSeen = [m \in Members |-> Never]
    /\ gone = NoRows
    /\ crossed = FALSE
    /\ pc = [t \in Threads |-> "idle"]
    /\ view = [t \in Threads |-> 0]
    /\ start = [t \in Threads |-> 0]
    /\ sent = [t \in Threads |-> 0]
    /\ todo = [t \in Threads |-> {}]
    /\ rows = [t \in Threads |-> NoRows]

\* Only waiting for a member takes time.
Waits ==
    /\ clock < LastTick
    /\ \A t \in Threads : pc[t] \in {"idle", "poll"}
    /\ clock' = clock + 1
    /\ UNCHANGED <<offset, documents, manager, pc, view, start, sent, todo, rows>>

\* A control replaces fleet.yaml by a newer revision.  add_member only adds, but
\* validate_transition asks nothing of the roster: a document that join applies
\* may have fewer members.
Revise ==
    /\ Len(documents) < MaxRevision
    /\ \E roster \in (SUBSET Members) \ {{}} : documents' = Append(documents, roster)
    /\ UNCHANGED <<clock, offset, manager, pc, view, start, sent, todo, rows>>

Goto(t, label) == pc' = [pc EXCEPT ![t] = label]

\* FleetRuntime.snapshot loads the document before it calls refresh.
Load(t) ==
    /\ pc[t] = "idle"
    /\ view' = [view EXCEPT ![t] = Len(documents)]
    /\ rows' = [rows EXCEPT ![t] = NoRows]
    /\ Goto(t, "loaded")
    /\ UNCHANGED <<world, manager, start, sent, todo>>

\* _unknown_snapshot
UnknownRows ==
    [m \in Members |-> IF m \in members THEN Row("unknown", lastSeen[m], "none") ELSE NoRow]

\* The clock or the signature check fails, or the document is older than the
\* recorded one, or differs from it under the same version.
Refuses(t) ==
    \/ view[t] < ordersVersion
    \/ view[t] = ordersVersion /\ Roster(t) # members

Check(t) ==
    /\ pc[t] = "loaded"
    /\ start' = [start EXCEPT ![t] = clock]
    /\ \E failed \in BOOLEAN :
          IF failed \/ Refuses(t)
          THEN /\ rows' = [rows EXCEPT ![t] = UnknownRows]
               /\ Goto(t, "idle")
          ELSE /\ Goto(t, "compare")
               /\ UNCHANGED rows
    /\ UNCHANGED <<world, manager, view, sent, todo>>

Compare(t) ==
    /\ pc[t] = "compare"
    /\ Goto(t, IF ordersVersion # 0 /\ view[t] > ordersVersion THEN "mark" ELSE "unmark")
    /\ UNCHANGED <<world, manager, view, start, sent, todo, rows>>

\* Who is recorded and not in the newer document has been removed.
Mark(t) ==
    /\ pc[t] = "mark"
    /\ gone' = [m \in Members |-> IF m \in members \ Roster(t)
                                  THEN Row("gone", lastSeen[m], "none")
                                  ELSE gone[m]]
    /\ Goto(t, "unmark")
    /\ UNCHANGED <<world, ordersVersion, members, lastSeen, crossed, view, start, sent, todo, rows>>

Unmark(t) ==
    /\ pc[t] = "unmark"
    /\ gone' = [m \in Members |-> IF m \in Roster(t) THEN NoRow ELSE gone[m]]
    /\ Goto(t, "version")
    /\ UNCHANGED <<world, ordersVersion, members, lastSeen, crossed, view, start, sent, todo, rows>>

RecordVersion(t) ==
    /\ pc[t] = "version"
    /\ ordersVersion' = view[t]
    /\ crossed' = \E u \in Threads \ {t} : pc[u] = "members" /\ view[u] # view[t]
    /\ Goto(t, "members")
    /\ UNCHANGED <<world, members, lastSeen, gone, view, start, sent, todo, rows>>

\* (mutant) removed members stay on record
RecordMembersMerged(t) ==
    /\ pc[t] = "members"
    /\ members' = members \cup Roster(t)
    /\ todo' = [todo EXCEPT ![t] = Roster(t)]
    /\ sent' = [sent EXCEPT ![t] = clock]
    /\ Goto(t, "poll")
    /\ UNCHANGED <<world, ordersVersion, lastSeen, gone, crossed, view, start, rows>>

RecordMembers(t) ==
    /\ pc[t] = "members"
    /\ members' = Roster(t)
    /\ todo' = [todo EXCEPT ![t] = Roster(t)]
    /\ sent' = [sent EXCEPT ![t] = clock]
    /\ Goto(t, "poll")
    /\ UNCHANGED <<world, ordersVersion, lastSeen, gone, crossed, view, start, rows>>

\* The row of `m` is ready; the next request leaves clock.
Polled(t, m, row) ==
    /\ rows' = [rows EXCEPT ![t][m] = row]
    /\ todo' = [todo EXCEPT ![t] = @ \ {m}]
    /\ sent' = [sent EXCEPT ![t] = clock]

\* (mutant) the picture's age is never compared with the tolerance
AheadIgnored(age) == FALSE

\* _classify: a picture may be a second ahead of this daemon.
Ahead(age) == age < -1

Stale(age) == age > Freshness

\* _member_row, the member answered with a picture it signed: sampled at some
\* moment since the request left, by the member's clock.
Answer(t, m) ==
    /\ pc[t] = "poll" /\ m \in todo[t]
    /\ \E sampled \in sent[t]..clock, status \in {"ready", "busy", "unknown"} :
          LET observed == sampled + offset[m]
              age == start[t] - observed
          IN  IF Ahead(age)
              THEN /\ Polled(t, m, Row("unknown", lastSeen[m], status))
                   /\ UNCHANGED lastSeen
              ELSE /\ Polled(t, m, Row(IF Stale(age) THEN "unknown" ELSE status,
                                       observed, status))
                   /\ lastSeen' = [lastSeen EXCEPT ![m] = observed]
    /\ UNCHANGED <<world, ordersVersion, members, gone, crossed, pc, view, start>>

\* _member_row, no usable answer.  The runtime's client reports an unreachable
\* member as FleetRuntimeError, which is not one of the errors that mean asleep.
NoAnswer(t, m) ==
    /\ pc[t] = "poll" /\ m \in todo[t]
    /\ Polled(t, m, Row("unknown", lastSeen[m], "none"))
    /\ UNCHANGED <<world, manager, pc, view, start>>

\* recompute_age at time `at`
Aged(row, at) ==
    IF row # NoRow /\ row.state \in {"ready", "busy"} /\ at - row.observed > Freshness
    THEN [row EXCEPT !.state = "unknown"]
    ELSE row

\* Removed members are appended, ages are recomputed with the clock as of the
\* beginning, and the reply leaves.
Reply(t) ==
    /\ pc[t] = "poll" /\ todo[t] = {}
    /\ rows' = [rows EXCEPT ![t] =
                   [m \in Members |-> IF gone[m] # NoRow THEN gone[m]
                                      ELSE Aged(rows[t][m], start[t])]]
    /\ Goto(t, "idle")
    /\ UNCHANGED <<world, manager, view, start, sent, todo>>

\* The command line recomputes the ages of a reply whenever it draws one.
Shown(t, m) == Aged(rows[t][m], clock)

Refresh(t) ==
    \/ Load(t) \/ Check(t) \/ Compare(t) \/ Mark(t) \/ Unmark(t)
    \/ RecordVersion(t) \/ RecordMembers(t)
    \/ \E m \in Members : Answer(t, m) \/ NoAnswer(t, m)
    \/ Reply(t)

ViewNext ==
    \/ Waits
    \/ Revise
    \/ \E t \in Threads : Refresh(t)

(***************************************************************************)
(* Properties                                                              *)
(***************************************************************************)

AtRest == \A t \in Threads : pc[t] # "members"

\* However requests overlap, the recorded roster is the one of the recorded revision
\* whenever no request is between its two assignments, unless that revision was recorded
\* while another request was about to record the roster of a different one.  The next
\* request that records without meeting such a request repairs it.
RecordedUnlessCrossed ==
    AtRest /\ ordersVersion # 0 /\ ~crossed => members = documents[ordersVersion]

\* The newest document is not refused with "ORDERS membership changed without a newer
\* signed version": if it is the recorded one, its roster is on record.
NewestIsAccepted ==
    AtRest /\ ordersVersion = Len(documents) => members = documents[ordersVersion]

\* A ship that the command line shows as ready or busy answered within the
\* freshness window and the second of tolerated skew, whatever its clock says
\* and however long the refresh took: rendering recomputes the ages.
ShownReadyIsFresh ==
    \A t \in Threads, m \in Members :
        Shown(t, m) # NoRow /\ Shown(t, m).state \in {"ready", "busy"}
            => clock - (Shown(t, m).observed - offset[m]) <= Freshness + 1

\* A ship whose clock agrees with this daemon's and that answers at once, ready
\* or busy, is not put down as unknown by the daemon that just asked it.
AnsweredIsReady ==
    [][\A t \in Threads, m \in Members :
          LET row == rows'[t][m]
          IN  (pc[t] = "poll" /\ todo'[t] = todo[t] \ {m} /\ m \in todo[t] /\ offset[m] = 0
               /\ clock = sent[t] /\ row.answer \in {"ready", "busy"})
                => row.state = row.answer]_viewVars
=============================================================================
