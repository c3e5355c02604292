--------------------------- MODULE FleetViewProofs ---------------------------
(***************************************************************************)
(* What the fleet view shows, for any ships, clocks and revisions: a ship  *)
(* shown as ready answered within the freshness window, and the recorded   *)
(* roster is the one of the recorded revision unless another request was   *)
(* about to record when that revision was recorded.  Both hold for any     *)
(* number of requests that interleave at every step.                       *)
(***************************************************************************)
EXTENDS FleetView, TLAPS

ViewSpec == ViewInit /\ [][ViewNext]_viewVars

-----------------------------------------------------------------------------
(* Freshness *)

\* Only a ship whose clock leads by no more than the tolerated second gets a row that says
\* ready or busy: its picture was sampled after the clock was read.
RowInv(m, row) ==
    row # NoRow =>
        /\ DOMAIN row = {"state", "observed", "answer"}
        /\ row.state \in {"ready", "busy"} => row.observed \in Int /\ offset[m] <= 1

FreshInv ==
    /\ clock \in Nat /\ offset \in [Members -> Int]
    /\ DOMAIN pc = Threads /\ start \in [Threads -> Nat] /\ sent \in [Threads -> Nat]
    /\ DOMAIN rows = Threads /\ DOMAIN gone = Members
    /\ \A t \in Threads :
          /\ DOMAIN rows[t] = Members
          /\ \A m \in Members : RowInv(m, rows[t][m])
          /\ start[t] <= clock /\ sent[t] <= clock
          /\ pc[t] = "poll" => start[t] <= sent[t]
    /\ \A m \in Members : RowInv(m, gone[m])

\* A step that writes no row and leaves the clocks.
LEMMA RowsStay ==
    ASSUME FreshInv, NEW t \in Threads, NEW label, Goto(t, label), label # "poll",
           UNCHANGED <<clock, offset, start, sent, rows, gone>>
    PROVE  FreshInv'
BY DEF Goto, FreshInv, RowInv

LEMMA StepPolled ==
    ASSUME FreshInv, NEW t \in Threads, pc[t] = "poll", NEW m \in Members, NEW row,
           RowInv(m, row), Polled(t, m, row), UNCHANGED <<clock, offset, pc, start, gone>>
    PROVE  FreshInv'
<1>1. /\ rows' = [rows EXCEPT ![t][m] = row] /\ sent' = [sent EXCEPT ![t] = clock]
    BY DEF Polled
<1>2. \A u \in Threads, n \in Members : RowInv(n, rows'[u][n])
    BY <1>1 DEF FreshInv
<1>3. \A u \in Threads, n \in Members : RowInv(n, rows[u][n])'
    BY <1>2 DEF RowInv
<1>4. \A n \in Members : RowInv(n, gone[n])'
    BY DEF FreshInv, RowInv
<1> QED
    BY <1>1, <1>3, <1>4 DEF FreshInv

LEMMA StepAnswer ==
    ASSUME FreshInv, NEW t \in Threads, NEW m \in Members, Answer(t, m)
    PROVE  FreshInv'
<1>1. PICK sampled \in sent[t] .. clock, status \in {"ready", "busy", "unknown"} :
          LET observed == sampled + offset[m]
              age == start[t] - observed
          IN  IF Ahead(age)
              THEN Polled(t, m, Row("unknown", lastSeen[m], status))
              ELSE Polled(t, m, Row(IF Stale(age) THEN "unknown" ELSE status, observed, status))
    BY DEF Answer
<1> DEFINE observed == sampled + offset[m]
           age == start[t] - observed
<1>2. pc[t] = "poll" /\ UNCHANGED <<clock, offset, pc, start, gone>>
    BY DEF Answer, world
<1>3. CASE Ahead(age)
    BY <1>1, <1>2, <1>3, StepPolled DEF Row, RowInv
<1>4. CASE ~Ahead(age)
    <2>1. /\ observed \in Int /\ start[t] \in Nat /\ sampled \in Int /\ offset[m] \in Int
          /\ start[t] <= sampled
        BY <1>2 DEF FreshInv
    <2>2. offset[m] <= 1
        BY <1>4, <2>1 DEF Ahead
    <2>3. RowInv(m, Row(IF Stale(age) THEN "unknown" ELSE status, observed, status))
        BY <2>1, <2>2 DEF Row, RowInv
    <2> QED
        BY <1>1, <1>2, <1>4, <2>3, StepPolled
<1> QED
    BY <1>3, <1>4

LEMMA FreshInvariant == ViewSpec => []FreshInv
<1>1. ViewInit => FreshInv
    <2> SUFFICES ASSUME ViewInit PROVE FreshInv
        OBVIOUS
    <2>1. clock = 0 /\ offset \in [Members -> Int]
        BY FleetViewAssumption DEF ViewInit
    <2>2. DOMAIN NoRows = Members /\ \A m \in Members : RowInv(m, NoRows[m])
        BY DEF NoRows, RowInv
    <2>3. \A t \in Threads : rows[t] = NoRows /\ start[t] = 0 /\ sent[t] = 0 /\ pc[t] = "idle"
        BY DEF ViewInit
    <2>4. /\ DOMAIN pc = Threads /\ start \in [Threads -> Nat] /\ sent \in [Threads -> Nat]
          /\ DOMAIN rows = Threads /\ gone = NoRows
        BY DEF ViewInit
    <2> QED
        BY <2>1, <2>2, <2>3, <2>4 DEF FreshInv
<1>2. FreshInv /\ [ViewNext]_viewVars => FreshInv'
    <2> SUFFICES ASSUME FreshInv, [ViewNext]_viewVars PROVE FreshInv'
        OBVIOUS
    <2>1. CASE UNCHANGED viewVars
        BY <2>1 DEF viewVars, world, manager, FreshInv, RowInv
    <2>2. CASE Waits \/ Revise
        BY <2>2 DEF Waits, Revise, manager, FreshInv, RowInv
    <2>3. ASSUME NEW t \in Threads, Load(t) PROVE FreshInv'
        BY <2>3 DEF Load, Goto, world, manager, FreshInv, RowInv, NoRows
    <2>4. ASSUME NEW t \in Threads, Check(t) PROVE FreshInv'
        <3>1. /\ start' = [start EXCEPT ![t] = clock] /\ UNCHANGED <<clock, offset, sent, gone>>
              /\ \/ rows' = [rows EXCEPT ![t] = UnknownRows] /\ Goto(t, "idle")
                 \/ rows' = rows /\ Goto(t, "compare")
            BY <2>4 DEF Check, world, manager
        <3>2. DOMAIN UnknownRows = Members /\ \A m \in Members : RowInv(m, UnknownRows[m])
            BY DEF UnknownRows, RowInv, Row
        <3>3. /\ DOMAIN rows' = Threads
              /\ \A u \in Threads : DOMAIN rows'[u] = Members /\ \A m \in Members : RowInv(m, rows'[u][m])
            BY <3>1, <3>2 DEF FreshInv
        <3> QED
            BY <3>1, <3>3 DEF Goto, FreshInv, RowInv
    <2>5. ASSUME NEW t \in Threads, Compare(t) \/ RecordVersion(t) PROVE FreshInv'
        BY <2>5, RowsStay DEF Compare, RecordVersion, world, manager
    <2>6. ASSUME NEW t \in Threads, Mark(t) \/ Unmark(t) PROVE FreshInv'
        <3>1. /\ UNCHANGED <<clock, offset, start, sent, rows>>
              /\ \E label : Goto(t, label) /\ label # "poll"
              /\ DOMAIN gone' = Members
              /\ \A m \in Members : \/ gone'[m] \in {gone[m], NoRow}
                                    \/ gone'[m] = Row("gone", lastSeen[m], "none")
            BY <2>6 DEF Mark, Unmark, world
        <3>2. \A m \in Members : RowInv(m, gone'[m])
            BY <3>1 DEF FreshInv, RowInv, Row
        <3> QED
            BY <3>1, <3>2 DEF Goto, FreshInv, RowInv
    <2>7. ASSUME NEW t \in Threads, RecordMembers(t) PROVE FreshInv'
        BY <2>7 DEF RecordMembers, Goto, world, FreshInv, RowInv
    <2>8. ASSUME NEW t \in Threads, NEW m \in Members, NoAnswer(t, m) PROVE FreshInv'
        <3>1. RowInv(m, Row("unknown", lastSeen[m], "none"))
            BY DEF Row, RowInv
        <3> QED
            BY <2>8, <3>1, StepPolled DEF NoAnswer, world, manager
    <2>9. ASSUME NEW t \in Threads, Reply(t) PROVE FreshInv'
        <3> DEFINE reply == [m \in Members |-> IF gone[m] # NoRow THEN gone[m]
                                               ELSE Aged(rows[t][m], start[t])]
        <3>1. /\ rows' = [rows EXCEPT ![t] = reply] /\ Goto(t, "idle")
              /\ UNCHANGED <<clock, offset, start, sent, gone>>
            BY <2>9 DEF Reply, world, manager
        <3>2. \A m \in Members : RowInv(m, reply[m])
            BY DEF FreshInv, RowInv, Aged
        <3>3. DOMAIN reply = Members
            OBVIOUS
        <3> HIDE DEF reply
        <3> QED
            BY <3>1, <3>2, <3>3 DEF Goto, FreshInv, RowInv
    <2> QED
        BY <2>1, <2>2, <2>3, <2>4, <2>5, <2>6, <2>7, <2>8, <2>9, StepAnswer DEF ViewNext, Refresh
<1> QED
    BY <1>1, <1>2, PTL DEF ViewSpec

\* A ship that is shown as ready or busy answered within the freshness window and one
\* second, whatever its clock says, however many requests refresh the view at once.
THEOREM ShownReadyWasFresh == ViewSpec => []ShownReadyIsFresh
<1>1. FreshInv => ShownReadyIsFresh
    <2> SUFFICES ASSUME FreshInv, NEW t \in Threads, NEW m \in Members,
                        Shown(t, m) # NoRow, Shown(t, m).state \in {"ready", "busy"}
                 PROVE  clock - (Shown(t, m).observed - offset[m]) <= Freshness + 1
        BY DEF ShownReadyIsFresh
    <2> DEFINE row == rows[t][m]
    <2>1. row # NoRow /\ RowInv(m, row)
        BY DEF FreshInv, Shown, Aged
    <2>2. Shown(t, m) = row /\ row.state \in {"ready", "busy"} /\ ~(clock - row.observed > Freshness)
        BY <2>1 DEF Shown, Aged, RowInv
    <2>3. row.observed \in Int /\ offset[m] <= 1 /\ offset[m] \in Int /\ clock \in Nat /\ Freshness \in Nat
        BY <2>1, <2>2, FleetViewAssumption DEF RowInv, FreshInv
    <2> QED
        BY <2>2, <2>3
<1> QED
    BY <1>1, FreshInvariant, PTL

-----------------------------------------------------------------------------
(* The recorded revision *)

\* A request carries a revision that was signed.  Unless the recorded version crossed
\* another request, all who are about to record a roster have loaded that version.
RecordInv ==
    /\ DOMAIN pc = Threads /\ view \in [Threads -> Nat]
    /\ documents \in Seq(SUBSET Members) /\ Len(documents) >= 1
    /\ ordersVersion \in 0 .. Len(documents)
    /\ \A t \in Threads : pc[t] # "idle" => view[t] \in 1 .. Len(documents)
    /\ ~crossed => \A t \in Threads : pc[t] = "members" => view[t] = ordersVersion
    /\ RecordedUnlessCrossed

LEMMA RecordInvariant == ViewSpec => []RecordInv
<1>1. ViewInit => RecordInv
    <2> SUFFICES ASSUME ViewInit PROVE RecordInv
        OBVIOUS
    <2>1. PICK roster \in SUBSET Members : documents = <<roster>>
        BY DEF ViewInit
    <2>2. documents \in Seq(SUBSET Members) /\ Len(documents) = 1
        BY <2>1
    <2> QED
        BY <2>2 DEF ViewInit, RecordInv, RecordedUnlessCrossed
<1>2. RecordInv /\ [ViewNext]_viewVars => RecordInv'
    <2> SUFFICES ASSUME RecordInv, [ViewNext]_viewVars PROVE RecordInv'
        OBVIOUS
    <2>1. CASE UNCHANGED viewVars
        BY <2>1 DEF viewVars, world, manager, RecordInv, RecordedUnlessCrossed, AtRest
    <2>2. CASE Waits
        BY <2>2 DEF Waits, manager, RecordInv, RecordedUnlessCrossed, AtRest
    <2>3. CASE Revise
        <3>1. PICK roster \in SUBSET Members : documents' = Append(documents, roster)
            BY <2>3 DEF Revise
        <3>2. UNCHANGED <<ordersVersion, members, crossed, pc, view>>
            BY <2>3 DEF Revise, manager
        <3>3. /\ documents' \in Seq(SUBSET Members) /\ Len(documents') = Len(documents) + 1
              /\ \A v \in 1 .. Len(documents) : documents'[v] = documents[v]
            BY <3>1 DEF RecordInv, RecordedUnlessCrossed, AtRest
        <3> QED
            BY <3>2, <3>3 DEF RecordInv, RecordedUnlessCrossed, AtRest
    <2>4. ASSUME NEW t \in Threads, NEW label, Goto(t, label), pc[t] # "idle",
                 pc[t] # "members", label # "members",
                 UNCHANGED <<documents, ordersVersion, members, crossed, view>>
          PROVE  RecordInv'
        BY <2>4 DEF Goto, RecordInv, RecordedUnlessCrossed, AtRest
    <2>5. ASSUME NEW t \in Threads, Load(t) PROVE RecordInv'
        <3>1. Len(documents) \in 1 .. Len(documents) /\ Len(documents) \in Nat
            BY DEF RecordInv, RecordedUnlessCrossed, AtRest
        <3> QED
            BY <2>5, <3>1 DEF Load, Goto, world, manager, RecordInv, RecordedUnlessCrossed, AtRest
    <2>6. ASSUME NEW t \in Threads, Check(t) \/ Compare(t) \/ Mark(t) \/ Unmark(t) \/ Reply(t)
          PROVE  RecordInv'
        <3>1. /\ UNCHANGED <<documents, ordersVersion, members, crossed, view>>
              /\ \E label : Goto(t, label) /\ label # "members"
              /\ pc[t] \notin {"idle", "members"}
            BY <2>6 DEF Check, Compare, Mark, Unmark, Reply, world, manager
        <3> QED
            BY <2>4, <3>1
    <2>7. ASSUME NEW t \in Threads, RecordVersion(t) PROVE RecordInv'
        <3>1. /\ pc[t] = "version" /\ view[t] \in 1 .. Len(documents)
              /\ UNCHANGED <<documents, members, view>>
              /\ ordersVersion' = view[t] /\ pc' = [pc EXCEPT ![t] = "members"]
              /\ crossed' = \E u \in Threads \ {t} : pc[u] = "members" /\ view[u] # view[t]
            BY <2>7 DEF RecordVersion, Goto, world, RecordInv
        <3>2. ~AtRest'
            BY <3>1 DEF AtRest, RecordInv
        <3>3. ~crossed' => \A u \in Threads : pc'[u] = "members" => view'[u] = ordersVersion'
            BY <3>1 DEF RecordInv
        <3>4. \A u \in Threads : pc'[u] # "idle" => view'[u] \in 1 .. Len(documents')
            BY <3>1 DEF RecordInv
        <3> QED
            BY <3>1, <3>2, <3>3, <3>4 DEF RecordInv, RecordedUnlessCrossed
    <2>8. ASSUME NEW t \in Threads, RecordMembers(t) PROVE RecordInv'
        BY <2>8 DEF RecordMembers, Goto, Roster, world, RecordInv, RecordedUnlessCrossed, AtRest
    <2>9. ASSUME NEW t \in Threads, NEW m \in Members, Answer(t, m) \/ NoAnswer(t, m) PROVE RecordInv'
        BY <2>9 DEF Answer, NoAnswer, world, manager, RecordInv, RecordedUnlessCrossed, AtRest
    <2> QED
        BY <2>1, <2>2, <2>3, <2>5, <2>6, <2>7, <2>8, <2>9 DEF ViewNext, Refresh
<1> QED
    BY <1>1, <1>2, PTL DEF ViewSpec

\* However many requests overlap, the recorded roster is the one of the recorded
\* revision unless that revision crossed another request's when it was recorded.
THEOREM RosterIsOfRevision == ViewSpec => []RecordedUnlessCrossed
<1>1. RecordInv => RecordedUnlessCrossed
    BY DEF RecordInv
<1> QED
    BY <1>1, RecordInvariant, PTL
=============================================================================
