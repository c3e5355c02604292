---------------------------- MODULE BackroomProofs ----------------------------
(***************************************************************************)
(* What the parts of the studio and of the daemon that share nothing       *)
(* promise, for any tabs, requests, drivers, recipes and tracks: one       *)
(* section per part, each with the invariant that its steps preserve.      *)
(***************************************************************************)
EXTENDS Cockpit, Plates, AudioJobs, Downloads, Installs, LocalWorkers, FiniteSetTheorems,
        SequenceTheorems, WellFoundedInduction, NaturalsInduction, TLAPS

-----------------------------------------------------------------------------
(* The status of the box *)

StatusSpec == StatusInit /\ [][StatusNext]_statusVars

\* While nobody asks AWS, the last question is answered in the cache, or it raised.
StatusInv ==
    /\ clock \in Nat /\ asked \in Nat /\ asked <= clock /\ Ttl <= clock
    /\ snapshot # Nobody => snapshot.at \in Nat
    /\ lock = Nobody /\ ~raised => IF snapshot = Nobody THEN asked = 0 ELSE asked <= snapshot.at

LEMMA StatusInvariant == StatusSpec => []StatusInv
<1>1. StatusInit => StatusInv
    BY CockpitAssumption DEF StatusInit, StatusInv
<1>2. StatusInv /\ [StatusNext]_statusVars => StatusInv'
    <2> SUFFICES ASSUME StatusInv, [StatusNext]_statusVars PROVE StatusInv'
        OBVIOUS
    <2>1. CASE UNCHANGED statusVars
        BY <2>1 DEF statusVars, StatusInv
    <2>2. CASE Waits
        BY <2>2, CockpitAssumption DEF Waits, StatusInv
    <2>3. ASSUME NEW t \in Tabs, Poll(t) PROVE StatusInv'
        BY <2>3 DEF Poll, StatusInv
    <2>4. ASSUME NEW t \in Tabs, AskAws(t) PROVE StatusInv'
        BY <2>4, CockpitAssumption DEF AskAws, StatusInv
    <2>5. ASSUME NEW t \in Tabs, Cached(t) PROVE StatusInv'
        <3>1. PICK aws \in {"none", "pending", "running", "timeout", "error"} :
                  snapshot' = [at |-> clock, status |-> BuildStatus(aws)]
            BY <2>5 DEF Cached
        <3>2. BuildStatus(aws) \in [says : Reported, ready : BOOLEAN]
            BY <3>1 DEF BuildStatus, Reported
        <3>3. snapshot' \in [at : Nat, status : [says : Reported, ready : BOOLEAN]]
            BY <3>1, <3>2 DEF StatusInv
        <3>4. snapshot' # Nobody
            BY <3>3, CockpitAssumption
        <3> QED
            BY <2>5, <3>1, <3>4 DEF Cached, Answered, StatusInv
    <2>6. ASSUME NEW t \in Tabs, BuildRaises(t) PROVE StatusInv'
        BY <2>6 DEF BuildRaises, Answered, StatusInv
    <2> QED
        BY <2>1, <2>2, <2>3, <2>4, <2>5, <2>6 DEF StatusNext
<1> QED
    BY <1>1, <1>2, PTL DEF StatusSpec

\* However many tabs poll at once, two questions to AWS are Ttl apart, unless the first
\* ended in an exception.
THEOREM OneQueryAtATime == StatusSpec => OneQueryPerTtl
<1>1. StatusInv /\ [StatusNext]_statusVars
        => [asked' # asked => raised \/ asked' - asked >= Ttl]_statusVars
    <2> SUFFICES ASSUME StatusInv, StatusNext, asked' # asked, ~raised
                 PROVE  asked' - asked >= Ttl
        OBVIOUS
    <2>1. PICK t \in Tabs : AskAws(t)
        BY DEF StatusNext, Waits, Poll, Cached, BuildRaises, Answered
    <2>2. asked' = clock /\ lock = Nobody /\ ~Recent
        BY <2>1 DEF AskAws, Recheck
    <2> QED
        BY <2>2, CockpitAssumption DEF StatusInv, Recent
<1> QED
    BY <1>1, StatusInvariant, PTL DEF StatusSpec, OneQueryPerTtl

-----------------------------------------------------------------------------
(* The settings *)

ConfigSpec == ConfigInit /\ [][ConfigNext]_configVars

MasksInv == MasksStayOut /\ DOMAIN update = Tabs

LEMMA MasksInvariant == ConfigSpec => []MasksInv
<1>0. Mask # Default
    BY CockpitAssumption
<1>1. ConfigInit => MasksInv
    BY <1>0 DEF ConfigInit, MasksInv, MasksStayOut, Defaults
<1>2. MasksInv /\ [ConfigNext]_configVars => MasksInv'
    <2> SUFFICES ASSUME MasksInv, [ConfigNext]_configVars PROVE MasksInv'
        OBVIOUS
    <2>1. CASE UNCHANGED configVars
        BY <2>1 DEF configVars, MasksInv, MasksStayOut
    <2>2. ASSUME NEW t \in Tabs, Show(t) PROVE MasksInv'
        BY <2>2 DEF Show, MasksInv, MasksStayOut
    <2>3. ASSUME NEW t \in Tabs, ReadForUpdate(t) PROVE MasksInv'
        <3>1. update' = [update EXCEPT ![t] = LoadConfig] /\ file' = file
            BY <2>3 DEF ReadForUpdate
        <3>2. Mask \notin {LoadConfig[f] : f \in Fields}
            BY <1>0 DEF LoadConfig, Defaults, MasksInv, MasksStayOut
        <3> QED
            BY <3>1, <3>2 DEF MasksInv, MasksStayOut
    <2>4. ASSUME NEW t \in Tabs, SaveConfig(t) PROVE MasksInv'
        <3>1. /\ update[t] # Nobody /\ file' = Merged(update[t], form[t])
              /\ update' = [update EXCEPT ![t] = Nobody]
            BY <2>4 DEF SaveConfig
        <3>2. Mask \notin {file'[f] : f \in Fields}
            BY <3>1 DEF Merged, MasksInv, MasksStayOut
        <3> QED
            BY <3>1, <3>2 DEF MasksInv, MasksStayOut
    <2>5. CASE EditByHand
        BY <2>5 DEF EditByHand, MasksInv, MasksStayOut
    <2> QED
        BY <2>1, <2>2, <2>3, <2>4, <2>5 DEF ConfigNext
<1> QED
    BY <1>1, <1>2, PTL DEF ConfigSpec

\* Whatever tabs show, post and overwrite in turn, no mask is saved for a secret.
THEOREM MasksAreNeverSaved == ConfigSpec => []MasksStayOut
<1>1. MasksInv => MasksStayOut
    BY DEF MasksInv
<1> QED
    BY <1>1, MasksInvariant, PTL

-----------------------------------------------------------------------------
(* The shell *)

ShellSpec == ShellInit /\ [][ShellNext]_shellVars

\* Ssh runs only between its start and the handler's finally.
ShellInv ==
    /\ DOMAIN shell = Tabs
    /\ \A t \in Tabs :
          /\ {"at", "ssh"} \subseteq DOMAIN shell[t]
          /\ shell[t].at \in {"off", "auth", "lookup", "over"} => shell[t].ssh # "runs"

LEMMA ShellInvariant == ShellSpec => []ShellInv
<1>1. ShellInit => ShellInv
    BY DEF ShellInit, ShellInv, NoShell
<1>2. ShellInv /\ [ShellNext]_shellVars => ShellInv'
    <2> SUFFICES ASSUME ShellInv, [ShellNext]_shellVars PROVE ShellInv'
        OBVIOUS
    <2>1. CASE UNCHANGED shell
        BY <2>1 DEF ShellInv
    <2>2. ASSUME NEW t \in Tabs, NEW change,
                 shell' = [shell EXCEPT ![t] = Changed(@, change)],
                 LET at == IF "at" \in DOMAIN change THEN change.at ELSE shell[t].at
                     ssh == IF "ssh" \in DOMAIN change THEN change.ssh ELSE shell[t].ssh
                 IN  at \in {"off", "auth", "lookup", "over"} => ssh # "runs"
          PROVE  ShellInv'
        <3> DEFINE over == Changed(shell[t], change)
        <3>1. /\ {"at", "ssh"} \subseteq DOMAIN over
              /\ over.at = IF "at" \in DOMAIN change THEN change.at ELSE shell[t].at
              /\ over.ssh = IF "ssh" \in DOMAIN change THEN change.ssh ELSE shell[t].ssh
            <4>1. "at" \in DOMAIN shell[t] /\ "ssh" \in DOMAIN shell[t]
                BY DEF ShellInv
            <4> QED
                BY <4>1 DEF Changed
        <3>2. shell' = [shell EXCEPT ![t] = over]
            BY <2>2
        <3> HIDE DEF over
        <3> QED
            BY <2>2, <3>1, <3>2 DEF ShellInv
    <2>3. ASSUME NEW t \in Tabs, Connect(t) PROVE ShellInv'
        BY <2>2, <2>3 DEF Connect, Set, ShellInv
    <2>4. ASSUME NEW t \in Tabs, Authenticate(t) PROVE ShellInv'
        BY <2>2, <2>4 DEF Authenticate, Set, ShellInv
    <2>5. ASSUME NEW t \in Tabs, OpenShell(t) PROVE ShellInv'
        BY <2>2, <2>5 DEF OpenShell, Set, ShellInv
    <2>6. ASSUME NEW t \in Tabs, ReadStdout(t) PROVE ShellInv'
        BY <2>2, <2>6 DEF ReadStdout, Set, ShellInv
    <2>7. ASSUME NEW t \in Tabs, ReadWs(t) PROVE ShellInv'
        BY <2>2, <2>7 DEF ReadWs, Set, ShellInv
    <2>8. ASSUME NEW t \in Tabs, FirstCompleted(t) PROVE ShellInv'
        BY <2>2, <2>8 DEF FirstCompleted, Terminated, Set, ShellInv
    <2>9. ASSUME NEW t \in Tabs, Kill(t) PROVE ShellInv'
        BY <2>2, <2>9 DEF Kill, Set, ShellInv
    <2>10. ASSUME NEW t \in Tabs, SshEnds(t) \/ ClientGoes(t) PROVE ShellInv'
        BY <2>2, <2>10 DEF SshEnds, ClientGoes, Set, ShellInv
    <2>11. ASSUME NEW t \in Tabs, StreamLogs(t) \/ Line(t) \/ Abandon(t) \/ TailEnds(t)
           PROVE  ShellInv'
        BY <2>1, <2>11 DEF StreamLogs, Line, Abandon, TailEnds
    <2> QED
        BY <2>1, <2>3, <2>4, <2>5, <2>6, <2>7, <2>8, <2>9, <2>10, <2>11
        DEF ShellNext, shellVars
<1> QED
    BY <1>1, <1>2, PTL DEF ShellSpec

\* When the handler of a shell is done, its ssh is not left running.
THEOREM NoShellIsLeft == ShellSpec => []ShellGoesWithSocket
<1>1. ShellInv => ShellGoesWithSocket
    BY DEF ShellInv, ShellGoesWithSocket
<1> QED
    BY <1>1, ShellInvariant, PTL

-----------------------------------------------------------------------------
(* The plate and the master of one video *)

PlatesSpec == PlatesInit /\ [][PlatesNext]_plateVars

\* The steps of a request at which its ffmpeg runs, and the output it then has open.
OpenAt == [scaling |-> "plate", overlaying |-> "master"]

RenderShapes ==
    /\ DOMAIN media = Outputs /\ DOMAIN left = Outputs /\ DOMAIN render = Renders
    /\ \A r \in Renders :
          /\ {"at", "opened", "hold"} \subseteq DOMAIN render[r]
          /\ IF render[r].at \in DOMAIN OpenAt
             THEN render[r].opened = OpenAt[render[r].at] /\ render[r].hold \in {"alone", "shared", "nameless"}
             ELSE render[r].opened = "nothing"

PlatesInv == RenderShapes /\ HalfIsInTheMaking

\* A step of one request that opens and closes nothing.
LEMMA RendersOn ==
    ASSUME PlatesInv, NEW r \in Renders, NEW change,
           render[r].at \notin DOMAIN OpenAt,
           render' = [render EXCEPT ![r] = Changed(@, change)],
           "at" \in DOMAIN change, change.at \notin DOMAIN OpenAt,
           "opened" \in DOMAIN change => change.opened = "nothing",
           UNCHANGED <<media, left>>
    PROVE  PlatesInv'
<1> DEFINE new == Changed(render[r], change)
<1>1. {"at", "opened", "hold"} \subseteq DOMAIN new /\ new.at = change.at /\ new.opened = "nothing"
    BY DEF Changed, PlatesInv, RenderShapes
<1>2. render' = [render EXCEPT ![r] = new]
    OBVIOUS
<1> HIDE DEF new
<1>3. RenderShapes'
    BY <1>1, <1>2 DEF PlatesInv, RenderShapes
<1>4. \A o \in Outputs : WritersOf(o) \subseteq WritersOf(o)'
    BY <1>2 DEF PlatesInv, RenderShapes, WritersOf, Outputs
<1> QED
    BY <1>3, <1>4 DEF PlatesInv, HalfIsInTheMaking

LEMMA RenderOpens ==
    ASSUME PlatesInv, NEW r \in Renders, NEW step \in DOMAIN OpenAt,
           render[r].at \notin DOMAIN OpenAt, Opens(r, OpenAt[step], step)
    PROVE  PlatesInv'
<1> DEFINE o == OpenAt[step]
<1>1. /\ media' = [media EXCEPT ![o] = "half"] /\ left' = [left EXCEPT ![o] = FALSE]
      /\ DOMAIN render' = Renders
      /\ \A q \in Renders \ {r} :
            /\ DOMAIN render'[q] = DOMAIN render[q]
            /\ render'[q].at = render[q].at /\ render'[q].opened = render[q].opened
            /\ render'[q].hold \in {render[q].hold, "shared"}
            /\ render[q].hold = "nameless" \/ render'[q].hold # "nameless"
      /\ DOMAIN render'[r] = DOMAIN render[r]
      /\ render'[r].at = step /\ render'[r].opened = o /\ render'[r].hold \in {"alone", "shared"}
    BY DEF Opens, WritersOf, PlatesInv, RenderShapes
<1>2. RenderShapes'
    BY <1>1 DEF PlatesInv, RenderShapes
<1>3. \A p \in Outputs : WritersOf(p) \subseteq WritersOf(p)'
    BY <1>1 DEF PlatesInv, RenderShapes, WritersOf, Outputs
<1>4. r \in WritersOf(o)'
    BY <1>1 DEF WritersOf
<1> QED
    BY <1>1, <1>2, <1>3, <1>4 DEF PlatesInv, RenderShapes, HalfIsInTheMaking

LEMMA RenderCloses ==
    ASSUME PlatesInv, NEW r \in Renders, render[r].at \in DOMAIN OpenAt,
           NEW step, step \notin DOMAIN OpenAt,
           Closes(r, OpenAt[render[r].at], step)
    PROVE  PlatesInv'
<1> DEFINE o == OpenAt[render[r].at]
           new == Changed(render[r], Closed(step))
<1>1. {"at", "opened", "hold"} \subseteq DOMAIN new /\ new.at = step /\ new.opened = "nothing"
    BY DEF Changed, Closed, PlatesInv, RenderShapes
<1>2. render' = [render EXCEPT ![r] = new]
    BY DEF Closes, Becomes
<1>0. render[r].opened = o /\ o \in Outputs /\ render[r].hold \in {"alone", "shared", "nameless"}
    BY DEF PlatesInv, RenderShapes, OpenAt, Outputs
<1>3. \/ render[r].hold = "alone" /\ media' = [media EXCEPT ![o] = "whole"] /\ left' = [left EXCEPT ![o] = FALSE]
      \/ /\ render[r].hold = "shared" /\ left' = [left EXCEPT ![o] = TRUE]
         /\ \E end \in {"half", "whole"} : media' = [media EXCEPT ![o] = end]
      \/ render[r].hold = "nameless" /\ UNCHANGED <<media, left>>
    BY <1>0 DEF Closes
<1> HIDE DEF new, o
<1>4. RenderShapes'
    BY <1>1, <1>2, <1>3 DEF PlatesInv, RenderShapes
<1>5. \A p \in Outputs : p # o => WritersOf(p) \subseteq WritersOf(p)'
    BY <1>0, <1>2 DEF PlatesInv, RenderShapes, WritersOf
<1>6. ASSUME render[r].hold = "nameless", NEW p \in Outputs, p = o
      PROVE  WritersOf(p) \subseteq WritersOf(p)'
    <2>1. ASSUME NEW q \in WritersOf(p) PROVE render'[q] = render[q]
        BY <1>2, <1>6 DEF PlatesInv, RenderShapes, WritersOf
    <2> QED
        BY <2>1 DEF WritersOf
<1>7. ASSUME NEW p \in Outputs, media'[p] = "half" PROVE left'[p] \/ WritersOf(p)' # {}
    <2>1. CASE p # o
        <3>1. media'[p] = media[p] /\ left'[p] = left[p]
            BY <1>0, <1>3, <2>1 DEF PlatesInv, RenderShapes
        <3> QED
            BY <1>5, <1>7, <2>1, <3>1 DEF PlatesInv, HalfIsInTheMaking
    <2>2. CASE p = o
        BY <1>0, <1>3, <1>6, <1>7, <2>2 DEF PlatesInv, RenderShapes, HalfIsInTheMaking
    <2> QED
        BY <2>1, <2>2
<1> QED
    BY <1>4, <1>7 DEF PlatesInv, HalfIsInTheMaking

LEMMA RenderDiscards ==
    ASSUME PlatesInv, NEW r \in Renders, render[r].at \in DOMAIN OpenAt,
           DiscardPartial(r, OpenAt[render[r].at])
    PROVE  PlatesInv'
<1> DEFINE o == OpenAt[render[r].at]
           new == Changed(render[r], Closed("over"))
<1>1. {"at", "opened", "hold"} \subseteq DOMAIN new /\ new.at = "over" /\ new.opened = "nothing"
    BY DEF Changed, Closed, PlatesInv, RenderShapes
<1>2. /\ DOMAIN render' = Renders /\ render'[r] = new
      /\ \A q \in Renders \ {r} :
            /\ DOMAIN render'[q] = DOMAIN render[q]
            /\ render'[q].at = render[q].at /\ render'[q].opened = render[q].opened
            /\ IF render[q].opened = o THEN render'[q].hold = "nameless" ELSE render'[q] = render[q]
    BY DEF DiscardPartial, PlatesInv, RenderShapes
<1>0. render[r].opened = o /\ o \in Outputs
    BY DEF PlatesInv, RenderShapes, OpenAt, Outputs
<1>3. media' = [media EXCEPT ![o] = "absent"] /\ left' = [left EXCEPT ![o] = FALSE]
    BY DEF DiscardPartial
<1> HIDE DEF new, o
<1>4. RenderShapes'
    BY <1>1, <1>2, <1>3, "over" \notin DOMAIN OpenAt DEF PlatesInv, RenderShapes, OpenAt
<1>5. \A p \in Outputs : p # o => WritersOf(p) \subseteq WritersOf(p)'
    BY <1>0, <1>2 DEF PlatesInv, RenderShapes, WritersOf
<1> QED
    BY <1>0, <1>3, <1>4, <1>5 DEF PlatesInv, RenderShapes, HalfIsInTheMaking

LEMMA PlatesInvariant == PlatesSpec => []PlatesInv
<1>0. DOMAIN OpenAt = {"scaling", "overlaying"} /\ OpenAt["scaling"] = "plate" /\ OpenAt["overlaying"] = "master"
    BY DEF OpenAt
<1>1. PlatesInit => PlatesInv
    BY <1>0 DEF PlatesInit, PlatesInv, RenderShapes, HalfIsInTheMaking, Unrequested
<1>2. PlatesInv /\ [PlatesNext]_plateVars => PlatesInv'
    <2> SUFFICES ASSUME PlatesInv, [PlatesNext]_plateVars PROVE PlatesInv'
        OBVIOUS
    <2>1. CASE UNCHANGED plateVars
        BY <2>1 DEF plateVars, PlatesInv, RenderShapes, HalfIsInTheMaking, WritersOf
    <2>2. ASSUME NEW r \in Renders, NEW kind \in DOMAIN DocumentOf, AskRender(r, kind) PROVE PlatesInv'
        <3> DEFINE change == [kind |-> kind, at |-> IF kind = "upscale" THEN "scale" ELSE "look"]
        <3>1. /\ render' = [render EXCEPT ![r] = Changed(@, change)] /\ UNCHANGED <<media, left>>
              /\ render[r].at \notin DOMAIN OpenAt
            BY <1>0, <2>2 DEF AskRender, Becomes
        <3>2. /\ "at" \in DOMAIN change /\ change.at \notin DOMAIN OpenAt
              /\ "opened" \in DOMAIN change => change.opened = "nothing"
            BY <1>0
        <3> HIDE DEF change
        <3> QED
            BY <3>1, <3>2, RendersOn
    <2>3. ASSUME NEW r \in Renders, LookForPlate(r) PROVE PlatesInv'
        <3> DEFINE change == [at |-> IF media["plate"] = "absent" THEN "scale" ELSE "overlay"]
        <3>1. /\ render' = [render EXCEPT ![r] = Changed(@, change)] /\ UNCHANGED <<media, left>>
              /\ render[r].at \notin DOMAIN OpenAt
            BY <1>0, <2>3 DEF LookForPlate, Becomes
        <3>2. /\ "at" \in DOMAIN change /\ change.at \notin DOMAIN OpenAt
              /\ "opened" \in DOMAIN change => change.opened = "nothing"
            BY <1>0
        <3> HIDE DEF change
        <3> QED
            BY <3>1, <3>2, RendersOn
    <2>4. ASSUME NEW r \in Renders, Scale(r) PROVE PlatesInv'
        <3>1. render[r].at \notin DOMAIN OpenAt /\ Opens(r, OpenAt["scaling"], "scaling") /\ "scaling" \in DOMAIN OpenAt
            BY <1>0, <2>4 DEF Scale
        <3> QED
            BY <3>1, RenderOpens
    <2>5. ASSUME NEW r \in Renders, Overlay(r) PROVE PlatesInv'
        <3>1. render[r].at \notin DOMAIN OpenAt /\ Opens(r, OpenAt["overlaying"], "overlaying") /\ "overlaying" \in DOMAIN OpenAt
            BY <1>0, <2>5 DEF Overlay
        <3> QED
            BY <3>1, RenderOpens
    <2>6. ASSUME NEW r \in Renders, Scaled(r) PROVE PlatesInv'
        <3>1. render[r].at = "scaling" /\ render[r].at \in DOMAIN OpenAt
            BY <1>0, <2>6 DEF Scaled
        <3>2. \/ \E step \in {"overlay", "over"} : Closes(r, OpenAt[render[r].at], step)
              \/ DiscardPartial(r, OpenAt[render[r].at])
            BY <1>0, <2>6, <3>1 DEF Scaled
        <3>3. "overlay" \notin DOMAIN OpenAt /\ "over" \notin DOMAIN OpenAt
            BY <1>0
        <3> QED
            BY <3>1, <3>2, <3>3, RenderCloses, RenderDiscards
    <2>7. ASSUME NEW r \in Renders, Overlaid(r) PROVE PlatesInv'
        <3>1. render[r].at = "overlaying" /\ render[r].at \in DOMAIN OpenAt
            BY <1>0, <2>7 DEF Overlaid
        <3>2. \/ \E step \in {"overlay", "over"} : Closes(r, OpenAt[render[r].at], step)
              \/ DiscardPartial(r, OpenAt[render[r].at])
            BY <1>0, <2>7, <3>1 DEF Overlaid
        <3>3. "overlay" \notin DOMAIN OpenAt /\ "over" \notin DOMAIN OpenAt
            BY <1>0
        <3> QED
            BY <3>1, <3>2, <3>3, RenderCloses, RenderDiscards
    <2>9. ASSUME NEW r \in Renders, RenderRaises(r) PROVE PlatesInv'
        <3> DEFINE change == Closed("over")
        <3>1. /\ render' = [render EXCEPT ![r] = Changed(@, change)] /\ UNCHANGED <<media, left>>
              /\ render[r].at \notin DOMAIN OpenAt
            BY <1>0, <2>9 DEF RenderRaises, Becomes
        <3>2. /\ "at" \in DOMAIN change /\ change.at \notin DOMAIN OpenAt
              /\ "opened" \in DOMAIN change => change.opened = "nothing"
            BY <1>0 DEF Closed
        <3> HIDE DEF change
        <3> QED
            BY <3>1, <3>2, RendersOn
    <2>8. CASE RendersDie
        <3>1. ASSUME NEW r \in Renders
              PROVE  /\ {"at", "opened", "hold"} \subseteq DOMAIN render'[r]
                     /\ render'[r].at \notin DOMAIN OpenAt /\ render'[r].opened = "nothing"
            <4>1. CASE render[r].at = "idle"
                BY <1>0, <2>8, <4>1 DEF RendersDie, PlatesInv, RenderShapes
            <4>2. CASE render[r].at # "idle"
                <5>1. render'[r] = Changed(render[r], Closed("over"))
                    BY <2>8, <4>2 DEF RendersDie
                <5> QED
                    BY <1>0, <5>1 DEF Changed, Closed, PlatesInv, RenderShapes
            <4> QED
                BY <4>1, <4>2
        <3>2. DOMAIN media' = Outputs /\ DOMAIN left' = Outputs /\ DOMAIN render' = Renders
            BY <2>8 DEF RendersDie
        <3>3. HalfIsInTheMaking'
            BY <2>8 DEF RendersDie, PlatesInv, HalfIsInTheMaking
        <3> QED
            BY <3>1, <3>2, <3>3 DEF PlatesInv, RenderShapes
    <2> QED
        BY <2>1, <2>2, <2>3, <2>4, <2>5, <2>6, <2>7, <2>8, <2>9 DEF PlatesNext
<1> QED
    BY <1>1, <1>2, PTL DEF PlatesSpec

\* However many renders of one video write over each other, half a plate that nobody
\* writes is what two writers at once or a death have left.
THEOREM NoRenderLeavesHalf == PlatesSpec => []HalfIsInTheMaking
<1>1. PlatesInv => HalfIsInTheMaking
    BY DEF PlatesInv
<1> QED
    BY <1>1, PlatesInvariant, PTL

-----------------------------------------------------------------------------
(* Audio jobs *)

AudioSpec == AudioInit /\ [][AudioNext]_audioVars

TrackShapes ==
    /\ DOMAIN stage = Tracks /\ DOMAIN what = Tracks /\ DOMAIN meta = Tracks /\ DOMAIN out = Tracks
    /\ \A j \in Tracks : {"voice", "bed", "sound", "settled"} \subseteq DOMAIN what[j]

\* A completed job takes no step any more, so the file of a voice or of a bed that was
\* completed when its mix was asked for is still whole when ffmpeg opens it.
Lasting(j) ==
    /\ meta[j] = "completed" => stage[j] = "over" /\ out[j] = "whole"
    /\ stage[j] = "muxing" => out[j] = "whole"
    /\ what[j].settled => what[j].sound
    /\ what[j].settled /\ stage[j] \in {"queued", "bed"} =>
          /\ what[j].voice \in Tracks /\ meta[what[j].voice] = "completed"
          /\ what[j].bed # NoTrack => what[j].bed \in Tracks /\ meta[what[j].bed] = "completed"

AudioInv == TrackShapes /\ \A j \in Tracks : Lasting(j)

\* A step of one job leaves the others, and what was completed.
LEMMA TrackSteps ==
    ASSUME AudioInv, TrackShapes', NEW j \in Tracks, stage[j] # "over", Lasting(j)',
           \A k \in Tracks \ {j} : /\ stage'[k] = stage[k] /\ what'[k] = what[k]
                                   /\ meta'[k] = meta[k] /\ out'[k] = out[k]
    PROVE  AudioInv'
<1>1. \A k \in Tracks : meta[k] = "completed" => meta'[k] = "completed"
    BY DEF AudioInv, Lasting
<1>2. ASSUME NEW k \in Tracks \ {j} PROVE Lasting(k)'
    BY <1>1, <1>2 DEF AudioInv, Lasting
<1> QED
    BY <1>2 DEF AudioInv

LEMMA AudioInvariant == AudioSpec => []AudioInv
<1>1. AudioInit => AudioInv
    BY DEF AudioInit, AudioInv, TrackShapes, Lasting, Untitled
<1>2. AudioInv /\ [AudioNext]_audioVars => AudioInv'
    <2> SUFFICES ASSUME AudioInv, [AudioNext]_audioVars PROVE AudioInv'
        OBVIOUS
    <2>1. CASE UNCHANGED audioVars
        BY <2>1 DEF audioVars, AudioInv, TrackShapes, Lasting
    <2>2. ASSUME NEW j \in Tracks, NEW kind \in Kinds, AskTrack(j, kind) PROVE AudioInv'
        <3>1. /\ stage[j] = "idle" /\ stage' = [stage EXCEPT ![j] = "queued"]
              /\ meta' = [meta EXCEPT ![j] = "queued"] /\ out' = out
            BY <2>2 DEF AskTrack, Says, Steps, Files
        <3>2. CASE kind # "mix"
            <4>1. what' = [what EXCEPT ![j] = [Untitled EXCEPT !.kind = kind]]
                BY <2>2, <3>2 DEF AskTrack
            <4>2. TrackShapes' /\ Lasting(j)'
                BY <3>1, <4>1 DEF AudioInv, TrackShapes, Lasting, Untitled
            <4> QED
                BY <3>1, <4>1, <4>2, TrackSteps DEF AudioInv, TrackShapes
        <3>3. CASE kind = "mix"
            <4>1. PICK v \in Tracks \ {j}, b \in (Tracks \ {j}) \cup {NoTrack}, f \in Videos :
                     what' = [what EXCEPT ![j] = [Untitled EXCEPT
                         !.kind = kind, !.voice = v, !.film = f,
                         !.bed = IF b # NoTrack /\ Track(b) THEN b ELSE NoTrack,
                         !.settled = meta[v] = "completed" /\ (b # NoTrack /\ Track(b) => meta[b] = "completed")]]
                BY <2>2, <3>3 DEF AskTrack
            <4>2. TrackShapes' /\ Lasting(j)'
                BY <3>1, <4>1 DEF AudioInv, TrackShapes, Lasting, Untitled
            <4> QED
                BY <3>1, <4>1, <4>2, TrackSteps DEF AudioInv, TrackShapes
        <3> QED
            BY <3>2, <3>3
    <2>3. ASSUME NEW j \in Tracks, AskLocal(j) PROVE AudioInv'
        <3>1. TrackShapes' /\ Lasting(j)'
            BY <2>3 DEF AskLocal, Steps, AudioInv, TrackShapes, Lasting, Untitled
        <3> QED
            BY <2>3, <3>1, TrackSteps DEF AskLocal, Steps, AudioInv, TrackShapes
    <2>4. ASSUME NEW j \in Tracks, StartTrack(j) PROVE AudioInv'
        <3>1. TrackShapes' /\ Lasting(j)'
            BY <2>4 DEF StartTrack, Says, Steps, AudioInv, TrackShapes, Lasting
        <3> QED
            BY <2>4, <3>1, TrackSteps DEF StartTrack, Says, Steps, AudioInv, TrackShapes
    <2>5. ASSUME NEW j \in Tracks, Render(j) PROVE AudioInv'
        <3>1. TrackShapes' /\ Lasting(j)'
            BY <2>5 DEF Render, Says, Steps, AudioInv, TrackShapes, Lasting
        <3> QED
            BY <2>5, <3>1, TrackSteps DEF Render, Says, Steps, AudioInv, TrackShapes
    <2>6. ASSUME NEW j \in Tracks, LoudnormTwoPass(j) \/ PeakNormalize(j) PROVE AudioInv'
        <3>1. TrackShapes' /\ Lasting(j)'
            BY <2>6 DEF LoudnormTwoPass, PeakNormalize, Normalised, Says, Steps, AudioInv, TrackShapes, Lasting
        <3> QED
            BY <2>6, <3>1, TrackSteps DEF LoudnormTwoPass, PeakNormalize, Normalised, Says, Steps, AudioInv, TrackShapes
    <2>7. ASSUME NEW j \in Tracks, Bed(j) PROVE AudioInv'
        <3>1. /\ stage[j] = "bed" /\ out' = [out EXCEPT ![j] = "half"] /\ meta' = meta
              /\ stage' = [stage EXCEPT ![j] = IF Track(what[j].voice) THEN "mixing" ELSE "broken"]
            BY <2>7 DEF Bed, Steps
        <3>2. /\ DOMAIN what' = Tracks /\ DOMAIN what'[j] = DOMAIN what[j]
              /\ \A k \in Tracks \ {j} : what'[k] = what[k]
              /\ what'[j].settled = what[j].settled
              /\ what'[j].sound = (/\ out[what[j].voice] = "whole"
                                   /\ what[j].bed # NoTrack /\ Track(what[j].bed) => out[what[j].bed] = "whole")
            BY <2>7 DEF Bed, AudioInv, TrackShapes
        <3>3. what[j].settled => what'[j].sound
            BY <3>1, <3>2 DEF AudioInv, Lasting
        <3>4. TrackShapes' /\ Lasting(j)'
            BY <3>1, <3>2, <3>3 DEF AudioInv, TrackShapes, Lasting
        <3> QED
            BY <3>1, <3>2, <3>4, TrackSteps DEF AudioInv, TrackShapes
    <2>8. ASSUME NEW j \in Tracks, Mix(j) PROVE AudioInv'
        <3>1. TrackShapes' /\ Lasting(j)'
            BY <2>8 DEF Mix, Says, Steps, AudioInv, TrackShapes, Lasting
        <3> QED
            BY <2>8, <3>1, TrackSteps DEF Mix, Says, Steps, AudioInv, TrackShapes
    <2>9. ASSUME NEW j \in Tracks, Mux(j) PROVE AudioInv'
        <3>1. TrackShapes' /\ Lasting(j)'
            BY <2>9 DEF Mux, Says, Steps, AudioInv, TrackShapes, Lasting
        <3> QED
            BY <2>9, <3>1, TrackSteps DEF Mux, Says, Steps, AudioInv, TrackShapes
    <2>10. ASSUME NEW j \in Tracks, Synthesised(j) PROVE AudioInv'
        <3>1. TrackShapes' /\ Lasting(j)'
            BY <2>10 DEF Synthesised, Says, Steps, AudioInv, TrackShapes, Lasting
        <3> QED
            BY <2>10, <3>1, TrackSteps DEF Synthesised, Says, Steps, AudioInv, TrackShapes
    <2>11. ASSUME NEW j \in Tracks, Throw(j) PROVE AudioInv'
        <3>1. TrackShapes' /\ Lasting(j)'
            BY <2>11 DEF Throw, Steps, Files, AudioInv, TrackShapes, Lasting
        <3> QED
            BY <2>11, <3>1, TrackSteps DEF Throw, Steps, Files, AudioInv, TrackShapes
    <2>12. CASE StudioDies
        BY <2>12 DEF StudioDies, Dies, Files, AudioInv, TrackShapes, Lasting
    <2> QED
        BY <2>1, <2>2, <2>3, <2>4, <2>5, <2>6, <2>7, <2>8, <2>9, <2>10, <2>11, <2>12 DEF AudioNext
<1> QED
    BY <1>1, <1>2, PTL DEF AudioSpec

\* A track whose document says completed is whole, and so is what went into a mix of
\* completed tracks, whatever dies, fails or is asked for meanwhile.
THEOREM CompletedTracksAreWhole == AudioSpec => []CompletedTrackIsWhole
<1>1. AudioInv => CompletedTrackIsWhole
    BY DEF AudioInv, Lasting, CompletedTrackIsWhole
<1> QED
    BY <1>1, AudioInvariant, PTL

-----------------------------------------------------------------------------
(* Downloads *)

DownloadsSpec == DownloadsInit /\ [][DownloadsNext]_downloadVars

Running == {"sizing", "fetching", "fetched", "resolved", "raised"}
Writing == {"fetching", "fetched", "resolved"}

DownloadShapes ==
    /\ head \in Revisions /\ main \in Revisions \cup {Unpinned} /\ DOMAIN cache = Revisions
    /\ DOMAIN shown = Recipes /\ DOMAIN download = Tasks /\ DOMAIN task = Tasks
    /\ \A t \in Tasks : /\ DOMAIN download[t] = {"status", "path"}
                       /\ DOMAIN task[t] = {"at", "recipe", "job", "writes", "revision"}

Fits(r, v) == v \in Revisions /\ (Pin[r] = Unpinned \/ v = Pin[r])
Complete(r, v) == Fits(r, v) /\ Concrete(r, v) # {}

\* A job belongs to the recipe of the task it is named after.
Names(j, r) == j \in Tasks /\ task[j].at # "unasked" /\ task[j].recipe = r

\* Jobs of one recipe take each other's place in the order of their numbers, so the job
\* that a task ends is shown only if it is also the one its thread has written to.
TaskInv(t) ==
    /\ task[t].at = "unasked" => download[t] = Pending /\ \A u \in Tasks : t < u => task[u].at = "unasked"
    /\ task[t].at \in {"created"} \cup Running =>
          task[t].recipe \in Recipes /\ Names(shown[task[t].recipe], task[t].recipe)
    /\ task[t].at \in Running =>
          Names(task[t].job, task[t].recipe) /\ task[t].job <= shown[task[t].recipe]
    /\ task[t].at \in Writing =>
          /\ Names(task[t].writes, task[t].recipe)
          /\ task[t].job <= task[t].writes /\ task[t].writes <= shown[task[t].recipe]
          /\ Fits(task[t].recipe, task[t].revision)
    /\ task[t].at = "resolved" => Complete(task[t].recipe, download[task[t].writes].path)

ShownInv(r) ==
    shown[r] # NoDownload =>
        /\ Names(shown[r], r)
        /\ download[shown[r]].status = "completed" => Complete(r, download[shown[r]].path)

DownloadsInv ==
    /\ DownloadShapes
    /\ \A t \in Tasks : TaskInv(t)
    /\ \A r \in Recipes : ShownInv(r)

\* What is in the cache stays.
LEMMA CacheGrows ==
    ASSUME NEW r \in Recipes, NEW v, Complete(r, v), \A w \in Revisions : cache[w] \subseteq cache'[w]
    PROVE  Complete(r, v)'
<1>1. v \in Revisions /\ \A p \in Patterns[r] : p \cap cache[v] # {}
    BY DEF Complete, Fits, Concrete
<1>2. \A p \in Patterns[r] : p \cap cache'[v] # {}
    BY <1>1
<1>3. PICK f : f \in Wanted(r) \cap cache[v]
    BY DEF Complete, Concrete
<1>4. f \in Wanted(r) \cap cache'[v]
    BY <1>1, <1>3
<1> QED
    BY <1>2, <1>4 DEF Complete, Fits, Concrete

LEMMA DownloadsInitInv == DownloadsInit => DownloadsInv
BY DownloadsAssumption DEF DownloadsInit, DownloadsInv, DownloadShapes, TaskInv, ShownInv, Unasked, Pending,
                           Running, Writing

\* A step of the hub or of the disk.
LEMMA HubMoves ==
    ASSUME DownloadsInv, DownloadShapes',
           \A w \in Revisions : cache[w] \subseteq cache'[w], UNCHANGED <<shown, download, task>>
    PROVE  DownloadsInv'
<1>1. ASSUME NEW t \in Tasks PROVE TaskInv(t)'
    BY CacheGrows DEF DownloadsInv, TaskInv, Names, Fits, Running, Writing
<1>2. ASSUME NEW r \in Recipes PROVE ShownInv(r)'
    BY CacheGrows DEF DownloadsInv, ShownInv, Names
<1> QED
    BY <1>1, <1>2 DEF DownloadsInv

\* A step of one task that writes to no job.
LEMMA TaskMoves ==
    ASSUME DownloadsInv, DownloadShapes', NEW t \in Tasks, task[t].at # "unasked",
           cache' = cache, UNCHANGED <<shown, download>>,
           \A u \in Tasks \ {t} : task'[u] = task[u],
           task'[t].recipe = task[t].recipe, task'[t].at # "unasked", TaskInv(t)'
    PROVE  DownloadsInv'
<1>1. \A j, r : Names(j, r)' <=> Names(j, r)
    BY DEF Names
<1>2. \A r, v : Complete(r, v)' <=> Complete(r, v)
    BY DEF Complete, Fits, Concrete
<1>3. ASSUME NEW u \in Tasks \ {t} PROVE TaskInv(u)'
    BY <1>1, <1>2, <1>3 DEF DownloadsInv, TaskInv, Fits
<1>4. ASSUME NEW r \in Recipes PROVE ShownInv(r)'
    BY <1>1, <1>2 DEF DownloadsInv, ShownInv
<1> QED
    BY <1>3, <1>4 DEF DownloadsInv

LEMMA StepAskDownload == ASSUME DownloadsInv, NEW t \in Tasks, NEW r \in Recipes, AskDownload(t, r) PROVE DownloadsInv'
<1>1. /\ task[t].at = "unasked" /\ \A u \in Tasks : u < t => task[u].at # "unasked"
      /\ shown' = [shown EXCEPT ![r] = t]
      /\ \A u \in Tasks \ {t} : task'[u] = task[u]
      /\ task'[t].at = "created" /\ task'[t].recipe = r /\ DOMAIN task'[t] = DOMAIN task[t] /\ DOMAIN task' = Tasks
      /\ UNCHANGED <<head, main, cache, download>>
    BY DEF AskDownload, Hub, DownloadsInv, DownloadShapes
<1>2. DownloadShapes'
    BY <1>1 DEF DownloadsInv, DownloadShapes
<1>3. ASSUME NEW j, NEW s, Names(j, s) PROVE Names(j, s)' /\ j # t /\ j \in Nat /\ t \in Nat /\ j < t
    <2>1. j \in Tasks /\ j # t /\ task[j].at # "unasked"
        BY <1>1, <1>3 DEF Names
    <2>2. ~(t < j)
        BY <1>1, <2>1 DEF DownloadsInv, TaskInv
    <2> QED
        BY <1>1, <1>3, <2>1, <2>2, DownloadsAssumption DEF Names
<1>4. \A s, v : Complete(s, v)' <=> Complete(s, v)
    BY <1>1 DEF Complete, Fits, Concrete
<1>5. ASSUME NEW s \in Recipes, Names(shown[s], s)
      PROVE  Names(shown[s], s)' /\ \A j \in Nat : j <= shown[s] => j <= shown'[s]
    <2>0. shown[s] \in Nat /\ t \in Nat /\ shown[s] < t
        BY <1>3, <1>5
    <2>1. CASE s = r
        <3>1. shown'[s] = t
            BY <1>1, <2>1 DEF DownloadsInv, DownloadShapes
        <3>2. Names(shown[s], s)'
            BY <1>1, <2>1, <3>1 DEF Names
        <3> QED
            BY <2>0, <3>1, <3>2
    <2>2. CASE s # r
        <3>1. shown'[s] = shown[s]
            BY <1>1, <2>2 DEF DownloadsInv, DownloadShapes
        <3>2. Names(shown[s], s)'
            BY <1>1, <1>5, <2>0, <3>1 DEF Names
        <3> QED
            BY <3>1, <3>2
    <2> QED
        BY <2>1, <2>2
<1>6. ASSUME NEW u \in Tasks \ {t} PROVE TaskInv(u)'
    <2>1. TaskInv(u) /\ task'[u] = task[u] /\ download'[u] = download[u]
        BY <1>1 DEF DownloadsInv
    <2> DEFINE s == task[u].recipe
    <2>2. task[u].at = "unasked" => download[u] = Pending /\ \A w \in Tasks : u < w => task'[w].at = "unasked"
        BY <1>1, <2>1, DownloadsAssumption DEF TaskInv
    <2>3. ASSUME task[u].at \in {"created"} \cup Running
          PROVE  s \in Recipes /\ Names(shown[s], s)'
                 /\ \A j \in Nat : j <= shown[s] => j <= shown'[s]
        <3>1. s \in Recipes /\ Names(shown[s], s)
            BY <2>1, <2>3 DEF TaskInv
        <3>2. PICK q \in Recipes : q = s
            BY <3>1
        <3>3. Names(shown[q], q)' /\ \A j \in Nat : j <= shown[q] => j <= shown'[q]
            BY <1>5, <3>1, <3>2
        <3>4. s' = q
            BY <2>1, <3>2
        <3> QED
            BY <3>1, <3>2, <3>3, <3>4
    <2>4. ASSUME task[u].at \in Running
          PROVE  Names(task[u].job, s)' /\ task[u].job <= shown'[s]
        <3>1. Names(task[u].job, s) /\ task[u].job <= shown[s]
            BY <2>1, <2>4 DEF TaskInv
        <3>2. PICK i, q : i = task[u].job /\ q = s
            OBVIOUS
        <3>3. Names(i, q)' /\ i \in Nat
            BY <1>3, <3>1, <3>2
        <3> QED
            BY <2>1, <2>3, <2>4, <3>1, <3>2, <3>3
    <2>5. ASSUME task[u].at \in Writing
          PROVE  /\ Names(task[u].writes, s)' /\ task[u].writes <= shown'[s]
                 /\ task[u].job <= task[u].writes /\ Fits(s, task[u].revision)'
        <3>1. /\ Names(task[u].writes, s) /\ task[u].writes <= shown[s] /\ task[u].at \in Running
              /\ task[u].job <= task[u].writes /\ Fits(s, task[u].revision)
            BY <2>1, <2>5 DEF TaskInv, Running, Writing
        <3>2. PICK i, q : i = task[u].writes /\ q = s
            OBVIOUS
        <3>3. Names(i, q)' /\ i \in Nat
            BY <1>3, <3>1, <3>2
        <3>4. Fits(s, task[u].revision)'
            BY <2>1, <3>1 DEF Fits
        <3> QED
            BY <2>1, <2>3, <3>1, <3>2, <3>3, <3>4
    <2>6. task[u].at = "resolved" => Complete(s, download[task[u].writes].path)'
        BY <1>1, <2>1 DEF TaskInv, Complete, Fits, Concrete
    <2> QED
        BY <2>1, <2>2, <2>3, <2>4, <2>5, <2>6 DEF TaskInv
<1>7. TaskInv(t)'
    BY <1>1 DEF TaskInv, Names, Running, Writing, DownloadsInv, DownloadShapes
<1>8. ASSUME NEW s \in Recipes PROVE ShownInv(s)'
    <2>1. CASE s = r
        BY <1>1, <2>1 DEF ShownInv, Names, DownloadsInv, DownloadShapes, TaskInv, Pending
    <2>2. CASE s # r
        <3>1. shown'[s] = shown[s] /\ ShownInv(s)
            BY <1>1, <2>2 DEF DownloadsInv, DownloadShapes
        <3> QED
            BY <1>1, <1>3, <1>4, <3>1 DEF ShownInv
    <2> QED
        BY <2>1, <2>2
<1> QED
    BY <1>2, <1>6, <1>7, <1>8 DEF DownloadsInv

\* A step of one task that writes to one job.
LEMMA JobWritten ==
    ASSUME DownloadsInv, DownloadShapes', NEW t \in Tasks, task[t].at # "unasked", NEW j \in Tasks,
           cache' = cache, shown' = shown, task[j].at # "unasked",
           \A u \in Tasks \ {t} : task'[u] = task[u],
           task'[t].recipe = task[t].recipe, task'[t].at # "unasked", TaskInv(t)',
           \A i \in Tasks \ {j} : download'[i] = download[i],
           Complete(task[j].recipe, download[j].path) => Complete(task[j].recipe, download'[j].path),
           shown[task[j].recipe] = j /\ download'[j].status = "completed" => Complete(task[j].recipe, download'[j].path)
    PROVE  DownloadsInv'
<1>1. \A i, r : Names(i, r)' <=> Names(i, r)
    BY DEF Names
<1>2. \A r, v : Complete(r, v)' <=> Complete(r, v)
    BY DEF Complete, Fits, Concrete
<1>3. ASSUME NEW u \in Tasks \ {t} PROVE TaskInv(u)'
    <2>1. TaskInv(u) /\ task'[u] = task[u]
        BY DEF DownloadsInv
    <2>2. ASSUME task[u].at = "resolved"
          PROVE  Complete(task[u].recipe, download'[task[u].writes].path)
        <3>1. Names(task[u].writes, task[u].recipe) /\ Complete(task[u].recipe, download[task[u].writes].path)
            BY <2>1, <2>2 DEF TaskInv, Writing
        <3> QED
            BY <3>1 DEF Names
    <2>3. task[u].at = "unasked" => download'[u] = download[u] /\ \A w \in Tasks : u < w => task'[w].at = "unasked"
        BY <2>1 DEF TaskInv
    <2> QED
        BY <1>1, <1>2, <2>1, <2>2, <2>3 DEF TaskInv, Fits
<1>4. ASSUME NEW r \in Recipes PROVE ShownInv(r)'
    <2>1. ShownInv(r)
        BY DEF DownloadsInv
    <2>2. CASE shown[r] = j /\ shown[r] # NoDownload
        BY <1>1, <1>2, <2>1, <2>2 DEF ShownInv, Names
    <2>3. CASE shown[r] # j \/ shown[r] = NoDownload
        BY <1>1, <1>2, <2>1, <2>3 DEF ShownInv, Names
    <2> QED
        BY <2>2, <2>3
<1> QED
    BY <1>3, <1>4 DEF DownloadsInv

LEMMA StepBeginDownload == ASSUME DownloadsInv, NEW t \in Tasks, BeginDownload(t) PROVE DownloadsInv'
<1> DEFINE r == task[t].recipe
           j == shown[r]
<1>1. task[t].at = "created" /\ r \in Recipes /\ Names(j, r) /\ j \in Tasks /\ j \in Nat
    BY DownloadsAssumption DEF BeginDownload, DownloadsInv, TaskInv, Names
<1>2. /\ \A u \in Tasks \ {t} : task'[u] = task[u]
      /\ DOMAIN task' = Tasks /\ DOMAIN task'[t] = DOMAIN task[t]
      /\ task'[t].at = "sizing" /\ task'[t].job = j /\ task'[t].recipe = r
      /\ UNCHANGED <<head, main, cache, shown>>
    BY DEF BeginDownload, Hub, DownloadsInv, DownloadShapes
<1>3. /\ \A i \in Tasks \ {j} : download'[i] = download[i]
      /\ DOMAIN download' = Tasks /\ DOMAIN download'[j] = DOMAIN download[j]
      /\ download'[j].status = "downloading" /\ download'[j].path = download[j].path
    BY <1>1 DEF BeginDownload, DownloadsInv, DownloadShapes
<1>4. DownloadShapes'
    BY <1>2, <1>3 DEF DownloadsInv, DownloadShapes
<1>5. TaskInv(t)'
    <2>1. Names(j, r)'
        BY <1>1, <1>2 DEF Names
    <2>2. task'[t].recipe = r /\ shown'[task'[t].recipe] = j /\ j <= j
        BY <1>1, <1>2
    <2> QED
        BY <1>1, <1>2, <2>1, <2>2 DEF TaskInv, Running, Writing
<1> QED
    BY <1>1, <1>2, <1>3, <1>4, <1>5, JobWritten DEF Names

LEMMA StepStartThread == ASSUME DownloadsInv, NEW t \in Tasks, StartThread(t) PROVE DownloadsInv'
<1> DEFINE r == task[t].recipe
<1>1. /\ task[t].at = "sizing" /\ r \in Recipes /\ Names(shown[r], r) /\ Names(task[t].job, r)
      /\ task[t].job <= shown[r] /\ shown[r] \in Nat
    BY DownloadsAssumption DEF StartThread, DownloadsInv, TaskInv, Names, Running
<1>2. PICK v \in Revisions, at \in {"fetching", "fetched"} :
          /\ Fits(r, v) /\ main' \in {main, v}
          /\ task' = [task EXCEPT ![t].at = at, ![t].writes = shown[r], ![t].revision = v]
          /\ UNCHANGED <<head, cache, shown, download>>
    <2>1. Pin[r] = Unpinned \/ Pin[r] \in Revisions
        BY <1>1, DownloadsAssumption
    <2>2. head \in Revisions /\ (main = Unpinned \/ main \in Revisions)
        BY DEF DownloadsInv, DownloadShapes
    <2>3. Fits(r, IF Pin[r] = Unpinned THEN head ELSE Pin[r])
        BY <2>1, <2>2 DEF Fits
    <2>4. LocalRevision(r) # Unpinned => Fits(r, LocalRevision(r))
        BY <2>1, <2>2 DEF Fits, LocalRevision
    <2> QED
        BY <2>3, <2>4 DEF StartThread, Fits
<1>3. /\ \A u \in Tasks \ {t} : task'[u] = task[u]
      /\ DOMAIN task' = Tasks /\ DOMAIN task'[t] = DOMAIN task[t]
      /\ task'[t].at = at /\ task'[t].writes = shown[r] /\ task'[t].revision = v
      /\ task'[t].job = task[t].job /\ task'[t].recipe = r
    BY <1>2 DEF DownloadsInv, DownloadShapes
<1>4. DownloadShapes'
    BY <1>2, <1>3 DEF DownloadsInv, DownloadShapes, Fits
<1>5. TaskInv(t)'
    <2> HIDE DEF r
    <2>1. \A j : Names(j, r) => /\ j \in Tasks /\ task'[j].at # "unasked" /\ task'[j].recipe = r
        BY <1>1, <1>3 DEF Names, r
    <2> QED
        BY <1>1, <1>2, <1>3, <2>1 DEF TaskInv, Names, Fits, Running, Writing
<1> QED
    BY <1>1, <1>2, <1>3, <1>4, <1>5, TaskMoves

\* A task that goes on to a step where it promises no more than before.
LEMMA TaskReaches ==
    ASSUME DownloadsInv, NEW t \in Tasks, NEW step \in Running, Reaches(t, step),
           task[t].at \in Running, step \in Writing => task[t].at \in Writing, step # "resolved",
           cache' = cache, UNCHANGED <<head, main, shown, download>>
    PROVE  DownloadsInv'
<1>1. /\ \A u \in Tasks \ {t} : task'[u] = task[u]
      /\ DOMAIN task' = Tasks /\ DOMAIN task'[t] = DOMAIN task[t] /\ task'[t].at = step
      /\ task'[t].writes = task[t].writes /\ task'[t].revision = task[t].revision
      /\ task'[t].job = task[t].job /\ task'[t].recipe = task[t].recipe
    BY DEF Reaches, DownloadsInv, DownloadShapes
<1>2. DownloadShapes'
    BY <1>1 DEF DownloadsInv, DownloadShapes
<1>3. \A i, r : Names(i, r)' <=> Names(i, r)
    BY <1>1 DEF Names, Running
<1>4. TaskInv(t)'
    BY <1>1, <1>3 DEF DownloadsInv, TaskInv, Fits, Running, Writing
<1> QED
    BY <1>1, <1>2, <1>4, TaskMoves DEF Running

LEMMA StepFetchFile == ASSUME DownloadsInv, NEW t \in Tasks, FetchFile(t) PROVE DownloadsInv'
<1> DEFINE missing == Wanted(task[t].recipe) \ cache[task[t].revision]
<1>1. CASE missing = {}
    <2>1. Reaches(t, "fetched") /\ task[t].at = "fetching" /\ cache' = cache /\ UNCHANGED <<head, main, shown, download>>
        BY <1>1 DEF FetchFile
    <2> QED
        BY <2>1, TaskReaches DEF Running, Writing
<1>2. CASE missing # {}
    <2>1. PICK f \in missing : cache' = [cache EXCEPT ![task[t].revision] = @ \cup {f}]
        BY <1>2 DEF FetchFile
    <2>2. UNCHANGED <<head, main, shown, download, task>>
        BY <1>2 DEF FetchFile
    <2>3. DownloadShapes' /\ \A w \in Revisions : cache[w] \subseteq cache'[w]
        BY <2>1, <2>2 DEF DownloadsInv, DownloadShapes
    <2> QED
        BY <2>2, <2>3, HubMoves
<1> QED
    BY <1>1, <1>2

LEMMA StepCheckFiles == ASSUME DownloadsInv, NEW t \in Tasks, CheckFiles(t) PROVE DownloadsInv'
<1> DEFINE r == task[t].recipe
           v == task[t].revision
           j == task[t].writes
<1>1. task[t].at = "fetched" /\ UNCHANGED <<head, main, cache, shown>>
    BY DEF CheckFiles, Hub
<1>2. CASE Concrete(r, v) = {}
    <2>1. Reaches(t, "raised") /\ UNCHANGED download
        BY <1>2 DEF CheckFiles
    <2> QED
        BY <1>1, <2>1, TaskReaches DEF Running, Writing
<1>3. CASE Concrete(r, v) # {}
    <2>1. download' = [download EXCEPT ![j].path = v] /\ Reaches(t, "resolved")
        BY <1>3 DEF CheckFiles
    <2>2. Names(j, r) /\ Complete(r, v) /\ j \in Tasks
        BY <1>1, <1>3 DEF DownloadsInv, TaskInv, Writing, Complete, Names
    <2>3. /\ \A u \in Tasks \ {t} : task'[u] = task[u]
          /\ DOMAIN task' = Tasks /\ DOMAIN task'[t] = DOMAIN task[t] /\ task'[t].at = "resolved"
          /\ task'[t].writes = j /\ task'[t].revision = v
          /\ task'[t].job = task[t].job /\ task'[t].recipe = r
        BY <2>1 DEF Reaches, DownloadsInv, DownloadShapes
    <2>4. /\ \A i \in Tasks \ {j} : download'[i] = download[i]
          /\ DOMAIN download' = Tasks /\ DOMAIN download'[j] = DOMAIN download[j]
          /\ download'[j].path = v /\ download'[j].status = download[j].status
        BY <2>1, <2>2 DEF DownloadsInv, DownloadShapes
    <2>5. DownloadShapes'
        BY <1>1, <2>3, <2>4 DEF DownloadsInv, DownloadShapes
    <2>6. TaskInv(t)'
        <3>1. \A i, s : Names(i, s)' <=> Names(i, s)
            BY <1>1, <2>3 DEF Names
        <3>2. \A s, w : Complete(s, w)' <=> Complete(s, w)
            BY <1>1 DEF Complete, Fits, Concrete
        <3> QED
            BY <1>1, <2>2, <2>3, <2>4, <3>1, <3>2 DEF DownloadsInv, TaskInv, Fits, Running, Writing
    <2> QED
        BY <1>1, <2>2, <2>3, <2>4, <2>5, <2>6, JobWritten DEF Names
<1> QED
    BY <1>2, <1>3

LEMMA StepEndDownload == ASSUME DownloadsInv, NEW t \in Tasks, EndDownload(t) PROVE DownloadsInv'
<1> DEFINE r == task[t].recipe
           j == task[t].job
<1>1. task[t].at \in {"resolved", "raised"} /\ UNCHANGED <<head, main, cache, shown>>
    BY DEF EndDownload, Hub
<1>2. Names(j, r) /\ j \in Tasks /\ r \in Recipes /\ Names(shown[r], r)
    BY <1>1 DEF DownloadsInv, TaskInv, Running, Names
<1>3. /\ \A u \in Tasks \ {t} : task'[u] = task[u]
      /\ DOMAIN task' = Tasks /\ DOMAIN task'[t] = DOMAIN task[t] /\ task'[t].at = "ended"
      /\ task'[t].recipe = r
    BY DEF EndDownload, Reaches, DownloadsInv, DownloadShapes
<1>4. /\ \A i \in Tasks \ {j} : download'[i] = download[i]
      /\ DOMAIN download' = Tasks /\ DOMAIN download'[j] = DOMAIN download[j]
      /\ download'[j].path = download[j].path
      /\ download'[j].status = IF task[t].at = "resolved" THEN "completed" ELSE "failed"
    BY <1>2 DEF EndDownload, DownloadsInv, DownloadShapes
<1>5. DownloadShapes'
    BY <1>1, <1>3, <1>4 DEF DownloadsInv, DownloadShapes
<1>6. TaskInv(t)'
    BY <1>3 DEF TaskInv, Running, Writing
<1>7. ASSUME shown[r] = j, download'[j].status = "completed" PROVE Complete(r, download'[j].path)
    <2>1. task[t].at = "resolved"
        BY <1>4, <1>7
    <2>2. task[t].writes \in Tasks /\ j <= task[t].writes /\ task[t].writes <= shown[r]
          /\ Complete(r, download[task[t].writes].path)
        BY <2>1 DEF DownloadsInv, TaskInv, Writing, Names
    <2>3. task[t].writes = j
        BY <1>2, <1>7, <2>2, DownloadsAssumption
    <2> QED
        BY <1>4, <2>2, <2>3
<1> QED
    BY <1>1, <1>2, <1>3, <1>4, <1>5, <1>6, <1>7, JobWritten DEF Names

LEMMA DownloadsInvariant == DownloadsSpec => []DownloadsInv
<1>2. DownloadsInv /\ [DownloadsNext]_downloadVars => DownloadsInv'
    <2> SUFFICES ASSUME DownloadsInv, [DownloadsNext]_downloadVars PROVE DownloadsInv'
        OBVIOUS
    <2>1. CASE UNCHANGED downloadVars
        BY <2>1, HubMoves DEF downloadVars, DownloadsInv, DownloadShapes
    <2>2. ASSUME NEW t \in Tasks, RaiseDownload(t) PROVE DownloadsInv'
        BY <2>2, TaskReaches DEF RaiseDownload, Hub, Running, Writing
    <2>3. CASE HeadMoves
        BY <2>3, HubMoves DEF HeadMoves, DownloadsInv, DownloadShapes
    <2>4. CASE Restart
        <3>1. /\ shown' = [r \in Recipes |-> NoDownload] /\ download' = [t \in Tasks |-> Pending]
              /\ task' = [t \in Tasks |-> IF task[t].at = "unasked" THEN Unasked
                                          ELSE [Unasked EXCEPT !.at = "ended"]]
              /\ UNCHANGED <<head, main, cache>>
            BY <2>4 DEF Restart, Hub
        <3>2. DownloadShapes'
            BY <3>1 DEF DownloadsInv, DownloadShapes, Pending, Unasked
        <3>3. ASSUME NEW t \in Tasks PROVE TaskInv(t)'
            BY <3>1 DEF DownloadsInv, TaskInv, Pending, Unasked, Running, Writing
        <3> QED
            BY <3>1, <3>2, <3>3 DEF DownloadsInv, ShownInv
    <2> QED
        BY <2>1, <2>2, <2>3, <2>4, StepAskDownload, StepBeginDownload, StepStartThread, StepFetchFile,
           StepCheckFiles, StepEndDownload DEF DownloadsNext
<1> QED
    BY <1>2, DownloadsInitInv, PTL DEF DownloadsSpec

\* A download that everybody sees as completed is there by its patterns and at its pin,
\* although the thread of a task looks its job up again and may write to another's.
THEOREM CompletedDownloadsAreThere == DownloadsSpec => []CompletedIsThere
<1>1. DownloadsInv => CompletedIsThere
    BY DEF DownloadsInv, ShownInv, Complete, Fits, CompletedIsThere
<1> QED
    BY <1>1, DownloadsInvariant, PTL

-----------------------------------------------------------------------------
(* Local workers *)

WorkersSpec == LocalWorkersInit /\ [][LocalWorkersNext]_workerVars

\* A request that has no driver uses no object.
WorkersInv ==
    /\ loaded \in [Objects -> BOOLEAN] /\ DOMAIN active = Drivers /\ DOMAIN request = Requests
    /\ \A q \in Requests :
          /\ DOMAIN request[q] = {"at", "id", "object"}
          /\ request[q].at \in {"free", "failed"} => request[q].object = Nothing
    /\ UncountedIsInUse

LEMMA WorkersInvariant == WorkersSpec => []WorkersInv
<1>0. Nothing \notin Objects
    BY LocalWorkersAssumption DEF Objects
<1>1. LocalWorkersInit => WorkersInv
    BY DEF LocalWorkersInit, WorkersInv, UncountedIsInUse, Free
<1>2. WorkersInv /\ [LocalWorkersNext]_workerVars => WorkersInv'
    <2> SUFFICES ASSUME WorkersInv, [LocalWorkersNext]_workerVars PROVE WorkersInv'
        OBVIOUS
    <2>1. CASE UNCHANGED workerVars
        BY <2>1 DEF workerVars, WorkersInv, UncountedIsInUse, Using
    <2>2. ASSUME NEW q \in Requests, NEW d \in Drivers, Hit(q, d) PROVE WorkersInv'
        BY <1>0, <2>2 DEF Hit, Takes, WorkersInv, UncountedIsInUse, Using
    <2>3. ASSUME NEW q \in Requests, NEW d \in Drivers, Refuse(q, d) PROVE WorkersInv'
        <3>1. /\ request[q].at = "free" /\ loaded' = loaded
              /\ request' = [request EXCEPT ![q] = [Free EXCEPT !.at = "failed"]]
              /\ DOMAIN active' = Drivers /\ \A e \in Drivers : active[e] \in {Nothing, active'[e]}
            BY <2>3 DEF Refuse, Raises, WorkersInv
        <3> QED
            BY <1>0, <3>1 DEF WorkersInv, UncountedIsInUse, Using, Free
    <2>4. ASSUME NEW q \in Requests, NEW d \in Drivers, Load(q, d) PROVE WorkersInv'
        <3> DEFINE o == IF active[d] = Nothing THEN Fresh(d) ELSE active[d]
                   held == [active EXCEPT ![d] = o]
                   gone == Evicted(d)
                   kept == [x \in Objects |-> loaded[x] /\ \A e \in gone : held[e] # x]
        <3>1. /\ request[q].at = "free"
              /\ active' = [e \in Drivers |-> IF e \in gone THEN Nothing ELSE held[e]]
              /\ \/ loaded' = [kept EXCEPT ![o] = TRUE] /\ Takes(q, d, o)
                 \/ loaded' = [kept EXCEPT ![o] = FALSE] /\ Raises(q)
            BY <2>4 DEF Load
        <3> HIDE DEF o, gone
        <3>2. ASSUME NEW x \in Objects, loaded'[x]
              PROVE  (\E e \in Drivers : active'[e] = x) \/ Using(x)' # {}
            <4>1. CASE x = o
                <5>1. Takes(q, d, o)
                    BY <3>1, <3>2, <4>1
                <5> QED
                    BY <4>1, <5>1 DEF Takes, WorkersInv, Using
            <4>2. CASE x # o
                <5>1. loaded[x] /\ \A e \in gone : held[e] # x
                    BY <3>1, <3>2, <4>2
                <5>2. ASSUME NEW e \in Drivers, active[e] = x PROVE active'[e] = x
                    <6>1. e # d
                        BY <1>0, <4>2, <5>2 DEF o
                    <6>2. held[e] = x
                        BY <5>2, <6>1 DEF WorkersInv
                    <6> QED
                        BY <3>1, <5>1, <6>2
                <5>3. ASSUME NEW r \in Using(x) PROVE r \in Using(x)'
                    BY <1>0, <3>1, <5>3 DEF WorkersInv, Using, Takes, Raises
                <5> QED
                    BY <5>1, <5>2, <5>3 DEF WorkersInv, UncountedIsInUse
            <4> QED
                BY <4>1, <4>2
        <3>3. loaded' \in [Objects -> BOOLEAN] /\ DOMAIN active' = Drivers
            BY <3>1
        <3>4. \E p : /\ request' = [request EXCEPT ![q] = p] /\ DOMAIN p = {"at", "id", "object"}
                     /\ (p.at \in {"free", "failed"} => p.object = Nothing)
            BY <3>1 DEF Takes, Raises, Free
        <3> QED
            BY <3>2, <3>3, <3>4 DEF WorkersInv, UncountedIsInUse
    <2>5. ASSUME NEW q \in Requests, Infer(q) PROVE WorkersInv'
        <3> DEFINE o == request[q].object
        <3>1. CASE /\ loaded' = [loaded EXCEPT ![o] = TRUE] /\ active' = active
                   /\ request' = [request EXCEPT ![q].at = "ready"]
            <4>1. loaded' \in [Objects -> BOOLEAN]
                BY <3>1 DEF WorkersInv
            <4>2. ASSUME NEW x \in Objects, loaded'[x]
                  PROVE  (\E e \in Drivers : active'[e] = x) \/ Using(x)' # {}
                <5>1. CASE x = o
                    BY <3>1, <5>1 DEF WorkersInv, Using
                <5>2. CASE x # o
                    BY <3>1, <4>2, <5>2 DEF WorkersInv, UncountedIsInUse, Using
                <5> QED
                    BY <5>1, <5>2
            <4> QED
                BY <3>1, <4>1, <4>2 DEF WorkersInv, UncountedIsInUse
        <3>2. CASE ~loaded[request[q].object] /\ Raises(q) /\ UNCHANGED loaded
            BY <1>0, <2>5, <3>2 DEF Infer, Raises, Free, WorkersInv, UncountedIsInUse, Using
        <3> QED
            BY <2>5, <3>1, <3>2 DEF Infer
    <2>6. ASSUME NEW q \in Requests, Generate(q) PROVE WorkersInv'
        <3>1. CASE request' = [request EXCEPT ![q].at = "running"]
            BY <2>6, <3>1 DEF Generate, WorkersInv, UncountedIsInUse, Using
        <3>2. CASE ~loaded[request[q].object] /\ Raises(q)
            BY <1>0, <2>6, <3>2 DEF Generate, Raises, Free, WorkersInv, UncountedIsInUse, Using
        <3> QED
            BY <2>6, <3>1, <3>2 DEF Generate
    <2>7. ASSUME NEW q \in Requests, Finish(q) PROVE WorkersInv'
        <3> DEFINE o == request[q].object
                   dropped == (\A d \in Drivers : active[d] # o) /\ Using(o) = {q}
        <3>1. /\ loaded' = [loaded EXCEPT ![o] = @ /\ ~dropped]
              /\ request' = [request EXCEPT ![q] = Free] /\ active' = active
            BY <2>7 DEF Finish
        <3>2. ASSUME NEW x \in Objects, loaded'[x]
              PROVE  (\E e \in Drivers : active'[e] = x) \/ Using(x)' # {}
            <4>1. CASE x = o
                <5>1. ~dropped /\ q \in Using(x)
                    BY <3>1, <3>2, <4>1 DEF WorkersInv, Using
                <5>2. (\E e \in Drivers : active[e] = x) \/ \E r \in Using(x) : r # q
                    BY <4>1, <5>1
                <5> QED
                    BY <3>1, <5>2 DEF WorkersInv, Using
            <4>2. CASE x # o
                <5>1. loaded[x]
                    BY <3>1, <3>2, <4>2 DEF WorkersInv
                <5> QED
                    BY <3>1, <4>2, <5>1 DEF WorkersInv, UncountedIsInUse, Using
            <4> QED
                BY <4>1, <4>2
        <3>3. loaded' \in [Objects -> BOOLEAN] /\ DOMAIN active' = Drivers
            BY <3>1 DEF WorkersInv
        <3> QED
            BY <3>1, <3>2, <3>3 DEF WorkersInv, UncountedIsInUse, Free
    <2>8. ASSUME NEW q \in Requests, Again(q) PROVE WorkersInv'
        BY <1>0, <2>8 DEF Again, Free, WorkersInv, UncountedIsInUse, Using
    <2>9. ASSUME NEW d \in Drivers, Unload(d) PROVE WorkersInv'
        <3>1. ASSUME NEW x \in Objects, loaded'[x]
              PROVE  (\E e \in Drivers : active'[e] = x) \/ Using(x)' # {}
            <4>1. loaded[x] /\ x # active[d]
                BY <2>9, <3>1 DEF Unload, WorkersInv
            <4> QED
                BY <2>9, <4>1 DEF Unload, WorkersInv, UncountedIsInUse, Using
        <3> QED
            BY <2>9, <3>1 DEF Unload, WorkersInv, UncountedIsInUse
    <2>10. CASE UnloadAll
        BY <2>10 DEF UnloadAll, WorkersInv, UncountedIsInUse, Using
    <2>11. ASSUME NEW b \in Budgets, SetBudget(b) PROVE WorkersInv'
        BY <2>11 DEF SetBudget, WorkersInv, UncountedIsInUse, Using
    <2> QED
        BY <2>1, <2>2, <2>3, <2>4, <2>5, <2>6, <2>7, <2>8, <2>9, <2>10, <2>11 DEF LocalWorkersNext
<1> QED
    BY <1>1, <1>2, PTL DEF WorkersSpec

\* Weights that the budget does not count have a request that still runs on them.
THEOREM UncountedWeightsAreInUse == WorkersSpec => []UncountedIsInUse
<1>1. WorkersInv => UncountedIsInUse
    BY DEF WorkersInv
<1> QED
    BY <1>1, WorkersInvariant, PTL

\* An order of use: no driver is in it twice.
Once(s) == s \in Seq(Drivers) /\ \A i, j \in 1 .. Len(s) : s[i] = s[j] => i = j

\* The drivers of an order.
LEMMA Members ==
    ASSUME NEW s \in Seq(Drivers)
    PROVE  ToSet(s) = {s[i] : i \in 1 .. Len(s)} /\ ToSet(s) \subseteq Drivers
BY LenProperties, ElementOfSeq DEF ToSet

\* Without takes out one driver and leaves the others.
LEMMA WithoutIs ==
    ASSUME NEW s, Once(s), NEW d \in Drivers
    PROVE  Once(Without(s, d)) /\ ToSet(Without(s, d)) = ToSet(s) \ {d}
<1>1. s \in Seq(Drivers) /\ Len(s) \in Nat /\ \A i \in 1 .. Len(s) : s[i] \in Drivers
    BY LenProperties, ElementOfSeq DEF Once
<1>2. CASE d \notin ToSet(s)
    BY <1>2 DEF Without
<1>3. CASE d \in ToSet(s)
    <2> DEFINE k == CHOOSE i \in 1 .. Len(s) : s[i] = d
               front == SubSeq(s, 1, k - 1)
               back == SubSeq(s, k + 1, Len(s))
               t == front \o back
    <2>1. k \in 1 .. Len(s) /\ s[k] = d /\ Without(s, d) = t
        BY <1>1, <1>3, Members DEF Without, RemoveAt
    <2> HIDE DEF k
    <2>2. /\ front \in Seq(Drivers) /\ Len(front) = k - 1
          /\ \A i \in 1 .. k - 1 : front[i] = s[i]
        <3>1. \A i \in 1 .. k - 1 : s[i] \in Drivers
            BY <1>1, <2>1
        <3> QED
            BY <1>1, <2>1, <3>1, SubSeqProperties
    <2>3. /\ back \in Seq(Drivers) /\ Len(back) = Len(s) - k
          /\ \A i \in 1 .. Len(s) - k : back[i] = s[k + i]
        <3>1. \A i \in k + 1 .. Len(s) : s[i] \in Drivers
            BY <1>1, <2>1
        <3>2. /\ SubSeq(s, k + 1, Len(s)) \in Seq(Drivers)
              /\ Len(SubSeq(s, k + 1, Len(s))) = IF k + 1 <= Len(s) THEN Len(s) - (k + 1) + 1 ELSE 0
              /\ \A i \in 1 .. Len(s) - (k + 1) + 1 : SubSeq(s, k + 1, Len(s))[i] = s[k + 1 + i - 1]
            BY <1>1, <2>1, <3>1, SubSeqProperties, k + 1 \in Int, Len(s) \in Int
        <3> QED
            BY <1>1, <2>1, <3>2
    <2> HIDE DEF front, back
    <2>4. /\ t \in Seq(Drivers) /\ Len(t) = Len(s) - 1
          /\ \A i \in 1 .. Len(s) - 1 : t[i] = IF i < k THEN s[i] ELSE s[i + 1]
        <3>1. /\ t \in Seq(Drivers) /\ Len(t) = Len(front) + Len(back)
              /\ \A i \in 1 .. Len(front) + Len(back) :
                    t[i] = IF i <= Len(front) THEN front[i] ELSE back[i - Len(front)]
            BY <2>2, <2>3, ConcatProperties
        <3>2. Len(front) = k - 1 /\ Len(back) = Len(s) - k /\ Len(front) + Len(back) = Len(s) - 1
            BY <1>1, <2>1, <2>2, <2>3
        <3>3. ASSUME NEW i \in 1 .. Len(s) - 1 PROVE t[i] = IF i < k THEN s[i] ELSE s[i + 1]
            <4>1. CASE i < k
                BY <1>1, <2>1, <2>2, <3>1, <3>2, <4>1
            <4>2. CASE ~(i < k)
                <5>1. i - (k - 1) \in 1 .. Len(s) - k /\ k + (i - (k - 1)) = i + 1
                    BY <1>1, <2>1, <4>2
                <5>2. t[i] = back[i - (k - 1)]
                    BY <1>1, <2>1, <3>1, <3>2, <4>2
                <5> QED
                    BY <2>3, <4>2, <5>1, <5>2
            <4> QED
                BY <4>1, <4>2
        <3> QED
            BY <3>1, <3>2, <3>3
    <2> HIDE DEF t
    <2>5. Once(t)
        <3> SUFFICES ASSUME NEW i \in 1 .. Len(t), NEW j \in 1 .. Len(t), t[i] = t[j] PROVE i = j
            BY <2>4 DEF Once
        <3> DEFINE at(n) == IF n < k THEN n ELSE n + 1
        <3>1. i \in 1 .. Len(s) - 1 /\ j \in 1 .. Len(s) - 1
            BY <2>4
        <3>2. at(i) \in 1 .. Len(s) /\ at(j) \in 1 .. Len(s)
            BY <1>1, <2>1, <3>1
        <3>3. t[i] = s[at(i)] /\ t[j] = s[at(j)]
            BY <2>4, <3>1
        <3>4. at(i) = at(j)
            <4> HIDE DEF at
            <4> QED
                BY <3>2, <3>3 DEF Once
        <3> QED
            BY <1>1, <2>1, <3>1, <3>4
    <2>6. ASSUME NEW e PROVE e \in ToSet(t) <=> e \in ToSet(s) \ {d}
        <3>1. ASSUME e \in ToSet(t) PROVE e \in ToSet(s) \ {d}
            <4>1. PICK i \in 1 .. Len(t) : t[i] = e
                BY <2>4, <3>1, Members
            <4>2. PICK j \in 1 .. Len(s) : s[j] = e /\ j # k
                BY <1>1, <2>1, <2>4, <4>1
            <4> QED
                BY <1>1, <2>1, <4>2, Members DEF Once
        <3>2. ASSUME e \in ToSet(s), e # d PROVE e \in ToSet(t)
            <4>1. PICK j \in 1 .. Len(s) : s[j] = e /\ j # k
                BY <1>1, <2>1, <3>2, Members
            <4>2. \E i \in 1 .. Len(t) : t[i] = e
                <5>1. CASE j < k
                    BY <1>1, <2>1, <2>4, <4>1, <5>1
                <5>2. CASE j > k
                    <6>1. j - 1 \in 1 .. Len(t) /\ t[j - 1] = s[j]
                        BY <1>1, <2>1, <2>4, <4>1, <5>2
                    <6> QED
                        BY <4>1, <6>1
                <5> QED
                    BY <1>1, <2>1, <4>1, <5>1, <5>2
            <4> QED
                BY <2>4, <4>2, Members
        <3> QED
            BY <3>1, <3>2
    <2> QED
        BY <2>1, <2>5, <2>6
<1> QED
    BY <1>2, <1>3

\* A driver that is used is the last of the order, and no other leaves it.
LEMMA UsedIs ==
    ASSUME NEW s, Once(s), NEW d \in Drivers
    PROVE  Once(Used(s, d)) /\ ToSet(Used(s, d)) = ToSet(s) \cup {d}
<1> DEFINE w == Without(s, d)
           u == Append(w, d)
<1>1. Once(w) /\ ToSet(w) = ToSet(s) \ {d} /\ Used(s, d) = u
    BY WithoutIs DEF Used
<1> HIDE DEF w
<1>2. w \in Seq(Drivers) /\ Len(w) \in Nat /\ \A i \in 1 .. Len(w) : w[i] \in ToSet(w)
    BY <1>1, LenProperties, Members DEF Once
<1>3. /\ u \in Seq(Drivers) /\ Len(u) = Len(w) + 1
      /\ (\A i \in 1 .. Len(w) : u[i] = w[i]) /\ u[Len(w) + 1] = d
    BY <1>2, AppendProperties
<1> HIDE DEF u
<1>4. Once(u)
    BY <1>1, <1>2, <1>3 DEF Once
<1>5. ToSet(u) = ToSet(w) \cup {d}
    <2>1. \A i \in 1 .. Len(u) : u[i] \in ToSet(w) \cup {d}
        BY <1>2, <1>3
    <2>2. ASSUME NEW e \in ToSet(w) PROVE \E i \in 1 .. Len(u) : u[i] = e
        BY <1>2, <1>3, Members
    <2>3. \E i \in 1 .. Len(u) : u[i] = d
        BY <1>2, <1>3
    <2> QED
        BY <1>3, <2>1, <2>2, <2>3, Members
<1> QED
    BY <1>1, <1>4, <1>5

\* What is left of the order when its first n are gone.
LEMMA RestIs ==
    ASSUME NEW s, Once(s), NEW n \in 0 .. Len(s)
    PROVE  /\ Once(SubSeq(s, n + 1, Len(s)))
           /\ ToSet(SubSeq(s, n + 1, Len(s))) = ToSet(s) \ ToSet(SubSeq(s, 1, n))
           /\ ToSet(SubSeq(s, 1, n)) \subseteq ToSet(s)
<1> DEFINE front == SubSeq(s, 1, n)
           back == SubSeq(s, n + 1, Len(s))
<1>1. s \in Seq(Drivers) /\ Len(s) \in Nat /\ \A i \in 1 .. Len(s) : s[i] \in Drivers
    BY LenProperties, ElementOfSeq DEF Once
<1>2. /\ front \in Seq(Drivers) /\ Len(front) = n
      /\ \A i \in 1 .. n : front[i] = s[i]
    <2>1. \A i \in 1 .. n : s[i] \in Drivers
        BY <1>1
    <2> QED
        BY <1>1, <2>1, SubSeqProperties
<1>3. /\ back \in Seq(Drivers) /\ Len(back) = Len(s) - n
      /\ \A i \in 1 .. Len(s) - n : back[i] = s[n + i]
    <2>1. \A i \in n + 1 .. Len(s) : s[i] \in Drivers
        BY <1>1
    <2>2. /\ SubSeq(s, n + 1, Len(s)) \in Seq(Drivers)
          /\ Len(SubSeq(s, n + 1, Len(s))) = IF n + 1 <= Len(s) THEN Len(s) - (n + 1) + 1 ELSE 0
          /\ \A i \in 1 .. Len(s) - (n + 1) + 1 : SubSeq(s, n + 1, Len(s))[i] = s[n + 1 + i - 1]
        BY <1>1, <2>1, SubSeqProperties, n + 1 \in Int, Len(s) \in Int
    <2> QED
        BY <1>1, <2>2
<1> HIDE DEF front, back
<1>4. Once(back)
    BY <1>1, <1>3 DEF Once
<1>5. ToSet(front) \subseteq ToSet(s)
    BY <1>1, <1>2, Members
<1>6. ASSUME NEW e PROVE e \in ToSet(back) <=> e \in ToSet(s) \ ToSet(front)
    <2>1. ASSUME e \in ToSet(back) PROVE e \in ToSet(s) \ ToSet(front)
        <3>1. PICK j \in n + 1 .. Len(s) : s[j] = e
            BY <1>1, <1>3, <2>1, Members
        <3>2. \A i \in 1 .. n : s[i] # e
            BY <1>1, <3>1 DEF Once
        <3> QED
            BY <1>1, <1>2, <3>1, <3>2, Members
    <2>2. ASSUME e \in ToSet(s), e \notin ToSet(front) PROVE e \in ToSet(back)
        <3>1. PICK j \in 1 .. Len(s) : s[j] = e
            BY <1>1, <2>2, Members
        <3>2. ~(j <= n)
            BY <1>1, <1>2, <2>2, <3>1, Members
        <3>3. j - n \in 1 .. Len(back) /\ back[j - n] = e
            BY <1>1, <1>3, <3>1, <3>2
        <3> QED
            BY <1>3, <3>3, Members
    <2> QED
        BY <2>1, <2>2
<1>7. ToSet(back) = ToSet(s) \ ToSet(front)
    BY <1>6
<1> QED
    BY <1>4, <1>5, <1>7 DEF front, back

\* Any one member, and the sums over every part of T that resident_vram_gb's sum is made of.
Some(s) == CHOOSE x \in s : TRUE
Sums(f, T) == f = [s \in SUBSET T |-> IF s = {} THEN 0 ELSE Size[Some(s)] + f[s \ {Some(s)}]]
Sum(s) == (CHOOSE f : Sums(f, s))[s]

\* What the fold of Resident unfolds to.
LEMMA ResidentIs == ASSUME NEW T PROVE Resident(T) = (CHOOSE f : Sums(f, T))[T]
BY DEF Resident, MapThenSumSet, MapThenFoldSet, Sums, Some

\* Among finite sets one has none of the others inside.
LEMMA SmallestSet ==
    ASSUME NEW C, C # {}, \A s \in C : IsFiniteSet(s)
    PROVE  \E s \in C : \A t \in C : t \subseteq s => t = s
<1>1. PICK c \in C : TRUE
    OBVIOUS
<1> DEFINE D == {s \in C : s \subseteq c}
<1>2. D \subseteq FiniteSubsetsOf(c) /\ D # {}
    BY <1>1 DEF FiniteSubsetsOf
<1>3. PICK s \in D : \A t \in D : <<t, s>> \notin StrictSubsetOrdering(c)
    BY <1>2, WFMin, FS_StrictSubsetOrderingWellFounded
<1> QED
    BY <1>3 DEF StrictSubsetOrdering

\* Sums over the same drivers agree.
LEMMA SumsAgree ==
    ASSUME NEW T, IsFiniteSet(T), NEW S, NEW f, NEW g, Sums(f, S), Sums(g, T), T \subseteq S
    PROVE  f[T] = g[T]
<1> DEFINE Bad == {s \in SUBSET T : f[s] # g[s]}
<1>1. ASSUME Bad # {} PROVE FALSE
    <2>1. PICK s \in Bad : \A t \in Bad : t \subseteq s => t = s
        <3>1. \A s \in Bad : IsFiniteSet(s)
            BY FS_Subset
        <3> HIDE DEF Bad
        <3> QED
            BY <1>1, <3>1, SmallestSet
    <2>2. s \in SUBSET T /\ s \in SUBSET S /\ f[s] # g[s]
        BY <2>1
    <2>3. f[s] = IF s = {} THEN 0 ELSE Size[Some(s)] + f[s \ {Some(s)}]
        BY <2>2 DEF Sums
    <2>4. g[s] = IF s = {} THEN 0 ELSE Size[Some(s)] + g[s \ {Some(s)}]
        BY <2>2 DEF Sums
    <2>5. s # {} /\ f[s \ {Some(s)}] # g[s \ {Some(s)}]
        BY <2>2, <2>3, <2>4
    <2>6. Some(s) \in s
        BY <2>5 DEF Some
    <2>7. s \ {Some(s)} \in Bad
        BY <2>2, <2>5
    <2> QED
        BY <2>1, <2>6, <2>7
<1>2. T \notin Bad
    BY <1>1
<1> QED
    BY <1>2

\* There is a sum over every finite set.
LEMMA SumsExist ==
    ASSUME NEW T, IsFiniteSet(T)
    PROVE  \E f : Sums(f, T)
<1> DEFINE Bad == {s \in SUBSET T : ~\E f : Sums(f, s)}
<1>1. ASSUME Bad # {} PROVE FALSE
    <2>1. PICK s \in Bad : \A t \in Bad : t \subseteq s => t = s
        <3>1. \A s \in Bad : IsFiniteSet(s)
            BY FS_Subset
        <3> HIDE DEF Bad
        <3> QED
            BY <1>1, <3>1, SmallestSet
    <2>2. s \in SUBSET T /\ IsFiniteSet(s) /\ ~\E f : Sums(f, s)
        BY <2>1, FS_Subset
    <2>3. \A t \in SUBSET s : t # s => Sums(CHOOSE f : Sums(f, t), t)
        BY <2>1
    <2>4. ASSUME NEW t \in SUBSET s, t # s
          PROVE  Sum(t) = IF t = {} THEN 0 ELSE Size[Some(t)] + Sum(t \ {Some(t)})
        <3> DEFINE f == CHOOSE f : Sums(f, t)
        <3>1. Sums(f, t) /\ IsFiniteSet(t \ {Some(t)})
            BY <2>2, <2>3, <2>4, FS_Subset
        <3>2. f[t] = IF t = {} THEN 0 ELSE Size[Some(t)] + f[t \ {Some(t)}]
            BY <3>1, Zenon DEF Sums
        <3>3. CASE t # {}
            <4>1. t \ {Some(t)} \in SUBSET s /\ t \ {Some(t)} # s /\ t \ {Some(t)} \subseteq t
                BY <2>4
            <4>2. Sums(CHOOSE g : Sums(g, t \ {Some(t)}), t \ {Some(t)})
                BY <2>3, <4>1
            <4>3. f[t \ {Some(t)}] = Sum(t \ {Some(t)})
                BY <3>1, <4>1, <4>2, SumsAgree DEF Sum
            <4> QED
                BY <3>2, <3>3, <4>3 DEF Sum
        <3>4. CASE t = {}
            BY <3>2, <3>4 DEF Sum
        <3> QED
            BY <3>3, <3>4
    <2> DEFINE value(t) == IF t = {} THEN 0 ELSE Size[Some(t)] + Sum(t \ {Some(t)})
               h == [t \in SUBSET s |-> value(t)]
    <2>5. ASSUME NEW t \in SUBSET s, t # {} PROVE h[t \ {Some(t)}] = Sum(t \ {Some(t)})
        <3>1. Some(t) \in t
            BY <2>5 DEF Some
        <3>2. t \ {Some(t)} \in SUBSET s /\ t \ {Some(t)} # s
            BY <3>1
        <3> QED
            BY <2>4, <3>2, Zenon
    <2>6. Sums(h, s)
        <3>1. \A t \in SUBSET s : value(t) = IF t = {} THEN 0 ELSE Size[Some(t)] + h[t \ {Some(t)}]
            BY <2>5
        <3> HIDE DEF value
        <3> QED
            BY <3>1, Zenon DEF Sums
    <2> QED
        BY <2>2, <2>6
<1>2. T \notin Bad
    BY <1>1
<1> QED
    BY <1>2

\* What is resident is what one driver takes, and the rest.
LEMMA SumSteps ==
    ASSUME NEW T, IsFiniteSet(T)
    PROVE  Resident(T) = IF T = {} THEN 0 ELSE Size[Some(T)] + Resident(T \ {Some(T)})
<1> DEFINE f == CHOOSE f : Sums(f, T)
           rest == T \ {Some(T)}
<1>1. Sums(f, T) /\ Resident(T) = f[T]
    BY SumsExist, ResidentIs, Zenon
<1>2. f[T] = IF T = {} THEN 0 ELSE Size[Some(T)] + f[rest]
    BY <1>1, Zenon DEF Sums
<1>3. IsFiniteSet(rest) /\ rest \subseteq T
    BY FS_Subset
<1>4. Sums(CHOOSE g : Sums(g, rest), rest)
    BY <1>3, SumsExist
<1>5. f[rest] = Resident(rest)
    <2> HIDE DEF f, rest
    <2> QED
        BY <1>1, <1>3, <1>4, SumsAgree, ResidentIs
<1> QED
    BY <1>1, <1>2, <1>5

\* What is resident is a number.
LEMMA ResidentIsNat ==
    ASSUME NEW T \in SUBSET Drivers, IsFiniteSet(T)
    PROVE  Resident(T) \in Nat
<1> DEFINE Bad == {s \in SUBSET T : Resident(s) \notin Nat}
<1>1. ASSUME Bad # {} PROVE FALSE
    <2>1. PICK s \in Bad : \A t \in Bad : t \subseteq s => t = s
        <3>1. \A s \in Bad : IsFiniteSet(s)
            BY FS_Subset
        <3> HIDE DEF Bad
        <3> QED
            BY <1>1, <3>1, SmallestSet
    <2>2. s \in SUBSET T /\ IsFiniteSet(s) /\ Resident(s) \notin Nat
        BY <2>1, FS_Subset
    <2>3. Resident(s) = IF s = {} THEN 0 ELSE Size[Some(s)] + Resident(s \ {Some(s)})
        BY <2>2, SumSteps
    <2>4. s # {} /\ Some(s) \in s
        BY <2>2, <2>3 DEF Some
    <2>5. Size[Some(s)] \in Nat
        BY <2>2, <2>4, LocalWorkersAssumption
    <2>6. s \ {Some(s)} \in Bad
        BY <2>2, <2>3, <2>4, <2>5
    <2> QED
        BY <2>1, <2>4, <2>6
<1>2. T \notin Bad
    BY <1>1
<1> QED
    BY <1>2

\* Whichever driver is taken out first.
LEMMA ResidentWithout ==
    ASSUME NEW T \in SUBSET Drivers, IsFiniteSet(T), NEW d \in T
    PROVE  Resident(T) = Size[d] + Resident(T \ {d})
<1> DEFINE Bad == {s \in SUBSET T : \E e \in s : Resident(s) # Size[e] + Resident(s \ {e})}
<1>1. ASSUME Bad # {} PROVE FALSE
    <2>1. PICK s \in Bad : \A t \in Bad : t \subseteq s => t = s
        <3>1. \A s \in Bad : IsFiniteSet(s)
            BY FS_Subset
        <3> HIDE DEF Bad
        <3> QED
            BY <1>1, <3>1, SmallestSet
    <2>2. PICK e \in s : Resident(s) # Size[e] + Resident(s \ {e})
        BY <2>1
    <2> DEFINE x == Some(s)
               rest == (s \ {x}) \ {e}
    <2>3. IsFiniteSet(s) /\ IsFiniteSet(rest)
        BY <2>1, FS_Subset
    <2>4. x \in s /\ Resident(s) = Size[x] + Resident(s \ {x})
        BY <2>2, <2>3, SumSteps DEF Some
    <2> HIDE DEF x
    <2>5. x # e
        BY <2>2, <2>4
    <2>6. s \ {x} \notin Bad /\ s \ {e} \notin Bad
        BY <2>1, <2>2, <2>4
    <2>7. Resident(s \ {x}) = Size[e] + Resident(rest)
        BY <2>1, <2>5, <2>6
    <2>8. (s \ {e}) \ {x} = rest
        OBVIOUS
    <2>9. Resident(s \ {e}) = Size[x] + Resident(rest)
        BY <2>1, <2>4, <2>5, <2>6, <2>8
    <2>10. Size[x] \in Nat /\ Size[e] \in Nat /\ Resident(rest) \in Nat
        BY <2>1, <2>3, <2>4, LocalWorkersAssumption, ResidentIsNat
    <2> QED
        BY <2>2, <2>4, <2>7, <2>9, <2>10
<1>2. T \notin Bad
    BY <1>1
<1> QED
    BY <1>2

\* More drivers take no less.
LEMMA ResidentGrows ==
    ASSUME NEW T \in SUBSET Drivers, IsFiniteSet(T), NEW S \in SUBSET T
    PROVE  Resident(S) <= Resident(T)
<1> DEFINE Bad == {s \in SUBSET T : S \subseteq s /\ ~(Resident(S) <= Resident(s))}
<1>1. ASSUME Bad # {} PROVE FALSE
    <2>1. PICK s \in Bad : \A t \in Bad : t \subseteq s => t = s
        <3>1. \A s \in Bad : IsFiniteSet(s)
            BY FS_Subset
        <3> HIDE DEF Bad
        <3> QED
            BY <1>1, <3>1, SmallestSet
    <2>2. s \in SUBSET T /\ S \subseteq s /\ ~(Resident(S) <= Resident(s)) /\ IsFiniteSet(s) /\ IsFiniteSet(S)
        BY <2>1, FS_Subset
    <2>3. Resident(S) \in Nat /\ Resident(s) \in Nat
        BY <2>2, ResidentIsNat
    <2>4. PICK e \in s : e \notin S
        BY <2>2, <2>3
    <2>5. IsFiniteSet(s \ {e}) /\ Resident(s) = Size[e] + Resident(s \ {e})
        BY <2>2, FS_Subset, ResidentWithout
    <2>6. Size[e] \in Nat /\ Resident(s \ {e}) \in Nat
        BY <2>2, <2>5, LocalWorkersAssumption, ResidentIsNat
    <2>7. s \ {e} \in Bad
        BY <2>2, <2>3, <2>4, <2>5, <2>6
    <2> QED
        BY <2>1, <2>4, <2>7
<1>2. T \notin Bad
    BY <1>1
<1> QED
    BY <1>2

\* One driver more.
LEMMA ResidentWith ==
    ASSUME NEW S \in SUBSET Drivers, IsFiniteSet(S), NEW d \in Drivers, NEW T \in SUBSET (S \cup {d})
    PROVE  Resident(T) <= Resident(S) + Size[d]
<1>1. IsFiniteSet(T) /\ T \in SUBSET Drivers /\ IsFiniteSet(T \ {d})
    <2>1. IsFiniteSet(S \cup {d})
        BY FS_AddElement
    <2> QED
        BY <2>1, FS_Subset
<1>2. Resident(T \ {d}) <= Resident(S) /\ Resident(T) \in Nat /\ Resident(S) \in Nat
      /\ Resident(T \ {d}) \in Nat /\ Size[d] \in Nat
    BY <1>1, ResidentGrows, ResidentIsNat, LocalWorkersAssumption
<1>3. CASE d \in T
    <2>1. Resident(T) = Size[d] + Resident(T \ {d})
        BY <1>1, <1>3, ResidentWithout
    <2> QED
        BY <1>2, <2>1
<1>4. CASE d \notin T
    <2>1. T \in SUBSET S
        BY <1>4
    <2>2. Resident(T) <= Resident(S)
        BY <2>1, ResidentGrows
    <2> QED
        BY <1>2, <2>2
<1> QED
    BY <1>3, <1>4

\* The least of a set of numbers is one of them.
LEMMA LeastIsThere ==
    ASSUME NEW S \in SUBSET Nat, S # {}
    PROVE  Min(S) \in S /\ \A j \in S : Min(S) <= j
<1>1. \A i, j \in Nat : j < i => <<j, i>> \in OpToRel(<, Nat)
    BY DEF OpToRel
<1>2. PICK R : IsWellFoundedOn(R, Nat) /\ \A i, j \in Nat : j < i => <<j, i>> \in R
    BY <1>1, NatLessThanWellFounded, Zenon
<1>3. \E i \in S : \A j \in S : <<j, i>> \notin R
    BY <1>2, WFMin
<1>4. PICK i \in S : \A j \in S : <<j, i>> \notin R
    BY <1>3
<1>5. ASSUME NEW j \in S PROVE i <= j
    <2>1. i \in Nat /\ j \in Nat /\ <<j, i>> \notin R
        BY <1>4
    <2>2. ~(j < i)
        BY <1>2, <2>1
    <2> QED
        BY <2>1, <2>2
<1> QED
    BY <1>5 DEF Min

\* The order of use names every driver that is loaded and no other, none of them twice;
\* and a driver in the table without its weights is nobody's.
FitInv ==
    /\ Once(order) /\ ToSet(order) = ResidentIds
    /\ \A d \in Drivers :
          /\ active[d] # Nothing => active[d] \in {d} \X (1 .. Copies)
          /\ active[d] # Nothing /\ ~InMemory(d) => Using(active[d]) = {}
    /\ budget \in Budgets

\* There is always an object of a driver that nobody uses.
LEMMA FreshIs ==
    ASSUME NEW d \in Drivers
    PROVE  Fresh(d) \in {d} \X (1 .. Copies) /\ Using(Fresh(d)) = {}
<1>1. ASSUME \A o \in {d} \X (1 .. Copies) : Using(o) # {} PROVE FALSE
    <2> DEFINE f == [i \in 1 .. Copies |-> CHOOSE q \in Requests : q \in Using(<<d, i>>)]
    <2>1. \A i \in 1 .. Copies : f[i] \in Requests /\ request[f[i]].object = <<d, i>>
        BY <1>1 DEF Using
    <2>2. Cardinality(1 .. Copies) = Copies /\ IsFiniteSet(1 .. Copies)
        BY LocalWorkersAssumption, FS_Interval
    <2>3. IsFiniteSet(Requests) /\ Cardinality(Requests) < Cardinality(1 .. Copies)
        BY <2>2, LocalWorkersAssumption, FS_CardinalityType
    <2>4. f \in [1 .. Copies -> Requests]
        BY <2>1
    <2> HIDE DEF f
    <2>5. \E i, j \in 1 .. Copies : i # j /\ f[i] = f[j]
        BY <2>2, <2>3, <2>4, FS_PigeonHole
    <2> QED
        BY <2>1, <2>5
<1> QED
    BY <1>1 DEF Fresh

\* Eviction stops where the newcomer fits, or when nobody is left.
LEMMA PoppedIs ==
    ASSUME Once(order), budget \in Budgets, NEW d
    PROVE  /\ Popped(d) \in 0 .. Len(order)
           /\ budget # Unlimited =>
                 \/ Resident(ResidentIds \ Evicted(d)) + Size[d] <= budget
                 \/ Popped(d) = Len(order)
<1> DEFINE Enough(n) == Resident(ResidentIds \ ToSet(SubSeq(order, 1, n))) + Size[d] <= budget
           stops == {n \in 0 .. Len(order) : Enough(n) \/ n = Len(order)}
<1>1. Len(order) \in Nat
    BY LenProperties DEF Once
<1>2. CASE budget = Unlimited
    BY <1>1, <1>2 DEF Popped
<1>3. CASE budget # Unlimited
    <2>1. stops \in SUBSET Nat /\ stops # {}
        BY <1>1
    <2>2. Popped(d) = Min(stops)
        BY <1>3 DEF Popped
    <2>3. Min(stops) \in stops
        <3> HIDE DEF stops
        <3> QED
            BY <2>1, LeastIsThere
    <2> QED
        BY <2>2, <2>3 DEF Evicted
<1> QED
    BY <1>2, <1>3

\* What a load leaves: the drivers it did not evict, and its own if it went well.
LEMMA LoadStep ==
    ASSUME WorkersInv, FitInv, NEW q \in Requests, NEW d \in Drivers, Load(q, d)
    PROVE  /\ FitInv'
           /\ ResidentIds' \subseteq ResidentIds \cup {d}
           /\ d \in ResidentIds' /\ budget # Unlimited => Resident(ResidentIds') <= budget
<1> DEFINE o == IF active[d] = Nothing THEN Fresh(d) ELSE active[d]
           held == [active EXCEPT ![d] = o]
           gone == Evicted(d)
           kept == [x \in Objects |-> loaded[x] /\ \A e \in gone : held[e] # x]
           rest == SubSeq(order, Popped(d) + 1, Len(order))
<1>1. /\ request[q].at = "free" /\ ~InMemory(d) /\ ~Refused(d) /\ budget' = budget
      /\ active' = [e \in Drivers |-> IF e \in gone THEN Nothing ELSE held[e]]
      /\ \/ loaded' = [kept EXCEPT ![o] = TRUE] /\ order' = Used(rest, d) /\ Takes(q, d, o)
         \/ loaded' = [kept EXCEPT ![o] = FALSE] /\ order' = rest /\ Raises(q)
    BY DEF Load
<1>2. Nothing \notin Objects /\ DOMAIN active = Drivers /\ DOMAIN request = Requests
    BY LocalWorkersAssumption DEF Objects, WorkersInv
<1>3. o \in {d} \X (1 .. Copies) /\ o \in Objects /\ o # Nothing /\ Using(o) = {} /\ (active[d] # Nothing => active[d] = o)
    BY <1>1, <1>2, FreshIs DEF FitInv, Objects
<1>4. /\ Once(rest) /\ gone \subseteq ResidentIds /\ ToSet(rest) = ResidentIds \ gone
    <2>1. Popped(d) \in 0 .. Len(order)
        BY PoppedIs DEF FitInv
    <2> QED
        BY <2>1, RestIs DEF FitInv, Evicted
<1>5. d \notin ResidentIds
    BY <1>1 DEF ResidentIds
<1> HIDE DEF o, gone, rest
<1>6. /\ active'[d] = o
      /\ \A e \in Drivers \ {d} : active'[e] = IF e \in gone THEN Nothing ELSE active[e]
    BY <1>1, <1>2, <1>4, <1>5
<1>7. \A e \in Drivers \ {d} : active[e] # Nothing => active[e] # o /\ active[e] \in Objects
    BY <1>3 DEF FitInv, Objects
<1>8. ASSUME NEW e \in Drivers, e # d, e \notin gone, active[e] # Nothing
      PROVE  loaded'[active[e]] = loaded[active[e]]
    <2>1. active[e] \in Objects /\ active[e] # o
        BY <1>7, <1>8
    <2>2. \A g \in gone : held[g] # active[e]
        <3>1. \A g \in gone : g \in Drivers /\ g # e /\ g # d /\ held[g] = active[g] /\ active[g] # Nothing
            BY <1>2, <1>4, <1>5, <1>8 DEF ResidentIds, InMemory
        <3> QED
            BY <1>8, <3>1 DEF FitInv
    <2>3. kept[active[e]] = loaded[active[e]]
        <3>1. loaded[active[e]] \in BOOLEAN
            BY <2>1 DEF WorkersInv
        <3> QED
            BY <2>1, <2>2, <3>1
    <2> QED
        BY <1>1, <2>1, <2>3
<1>9. \A e \in Drivers \ {d} : InMemory(e)' <=> e \in ResidentIds \ gone
    BY <1>6, <1>8 DEF InMemory, ResidentIds
<1>10. InMemory(d)' <=> loaded'[o]
    BY <1>3, <1>6 DEF InMemory
<1>11. \/ /\ loaded'[o] = TRUE /\ order' = Used(rest, d)
          /\ request' = [request EXCEPT ![q] = [at |-> "taken", id |-> d, object |-> o]]
       \/ /\ loaded'[o] = FALSE /\ order' = rest
          /\ request' = [request EXCEPT ![q] = [Free EXCEPT !.at = "failed"]]
    BY <1>1, <1>3 DEF Takes, Raises
<1>12. Once(order') /\ ToSet(order') = ResidentIds'
    <2>1. CASE loaded'[o] = TRUE
        <3>1. ResidentIds' = (ResidentIds \ gone) \cup {d}
            BY <1>9, <1>10, <2>1 DEF ResidentIds
        <3> QED
            BY <1>4, <1>11, <2>1, <3>1, UsedIs
    <2>2. CASE loaded'[o] = FALSE
        <3>1. ResidentIds' = ResidentIds \ gone
            BY <1>5, <1>9, <1>10, <2>2 DEF ResidentIds
        <3> QED
            BY <1>4, <1>11, <2>2, <3>1
    <2> QED
        BY <1>11, <2>1, <2>2
<1>13. ASSUME NEW e \in Drivers, active'[e] # Nothing
       PROVE  active'[e] \in {e} \X (1 .. Copies) /\ (~InMemory(e)' => Using(active[e])' = {})
    <2>1. CASE e = d
        <3>1. ~loaded'[o] => \A r \in Requests : request'[r].object # o
            BY <1>2, <1>3, <1>11 DEF Using, Free
        <3> QED
            BY <1>3, <1>6, <1>10, <2>1, <3>1 DEF Using
    <2>2. CASE e # d
        <3>1. e \notin gone /\ active'[e] = active[e] /\ (InMemory(e)' <=> InMemory(e))
            BY <1>6, <1>9, <1>13, <2>2 DEF ResidentIds
        <3>2. Using(active[e])' \subseteq Using(active[e])
            BY <1>2, <1>3, <1>7, <1>11, <1>13, <2>2, <3>1 DEF Using, Free
        <3> QED
            BY <1>13, <3>1, <3>2 DEF FitInv
    <2> QED
        BY <2>1, <2>2
<1>14. ResidentIds' \subseteq (ResidentIds \ gone) \cup {d}
    BY <1>9 DEF ResidentIds
<1>15. budget # Unlimited => Resident(ResidentIds') <= budget
    <2> SUFFICES ASSUME budget # Unlimited PROVE Resident(ResidentIds') <= budget
        OBVIOUS
    <2>1. budget \in Nat /\ Size[d] \in Nat /\ Size[d] <= budget
        BY <1>1, LocalWorkersAssumption DEF FitInv, Refused
    <2> DEFINE others == ResidentIds \ gone
    <2>2. others \in SUBSET Drivers /\ IsFiniteSet(others)
        BY LocalWorkersAssumption, FS_Subset DEF ResidentIds
    <2>3. /\ Resident(ResidentIds') <= Resident(others) + Size[d]
          /\ Resident(others) \in Nat /\ Resident(ResidentIds') \in Nat
        <3>1. ResidentIds' \in SUBSET (others \cup {d}) /\ IsFiniteSet(ResidentIds') /\ ResidentIds' \in SUBSET Drivers
            <4>1. ResidentIds' \in SUBSET Drivers
                BY DEF ResidentIds
            <4> QED
                BY <1>14, <4>1, LocalWorkersAssumption, FS_Subset
        <3> QED
            BY <2>2, <3>1, ResidentWith, ResidentIsNat
    <2>4. Resident(others) + Size[d] <= budget \/ others = {}
        <3>1. Resident(others) + Size[d] <= budget \/ Popped(d) = Len(order)
            BY PoppedIs DEF FitInv, gone
        <3>2. ASSUME Popped(d) = Len(order) PROVE others = {}
            <4>1. order \in Seq(Drivers) /\ Len(order) \in Nat
                BY LenProperties DEF FitInv, Once
            <4>2. rest = <<>>
                BY <3>2, <4>1, SubSeqEmpty DEF rest
            <4> QED
                BY <1>4, <4>2 DEF ToSet
        <3> QED
            BY <3>1, <3>2
    <2>5. others = {} => Resident(others) = 0
        BY SumSteps, FS_EmptySet
    <2> HIDE DEF others
    <2> QED
        BY <2>1, <2>3, <2>4, <2>5
<1> QED
    BY <1>1, <1>12, <1>13, <1>14, <1>15 DEF FitInv

\* The steps that leave the table alone, and give no request a driver.
LEMMA TableStays ==
    ASSUME WorkersInv, FitInv, active' = active, order' = order, budget' \in Budgets,
           \A e \in Drivers : active[e] # Nothing => (loaded'[active[e]] <=> loaded[active[e]]),
           \A r \in Requests : request'[r].object \in {request[r].object, Nothing}
    PROVE  FitInv' /\ ResidentIds' = ResidentIds
<1>1. \A e \in Drivers : InMemory(e)' <=> InMemory(e)
    BY DEF InMemory
<1>2. ResidentIds' = ResidentIds
    BY <1>1 DEF ResidentIds
<1>3. \A e \in Drivers : active[e] # Nothing => Using(active[e])' \subseteq Using(active[e])
    BY DEF Using
<1> QED
    BY <1>1, <1>2, <1>3 DEF FitInv

\* Only a load adds to the drivers that are counted.
LEMMA OtherStep ==
    ASSUME WorkersInv, FitInv, [LocalWorkersNext]_workerVars,
           ~ \E q \in Requests, d \in Drivers : Load(q, d)
    PROVE  FitInv' /\ ResidentIds' \subseteq ResidentIds
<1>0. Nothing \notin Objects /\ DOMAIN active = Drivers /\ DOMAIN request = Requests
      /\ loaded \in [Objects -> BOOLEAN] /\ \A q \in Requests : DOMAIN request[q] = {"at", "id", "object"}
    BY LocalWorkersAssumption DEF Objects, WorkersInv
<1>1. CASE UNCHANGED workerVars
    BY <1>1, TableStays DEF workerVars, FitInv
<1>2. ASSUME NEW q \in Requests, NEW d \in Drivers, Hit(q, d)
      PROVE  FitInv' /\ ResidentIds' \subseteq ResidentIds
    <2>1. /\ InMemory(d) /\ active' = active /\ loaded' = loaded /\ budget' = budget
          /\ order' = Used(order, d)
          /\ request' = [request EXCEPT ![q] = [at |-> "taken", id |-> d, object |-> active[d]]]
        BY <1>2 DEF Hit, Takes
    <2>2. ResidentIds' = ResidentIds /\ d \in ResidentIds /\ \A e \in Drivers : InMemory(e)' <=> InMemory(e)
        BY <2>1 DEF ResidentIds, InMemory
    <2>3. Once(order') /\ ToSet(order') = ResidentIds'
        <3>1. Once(Used(order, d)) /\ ToSet(Used(order, d)) = ResidentIds \cup {d}
            BY UsedIs DEF FitInv
        <3> QED
            BY <2>1, <2>2, <3>1
    <2>4. ASSUME NEW e \in Drivers, active[e] # Nothing, ~InMemory(e) PROVE Using(active[e])' = {}
        <3>1. active[e] # active[d] /\ Using(active[e]) = {}
            BY <2>1, <2>4 DEF FitInv, InMemory
        <3> QED
            BY <1>0, <2>1, <3>1 DEF Using
    <2> QED
        BY <2>1, <2>2, <2>3, <2>4 DEF FitInv
<1>3. ASSUME NEW q \in Requests, NEW d \in Drivers, Refuse(q, d)
      PROVE  FitInv' /\ ResidentIds' \subseteq ResidentIds
    <2> DEFINE o == IF active[d] = Nothing THEN Fresh(d) ELSE active[d]
    <2>1. /\ ~InMemory(d) /\ loaded' = loaded /\ budget' = budget /\ order' = order
          /\ active' = [active EXCEPT ![d] = o]
          /\ request' = [request EXCEPT ![q] = [Free EXCEPT !.at = "failed"]]
        BY <1>3 DEF Refuse, Raises
    <2>2. o \in {d} \X (1 .. Copies) /\ o \in Objects /\ o # Nothing /\ Using(o) = {}
        BY <1>0, <2>1, FreshIs DEF FitInv, Objects
    <2>3. ~loaded[o]
        <3>1. CASE active[d] = Nothing
            <4>1. \A e \in Drivers : active[e] # o
                BY <1>0, <2>2, <3>1 DEF FitInv
            <4> QED
                BY <2>2, <4>1 DEF WorkersInv, UncountedIsInUse
        <3>2. CASE active[d] # Nothing
            BY <2>1, <3>2 DEF InMemory
        <3> QED
            BY <3>1, <3>2
    <2> HIDE DEF o
    <2>4. active'[d] = o /\ \A e \in Drivers \ {d} : active'[e] = active[e]
        BY <1>0, <2>1
    <2>5. \A e \in Drivers : InMemory(e)' <=> InMemory(e)
        BY <2>1, <2>3, <2>4 DEF InMemory
    <2>6. ResidentIds' = ResidentIds
        BY <2>5 DEF ResidentIds
    <2>7. ASSUME NEW e \in Drivers, active'[e] # Nothing
          PROVE  active'[e] \in {e} \X (1 .. Copies) /\ (~InMemory(e)' => Using(active[e])' = {})
        <3>1. CASE e = d
            <4>1. \A r \in Requests : request'[r].object # o
                BY <1>0, <2>1, <2>2 DEF Using, Free
            <4>2. Using(active[e])' = {}
                BY <2>4, <3>1, <4>1 DEF Using
            <4> QED
                BY <2>2, <2>4, <3>1, <4>2
        <3>2. CASE e # d
            <4>1. active'[e] = active[e] /\ active[e] \in {e} \X (1 .. Copies) /\ active[e] \in Objects
                BY <2>4, <2>7, <3>2 DEF FitInv, Objects
            <4>2. Using(active[e])' = {r \in Requests : request'[r].object = active[e]}
                BY <4>1 DEF Using
            <4>3. ~InMemory(e) => \A r \in Requests : request[r].object # active[e]
                BY <2>7, <4>1 DEF FitInv, Using
            <4>4. ~InMemory(e) => \A r \in Requests : request'[r].object # active[e]
                BY <1>0, <2>1, <4>1, <4>3 DEF Free
            <4> QED
                BY <2>5, <4>1, <4>2, <4>4
        <3> QED
            BY <3>1, <3>2
    <2> QED
        BY <2>1, <2>6, <2>7 DEF FitInv
<1>4. ASSUME NEW q \in Requests, Infer(q) PROVE FitInv' /\ ResidentIds' \subseteq ResidentIds
    <2> DEFINE o == request[q].object
    <2>1. active' = active /\ order' = order /\ budget' = budget
        BY <1>4 DEF Infer
    <2>2. CASE loaded' = [loaded EXCEPT ![o] = TRUE] /\ request' = [request EXCEPT ![q].at = "ready"]
        <3>1. \A e \in Drivers : active[e] # Nothing => (loaded'[active[e]] <=> loaded[active[e]])
            BY <2>2 DEF FitInv, InMemory, Using
        <3>2. \A r \in Requests : request'[r].object = request[r].object
            BY <2>2
        <3> QED
            BY <2>1, <3>1, <3>2, TableStays DEF FitInv
    <2>3. CASE loaded' = loaded /\ Raises(q)
        <3>1. \A r \in Requests : request'[r].object \in {request[r].object, Nothing}
            BY <1>0, <2>3 DEF Raises, Free
        <3> QED
            BY <2>1, <2>3, <3>1, TableStays DEF FitInv
    <2> QED
        BY <1>4, <2>2, <2>3 DEF Infer
<1>5. ASSUME NEW q \in Requests, Generate(q) \/ Again(q)
      PROVE  FitInv' /\ ResidentIds' \subseteq ResidentIds
    <2>1. active' = active /\ order' = order /\ budget' = budget /\ loaded' = loaded
        BY <1>5 DEF Generate, Again
    <2>2. \A r \in Requests : request'[r].object \in {request[r].object, Nothing}
        BY <1>0, <1>5 DEF Generate, Again, Raises, Free
    <2> QED
        BY <2>1, <2>2, TableStays DEF FitInv
<1>6. ASSUME NEW q \in Requests, Finish(q) PROVE FitInv' /\ ResidentIds' \subseteq ResidentIds
    <2> DEFINE o == request[q].object
               dropped == (\A d \in Drivers : active[d] # o) /\ Using(o) = {q}
    <2>1. /\ active' = active /\ order' = order /\ budget' = budget
          /\ loaded' = [loaded EXCEPT ![o] = @ /\ ~dropped] /\ request' = [request EXCEPT ![q] = Free]
        BY <1>6 DEF Finish
    <2>2. \A e \in Drivers : active[e] # Nothing => (loaded'[active[e]] <=> loaded[active[e]])
        <3>1. \A e \in Drivers : active[e] # Nothing => active[e] \in Objects
            BY DEF FitInv, Objects
        <3>2. ASSUME NEW e \in Drivers, active[e] = o PROVE ~dropped
            BY <3>2
        <3> HIDE DEF dropped
        <3> QED
            BY <1>0, <2>1, <3>1, <3>2
    <2>3. \A r \in Requests : request'[r].object \in {request[r].object, Nothing}
        BY <1>0, <2>1 DEF Free
    <2> QED
        BY <2>1, <2>2, <2>3, TableStays DEF FitInv
<1>7. ASSUME NEW d \in Drivers, Unload(d) PROVE FitInv' /\ ResidentIds' \subseteq ResidentIds
    <2>1. /\ loaded' = [loaded EXCEPT ![active[d]] = FALSE] /\ active' = [active EXCEPT ![d] = Nothing]
          /\ order' = Without(order, d) /\ budget' = budget /\ request' = request
        BY <1>7 DEF Unload
    <2>2. active'[d] = Nothing /\ \A e \in Drivers \ {d} : active'[e] = active[e]
        BY <1>0, <2>1
    <2>3. \A e \in Drivers \ {d} : active[e] # Nothing => loaded'[active[e]] = loaded[active[e]]
        <3>1. \A e \in Drivers \ {d} : active[e] # Nothing => active[e] # active[d] /\ active[e] \in Objects
            BY DEF FitInv, Objects
        <3> QED
            BY <1>0, <2>1, <3>1
    <2>4. \A e \in Drivers : InMemory(e)' <=> InMemory(e) /\ e # d
        BY <2>2, <2>3 DEF InMemory
    <2>5. ResidentIds' = ResidentIds \ {d}
        BY <2>4 DEF ResidentIds
    <2>6. Once(order') /\ ToSet(order') = ResidentIds'
        BY <2>1, <2>5, WithoutIs DEF FitInv
    <2>7. ASSUME NEW e \in Drivers, active'[e] # Nothing
          PROVE  active'[e] \in {e} \X (1 .. Copies) /\ (~InMemory(e)' => Using(active[e])' = {})
        BY <2>1, <2>2, <2>4, <2>7 DEF FitInv, Using
    <2> QED
        BY <2>1, <2>5, <2>6, <2>7 DEF FitInv
<1>8. CASE UnloadAll
    <2>1. order' = <<>> /\ (\A d \in Drivers : active'[d] = Nothing) /\ budget' = budget
        BY <1>8 DEF UnloadAll
    <2>2. ResidentIds' = {}
        BY <2>1 DEF ResidentIds, InMemory
    <2>3. Once(order') /\ ToSet(order') = {}
        BY <2>1, EmptySeq DEF Once, ToSet
    <2> QED
        BY <2>1, <2>2, <2>3 DEF FitInv
<1>9. ASSUME NEW b \in Budgets, SetBudget(b) PROVE FitInv' /\ ResidentIds' \subseteq ResidentIds
    BY <1>9, TableStays DEF SetBudget
<1> QED
    BY <1>1, <1>2, <1>3, <1>4, <1>5, <1>6, <1>7, <1>8, <1>9 DEF LocalWorkersNext

\* The order of use and the table go together in every reachable state.
LEMMA FitInvariant == WorkersSpec => []FitInv
<1>1. LocalWorkersInit => FitInv
    <2> SUFFICES ASSUME LocalWorkersInit PROVE FitInv
        OBVIOUS
    <2>1. order = <<>> /\ (\A d \in Drivers : active[d] = Nothing) /\ budget \in Budgets
        BY DEF LocalWorkersInit
    <2>2. Once(order) /\ ToSet(order) = {} /\ ResidentIds = {}
        BY <2>1, EmptySeq DEF Once, ToSet, ResidentIds, InMemory
    <2> QED
        BY <2>1, <2>2 DEF FitInv
<1>2. WorkersInv /\ FitInv /\ [LocalWorkersNext]_workerVars => FitInv'
    BY LoadStep, OtherStep
<1> QED
    BY <1>1, <1>2, WorkersInvariant, PTL DEF WorkersSpec

\* Whatever the drivers take and the budget is: a driver that comes into memory under a
\* budget fits with all that are counted, although eviction walks the order of use.
THEOREM WhatIsLoadedFits == WorkersSpec => LoadFits
<1>1. ASSUME WorkersInv, FitInv, LocalWorkersNext
      PROVE  \A d \in Drivers : ~InMemory(d) /\ InMemory(d)' /\ budget # Unlimited
                => Resident(ResidentIds') <= budget
    <2> SUFFICES ASSUME NEW d \in Drivers, ~InMemory(d), InMemory(d)', budget # Unlimited
                 PROVE  Resident(ResidentIds') <= budget
        OBVIOUS
    <2>1. d \notin ResidentIds /\ d \in ResidentIds'
        BY DEF ResidentIds
    <2>2. PICK q \in Requests, e \in Drivers : Load(q, e)
        BY <1>1, <2>1, OtherStep
    <2>3. e = d
        BY <1>1, <2>1, <2>2, LoadStep
    <2> QED
        BY <1>1, <2>1, <2>2, <2>3, LoadStep
<1> QED
    BY <1>1, WorkersInvariant, FitInvariant, PTL DEF WorkersSpec, LoadFits

-----------------------------------------------------------------------------
(* Installs *)

InstallsSpec == InstallsInit /\ [][InstallsNext]_installVars

\* What a job that nobody overtook still knows: pip would write what it said it would,
\* and a job that goes on without consent lowers nothing.
UpToDate(j) ==
    LET packages == env[Interpreter(job[j].door)]
        entries == Entries(job[j].runtime, packages)
    IN  /\ job[j].at \in {"resolved", "writing"} => job[j].entries = entries
        /\ (/\ job[j].at \in {"installing", "writing"}
            /\ Method[job[j].runtime] = "pip" /\ ~job[j].allow) => ~Lowers(entries, packages)
        /\ job[j].at = "completed" => Works(job[j].runtime, job[j].door)

JobInv(j) ==
    /\ job[j].at # "idle" => job[j].runtime \in Runtimes
    /\ job[j].at \in {"resolved", "writing"} => Method[job[j].runtime] = "pip"
    /\ ~job[j].stale => UpToDate(j)

InstallShapes ==
    /\ DOMAIN venv = Isolated /\ DOMAIN job = Jobs
    /\ \A r \in Isolated : DOMAIN venv[r] = {"is", "by"}
    /\ \A j \in Jobs : DOMAIN job[j] = DOMAIN Idle

InstallsInv == InstallShapes /\ \A j \in Jobs : JobInv(j)

\* A step keeps the place of a job: pip finds the same packages, a full venv stays full.
Kept(k) ==
    LET r == job[k].runtime  py == Interpreter(job[k].door)
    IN  IF r \in Isolated THEN venv[r].is = "full" => venv'[r].is = "full"
        ELSE env'[py] = env[py]

LEMMA KeptUpToDate ==
    ASSUME InstallsInv, NEW k \in Jobs, scripts \subseteq scripts',
           \A f \in DOMAIN Idle \ {"stale"} : job'[k][f] = job[k][f],
           ~job'[k].stale => ~job[k].stale /\ (job[k].at = "idle" \/ Kept(k))
    PROVE  JobInv(k)'
<1>1. /\ job'[k].at = job[k].at /\ job'[k].door = job[k].door /\ job'[k].runtime = job[k].runtime
      /\ job'[k].allow = job[k].allow /\ job'[k].entries = job[k].entries
    BY DEF Idle
<1>2. JobInv(k)
    BY DEF InstallsInv
<1>3. ASSUME ~job'[k].stale, job[k].at # "idle" PROVE UpToDate(k)'
    <2>1. Kept(k) /\ UpToDate(k) /\ job[k].runtime \in Runtimes
        BY <1>2, <1>3 DEF JobInv
    <2>2. Works(job[k].runtime, job[k].door) => Works(job[k].runtime, job[k].door)'
        BY <1>1, <2>1 DEF Kept, Works, Loads, BelowMinimum, Version, Isolated
    <2>3. ASSUME job[k].at \in {"resolved", "writing", "installing"}, Method[job[k].runtime] = "pip"
          PROVE  env'[Interpreter(job[k].door)] = env[Interpreter(job[k].door)]
        BY <2>1, <2>3 DEF Kept, Isolated
    <2> QED
        BY <1>1, <1>2, <2>1, <2>2, <2>3 DEF UpToDate, JobInv
<1>4. job[k].at = "idle" => UpToDate(k)'
    BY <1>1 DEF UpToDate
<1> QED
    BY <1>1, <1>2, <1>3, <1>4 DEF JobInv

\* A job alone moves on, in a world that keeps every place.
LEMMA JobGoesOn ==
    ASSUME InstallsInv, NEW j \in Jobs, NEW new, job' = [job EXCEPT ![j] = new],
           DOMAIN new = DOMAIN Idle, JobInv(j)', env' = env, scripts \subseteq scripts',
           DOMAIN venv' = Isolated, \A r \in Isolated : DOMAIN venv'[r] = {"is", "by"},
           \A r \in Isolated : venv[r].is = "full" => venv'[r].is = "full"
    PROVE  InstallsInv'
<1>1. ASSUME NEW k \in Jobs, k # j PROVE JobInv(k)'
    <2>1. job'[k] = job[k]
        BY <1>1 DEF InstallsInv, InstallShapes
    <2>2. Kept(k)
        BY DEF Kept
    <2> QED
        BY <2>1, <2>2, KeptUpToDate DEF InstallsInv, JobInv
<1>2. InstallShapes'
    BY DEF InstallsInv, InstallShapes
<1> QED
    BY <1>1, <1>2 DEF InstallsInv

\* A job changes its place and marks whoever looked at it before.
LEMMA JobOvertakes ==
    ASSUME InstallsInv, NEW j \in Jobs, NEW step, Overtakes(j, step), JobInv(j)',
           InstallShapes => InstallShapes', scripts \subseteq scripts'
    PROVE  InstallsInv'
<1>1. ASSUME NEW k \in Jobs, k # j PROVE JobInv(k)'
    <2>1. job'[k] = [job[k] EXCEPT !.stale = @ \/ Moved(k)]
        BY <1>1 DEF Overtakes
    <2>2. \A f \in DOMAIN Idle \ {"stale"} : job'[k][f] = job[k][f]
        BY <2>1 DEF InstallsInv, InstallShapes
    <2>3. job'[k].stale = (job[k].stale \/ Moved(k))
        BY <2>1 DEF InstallsInv, InstallShapes, Idle
    <2>4. ~Moved(k) => job[k].at = "idle" \/ Kept(k)
        BY DEF Moved, Kept
    <2> QED
        BY <2>2, <2>3, <2>4, KeptUpToDate
<1> QED
    BY <1>1 DEF InstallsInv

\* A step that leaves the venvs alone.
LEMMA VenvsStay ==
    ASSUME InstallsInv, venv' = venv
    PROVE  /\ DOMAIN venv' = Isolated /\ \A r \in Isolated : DOMAIN venv'[r] = {"is", "by"}
           /\ \A r \in Isolated : venv[r].is = "full" => venv'[r].is = "full"
BY DEF InstallsInv, InstallShapes

\* A job reaches its next step while every interpreter and every full venv stays.
LEMMA JobReaches ==
    ASSUME InstallsInv, NEW j \in Jobs, NEW step, Goes(j, step), job[j].at # "idle",
           step \in {"failed", "refused", "filling", "installed"}
           \/ (step = "installing" /\ (Method[job[j].runtime] = "pip" /\ ~job[j].allow /\ ~job[j].stale
                 => ~Lowers(Entries(job[j].runtime, env[Interpreter(job[j].door)]),
                            env[Interpreter(job[j].door)]))),
           env' = env, scripts \subseteq scripts',
           DOMAIN venv' = Isolated, \A r \in Isolated : DOMAIN venv'[r] = {"is", "by"},
           \A r \in Isolated : venv[r].is = "full" => venv'[r].is = "full"
    PROVE  InstallsInv'
<1> DEFINE new == [job[j] EXCEPT !.at = step]
<1>1. job' = [job EXCEPT ![j] = new] /\ DOMAIN new = DOMAIN Idle
    BY DEF Goes, InstallsInv, InstallShapes
<1>2. /\ job'[j].at = step /\ job'[j].runtime = job[j].runtime /\ job'[j].door = job[j].door
      /\ job'[j].allow = job[j].allow /\ job'[j].stale = job[j].stale
    BY <1>1 DEF InstallsInv, InstallShapes, Idle
<1>3. JobInv(j)'
    BY <1>2 DEF JobInv, UpToDate, InstallsInv
<1> QED
    BY <1>1, <1>3, JobGoesOn

\* A job that changes an interpreter or spoils a venv is done or has failed.
LEMMA JobSpoils ==
    ASSUME InstallsInv, NEW j \in Jobs, NEW step \in {"failed", "installed"}, Overtakes(j, step),
           job[j].at # "idle", scripts' = scripts,
           DOMAIN venv' = Isolated, \A r \in Isolated : DOMAIN venv'[r] = {"is", "by"}
    PROVE  InstallsInv'
<1>1. DOMAIN job' = Jobs /\ \A k \in Jobs : DOMAIN job'[k] = DOMAIN Idle
    BY DEF Overtakes, InstallsInv, InstallShapes
<1>2. job'[j].at = step /\ job'[j].runtime = job[j].runtime
    BY DEF Overtakes, InstallsInv, InstallShapes, Idle
<1>3. JobInv(j)'
    BY <1>2 DEF JobInv, UpToDate, InstallsInv
<1>4. InstallShapes => InstallShapes'
    BY <1>1 DEF InstallShapes
<1> QED
    BY <1>3, <1>4, JobOvertakes

LEMMA InstallsInvariant == InstallsSpec => []InstallsInv
<1>1. InstallsInit => InstallsInv
    BY DEF InstallsInit, InstallsInv, InstallShapes, JobInv, UpToDate, Idle, NoVenv
<1>2. InstallsInv /\ [InstallsNext]_installVars => InstallsInv'
    <2> SUFFICES ASSUME InstallsInv, [InstallsNext]_installVars PROVE InstallsInv'
        OBVIOUS
    <2>1. ASSUME UNCHANGED job, UNCHANGED World \/ \E d \in Doors, r \in Isolated : Route(d, r)
          PROVE  InstallsInv'
        <3>1. UNCHANGED <<env, venv, scripts>>
            BY <2>1 DEF World, Route
        <3> QED
            BY <2>1, <3>1, KeptUpToDate DEF InstallsInv, InstallShapes, Kept, JobInv
    <2>2. ASSUME NEW j \in Jobs, Ask(j) PROVE InstallsInv'
        <3>1. PICK door \in Doors, r \in Runtimes, allow \in BOOLEAN :
                  job' = [job EXCEPT ![j] =
                    [Idle EXCEPT !.at = "resolving", !.door = door, !.runtime = r, !.allow = allow]]
            BY <2>2 DEF Ask
        <3>2. JobInv(j)'
            BY <3>1 DEF JobInv, UpToDate, Idle, InstallsInv, InstallShapes
        <3> QED
            BY <2>2, <3>1, <3>2, VenvsStay, JobGoesOn DEF Ask, World, Idle
    <2>3. ASSUME NEW j \in Jobs, DryRun(j) PROVE InstallsInv'
        <3> DEFINE r == job[j].runtime
                   py == Interpreter(job[j].door)
        <3>1. job[j].at = "resolving" /\ UNCHANGED <<env, venv, scripts>>
            BY <2>3 DEF DryRun
        <3>2. ASSUME NEW step, Goes(j, step), step = "failed" \/ (step = "installing" /\ Method[r] # "pip")
              PROVE  InstallsInv'
            BY <3>1, <3>2, JobReaches, VenvsStay
        <3>3. ASSUME Method[r] = "pip",
                     job' = [job EXCEPT ![j].at = "resolved", ![j].entries = Entries(r, env[py]),
                                        ![j].stale = FALSE]
              PROVE  InstallsInv'
            <4> DEFINE new == [job[j] EXCEPT !.at = "resolved", !.entries = Entries(r, env[py]),
                                             !.stale = FALSE]
            <4>1. job' = [job EXCEPT ![j] = new] /\ DOMAIN new = DOMAIN Idle
                BY <3>3 DEF InstallsInv, InstallShapes
            <4>2. /\ job'[j].at = "resolved" /\ job'[j].entries = Entries(r, env[py])
                  /\ job'[j].runtime = r /\ job'[j].door = job[j].door
                BY <3>3 DEF InstallsInv, InstallShapes, Idle
            <4>3. JobInv(j)'
                BY <3>1, <3>3, <4>2 DEF JobInv, UpToDate, InstallsInv
            <4> QED
                BY <3>1, <4>1, <4>3, VenvsStay, JobGoesOn
        <3> QED
            BY <2>3, <3>2, <3>3 DEF DryRun
    <2>4. ASSUME NEW j \in Jobs, Decide(j) PROVE InstallsInv'
        <3> DEFINE lowers == Lowers(job[j].entries, env[Interpreter(job[j].door)])
        <3>1. job[j].at = "resolved" /\ UNCHANGED World
              /\ Goes(j, IF lowers /\ ~job[j].allow THEN "refused" ELSE "installing")
            BY <2>4 DEF Decide
        <3>2. JobInv(j) /\ Method[job[j].runtime] = "pip"
            BY <3>1 DEF InstallsInv, JobInv
        <3>3. CASE lowers /\ ~job[j].allow
            BY <3>1, <3>3, JobReaches, VenvsStay DEF World
        <3>4. CASE ~lowers \/ job[j].allow
            BY <3>1, <3>2, <3>4, JobReaches, VenvsStay DEF World, JobInv, UpToDate
        <3> QED
            BY <3>3, <3>4
    <2>5. ASSUME NEW j \in Jobs, StartPip(j) PROVE InstallsInv'
        <3> DEFINE r == job[j].runtime
                   py == Interpreter(job[j].door)
        <3>1. job[j].at = "installing" /\ Method[r] = "pip" /\ UNCHANGED <<env, venv, scripts>>
            BY <2>5 DEF StartPip
        <3>2. ASSUME Goes(j, "failed") PROVE InstallsInv'
            BY <3>1, <3>2, JobReaches, VenvsStay
        <3>3. ASSUME job' = [job EXCEPT ![j].at = "writing", ![j].entries = Entries(r, env[py])]
              PROVE  InstallsInv'
            <4> DEFINE new == [job[j] EXCEPT !.at = "writing", !.entries = Entries(r, env[py])]
            <4>1. job' = [job EXCEPT ![j] = new] /\ DOMAIN new = DOMAIN Idle
                BY <3>3 DEF InstallsInv, InstallShapes
            <4>2. /\ job'[j].at = "writing" /\ job'[j].entries = Entries(r, env[py])
                  /\ job'[j].runtime = r /\ job'[j].door = job[j].door
                  /\ job'[j].allow = job[j].allow /\ job'[j].stale = job[j].stale
                BY <3>3 DEF InstallsInv, InstallShapes, Idle
            <4>3. JobInv(j)'
                BY <3>1, <4>2 DEF JobInv, UpToDate, InstallsInv
            <4> QED
                BY <3>1, <4>1, <4>3, VenvsStay, JobGoesOn
        <3> QED
            BY <2>5, <3>2, <3>3 DEF StartPip
    <2>6. ASSUME NEW j \in Jobs, Write(j) PROVE InstallsInv'
        <3>1. job[j].at = "writing" /\ UNCHANGED <<venv, scripts>>
              /\ (Overtakes(j, "installed") \/ (Goes(j, "failed") /\ UNCHANGED env))
            BY <2>6 DEF Write
        <3>2. CASE Overtakes(j, "installed")
            BY <3>1, <3>2, JobSpoils, VenvsStay
        <3>3. CASE Goes(j, "failed") /\ UNCHANGED env
            BY <3>1, <3>3, JobReaches, VenvsStay
        <3> QED
            BY <3>1, <3>2, <3>3
    <2>7. ASSUME NEW j \in Jobs, RunScript(j) PROVE InstallsInv'
        <3>1. /\ job[j].at = "installing" /\ UNCHANGED <<env, venv>> /\ scripts \subseteq scripts'
              /\ \E step \in {"installed", "failed"} : Goes(j, step)
            BY <2>7 DEF RunScript
        <3> QED
            BY <3>1, JobReaches, VenvsStay
    <2>8. ASSUME NEW j \in Jobs, LookVenv(j) PROVE InstallsInv'
        <3> DEFINE absent == venv[job[j].runtime].is = "none"
                   new == [job[j] EXCEPT !.made = absent, !.at = IF absent THEN "venv" ELSE "filling"]
        <3>1. job[j].at = "installing" /\ UNCHANGED <<env, venv, scripts>>
              /\ job' = [job EXCEPT ![j] = new] /\ DOMAIN new = DOMAIN Idle
            BY <2>8 DEF LookVenv, World, InstallsInv, InstallShapes
        <3>2. job'[j].at \in {"venv", "filling"} /\ job'[j].runtime = job[j].runtime
            BY <3>1 DEF InstallsInv, InstallShapes, Idle
        <3>3. JobInv(j)'
            BY <3>1, <3>2 DEF JobInv, UpToDate, InstallsInv
        <3> QED
            BY <3>1, <3>3, VenvsStay, JobGoesOn
    <2>9. ASSUME NEW j \in Jobs, MakeVenv(j) PROVE InstallsInv'
        <3> DEFINE r == job[j].runtime
                   made == [is |-> IF venv[r].is = "full" THEN "full" ELSE "empty", by |-> Own[job[j].door]]
        <3>1. job[j].at = "venv" /\ UNCHANGED <<env, scripts>>
            BY <2>9 DEF MakeVenv
        <3>2. PICK found \in {venv[r], made, NoVenv} :
                  /\ venv' = [venv EXCEPT ![r] = found]
                  /\ \/ Overtakes(j, "failed")
                     \/ (Goes(j, "filling") \/ Goes(j, "failed")) /\ found \in {venv[r], made}
            BY <2>9 DEF MakeVenv
        <3>3. \A q \in Isolated : DOMAIN venv[q] = {"is", "by"}
            BY DEF InstallsInv, InstallShapes
        <3>4. (r \in Isolated => DOMAIN found = {"is", "by"}) /\ DOMAIN venv' = Isolated
            BY <3>2, <3>3 DEF InstallsInv, InstallShapes, NoVenv
        <3>5. \A q \in Isolated : DOMAIN venv'[q] = {"is", "by"}
            BY <3>2, <3>3, <3>4
        <3>7. CASE Overtakes(j, "failed")
            BY <3>1, <3>4, <3>5, <3>7, JobSpoils
        <3>8. CASE (Goes(j, "filling") \/ Goes(j, "failed")) /\ found \in {venv[r], made}
            <4>1. \A q \in Isolated : venv[q].is = "full" => venv'[q].is = "full"
                BY <3>2, <3>8 DEF InstallsInv, InstallShapes
            <4> QED
                BY <3>1, <3>4, <3>5, <3>8, <4>1, JobReaches
        <3> QED
            BY <3>2, <3>7, <3>8
    <2>10. ASSUME NEW j \in Jobs, Fill(j) PROVE InstallsInv'
        <3> DEFINE r == job[j].runtime
        <3>1. job[j].at = "filling" /\ UNCHANGED <<env, scripts>>
            BY <2>10 DEF Fill
        <3>2. CASE Goes(j, "installed") /\ venv' = [venv EXCEPT ![r].is = "full"]
            <4>1. /\ DOMAIN venv' = Isolated /\ \A q \in Isolated : DOMAIN venv'[q] = {"is", "by"}
                  /\ \A q \in Isolated : venv[q].is = "full" => venv'[q].is = "full"
                BY <3>2 DEF InstallsInv, InstallShapes
            <4> QED
                BY <3>1, <3>2, <4>1, JobReaches
        <3>3. ASSUME Overtakes(j, "failed"),
                     \/ venv' = [venv EXCEPT ![r] = IF job[j].made THEN NoVenv ELSE @]
                     \/ \E found : venv' = [venv EXCEPT ![r].is = found]
              PROVE  InstallsInv'
            <4>1. DOMAIN venv' = Isolated /\ \A q \in Isolated : DOMAIN venv'[q] = {"is", "by"}
                BY <3>3 DEF InstallsInv, InstallShapes, NoVenv
            <4> QED
                BY <3>1, <3>3, <4>1, JobSpoils
        <3> QED
            BY <2>10, <3>2, <3>3 DEF Fill
    <2>11. ASSUME NEW j \in Jobs, Verify(j) PROVE InstallsInv'
        <3> DEFINE r == job[j].runtime
                   works == Works(r, job[j].door)
                   new == [job[j] EXCEPT !.at = IF works THEN "completed" ELSE "failed", !.stale = FALSE]
        <3>1. job[j].at = "installed" /\ UNCHANGED World
              /\ job' = [job EXCEPT ![j] = new] /\ DOMAIN new = DOMAIN Idle
            BY <2>11 DEF Verify, InstallsInv, InstallShapes
        <3>2. /\ job'[j].at = (IF works THEN "completed" ELSE "failed")
              /\ job'[j].runtime = r /\ job'[j].door = job[j].door
            BY <3>1 DEF InstallsInv, InstallShapes, Idle
        <3>3. works => Works(job[j].runtime, job[j].door)'
            BY <3>1, <3>2 DEF Works, Loads, BelowMinimum, Version, World
        <3>4. JobInv(j)'
            BY <3>1, <3>2, <3>3 DEF JobInv, UpToDate, InstallsInv
        <3> QED
            BY <3>1, <3>4, VenvsStay, JobGoesOn DEF World
    <2> QED
        BY <2>1, <2>2, <2>3, <2>4, <2>5, <2>6, <2>7, <2>8, <2>9, <2>10, <2>11
        DEF InstallsNext, installVars, World, Route
<1> QED
    BY <1>1, <1>2, PTL DEF InstallsSpec

\* A completed install works until another job changes its interpreter or its venv,
\* whatever the other doors install meanwhile.
THEOREM CompletedInstallsWork == InstallsSpec => []CompletedWorks
<1>1. InstallsInv => CompletedWorks
    BY DEF InstallsInv, JobInv, UpToDate, CompletedWorks
<1> QED
    BY <1>1, InstallsInvariant, PTL

\* Without consent a package is lowered only by a job whose resolution another overtook.
THEOREM NoDowngradeIsSilent == InstallsSpec => NoSilentDowngrade
<1> DEFINE Step ==
        \A j \in Jobs :
          (/\ job[j].at = "writing" /\ job'[j].at = "installed" /\ ~job[j].allow
           /\ Lowers(job[j].entries, env[Interpreter(job[j].door)]))
          => job[j].stale
<1>1. InstallsInv /\ [InstallsNext]_installVars => [Step]_installVars
    BY DEF InstallsInv, JobInv, UpToDate
<1> QED
    BY <1>1, InstallsInvariant, PTL DEF InstallsSpec, NoSilentDowngrade
==============================================================================
