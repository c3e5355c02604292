------------------------------ MODULE AudioJobs ------------------------------
(***************************************************************************)
(* The studio's audio jobs (api/routes/audio.py, services/audio.py,        *)
(* core/utils.py): music and voice render a raw file and normalise it, a   *)
(* ducked mix reads the output of other jobs, a local synthesis renders    *)
(* inside the request.  A job's document on disk says what became of it;   *)
(* the asset library (routes/assets.py) shows what has a video.            *)
(***************************************************************************)
EXTENDS Naturals, FiniteSets

CONSTANTS Tracks, NoTrack, Videos

ASSUME AudioJobsAssumption == NoTrack \notin Tracks /\ Videos \subseteq BOOLEAN

Kinds == {"music", "voice", "mix", "local"}

VARIABLES
    stage,     \* per job: its step; "idle" before it is asked for, "over" at its end
    what,   \* per job: its kind, the jobs it mixes, whether a video was named, and, for a
            \* mix, whether the files it opened were whole and their jobs completed when asked
    meta,   \* per job: the status its document on disk shows, or "none"
    raw, out, video \* per job: is the file absent, half-written or whole?

audioVars == <<stage, what, meta, raw, out, video>>

Untitled == [kind |-> "none", voice |-> NoTrack, bed |-> NoTrack, film |-> FALSE,
            sound |-> TRUE, settled |-> FALSE]

AudioInit ==
    /\ stage = [j \in Tracks |-> "idle"]
    /\ what = [j \in Tracks |-> Untitled]
    /\ meta = [j \in Tracks |-> "none"]
    /\ raw = [j \in Tracks |-> "absent"]
    /\ out = [j \in Tracks |-> "absent"]
    /\ video = [j \in Tracks |-> "absent"]

Files == <<raw, out, video>>
Steps(j, step) == stage' = [stage EXCEPT ![j] = step]
Says(j, status) == meta' = [meta EXCEPT ![j] = status]
Track(j) == out[j] # "absent"

\* A request writes its document before it answers; the work starts after the answer.  A
\* mix needs a file of its voice to be there now, and takes its bed only if there is one.
AskTrack(j, kind) ==
    /\ stage[j] = "idle" /\ kind # "local"
    /\ IF kind = "mix"
       THEN \E v \in Tracks \ {j}, b \in (Tracks \ {j}) \cup {NoTrack}, f \in Videos :
               /\ Track(v)
               /\ what' = [what EXCEPT ![j] = [Untitled EXCEPT
                     !.kind = kind, !.voice = v, !.film = f,
                     !.bed = IF b # NoTrack /\ Track(b) THEN b ELSE NoTrack,
                     !.settled = meta[v] = "completed" /\ (b # NoTrack /\ Track(b) => meta[b] = "completed")]]
       ELSE what' = [what EXCEPT ![j] = [Untitled EXCEPT !.kind = kind]]
    /\ Says(j, "queued") /\ Steps(j, "queued")
    /\ UNCHANGED Files

\* synthesize-local has no document until it is done.
AskLocal(j) ==
    /\ stage[j] = "idle"
    /\ what' = [what EXCEPT ![j] = [Untitled EXCEPT !.kind = "local"]]
    /\ out' = [out EXCEPT ![j] = "half"]
    /\ Steps(j, "local")
    /\ UNCHANGED <<meta, raw, video>>

StartTrack(j) ==
    /\ stage[j] = "queued"
    /\ Says(j, "running")
    /\ IF what[j].kind = "mix" THEN Steps(j, "bed") /\ UNCHANGED raw
       ELSE Steps(j, "rendering") /\ raw' = [raw EXCEPT ![j] = "half"]
    /\ UNCHANGED <<what, out, video>>

\* The backend's bytes, and then ffmpeg; a backend that raises leaves no raw file.
Render(j) ==
    /\ stage[j] = "rendering"
    /\ \/ /\ raw' = [raw EXCEPT ![j] = "whole"]
          /\ out' = [out EXCEPT ![j] = "half"]
          /\ Steps(j, "normalising")
          /\ UNCHANGED meta
       \/ /\ raw' = [raw EXCEPT ![j] = "absent"]
          /\ Says(j, "failed") /\ Steps(j, "over")
          /\ UNCHANGED out
    /\ UNCHANGED <<what, video>>

\* (mutant) the document says completed before ffmpeg's answer is looked at.
NormalisedAnyway(j, rawLeft) ==
    /\ \E end \in {"whole", "half"} : out' = [out EXCEPT ![j] = end]
    /\ raw' = [raw EXCEPT ![j] = rawLeft]
    /\ Says(j, "completed") /\ Steps(j, "over")
    /\ UNCHANGED <<what, video>>

\* An exit code or a timeout decides; what is half-written goes.
Normalised(j, rawLeft) ==
    /\ \/ out' = [out EXCEPT ![j] = "whole"] /\ Says(j, "completed")
       \/ out' = [out EXCEPT ![j] = "absent"] /\ Says(j, "failed")
    /\ raw' = [raw EXCEPT ![j] = rawLeft]
    /\ Steps(j, "over")
    /\ UNCHANGED <<what, video>>

\* Music is measured and brought to its loudness, and keeps its raw file.
LoudnormTwoPass(j) ==
    stage[j] = "normalising" /\ what[j].kind = "music" /\ Normalised(j, "whole")
\* Voice is brought to its peak; its raw file goes either way.
PeakNormalize(j) ==
    stage[j] = "normalising" /\ what[j].kind = "voice" /\ Normalised(j, "absent")

\* A bed that is there is used, else noise or silence is rendered; ffmpeg opens its inputs.
Bed(j) ==
    LET bed == what[j].bed  voice == what[j].voice
    IN  /\ stage[j] = "bed"
        /\ out' = [out EXCEPT ![j] = "half"]
        /\ what' = [what EXCEPT ![j].sound =
                /\ out[voice] = "whole"
                /\ bed # NoTrack /\ Track(bed) => out[bed] = "whole"]
        /\ Steps(j, IF Track(voice) THEN "mixing" ELSE "broken")
        /\ UNCHANGED <<meta, raw, video>>

\* The mix or an error; a video is muxed before the document says completed, and how that
\* went is not in it.
Mix(j) ==
    /\ stage[j] \in {"mixing", "broken"}
    /\ \/ /\ stage[j] = "mixing"
          /\ out' = [out EXCEPT ![j] = "whole"]
          /\ IF what[j].film
             THEN /\ video' = [video EXCEPT ![j] = "half"]
                  /\ Steps(j, "muxing") /\ UNCHANGED meta
             ELSE Says(j, "completed") /\ Steps(j, "over") /\ UNCHANGED video
       \/ /\ out' = [out EXCEPT ![j] = "absent"]
          /\ Says(j, "failed") /\ Steps(j, "over")
          /\ UNCHANGED video
    /\ UNCHANGED <<what, raw>>

Mux(j) ==
    /\ stage[j] = "muxing"
    /\ \E end \in {"whole", "half", "absent"} : video' = [video EXCEPT ![j] = end]
    /\ Says(j, "completed") /\ Steps(j, "over")
    /\ UNCHANGED <<what, raw, out>>

\* The local driver wrote its file, or raised over what it had written.
Synthesised(j) ==
    /\ stage[j] = "local"
    /\ \/ out' = [out EXCEPT ![j] = "whole"] /\ Says(j, "completed")
       \/ \E left \in {"half", "absent"} : out' = [out EXCEPT ![j] = left] /\ UNCHANGED meta
    /\ Steps(j, "over")
    /\ UNCHANGED <<what, raw, video>>

\* The process dies, or an exception nobody catches ends one job: no ffmpeg to run, a disk
\* that is full.  The document goes on saying what it said.
Dies(j) == stage[j] \notin {"idle", "over"}
Throw(j) ==
    /\ stage[j] \in {"normalising", "bed", "mixing", "muxing"}
    /\ Steps(j, "over")
    /\ UNCHANGED <<what, meta, Files>>
StudioDies ==
    /\ \E j \in Tracks : Dies(j)
    /\ stage' = [j \in Tracks |-> IF Dies(j) THEN "over" ELSE stage[j]]
    /\ UNCHANGED <<what, meta, Files>>

AudioNext ==
    \/ \E j \in Tracks :
          \/ \E kind \in Kinds : AskTrack(j, kind)
          \/ AskLocal(j) \/ StartTrack(j) \/ Render(j)
          \/ LoudnormTwoPass(j) \/ PeakNormalize(j) \/ Bed(j) \/ Mix(j) \/ Mux(j)
          \/ Synthesised(j) \/ Throw(j)
    \/ StudioDies

-----------------------------------------------------------------------------
\* What a document calls completed is whole, and a mix of tracks that were completed when
\* it was asked for is made of whole files: only the mix of an unfinished job, whose file
\* mix-ducked finds already there, may hold half a voice.
CompletedTrackIsWhole ==
    \A j \in Tracks :
        meta[j] = "completed" => out[j] = "whole" /\ (what[j].settled => what[j].sound)
=============================================================================
