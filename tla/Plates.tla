-------------------------------- MODULE Plates --------------------------------
(***************************************************************************)
(* The 4K plate and the master of one video (upscale_4k_api and            *)
(* composite_motionvector_api of api/routes/generate.py).  An upscale      *)
(* writes the plate; a composite writes it too when there is none, and     *)
(* lays an overlay on it.  Every request has a thread of its own, all of   *)
(* them write the same two files, and an ffmpeg that fails or is killed    *)
(* for its time leaves half a media, which its caller is to discard.        *)
(***************************************************************************)
EXTENDS Changes

CONSTANT Renders \* requests for the one video

DocumentOf == [upscale |-> "plate", composite |-> "master"] \* per kind: its document
Outputs == {"plate", "master"}

VARIABLES
    media,  \* per output: "absent", "half" or "whole"
    shows, \* per output: the status its document on disk shows, or "none"
    left,  \* per output: is the file what a death, or two writers at once, have left?
    render \* per request: its kind, its step, the output its ffmpeg has open, whether
           \* another ffmpeg has it open too or has lost it its name, and the plate it read

plateVars == <<media, shows, left, render>>

Unrequested == [kind |-> "none", at |-> "idle", opened |-> "nothing", hold |-> "none",
                input |-> "absent"]

PlatesInit ==
    /\ media = [o \in Outputs |-> "absent"]
    /\ shows = [o \in Outputs |-> "none"]
    /\ left = [o \in Outputs |-> FALSE]
    /\ render = [r \in Renders |-> Unrequested]

Becomes(r, change) == render' = [render EXCEPT ![r] = Changed(@, change)]
Closed(step) == [at |-> step, opened |-> "nothing", hold |-> "none"]
WritersOf(o) == {r \in Renders : render[r].opened = o /\ render[r].hold # "nameless"}
ShowStatus(r, status) == shows' = [shows EXCEPT ![DocumentOf[render[r].kind]] = status]

\* The answer goes out before the task starts.
AskRender(r, kind) ==
    /\ render[r].at = "idle"
    /\ Becomes(r, [kind |-> kind, at |-> IF kind = "upscale" THEN "scale" ELSE "look"])
    /\ UNCHANGED <<media, shows, left>>

\* A plate that is there is taken for a plate.
LookForPlate(r) ==
    /\ render[r].at = "look"
    /\ Becomes(r, [at |-> IF media["plate"] = "absent" THEN "scale" ELSE "overlay"])
    /\ UNCHANGED <<media, shows, left>>

\* ffmpeg -y empties the file that is there, also under another ffmpeg's hands.
Opens(r, o, step) ==
    LET others == WritersOf(o)
        hold == IF others = {} THEN "alone" ELSE "shared"
    IN  /\ media' = [media EXCEPT ![o] = "half"]
        /\ left' = [left EXCEPT ![o] = FALSE]
        /\ render' = [q \in Renders |->
              IF q = r THEN [render[r] EXCEPT !.at = step, !.opened = o, !.hold = hold,
                                              !.input = media["plate"]]
              ELSE IF q \in others THEN [render[q] EXCEPT !.hold = "shared"] ELSE render[q]]
        /\ UNCHANGED shows

\* What was written alone is whole, what two have written may be; of a file without a name
\* nothing stays.
Closes(r, o, step) ==
    /\ Becomes(r, Closed(step))
    /\ CASE render[r].hold = "alone" ->
              media' = [media EXCEPT ![o] = "whole"] /\ left' = [left EXCEPT ![o] = FALSE]
         [] render[r].hold = "shared" ->
              /\ \E end \in {"half", "whole"} : media' = [media EXCEPT ![o] = end]
              /\ left' = [left EXCEPT ![o] = TRUE]
         [] render[r].hold = "nameless" -> UNCHANGED <<media, left>>

\* (mutant) the half that a failed ffmpeg has written stays where it is
LeavePartial(r, o) ==
    /\ Becomes(r, Closed("over"))
    /\ UNCHANGED <<media, left>>

\* Whatever has the name now loses it, another task's file included.
DiscardPartial(r, o) ==
    /\ media' = [media EXCEPT ![o] = "absent"]
    /\ left' = [left EXCEPT ![o] = FALSE]
    /\ render' = [q \in Renders |->
          IF q = r THEN Changed(render[r], Closed("over"))
          ELSE IF render[q].opened = o THEN [render[q] EXCEPT !.hold = "nameless"] ELSE render[q]]

\* An upscale is done with its plate, a composite goes on to the overlay.
Scale(r) == render[r].at = "scale" /\ Opens(r, "plate", "scaling")
Scaled(r) ==
    /\ render[r].at = "scaling"
    /\ \/ IF render[r].kind = "upscale"
          THEN Closes(r, "plate", "over") /\ ShowStatus(r, "completed")
          ELSE Closes(r, "plate", "overlay") /\ UNCHANGED shows
       \/ DiscardPartial(r, "plate") /\ ShowStatus(r, "failed")

\* Half a plate, or none, is no input for ffmpeg; a whole one may still fail it.
Overlay(r) == render[r].at = "overlay" /\ Opens(r, "master", "overlaying")
Overlaid(r) ==
    /\ render[r].at = "overlaying"
    /\ \/ /\ render[r].input = "whole"
          /\ Closes(r, "master", "over") /\ ShowStatus(r, "completed")
       \/ DiscardPartial(r, "master") /\ ShowStatus(r, "failed")

\* Nobody catches an exception: no ffmpeg to run, an overlay that cannot be drawn or saved.
RenderRaises(r) ==
    /\ render[r].at \in {"scale", "overlay"}
    /\ Becomes(r, Closed("over"))
    /\ UNCHANGED <<media, shows, left>>

\* The studio dies; an ffmpeg it leaves behind may finish or die with it.
RendersDie ==
    /\ \E r \in Renders : render[r].at \notin {"idle", "over"}
    /\ \E end \in [Outputs -> {"half", "whole"}] :
          media' = [o \in Outputs |-> IF WritersOf(o) # {} THEN end[o] ELSE media[o]]
    /\ left' = [o \in Outputs |-> left[o] \/ WritersOf(o) # {}]
    /\ render' = [r \in Renders |->
          IF render[r].at = "idle" THEN render[r] ELSE Changed(render[r], Closed("over"))]
    /\ UNCHANGED shows

PlatesNext ==
    \/ \E r \in Renders :
          \/ \E kind \in DOMAIN DocumentOf : AskRender(r, kind)
          \/ LookForPlate(r) \/ Scale(r) \/ Scaled(r) \/ Overlay(r) \/ Overlaid(r) \/ RenderRaises(r)
    \/ RendersDie

(***************************************************************************)
(* Properties                                                              *)
(***************************************************************************)

\* Half a plate is one that is being written, or that two writers or a death have left: a
\* render that failed leaves none for a later composite to take, nor for the library to list.
HalfIsInTheMaking ==
    \A o \in Outputs : media[o] = "half" => left[o] \/ WritersOf(o) # {}
===============================================================================
