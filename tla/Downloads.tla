------------------------------ MODULE Downloads ------------------------------
(***************************************************************************)
(* Fetching a recipe's weights and finding them again                      *)
(* (services/model_catalog.py, paths.py, routes/recipes.py).  One process  *)
(* keeps one job per recipe under the recipe's id; its tasks look the job  *)
(* up by that id, twice.  The cache outlives the process, and fills file   *)
(* by file under one snapshot per revision.                                *)
(***************************************************************************)
EXTENDS Naturals, FiniteSets

CONSTANTS
    Recipes,   \* all of one repository
    Patterns,  \* per recipe: its allow_patterns, each the set of files it matches
    Pin,       \* per recipe: the revision it pins, or Unpinned
    Revisions, Unpinned,
    Tasks,     \* as many downloads as a behaviour may ask for
    NoDownload

ASSUME DownloadsAssumption ==
    /\ \A r \in Recipes : Pin[r] \in Revisions \cup {Unpinned} /\ Patterns[r] # {}
    /\ Tasks \subseteq Nat /\ NoDownload \notin Tasks

VARIABLES
    head,   \* the revision the hub's default branch points at
    main,   \* the revision the cache remembers for it, or Unpinned
    cache,  \* per revision, the files of its snapshot that are whole; other revisions: none
    shown,   \* per recipe, the job everybody sees, named after the task that came with it
    download,    \* per job: its status and the snapshot it names
    task    \* per task: its step, recipe, the job it took, the job its thread took, revision

downloadVars == <<head, main, cache, shown, download, task>>

Wanted(r) == UNION Patterns[r]

\* concrete_snapshot_files: every pattern matches something, or there is nothing.
Concrete(r, revision) ==
    IF \A p \in Patterns[r] : p \cap cache[revision] # {}
    THEN Wanted(r) \cap cache[revision] ELSE {}

\* resolve: from the cache alone, at the pin or at what the cache remembers.
LocalRevision(r) == IF Pin[r] = Unpinned THEN main ELSE Pin[r]
Resolve(r) == IF LocalRevision(r) = Unpinned THEN {} ELSE Concrete(r, LocalRevision(r))

Unasked == [at |-> "unasked", recipe |-> NoDownload, job |-> NoDownload, writes |-> NoDownload,
            revision |-> Unpinned]
Pending == [status |-> "pending", path |-> Unpinned]

DownloadsInit ==
    /\ head \in Revisions
    /\ main = Unpinned
    /\ cache = [v \in Revisions |-> {}]
    /\ shown = [r \in Recipes |-> NoDownload]
    /\ download = [t \in Tasks |-> Pending]
    /\ task = [t \in Tasks |-> Unasked]

Hub == <<head, main, cache>>
Reaches(t, step) == task' = [task EXCEPT ![t].at = step]

\* download_recipe: a new job takes the place of the one before, whatever that does.
\* Downloads are numbered in the order they are asked for.
AskDownload(t, r) ==
    /\ task[t].at = "unasked" /\ \A u \in Tasks : u < t => task[u].at # "unasked"
    /\ shown' = [shown EXCEPT ![r] = t]
    /\ task' = [task EXCEPT ![t].at = "created", ![t].recipe = r]
    /\ UNCHANGED <<Hub, download>>

\* _download_task takes the job that is there by now, which may be a later one.
BeginDownload(t) ==
    LET j == shown[task[t].recipe]
    IN  /\ task[t].at = "created"
        /\ task' = [task EXCEPT ![t].at = "sizing", ![t].job = j]
        /\ download' = [download EXCEPT ![j].status = "downloading"]
        /\ UNCHANGED <<Hub, shown>>

\* _run_download looks the job up once more.  The hub names the revision, and the cache
\* remembers it before a single file is there; without the hub the cache answers alone.
StartThread(t) ==
    LET r == task[t].recipe
        asked == IF Pin[r] = Unpinned THEN head ELSE Pin[r]
    IN  /\ task[t].at = "sizing"
        /\ \/ /\ task' = [task EXCEPT ![t].at = "fetching", ![t].writes = shown[r],
                                      ![t].revision = asked]
              /\ main' = IF Pin[r] = Unpinned THEN asked ELSE main
           \/ /\ LocalRevision(r) # Unpinned /\ cache[LocalRevision(r)] # {}
              /\ task' = [task EXCEPT ![t].at = "fetched", ![t].writes = shown[r],
                                      ![t].revision = LocalRevision(r)]
              /\ UNCHANGED main
        /\ UNCHANGED <<head, cache, shown, download>>

\* snapshot_download: files become whole one by one.
FetchFile(t) ==
    LET missing == Wanted(task[t].recipe) \ cache[task[t].revision]
    IN  /\ task[t].at = "fetching"
        /\ IF missing = {} THEN Reaches(t, "fetched") /\ UNCHANGED cache
           ELSE /\ \E f \in missing : cache' = [cache EXCEPT ![task[t].revision] = @ \cup {f}]
                /\ UNCHANGED task
        /\ UNCHANGED <<head, main, shown, download>>

\* (mutant) whatever the hub's library returns is a download.
TrustSnapshot(t) ==
    /\ task[t].at = "fetched"
    /\ download' = [download EXCEPT ![task[t].writes].path = task[t].revision]
    /\ Reaches(t, "resolved")
    /\ UNCHANGED <<Hub, shown>>

\* The files must be there by their patterns before the job names them.
CheckFiles(t) ==
    /\ task[t].at = "fetched"
    /\ IF Concrete(task[t].recipe, task[t].revision) = {}
       THEN Reaches(t, "raised") /\ UNCHANGED download
       ELSE /\ download' = [download EXCEPT ![task[t].writes].path = task[t].revision]
            /\ Reaches(t, "resolved")
    /\ UNCHANGED <<Hub, shown>>

\* The network, the disk and the hub may refuse at any file.
RaiseDownload(t) ==
    /\ task[t].at \in {"sizing", "fetching"}
    /\ Reaches(t, "raised")
    /\ UNCHANGED <<Hub, shown, download>>

\* The task ends the job it took itself.
EndDownload(t) ==
    /\ task[t].at \in {"resolved", "raised"}
    /\ download' = [download EXCEPT ![task[t].job].status =
                  IF task[t].at = "resolved" THEN "completed" ELSE "failed"]
    /\ Reaches(t, "ended")
    /\ UNCHANGED <<Hub, shown>>

HeadMoves ==
    /\ \E v \in Revisions : v # head /\ head' = v
    /\ UNCHANGED <<main, cache, shown, download, task>>

\* The process dies with its jobs; what is in the cache stays.
Restart ==
    /\ \E r \in Recipes : shown[r] # NoDownload
    /\ shown' = [r \in Recipes |-> NoDownload]
    /\ task' = [t \in Tasks |-> IF task[t].at = "unasked" THEN Unasked ELSE [Unasked EXCEPT !.at = "ended"]]
    /\ download' = [t \in Tasks |-> Pending]
    /\ UNCHANGED Hub

DownloadsNext ==
    \/ \E t \in Tasks :
          \/ \E r \in Recipes : AskDownload(t, r)
          \/ BeginDownload(t) \/ StartThread(t) \/ FetchFile(t) \/ CheckFiles(t) \/ RaiseDownload(t) \/ EndDownload(t)
    \/ HeadMoves \/ Restart

-----------------------------------------------------------------------------
\* A job that is shown as completed names a snapshot that holds something for every
\* pattern of the recipe, at the pinned revision when there is one: whichever tasks wrote
\* to it, and although a thread may write to another job than its task ends
\* (_run_download and _download_task look the job up separately).
CompletedIsThere ==
    \A r \in Recipes :
        LET j == shown[r]
        IN  (j # NoDownload /\ download[j].status = "completed") =>
                /\ download[j].path \in {Pin[r]} \cup (IF Pin[r] = Unpinned THEN Revisions ELSE {})
                /\ Concrete(r, download[j].path) # {}
=============================================================================
