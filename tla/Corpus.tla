------------------------------- MODULE Corpus -------------------------------
(***************************************************************************)
(* What spacepilot/measurements.py writes and reads.  A corpus is a set of *)
(* records, one file each: a file is named by its second and the digest of *)
(* its body, so two equal bodies of one second are one file.  A file whose *)
(* writer died between open and write is Torn.                             *)
(***************************************************************************)
EXTENDS Naturals, FiniteSets, FiniteSetsExt

CONSTANTS
    ModelOf,   \* registry variants, each with the model it belongs to
    Pin,       \* registry variants, each with the revision pinned or NoRevision
    Truncated, \* names that a registry variant's name extends by "-..."
    NoRevision, Torn

Variants == DOMAIN ModelOf

ASSUME CorpusAssumption ==
    /\ DOMAIN Pin = Variants
    /\ (Truncated \cup {ModelOf[v] : v \in Variants}) \cap {NoRevision, Torn} = {}

\* The process and what it spawned, the generation among them: never a competitor.
OwnTree == {"self", "child"}

\* What the other processes of the busy ones use; each stands for a load above the threshold.
ExternalCpu(busy) == Cardinality(busy \ OwnTree)

SampleContention(readable, busy) ==
    IF ~readable THEN "unknown" ELSE IF ExternalCpu(busy) = 0 THEN "solo" ELSE "loaded"

\* A subject is a registry variant or wholly unknown; a model's name or a cut one is refused.
Refused(subject) ==
    /\ subject \notin Variants
    /\ subject \in Truncated \cup {ModelOf[v] : v \in Variants}

\* The bytes that ran decide; the registry's pin answers only for a run that did not say.
RevisionFor(subject, resolved) ==
    IF resolved # "unset" THEN resolved
    ELSE IF subject \in Variants THEN Pin[subject] ELSE NoRevision

\* The body record writes; knobs tell the cell of a grid, at the second and the run.
Body(subject, metric, status, contention, resolved, knobs, at) ==
    [subject |-> subject, metric |-> metric, status |-> status, contention |-> contention,
     revision |-> RevisionFor(subject, resolved), knobs |-> knobs, at |-> at]

\* Both trees are read file by file, and the first that does not parse raises.
Loads(corpus) == Torn \notin corpus

\* Two streams, failures in neither.
Rows(corpus, subject, metric) ==
    {r \in corpus \ {Torn} : r.subject = subject /\ r.metric = metric}
Summarise(corpus, subject, metric) ==
    LET ok == {r \in Rows(corpus, subject, metric) : r.status = "ok"}
    IN  [solo     |-> {r \in ok : r.contention = "solo"},
         observed |-> ok,
         failed   |-> Rows(corpus, subject, metric) \ ok]
=============================================================================
