----------------------------- MODULE LocalWorkers -----------------------------
(***************************************************************************)
(* The in-process drivers that audio and storyboard requests share         *)
(* (spacepilot/local_workers.py, drivers/base.py, gguf_driver.py and       *)
(* kokoro_driver.py).  The manager keeps the drivers it counts in a table  *)
(* and in the order of their last use; a request takes a driver under the  *)
(* lock and runs it after giving the lock back, when somebody else may     *)
(* already have evicted it.                                                *)
(***************************************************************************)
EXTENDS Integers, FiniteSetsExt, SequencesExt

CONSTANTS
    Drivers,     \* the ids of the registry, aliases included
    Size,        \* what each takes, in the unit of the budget
    Sessions,    \* drivers that keep a session of their own (GGUF)
    NeedsGpu,    \* drivers that cannot run without an accelerator
    Accelerator, \* is there one?
    Budgets,     \* what _accelerator_budget_gb or a caller may set
    Unlimited,   \* the budget of a machine nobody could measure
    Requests, Nothing,
    Copies       \* bound: objects of one driver at a time, enough for one that nobody uses

ASSUME LocalWorkersAssumption ==
    /\ IsFiniteSet(Drivers) /\ IsFiniteSet(Requests)
    /\ Sessions \cup NeedsGpu \subseteq Drivers
    /\ \A d \in Drivers : Size[d] \in Nat
    /\ Unlimited \notin Int /\ Budgets \subseteq Nat \cup {Unlimited}
    /\ Accelerator \in BOOLEAN
    /\ Copies \in Nat /\ Copies > Cardinality(Requests) /\ Nothing \notin Drivers \X (1 .. Copies)

VARIABLES
    loaded,  \* per driver object: are its weights in memory (spec.is_loaded, _llm)?
    active,  \* _active_drivers: per id, its object or Nothing
    order,   \* _access_order, least recently used first
    budget,  \* _max_vram_gb
    request  \* per request: its step, its driver's id and its object

workerVars == <<loaded, active, order, budget, request>>

Free == [at |-> "free", id |-> Nothing, object |-> Nothing]
Objects == Drivers \X (1 .. Copies)
Using(o) == {q \in Requests : request[q].object = o}
Fresh(d) == CHOOSE o \in {d} \X (1 .. Copies) : Using(o) = {}

InMemory(d) == active[d] # Nothing /\ loaded[active[d]]
Resident(ids) == MapThenSumSet(LAMBDA d : Size[d], ids)
ResidentIds == {d \in Drivers : InMemory(d)}

LocalWorkersInit ==
    /\ loaded = [o \in Objects |-> FALSE]
    /\ active = [d \in Drivers |-> Nothing]
    /\ order = <<>>
    /\ budget \in Budgets
    /\ request = [q \in Requests |-> Free]

\* list.remove, guarded by membership.
Without(ids, d) ==
    IF d \in ToSet(ids) THEN RemoveAt(ids, CHOOSE i \in 1 .. Len(ids) : ids[i] = d) ELSE ids

\* (mutant) a driver used again leaves the order.
UsedOnce(ids, d) == Without(ids, d)

Used(ids, d) == Append(Without(ids, d), d)

\* Eviction takes the least recently used until the newcomer fits or nobody is left.
Popped(d) ==
    LET Fits(n) == Resident(ResidentIds \ ToSet(SubSeq(order, 1, n))) + Size[d] <= budget
    IN  IF budget = Unlimited THEN 0
        ELSE Min({n \in 0 .. Len(order) : Fits(n) \/ n = Len(order)})
Evicted(d) == ToSet(SubSeq(order, 1, Popped(d)))

Refused(d) ==
    \/ d \in NeedsGpu /\ ~Accelerator
    \/ budget # Unlimited /\ Size[d] > budget

Takes(q, d, o) == request' = [request EXCEPT ![q] = [at |-> "taken", id |-> d, object |-> o]]
Raises(q) == request' = [request EXCEPT ![q] = [Free EXCEPT !.at = "failed"]]

\* load_driver of a driver that is in memory: it only becomes the last used.
Hit(q, d) ==
    /\ request[q].at = "free" /\ InMemory(d)
    /\ order' = Used(order, d)
    /\ Takes(q, d, active[d])
    /\ UNCHANGED <<loaded, active, budget>>

\* A refused driver, and one that fails to load, stays in the table, out of the order.
Refuse(q, d) ==
    /\ request[q].at = "free" /\ ~InMemory(d) /\ Refused(d)
    /\ active' = [active EXCEPT ![d] = IF @ = Nothing THEN Fresh(d) ELSE @]
    /\ Raises(q)
    /\ UNCHANGED <<loaded, order, budget>>

\* The whole of load_driver for one that fits: everything under the manager's lock.
Load(q, d) ==
    LET o == IF active[d] = Nothing THEN Fresh(d) ELSE active[d]
        held == [active EXCEPT ![d] = o]
        gone == Evicted(d)
        kept == [x \in Objects |-> loaded[x] /\ \A e \in gone : held[e] # x]
        rest == SubSeq(order, Popped(d) + 1, Len(order))
    IN  /\ request[q].at = "free" /\ ~InMemory(d) /\ ~Refused(d)
        /\ active' = [e \in Drivers |-> IF e \in gone THEN Nothing ELSE held[e]]
        /\ \/ /\ loaded' = [kept EXCEPT ![o] = TRUE]
              /\ order' = Used(rest, d)
              /\ Takes(q, d, o)
           \/ /\ loaded' = [kept EXCEPT ![o] = FALSE]
              /\ order' = rest
              /\ Raises(q)
        /\ UNCHANGED budget

\* infer, without the lock: a driver evicted meanwhile loads itself again, and nobody
\* counts it.
Infer(q) ==
    LET o == request[q].object
    IN  /\ request[q].at = "taken"
        /\ \/ /\ loaded' = [loaded EXCEPT ![o] = TRUE]
              /\ request' = [request EXCEPT ![q].at = "ready"]
           \/ /\ ~loaded[o]
              /\ Raises(q)
              /\ UNCHANGED loaded
        /\ UNCHANGED <<active, order, budget>>

\* A driver with a session of its own needs it still to be there.
Generate(q) ==
    LET r == request[q]
    IN  /\ r.at = "ready"
        /\ IF r.id \in Sessions /\ ~loaded[r.object] THEN Raises(q)
           ELSE request' = [request EXCEPT ![q].at = "running"]
        /\ UNCHANGED <<loaded, active, order, budget>>

\* The answer or an exception; an object in no table goes with its last user.
Finish(q) ==
    LET o == request[q].object
        dropped == (\A d \in Drivers : active[d] # o) /\ Using(o) = {q}
    IN  /\ request[q].at = "running"
        /\ loaded' = [loaded EXCEPT ![o] = @ /\ ~dropped]
        /\ request' = [request EXCEPT ![q] = Free]
        /\ UNCHANGED <<active, order, budget>>

Again(q) ==
    /\ request[q].at = "failed"
    /\ request' = [request EXCEPT ![q] = Free]
    /\ UNCHANGED <<loaded, active, order, budget>>

\* (mutant) unload_driver forgets the driver without unloading it.
Forget(d) ==
    /\ active[d] # Nothing
    /\ active' = [active EXCEPT ![d] = Nothing]
    /\ order' = Without(order, d)
    /\ UNCHANGED <<loaded, budget, request>>

Unload(d) ==
    /\ active[d] # Nothing
    /\ loaded' = [loaded EXCEPT ![active[d]] = FALSE]
    /\ active' = [active EXCEPT ![d] = Nothing]
    /\ order' = Without(order, d)
    /\ UNCHANGED <<budget, request>>

UnloadAll ==
    /\ \E d \in Drivers : active[d] # Nothing
    /\ loaded' = [o \in Objects |-> loaded[o] /\ \A d \in Drivers : active[d] # o]
    /\ active' = [d \in Drivers |-> Nothing]
    /\ order' = <<>>
    /\ UNCHANGED <<budget, request>>

SetBudget(b) ==
    /\ b # budget
    /\ budget' = b
    /\ UNCHANGED <<loaded, active, order, request>>

LocalWorkersNext ==
    \/ \E q \in Requests :
          \/ \E d \in Drivers : Hit(q, d) \/ Refuse(q, d) \/ Load(q, d)
          \/ Infer(q) \/ Generate(q) \/ Finish(q) \/ Again(q)
    \/ \E d \in Drivers : Unload(d)
    \/ UnloadAll
    \/ \E b \in Budgets : SetBudget(b)

-----------------------------------------------------------------------------
\* A driver that is loaded fits the budget together with all that are counted: eviction
\* walks the order of use while the sum walks the table (load_driver,
\* _evict_for_headroom), so it holds only while the two name the same drivers.
LoadFits ==
    [][\A d \in Drivers :
          ~InMemory(d) /\ InMemory(d)' /\ budget # Unlimited
          => Resident(ResidentIds') <= budget]_workerVars

\* Weights outside the table belong to a request that still runs on them: what the
\* budget does not count goes away with its requests (dispatch after the lock).
UncountedIsInUse ==
    \A o \in Objects :
        loaded[o] => \/ \E d \in Drivers : active[d] = o
                     \/ Using(o) # {}
=============================================================================
