------------------------------- MODULE Orders -------------------------------
(***************************************************************************)
(* Signed single-author fleet membership (ORDERS) across machines:         *)
(* daemon/orders.py behind the fleet controls of daemon/runtime.py.        *)
(*                                                                         *)
(* Every machine keeps one fleet.yaml.  `init`, `add` and `join` reach it  *)
(* under the runtime's mutation lock, but what `add` and `join` act on was *)
(* fetched from a peer before the lock was taken, so it may be stale by    *)
(* then: `described` and `held` are those documents in hand.  The file is  *)
(* replaced by a rename, so a crash leaves the old or the new document     *)
(* and loses only what was in hand.  Ed25519 is taken as perfect: a        *)
(* document exists only if its author signed it.                           *)
(***************************************************************************)
EXTENDS Naturals, FiniteSets

CONSTANTS
    Machines,    \* a machine, and its Tailscale stable node ID
    Keys,        \* Ed25519 identities, by key_id
    FirstKey,    \* the identity each machine starts with
    Fleets,      \* fleet UUIDs
    Names,       \* ship names
    Rates,       \* provider-rate lists
    NoRates,     \* the empty list, which `init` writes
    MaxVersion,  \* the largest version a document can carry (2^63 - 1 in the code)
    MaxInHand,   \* bound: requests in hand over all machines
    NoOrders     \* what load() returns when there is no fleet.yaml

ASSUME OrdersAssumption ==
    /\ FirstKey \in [Machines -> Keys]
    /\ \A m, n \in Machines : FirstKey[m] = FirstKey[n] => m = n
    /\ NoRates \in Rates
    /\ MaxVersion \in Nat \ {0}
    /\ MaxInHand \in Nat
    /\ NoOrders \notin [fleet : Fleets, version : 1..MaxVersion, author : Keys,
                       members : SUBSET [key : Keys, node : Machines, name : Names],
                       rates : Rates]

VARIABLES
    key,        \* the identity of each machine
    usedKeys,   \* every identity ever created
    file,       \* fleet.yaml of each machine
    described,  \* self-descriptions fetched for `add`, not yet applied
    held,       \* documents fetched for `join`, with the pinned author key
    published   \* history: every document ever signed and written

vars == <<key, usedKeys, file, described, held, published>>

Member == [key : Keys, node : Machines, name : Names]

Document == [fleet : Fleets, version : 1..MaxVersion, author : Keys,
             members : SUBSET Member, rates : Rates]

(***************************************************************************)
(* Pure document operations                                                *)
(***************************************************************************)

\* (mutant) an addition that checks the key and forgets the node
ClashesKeyOnly(d, c) == \E x \in d.members : x # c /\ x.key = c.key

\* A member binds one key to one node under one name, for good.
Clashes(d, c) == \E x \in d.members : x # c /\ (x.key = c.key \/ x.node = c.node)

Enrolled(d, k, node) == \E x \in d.members : x.key = k /\ x.node = node

InitOrders(k, node, name, f) ==
    [fleet |-> f, version |-> 1, author |-> k, rates |-> NoRates,
     members |-> {[key |-> k, node |-> node, name |-> name]}]

AddMember(d, c) ==
    IF c \in d.members THEN d
    ELSE [d EXCEPT !.version = @ + 1, !.members = @ \cup {c}]

SetProviderRates(d, r) ==
    IF r = d.rates THEN d ELSE [d EXCEPT !.version = @ + 1, !.rates = r]

\* (mutant) no rollback check
ValidTransitionAnyVersion(cur, cand) ==
    /\ cand.fleet = cur.fleet
    /\ cand.author = cur.author
    /\ cand.version = cur.version => cand = cur

\* (mutant) the author is checked, the fleet is not
ValidTransitionAnyFleet(cur, cand) ==
    /\ cand.author = cur.author
    /\ cand.version >= cur.version
    /\ cand.version = cur.version => cand = cur

\* validate_transition: may a machine holding `cur` accept `cand`?
ValidTransition(cur, cand) ==
    /\ cand.fleet = cur.fleet
    /\ cand.author = cur.author
    /\ cand.version >= cur.version
    /\ cand.version = cur.version => cand = cur

\* apply: the first document needs the pin, a later one a valid transition.
Admissible(cur, cand, pin) ==
    IF cur = NoOrders THEN cand.author = pin ELSE ValidTransition(cur, cand)

\* join_orders: pinned author, and this very identity enrolled at this node.
MayJoin(m, h) ==
    /\ h.orders.author = h.pin
    /\ Enrolled(h.orders, key[m], m)
    /\ Admissible(file[m], h.orders, h.pin)

(***************************************************************************)
(* The fleet controls                                                      *)
(***************************************************************************)

Init ==
    /\ key = FirstKey
    /\ usedKeys = {FirstKey[m] : m \in Machines}
    /\ file = [m \in Machines |-> NoOrders]
    /\ described = [m \in Machines |-> {}]
    /\ held = [m \in Machines |-> {}]
    /\ published = {}

\* Sign a revision and replace fleet.yaml with it, under the mutation lock.
Write(m, d) ==
    /\ file' = [file EXCEPT ![m] = d]
    /\ published' = published \cup {d}

InHand ==
    Cardinality(UNION {{m} \X described[m] : m \in Machines})
    + Cardinality(UNION {{m} \X held[m] : m \in Machines})

\* (mutant) a fleet identifier that is not fresh
FleetInitReused(m, name) ==
    /\ file[m] = NoOrders
    /\ \E f \in Fleets : Write(m, InitOrders(key[m], m, name, f))
    /\ UNCHANGED <<key, usedKeys, described, held>>

\* FleetRuntime.init: refused when a fleet.yaml exists; the UUID is fresh.
FleetInit(m, name) ==
    /\ file[m] = NoOrders
    /\ \E f \in Fleets \ {d.fleet : d \in published} :
           Write(m, InitOrders(key[m], m, name, f))
    /\ UNCHANGED <<key, usedKeys, described, held>>

\* FleetRuntime.add, before the lock: fetch the peer's signed self-description.
Describe(m, peer, name) ==
    /\ peer # m
    /\ InHand < MaxInHand
    /\ described' = [described EXCEPT
           ![m] = @ \cup {[key |-> key[peer], node |-> peer, name |-> name]}]
    /\ UNCHANGED <<key, usedKeys, file, held, published>>

\* Only the author revises; the version must still fit the document, and apply
\* checks the revision like any other candidate.
MayRevise(m, d) ==
    /\ file[m].author = key[m]
    /\ d.version <= MaxVersion
    /\ ValidTransition(file[m], d)

MayAdd(m, c) ==
    /\ file[m] # NoOrders
    /\ ~Clashes(file[m], c)
    /\ MayRevise(m, AddMember(file[m], c))

\* FleetRuntime.add, under the lock: add_member and apply in one critical section.
Add(m, c) ==
    /\ c \in described[m]
    /\ MayAdd(m, c)
    /\ Write(m, AddMember(file[m], c))
    /\ described' = [described EXCEPT ![m] = @ \ {c}]
    /\ UNCHANGED <<key, usedKeys, held>>

AddRefused(m, c) ==
    /\ c \in described[m]
    /\ ~MayAdd(m, c)
    /\ described' = [described EXCEPT ![m] = @ \ {c}]
    /\ UNCHANGED <<key, usedKeys, file, held, published>>

\* set_provider_rates, then apply: the author revises the declared rates.
PublishRates(m, r) ==
    /\ file[m] # NoOrders
    /\ MayRevise(m, SetProviderRates(file[m], r))
    /\ Write(m, SetProviderRates(file[m], r))
    /\ UNCHANGED <<key, usedKeys, described, held>>

\* (mutant) the pin is taken from the served document instead of the peer's key
FetchUnpinned(m, peer) ==
    /\ peer # m
    /\ file[peer] # NoOrders
    /\ Enrolled(file[peer], key[m], m)
    /\ InHand < MaxInHand
    /\ held' = [held EXCEPT
           ![m] = @ \cup {[pin |-> file[peer].author, orders |-> file[peer]]}]
    /\ UNCHANGED <<key, usedKeys, file, described, published>>

\* FleetRuntime.join, before the lock: GET /v1/self shows the pinned key, then
\* an authenticated GET /v1/orders, which a peer answers only for a member of
\* its own current document at that node.  One step: a peer that changes its
\* key between the two answers has lost its fleet.yaml, and no document by the
\* lost key comes back to it, so that JoinRefused is all that could follow.
Fetch(m, peer) ==
    /\ peer # m
    /\ file[peer] # NoOrders
    /\ Enrolled(file[peer], key[m], m)
    /\ InHand < MaxInHand
    /\ held' = [held EXCEPT ![m] = @ \cup {[pin |-> key[peer], orders |-> file[peer]]}]
    /\ UNCHANGED <<key, usedKeys, file, described, published>>

\* FleetRuntime.join, under the lock: join_orders and apply.
Join(m, h) ==
    /\ h \in held[m]
    /\ MayJoin(m, h)
    /\ file' = [file EXCEPT ![m] = h.orders]
    /\ held' = [held EXCEPT ![m] = @ \ {h}]
    /\ UNCHANGED <<key, usedKeys, described, published>>

JoinRefused(m, h) ==
    /\ h \in held[m]
    /\ ~MayJoin(m, h)
    /\ held' = [held EXCEPT ![m] = @ \ {h}]
    /\ UNCHANGED <<key, usedKeys, file, described, published>>

\* The daemon dies: fleet.yaml survives, requests in hand do not.
Crash(m) ==
    /\ described' = [described EXCEPT ![m] = {}]
    /\ held' = [held EXCEPT ![m] = {}]
    /\ UNCHANGED <<key, usedKeys, file, published>>

\* The machine loses its state directory; the identity directory is a separate
\* one, so the key may survive or be generated anew.
Reinstall(m) ==
    /\ file' = [file EXCEPT ![m] = NoOrders]
    /\ described' = [described EXCEPT ![m] = {}]
    /\ held' = [held EXCEPT ![m] = {}]
    /\ \E k \in {key[m]} \cup (Keys \ usedKeys) :
           /\ key' = [key EXCEPT ![m] = k]
           /\ usedKeys' = usedKeys \cup {k}
    /\ UNCHANGED published

Next ==
    \E m \in Machines :
        \/ \E name \in Names : FleetInit(m, name)
        \/ \E peer \in Machines, name \in Names : Describe(m, peer, name)
        \/ \E c \in described[m] : Add(m, c) \/ AddRefused(m, c)
        \/ \E r \in Rates : PublishRates(m, r)
        \/ \E peer \in Machines : Fetch(m, peer)
        \/ \E h \in held[m] : Join(m, h) \/ JoinRefused(m, h)
        \/ Crash(m)
        \/ Reinstall(m)

Spec == Init /\ [][Next]_vars

(***************************************************************************)
(* Properties                                                              *)
(***************************************************************************)

\* Type invariant of the membership state: every file and every document in
\* hand is a well-formed ORDERS document of daemon/orders.py.
TypeOK ==
    /\ key \in [Machines -> Keys]
    /\ usedKeys \subseteq Keys
    /\ file \in [Machines -> Document \cup {NoOrders}]
    /\ described \in [Machines -> SUBSET Member]
    /\ held \in [Machines -> SUBSET [pin : Keys, orders : Document]]
    /\ published \subseteq Document

\* No equivocation: two documents that claim the same version of a fleet are
\* the same document, so validate_transition never has to choose between two
\* honest revisions.
NoFork ==
    \A d, e \in published :
        d.fleet = e.fleet /\ d.version = e.version => d = e

\* The author's machine holds the newest revision of the fleet it authors, or
\* none at all: a reinstalled author cannot re-join its own fleet through an
\* old copy and then sign a version that is already taken.
HelmHoldsLatest ==
    \A m \in Machines : file[m] # NoOrders /\ file[m].author = key[m] =>
        \A d \in published : d.fleet = file[m].fleet => d.version <= file[m].version

\* Enrolment is for good: in every revision a key means one node and a node
\* means one key, and a later revision of the fleet keeps every member of an
\* earlier one under the same author.
BindingsPermanent ==
    /\ \A d \in published : \A x, y \in d.members :
           x.key = y.key \/ x.node = y.node => x = y
    /\ \A d, e \in published : d.fleet = e.fleet /\ d.version <= e.version =>
           d.author = e.author /\ d.members \subseteq e.members

\* A machine's fleet.yaml never leaves its fleet, never goes back to a lower
\* version and never loses a member, whatever order the documents in hand are
\* applied in; only a reinstall forgets it.
NoRollback ==
    [][\A m \in Machines : file[m] # NoOrders /\ file'[m] # NoOrders =>
          /\ file'[m].fleet = file[m].fleet
          /\ file'[m].version >= file[m].version
          /\ file[m].members \subseteq file'[m].members]_vars

\* The controls implement the ledger: each one publishes, adopts, forgets or
\* leaves every view alone.
Ledger == INSTANCE FleetLedger WITH ledger <- published, view <- file

ImplementsLedger == Ledger!Spec
=============================================================================
