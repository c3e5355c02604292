---------------------------- MODULE OrdersProofs ----------------------------
(***************************************************************************)
(* Proofs about ORDERS for any number of machines, keys, fleets and        *)
(* versions.  The argument: nobody but the author signs, keys are never    *)
(* reused, and a document in hand was fetched from a machine with another  *)
(* key, so an author can hold only what it wrote itself (HelmHoldsLatest). *)
(* Hence every revision it signs is above all earlier ones, which gives    *)
(* NoFork and BindingsPermanent.                                           *)
(***************************************************************************)
EXTENDS Orders, TLAPS

\* Machines have distinct identities, all of them on record as used.
KeysDistinct ==
    /\ \A m \in Machines : key[m] \in usedKeys
    /\ \A m, n \in Machines : key[m] = key[n] => m = n

\* What a machine holds or has in hand was published, and what it has in hand
\* is pinned to the key of some other machine.
Traceable ==
    /\ \A m \in Machines : file[m] # NoOrders => file[m] \in published
    /\ \A m \in Machines : \A h \in held[m] :
           h.orders \in published /\ h.pin # key[m] /\ h.pin \in usedKeys

IInv ==
    /\ TypeOK
    /\ KeysDistinct
    /\ Traceable
    /\ HelmHoldsLatest
    /\ NoFork
    /\ BindingsPermanent

\* `d2` revises `d`: it is `d` itself, or the next version with no member lost
\* and no binding ambiguous.
Revises(d2, d) ==
    \/ d2 = d
    \/ /\ d2 \in Document
       /\ d2.fleet = d.fleet
       /\ d2.author = d.author
       /\ d2.version = d.version + 1
       /\ d.members \subseteq d2.members
       /\ \A x, y \in d2.members : x.key = y.key \/ x.node = y.node => x = y

\* add_member returns the same document or its next revision.
LEMMA AddRevises ==
    ASSUME NEW d \in Document, NEW c \in Member, ~Clashes(d, c),
           AddMember(d, c).version <= MaxVersion,
           \A x, y \in d.members : x.key = y.key \/ x.node = y.node => x = y
    PROVE  Revises(AddMember(d, c), d)
<1>1. CASE c \in d.members
    BY <1>1 DEF AddMember, Revises
<1>2. CASE c \notin d.members
    <2> DEFINE e == [d EXCEPT !.version = @ + 1, !.members = @ \cup {c}]
    <2>1. AddMember(d, c) = e
        BY <1>2 DEF AddMember
    <2>2. /\ e.fleet = d.fleet
          /\ e.author = d.author
          /\ e.rates = d.rates
          /\ e.version = d.version + 1
          /\ e.members = d.members \cup {c}
        BY DEF Document
    <2>3. e.version \in 1..MaxVersion
        BY <2>1, <2>2, OrdersAssumption DEF Document
    <2>4. e \in Document
        BY <2>2, <2>3 DEF Document, Member
    <2>5. \A x, y \in e.members : x.key = y.key \/ x.node = y.node => x = y
        BY <2>2 DEF Clashes
    <2>6. QED
        BY <2>1, <2>2, <2>4, <2>5 DEF Revises
<1>3. QED
    BY <1>1, <1>2

\* set_provider_rates returns the same document or its next revision.
LEMMA RatesRevise ==
    ASSUME NEW d \in Document, NEW r \in Rates,
           SetProviderRates(d, r).version <= MaxVersion,
           \A x, y \in d.members : x.key = y.key \/ x.node = y.node => x = y
    PROVE  Revises(SetProviderRates(d, r), d)
<1>1. CASE r = d.rates
    BY <1>1 DEF SetProviderRates, Revises
<1>2. CASE r # d.rates
    <2> DEFINE e == [d EXCEPT !.version = @ + 1, !.rates = r]
    <2>1. SetProviderRates(d, r) = e
        BY <1>2 DEF SetProviderRates
    <2>2. /\ e.fleet = d.fleet
          /\ e.author = d.author
          /\ e.rates = r
          /\ e.version = d.version + 1
          /\ e.members = d.members
        BY DEF Document
    <2>3. e.version \in 1..MaxVersion
        BY <2>1, <2>2, OrdersAssumption DEF Document
    <2>4. e \in Document
        BY <2>2, <2>3 DEF Document
    <2>5. QED
        BY <2>1, <2>2, <2>4 DEF Revises
<1>3. QED
    BY <1>1, <1>2

\* The initial state satisfies the inductive invariant.
LEMMA InitInv == Init => IInv
<1> SUFFICES ASSUME Init PROVE IInv
    OBVIOUS
<1>1. TypeOK
    BY OrdersAssumption DEF Init, TypeOK
<1>2. KeysDistinct
    BY OrdersAssumption DEF Init, KeysDistinct
<1>3. Traceable /\ HelmHoldsLatest /\ NoFork /\ BindingsPermanent
    BY DEF Init, Traceable, HelmHoldsLatest, NoFork, BindingsPermanent
<1>4. QED
    BY <1>1, <1>2, <1>3 DEF IInv

\* Documents of one fleet have one author.
LEMMA OneAuthor ==
    ASSUME TypeOK, BindingsPermanent, NEW d \in published, NEW e \in published,
           d.fleet = e.fleet
    PROVE  d.author = e.author
<1>1. d.version \in Nat /\ e.version \in Nat
    BY DEF TypeOK, Document
<1>2. d.version <= e.version \/ e.version <= d.version
    BY <1>1
<1>3. QED
    BY <1>2 DEF BindingsPermanent

\* Writing the author's next revision preserves the invariant.
LEMMA WriteRevision ==
    ASSUME IInv, NEW m \in Machines, file[m] # NoOrders, file[m].author = key[m],
           NEW d, Revises(d, file[m]), Write(m, d),
           UNCHANGED <<key, usedKeys, held>>, described' \in [Machines -> SUBSET Member]
    PROVE  IInv'
<1> DEFINE cur == file[m]
<1> USE DEF IInv
<1>1. /\ cur \in Document
      /\ cur \in published
      /\ \A e \in published : e.fleet = cur.fleet => e.version <= cur.version
    BY DEF TypeOK, Traceable, HelmHoldsLatest
<1>2. /\ d \in Document
      /\ d.fleet = cur.fleet
      /\ d.author = key[m]
      /\ d = cur \/ d.version = cur.version + 1
      /\ cur.members \subseteq d.members
      /\ \A x, y \in d.members : x.key = y.key \/ x.node = y.node => x = y
    BY <1>1 DEF Revises, BindingsPermanent
<1>3. /\ file' = [file EXCEPT ![m] = d]
      /\ published' = published \cup {d}
      /\ key' = key /\ usedKeys' = usedKeys /\ held' = held
    BY DEF Write
<1>4. \A e \in published : e \in Document
    BY DEF TypeOK
<1>5. \A e \in published : e.fleet = d.fleet =>
          /\ e.author = d.author
          /\ e.version <= cur.version
          /\ e.members \subseteq d.members
    BY <1>1, <1>2, OneAuthor DEF BindingsPermanent
<1>6. d \in published \/ d.version > cur.version
    BY <1>1, <1>2 DEF Document
<1>7. \A e \in published : d \notin published /\ e.fleet = d.fleet => e.version < d.version
    BY <1>1, <1>2, <1>4, <1>5, <1>6 DEF Document
<1>8. TypeOK'
    BY <1>2, <1>3 DEF TypeOK
<1>9. KeysDistinct'
    BY <1>3 DEF KeysDistinct
<1>10. Traceable'
    BY <1>3 DEF Traceable, TypeOK
<1>11. HelmHoldsLatest'
    <2> SUFFICES ASSUME NEW n \in Machines, file'[n] # NoOrders, file'[n].author = key[n],
                        NEW e \in published', e.fleet = file'[n].fleet
                 PROVE  e.version <= file'[n].version
        BY <1>3 DEF HelmHoldsLatest
    <2>1. CASE n = m
        <3>1. file'[n] = d
            BY <1>3, <2>1 DEF TypeOK
        <3>2. CASE e = d
            BY <1>2, <3>1, <3>2 DEF Document
        <3>3. CASE e \in published
            BY <1>1, <1>2, <1>4, <1>5, <3>1, <3>3 DEF Document
        <3>4. QED
            BY <1>3, <3>2, <3>3
    <2>2. CASE n # m
        <3>1. file'[n] = file[n] /\ file[n] \in published
            BY <1>3, <2>2 DEF TypeOK, Traceable
        <3>2. file[n].fleet # d.fleet
            BY <1>2, <1>5, <2>2, <3>1 DEF KeysDistinct
        <3>3. e \in published
            BY <1>3, <3>1, <3>2
        <3>4. QED
            BY <3>1, <3>3 DEF HelmHoldsLatest
    <2>3. QED
        BY <2>1, <2>2
<1>12. NoFork'
    <2> SUFFICES ASSUME NEW e \in published', NEW f \in published',
                        e.fleet = f.fleet, e.version = f.version
                 PROVE  e = f
        BY DEF NoFork
    <2>1. CASE e \in published /\ f \in published
        BY <2>1 DEF NoFork
    <2>2. CASE d \notin published /\ (e = d \/ f = d)
        BY <1>2, <1>3, <1>4, <1>7, <2>2 DEF Document
    <2>3. QED
        BY <1>3, <2>1, <2>2
<1>13. BindingsPermanent'
    <2>1. \A e \in published' : \A x, y \in e.members :
              x.key = y.key \/ x.node = y.node => x = y
        BY <1>2, <1>3 DEF BindingsPermanent
    <2>2. ASSUME NEW e \in published', NEW f \in published',
                 e.fleet = f.fleet, e.version <= f.version
          PROVE  e.author = f.author /\ e.members \subseteq f.members
        <3>1. CASE e \in published /\ f \in published
            BY <2>2, <3>1 DEF BindingsPermanent
        <3>2. CASE f = d
            BY <1>3, <1>5, <2>2, <3>2
        <3>3. CASE e = d /\ d \notin published /\ f \in published
            BY <1>2, <1>4, <1>7, <2>2, <3>3 DEF Document
        <3>4. QED
            BY <1>3, <3>1, <3>2, <3>3
    <2>3. QED
        BY <2>1, <2>2 DEF BindingsPermanent
<1>14. QED
    BY <1>8, <1>9, <1>10, <1>11, <1>12, <1>13

\* `init` opens a fleet nobody has used.
LEMMA FleetInitStep ==
    ASSUME IInv, NEW m \in Machines, NEW name \in Names, FleetInit(m, name)
    PROVE  IInv'
<1> USE DEF IInv
<1>1. PICK f \in Fleets \ {e.fleet : e \in published} :
          Write(m, InitOrders(key[m], m, name, f))
    BY DEF FleetInit
<1> DEFINE d == InitOrders(key[m], m, name, f)
<1>2. /\ d.fleet = f /\ d.version = 1 /\ d.author = key[m] /\ d.rates = NoRates
      /\ d.members = {[key |-> key[m], node |-> m, name |-> name]}
    BY DEF InitOrders
<1>3. d \in Document
    <2>1. key[m] \in Keys /\ 1 \in 1..MaxVersion
        BY OrdersAssumption DEF TypeOK
    <2>2. [key |-> key[m], node |-> m, name |-> name] \in Member
        BY <2>1 DEF Member
    <2>3. QED
        BY <2>1, <2>2, OrdersAssumption DEF Document, InitOrders
<1>4. /\ file' = [file EXCEPT ![m] = d]
      /\ published' = published \cup {d}
      /\ key' = key /\ usedKeys' = usedKeys /\ held' = held /\ described' = described
      /\ file[m] = NoOrders
    BY <1>1 DEF Write, FleetInit
<1>5. \A e \in published : e.fleet # d.fleet
    BY <1>2
<1>6. TypeOK'
    BY <1>3, <1>4 DEF TypeOK
<1>7. KeysDistinct'
    BY <1>4 DEF KeysDistinct
<1>8. Traceable'
    BY <1>4 DEF Traceable, TypeOK
<1>9. HelmHoldsLatest'
    <2> SUFFICES ASSUME NEW n \in Machines, file'[n] # NoOrders, file'[n].author = key[n],
                        NEW e \in published', e.fleet = file'[n].fleet
                 PROVE  e.version <= file'[n].version
        BY <1>4 DEF HelmHoldsLatest
    <2>1. CASE n = m
        BY <1>2, <1>4, <1>5, <2>1 DEF TypeOK
    <2>2. CASE n # m
        BY <1>4, <1>5, <2>2 DEF TypeOK, Traceable, HelmHoldsLatest
    <2>3. QED
        BY <2>1, <2>2
<1>10. NoFork'
    BY <1>4, <1>5 DEF NoFork
<1>11. BindingsPermanent'
    BY <1>2, <1>4, <1>5 DEF BindingsPermanent
<1>12. QED
    BY <1>6, <1>7, <1>8, <1>9, <1>10, <1>11

\* `join` installs a published document whose author is another machine.
LEMMA JoinStep ==
    ASSUME IInv, NEW m \in Machines, NEW h \in held[m], Join(m, h)
    PROVE  IInv'
<1> USE DEF IInv
<1>1. /\ file' = [file EXCEPT ![m] = h.orders]
      /\ held' = [held EXCEPT ![m] = @ \ {h}]
      /\ key' = key /\ usedKeys' = usedKeys
      /\ described' = described /\ published' = published
    BY DEF Join
<1>2. h.orders \in published /\ h.orders \in Document /\ h.orders.author # key[m]
    BY DEF Join, MayJoin, Traceable, TypeOK
<1>3. TypeOK'
    BY <1>1, <1>2 DEF TypeOK
<1>4. KeysDistinct' /\ NoFork' /\ BindingsPermanent'
    BY <1>1 DEF KeysDistinct, NoFork, BindingsPermanent
<1>5. Traceable'
    BY <1>1, <1>2 DEF Traceable, TypeOK
<1>6. HelmHoldsLatest'
    BY <1>1, <1>2 DEF HelmHoldsLatest, TypeOK
<1>7. QED
    BY <1>3, <1>4, <1>5, <1>6

\* What is fetched from a peer is pinned to the peer's own key.
LEMMA FetchStep ==
    ASSUME IInv, NEW m \in Machines, NEW peer \in Machines, Fetch(m, peer)
    PROVE  IInv'
<1> USE DEF IInv
<1> DEFINE h == [pin |-> key[peer], orders |-> file[peer]]
<1>1. /\ held' = [held EXCEPT ![m] = @ \cup {h}]
      /\ key' = key /\ usedKeys' = usedKeys /\ file' = file
      /\ described' = described /\ published' = published
      /\ peer # m /\ file[peer] # NoOrders
    BY DEF Fetch
<1>2. /\ h \in [pin : Keys, orders : Document]
      /\ h.orders \in published /\ h.pin # key[m] /\ h.pin \in usedKeys
    BY <1>1 DEF TypeOK, Traceable, KeysDistinct
<1>3. TypeOK'
    BY <1>1, <1>2 DEF TypeOK
<1>4. Traceable'
    BY <1>1, <1>2 DEF Traceable, TypeOK
<1>5. KeysDistinct' /\ HelmHoldsLatest' /\ NoFork' /\ BindingsPermanent'
    BY <1>1 DEF KeysDistinct, HelmHoldsLatest, NoFork, BindingsPermanent
<1>6. QED
    BY <1>3, <1>4, <1>5

\* A reinstalled machine keeps its key or takes one never used before.
LEMMA ReinstallStep ==
    ASSUME IInv, NEW m \in Machines, Reinstall(m)
    PROVE  IInv'
<1> USE DEF IInv
<1>1. PICK k \in {key[m]} \cup (Keys \ usedKeys) :
          /\ key' = [key EXCEPT ![m] = k]
          /\ usedKeys' = usedKeys \cup {k}
    BY DEF Reinstall
<1>2. /\ file' = [file EXCEPT ![m] = NoOrders]
      /\ described' = [described EXCEPT ![m] = {}]
      /\ held' = [held EXCEPT ![m] = {}]
      /\ published' = published
    BY DEF Reinstall
<1>3. TypeOK'
    BY <1>1, <1>2 DEF TypeOK
<1>4. KeysDistinct'
    BY <1>1 DEF KeysDistinct, TypeOK
<1>5. Traceable'
    BY <1>1, <1>2 DEF Traceable, TypeOK
<1>6. HelmHoldsLatest'
    BY <1>1, <1>2 DEF HelmHoldsLatest, TypeOK
<1>7. NoFork' /\ BindingsPermanent'
    BY <1>2 DEF NoFork, BindingsPermanent
<1>8. QED
    BY <1>3, <1>4, <1>5, <1>6, <1>7

\* Every step preserves the invariant.
LEMMA StepInv == IInv /\ [Next]_vars => IInv'
<1> SUFFICES ASSUME IInv, [Next]_vars PROVE IInv'
    OBVIOUS
<1> USE DEF IInv
<1>1. ASSUME NEW m \in Machines, NEW name \in Names, FleetInit(m, name) PROVE IInv'
    BY <1>1, FleetInitStep
<1>2. ASSUME NEW m \in Machines, NEW peer \in Machines, NEW name \in Names,
             Describe(m, peer, name)
      PROVE  IInv'
    <2>1. [key |-> key[peer], node |-> peer, name |-> name] \in Member
        BY DEF TypeOK, Member
    <2>2. TypeOK'
        BY <1>2, <2>1 DEF Describe, TypeOK
    <2>3. KeysDistinct' /\ Traceable' /\ HelmHoldsLatest' /\ NoFork' /\ BindingsPermanent'
        BY <1>2 DEF Describe, KeysDistinct, Traceable, HelmHoldsLatest, NoFork,
                    BindingsPermanent
    <2>4. QED
        BY <2>2, <2>3
<1>3. ASSUME NEW m \in Machines, NEW c \in described[m], Add(m, c) PROVE IInv'
    <2>1. /\ file[m] # NoOrders /\ file[m].author = key[m]
          /\ file[m] \in Document /\ file[m] \in published /\ c \in Member
          /\ ~Clashes(file[m], c) /\ AddMember(file[m], c).version <= MaxVersion
        BY <1>3 DEF Add, MayAdd, MayRevise, TypeOK, Traceable
    <2>2. Revises(AddMember(file[m], c), file[m])
        BY <2>1, AddRevises DEF BindingsPermanent
    <2>3. described' \in [Machines -> SUBSET Member]
        BY <1>3 DEF Add, TypeOK
    <2>4. QED
        BY <1>3, <2>1, <2>2, <2>3, WriteRevision DEF Add
<1>4. ASSUME NEW m \in Machines, NEW r \in Rates, PublishRates(m, r) PROVE IInv'
    <2>1. /\ file[m] # NoOrders /\ file[m].author = key[m]
          /\ file[m] \in Document /\ file[m] \in published
          /\ SetProviderRates(file[m], r).version <= MaxVersion
        BY <1>4 DEF PublishRates, MayRevise, TypeOK, Traceable
    <2>2. Revises(SetProviderRates(file[m], r), file[m])
        BY <2>1, RatesRevise DEF BindingsPermanent
    <2>3. described' \in [Machines -> SUBSET Member]
        BY <1>4 DEF PublishRates, TypeOK
    <2>4. QED
        BY <1>4, <2>1, <2>2, <2>3, WriteRevision DEF PublishRates
<1>5. ASSUME NEW m \in Machines, NEW peer \in Machines, Fetch(m, peer) PROVE IInv'
    BY <1>5, FetchStep
<1>6. ASSUME NEW m \in Machines, NEW h \in held[m], Join(m, h) PROVE IInv'
    BY <1>6, JoinStep
<1>7. ASSUME NEW m \in Machines,
             \/ \E c \in described[m] : AddRefused(m, c)
             \/ \E h \in held[m] : JoinRefused(m, h)
             \/ Crash(m)
      PROVE  IInv'
    <2>1. /\ key' = key /\ usedKeys' = usedKeys
          /\ file' = file /\ published' = published
        BY <1>7 DEF AddRefused, JoinRefused, Crash
    <2>2. /\ described' \in [Machines -> SUBSET Member]
          /\ held' \in [Machines -> SUBSET [pin : Keys, orders : Document]]
          /\ \A n \in Machines : held'[n] \subseteq held[n]
        BY <1>7 DEF AddRefused, JoinRefused, Crash, TypeOK
    <2>3. TypeOK'
        BY <2>1, <2>2 DEF TypeOK
    <2>4. Traceable'
        BY <2>1, <2>2 DEF Traceable
    <2>5. KeysDistinct' /\ HelmHoldsLatest' /\ NoFork' /\ BindingsPermanent'
        BY <2>1 DEF KeysDistinct, HelmHoldsLatest, NoFork, BindingsPermanent
    <2>6. QED
        BY <2>3, <2>4, <2>5
<1>8. ASSUME NEW m \in Machines, Reinstall(m) PROVE IInv'
    BY <1>8, ReinstallStep
<1>9. CASE UNCHANGED vars
    BY <1>9 DEF vars, TypeOK, KeysDistinct, Traceable, HelmHoldsLatest, NoFork,
                BindingsPermanent
<1>10. QED
    BY <1>1, <1>2, <1>3, <1>4, <1>5, <1>6, <1>7, <1>8, <1>9 DEF Next

\* The invariant holds in every reachable state.
THEOREM Inductive == Spec => []IInv
BY InitInv, StepInv, PTL DEF Spec

\* Type correctness: no interleaving of the fleet controls stores or serves a
\* malformed document.
THEOREM TypeCorrect == Spec => []TypeOK
<1>1. IInv => TypeOK
    BY DEF IInv
<1>2. QED
    BY <1>1, Inductive, PTL

\* No honest author ever signs two documents with one fleet and version,
\* although `add` acts on facts fetched before it took the lock and machines
\* are reinstalled.
THEOREM NoForkEver == Spec => []NoFork
<1>1. IInv => NoFork
    BY DEF IInv
<1>2. QED
    BY <1>1, Inductive, PTL

\* The author's own fleet.yaml is never behind the fleet.
THEOREM HelmNeverBehind == Spec => []HelmHoldsLatest
<1>1. IInv => HelmHoldsLatest
    BY DEF IInv
<1>2. QED
    BY <1>1, Inductive, PTL

\* Enrolment and its key-to-node binding outlive every later revision.
THEOREM BindingsNeverChange == Spec => []BindingsPermanent
<1>1. IInv => BindingsPermanent
    BY DEF IInv
<1>2. QED
    BY <1>1, Inductive, PTL

\* Writing a revision publishes it in the ledger, or changes nothing there.
LEMMA WritePublishes ==
    ASSUME IInv, NEW m \in Machines, file[m] # NoOrders, file[m].author = key[m],
           NEW d, Revises(d, file[m]), Write(m, d)
    PROVE  [Ledger!Next]_(Ledger!vars)
<1> USE DEF IInv
<1>1. /\ file[m] \in Document /\ file[m] \in published
      /\ \A e \in published : e.fleet = file[m].fleet => e.version <= file[m].version
      /\ file' = [file EXCEPT ![m] = d] /\ published' = published \cup {d}
    BY DEF TypeOK, Traceable, HelmHoldsLatest, Write
<1>2. CASE d = file[m]
    <2>1. file' = file /\ published' = published
        BY <1>1, <1>2 DEF TypeOK
    <2>2. QED
        BY <2>1 DEF Ledger!vars
<1>3. CASE d # file[m]
    <2>1. /\ d \in Document /\ d.fleet = file[m].fleet /\ d.author = file[m].author
          /\ d.version = file[m].version + 1 /\ file[m].members \subseteq d.members
        BY <1>3 DEF Revises
    <2>2. \A e \in published : e.fleet = d.fleet => Ledger!Follows(d, e)
        <3> SUFFICES ASSUME NEW e \in published, e.fleet = d.fleet
                     PROVE  Ledger!Follows(d, e)
            OBVIOUS
        <3>1. e.version <= file[m].version /\ e.version \in Nat /\ file[m].version \in Nat
            BY <1>1, <2>1 DEF TypeOK, Document
        <3>2. e.author = d.author /\ e.members \subseteq d.members
            BY <1>1, <2>1, <3>1 DEF BindingsPermanent
        <3>3. QED
            BY <2>1, <3>1, <3>2 DEF Ledger!Follows
    <2>3. d \notin published /\ d # NoOrders
        BY <1>1, <2>1, OrdersAssumption DEF Document, Member
    <2>4. Ledger!MoveTo(m, d)
        BY <1>1, <2>1, <2>2, <2>3 DEF Ledger!MoveTo, Ledger!Publish
    <2>5. file'[m] = d
        BY <1>1 DEF TypeOK
    <2>6. QED
        BY <2>4, <2>5 DEF Ledger!Next
<1>4. QED
    BY <1>2, <1>3

\* Every step of the controls is a step of the ledger or leaves it alone.
LEMMA StepSimulates == IInv /\ [Next]_vars => [Ledger!Next]_(Ledger!vars)
<1> SUFFICES ASSUME IInv, [Next]_vars PROVE [Ledger!Next]_(Ledger!vars)
    OBVIOUS
<1> USE DEF IInv
<1>1. ASSUME NEW m \in Machines, NEW name \in Names, FleetInit(m, name)
      PROVE  [Ledger!Next]_(Ledger!vars)
    <2>1. PICK f \in Fleets \ {e.fleet : e \in published} :
              Write(m, InitOrders(key[m], m, name, f))
        BY <1>1 DEF FleetInit
    <2> DEFINE d == InitOrders(key[m], m, name, f)
    <2>2. d.fleet = f /\ file[m] = NoOrders
        BY <1>1 DEF InitOrders, FleetInit
    <2>3. d \notin published /\ \A e \in published : e.fleet # d.fleet
        BY <2>2
    <2>4. /\ file' = [file EXCEPT ![m] = d] /\ published' = published \cup {d}
          /\ file'[m] = d
        BY <2>1 DEF Write, TypeOK
    <2>5. d # NoOrders
        <3>1. IInv'
            BY <1>1, FleetInitStep
        <3>2. d \in Document
            BY <2>4, <3>1 DEF TypeOK
        <3>3. QED
            BY <3>2, OrdersAssumption DEF Document, Member
    <2>6. Ledger!MoveTo(m, d)
        BY <2>2, <2>3, <2>4, <2>5 DEF Ledger!MoveTo, Ledger!Publish
    <2>7. QED
        BY <2>4, <2>6 DEF Ledger!Next
<1>2. ASSUME NEW m \in Machines, NEW c \in described[m], Add(m, c)
      PROVE  [Ledger!Next]_(Ledger!vars)
    <2>1. /\ file[m] # NoOrders /\ file[m].author = key[m]
          /\ file[m] \in Document /\ file[m] \in published /\ c \in Member
          /\ ~Clashes(file[m], c) /\ AddMember(file[m], c).version <= MaxVersion
        BY <1>2 DEF Add, MayAdd, MayRevise, TypeOK, Traceable
    <2>2. Revises(AddMember(file[m], c), file[m])
        BY <2>1, AddRevises DEF BindingsPermanent
    <2>3. QED
        BY <1>2, <2>1, <2>2, WritePublishes DEF Add
<1>3. ASSUME NEW m \in Machines, NEW r \in Rates, PublishRates(m, r)
      PROVE  [Ledger!Next]_(Ledger!vars)
    <2>1. /\ file[m] # NoOrders /\ file[m].author = key[m]
          /\ file[m] \in Document /\ file[m] \in published
          /\ SetProviderRates(file[m], r).version <= MaxVersion
        BY <1>3 DEF PublishRates, MayRevise, TypeOK, Traceable
    <2>2. Revises(SetProviderRates(file[m], r), file[m])
        BY <2>1, RatesRevise DEF BindingsPermanent
    <2>3. QED
        BY <1>3, <2>1, <2>2, WritePublishes DEF PublishRates
<1>4. ASSUME NEW m \in Machines, NEW h \in held[m], Join(m, h)
      PROVE  [Ledger!Next]_(Ledger!vars)
    <2> DEFINE d == h.orders
    <2>1. /\ file' = [file EXCEPT ![m] = d] /\ published' = published
          /\ d \in published /\ d \in Document /\ file'[m] = d
        BY <1>4 DEF Join, Traceable, TypeOK
    <2>2. d # NoOrders
        BY <2>1, OrdersAssumption DEF Document, Member
    <2>3. CASE file[m] = NoOrders
        <3>1. Ledger!MoveTo(m, d)
            BY <2>1, <2>2, <2>3 DEF Ledger!MoveTo, Ledger!Adopt
        <3>2. QED
            BY <2>1, <3>1 DEF Ledger!Next
    <2>4. CASE file[m] # NoOrders
        <3>1. ValidTransition(file[m], d) /\ file[m] \in Document
            BY <1>4, <2>4 DEF Join, MayJoin, Admissible, TypeOK
        <3>2. CASE d = file[m]
            BY <2>1, <3>2 DEF Ledger!vars, TypeOK
        <3>3. CASE d # file[m]
            <4>1. d.fleet = file[m].fleet /\ file[m].version < d.version
                BY <2>1, <3>1, <3>3 DEF ValidTransition, Document
            <4>2. Ledger!MoveTo(m, d)
                BY <2>1, <2>2, <4>1 DEF Ledger!MoveTo, Ledger!Adopt
            <4>3. QED
                BY <2>1, <4>2 DEF Ledger!Next
        <3>4. QED
            BY <3>2, <3>3
    <2>5. QED
        BY <2>3, <2>4
<1>5. ASSUME NEW m \in Machines, Reinstall(m) PROVE [Ledger!Next]_(Ledger!vars)
    BY <1>5 DEF Reinstall, Ledger!Next, Ledger!Forget
<1>6. ASSUME NEW m \in Machines,
             \/ \E peer \in Machines, name \in Names : Describe(m, peer, name)
             \/ \E peer \in Machines : Fetch(m, peer)
             \/ \E c \in described[m] : AddRefused(m, c)
             \/ \E h \in held[m] : JoinRefused(m, h)
             \/ Crash(m)
      PROVE  [Ledger!Next]_(Ledger!vars)
    BY <1>6 DEF Describe, Fetch, AddRefused, JoinRefused, Crash, Ledger!vars
<1>7. CASE UNCHANGED vars
    BY <1>7 DEF vars, Ledger!vars
<1>8. QED
    BY <1>1, <1>2, <1>3, <1>4, <1>5, <1>6, <1>7 DEF Next

\* The fleet controls implement the ledger: revisions are published in order
\* and every machine's fleet.yaml only moves forward along them.
THEOREM Refinement == Spec => ImplementsLedger
<1>1. Init => Ledger!Init
    BY DEF Init, Ledger!Init
<1>2. QED
    BY <1>1, Inductive, StepSimulates, PTL DEF Spec, ImplementsLedger, Ledger!Spec

\* A machine's fleet.yaml never rolls back and never changes fleets.
THEOREM NeverRollsBack == Spec => NoRollback
<1>1. IInv /\ IInv' /\ [Next]_vars =>
          [\A m \in Machines : file[m] # NoOrders /\ file'[m] # NoOrders =>
              /\ file'[m].fleet = file[m].fleet
              /\ file'[m].version >= file[m].version
              /\ file[m].members \subseteq file'[m].members]_vars
    <2> SUFFICES ASSUME IInv, IInv', [Ledger!Next]_(Ledger!vars),
                        NEW m \in Machines, file[m] # NoOrders, file'[m] # NoOrders
                 PROVE  /\ file'[m].fleet = file[m].fleet
                        /\ file'[m].version >= file[m].version
                        /\ file[m].members \subseteq file'[m].members
        BY StepSimulates
    <2>1. file[m] \in published /\ file[m] \in Document /\ file'[m] \in Document
        BY DEF IInv, TypeOK, Traceable
    <2>2. CASE file'[m] = file[m]
        BY <2>1, <2>2 DEF Document
    <2>3. CASE file'[m] # file[m]
        <3>1. PICK n \in Machines : Ledger!Forget(n) \/ Ledger!MoveTo(n, file'[n])
            BY <2>3 DEF Ledger!Next, Ledger!vars
        <3>2. n = m /\ Ledger!MoveTo(m, file'[m])
            BY <2>3, <3>1 DEF Ledger!Forget, Ledger!MoveTo, IInv, TypeOK
        <3>3. /\ file'[m] \in published'
              /\ file[m] \in published'
              /\ file'[m].fleet = file[m].fleet
              /\ file[m].version < file'[m].version
            BY <2>1, <3>2 DEF Ledger!MoveTo, Ledger!Publish, Ledger!Adopt, Ledger!Follows
        <3>4. file[m].version <= file'[m].version
            BY <2>1, <3>3 DEF Document
        <3>5. file[m].members \subseteq file'[m].members
            BY <3>3, <3>4 DEF IInv, BindingsPermanent
        <3>6. QED
            BY <2>1, <3>3, <3>4, <3>5 DEF Document
    <2>4. QED
        BY <2>2, <2>3
<1>2. QED
    BY <1>1, Inductive, PTL DEF Spec, NoRollback
=============================================================================
