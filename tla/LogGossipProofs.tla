--------------------------- MODULE LogGossipProofs ---------------------------
(***************************************************************************)
(* What a puller's replicas and cursor promise, for any records, page      *)
(* size, number of faults of every kind and length of the epochs.  The     *)
(* argument: while no state.json was lost there is one epoch, every page   *)
(* in hand is the author's own page of its number, and no replica lies     *)
(* between the cursor and the page in hand (InHand), because the author    *)
(* serves the first page that the cursor has not passed.                   *)
(***************************************************************************)
EXTENDS LogGossip, TLAPS, FiniteSetTheorems

Numbers == [epoch : Epochs, seq : {-1} \cup Seqs]

\* What the author numbers by, on disk and in memory.
Publisher ==
    /\ mem # Down \/ job # NoJob \/ call = Waiting => mem \in Numbers /\ mem.epoch \in minted
    /\ state # NoState => state \in Numbers /\ state.epoch \in minted

\* Epochs are minted where there is no state.json.
OneEpoch ==
    /\ state = NoState => minted = {}
    /\ minted \subseteq Epochs /\ \A d, e \in minted : d = e
    /\ \A e \in Epochs, s \in Seqs : Readable(store[e][s]) => e \in minted
    /\ cursor # NoCursor => cursor \in [epoch : minted, seq : Seqs]

\* The page of the current pull.
InHand ==
    call.phase \in {"ingest", "submit"} =>
        LET p == call.page IN
        /\ p.epoch \in minted /\ p.seq \in Seqs
        /\ Readable(store[p.epoch][p.seq]) /\ p.records = store[p.epoch][p.seq]
        /\ cursor # NoCursor => ~p.reset
        /\ \A s \in Seqs : s < p.seq /\ Readable(replica[p.epoch][s]) =>
               cursor # NoCursor /\ cursor.epoch = p.epoch /\ s <= cursor.seq

\* A page that is submitted is replicated, and indexed but for what is left.
Submitting ==
    call.phase = "submit" =>
        LET p == call.page IN
        /\ call = [phase |-> "submit", page |-> p, left |-> call.left]
        /\ replica[p.epoch][p.seq] = Replica(p)
        /\ p.records \subseteq index \cup call.left

Shapes ==
    /\ \A slots \in {store, replica} :
           DOMAIN slots = Epochs /\ \A e \in Epochs : DOMAIN slots[e] = Seqs
    /\ faults \in [Kinds -> Nat]

Intact == OneEpoch /\ InHand /\ Submitting

GInv ==
    /\ Shapes
    /\ Publisher
    /\ faults["lostState"] = 0 => Intact
    /\ ReplicaFaithful
    /\ CursorIndexed

\* Every set of naturals that is not empty has a least member.
LEMMA LeastExists ==
    ASSUME NEW S \in SUBSET Nat, S # {}
    PROVE  \E x \in S : \A y \in S : x <= y
<1> DEFINE UpTo(x) == {y \in S : y <= x}
           Cuts == {UpTo(x) : x \in S}
<1>1. Cuts \subseteq FiniteSubsetsOf(Nat) /\ Cuts # {}
    <2>1. ASSUME NEW x \in S PROVE UpTo(x) \in FiniteSubsetsOf(Nat)
        <3>1. UpTo(x) \in SUBSET Nat /\ \A y \in UpTo(x) : y <= x
            OBVIOUS
        <3>2. IsFiniteSet(UpTo(x))
            BY <3>1, FS_BoundedSetOfNaturals
        <3> QED
            BY <3>1, <3>2 DEF FiniteSubsetsOf
    <2> QED
        BY <2>1
<1>2. PICK C \in Cuts : \A D \in Cuts : <<D, C>> \notin StrictSubsetOrdering(Nat)
    <2> HIDE DEF Cuts
    <2> QED
        BY <1>1, WFMin, FS_StrictSubsetOrderingWellFounded
<1>3. PICK x \in S : C = UpTo(x)
    OBVIOUS
<1>4. ASSUME NEW y \in S, y < x PROVE FALSE
    <2>0. x \in UpTo(x) /\ x \notin UpTo(y)
        BY <1>4
    <2>1. UpTo(y) \subseteq C /\ UpTo(y) # C /\ UpTo(y) \in SUBSET Nat /\ C \in SUBSET Nat
        <3>1. UpTo(y) \subseteq UpTo(x)
            <4>1. ASSUME NEW z \in S, z <= y PROVE z <= x
                <5>1. x \in Nat /\ y \in Nat /\ z \in Nat
                    OBVIOUS
                <5> HIDE DEF UpTo
                <5> QED
                    BY <1>4, <4>1, <5>1
            <4> QED
                BY <4>1
        <3>2. UpTo(y) \in SUBSET Nat /\ UpTo(x) \in SUBSET Nat
            OBVIOUS
        <3> HIDE DEF UpTo
        <3> QED
            BY <1>3, <2>0, <3>1, <3>2
    <2>2. UpTo(y) \in Cuts
        OBVIOUS
    <2>3. <<UpTo(y), C>> \in StrictSubsetOrdering(Nat)
        <3> HIDE DEF UpTo
        <3> QED
            BY <2>1 DEF StrictSubsetOrdering
    <2> QED
        BY <1>2, <2>2, <2>3, Zenon
<1> QED
    BY <1>4

\* The page that is served is one of those offered, and none has a lower number.
LEMMA FirstIsFirst ==
    ASSUME NEW S \in SUBSET (Epochs \X Seqs), S # {}
    PROVE  FirstOf(S) \in S /\ \A q \in S : FirstOf(S)[2] <= q[2]
<1>1. Epochs \subseteq Nat /\ Seqs \subseteq Nat
    BY GossipAssumption DEF Seqs
<1> DEFINE Second == {p[2] : p \in S}
<1>2. PICK s \in Second : \A t \in Second : s <= t
    <2>1. Second \in SUBSET Nat /\ Second # {}
        BY <1>1
    <2> HIDE DEF Second
    <2> QED
        BY <2>1, LeastExists
<1> DEFINE First == {p[1] : p \in {q \in S : q[2] = s}}
<1>3. PICK e \in First : \A d \in First : e <= d
    <2>1. First \in SUBSET Nat /\ First # {}
        BY <1>1, <1>2
    <2> HIDE DEF First
    <2> QED
        BY <2>1, LeastExists
<1>4. PICK p \in S : p[1] = e /\ p[2] = s
    BY <1>3
<1>5. \A q \in S : p[2] < q[2] \/ (p[2] = q[2] /\ p[1] <= q[1])
    <2>1. ASSUME NEW q \in S PROVE p[2] <= q[2] /\ (p[2] = q[2] => p[1] <= q[1])
        <3>1. q[2] \in Second /\ (q[2] = s => q[1] \in First)
            OBVIOUS
        <3> HIDE DEF First, Second
        <3> QED
            BY <1>2, <1>3, <1>4, <3>1
    <2>2. ASSUME NEW q \in S PROVE p[2] \in Nat /\ q[2] \in Nat
        BY <1>1
    <2> HIDE DEF First, Second
    <2> QED
        BY <2>1, <2>2
<1>6. /\ FirstOf(S) \in S
      /\ \A q \in S : \/ FirstOf(S)[2] < q[2]
                      \/ FirstOf(S)[2] = q[2] /\ FirstOf(S)[1] <= q[1]
    <2> HIDE DEF First, Second
    <2> QED
        BY <1>5 DEF FirstOf
<1>7. ASSUME NEW q \in S PROVE FirstOf(S)[2] \in Nat /\ q[2] \in Nat
    BY <1>1, <1>6
<1> QED
    BY <1>6, <1>7

\* A fault counts itself and no other kind.
LEMMA FaultCounts ==
    ASSUME NEW kind \in Kinds, Fault(kind), faults \in [Kinds -> Nat]
    PROVE  /\ faults' \in [Kinds -> Nat]
           /\ faults'[kind] > 0
           /\ \A k \in Kinds \ {kind} : faults'[k] = faults[k]
BY DEF Fault

LEMMA GossipInitInv == GossipInit => GInv
<1> SUFFICES ASSUME GossipInit PROVE GInv
    OBVIOUS
<1>1. "lostState" \in Kinds /\ Idle.phase = "idle" /\ Idle # Waiting
    BY DEF Kinds, Idle, Waiting
<1>2. \A e \in Epochs, s \in Seqs : ~Readable(store[e][s]) /\ ~Readable(replica[e][s])
    BY DEF GossipInit, Readable
<1>3. Shapes
    BY DEF GossipInit, Shapes
<1>4. Publisher /\ Intact
    BY <1>1, <1>2 DEF GossipInit, Intact, Publisher, OneEpoch, InHand, Submitting
<1>5. ReplicaFaithful /\ CursorIndexed
    BY <1>2 DEF GossipInit, ReplicaFaithful, CursorIndexed
<1> QED
    BY <1>3, <1>4, <1>5 DEF GInv

\* A step that at most fills an empty slot of the author's and gives up the
\* puller's call, or begins one.
LEMMA StoreGrows ==
    ASSUME GInv, Shapes', Publisher',
           faults'["lostState"] = faults["lostState"],
           faults["lostState"] = 0 => (state' = NoState => state = NoState),
           \A e \in Epochs, s \in Seqs :
               \/ store'[e][s] = store[e][s]
               \/ store[e][s] = NoPage /\ (Readable(store'[e][s]) => e = mem.epoch /\ (mem # Down \/ job # NoJob)),
           call' \in {call, Idle, Waiting},
           index \subseteq index',
           UNCHANGED <<minted, replica, cursor>>
    PROVE  GInv'
<1>1. ReplicaFaithful'
    BY DEF GInv, ReplicaFaithful, Readable
<1>2. CursorIndexed'
    BY DEF GInv, CursorIndexed, Readable
<1>3. ASSUME faults["lostState"] = 0 PROVE Intact'
    <2>1. OneEpoch'
        BY <1>3 DEF GInv, Intact, OneEpoch, Publisher, Readable
    <2>2. CASE call' = call
        <3>1. InHand'
            <4> SUFFICES ASSUME call.phase \in {"ingest", "submit"} PROVE InHand'
                BY <2>2 DEF InHand
            <4>1. call.page.epoch \in Epochs /\ call.page.seq \in Seqs
                BY <1>3 DEF GInv, Intact, OneEpoch, InHand
            <4>2. store'[call.page.epoch][call.page.seq] = store[call.page.epoch][call.page.seq]
                BY <1>3, <4>1 DEF GInv, Intact, InHand, Readable
            <4> QED
                BY <1>3, <2>2, <4>2 DEF GInv, Intact, InHand, Readable
        <3>2. Submitting'
            BY <1>3, <2>2 DEF GInv, Intact, Submitting, Replica
        <3> QED
            BY <1>3, <2>1, <3>1, <3>2 DEF Intact
    <2>3. CASE call' \in {Idle, Waiting}
        <3>1. call'.phase \notin {"ingest", "submit"}
            BY <2>3 DEF Idle, Waiting
        <3> QED
            BY <1>3, <2>1, <3>1 DEF Intact, InHand, Submitting
    <2> QED
        BY <2>2, <2>3
<1> QED
    BY <1>1, <1>2, <1>3 DEF GInv

\* The page that an intact author serves is fit to be taken.
LEMMA ServedInHand ==
    ASSUME Publisher, Intact, ReplicaFaithful, faults["lostState"] = 0, job # NoJob, Candidates(cursor) # {}
    PROVE  LET p == Served(cursor) IN
           /\ p.epoch \in minted /\ p.seq \in Seqs
           /\ Readable(store[p.epoch][p.seq]) /\ p.records = store[p.epoch][p.seq]
           /\ cursor # NoCursor => ~p.reset
           /\ \A s \in Seqs : s < p.seq /\ Readable(replica[p.epoch][s]) =>
                  cursor # NoCursor /\ cursor.epoch = p.epoch /\ s <= cursor.seq
<1> DEFINE S == Candidates(cursor)
           q == FirstOf(S)
<1>1. S \in SUBSET (Epochs \X Seqs) /\ S # {} /\ S \subseteq Stored
    BY DEF Candidates, Stored
<1>2. q \in S /\ \A r \in S : q[2] <= r[2]
    BY <1>1, FirstIsFirst
<1>3. mem.epoch \in minted /\ mem.epoch \in Epochs
    BY DEF Intact, Publisher, OneEpoch
<1>4. \A e \in Epochs, s \in Seqs : Readable(store[e][s]) => e = mem.epoch
    BY <1>3 DEF Intact, OneEpoch
<1>5. q[1] = mem.epoch /\ q[2] \in Seqs /\ Readable(store[q[1]][q[2]])
    BY <1>1, <1>2, <1>4 DEF Stored
<1>6. cursor # NoCursor => cursor.epoch = mem.epoch /\ cursor.seq \in Seqs
    BY <1>3 DEF Intact, OneEpoch
<1>7. /\ Served(cursor).epoch = mem.epoch /\ Served(cursor).seq = q[2]
      /\ Served(cursor).records = store[q[1]][q[2]]
      /\ Served(cursor).reset = (cursor = NoCursor \/ cursor.epoch # mem.epoch)
    BY DEF Served
<1>8. ASSUME NEW s \in Seqs, s < q[2], Readable(replica[mem.epoch][s])
      PROVE  cursor # NoCursor /\ s <= cursor.seq
    <2>1. Readable(store[mem.epoch][s])
        BY <1>3, <1>8 DEF ReplicaFaithful
    <2>2. <<mem.epoch, s>> \in Stored
        BY <1>3, <2>1 DEF Stored
    <2>3. <<mem.epoch, s>> \notin S
        <3>1. s \in Int /\ q[2] \in Int
            BY <1>5 DEF Seqs
        <3> QED
            BY <1>2, <1>8, <3>1
    <2>4. cursor # NoCursor /\ ~(s > cursor.seq)
        <3>1. ASSUME cursor = NoCursor PROVE FALSE
            BY <2>2, <2>3, <3>1 DEF Candidates
        <3>2. ASSUME cursor # NoCursor, s > cursor.seq PROVE FALSE
            BY <1>6, <2>2, <2>3, <3>2 DEF Candidates
        <3> QED
            BY <3>1, <3>2
    <2> QED
        BY <1>6, <2>4 DEF Seqs
<1> QED
    BY <1>3, <1>5, <1>6, <1>7, <1>8

LEMMA SlotFilled ==
    ASSUME Shapes, NEW e \in Epochs, NEW s \in Seqs, NEW page,
           store' = [store EXCEPT ![e][s] = page]
    PROVE  /\ DOMAIN store' = Epochs /\ \A d \in Epochs : DOMAIN store'[d] = Seqs
           /\ \A d \in Epochs, t \in Seqs :
                  store'[d][t] = IF d = e /\ t = s THEN page ELSE store[d][t]
BY DEF Shapes

LEMMA StepPublishes ==
    ASSUME GInv,
           \/ \E r \in Records : Measure(r)
           \/ LoopTick \/ WritePage \/ PageFails("openError", NoPage) \/ PageFails("writeError", Torn)
           \/ WriteState \/ StateFails \/ Ask \/ Timeout \/ PublisherCrash
    PROVE  GInv'
<1>0. /\ {"lostState", "openError", "writeError", "timeout", "publisherCrash"} \subseteq Kinds
      /\ Idle # Waiting /\ faults \in [Kinds -> Nat] /\ Shapes
    BY DEF Kinds, Idle, Waiting, GInv, Shapes
<1>1. CASE \E r \in Records : Measure(r)
    BY <1>0, <1>1, StoreGrows DEF Measure, pullerVars, GInv, Intact, Publisher, Shapes
<1>2. CASE LoopTick
    BY <1>0, <1>2, StoreGrows DEF LoopTick, publisherVars, pullerVars, GInv, Intact, Publisher, Shapes
<1>3. CASE WritePage
    <2>1. mem.epoch \in Epochs /\ mem.seq + 1 \in Seqs
        BY <1>3 DEF WritePage, GInv, Publisher, Numbers, Seqs
    <2>2. Publisher'
        BY <1>0, <1>3, <2>1 DEF WritePage, Abandon, GInv, Publisher, Numbers
    <2>3. CASE store[mem.epoch][mem.seq + 1] = NoPage
        BY <1>0, <1>3, <2>1, <2>2, <2>3, SlotFilled, StoreGrows DEF WritePage, pullerVars, Shapes
    <2>4. CASE store' = store
        BY <1>0, <1>3, <2>2, <2>4, StoreGrows DEF WritePage, Abandon, pullerVars, Shapes
    <2> QED
        BY <1>3, <2>3, <2>4 DEF WritePage
<1>4. CASE PageFails("openError", NoPage)
    <2>1. mem.epoch \in Epochs /\ mem.seq + 1 \in Seqs
        BY <1>4 DEF PageFails, GInv, Publisher, Numbers, Seqs
    <2>2. Publisher'
        BY <1>0, <1>4, <2>1 DEF PageFails, Abandon, GInv, Publisher, Numbers
    <2>3. /\ store[mem.epoch][mem.seq + 1] = NoPage
          /\ store' = [store EXCEPT ![mem.epoch][mem.seq + 1] = NoPage]
          /\ faults'["lostState"] = faults["lostState"] /\ faults' \in [Kinds -> Nat]
        BY <1>0, <1>4, FaultCounts DEF PageFails
    <2> QED
        BY <1>0, <1>4, <2>1, <2>2, <2>3, SlotFilled, StoreGrows
        DEF PageFails, Abandon, pullerVars, Shapes, Readable
<1>5. CASE PageFails("writeError", Torn)
    <2>1. mem.epoch \in Epochs /\ mem.seq + 1 \in Seqs
        BY <1>5 DEF PageFails, GInv, Publisher, Numbers, Seqs
    <2>2. Publisher'
        BY <1>0, <1>5, <2>1 DEF PageFails, Abandon, GInv, Publisher, Numbers
    <2>3. /\ store[mem.epoch][mem.seq + 1] = NoPage
          /\ store' = [store EXCEPT ![mem.epoch][mem.seq + 1] = Torn]
          /\ faults'["lostState"] = faults["lostState"] /\ faults' \in [Kinds -> Nat]
        BY <1>0, <1>5, FaultCounts DEF PageFails
    <2> QED
        BY <1>0, <1>5, <2>1, <2>2, <2>3, SlotFilled, StoreGrows
        DEF PageFails, Abandon, pullerVars, Shapes, Readable
<1>6. CASE WriteState
    <2>1. mem \in [epoch : Epochs, seq : Int] /\ state' = mem
        BY <1>6 DEF WriteState, GInv, Publisher, Numbers, Seqs
    <2>2. state' # NoState
        BY <2>1, GossipAssumption
    <2> QED
        BY <1>0, <1>6, <2>2, StoreGrows DEF WriteState, pullerVars, GInv, Publisher, Shapes
<1>7. CASE StateFails
    BY <1>0, <1>7, FaultCounts, StoreGrows DEF StateFails, Abandon, publisherVars, pullerVars, GInv, Intact, Publisher, Shapes
<1>8. CASE Ask
    BY <1>0, <1>8, StoreGrows DEF Ask, publisherVars, pullerVars, GInv, Intact, Publisher, Shapes
<1>9. CASE Timeout
    BY <1>0, <1>9, FaultCounts, StoreGrows DEF Timeout, publisherVars, pullerVars, GInv, Intact, Publisher, Shapes
<1>10. CASE PublisherCrash
    <2>1. faults'["lostState"] = faults["lostState"] /\ faults' \in [Kinds -> Nat]
        BY <1>0, <1>10, FaultCounts DEF PublisherCrash
    <2>2. Publisher'
        BY <1>0, <1>10 DEF PublisherCrash, GInv, Publisher
    <2>3. CASE store' = store
        BY <1>0, <1>10, <2>1, <2>2, <2>3, StoreGrows DEF PublisherCrash, pullerVars, Shapes
    <2>4. CASE store' # store
        <3>1. mem.epoch \in Epochs /\ mem.seq + 1 \in Seqs
            BY <1>10, <2>4, GossipAssumption DEF PublisherCrash, GInv, Publisher, Numbers, Seqs
        <3>2. /\ store[mem.epoch][mem.seq + 1] = NoPage
              /\ store' = [store EXCEPT ![mem.epoch][mem.seq + 1] = Torn]
            BY <1>10, <2>4 DEF PublisherCrash
        <3> QED
            BY <1>0, <1>10, <2>1, <2>2, <3>1, <3>2, SlotFilled, StoreGrows
            DEF PublisherCrash, pullerVars, Shapes, Readable
    <2> QED
        BY <2>3, <2>4
<1> QED
    BY <1>1, <1>2, <1>3, <1>4, <1>5, <1>6, <1>7, <1>8, <1>9, <1>10

LEMMA StepFinish == ASSUME GInv, Finish PROVE GInv'
<1>1. CASE call' \in {call, Idle}
    BY <1>1, StoreGrows DEF Finish, publisherVars, pullerVars, GInv, Publisher, Shapes, Idle, Waiting
<1>2. CASE call' \notin {call, Idle}
    <2>1. call' = [phase |-> "ingest", page |-> Served(cursor)] /\ Candidates(cursor) # {}
        BY <1>2 DEF Finish, LogReply
    <2>2. /\ job # NoJob /\ job' = NoJob /\ call'.phase = "ingest" /\ call'.page = Served(cursor) /\ call' # Waiting
          /\ UNCHANGED <<corpus, store, state, minted, mem, replica, index, cursor, rebuilt, faults>>
        BY <2>1 DEF Finish, publisherVars, pullerVars, Waiting
    <2>3. Shapes' /\ Publisher' /\ ReplicaFaithful' /\ CursorIndexed'
        BY <2>2 DEF GInv, Shapes, Publisher, ReplicaFaithful, CursorIndexed, Readable
    <2>4. ASSUME faults["lostState"] = 0 PROVE Intact'
        <3>1. OneEpoch'
            BY <2>2, <2>4 DEF GInv, Intact, OneEpoch, Readable
        <3>2. InHand'
            <4> DEFINE p == Served(cursor)
            <4>1. /\ p.epoch \in minted /\ p.seq \in Seqs
                  /\ Readable(store[p.epoch][p.seq]) /\ p.records = store[p.epoch][p.seq]
                  /\ cursor # NoCursor => ~p.reset
                  /\ \A s \in Seqs : s < p.seq /\ Readable(replica[p.epoch][s]) =>
                         cursor # NoCursor /\ cursor.epoch = p.epoch /\ s <= cursor.seq
                BY <2>1, <2>2, <2>4, ServedInHand DEF GInv
            <4> HIDE DEF p
            <4>2. call'.page = p
                BY <2>2 DEF p
            <4> QED
                BY <2>2, <4>1, <4>2 DEF InHand, Readable
        <3>3. Submitting'
            BY <2>2 DEF Submitting
        <3> QED
            BY <3>1, <3>2, <3>3 DEF Intact
    <2> QED
        BY <2>2, <2>3, <2>4 DEF GInv
<1> QED
    BY <1>1, <1>2

LEMMA StepStart == ASSUME GInv, Start PROVE GInv'
<1>1. /\ mem = Down /\ mem' = state' /\ minted \subseteq minted'
      /\ UNCHANGED <<corpus, store, job, replica, index, cursor, rebuilt, call, faults>>
    BY DEF Start, pullerVars
<1>2. Shapes' /\ ReplicaFaithful' /\ CursorIndexed'
    BY <1>1 DEF GInv, Shapes, ReplicaFaithful, CursorIndexed, Readable
<1>3. CASE state # NoState
    <2>1. UNCHANGED <<state, minted>> /\ mem' = state
        BY <1>3 DEF Start
    <2>2. Publisher'
        BY <1>1, <1>3, <2>1 DEF GInv, Publisher
    <2>3. faults["lostState"] = 0 => Intact'
        BY <1>1, <2>1 DEF GInv, Intact, OneEpoch, InHand, Submitting, Readable, Replica
    <2> QED
        BY <1>1, <1>2, <2>2, <2>3 DEF GInv
<1>4. CASE state = NoState
    <2>1. PICK e \in Epochs : mem' = [epoch |-> e, seq |-> -1] /\ minted' = minted \cup {e}
        BY <1>4 DEF Start
    <2>2. mem' \in Numbers /\ mem'.epoch = e /\ mem' \in [epoch : Epochs, seq : Int]
        BY <2>1 DEF Numbers
    <2>3. Publisher'
        BY <1>1, <2>1, <2>2 DEF Publisher
    <2>4. state' # NoState
        BY <1>1, <2>2, GossipAssumption
    <2>5. ASSUME faults["lostState"] = 0 PROVE Intact'
        <3>1. minted = {} /\ minted' = {e}
            BY <1>4, <2>1, <2>5 DEF GInv, Intact, OneEpoch
        <3>2. cursor = NoCursor /\ \A d \in Epochs, s \in Seqs : ~Readable(store[d][s])
            BY <2>5, <3>1 DEF GInv, Intact, OneEpoch
        <3>3. OneEpoch'
            BY <1>1, <2>4, <3>1, <3>2 DEF OneEpoch, Readable
        <3>4. call.phase \notin {"ingest", "submit"}
            BY <2>5, <3>1 DEF GInv, Intact, InHand
        <3> QED
            BY <1>1, <3>3, <3>4 DEF Intact, InHand, Submitting
    <2> QED
        BY <1>1, <1>2, <2>3, <2>5 DEF GInv
<1> QED
    BY <1>3, <1>4

LEMMA StepLoseState == ASSUME GInv, LoseState PROVE GInv'
<1>1. faults'["lostState"] > 0 /\ faults' \in [Kinds -> Nat]
    BY FaultCounts DEF LoseState, GInv, Shapes, Kinds
<1>2. Shapes' /\ Publisher'
    BY <1>1 DEF LoseState, pullerVars, GInv, Shapes, Publisher
<1> QED
    BY <1>1, <1>2 DEF GInv, ReplicaFaithful, CursorIndexed

\* While no state is lost, the page in hand comes after every one the cursor passed.
LEMMA StepIngest == ASSUME GInv, Ingest PROVE GInv'
<1> DEFINE p == call.page
<1>1. /\ call.phase = "ingest"
      /\ UNCHANGED <<corpus, store, state, minted, mem, job, index, cursor, rebuilt, faults>>
    BY DEF Ingest, publisherVars
<1>2. CASE call' = Idle /\ replica' = replica
    BY <1>1, <1>2, StoreGrows DEF GInv, Shapes, Publisher, Idle, Waiting
<1>3. CASE ~(call' = Idle /\ replica' = replica)
    <2>1. /\ Continues(p)
          /\ replica[p.epoch][p.seq] \in {NoPage, Replica(p)}
          /\ replica' = [replica EXCEPT ![p.epoch][p.seq] = Replica(p)]
          /\ call' = [phase |-> "submit", page |-> p, left |-> p.records]
        BY <1>3 DEF Ingest
    <2>2. Shapes'
        BY <1>1, <2>1 DEF GInv, Shapes
    <2>3. Publisher'
        BY <1>1, <2>1 DEF GInv, Publisher, Waiting
    <2>4. ASSUME faults["lostState"] = 0
          PROVE  Intact' /\ ReplicaFaithful' /\ CursorIndexed'
        <3>1. /\ p.epoch \in minted /\ p.epoch \in Epochs /\ p.seq \in Seqs
              /\ Readable(store[p.epoch][p.seq]) /\ p.records = store[p.epoch][p.seq]
              /\ cursor # NoCursor => ~p.reset /\ p.epoch = cursor.epoch /\ p.seq > cursor.seq
                                     /\ cursor.seq \in Seqs
              /\ \A s \in Seqs : s < p.seq /\ Readable(replica[p.epoch][s]) =>
                     cursor # NoCursor /\ cursor.epoch = p.epoch /\ s <= cursor.seq
            BY <1>1, <2>1, <2>4 DEF GInv, Intact, OneEpoch, InHand, Continues
        <3>2. \A d \in Epochs, t \in Seqs :
                 replica'[d][t] = IF d = p.epoch /\ t = p.seq THEN Replica(p) ELSE replica[d][t]
            BY <2>1, <3>1 DEF GInv, Shapes
        <3> HIDE DEF p
        <3>3. ReplicaFaithful'
            BY <1>1, <2>4, <3>1, <3>2 DEF GInv, ReplicaFaithful, Readable, Replica
        <3>4. CursorIndexed'
            <4> SUFFICES ASSUME cursor # NoCursor, NEW s \in 0..cursor.seq, Readable(replica'[cursor.epoch][s])
                         PROVE  replica'[cursor.epoch][s].records \subseteq index
                BY <1>1 DEF CursorIndexed, Readable
            <4>1. s \in Seqs /\ s # p.seq
                BY <3>1, GossipAssumption DEF Seqs
            <4>2. replica'[cursor.epoch][s] = replica[cursor.epoch][s]
                BY <3>1, <3>2, <4>1
            <4> QED
                BY <2>4, <4>2 DEF GInv, CursorIndexed
        <3>5. OneEpoch'
            BY <1>1, <2>4 DEF GInv, Intact, OneEpoch, Readable
        <3>6. InHand'
            <4>1. call'.page = p
                BY <2>1 DEF p
            <4>2. ASSUME NEW s \in Seqs, s < p.seq PROVE replica'[p.epoch][s] = replica[p.epoch][s]
                BY <3>1, <3>2, <4>2 DEF Seqs
            <4> QED
                BY <1>1, <3>1, <4>1, <4>2 DEF InHand, Readable
        <3>7. Submitting'
            <4>1. call'.page = p /\ call'.left = p.records
                BY <2>1 DEF p
            <4> QED
                BY <2>1, <3>1, <3>2, <4>1 DEF Submitting, Replica, p
        <3> QED
            BY <3>3, <3>4, <3>5, <3>6, <3>7 DEF Intact
    <2> QED
        BY <1>1, <2>2, <2>3, <2>4 DEF GInv, ReplicaFaithful, CursorIndexed
<1> QED
    BY <1>2, <1>3

\* The cursor moves to the page that is replicated and now indexed whole, and
\* between the two no replica lies.
LEMMA StepSubmit == ASSUME GInv, NEW r \in Records, Submit(r) PROVE GInv'
<1> DEFINE p == call.page
<1>1. /\ call.phase = "submit" /\ r \in call.left /\ index' = index \cup {r}
      /\ UNCHANGED <<corpus, store, state, minted, mem, job, replica, rebuilt, faults>>
    BY DEF Submit, publisherVars
<1>2. Shapes' /\ ReplicaFaithful'
    BY <1>1 DEF GInv, Shapes, ReplicaFaithful, Readable
<1>3. ASSUME faults["lostState"] = 0
      PROVE  /\ p.epoch \in minted /\ p.epoch \in Epochs /\ p.seq \in Seqs
             /\ Readable(store[p.epoch][p.seq]) /\ p.records = store[p.epoch][p.seq]
             /\ call = [phase |-> "submit", page |-> p, left |-> call.left]
             /\ replica[p.epoch][p.seq] = Replica(p) /\ p.records \subseteq index \cup call.left
             /\ \A s \in Seqs : s < p.seq /\ Readable(replica[p.epoch][s]) =>
                    cursor # NoCursor /\ cursor.epoch = p.epoch /\ s <= cursor.seq
    BY <1>1, <1>3 DEF GInv, Intact, OneEpoch, InHand, Submitting
<1>4. CASE call.left = {r}
    <2>1. cursor' = [epoch |-> p.epoch, seq |-> p.seq] /\ call' = Idle
        BY <1>4 DEF Submit
    <2>2. Publisher'
        BY <1>1, <2>1 DEF GInv, Publisher, Idle, Waiting
    <2>3. ASSUME faults["lostState"] = 0 PROVE Intact'
        BY <1>1, <1>3, <2>1, <2>3 DEF GInv, Intact, OneEpoch, InHand, Submitting, Readable, Idle
    <2>4. ASSUME faults["lostState"] = 0 PROVE CursorIndexed'
        <3> SUFFICES ASSUME NEW s \in 0..p.seq, Readable(replica[p.epoch][s])
                     PROVE  replica[p.epoch][s].records \subseteq index'
            BY <1>1, <2>1 DEF CursorIndexed, Readable
        <3>1. CASE s = p.seq
            BY <1>1, <1>3, <1>4, <2>4, <3>1 DEF Replica
        <3>2. CASE s # p.seq
            <4>1. s \in Seqs /\ s < p.seq
                BY <1>3, <2>4, <3>2, GossipAssumption DEF Seqs
            <4>2. cursor # NoCursor /\ cursor.epoch = p.epoch /\ s <= cursor.seq
                BY <1>3, <2>4, <4>1
            <4>3. s \in 0..cursor.seq
                <5>1. cursor.seq \in Seqs
                    BY <2>4, <4>2 DEF GInv, Intact, OneEpoch
                <5> QED
                    BY <4>1, <4>2, <5>1 DEF Seqs
            <4>4. replica[p.epoch][s].records \subseteq index
                BY <2>4, <4>2, <4>3 DEF GInv, CursorIndexed
            <4> QED
                BY <1>1, <4>4
        <3> QED
            BY <3>1, <3>2
    <2> QED
        BY <1>1, <1>2, <2>2, <2>3, <2>4 DEF GInv, CursorIndexed
<1>5. CASE call.left # {r}
    <2>1. call' = [call EXCEPT !.left = @ \ {r}] /\ cursor' = cursor
        BY <1>5 DEF Submit
    <2>2. CursorIndexed'
        BY <1>1, <2>1 DEF GInv, CursorIndexed, Readable
    <2>3. Publisher'
        <3>1. call' = Waiting => call'["phase"] = "waiting"
            BY DEF Waiting
        <3>2. call'["phase"] # "waiting"
            BY <1>1, <2>1
        <3> QED
            BY <1>1, <3>1, <3>2 DEF GInv, Publisher
    <2>4. ASSUME faults["lostState"] = 0 PROVE Intact'
        <3>1. call' = [phase |-> "submit", page |-> p, left |-> call.left \ {r}]
            <4>1. ASSUME NEW page, NEW left, NEW rest
                  PROVE  [[phase |-> "submit", page |-> page, left |-> left] EXCEPT !.left = rest]
                             = [phase |-> "submit", page |-> page, left |-> rest]
                OBVIOUS
            <4>2. call' = [call EXCEPT !.left = call.left \ {r}]
                BY <2>1
            <4>3. call = [phase |-> "submit", page |-> p, left |-> call.left]
                BY <1>3, <2>4
            <4> DEFINE left == call.left
            <4> HIDE DEF p, left
            <4>4. call' = [[phase |-> "submit", page |-> p, left |-> left] EXCEPT !.left = left \ {r}]
                BY <4>2, <4>3 DEF left
            <4> QED
                BY <4>1, <4>4 DEF left
        <3>2. call'.page = p /\ call'.phase = "submit" /\ call'.left = call.left \ {r}
            BY <3>1
        <3>3. OneEpoch'
            BY <1>1, <2>1, <2>4 DEF GInv, Intact, OneEpoch, Readable
        <3>4. InHand'
            BY <1>1, <2>1, <2>4, <3>2 DEF GInv, Intact, InHand, Readable
        <3>5. Submitting'
            BY <1>1, <1>3, <2>4, <3>1, <3>2 DEF Submitting, Replica
        <3> QED
            BY <3>3, <3>4, <3>5 DEF Intact
    <2> QED
        BY <1>1, <1>2, <2>2, <2>3, <2>4 DEF GInv
<1> QED
    BY <1>4, <1>5

\* The puller forgets its cursor, and with it the page in hand.
LEMMA StepForgets ==
    ASSUME GInv,
           SubmitFails \/ Rebuild \/ PullerCrash \/ TornReplica
    PROVE  GInv'
<1>0. /\ {"lostState", "indexError", "pullerCrash", "tornReplica"} \subseteq Kinds
      /\ Idle # Waiting /\ Idle.phase = "idle" /\ faults \in [Kinds -> Nat]
    BY DEF Kinds, Idle, Waiting, GInv, Shapes
<1>1. CASE SubmitFails
    BY <1>0, <1>1, FaultCounts, StoreGrows DEF SubmitFails, publisherVars, pullerVars, GInv, Publisher, Shapes
<1>2. CASE Rebuild
    BY <1>0, <1>2, StoreGrows DEF Rebuild, publisherVars, GInv, Publisher, Shapes
<1>3. CASE PullerCrash
    <2>1. faults'["lostState"] = faults["lostState"] /\ faults' \in [Kinds -> Nat]
        BY <1>0, <1>3, FaultCounts DEF PullerCrash
    <2>2. /\ cursor' = NoCursor /\ call' = Idle
          /\ job # NoJob \/ call = Waiting \/ job' = NoJob
          /\ UNCHANGED <<corpus, store, state, minted, mem, replica>>
        BY <1>3 DEF PullerCrash, Forgotten, publisherVars
    <2>3. Shapes' /\ Publisher' /\ ReplicaFaithful' /\ CursorIndexed'
        BY <1>0, <2>1, <2>2 DEF GInv, Shapes, Publisher, ReplicaFaithful, CursorIndexed, Readable
    <2>4. ASSUME faults["lostState"] = 0 PROVE Intact'
        BY <1>0, <2>2, <2>4 DEF GInv, Intact, OneEpoch, InHand, Submitting, Readable
    <2> QED
        BY <2>1, <2>3, <2>4 DEF GInv
<1>4. CASE TornReplica
    <2> DEFINE p == call.page
    <2>1. faults'["lostState"] = faults["lostState"] /\ faults' \in [Kinds -> Nat]
        BY <1>0, <1>4, FaultCounts DEF TornReplica
    <2>2. /\ replica' = [replica EXCEPT ![p.epoch][p.seq] = Torn] /\ call' = Idle /\ call.phase = "ingest"
          /\ cursor' = NoCursor \/ (cursor' = cursor /\ index' = index)
          /\ UNCHANGED <<corpus, store, state, minted, mem, job>>
        BY <1>4 DEF TornReplica, Forgotten, publisherVars
    <2>3. Shapes'
        BY <2>1, <2>2 DEF GInv, Shapes
    <2>4. Publisher'
        BY <1>0, <2>2 DEF GInv, Publisher
    <2>5. ASSUME faults["lostState"] = 0 PROVE Intact'
        BY <1>0, <2>2, <2>5 DEF GInv, Intact, OneEpoch, InHand, Submitting, Readable
    <2>6. ASSUME faults["lostState"] = 0 PROVE ReplicaFaithful' /\ CursorIndexed'
        <3>1. p.epoch \in Epochs /\ p.seq \in Seqs
            BY <2>2, <2>6 DEF GInv, Intact, OneEpoch, InHand
        <3>2. \A d \in Epochs, t \in Seqs :
                 replica'[d][t] = IF d = p.epoch /\ t = p.seq THEN Torn ELSE replica[d][t]
            BY <2>2, <3>1 DEF GInv, Shapes
        <3> HIDE DEF p
        <3>3. ReplicaFaithful'
            BY <2>2, <2>6, <3>2 DEF GInv, ReplicaFaithful, Readable
        <3>4. ASSUME cursor' # NoCursor PROVE CursorIndexed'
            <4>1. cursor.epoch \in Epochs /\ cursor.seq \in Seqs
                BY <2>2, <2>6, <3>4 DEF GInv, Intact, OneEpoch
            <4>2. 0..cursor.seq \subseteq Seqs
                BY <4>1, GossipAssumption DEF Seqs
            <4> QED
                BY <2>2, <2>6, <3>2, <3>4, <4>1, <4>2 DEF GInv, CursorIndexed, Readable
        <3> QED
            BY <3>3, <3>4 DEF CursorIndexed
    <2> QED
        BY <2>1, <2>3, <2>4, <2>5, <2>6 DEF GInv, ReplicaFaithful, CursorIndexed
<1> QED
    BY <1>1, <1>2, <1>3, <1>4

LEMMA GossipNextInv == ASSUME GInv, [GossipNext]_gossipVars PROVE GInv'
<1>1. CASE UNCHANGED gossipVars
    BY <1>1 DEF gossipVars, publisherVars, pullerVars, GInv, Shapes, Publisher, Intact, OneEpoch,
                InHand, Submitting, ReplicaFaithful, CursorIndexed, Readable, Replica
<1>2. CASE GossipNext
    BY <1>2, StepPublishes, StepFinish, StepStart, StepLoseState, StepIngest, StepSubmit, StepForgets
    DEF GossipNext
<1> QED
    BY <1>1, <1>2

LEMMA GossipInvariant == GossipSpec => []GInv
BY GossipInitInv, GossipNextInv, PTL DEF GossipSpec

\* As long as no state.json is lost, a replica says what the author's own page says,
\* whatever either daemon goes through: crashes, full disks, refused records and
\* time-outs, and cursors that were forgotten.
THEOREM ReplicasAreFaithful == GossipSpec => []ReplicaFaithful
<1>1. GInv => ReplicaFaithful
    BY DEF GInv
<1> QED
    BY <1>1, GossipInvariant, PTL

\* ... and a record that the puller's cursor has passed is in its index.
THEOREM CursorsAreIndexed == GossipSpec => []CursorIndexed
<1>1. GInv => CursorIndexed
    BY DEF GInv
<1> QED
    BY <1>1, GossipInvariant, PTL
==============================================================================
