--------------------------- MODULE PeerAuthProofs ---------------------------
(***************************************************************************)
(* Proofs about the replay window for any skew, capacity and number of     *)
(* requests.  The argument: as long as an accepted request is fresh, its   *)
(* entry has not expired (Remembered), so a second delivery finds it.      *)
(***************************************************************************)
EXTENDS PeerAuth, TLAPS, FiniteSetTheorems

\* A request this daemon accepted was signed, and its entry lasts at least as
\* long as the request could pass the freshness check.
Remembered ==
    \A r \in Requests : accepted[r] # 0 =>
        /\ timestamp[r] \in Nat
        /\ now <= timestamp[r] + Skew =>
               entries[r] \in Int /\ entries[r] > timestamp[r] + Skew

Types ==
    /\ now \in Nat
    /\ timestamp \in [Requests -> Nat \cup {Unsigned}]
    /\ entries \in [Requests -> Int \cup {NoEntry}]
    /\ accepted \in [Requests -> Nat]

Occupied == {r \in Requests : entries[r] # NoEntry}

IInv ==
    /\ Types
    /\ Cardinality(Occupied) <= MaxEntries
    /\ Remembered
    /\ AcceptedOnce

\* The entry of a request accepted now outlasts its freshness.
LEMMA ExpiryCovers ==
    ASSUME Types, NEW r \in Requests, timestamp[r] \in Nat
    PROVE  /\ Expiry(r) \in Int
           /\ Expiry(r) > timestamp[r] + Skew
           /\ Expiry(r) > now
BY PeerAuthAssumption DEF Types, Expiry, Ttl

\* The initial state satisfies the inductive invariant.
LEMMA InitInv == DoorInit => IInv
<1> SUFFICES ASSUME DoorInit PROVE IInv
    OBVIOUS
<1>1. Types /\ Remembered /\ AcceptedOnce
    BY PeerAuthAssumption DEF DoorInit, Types, Remembered, AcceptedOnce
<1>2. Occupied = {}
    BY DEF DoorInit, Occupied
<1>3. Cardinality(Occupied) <= MaxEntries
    BY <1>2, FS_EmptySet, PeerAuthAssumption
<1>4. QED
    BY <1>1, <1>3 DEF IInv

\* A verification keeps what is live, and adds at most the request itself.
LEMMA VerifyStep ==
    ASSUME IInv, NEW r \in Requests, Verify(r)
    PROVE  IInv'
<1> USE DEF IInv
<1>1. timestamp[r] \in Nat /\ now' = now /\ timestamp' = timestamp
    BY DEF Verify, Types
<1>2. IsFiniteSet(Live) /\ Live \subseteq Occupied /\ IsFiniteSet(Occupied)
    BY FS_Subset, PeerAuthAssumption DEF Live, Occupied
<1>3. Cardinality(Live) \in Nat /\ Cardinality(Live) <= Cardinality(Occupied)
    BY <1>2, FS_Subset, FS_CardinalityType
<1>4. CASE r \in Live \/ Full
    <2>1. /\ entries' = [q \in Requests |-> IF q \in Live THEN entries[q] ELSE NoEntry]
          /\ accepted' = accepted
        BY <1>4 DEF Verify
    <2>2. Types'
        BY <1>1, <2>1 DEF Types
    <2>3. Occupied' = Live /\ Live' = Live
        BY <1>1, <2>1 DEF Occupied, Live, Types
    <2>4. Remembered' /\ AcceptedOnce'
        BY <1>1, <2>1, PeerAuthAssumption DEF Remembered, AcceptedOnce, Live, Types
    <2>5. (Cardinality(Occupied) <= MaxEntries)'
        BY <1>2, <1>3, <2>3, FS_CardinalityType, PeerAuthAssumption
    <2>6. QED
        BY <2>2, <2>4, <2>5
<1>5. CASE r \notin Live /\ ~Full
    <2>1. /\ entries' = [q \in Requests |-> IF q = r THEN Expiry(r)
                                            ELSE IF q \in Live THEN entries[q] ELSE NoEntry]
          /\ accepted' = [accepted EXCEPT ![r] = @ + 1]
        BY <1>5 DEF Verify
    <2>2. Expiry(r) \in Int /\ Expiry(r) > timestamp[r] + Skew /\ Expiry(r) > now
        BY <1>1, ExpiryCovers
    <2>3. Types'
        BY <1>1, <2>1, <2>2 DEF Types
    <2>4. Live' = Live \cup {r}
        BY <1>1, <2>1, <2>2, PeerAuthAssumption DEF Live, Types
    <2>5. Occupied' = Live \cup {r}
        BY <2>1, <2>2, PeerAuthAssumption DEF Occupied, Live, Types
    <2>6. (Cardinality(Occupied) <= MaxEntries)'
        <3>1. Cardinality(Live \cup {r}) = Cardinality(Live) + 1
            BY <1>2, <1>5, FS_AddElement
        <3>2. QED
            BY <1>3, <1>5, <2>5, <3>1, PeerAuthAssumption DEF Full
    <2>7. Remembered'
        BY <1>1, <2>1, <2>2, PeerAuthAssumption DEF Remembered, Live, Types
    <2>8. accepted[r] = 0
        <3>1. now <= timestamp[r] + Skew
            BY <1>1, PeerAuthAssumption DEF Verify, Fresh, Types
        <3>2. QED
            BY <1>1, <1>5, <3>1, PeerAuthAssumption DEF Remembered, Live, Types
    <2>9. AcceptedOnce'
        BY <2>1, <2>8 DEF AcceptedOnce, Types
    <2>10. QED
        BY <2>3, <2>6, <2>7, <2>9
<1>6. QED
    BY <1>4, <1>5

\* Every step preserves the invariant.
LEMMA StepInv == IInv /\ [DoorNext]_doorVars => IInv'
<1> SUFFICES ASSUME IInv, [DoorNext]_doorVars PROVE IInv'
    OBVIOUS
<1> USE DEF IInv
<1>1. CASE Tick
    <2>1. now' = now + 1 /\ UNCHANGED <<timestamp, entries, accepted>>
        BY <1>1 DEF Tick
    <2>2. Types' /\ AcceptedOnce' /\ Occupied' = Occupied
        BY <2>1 DEF Types, AcceptedOnce, Occupied
    <2>3. Remembered'
        BY <2>1, PeerAuthAssumption DEF Remembered, Types
    <2>4. QED
        BY <2>2, <2>3
<1>2. CASE Restart
    <2>1. Types' /\ Remembered' /\ AcceptedOnce'
        BY <1>2 DEF Restart, Types, Remembered, AcceptedOnce
    <2>2. Occupied' = {}
        BY <1>2 DEF Restart, Occupied
    <2>3. (Cardinality(Occupied) <= MaxEntries)'
        BY <2>2, FS_EmptySet, PeerAuthAssumption
    <2>4. QED
        BY <2>1, <2>3
<1>3. ASSUME NEW r \in Requests, Sign(r) PROVE IInv'
    <2>1. PICK t \in 0..MaxTime : timestamp' = [timestamp EXCEPT ![r] = t]
        BY <1>3 DEF Sign
    <2>2. accepted[r] = 0
        BY <1>3, PeerAuthAssumption DEF Sign, Remembered, Types
    <2>3. UNCHANGED <<now, entries, accepted>>
        BY <1>3 DEF Sign
    <2>4. Types' /\ AcceptedOnce' /\ Occupied' = Occupied
        BY <2>1, <2>3, PeerAuthAssumption DEF Types, AcceptedOnce, Occupied
    <2>5. Remembered'
        BY <2>1, <2>2, <2>3 DEF Remembered, Types
    <2>6. QED
        BY <2>4, <2>5
<1>4. ASSUME NEW r \in Requests, Verify(r) PROVE IInv'
    BY <1>4, VerifyStep
<1>5. CASE UNCHANGED doorVars
    BY <1>5 DEF doorVars, Types, Remembered, AcceptedOnce, Occupied
<1>6. QED
    BY <1>1, <1>2, <1>3, <1>4, <1>5 DEF DoorNext

\* The invariant holds in every reachable state.
THEOREM Inductive == DoorSpec => []IInv
BY InitInv, StepInv, PTL DEF DoorSpec

\* The cache is well formed and never exceeds its capacity.
THEOREM TypeCorrect == DoorSpec => []DoorTypeOK
<1>1. IInv => DoorTypeOK
    BY DEF IInv, DoorTypeOK, Types, Occupied
<1>2. QED
    BY <1>1, Inductive, PTL

\* One daemon accepts one signed request at most once, for any skew, capacity
\* and pattern of deliveries.
THEOREM AcceptedOnceEver == DoorSpec => []AcceptedOnce
<1>1. IInv => AcceptedOnce
    BY DEF IInv
<1>2. QED
    BY <1>1, Inductive, PTL
=============================================================================
