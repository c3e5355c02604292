------------------------------ MODULE PeerAuth ------------------------------
(***************************************************************************)
(* The replay window of the peer door (daemon/peer_auth.py).               *)
(*                                                                         *)
(* A member signs a request with a fresh nonce and its own clock.  The     *)
(* door accepts a request whose timestamp is within Skew of its clock and  *)
(* whose nonce it does not remember; memory is bounded, lives only as long *)
(* as the daemon, and forgets an entry when it expires.  The network may   *)
(* deliver a signed request any number of times, late or never.  The       *)
(* route's `authenticate` runs on the event loop, so verifications do not  *)
(* overlap.  Signature, membership and source checks reject a request      *)
(* without touching any state and are left out.                            *)
(***************************************************************************)
EXTENDS Integers, FiniteSets

CONSTANTS
    Requests,    \* signed requests; a nonce is never drawn twice
    Skew,        \* max_clock_skew_seconds
    MaxEntries,  \* capacity of the nonce cache
    MaxTime,     \* bound: the clock stops here
    Unsigned,    \* the timestamp of a request nobody has signed yet
    NoEntry      \* the expiry of a nonce that is not remembered

ASSUME PeerAuthAssumption ==
    /\ IsFiniteSet(Requests)
    /\ Skew \in Nat \ {0}
    /\ MaxEntries \in Nat \ {0}
    /\ MaxTime \in Nat
    /\ Unsigned \notin Int /\ NoEntry \notin Int

VARIABLES
    now,         \* the daemon's clock, in seconds
    timestamp,   \* the timestamp each request carries
    entries,     \* the nonce cache: when each entry expires
    accepted     \* history: how often this daemon accepted each request

doorVars == <<now, timestamp, entries, accepted>>

\* NonceCache is built with twice the skew.
Ttl == 2 * Skew

DoorInit ==
    /\ now = 0
    /\ timestamp = [r \in Requests |-> Unsigned]
    /\ entries = [r \in Requests |-> NoEntry]
    /\ accepted = [r \in Requests |-> 0]

Tick ==
    /\ now < MaxTime
    /\ now' = now + 1
    /\ UNCHANGED <<timestamp, entries, accepted>>

\* sign_peer_request: the signer's clock may be off by more than the skew.
Sign(r) ==
    /\ timestamp[r] = Unsigned
    /\ \E t \in 0..MaxTime : timestamp' = [timestamp EXCEPT ![r] = t]
    /\ UNCHANGED <<now, entries, accepted>>

Fresh(r) == now - timestamp[r] <= Skew /\ timestamp[r] - now <= Skew

\* consume first drops what has expired.
Live == {r \in Requests : entries[r] # NoEntry /\ entries[r] > now}

\* A full cache refuses; it never drops an entry that is still live.
Full == Cardinality(Live) >= MaxEntries

\* (mutant) the entry lives for the cache's own period only
ExpiryTtlOnly(r) == now + Ttl

\* An entry outlives the request's freshness.
Expiry(r) ==
    LET own == now + Ttl
        fresh == timestamp[r] + Skew + 1
    IN  IF own > fresh THEN own ELSE fresh

\* PeerAuthenticator.verify and NonceCache.consume on a request that is signed
\* by a member and comes from its node.
Verify(r) ==
    /\ timestamp[r] # Unsigned
    /\ Fresh(r)
    /\ IF r \in Live \/ Full
       THEN /\ entries' = [q \in Requests |-> IF q \in Live THEN entries[q] ELSE NoEntry]
            /\ UNCHANGED accepted
       ELSE /\ entries' = [q \in Requests |-> IF q = r THEN Expiry(r)
                                              ELSE IF q \in Live THEN entries[q]
                                              ELSE NoEntry]
            /\ accepted' = [accepted EXCEPT ![r] = @ + 1]
    /\ UNCHANGED <<now, timestamp>>

\* A restarted daemon remembers nothing; what it accepted before is not counted.
Restart ==
    /\ entries' = [r \in Requests |-> NoEntry]
    /\ accepted' = [r \in Requests |-> 0]
    /\ UNCHANGED <<now, timestamp>>

DoorNext ==
    \/ Tick
    \/ Restart
    \/ \E r \in Requests : Sign(r) \/ Verify(r)

DoorSpec == DoorInit /\ [][DoorNext]_doorVars

(***************************************************************************)
(* Properties                                                              *)
(***************************************************************************)

\* Type invariant; the cache never holds more than MaxEntries nonces.
DoorTypeOK ==
    /\ now \in Nat
    /\ timestamp \in [Requests -> Nat \cup {Unsigned}]
    /\ entries \in [Requests -> Int \cup {NoEntry}]
    /\ accepted \in [Requests -> Nat]
    /\ Cardinality({r \in Requests : entries[r] # NoEntry}) <= MaxEntries

\* A running daemon accepts a signed request at most once, however often and
\* however late it is delivered: no entry is forgotten while its request could
\* still pass the freshness check.
AcceptedOnce == \A r \in Requests : accepted[r] <= 1
=============================================================================
