-------------------------- MODULE ExternalAddresses --------------------------
(***************************************************************************)
(* The addresses a node listens on and the Swarm's external ones, at which *)
(* others may reach it (network/swarm.rs): three peers that observe an     *)
(* address promote it, and so does AutoNAT; it expires when nobody         *)
(* confirms it, and is withdrawn when AutoNAT finds the node private.      *)
(* Beside that libp2p confirms addresses of its own: the ones AutoNAT was  *)
(* dialed at and the circuits of the relay client.                         *)
(***************************************************************************)
EXTENDS Integers, FiniteSets

CONSTANTS
    Observers,          \* peers that send Identify
    Addresses,
    PublicAddresses,    \* those with a public IP and without a DNS name
    PrivateAddresses,   \* those with a private or loopback IP
    CircuitAddresses,   \* those through a relay
    Contributors,       \* three: observers that promote an address
    Ttl                 \* bound: ticks of the 30 minutes an address is kept

ASSUME AddressAssumption ==
    /\ PublicAddresses \cup PrivateAddresses \cup CircuitAddresses \subseteq Addresses
    /\ PublicAddresses \cap PrivateAddresses = {}
    /\ Contributors \in Nat \ {0} /\ Ttl \in Nat

Absent == -1            \* age of what is not in the table

VARIABLES
    testNetwork,        \* allow_private_test_network, as configured
    candidates,         \* external_candidates: contributors and age
    promoted,           \* promoted_external: ticks since the last promotion
    external,           \* the Swarm's external addresses
    confirmed,          \* history: those libp2p confirmed by itself
    listening,          \* listen_addresses
    reachability

addressVars == <<testNetwork, candidates, promoted, external, confirmed,
                 listening, reachability>>

NoCandidate == [by |-> {}, age |-> Absent]

AddressInit ==
    /\ testNetwork \in BOOLEAN
    /\ candidates = [a \in Addresses |-> NoCandidate]
    /\ promoted = [a \in Addresses |-> Absent]
    /\ external = {}
    /\ confirmed = {}
    /\ listening = {}
    /\ reachability = "Unknown"

-----------------------------------------------------------------------------
(* Observations and AutoNAT.                                                 *)

\* swarm.remove_external_address, whoever had added it.
Withdraw(S) ==
    /\ external' = external \ S
    /\ confirmed' = confirmed \ S

Promote(a) ==
    /\ promoted' = [promoted EXCEPT ![a] = 0]
    /\ external' = external \cup {a}

\* observe_external_address: a public address gathers its observers; the one
\* that makes them enough promotes it, and so does each one after that.
ObserveExternal(p, a) ==
    IF a \notin PublicAddresses
    THEN UNCHANGED <<candidates, promoted, external>>
    ELSE LET by == candidates[a].by \cup {p}
         IN  /\ candidates' = [candidates EXCEPT ![a] = [by |-> by, age |-> 0]]
             /\ IF Cardinality(by) >= Contributors
                THEN Promote(a)
                ELSE UNCHANGED <<promoted, external>>

\* The part of Identify about our own address.
Identify(p, a) ==
    /\ IF testNetwork /\ a \in PrivateAddresses
       THEN external' = external \cup {a} /\ UNCHANGED <<candidates, promoted>>
       ELSE ObserveExternal(p, a)
    /\ UNCHANGED <<testNetwork, confirmed, listening, reachability>>

AutonatPublic(a) ==
    /\ reachability' = "Public"
    /\ IF a \in PublicAddresses THEN Promote(a) ELSE UNCHANGED <<promoted, external>>
    /\ UNCHANGED <<testNetwork, candidates, confirmed, listening>>

\* Mistake: the promoted addresses are forgotten, and stay with the Swarm.
ClearTableOnly ==
    /\ promoted' = [a \in Addresses |-> Absent]
    /\ UNCHANGED <<external, confirmed>>

\* clear_promoted_external leaves the candidates: one observation more
\* promotes such an address again.
ClearPromoted ==
    /\ Withdraw({a \in Addresses : promoted[a] # Absent})
    /\ promoted' = [a \in Addresses |-> Absent]

AutonatPrivate ==
    /\ reachability' = "Private"
    /\ ClearPromoted
    /\ UNCHANGED <<testNetwork, candidates, listening>>

AutonatUnknown ==
    /\ reachability' = "Unknown"
    /\ UNCHANGED <<testNetwork, candidates, promoted, external, confirmed, listening>>

-----------------------------------------------------------------------------
(* Listeners and relays.                                                     *)

NewListenAddr(a) ==
    /\ listening' = listening \cup {a}
    /\ external' = IF testNetwork THEN external \cup {a} ELSE external
    /\ UNCHANGED <<testNetwork, candidates, promoted, confirmed, reachability>>

\* A listener closed.
ExpiredListenAddr(a) ==
    /\ listening' = listening \ {a}
    /\ UNCHANGED <<testNetwork, candidates, promoted, external, confirmed, reachability>>

\* The event comes when libp2p has confirmed the address: AutoNAT's server
\* dialed it, or a relay accepted a reservation.  Only of a circuit does the
\* code take note.
ExternalAddrConfirmed(a) ==
    /\ external' = external \cup {a}
    /\ confirmed' = confirmed \cup {a}
    /\ listening' = IF a \in CircuitAddresses THEN listening \cup {a} ELSE listening
    /\ UNCHANGED <<testNetwork, candidates, promoted, reachability>>

\* A reservation ended: libp2p withdraws the circuit, promoted or not.
ExternalAddrExpired(a) ==
    /\ a \in CircuitAddresses
    /\ Withdraw({a})
    /\ listening' = listening \ {a}
    /\ UNCHANGED <<testNetwork, candidates, promoted, reachability>>

-----------------------------------------------------------------------------
(* Time.                                                                     *)

Aged(age) == IF age = Absent \/ age > Ttl THEN age ELSE age + 1

StalePromoted == {a \in Addresses : Aged(promoted[a]) > Ttl}

\* A tick of the clock and expire_external_addresses, which update_snapshot
\* calls every second.
ExpireExternal ==
    /\ candidates' = [a \in Addresses |->
                        IF Aged(candidates[a].age) > Ttl
                        THEN NoCandidate
                        ELSE [candidates[a] EXCEPT !.age = Aged(@)]]
    /\ promoted' = [a \in Addresses |->
                        IF a \in StalePromoted THEN Absent ELSE Aged(promoted[a])]
    /\ Withdraw(StalePromoted)
    /\ UNCHANGED <<testNetwork, listening, reachability>>

\* The LRU map forgets a candidate.
ForgetCandidate(a) ==
    /\ candidates[a] # NoCandidate
    /\ candidates' = [candidates EXCEPT ![a] = NoCandidate]
    /\ UNCHANGED <<testNetwork, promoted, external, confirmed, listening, reachability>>

AddressNext ==
    \/ \E a \in Addresses :
        \/ \E p \in Observers : Identify(p, a)
        \/ AutonatPublic(a)
        \/ NewListenAddr(a)
        \/ ExpiredListenAddr(a)
        \/ ExternalAddrConfirmed(a)
        \/ ExternalAddrExpired(a)
        \/ ForgetCandidate(a)
    \/ AutonatPrivate
    \/ AutonatUnknown
    \/ ExpireExternal

AddressSpec == AddressInit /\ [][AddressNext]_addressVars

-----------------------------------------------------------------------------
(* Properties.                                                               *)

\* Outside a test network the Swarm's external addresses are those libp2p has
\* confirmed by itself and those that are promoted, public ones that were
\* confirmed within the time to live; and a promoted address is among them
\* unless its relay went away.  Whatever the order of observations, expiry and
\* AutoNAT's changes of mind, the table and the Swarm's set do not part, no
\* private address gets there by an observation, and a node that moved drops
\* its old address.  (Identify sends this set together with the addresses the
\* node listens on, of which nothing is said here.)
ExternalIsBacked ==
    ~ testNetwork =>
        /\ \A a \in external \ confirmed : a \in PublicAddresses /\ promoted[a] \in 0 .. Ttl
        /\ \A a \in Addresses : promoted[a] # Absent =>
                promoted[a] <= Ttl /\ a \in external \cup CircuitAddresses
=============================================================================
