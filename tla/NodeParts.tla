------------------------------ MODULE NodeParts ------------------------------
(***************************************************************************)
(* Four parts of a node that share no state: the sequence windows          *)
(* (ReplayWindow), the rate limits (RateLimits) and the external addresses *)
(* (ExternalAddresses), which are tables of the network actor, and the     *)
(* identity file (IdentityStore).  Their joint behaviours are therefore    *)
(* the behaviours of each, and a behaviour here exercises one of them.     *)
(***************************************************************************)
EXTENDS ReplayWindow, RateLimits, ExternalAddresses, IdentityStore

VARIABLE part       \* bound: the part that a behaviour exercises

partsVars == <<vars, rateVars, addressVars, storeVars, part>>

PartsInit ==
    /\ part \in {"windows", "limits", "addresses", "identity"}
    /\ Init /\ RateInit /\ AddressInit /\ StoreInit
    /\ part # "limits" => traffic = "gossip"
    /\ part # "addresses" => testNetwork = FALSE

SequenceWindows ==
    /\ part = "windows"
    /\ Next
    /\ UNCHANGED <<rateVars, addressVars, storeVars, part>>

TrafficLimits ==
    /\ part = "limits"
    /\ RateNext
    /\ UNCHANGED <<vars, addressVars, storeVars, part>>

AddressTable ==
    /\ part = "addresses"
    /\ AddressNext
    /\ UNCHANGED <<vars, rateVars, storeVars, part>>

IdentityFile(A) ==
    /\ part = "identity"
    /\ A
    /\ UNCHANGED <<vars, rateVars, addressVars, part>>

PartsNext ==
    \/ SequenceWindows
    \/ TrafficLimits
    \/ AddressTable
    \/ IdentityFile(StoreNext)

\* The fairness is that of IdentityStore.
PartsSpec ==
    /\ PartsInit
    /\ [][PartsNext]_partsVars
    /\ \A p \in Procs :
        /\ WF_partsVars(IdentityFile(Call(p)))
        /\ SF_partsVars(IdentityFile(Acquire(p)))
=============================================================================
