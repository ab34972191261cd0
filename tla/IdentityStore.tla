---------------------------- MODULE IdentityStore ---------------------------
(***************************************************************************)
(* The identity file (identity/keystore.rs): several processes load it,    *)
(* create it under a lock file, or reset it.  The removal of a reset is    *)
(* not under the lock, and a rename replaces what is there; a process may  *)
(* end at any step.                                                        *)
(***************************************************************************)
EXTENDS Naturals, FiniteSets

CONSTANTS
    Procs,          \* processes, or threads
    NoProc,         \* the lock file does not exist
    Stale,          \* the lock file exists and nobody will remove it
    MaxKeys,        \* bound: keypairs generated
    MaxCalls,       \* bound: calls of load_or_create and reset per process
    Mishaps         \* bound: the disturbances of a run, see MishapKinds

MishapKinds == {"reset", "crash", "timeout", "error"}

ASSUME StoreAssumption ==
    /\ NoProc \notin Procs /\ Stale \notin Procs
    /\ MaxKeys \in Nat /\ MaxCalls \in Nat
    /\ Mishaps \subseteq MishapKinds

\* Keypairs are numbered in the order of their generation.
Keypairs == 1..MaxKeys
NoKey == 0

VARIABLES
    file,       \* the identity file
    lock,       \* the lock file: the process that created it
    at,         \* where in its call a process is, see Steps
    key,        \* the keypair a process holds
    calls,      \* calls each process has made
    made,       \* keypairs generated
    replaced,   \* of each process: the file when its reset began
    removed     \* the keypairs that resets have removed

storeVars == <<file, lock, at, key, calls, made, replaced, removed>>

\* loading: path.exists() said yes; removing: in a reset; locking: waits for
\* the lock; holding: has it; writing: the temporary file is complete;
\* yielding: loads what another has stored, and releases the lock.
Steps == {"idle", "loading", "removing", "locking", "holding", "writing",
          "yielding", "done", "failed", "gone"}

StoreTypeOK ==
    /\ file \in Keypairs \cup {NoKey}
    /\ lock \in Procs \cup {NoProc, Stale}
    /\ at \in [Procs -> Steps]
    /\ key \in [Procs -> Keypairs \cup {NoKey}]
    /\ calls \in [Procs -> 0..MaxCalls]
    /\ made \in 0..MaxKeys
    /\ replaced \in [Procs -> Keypairs \cup {NoKey}]
    /\ removed \subseteq 1..made
    /\ \A p \in Procs : at[p] \in {"holding", "writing", "yielding"} => lock = p

StoreInit ==
    /\ file = NoKey
    /\ lock = NoProc
    /\ at = [p \in Procs |-> "idle"]
    /\ key = [p \in Procs |-> NoKey]
    /\ calls = [p \in Procs |-> 0]
    /\ made = 0
    /\ replaced = [p \in Procs |-> NoKey]
    /\ removed = {}

-----------------------------------------------------------------------------
Go(p, step) == at' = [at EXCEPT ![p] = step]

\* The CreationLock is dropped with the call.
Release(p) == lock' = IF lock = p THEN NoProc ELSE lock

Return(p, k) ==
    /\ Go(p, "done")
    /\ key' = [key EXCEPT ![p] = k]
    /\ Release(p)

Begin(p) ==
    /\ at[p] \in {"idle", "done", "failed"}
    /\ calls[p] < MaxCalls
    /\ calls' = [calls EXCEPT ![p] = @ + 1]
    /\ key' = [key EXCEPT ![p] = NoKey]

\* load_or_create looks for the file.
LoadOrCreate(p) ==
    /\ Begin(p)
    /\ Go(p, IF file # NoKey THEN "loading" ELSE "locking")
    /\ replaced' = [replaced EXCEPT ![p] = NoKey]
    /\ UNCHANGED <<file, lock, made, removed>>

\* reset looks for the file.
Reset(p) ==
    /\ "reset" \in Mishaps
    /\ Begin(p)
    /\ Go(p, IF file # NoKey THEN "removing" ELSE "locking")
    /\ replaced' = [replaced EXCEPT ![p] = file]
    /\ UNCHANGED <<file, lock, made, removed>>

\* load, unless the file has gone meanwhile.
Load(p) ==
    /\ at[p] = "loading"
    /\ file # NoKey
    /\ Return(p, file)
    /\ UNCHANGED <<file, calls, made, replaced, removed>>

\* Mistake: a removal that fails is passed over.
RemoveNothing(p) ==
    /\ at[p] = "removing"
    /\ file # NoKey
    /\ Go(p, "locking")
    /\ UNCHANGED <<file, lock, key, calls, made, replaced, removed>>

\* remove_file; the file may be another's by now.
RemoveFile(p) ==
    /\ at[p] = "removing"
    /\ file # NoKey
    /\ file' = NoKey
    /\ removed' = removed \cup {file}
    /\ Go(p, "locking")
    /\ UNCHANGED <<lock, key, calls, made, replaced>>

\* Mistake: the lock file is opened although it is there.
AcquireAnyway(p) ==
    /\ at[p] = "locking"
    /\ lock' = p
    /\ Go(p, "holding")
    /\ UNCHANGED <<file, key, calls, made, replaced, removed>>

\* CreationLock::acquire: the lock file is created if there is none.
Acquire(p) ==
    /\ at[p] = "locking"
    /\ lock = NoProc
    /\ lock' = p
    /\ Go(p, "holding")
    /\ UNCHANGED <<file, key, calls, made, replaced, removed>>

\* The lock file is created and cannot be written: the call returns the error
\* before there is a CreationLock to drop, and the file stays.
AcquireFails(p) ==
    /\ "error" \in Mishaps
    /\ at[p] = "locking"
    /\ lock = NoProc
    /\ lock' = Stale
    /\ Go(p, "failed")
    /\ UNCHANGED <<file, key, calls, made, replaced, removed>>

\* With the lock the file is looked for again.
Yield(p) ==
    /\ at[p] = "holding"
    /\ file # NoKey
    /\ Go(p, "yielding")
    /\ UNCHANGED <<file, lock, key, calls, made, replaced, removed>>

YieldLoad(p) ==
    /\ at[p] = "yielding"
    /\ file # NoKey
    /\ Return(p, file)
    /\ UNCHANGED <<file, calls, made, replaced, removed>>

\* Mistake: with the lock the file is not looked for again.
GenerateAnyway(p) ==
    /\ at[p] = "holding"
    /\ made < MaxKeys
    /\ made' = made + 1
    /\ key' = [key EXCEPT ![p] = made + 1]
    /\ Go(p, "writing")
    /\ UNCHANGED <<file, lock, calls, replaced, removed>>

\* A keypair is generated and written to the temporary file.
Generate(p) ==
    /\ at[p] = "holding"
    /\ file = NoKey
    /\ made < MaxKeys
    /\ made' = made + 1
    /\ key' = [key EXCEPT ![p] = made + 1]
    /\ Go(p, "writing")
    /\ UNCHANGED <<file, lock, calls, replaced, removed>>

\* The rename puts it in the place of whatever is there.
Rename(p) ==
    /\ at[p] = "writing"
    /\ file' = key[p]
    /\ Return(p, key[p])
    /\ UNCHANGED <<calls, made, replaced, removed>>

\* Mistake: an error leaves the lock file behind.
FailLocked(p) ==
    /\ at[p] \in {"loading", "removing", "yielding"}
    /\ file = NoKey
    /\ Go(p, "failed")
    /\ UNCHANGED <<file, lock, key, calls, made, replaced, removed>>

\* The file has gone since it was looked for: the call returns an error.
Fail(p) ==
    /\ at[p] \in {"loading", "removing", "yielding"}
    /\ file = NoKey
    /\ Go(p, "failed")
    /\ Release(p)
    /\ UNCHANGED <<file, key, calls, made, replaced, removed>>

\* The system refuses an operation, the encryption for instance.
IoFails(p) ==
    /\ "error" \in Mishaps
    /\ at[p] \in {"loading", "removing", "locking", "holding", "writing", "yielding"}
    /\ Go(p, "failed")
    /\ key' = [key EXCEPT ![p] = NoKey]
    /\ Release(p)
    /\ UNCHANGED <<file, calls, made, replaced, removed>>

\* The lock was waited for too long.
TimeOut(p) ==
    /\ "timeout" \in Mishaps
    /\ at[p] = "locking" /\ lock # NoProc
    /\ Go(p, "failed")
    /\ UNCHANGED <<file, lock, key, calls, made, replaced, removed>>

\* The process ends; a lock file it created stays.
Crash(p) ==
    /\ "crash" \in Mishaps
    /\ at[p] # "gone"
    /\ Go(p, "gone")
    /\ lock' = IF lock = p THEN Stale ELSE lock
    /\ UNCHANGED <<file, key, calls, made, replaced, removed>>

Call(p) ==
    \/ Load(p) \/ RemoveFile(p) \/ Acquire(p) \/ Yield(p) \/ YieldLoad(p)
    \/ Generate(p) \/ Rename(p) \/ Fail(p)

Mishap(p) == AcquireFails(p) \/ IoFails(p) \/ TimeOut(p) \/ Crash(p)

StoreNext == \E p \in Procs : LoadOrCreate(p) \/ Reset(p) \/ Call(p) \/ Mishap(p)

StoreSpec == StoreInit /\ [][StoreNext]_storeVars

\* A process that has begun a call goes on with it; of those that wait for the
\* lock, each gets it if it is free often enough, and no mishap is needed.
FairStoreSpec ==
    /\ StoreSpec
    /\ \A p \in Procs : WF_storeVars(Call(p)) /\ SF_storeVars(Acquire(p))

-----------------------------------------------------------------------------
(* Properties.                                                               *)

\* All agree (the test concurrent_creation_uses_the_persisted_winner): who has
\* an identity that no reset has removed has the one in the file, although
\* the rename replaces what is there.
OneIdentity ==
    \A p \in Procs : at[p] = "done" => key[p] \in {file} \cup removed

\* A reset returns another identity than the one it began with (the test
\* reset_creates_a_new_peer_id), also when others reset or create meanwhile.
ResetIsNew ==
    \A p \in Procs : at[p] = "done" /\ replaced[p] # NoKey => key[p] # replaced[p]

\* Every call ends, however many wait for the lock and without a time-out,
\* unless a process left the lock file behind.
CallEnds ==
    \A p \in Procs :
        at[p] \in Steps \ {"idle", "done", "failed", "gone"}
            ~> at[p] \in {"done", "failed", "gone"} \/ lock = Stale
=============================================================================
