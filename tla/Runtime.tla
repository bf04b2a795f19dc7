------------------------------- MODULE Runtime -------------------------------
(***************************************************************************)
(* The lifecycle of PostgreSQLAdapterRuntime (_runtime.py): threads open,  *)
(* use and close one runtime.  Its lock guards the flags and the pool      *)
(* reference only: a use takes the pool under the lock and its connection  *)
(* after, when the pool may have been closed.  A use is any of probe,      *)
(* verify_physical, _semantics_connection and a session of open_session;   *)
(* what one does with its connection is another module's.  ConnectionPool  *)
(* is psycopg's, modelled from the calls made of it.                       *)
(***************************************************************************)
EXTENDS Integers, FiniteSets

CONSTANTS
    Threads,
    NoThread,
    MinSize,    \* client.min_size and max_size
    MaxSize,
    MaxCalls    \* bound on the calls of each operation

Operations == {"open", "use", "close"}

ASSUME RuntimeAssumption ==
    /\ NoThread \notin Threads
    /\ MinSize \in Nat /\ MaxSize \in Nat
    /\ MaxCalls \in [Operations -> Nat]

\* Each call of open makes one pool at most.
Pools == 1 .. MaxCalls["open"]
NoPool == 0

Outcomes == {"none", "returned", "RUNTIME_CLOSED", "RUNTIME_STATE", "DEADLINE_EXCEEDED",
             "PoolTimeout", "PoolClosed", "OSError"}

Call == [op : Operations,
         at : {"done", "entered", "opening", "closing", "admitted", "connected"},
         pool : Pools \cup {NoPool}, outcome : Outcomes]

VARIABLES
    lock,       \* the thread in _lock
    opened, closed,
    pool,       \* _pool
    files,      \* the TLS directory is on disk
    state,      \* of each ConnectionPool
    idle,       \* its connections that nobody uses
    call,       \* the last call of each thread
    calls       \* how many there were of each operation

runtime == <<lock, opened, closed, pool, files>>
vars == <<runtime, state, idle, call, calls>>

InUse(p) == {t \in Threads : call[t].at = "connected" /\ call[t].pool = p}
Waiting(p) == {t \in Threads : call[t].at = "admitted" /\ call[t].pool = p}
Size(p) == idle[p] + Cardinality(InUse(p))

Returns(t, outcome) == call' = [call EXCEPT ![t].at = "done", ![t].outcome = outcome]
Holds(t, at, p) == call' = [call EXCEPT ![t].at = at, ![t].pool = p]

-----------------------------------------------------------------------------

TypeOK ==
    /\ lock \in Threads \cup {NoThread}
    /\ opened \in BOOLEAN /\ closed \in BOOLEAN /\ files \in BOOLEAN
    /\ pool \in Pools \cup {NoPool}
    /\ pool # NoPool => opened
    /\ closed => ~opened
    /\ files <=> ~closed
    /\ state \in [Pools -> {"new", "open", "closed"}]
    /\ idle \in [Pools -> Nat]
    /\ call \in [Threads -> Call]
    /\ calls \in [Operations -> Nat]

\* The runtime as the factory makes it, for a Binding with TLS.
Init ==
    /\ lock = NoThread
    /\ opened = FALSE /\ closed = FALSE
    /\ pool = NoPool
    /\ files = TRUE
    /\ state = [p \in Pools |-> "new"]
    /\ idle = [p \in Pools |-> 0]
    /\ call = [t \in Threads |->
                  [op |-> "use", at |-> "done", pool |-> NoPool, outcome |-> "none"]]
    /\ calls = [op \in Operations |-> 0]

Enter(t, op) ==
    /\ call[t].at = "done"
    /\ calls[op] < MaxCalls[op]
    /\ calls' = [calls EXCEPT ![op] = @ + 1]
    /\ call' = [call EXCEPT ![t] =
                   [op |-> op, at |-> "entered", pool |-> NoPool, outcome |-> "none"]]
    /\ UNCHANGED <<runtime, state, idle>>

\* The thread is past `with self._lock`.
Locks(t, op) ==
    /\ call[t].at = "entered" /\ call[t].op = op
    /\ lock = NoThread

-----------------------------------------------------------------------------
(* open                                                                    *)

OpenAtOnce(t) ==
    /\ Locks(t, "open")
    /\ closed \/ opened
    /\ Returns(t, IF closed THEN "RUNTIME_CLOSED" ELSE "returned")
    /\ UNCHANGED <<runtime, state, idle, calls>>

\* Mutant: only whether the runtime is open is looked at.
MayOpenAgain == ~opened

MayOpen == ~closed /\ ~opened

\* A pool is made, and pool.open(wait=True) entered under the lock.
OpenPool(t, p) ==
    /\ Locks(t, "open")
    /\ MayOpen
    /\ state[p] = "new"
    /\ state' = [state EXCEPT ![p] = "open"]
    /\ lock' = t
    /\ Holds(t, "opening", p)
    /\ UNCHANGED <<opened, closed, pool, files, idle, calls>>

\* All of min_size is connected.
Opened(t) ==
    /\ call[t].at = "opening"
    /\ Size(call[t].pool) >= MinSize
    /\ pool' = call[t].pool
    /\ opened' = TRUE
    /\ lock' = NoThread
    /\ Returns(t, "returned")
    /\ UNCHANGED <<closed, files, state, idle, calls>>

\* pool.close(): nobody waits on it or is given a connection of it any more.
ShutPool(p) ==
    /\ state' = [state EXCEPT ![p] = "closed"]
    /\ idle' = [idle EXCEPT ![p] = 0]

\* Mutant: the pool that failed to open is left as it is.
OpenFailedUnshut(t) ==
    /\ call[t].at = "opening"
    /\ lock' = NoThread
    /\ Returns(t, "PoolTimeout")
    /\ UNCHANGED <<opened, closed, pool, files, state, idle, calls>>

\* pool.open timed out: the pool is closed, and a later open makes another.
OpenFailed(t) ==
    /\ call[t].at = "opening"
    /\ ShutPool(call[t].pool)
    /\ lock' = NoThread
    /\ Returns(t, "PoolTimeout")
    /\ UNCHANGED <<opened, closed, pool, files, calls>>

-----------------------------------------------------------------------------
(* close                                                                   *)

CloseAtOnce(t) ==
    /\ Locks(t, "close")
    /\ closed
    /\ Returns(t, "returned")
    /\ UNCHANGED <<runtime, state, idle, calls>>

\* The pool is closed; the call waits for its workers under the lock.
ClosePool(t) ==
    /\ Locks(t, "close")
    /\ ~closed
    /\ lock' = t
    /\ Holds(t, "closing", pool)
    /\ IF pool = NoPool THEN UNCHANGED <<state, idle>> ELSE ShutPool(pool)
    /\ UNCHANGED <<opened, closed, pool, files, calls>>

\* Mutant: the reference to the pool is kept.
ClosedButKept(t) ==
    /\ call[t].at = "closing"
    /\ files' = FALSE
    /\ opened' = FALSE
    /\ closed' = TRUE
    /\ lock' = NoThread
    /\ Returns(t, "returned")
    /\ UNCHANGED <<pool, state, idle, calls>>

\* The TLS directory cannot be removed: the pool is gone, the flags stay.  (The
\* connection string is gone as well, so that a pool that a later open makes connects
\* to wherever it can, or not at all.)
CleanupFails(t) ==
    /\ call[t].at = "closing"
    /\ pool' = NoPool
    /\ lock' = NoThread
    /\ Returns(t, "OSError")
    /\ UNCHANGED <<opened, closed, files, state, idle, calls>>

\* The rest of close: the TLS directory goes, and the flags are set.
Closed(t) ==
    /\ call[t].at = "closing"
    /\ pool' = NoPool
    /\ files' = FALSE
    /\ opened' = FALSE
    /\ closed' = TRUE
    /\ lock' = NoThread
    /\ Returns(t, "returned")
    /\ UNCHANGED <<state, idle, calls>>

-----------------------------------------------------------------------------
(* use                                                                     *)

\* The budget of the context ends before the lock is had, or is found spent in it.
AdmissionExpires(t) ==
    /\ call[t].at = "entered" /\ call[t].op = "use"
    /\ Returns(t, "DEADLINE_EXCEEDED")
    /\ UNCHANGED <<runtime, state, idle, calls>>

\* _require_pool: the lock is left before the pool is used.
Admit(t) ==
    /\ Locks(t, "use")
    /\ CASE closed -> Returns(t, "RUNTIME_CLOSED")
         [] ~closed /\ (~opened \/ pool = NoPool) -> Returns(t, "RUNTIME_STATE")
         [] OTHER -> Holds(t, "admitted", pool)
    /\ UNCHANGED <<runtime, state, idle, calls>>

Getconn(t) ==
    LET p == call[t].pool IN
    /\ call[t].at = "admitted"
    /\ state[p] = "open"
    /\ idle[p] > 0
    /\ idle' = [idle EXCEPT ![p] = @ - 1]
    /\ Holds(t, "connected", p)
    /\ UNCHANGED <<runtime, state, calls>>

\* getconn raises: the pool is closed, or no connection came within the timeout.
GetconnFails(t) ==
    /\ call[t].at = "admitted"
    /\ Returns(t, IF state[call[t].pool] = "closed" THEN "PoolClosed" ELSE "PoolTimeout")
    /\ UNCHANGED <<runtime, state, idle, calls>>

\* putconn, and the end of the use: a connection that broke, or whose pool has
\* been closed, is closed.
Putconn(t) ==
    LET p == call[t].pool IN
    /\ call[t].at = "connected"
    /\ \/ UNCHANGED idle
       \/ state[p] = "open" /\ idle' = [idle EXCEPT ![p] = @ + 1]
    /\ Returns(t, "returned")
    /\ UNCHANGED <<runtime, state, calls>>

\* A worker of the pool connects, for min_size or for a use that waits.
Connect(p) ==
    /\ state[p] = "open"
    /\ \/ Size(p) < MinSize
       \/ Size(p) < MaxSize /\ Waiting(p) # {}
    /\ idle' = [idle EXCEPT ![p] = @ + 1]
    /\ UNCHANGED <<runtime, state, call, calls>>

\* It closes a connection that was idle for max_idle.
Shrink(p) ==
    /\ state[p] = "open"
    /\ idle[p] > 0 /\ Size(p) > MinSize
    /\ idle' = [idle EXCEPT ![p] = @ - 1]
    /\ UNCHANGED <<runtime, state, call, calls>>

-----------------------------------------------------------------------------

\* What a thread does once it is in a call, until it has a connection.
Step(t) ==
    \/ OpenAtOnce(t) \/ (\E p \in Pools : OpenPool(t, p)) \/ Opened(t) \/ OpenFailed(t)
    \/ CloseAtOnce(t) \/ ClosePool(t) \/ CleanupFails(t) \/ Closed(t)
    \/ AdmissionExpires(t) \/ Admit(t)
    \/ Getconn(t) \/ GetconnFails(t)

Next ==
    \/ \E t \in Threads, op \in Operations : Enter(t, op)
    \/ \E t \in Threads : Step(t) \/ Putconn(t)
    \/ \E p \in Pools : Connect(p) \/ Shrink(p)

\* Every wait in a call has a timeout or is for the lock, whose holder has one.  But
\* who has a connection may keep it: the statements of probe and verify_physical wait
\* without a deadline, and a session has its connection from one call to the next.
Fairness == \A t \in Threads : WF_vars(Step(t))

Spec == Init /\ [][Next]_vars /\ Fairness

-----------------------------------------------------------------------------
(* Properties                                                              *)

\* A close has returned, or failed after it gave the pool up.
Shut == closed \/ (opened /\ pool = NoPool)

\* What close promises to the threads that took the pool before it: once it has
\* returned, or failed to remove the TLS directory, no use gets a connection, with the
\* pool it still holds or with one a concurrent open made, and no pool keeps an idle
\* one.  The PoolClosed such a use gets instead is raised for a close, never for a
\* pool that failed to open.
CloseIsFinal ==
    [][/\ closed => closed'
       /\ Shut => /\ Shut'
                  /\ \A p \in Pools : idle'[p] = 0 /\ InUse(p)' \subseteq InUse(p)
       /\ \A t \in Threads :
              call'[t].outcome = "PoolClosed" /\ call[t].outcome # "PoolClosed" =>
                  Shut \/ \E u \in Threads : lock = u /\ call[u].op = "close"]_vars

Connections == \E p \in Pools : Size(p) > 0

Resting == {"done", "connected"}

\* Every call returns or has a connection to work with, however long others keep
\* theirs; and if all who have one give it back, then no pool and no connection of any
\* open outlives a close, also one that failed.
RuntimeDrains ==
    /\ \A t \in Threads : (call[t].at \notin Resting) ~> (call[t].at \in Resting)
    /\ (\A t \in Threads : []<>(call[t].at # "connected")) =>
          (Shut ~> [](~Connections /\ \A p \in Pools : state[p] # "open"))
=============================================================================
