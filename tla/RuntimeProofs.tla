---------------------------- MODULE RuntimeProofs ----------------------------
(***************************************************************************)
(* Theorems about Runtime: for any threads, pool sizes and number of       *)
(* calls, close is final.                                                  *)
(***************************************************************************)
EXTENDS Runtime, TLAPS

-----------------------------------------------------------------------------
(* The inductive invariant                                                 *)

Opening(t) == call[t].at = "opening"
Closing(t) == call[t].at = "closing"

\* A thread that makes a pool has the lock, and a runtime that is not open.
OpeningHolds == \A t \in Threads : Opening(t) =>
    /\ lock = t
    /\ ~opened /\ ~closed
    /\ call[t].pool \in Pools /\ state[call[t].pool] = "open"

\* A thread that waits in close has the lock, and has shut every pool.
ClosingHolds == \A t \in Threads : Closing(t) =>
    /\ lock = t
    /\ call[t].op = "close"
    /\ ~closed
    /\ \A p \in Pools : state[p] # "open"

\* A use has the runtime's pool, until a close has given that up.
UsesHold == \A t \in Threads : call[t].at \in {"admitted", "connected"} =>
    /\ call[t].pool \in Pools
    /\ Shut \/ pool = call[t].pool

\* A pool that is not open has no idle connection; one that is open belongs to the
\* runtime or to the thread that makes it; and the runtime's is open until a close.
PoolsHeld ==
    /\ \A p \in Pools : state[p] # "open" => idle[p] = 0
    /\ \A p \in Pools : state[p] = "open" =>
           p = pool \/ \E t \in Threads : Opening(t) /\ call[t].pool = p
    /\ pool # NoPool /\ state[pool] # "open" => \E t \in Threads : Closing(t)

IInv == TypeOK /\ OpeningHolds /\ ClosingHolds /\ UsesHold /\ PoolsHeld

\* The initial states satisfy the invariant.
LEMMA InitInv == Init => IInv
<1> SUFFICES ASSUME Init
             PROVE  IInv
  OBVIOUS
<1>1. TypeOK
  BY RuntimeAssumption DEF Init, TypeOK, Call, Outcomes, Operations, NoPool
<1>2. \A t \in Threads : call[t].at = "done"
  BY DEF Init
<1> QED  BY <1>1, <1>2 DEF Init, IInv, OpeningHolds, ClosingHolds, UsesHold, Shut, PoolsHeld,
            Opening, Closing

\* What a step of a call does to the calls: its thread's is at another place, with
\* another pool at most, and the others' stay.
LEMMA CallMoves ==
    ASSUME NEW t \in Threads, NEW p \in Pools \cup {NoPool}, NEW o \in Outcomes,
           NEW at \in {"opening", "closing", "admitted", "connected"},
           call \in [Threads -> Call]
    PROVE  /\ Returns(t, o) =>
                  /\ call' \in [Threads -> Call]
                  /\ call'[t].at = "done" /\ call'[t].outcome = o
                  /\ call'[t].op = call[t].op /\ call'[t].pool = call[t].pool
                  /\ \A u \in Threads \ {t} : call'[u] = call[u]
           /\ Holds(t, at, p) =>
                  /\ call' \in [Threads -> Call]
                  /\ call'[t].at = at /\ call'[t].pool = p
                  /\ call'[t].op = call[t].op /\ call'[t].outcome = call[t].outcome
                  /\ \A u \in Threads \ {t} : call'[u] = call[u]
<1> DEFINE Returned == [op |-> call[t].op, at |-> "done", pool |-> call[t].pool, outcome |-> o]
           Held == [op |-> call[t].op, at |-> at, pool |-> p, outcome |-> call[t].outcome]
<1>1. call[t] \in Call
  OBVIOUS
<1>2. Returned \in Call /\ Held \in Call
  BY <1>1 DEF Call
<1>3. Returns(t, o) => call' = [call EXCEPT ![t] = Returned]
  BY <1>1 DEF Returns, Call
<1>4. Holds(t, at, p) => call' = [call EXCEPT ![t] = Held]
  BY <1>1 DEF Holds, Call
<1>5. Returned.at = "done" /\ Returned.outcome = o /\ Returned.op = call[t].op
      /\ Returned.pool = call[t].pool
  OBVIOUS
<1>6. Held.at = at /\ Held.pool = p /\ Held.op = call[t].op /\ Held.outcome = call[t].outcome
  OBVIOUS
<1> HIDE DEF Returned, Held
<1> QED  BY <1>2, <1>3, <1>4, <1>5, <1>6

\* A call that returns without a change of the runtime keeps the invariant, unless it
\* had the lock.
LEMMA QuietReturn ==
    ASSUME IInv, NEW t \in Threads, NEW o \in Outcomes, ~Opening(t), ~Closing(t),
           Returns(t, o), UNCHANGED <<runtime, state, idle, calls>>
    PROVE  IInv'
<1>1. /\ call' \in [Threads -> Call]
      /\ call'[t].at = "done"
      /\ \A u \in Threads \ {t} : call'[u] = call[u]
  BY CallMoves DEF IInv, TypeOK
<1>2. TypeOK'
  BY <1>1 DEF IInv, TypeOK, runtime
<1>3. OpeningHolds' /\ ClosingHolds' /\ UsesHold'
  BY <1>1 DEF IInv, OpeningHolds, ClosingHolds, UsesHold, Shut, Opening, Closing, runtime
<1>4. \A u \in Threads : /\ Opening(u) => Opening(u)' /\ call'[u].pool = call[u].pool
                         /\ Closing(u) => Closing(u)'
  BY <1>1 DEF Opening, Closing
<1>5. PoolsHeld'
  BY <1>4 DEF IInv, PoolsHeld, runtime
<1> QED  BY <1>2, <1>3, <1>5 DEF IInv

\* Every step of the program keeps the invariant.
LEMMA NextInv == IInv /\ [Next]_vars => IInv'
<1> SUFFICES ASSUME IInv, [Next]_vars
             PROVE  IInv'
  OBVIOUS
<1>1. ASSUME NEW t \in Threads, NEW op \in Operations, Enter(t, op)
      PROVE  IInv'
  <2> DEFINE Entered == [op |-> op, at |-> "entered", pool |-> NoPool, outcome |-> "none"]
  <2>1. Entered \in Call /\ Entered.at = "entered"
    BY DEF Call, Outcomes
  <2> HIDE DEF Entered
  <2>2. call' = [call EXCEPT ![t] = Entered] /\ call[t].at = "done"
    BY <1>1 DEF Enter, Entered
  <2>3. /\ call' \in [Threads -> Call]
        /\ call'[t].at = "entered"
        /\ \A u \in Threads \ {t} : call'[u] = call[u]
    BY <2>1, <2>2 DEF IInv, TypeOK
  <2>4. TypeOK'
    BY <1>1, <2>3 DEF Enter, IInv, TypeOK, runtime
  <2>5. OpeningHolds' /\ ClosingHolds' /\ UsesHold'
    BY <1>1, <2>3 DEF Enter, IInv, OpeningHolds, ClosingHolds, UsesHold, Shut, Opening,
       Closing, runtime
  <2>6. \A u \in Threads : /\ Opening(u) => Opening(u)' /\ call'[u].pool = call[u].pool
                           /\ Closing(u) => Closing(u)'
    BY <2>2, <2>3 DEF Opening, Closing
  <2>7. PoolsHeld'
    BY <1>1, <2>6 DEF Enter, IInv, PoolsHeld, runtime
  <2> QED  BY <2>4, <2>5, <2>7 DEF IInv
<1>2. ASSUME NEW t \in Threads, OpenAtOnce(t)
      PROVE  IInv'
  BY <1>2, QuietReturn DEF OpenAtOnce, Locks, Opening, Closing, Outcomes
<1>3. ASSUME NEW t \in Threads, NEW p \in Pools, OpenPool(t, p)
      PROVE  IInv'
  <2>1. /\ call[t].at = "entered" /\ lock = NoThread /\ lock' = t
        /\ ~opened /\ ~closed /\ state[p] = "new"
        /\ state' = [state EXCEPT ![p] = "open"]
        /\ UNCHANGED <<opened, closed, pool, files, idle, calls>>
    BY <1>3 DEF OpenPool, Locks, MayOpen
  <2>2. /\ call' \in [Threads -> Call]
        /\ call'[t].at = "opening" /\ call'[t].pool = p
        /\ \A u \in Threads \ {t} : call'[u] = call[u]
    <3>1. Holds(t, "opening", p) /\ call \in [Threads -> Call]
      BY <1>3 DEF OpenPool, IInv, TypeOK
    <3>2. "none" \in Outcomes
      BY DEF Outcomes
    <3> QED  BY <3>1, <3>2, CallMoves
  <2>3. TypeOK'
    BY <2>1, <2>2 DEF IInv, TypeOK
  <2>4. \A u \in Threads : ~Opening(u) /\ ~Closing(u)
    BY <2>1, RuntimeAssumption DEF IInv, OpeningHolds, ClosingHolds
  <2>5. OpeningHolds' /\ ClosingHolds' /\ UsesHold'
    BY <2>1, <2>2, <2>4 DEF IInv, TypeOK, OpeningHolds, ClosingHolds, UsesHold, Shut, Opening,
       Closing
  <2>6. PoolsHeld'
    BY <2>1, <2>2, <2>4 DEF IInv, TypeOK, PoolsHeld, Opening, Closing
  <2> QED  BY <2>3, <2>5, <2>6 DEF IInv
<1>4. ASSUME NEW t \in Threads, Opened(t)
      PROVE  IInv'
  <2> DEFINE p == call[t].pool
  <2>1. /\ Opening(t) /\ pool' = p /\ opened' = TRUE /\ lock' = NoThread
        /\ UNCHANGED <<closed, files, state, idle, calls>>
    BY <1>4 DEF Opened, Opening
  <2>2. /\ call' \in [Threads -> Call]
        /\ call'[t].at = "done"
        /\ \A u \in Threads \ {t} : call'[u] = call[u]
    <3>1. Returns(t, "returned") /\ call \in [Threads -> Call] /\ "returned" \in Outcomes
      BY <1>4 DEF Opened, IInv, TypeOK, Outcomes
    <3> QED  BY <3>1, CallMoves
  <2>3. /\ lock = t /\ ~opened /\ ~closed /\ p \in Pools /\ state[p] = "open"
        /\ \A u \in Threads \ {t} : ~Opening(u) /\ ~Closing(u)
    BY <2>1 DEF IInv, OpeningHolds, ClosingHolds
  <2>4. TypeOK'
    BY <2>1, <2>2, <2>3 DEF IInv, TypeOK, Pools, NoPool
  <2>5. \A u \in Threads : ~Opening(u)' /\ ~Closing(u)'
    BY <2>2, <2>3 DEF Opening, Closing
  <2>6. UsesHold'
    <3>1. pool = NoPool /\ NoPool \notin Pools
      BY <2>3 DEF IInv, TypeOK, Pools, NoPool
    <3>2. \A u \in Threads : call[u].at \notin {"admitted", "connected"}
      BY <2>3, <3>1 DEF IInv, UsesHold, Shut
    <3> QED  BY <2>2, <3>2 DEF UsesHold
  <2>7. \A q \in Pools : state[q] = "open" => q = p
    <3>1. pool \notin Pools
      BY <2>3 DEF IInv, TypeOK, Pools, NoPool
    <3> QED  BY <2>3, <3>1 DEF IInv, PoolsHeld
  <2>8. PoolsHeld'
    BY <2>1, <2>3, <2>7 DEF IInv, PoolsHeld
  <2> QED  BY <2>4, <2>5, <2>6, <2>8 DEF IInv, OpeningHolds, ClosingHolds
<1>5. ASSUME NEW t \in Threads, OpenFailed(t)
      PROVE  IInv'
  <2> DEFINE p == call[t].pool
  <2>1. /\ Opening(t) /\ lock' = NoThread
        /\ state' = [state EXCEPT ![p] = "closed"]
        /\ idle' = [idle EXCEPT ![p] = 0]
        /\ UNCHANGED <<opened, closed, pool, files, calls>>
    BY <1>5 DEF OpenFailed, ShutPool, Opening
  <2>2. /\ call' \in [Threads -> Call]
        /\ call'[t].at = "done"
        /\ \A u \in Threads \ {t} : call'[u] = call[u]
    <3>1. Returns(t, "PoolTimeout") /\ call \in [Threads -> Call] /\ "PoolTimeout" \in Outcomes
      BY <1>5 DEF OpenFailed, IInv, TypeOK, Outcomes
    <3> QED  BY <3>1, CallMoves
  <2>3. /\ lock = t /\ ~opened /\ ~closed /\ p \in Pools /\ pool = NoPool
        /\ \A u \in Threads \ {t} : ~Opening(u) /\ ~Closing(u)
    BY <2>1 DEF IInv, TypeOK, OpeningHolds, ClosingHolds
  <2>4. TypeOK'
    BY <2>1, <2>2, <2>3 DEF IInv, TypeOK
  <2>5. \A u \in Threads : ~Opening(u)' /\ ~Closing(u)'
    BY <2>2, <2>3 DEF Opening, Closing
  <2>6. UsesHold'
    BY <2>1, <2>2 DEF IInv, UsesHold, Shut
  <2>7. PoolsHeld'
    BY <2>1, <2>2, <2>3 DEF IInv, TypeOK, PoolsHeld, Opening
  <2> QED  BY <2>4, <2>5, <2>6, <2>7 DEF IInv, OpeningHolds, ClosingHolds
<1>6. ASSUME NEW t \in Threads, CloseAtOnce(t)
      PROVE  IInv'
  BY <1>6, QuietReturn DEF CloseAtOnce, Locks, Opening, Closing, Outcomes
<1>7. ASSUME NEW t \in Threads, ClosePool(t)
      PROVE  IInv'
  <2>1. /\ call[t].at = "entered" /\ call[t].op = "close" /\ lock = NoThread /\ lock' = t
        /\ ~closed
        /\ UNCHANGED <<opened, closed, pool, files, calls>>
        /\ pool = NoPool => UNCHANGED <<state, idle>>
        /\ pool # NoPool => /\ state' = [state EXCEPT ![pool] = "closed"]
                           /\ idle' = [idle EXCEPT ![pool] = 0]
    BY <1>7 DEF ClosePool, ShutPool, Locks
  <2>2. /\ call' \in [Threads -> Call]
        /\ call'[t].at = "closing" /\ call'[t].op = "close"
        /\ \A u \in Threads \ {t} : call'[u] = call[u]
    <3>1. Holds(t, "closing", pool) /\ call \in [Threads -> Call] /\ pool \in Pools \cup {NoPool}
      BY <1>7 DEF ClosePool, IInv, TypeOK
    <3>2. "none" \in Outcomes
      BY DEF Outcomes
    <3> QED  BY <2>1, <3>1, <3>2, CallMoves
  <2>3. \A u \in Threads : ~Opening(u) /\ ~Closing(u)
    BY <2>1, RuntimeAssumption DEF IInv, OpeningHolds, ClosingHolds
  <2>4. TypeOK'
    BY <2>1, <2>2 DEF IInv, TypeOK
  <2>5. (\A u \in Threads : ~Opening(u)') /\ \A u \in Threads \ {t} : ~Closing(u)'
    BY <2>2, <2>3 DEF Opening, Closing
  <2>6. \A q \in Pools : state'[q] # "open"
    <3>1. \A q \in Pools : state[q] = "open" => q = pool
      BY <2>3 DEF IInv, PoolsHeld
    <3>2. pool = NoPool => pool \notin Pools
      BY DEF Pools, NoPool
    <3>3. state \in [Pools -> {"new", "open", "closed"}]
      BY DEF IInv, TypeOK
    <3> QED  BY <2>1, <3>1, <3>2, <3>3
  <2>7. OpeningHolds' /\ ClosingHolds'
    BY <2>1, <2>2, <2>5, <2>6 DEF OpeningHolds, ClosingHolds
  <2>8. UsesHold'
    BY <2>1, <2>2 DEF IInv, UsesHold, Shut
  <2>9. PoolsHeld'
    <3>1. Closing(t)'
      BY <2>2 DEF Closing
    <3>2. \A q \in Pools : idle'[q] = 0
      BY <2>1, <2>3, <2>6 DEF IInv, TypeOK, PoolsHeld
    <3> QED  BY <2>6, <3>1, <3>2 DEF PoolsHeld
  <2> QED  BY <2>4, <2>7, <2>8, <2>9 DEF IInv
<1>8. ASSUME NEW t \in Threads, Closed(t)
      PROVE  IInv'
  <2>1. /\ Closing(t) /\ lock' = NoThread /\ pool' = NoPool /\ closed' = TRUE
        /\ opened' = FALSE /\ files' = FALSE
        /\ UNCHANGED <<state, idle, calls>>
    BY <1>8 DEF Closed, Closing
  <2>2. /\ call' \in [Threads -> Call]
        /\ call'[t].at = "done"
        /\ \A u \in Threads \ {t} : call'[u] = call[u]
    <3>1. Returns(t, "returned") /\ call \in [Threads -> Call] /\ "returned" \in Outcomes
      BY <1>8 DEF Closed, IInv, TypeOK, Outcomes
    <3> QED  BY <3>1, CallMoves
  <2>3. /\ lock = t /\ \A q \in Pools : state[q] # "open"
        /\ \A u \in Threads \ {t} : ~Opening(u) /\ ~Closing(u)
    BY <2>1 DEF IInv, OpeningHolds, ClosingHolds
  <2>4. TypeOK'
    BY <2>1, <2>2 DEF IInv, TypeOK
  <2>5. \A u \in Threads : ~Opening(u)' /\ ~Closing(u)'
    BY <2>2, <2>3 DEF Opening, Closing
  <2>6. UsesHold'
    BY <2>1, <2>2 DEF IInv, UsesHold, Shut
  <2>7. PoolsHeld'
    BY <2>1, <2>3 DEF IInv, PoolsHeld
  <2> QED  BY <2>4, <2>5, <2>6, <2>7 DEF IInv, OpeningHolds, ClosingHolds
<1>16. ASSUME NEW t \in Threads, CleanupFails(t)
       PROVE  IInv'
  <2>1. /\ Closing(t) /\ lock' = NoThread /\ pool' = NoPool
        /\ UNCHANGED <<opened, closed, files, state, idle, calls>>
    BY <1>16 DEF CleanupFails, Closing
  <2>2. /\ call' \in [Threads -> Call]
        /\ call'[t].at = "done"
        /\ \A u \in Threads \ {t} : call'[u] = call[u]
    <3>1. Returns(t, "OSError") /\ call \in [Threads -> Call] /\ "OSError" \in Outcomes
      BY <1>16 DEF CleanupFails, IInv, TypeOK, Outcomes
    <3> QED  BY <3>1, CallMoves
  <2>3. /\ lock = t /\ \A q \in Pools : state[q] # "open"
        /\ \A u \in Threads \ {t} : ~Opening(u) /\ ~Closing(u)
    BY <2>1 DEF IInv, OpeningHolds, ClosingHolds
  <2>4. TypeOK'
    BY <2>1, <2>2 DEF IInv, TypeOK
  <2>5. \A u \in Threads : ~Opening(u)' /\ ~Closing(u)'
    BY <2>2, <2>3 DEF Opening, Closing
  <2>6. UsesHold'
    <3>1. ASSUME NEW u \in Threads, call[u].at \in {"admitted", "connected"}
          PROVE  call[u].pool \in Pools /\ Shut'
      <4>1. call[u].pool \in Pools /\ (Shut \/ pool = call[u].pool)
        BY <3>1 DEF IInv, UsesHold
      <4>2. NoPool \notin Pools /\ (pool # NoPool => opened)
        BY DEF IInv, TypeOK, Pools, NoPool
      <4> QED  BY <2>1, <4>1, <4>2 DEF Shut
    <3> QED  BY <2>2, <3>1 DEF UsesHold
  <2>7. PoolsHeld'
    BY <2>1, <2>3 DEF IInv, PoolsHeld
  <2> QED  BY <2>4, <2>5, <2>6, <2>7 DEF IInv, OpeningHolds, ClosingHolds
<1>9. ASSUME NEW t \in Threads, AdmissionExpires(t)
      PROVE  IInv'
  BY <1>9, QuietReturn DEF AdmissionExpires, Opening, Closing, Outcomes
<1>10. ASSUME NEW t \in Threads, Admit(t)
       PROVE  IInv'
  <2>1. /\ call[t].at = "entered"
        /\ UNCHANGED <<runtime, state, idle, calls>>
        /\ \/ Returns(t, "RUNTIME_CLOSED")
           \/ Returns(t, "RUNTIME_STATE")
           \/ pool # NoPool /\ Holds(t, "admitted", pool)
    BY <1>10 DEF Admit, Locks
  <2>2. ~Opening(t) /\ ~Closing(t) /\ {"RUNTIME_CLOSED", "RUNTIME_STATE"} \subseteq Outcomes
    BY <2>1 DEF Opening, Closing, Outcomes
  <2>3. CASE Returns(t, "RUNTIME_CLOSED")
    BY <2>1, <2>2, <2>3, QuietReturn
  <2>4. CASE Returns(t, "RUNTIME_STATE")
    BY <2>1, <2>2, <2>4, QuietReturn
  <2>5. CASE pool # NoPool /\ Holds(t, "admitted", pool)
    <3>1. /\ call' \in [Threads -> Call]
          /\ call'[t].at = "admitted" /\ call'[t].pool = pool /\ pool \in Pools
          /\ \A u \in Threads \ {t} : call'[u] = call[u]
      <4>1. "none" \in Outcomes /\ call \in [Threads -> Call] /\ pool \in Pools
        BY <2>5 DEF Outcomes, IInv, TypeOK
      <4> QED  BY <2>5, <4>1, CallMoves
    <3>2. TypeOK'
      BY <2>1, <3>1 DEF IInv, TypeOK, runtime
    <3>3. \A u \in Threads : /\ Opening(u)' => Opening(u) /\ call'[u] = call[u]
                             /\ Closing(u)' => Closing(u) /\ call'[u] = call[u]
                             /\ Opening(u) => Opening(u)' /\ call'[u].pool = call[u].pool
                             /\ Closing(u) => Closing(u)'
      BY <2>1, <3>1 DEF Opening, Closing
    <3>4. OpeningHolds' /\ ClosingHolds'
      BY <2>1, <3>3 DEF IInv, OpeningHolds, ClosingHolds, runtime
    <3>5. UsesHold'
      BY <2>1, <3>1 DEF IInv, UsesHold, Shut, runtime
    <3>6. PoolsHeld'
      BY <2>1, <3>3 DEF IInv, PoolsHeld, runtime
    <3> QED  BY <3>2, <3>4, <3>5, <3>6 DEF IInv
  <2> QED  BY <2>1, <2>3, <2>4, <2>5
<1>11. ASSUME NEW t \in Threads, Getconn(t)
       PROVE  IInv'
  <2> DEFINE p == call[t].pool
  <2>1. /\ call[t].at = "admitted" /\ state[p] = "open" /\ idle[p] > 0
        /\ idle' = [idle EXCEPT ![p] = @ - 1]
        /\ UNCHANGED <<runtime, state, calls>>
    BY <1>11 DEF Getconn
  <2>2. /\ call' \in [Threads -> Call]
        /\ call'[t].at = "connected" /\ call'[t].pool = p /\ p \in Pools
        /\ \A u \in Threads \ {t} : call'[u] = call[u]
    <3>1. "none" \in Outcomes /\ call \in [Threads -> Call] /\ p \in Pools
      BY <2>1 DEF Outcomes, IInv, TypeOK, UsesHold
    <3>2. Holds(t, "connected", p)
      BY <1>11 DEF Getconn
    <3> QED  BY <3>1, <3>2, CallMoves
  <2>3. idle[p] \in Nat
    BY <2>2 DEF IInv, TypeOK
  <2>4. TypeOK'
    BY <2>1, <2>2, <2>3 DEF IInv, TypeOK, runtime
  <2>5. \A u \in Threads : /\ Opening(u)' => Opening(u) /\ call'[u] = call[u]
                           /\ Closing(u)' => Closing(u) /\ call'[u] = call[u]
                           /\ Opening(u) => Opening(u)' /\ call'[u].pool = call[u].pool
                           /\ Closing(u) => Closing(u)'
    BY <2>1, <2>2 DEF Opening, Closing
  <2>6. OpeningHolds' /\ ClosingHolds'
    BY <2>1, <2>5 DEF IInv, OpeningHolds, ClosingHolds, runtime
  <2>7. UsesHold'
    BY <2>1, <2>2 DEF IInv, UsesHold, Shut, runtime
  <2>8. PoolsHeld'
    BY <2>1, <2>5 DEF IInv, TypeOK, PoolsHeld, runtime
  <2> QED  BY <2>4, <2>6, <2>7, <2>8 DEF IInv
<1>12. ASSUME NEW t \in Threads, GetconnFails(t)
       PROVE  IInv'
  <2>1. \E o \in Outcomes : Returns(t, o)
    BY <1>12 DEF GetconnFails, Outcomes
  <2> QED  BY <1>12, <2>1, QuietReturn DEF GetconnFails, Opening, Closing
<1>13. ASSUME NEW t \in Threads, Putconn(t)
       PROVE  IInv'
  <2> DEFINE p == call[t].pool
  <2>1. /\ call[t].at = "connected" /\ Returns(t, "returned")
        /\ UNCHANGED <<runtime, state, calls>>
        /\ idle' = idle \/ (state[p] = "open" /\ idle' = [idle EXCEPT ![p] = @ + 1])
    BY <1>13 DEF Putconn
  <2>2. /\ call' \in [Threads -> Call]
        /\ call'[t].at = "done" /\ p \in Pools
        /\ \A u \in Threads \ {t} : call'[u] = call[u]
    <3>1. "returned" \in Outcomes /\ call \in [Threads -> Call] /\ p \in Pools
      BY <2>1 DEF Outcomes, IInv, TypeOK, UsesHold
    <3> QED  BY <2>1, <3>1, CallMoves
  <2>3. idle' \in [Pools -> Nat] /\ \A q \in Pools : state[q] # "open" => idle'[q] = idle[q]
    BY <2>1, <2>2 DEF IInv, TypeOK
  <2>4. TypeOK'
    BY <2>1, <2>2, <2>3 DEF IInv, TypeOK, runtime
  <2>5. \A u \in Threads : /\ Opening(u)' => Opening(u) /\ call'[u] = call[u]
                           /\ Closing(u)' => Closing(u) /\ call'[u] = call[u]
                           /\ Opening(u) => Opening(u)' /\ call'[u].pool = call[u].pool
                           /\ Closing(u) => Closing(u)'
    BY <2>1, <2>2 DEF Opening, Closing
  <2>6. OpeningHolds' /\ ClosingHolds'
    BY <2>1, <2>5 DEF IInv, OpeningHolds, ClosingHolds, runtime
  <2>7. UsesHold'
    BY <2>1, <2>2 DEF IInv, UsesHold, Shut, runtime
  <2>8. PoolsHeld'
    BY <2>1, <2>3, <2>5 DEF IInv, PoolsHeld, runtime
  <2> QED  BY <2>4, <2>6, <2>7, <2>8 DEF IInv
<1>14. ASSUME NEW p \in Pools, Connect(p) \/ Shrink(p)
       PROVE  IInv'
  <2>1. /\ state[p] = "open" /\ UNCHANGED <<runtime, state, call, calls>>
        /\ \/ idle' = [idle EXCEPT ![p] = @ + 1]
           \/ idle[p] > 0 /\ idle' = [idle EXCEPT ![p] = @ - 1]
    BY <1>14 DEF Connect, Shrink
  <2>2. idle' \in [Pools -> Nat] /\ \A q \in Pools : state[q] # "open" => idle'[q] = idle[q]
    <3>1. idle \in [Pools -> Nat] /\ idle[p] \in Nat
      BY DEF IInv, TypeOK
    <3> QED  BY <2>1, <3>1
  <2>3. TypeOK'
    BY <2>1, <2>2 DEF IInv, TypeOK, runtime
  <2>4. OpeningHolds' /\ ClosingHolds' /\ UsesHold'
    BY <2>1 DEF IInv, OpeningHolds, ClosingHolds, UsesHold, Shut, Opening, Closing, runtime
  <2>5. PoolsHeld'
    BY <2>1, <2>2 DEF IInv, PoolsHeld, Opening, Closing, runtime
  <2> QED  BY <2>3, <2>4, <2>5 DEF IInv
<1>15. CASE UNCHANGED vars
  BY <1>15 DEF vars, runtime, IInv, TypeOK, OpeningHolds, ClosingHolds, UsesHold, Shut, PoolsHeld,
      Opening, Closing
<1> QED  BY <1>1, <1>2, <1>3, <1>4, <1>5, <1>6, <1>7, <1>8, <1>9, <1>10, <1>11, <1>12, <1>13,
            <1>14, <1>15, <1>16 DEF Next, Step

-----------------------------------------------------------------------------
(* The theorems                                                            *)

\* The flags, the pool reference and the TLS directory agree in every state of every
\* instance: a pool only while the runtime is open, and nothing left once closed.
THEOREM RuntimeTypeOK == Spec => []TypeOK
<1>1. IInv => TypeOK
  BY DEF IInv
<1> QED  BY <1>1, InitInv, NextInv, PTL DEF Spec

NothingOpen == \A p \in Pools : state[p] # "open" /\ idle[p] = 0

\* Once a close has returned or failed, no pool is open.
LEMMA ShutHasNoPool == IInv /\ Shut => NothingOpen
<1> SUFFICES ASSUME IInv, Shut
             PROVE  NothingOpen
  OBVIOUS
<1>1. pool = NoPool /\ NoPool \notin Pools
  BY DEF IInv, TypeOK, Shut, Pools, NoPool
<1>2. \A t \in Threads : ~Opening(t)
  BY DEF IInv, OpeningHolds, Shut
<1> QED  BY <1>1, <1>2 DEF IInv, PoolsHeld, NothingOpen

\* A pool a use was admitted with is shut by a close only.
LEMMA ShutByClose ==
    ASSUME IInv, NEW t \in Threads, call[t].at = "admitted", state[call[t].pool] = "closed"
    PROVE  Shut \/ \E u \in Threads : lock = u /\ call[u].op = "close"
<1>1. CASE Shut
  BY <1>1
<1>2. CASE ~Shut
  <2>1. pool \in Pools /\ pool # NoPool /\ state[pool] # "open"
    BY <1>2 DEF IInv, UsesHold, Pools, NoPool
  <2>2. PICK u \in Threads : Closing(u)
    BY <2>1 DEF IInv, PoolsHeld
  <2> QED  BY <2>2 DEF IInv, ClosingHolds
<1> QED  BY <1>1, <1>2

\* After a close, also one that failed, no use gets a connection and no pool keeps
\* one, whatever calls were under way; and the PoolClosed a use may meet is the doing
\* of a close.
THEOREM CloseIsFinalHolds == Spec => CloseIsFinal
<1> DEFINE Final ==
      /\ closed => closed'
      /\ Shut => /\ Shut'
                 /\ \A p \in Pools : idle'[p] = 0 /\ InUse(p)' \subseteq InUse(p)
      /\ \A t \in Threads :
             call'[t].outcome = "PoolClosed" /\ call[t].outcome # "PoolClosed" =>
                 Shut \/ \E u \in Threads : lock = u /\ call[u].op = "close"
<1>1. ASSUME IInv, IInv', [Next]_vars
      PROVE  Final
  <2>1. ASSUME closed
        PROVE  closed'
    BY <1>1, <2>1 DEF Next, Step, Enter, OpenAtOnce, OpenPool, Opened, OpenFailed, CloseAtOnce,
       ClosePool, CleanupFails, Closed, AdmissionExpires, Admit, Getconn, GetconnFails, Putconn,
       Connect, Shrink, runtime, vars
  <2>5. ASSUME Shut
        PROVE  Shut'
    <3>1. CASE closed
      BY <2>1, <3>1 DEF Shut
    <3>2. CASE opened /\ pool = NoPool
      <4>1. ASSUME NEW t \in Threads, OpenPool(t, pool) \/ Opened(t) \/ OpenFailed(t)
            PROVE  FALSE
        BY <1>1, <3>2, <4>1 DEF IInv, OpeningHolds, Opening, Opened, OpenFailed, OpenPool, MayOpen
      <4>2. ASSUME NEW t \in Threads, Step(t) \/ Putconn(t)
            PROVE  Shut'
        BY <3>2, <4>1, <4>2 DEF Step, OpenAtOnce, OpenPool, MayOpen, CloseAtOnce, ClosePool,
           CleanupFails, Closed, AdmissionExpires, Admit, Getconn, GetconnFails, Putconn,
           runtime, Shut
      <4> QED  BY <1>1, <3>2, <4>2 DEF Next, Enter, Connect, Shrink, runtime, vars, Shut
    <3> QED  BY <2>5, <3>1, <3>2 DEF Shut
  <2>2. ASSUME Shut, NEW p \in Pools
        PROVE  idle'[p] = 0
    <3>1. Shut' /\ IInv'
      BY <1>1, <2>2, <2>5
    <3>2. NothingOpen'
      BY <3>1, ShutHasNoPool, PTL
    <3> QED  BY <3>2 DEF NothingOpen, Pools
  <2>3. ASSUME Shut, NEW p \in Pools
        PROVE  InUse(p)' \subseteq InUse(p)
    <3>1. ASSUME NEW t \in Threads, call'[t].at = "connected"
          PROVE  call[t].at = "connected" /\ call'[t].pool = call[t].pool
      <4>1. ASSUME NEW u \in Threads, Getconn(u)
            PROVE  FALSE
        <5>1. call[u].pool \in Pools /\ state[call[u].pool] = "open"
          BY <1>1, <4>1 DEF Getconn, IInv, UsesHold
        <5> QED  BY <1>1, <2>3, <5>1, ShutHasNoPool DEF NothingOpen
      <4>2. ASSUME NEW u \in Threads, \E o \in Outcomes : Returns(u, o)
            PROVE  call[t].at = "connected" /\ call'[t].pool = call[t].pool
        BY <1>1, <3>1, <4>2, CallMoves DEF IInv, TypeOK
      <4>3. ASSUME NEW u \in Threads,
                   \E q \in Pools \cup {NoPool} : \E at \in {"opening", "closing", "admitted"} :
                       Holds(u, at, q)
            PROVE  call[t].at = "connected" /\ call'[t].pool = call[t].pool
        <5>1. "none" \in Outcomes
          BY DEF Outcomes
        <5> QED  BY <1>1, <3>1, <4>3, <5>1, CallMoves DEF IInv, TypeOK
      <4>4. ASSUME NEW u \in Threads, NEW op \in Operations, Enter(u, op)
            PROVE  call[t].at = "connected" /\ call'[t].pool = call[t].pool
        BY <1>1, <3>1, <4>4 DEF IInv, TypeOK, Enter
      <4>5. ASSUME NEW u \in Threads, Step(u) \/ Putconn(u)
            PROVE  call[t].at = "connected" /\ call'[t].pool = call[t].pool
        <5>1. pool \in Pools \cup {NoPool}
          BY <1>1 DEF IInv, TypeOK
        <5>2. \/ Getconn(u)
              \/ \E o \in Outcomes : Returns(u, o)
              \/ \E q \in Pools \cup {NoPool} : \E at \in {"opening", "closing", "admitted"} :
                     Holds(u, at, q)
          BY <4>5, <5>1 DEF Step, OpenAtOnce, OpenPool, Opened, OpenFailed, CloseAtOnce, ClosePool,
             CleanupFails, Closed, AdmissionExpires, Admit, GetconnFails, Putconn, Outcomes
        <5> QED  BY <4>1, <4>2, <4>3, <5>2
      <4>6. ASSUME \/ UNCHANGED vars
                   \/ \E q \in Pools : Connect(q) \/ Shrink(q)
            PROVE  call[t].at = "connected" /\ call'[t].pool = call[t].pool
        BY <3>1, <4>6 DEF vars, Connect, Shrink
      <4> QED  BY <1>1, <4>4, <4>5, <4>6 DEF Next
    <3> QED  BY <3>1 DEF InUse
  <2>4. ASSUME NEW t \in Threads,
               call'[t].outcome = "PoolClosed", call[t].outcome # "PoolClosed"
        PROVE  Shut \/ \E u \in Threads : lock = u /\ call[u].op = "close"
    <3>1. ASSUME NEW u \in Threads, NEW o \in Outcomes, o # "PoolClosed", Returns(u, o)
          PROVE  FALSE
      BY <1>1, <2>4, <3>1, CallMoves DEF IInv, TypeOK
    <3>2. ASSUME NEW u \in Threads,
                 \E q \in Pools \cup {NoPool} :
                     \E at \in {"opening", "closing", "admitted", "connected"} : Holds(u, at, q)
          PROVE  FALSE
      <4>1. "none" \in Outcomes
        BY DEF Outcomes
      <4> QED  BY <1>1, <2>4, <3>2, <4>1, CallMoves DEF IInv, TypeOK
    <3>3. ASSUME NEW u \in Threads, NEW op \in Operations, Enter(u, op)
          PROVE  FALSE
      BY <1>1, <2>4, <3>3 DEF IInv, TypeOK, Enter
    <3>4. ASSUME NEW u \in Threads, GetconnFails(u)
          PROVE  Shut \/ \E w \in Threads : lock = w /\ call[w].op = "close"
      <4>1. CASE state[call[u].pool] = "closed"
        BY <1>1, <3>4, <4>1, ShutByClose DEF GetconnFails
      <4>2. CASE state[call[u].pool] # "closed"
        BY <3>1, <3>4, <4>2 DEF GetconnFails, Outcomes
      <4> QED  BY <4>1, <4>2
    <3>5. ASSUME NEW u \in Threads, Step(u) \/ Putconn(u), ~GetconnFails(u)
          PROVE  FALSE
      <4>1. pool \in Pools \cup {NoPool}
        BY <1>1 DEF IInv, TypeOK
      <4>2. call[u].at = "admitted" => call[u].pool \in Pools
        BY <1>1 DEF IInv, UsesHold, Shut
      <4>3. \/ \E o \in Outcomes : o # "PoolClosed" /\ Returns(u, o)
            \/ \E q \in Pools \cup {NoPool} :
                   \E at \in {"opening", "closing", "admitted", "connected"} : Holds(u, at, q)
        BY <3>5, <4>1, <4>2 DEF Step, OpenAtOnce, OpenPool, Opened, OpenFailed, CloseAtOnce,
           ClosePool, CleanupFails, Closed, AdmissionExpires, Admit, Getconn, Putconn, Outcomes
      <4> QED  BY <3>1, <3>2, <4>3
    <3>6. ASSUME \/ UNCHANGED vars
                 \/ \E q \in Pools : Connect(q) \/ Shrink(q)
          PROVE  FALSE
      BY <2>4, <3>6 DEF vars, Connect, Shrink
    <3> QED  BY <1>1, <3>3, <3>4, <3>5, <3>6 DEF Next
  <2> QED  BY <2>1, <2>2, <2>3, <2>4, <2>5
<1>2. [][Final]_vars => CloseIsFinal
  BY PTL DEF CloseIsFinal
<1> QED  BY <1>1, <1>2, InitInv, NextInv, PTL DEF Spec
=============================================================================
