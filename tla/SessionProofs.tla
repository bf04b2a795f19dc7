--------------------------- MODULE SessionProofs ---------------------------
(***************************************************************************)
(* Theorems about Session: for any threads and any number of transactions, *)
(* what becomes of connections and transactions; and for sessions of one   *)
(* transaction, or that are not transactional, the truth of what callers   *)
(* are told of a commit.                                                   *)
(***************************************************************************)
EXTENDS Session, TLAPS

-----------------------------------------------------------------------------
(* The inductive invariant                                                 *)

Inside == {"body", "getconn", "beginIO", "checkBegun", "setBegun", "statement",
           "checkCommit", "markUnknown", "dispatch", "ack", "markCommitted", "lateCheck",
           "rollbackIO"}

Over == {"committed", "rolledback"}

\* The transaction on connection k is open, or was lost with the connection.
Live(k) == fate[k] \in {"open", "error"} \/ (fate[k] = "aborted" /\ k \in finished)

\* A connection that no call is at work on belongs to a transaction that was begun.
AtRest == conn # None => transactional /\ begun /\ Live(conn)

\* The connection of call c is the session's, unless it was taken away.
OnOwn(c) == c.mine # None /\ conn \in {None, c.mine}

\* What a call under the lock relies on, although others may release the
\* connection at any moment.
Holder(c) ==
    /\ c.point \notin {"idle", "admit"}
    /\ c.point \in {"body", "rollbackIO", "return"} => AtRest
    /\ c.point \in {"getconn", "put"} => conn = None
    /\ c.point = "beginIO" => OnOwn(c) /\ fate[c.mine] = "none"
    /\ c.point \in {"getconn", "beginIO", "checkBegun", "setBegun"} =>
          (c.op = "begin" => transactional)
    /\ c.point \in {"checkBegun", "setBegun", "statement", "checkCommit", "markUnknown",
                    "dispatch"} => OnOwn(c) /\ Live(c.mine)
    /\ c.point \in {"statement", "checkCommit"} /\ transactional => AtRest
    /\ c.point \in {"markUnknown", "dispatch"} => fate[c.mine] # "error"
    /\ c.point = "ack" => OnOwn(c) /\ fate[c.mine] \in {"committing", "committed", "aborted"}
    /\ c.point \in {"markCommitted", "lateCheck"} => OnOwn(c) /\ fate[c.mine] = "committed"
    /\ c.point = "release" /\ ~c.discard => conn = None \/ fate[conn] \in Over

\* A call without the lock only leaves, and then it discards.
Caller(t) ==
    LET c == call[t] IN
    /\ lock # t => /\ c.point \notin Inside
                   /\ c.point \in {"release", "put"} => c.discard
    /\ c.point # "idle" => c.op # "none"
    /\ c.mine <= begins
    /\ c.point = "put" => /\ c.mine \notin {None, conn}
                          /\ returned[c.mine] = 0
                          /\ ~c.discard => fate[c.mine] \in Over

\* No two calls give back the same connection.
PutsApart == \A t, u \in Threads : At(t, "put") /\ At(u, "put") /\ t # u =>
                call[t].mine # call[u].mine

\* The last connection taken is the session's until it is given up.
ConnectionHolds ==
    /\ conn \in {None, begins}
    /\ conn # None => returned[conn] = 0
    /\ IF lock = NoThread THEN AtRest ELSE Holder(call[lock])

EngineHolds ==
    /\ \A k \in finished : fate[k] \notin {"open", "error"}
    /\ \A k \in rolled : fate[k] = "rolledback"
    /\ \A k \in Connections : k > begins => fate[k] = "none" /\ returned[k] = 0

IInv ==
    /\ TypeOK
    /\ \A t \in Threads : Caller(t)
    /\ PutsApart
    /\ ConnectionHolds
    /\ EngineHolds
    /\ ReturnedOnceAndClean

-----------------------------------------------------------------------------
(* What callers are told, in sessions that begin once                      *)

OneBegin == TRUE \in Transactional => MaxBegins[TRUE] <= 1

\* What is said of transaction k stays true.
Final(state, k) ==
    /\ state = "known-committed" => fate[k] = "committed"
    /\ state = "known-not-committed" =>
          /\ fate[k] \notin {"committing", "committed"}
          /\ expired \/ fate[k] \in {"error", "aborted", "rolledback"}

Committing == {"checkCommit", "markUnknown", "dispatch", "ack", "markCommitted", "lateCheck"}

\* A call reports the transaction it works on.
Answer(c) ==
    /\ c.about <= begins
    /\ c.point \in Committing => c.op = "commit" \/ ~transactional
    /\ c.point \in Committing \cup {"beginIO", "checkBegun", "setBegun", "statement"} =>
          (c.op = "commit" \/ ~transactional => c.about = c.mine)
    /\ c.point \in Inside \cup {"admit"} => c.report = "none"
    /\ c.report \in CommitStates => c.about # None /\ Final(c.report, c.about)
    /\ c.report = "read" => expired /\ transactional

StateHolds ==
    /\ begins <= MaxBegins[transactional]
    /\ commitState # "known-not-committed" => begins # 0
    /\ commitState = "known-not-committed" =>
          /\ \A k \in Connections : fate[k] \notin {"committing", "committed"}
          /\ \A t \in Threads : call[t].point \notin {"dispatch", "ack", "markCommitted",
                                                      "lateCheck"}
    /\ transactional /\ commitState = "known-committed" => fate[1] = "committed"

AnswersHold ==
    /\ \A t \in Threads : Answer(call[t])
    /\ StateHolds
    /\ \A r \in reports : r.tx # None /\ Final(r.state, r.tx)

TInv == IInv /\ AnswersHold

-----------------------------------------------------------------------------
(* Calls                                                                   *)

\* How a call goes on, step by step.
LEMMA Goes ==
    ASSUME call \in [Threads -> Calls], NEW t \in Threads, NEW p \in Points, Goto(t, p)
    PROVE  /\ call' \in [Threads -> Calls]
           /\ \A u \in Threads \ {t} : call'[u] = call[u]
           /\ call'[t].point = p /\ call'[t].op = call[t].op /\ call'[t].mine = call[t].mine
           /\ call'[t].discard = call[t].discard /\ call'[t].report = call[t].report
           /\ call'[t].about = call[t].about
  BY DEF Goto, Calls

\* A call that leaves goes to release its connection.
LEMMA Leaves ==
    ASSUME call \in [Threads -> Calls], NEW t \in Threads, NEW d \in BOOLEAN,
           NEW r \in CommitStates \cup {"none", "read"}, Leave(t, d, r)
    PROVE  /\ call' \in [Threads -> Calls]
           /\ \A u \in Threads \ {t} : call'[u] = call[u]
           /\ call'[t].point = "release" /\ call'[t].op = call[t].op
           /\ call'[t].mine = call[t].mine /\ call'[t].discard = d /\ call'[t].report = r
           /\ call'[t].about = call[t].about
<1> DEFINE c == [call[t] EXCEPT !.point = "release", !.discard = d, !.report = r]
<1>1. call[t] \in Calls
  OBVIOUS
<1>2. /\ c \in Calls /\ c.point = "release" /\ c.op = call[t].op /\ c.mine = call[t].mine
      /\ c.discard = d /\ c.report = r /\ c.about = call[t].about
  BY <1>1 DEF Calls, Points
<1>3. call' = [call EXCEPT ![t] = c]
  BY DEF Leave
<1> HIDE DEF c
<1> QED  BY <1>2, <1>3

\* _release takes the session's connection, if it still has one.
LEMMA Releases ==
    ASSUME TypeOK, NEW t \in Threads, Release(t)
    PROVE  /\ call' \in [Threads -> Calls]
           /\ \A u \in Threads \ {t} : call'[u] = call[u]
           /\ call'[t].point = IF conn = None THEN "return" ELSE "put"
           /\ call'[t].mine = conn /\ call'[t].discard = call[t].discard
           /\ call'[t].op = call[t].op /\ call'[t].about = call[t].about
           /\ call'[t].report = call[t].report
<1> DEFINE c == [call[t] EXCEPT !.mine = conn, !.point = IF conn = None THEN "return" ELSE "put"]
<1>1. call[t] \in Calls /\ conn \in Connections \cup {None}
  BY DEF TypeOK
<1>2. /\ c \in Calls /\ c.mine = conn /\ c.discard = call[t].discard
      /\ c.point = IF conn = None THEN "return" ELSE "put"
      /\ c.op = call[t].op /\ c.about = call[t].about /\ c.report = call[t].report
  BY <1>1 DEF Calls, Points
<1>3. call' = [call EXCEPT ![t] = c]
  BY DEF Release
<1> HIDE DEF c
<1> QED  BY <1>2, <1>3 DEF TypeOK

\* An operation that is not refused begins with the session's connection.
LEMMA Enters ==
    ASSUME IInv, NEW t \in Threads, Body(t)
    PROVE  /\ call' \in [Threads -> Calls]
           /\ \A u \in Threads \ {t} : call'[u] = call[u]
           /\ \/ call[t].op = "begin" /\ call'[t].point = "getconn"
              \/ call[t].op = "execute" /\ transactional /\ call'[t].point = "statement"
              \/ call[t].op = "execute" /\ ~transactional /\ call'[t].point = "getconn"
              \/ call[t].op = "commit" /\ call'[t].point = "checkCommit"
              \/ call[t].op \in {"rollback", "close"} /\ call'[t].point = "rollbackIO"
           /\ call'[t].mine = conn /\ call'[t].discard = call[t].discard
           /\ call'[t].op = call[t].op /\ call'[t].report = call[t].report
           /\ call'[t].about = IF call[t].op = "commit" THEN conn ELSE call[t].about
<1> DEFINE op == call[t].op
           point == CASE op = "begin" -> "getconn"
                      [] op = "execute" -> IF transactional THEN "statement" ELSE "getconn"
                      [] op = "commit" -> "checkCommit"
                      [] op \in {"rollback", "close"} -> "rollbackIO"
           about == IF op = "commit" THEN conn ELSE call[t].about
           c == [call[t] EXCEPT !.point = point, !.mine = conn, !.about = about]
<1>1. /\ call[t] \in Calls /\ conn \in Connections \cup {None} /\ op \in Operations
  BY DEF IInv, TypeOK, Calls, Caller, Body, At
<1>2. call' = [call EXCEPT ![t].point = point, ![t].mine = conn,
                           ![t].about = IF op = "commit" THEN conn ELSE @]
  BY Zenon DEF Body
<1>3. /\ \/ op = "begin" /\ point = "getconn"
         \/ op = "execute" /\ transactional /\ point = "statement"
         \/ op = "execute" /\ ~transactional /\ point = "getconn"
         \/ op = "commit" /\ point = "checkCommit"
         \/ op \in {"rollback", "close"} /\ point = "rollbackIO"
      /\ point \in Points
  BY <1>1 DEF Operations, Points
<1> HIDE DEF point
<1>4. /\ c \in Calls /\ c.mine = conn /\ c.discard = call[t].discard
      /\ c.point = point
      /\ c.op = call[t].op /\ c.about = about /\ c.report = call[t].report
  BY <1>1, <1>3 DEF Calls
<1>5. call' = [call EXCEPT ![t] = c]
  BY <1>2
<1> HIDE DEF c
<1> QED  BY <1>3, <1>4, <1>5 DEF IInv, TypeOK

\* A connection from the pool is the call's, and what it reports on.
LEMMA Takes ==
    ASSUME TypeOK, NEW t \in Threads, GetConn(t), begins + 1 \in Connections
    PROVE  /\ call' \in [Threads -> Calls]
           /\ \A u \in Threads \ {t} : call'[u] = call[u]
           /\ call'[t].point = "beginIO" /\ call'[t].mine = begins + 1
           /\ call'[t].about = begins + 1 /\ call'[t].discard = call[t].discard
           /\ call'[t].op = call[t].op /\ call'[t].report = call[t].report
<1> DEFINE c == [call[t] EXCEPT !.point = "beginIO", !.mine = begins + 1, !.about = begins + 1]
<1>1. call[t] \in Calls
  BY DEF TypeOK
<1>2. /\ c \in Calls /\ c.point = "beginIO" /\ c.mine = begins + 1 /\ c.about = begins + 1
      /\ c.discard = call[t].discard /\ c.op = call[t].op /\ c.report = call[t].report
  BY <1>1 DEF Calls, Points
<1>3. call' = [call EXCEPT ![t] = c]
  BY DEF GetConn
<1> HIDE DEF c
<1> QED  BY <1>2, <1>3 DEF TypeOK

\* The acknowledgement awaited is that of the connection COMMIT was sent on.
LEMMA Sends ==
    ASSUME TypeOK, NEW t \in Threads, Dispatch(t)
    PROVE  /\ call' \in [Threads -> Calls]
           /\ \A u \in Threads \ {t} : call'[u] = call[u]
           /\ call'[t].point = "ack" /\ call'[t].mine = conn
           /\ call'[t].about = call[t].about /\ call'[t].discard = call[t].discard
           /\ call'[t].op = call[t].op /\ call'[t].report = call[t].report
<1> DEFINE c == [call[t] EXCEPT !.point = "ack", !.mine = conn]
<1>1. call[t] \in Calls /\ conn \in Connections \cup {None}
  BY DEF TypeOK
<1>2. /\ c \in Calls /\ c.point = "ack" /\ c.mine = conn /\ c.about = call[t].about
      /\ c.discard = call[t].discard /\ c.op = call[t].op /\ c.report = call[t].report
  BY <1>1 DEF Calls, Points
<1>3. call' = [call EXCEPT ![t] = c]
  BY DEF Dispatch
<1> HIDE DEF c
<1> QED  BY <1>2, <1>3 DEF TypeOK

\* After a wait that failed, a call leaves, or ends in a statement of a transaction.
LEMMA Fails ==
    ASSUME TypeOK, NEW t \in Threads, IOFailure(t)
    PROVE  /\ call' \in [Threads -> Calls]
           /\ \A u \in Threads \ {t} : call'[u] = call[u]
           /\ call'[t].mine = call[t].mine /\ call'[t].op = call[t].op
           /\ call'[t].about = call[t].about
           /\ \/ /\ call'[t].point = "release" /\ call'[t].discard
                 /\ call'[t].report \in {"unknown-commit", "none"}
              \/ /\ At(t, "statement") /\ transactional
                 /\ call'[t].point = "return" /\ call'[t].report = call[t].report
  BY Goes, Leaves DEF IOFailure, AfterFailure, TypeOK, Points, CommitStates

\* To shut down a connection loses what is open on it.
LEMMA Finishes ==
    ASSUME TypeOK, NEW k \in Connections, Finish(k)
    PROVE  /\ fate' \in [Connections -> Fates] /\ finished' = finished \cup {k}
           /\ finished' \subseteq Connections
           /\ \A j \in Connections :
                 fate'[j] = IF j = k /\ fate[j] \in {"open", "error"} THEN "aborted" ELSE fate[j]
  BY DEF Finish, TypeOK, Fates

\* Connections are counted.
LEMMA Numbers ==
    /\ Connections \subseteq Nat \ {0} /\ None \notin Connections
    /\ \A k \in Connections \cup {None} : k \in Nat
    /\ \A mode \in Transactional, n \in Nat :
          n < MaxBegins[mode] => n + 1 \in Connections
<1>1. \A mode \in Transactional : MaxBegins[mode] \in Nat
  BY SessionAssumption
<1> QED  BY <1>1 DEF Connections, None

\* The thread at work on the session has its lock.
LEMMA WhoHolds ==
    ASSUME IInv, NEW t \in Threads, call[t].point \in Inside
    PROVE  lock = t /\ lock # NoThread /\ Holder(call[t])
  BY SessionAssumption DEF IInv, Caller, ConnectionHolds

\* The initial state satisfies the invariant.
LEMMA InitInv == Init => IInv
<1> SUFFICES ASSUME Init
             PROVE  IInv
  OBVIOUS
<1>1. TypeOK
  BY DEF Init, TypeOK, NoCall, Calls, Points, CommitStates, Fates, None
<1>2. \A t \in Threads : Caller(t) /\ ~At(t, "put")
  BY SessionAssumption DEF Init, Caller, NoCall, At, None, Inside
<1>3. ConnectionHolds /\ EngineHolds /\ ReturnedOnceAndClean
  BY DEF Init, ConnectionHolds, AtRest, EngineHolds, ReturnedOnceAndClean
<1> QED  BY <1>1, <1>2, <1>3 DEF IInv, PutsApart

-----------------------------------------------------------------------------
(* Types                                                                   *)

\* Every step keeps the types.
LEMMA TypeKept ==
    ASSUME IInv, Next
    PROVE  TypeOK'
<1> USE DEF session, engine
<1>1. TypeOK
  BY DEF IInv
<1>2. ASSUME NEW t \in Threads, NEW op \in Operations, Start(t, op)
      PROVE  TypeOK'
  <2>1. call' \in [Threads -> Calls]
    BY <1>1, <1>2 DEF TypeOK, Start, NoCall, Calls, Points, None, CommitStates
  <2> QED  BY <1>1, <1>2, <2>1 DEF TypeOK, Start
<1>3. ASSUME NEW t \in Threads, Unlock(t)
      PROVE  TypeOK'
  BY <1>1, <1>3 DEF TypeOK, Unlock
<1>4. ASSUME NEW t \in Threads, Admit(t) \/ AdmissionExpired(t)
      PROVE  TypeOK'
  <2>1. call' \in [Threads -> Calls]
    BY <1>1, <1>4, Goes, Leaves DEF TypeOK, Admit, AdmissionExpired, Points, CommitStates
  <2> QED  BY <1>1, <1>4, <2>1 DEF TypeOK, Admit, AdmissionExpired
<1>5. ASSUME NEW t \in Threads, Return(t)
      PROVE  TypeOK'
  <2>1. NoCall \in Calls
    BY DEF NoCall, Calls, Points, None, CommitStates
  <2>2. call' \in [Threads -> Calls]
    BY <1>1, <1>5, <2>1 DEF TypeOK, Return
  <2>3. call[t] \in Calls
    BY <1>1 DEF TypeOK
  <2>4. reports' \subseteq [tx : Connections \cup {None}, state : CommitStates]
    BY <1>1, <1>5, <2>3 DEF TypeOK, Return, Calls
  <2> QED  BY <1>1, <1>5, <2>2, <2>4 DEF TypeOK, Return
<1>6. ASSUME NEW t \in Threads, Release(t)
      PROVE  TypeOK'
  <2>1. call' \in [Threads -> Calls]
    BY <1>1, <1>6, Releases
  <2> QED  BY <1>1, <1>6, <2>1 DEF TypeOK, Release
<1>7. ASSUME NEW t \in Threads, Put(t)
      PROVE  TypeOK'
  <2>1. call' \in [Threads -> Calls]
    BY <1>1, <1>7, Goes DEF TypeOK, Put, Points
  <2>2. call[t].mine \in Connections
    BY <1>1, <1>7 DEF IInv, Caller, Put, At, TypeOK, Calls
  <2>3. fate' \in [Connections -> Fates] /\ finished' \subseteq Connections
    BY <1>1, <1>7, <2>2, Finishes DEF TypeOK, Put
  <2>4. returned' \in [Connections -> Nat]
    BY <1>1, <1>7, <2>2 DEF TypeOK, Put
  <2> QED  BY <1>1, <1>7, <2>1, <2>3, <2>4 DEF TypeOK, Put
<1>8. ASSUME NEW t \in Threads, Refuse(t)
      PROVE  TypeOK'
  <2>1. call' \in [Threads -> Calls]
    BY <1>1, <1>8, Goes, Leaves DEF TypeOK, Refuse, Points, CommitStates
  <2> QED  BY <1>1, <1>8, <2>1 DEF TypeOK, Refuse, Unlocked
<1>9. ASSUME NEW t \in Threads, Body(t)
      PROVE  TypeOK'
  <2>1. call' \in [Threads -> Calls]
    BY <1>9, Enters
  <2> QED  BY <1>1, <1>9, <2>1 DEF TypeOK, Body
<1>10. ASSUME NEW t \in Threads, GetConn(t)
       PROVE  TypeOK'
  <2>1. begins + 1 \in Connections
    BY <1>1, <1>10, Numbers DEF TypeOK, GetConn
  <2>2. call' \in [Threads -> Calls]
    BY <1>1, <1>10, <2>1, Takes
  <2> QED  BY <1>1, <1>10, <2>1, <2>2 DEF TypeOK, GetConn
<1>11. ASSUME NEW t \in Threads, PoolTimeout(t) \/ CheckBegun(t) \/ SetBegun(t)
                                 \/ CheckCommit(t) \/ MarkUnknown(t) \/ MarkCommitted(t)
                                 \/ LateCheck(t) \/ Ack(t)
       PROVE  TypeOK'
  <2>1. call' \in [Threads -> Calls]
    <3>1. PoolTimeout(t) \/ SetBegun(t) \/ MarkUnknown(t) \/ MarkCommitted(t) \/ Ack(t) =>
             call' \in [Threads -> Calls]
      BY <1>1, Goes DEF TypeOK, PoolTimeout, SetBegun, MarkUnknown, MarkCommitted, Ack, Points
    <3>2. CheckBegun(t) \/ CheckCommit(t) \/ LateCheck(t) => call' \in [Threads -> Calls]
      BY <1>1, Goes, Leaves DEF TypeOK, CheckBegun, CheckCommit, LateCheck, Points, CommitStates
    <3> QED  BY <1>11, <3>1, <3>2
  <2> QED  BY <1>1, <1>11, <2>1 DEF TypeOK, PoolTimeout, SetBegun, MarkUnknown, MarkCommitted,
           Ack, CheckBegun, CheckCommit, LateCheck, CommitStates
<1>12. ASSUME NEW t \in Threads, BeginIO(t) \/ Statement(t) \/ RollbackIO(t)
       PROVE  TypeOK'
  <2>1. call' \in [Threads -> Calls]
    BY <1>1, <1>12, Goes, Leaves DEF TypeOK, BeginIO, Statement, RollbackIO, Points, CommitStates
  <2>2. call[t].mine \in Connections \cup {None}
    BY <1>1 DEF TypeOK, Calls
  <2>3. fate' \in [Connections -> Fates] /\ rolled' \subseteq Connections
    BY <1>1, <1>12, <2>2 DEF TypeOK, BeginIO, Statement, RollbackIO, Usable, Fates
  <2> QED  BY <1>1, <1>12, <2>1, <2>3 DEF TypeOK, BeginIO, Statement, RollbackIO
<1>13. ASSUME NEW t \in Threads, Dispatch(t)
       PROVE  TypeOK'
  <2>1. call' \in [Threads -> Calls] /\ fate' \in [Connections -> Fates]
    BY <1>1, <1>13, Sends DEF TypeOK, Dispatch, Usable, Fates
  <2> QED  BY <1>1, <1>13, <2>1 DEF TypeOK, Dispatch
<1>14. ASSUME NEW t \in Threads, IOFailure(t)
       PROVE  TypeOK'
  <2>1. Wire(t) \in Connections \cup {None}
    BY <1>1 DEF TypeOK, Calls, Wire
  <2>2. fate' \in [Connections -> Fates] /\ finished' \subseteq Connections
    BY <1>1, <1>14, <2>1, Finishes DEF TypeOK, IOFailure
  <2>3. call' \in [Threads -> Calls]
    BY <1>1, <1>14, Fails
  <2> QED  BY <1>1, <1>14, <2>2, <2>3 DEF TypeOK, IOFailure, AfterFailure, Unlocked
<1>15. CASE Expire \/ \E k \in Connections : ServerCommit(k)
  BY <1>1, <1>15 DEF TypeOK, Expire, ServerCommit, Fates
<1> QED  BY <1>2, <1>3, <1>4, <1>5, <1>6, <1>7, <1>8, <1>9, <1>10, <1>11, <1>12, <1>13, <1>14,
         <1>15 DEF Next, Local, Remote, IOEnds

-----------------------------------------------------------------------------
(* What a step may disturb                                                 *)

\* What others, and the server, may do to transaction k.
Drifts(k) ==
    \/ fate'[k] = fate[k]
    \/ fate[k] \in {"open", "error"} /\ fate'[k] = "aborted" /\ k \in finished'
    \/ fate[k] = "committing" /\ fate'[k] \in {"committed", "aborted"}

\* What a call under the lock may meet: its connection is taken away, and what was
\* open on it is lost.
Drift ==
    /\ transactional' = transactional
    /\ finished \subseteq finished'
    /\ \A k \in Connections : Drifts(k)
    /\ conn' = None \/ (conn' = conn /\ begun' = begun)

\* A connection at rest stays so, or is released.
LEMMA RestStays ==
    ASSUME TypeOK, Drift, AtRest
    PROVE  AtRest'
  BY DEF TypeOK, Drift, Drifts, AtRest, Live

\* What a call under the lock relies on, no other takes away.
LEMMA HolderStays ==
    ASSUME TypeOK, Drift, NEW c \in Calls, Holder(c)
    PROVE  Holder(c)'
<1>1. AtRest => AtRest'
  BY RestStays
<1>2. OnOwn(c) => OnOwn(c)' /\ c.mine \in Connections
  BY DEF OnOwn, Drift, Calls
<1>3. \A k \in Connections : Live(k) => Live(k)'
  BY DEF Live, Drift, Drifts
<1>4. \A k \in Connections : fate[k] \in Over => fate'[k] \in Over
  BY DEF Drift, Drifts, Over
<1>5. (conn' = None \/ conn' = conn) /\ conn \in Connections \cup {None}
  BY DEF Drift, TypeOK
<1>6. \A k \in Connections : /\ fate[k] = "none" => fate'[k] = "none"
                             /\ fate[k] # "error" /\ Live(k) => fate'[k] # "error"
                             /\ fate[k] = "committed" => fate'[k] = "committed"
                             /\ fate[k] \in {"committing", "committed", "aborted"} =>
                                   fate'[k] \in {"committing", "committed", "aborted"}
  BY DEF Drift, Drifts, Live
<1>7. transactional' = transactional
  BY DEF Drift
<1>8. c.point \in {"markUnknown", "dispatch"} => fate'[c.mine] # "error"
  BY <1>2, <1>6 DEF Holder
<1> QED  BY <1>1, <1>2, <1>3, <1>4, <1>5, <1>6, <1>7, <1>8 DEF Holder, Over

\* So the session's connection is in good hands after a step of another.
LEMMA ConnectionStays ==
    ASSUME IInv, TypeOK', Drift, begins' = begins, lock' = lock,
           conn' # None => returned'[conn] = returned[conn],
           \A o \in Threads : lock = o => call'[o] = call[o] \/ Holder(call[o])'
    PROVE  ConnectionHolds'
<1>1. TypeOK /\ ConnectionHolds /\ lock \in Threads \cup {NoThread} /\ NoThread \notin Threads
  BY SessionAssumption DEF IInv, TypeOK
<1>2. CASE lock = NoThread
  BY <1>1, <1>2, RestStays DEF ConnectionHolds, Drift
<1>3. CASE lock \in Threads
  <2>1. call[lock] \in Calls /\ Holder(call[lock])
    BY <1>1, <1>3 DEF TypeOK, ConnectionHolds
  <2>2. Holder(call[lock])'
    <3>1. CASE call'[lock] = call[lock]
      <4>1. \A c \in Calls : Holder(c) => Holder(c)'
        BY <1>1, HolderStays
      <4>2. \A c : c = call'[lock'] /\ Holder(c)' => Holder(call[lock])'
        BY DEF Holder, AtRest, OnOwn, Live
      <4> QED  BY <2>1, <3>1, <4>1, <4>2
    <3> QED  BY <1>3, <3>1
  <2> QED  BY <1>1, <1>3, <2>2 DEF ConnectionHolds, Drift
<1> QED  BY <1>1, <1>2, <1>3

\* What thread t owes the invariant for one of its steps.
LEMMA StepKeeps ==
    ASSUME IInv, NEW t \in Threads, TypeOK', EngineHolds', ReturnedOnceAndClean',
           \A u \in Threads \ {t} : call'[u] = call[u] /\ (lock' = u <=> lock = u),
           transactional' = transactional,
           begins' >= begins, conn' \in {conn, None} \/ conn' > begins,
           \A k \in Connections : \/ returned'[k] = returned[k]
                                  \/ At(t, "put") /\ k = call[t].mine,
           \A k \in Connections : fate[k] \in Over => fate'[k] \in Over,
           Caller(t)',
           call'[t].point = "put" =>
              \A u \in Threads \ {t} : At(u, "put") => call[u].mine # call'[t].mine,
           ConnectionHolds'
    PROVE  IInv'
<1>1. TypeOK /\ begins \in Nat /\ begins' \in Nat
  BY Numbers DEF IInv, TypeOK
<1>2. ASSUME NEW u \in Threads \ {t}
      PROVE  Caller(u)'
  <2>1. Caller(u) /\ call[u] \in Calls /\ call[u].mine \in Nat /\ call'[u] = call[u]
        /\ call[u].mine \in Connections \cup {None}
    BY <1>1, Numbers DEF IInv, TypeOK, Calls
  <2>2. call[u].point = "put" /\ At(t, "put") => call[u].mine # call[t].mine
    BY DEF IInv, PutsApart, At
  <2>3. call[u].point = "put" => /\ call[u].mine \in Connections
                                 /\ call[u].mine \notin {None, conn'}
                                 /\ returned'[call[u].mine] = 0
                                 /\ ~call[u].discard => fate'[call[u].mine] \in Over
    BY <1>1, <2>1, <2>2 DEF Caller
  <2> QED  BY <1>1, <2>1, <2>3 DEF Caller
<1>3. \A u \in Threads : Caller(u)'
  BY <1>2
<1>4. PutsApart'
  BY DEF IInv, PutsApart, At
<1> QED  BY <1>3, <1>4 DEF IInv

\* A step that leaves the engine alone.
LEMMA EngineKept ==
    ASSUME IInv, UNCHANGED engine, begins' >= begins, begins' \in Nat
    PROVE  EngineHolds' /\ ReturnedOnceAndClean'
<1>1. begins \in Nat /\ \A k \in Connections : k \in Nat
  BY Numbers DEF IInv, TypeOK
<1> QED  BY <1>1 DEF IInv, EngineHolds, ReturnedOnceAndClean, engine

\* The same, for the thread that has the lock and keeps the connection.
LEMMA HolderStep ==
    ASSUME IInv, NEW t \in Threads, lock = t, lock' \in {t, NoThread},
           TypeOK', EngineHolds', ReturnedOnceAndClean',
           \A u \in Threads \ {t} : call'[u] = call[u],
           UNCHANGED <<transactional, conn, begins, returned>>,
           \A k \in Connections : fate[k] \in Over => fate'[k] \in Over,
           call'[t].point \notin {"idle", "admit", "put"}, call'[t].op = call[t].op,
           call'[t].mine \in {call[t].mine, conn},
           IF lock' = t THEN Holder(call[t])'
           ELSE /\ AtRest' /\ call'[t].point \notin Inside
                /\ call'[t].point = "release" => call'[t].discard
    PROVE  IInv'
<1>1. /\ begins \in Nat /\ NoThread \notin Threads /\ conn \in {None, begins}
      /\ call[t].point \notin {"idle", "admit"} /\ call[t].op # "none"
      /\ call[t].mine <= begins /\ begins' = begins
      /\ conn # None => returned[conn] = 0
  BY Numbers, SessionAssumption DEF IInv, TypeOK, ConnectionHolds, Holder, Caller
<1>2. Caller(t)'
  <2>1. lock' # t => /\ call'[t].point \notin Inside
                     /\ call'[t].point \in {"release", "put"} => call'[t].discard
    OBVIOUS
  <2>2. /\ call'[t].mine <= begins' /\ call'[t].op # "none" /\ call'[t].point # "put"
    BY <1>1 DEF None
  <2> QED  BY <2>1, <2>2 DEF Caller
<1>3. ConnectionHolds'
  <2>1. CASE lock' = t
    BY <1>1, <2>1 DEF ConnectionHolds, Holder, AtRest, OnOwn, Live
  <2>2. CASE lock' = NoThread
    BY <1>1, <2>2 DEF ConnectionHolds
  <2> QED  BY <2>1, <2>2
<1> QED  BY <1>1, <1>2, <1>3, StepKeeps

-----------------------------------------------------------------------------
(* Steps that need no lock                                                 *)

\* The thread with the lock is in its call.
LEMMA LockIsUsed ==
    ASSUME IInv, NEW t \in Threads
    PROVE  /\ TypeOK /\ call[t] \in Calls /\ Caller(t) /\ ConnectionHolds
           /\ call[t].point \in {"idle", "admit"} => lock # t
           /\ lock = t => Holder(call[t])
           /\ lock \in Threads \cup {NoThread} /\ NoThread \notin Threads
           /\ begins \in Nat
  BY SessionAssumption, Numbers DEF IInv, TypeOK, ConnectionHolds, Holder

\* To call is to hold nothing yet.
LEMMA StartKeeps ==
    ASSUME IInv, TypeOK', NEW t \in Threads, NEW op \in Operations,
           Start(t, op) \/ AdmissionExpired(t)
    PROVE  IInv'
<1>1. /\ call[t].point \in {"idle", "admit"} /\ lock # t /\ lock' = lock
      /\ UNCHANGED <<transactional, conn, begun, begins, engine>>
  BY LockIsUsed DEF Start, AdmissionExpired, At, session
<1>2. /\ \A u \in Threads \ {t} : call'[u] = call[u]
      /\ call'[t].point \notin Inside \cup {"put"}
      /\ call'[t].point = "release" => call'[t].discard
      /\ call'[t].point # "idle" => call'[t].op # "none"
      /\ call'[t].mine <= begins
  <2>1. CASE Start(t, op)
    <3> DEFINE p == IF op = "close" /\ conn = None THEN "return" ELSE "admit"
               c == [NoCall EXCEPT !.point = p, !.op = op, !.about = begins]
    <3>1. call' = [call EXCEPT ![t] = c]
      BY <2>1 DEF Start
    <3>2. c.point \in {"admit", "return"} /\ c.op = op /\ c.mine = 0
      BY DEF NoCall, None
    <3> HIDE DEF c
    <3> QED  BY <3>1, <3>2, LockIsUsed DEF TypeOK, Operations, Inside
  <2>2. CASE AdmissionExpired(t)
    BY <2>2, LockIsUsed, Goes, Leaves
       DEF AdmissionExpired, TypeOK, Caller, Inside, At, Points, CommitStates
  <2> QED  BY <2>1, <2>2
<1>3. Caller(t)'
  BY <1>1, <1>2 DEF Caller
<1>4. Drift
  BY <1>1 DEF Drift, Drifts, engine
<1>5. ConnectionHolds'
  BY <1>1, <1>2, <1>4, ConnectionStays DEF engine
<1>6. EngineHolds' /\ ReturnedOnceAndClean'
  BY <1>1, LockIsUsed, EngineKept
<1> QED  BY <1>1, <1>2, <1>3, <1>5, <1>6, LockIsUsed, StepKeeps DEF engine

\* Whoever is admitted finds a connection at rest.
LEMMA AdmitKeeps ==
    ASSUME IInv, TypeOK', NEW t \in Threads, Admit(t)
    PROVE  IInv'
<1>1. /\ lock = NoThread /\ lock' = t
      /\ UNCHANGED <<transactional, conn, begun, begins, engine>>
  BY DEF Admit
<1>2. /\ \A u \in Threads \ {t} : call'[u] = call[u]
      /\ call'[t].point = "body" /\ call'[t].op = call[t].op /\ call'[t].mine = call[t].mine
      /\ call[t].point = "admit"
  BY LockIsUsed, Goes DEF Admit, TypeOK, Points, At
<1>3. Caller(t)'
  BY <1>1, <1>2, LockIsUsed DEF Caller
<1>4. AtRest'
  BY <1>1, LockIsUsed DEF ConnectionHolds, AtRest, Live, engine
<1>5. ConnectionHolds'
  <2>1. Holder(call[t])'
    BY <1>2, <1>4 DEF Holder
  <2>2. Holder(call[lock])'
    BY <1>1, <2>1 DEF Holder, AtRest, OnOwn, Live
  <2> QED  BY <1>1, <2>2, LockIsUsed DEF ConnectionHolds, engine
<1>6. EngineHolds' /\ ReturnedOnceAndClean'
  BY <1>1, LockIsUsed, EngineKept
<1> QED  BY <1>1, <1>2, <1>3, <1>5, <1>6, LockIsUsed, StepKeeps DEF engine

\* A call that is over holds nothing.
LEMMA ReturnKeeps ==
    ASSUME IInv, TypeOK', NEW t \in Threads, Return(t)
    PROVE  IInv'
<1>1. /\ call[t].point = "return" /\ lock # t /\ lock' = lock
      /\ UNCHANGED <<transactional, conn, begun, begins, engine>>
  BY DEF Return, At
<1>2. /\ \A u \in Threads \ {t} : call'[u] = call[u]
      /\ call'[t].point = "idle" /\ call'[t].mine = 0 /\ call'[t].op = "none"
  BY <1>1, LockIsUsed DEF Return, TypeOK, NoCall, None
<1>3. Caller(t)'
  BY <1>1, <1>2, LockIsUsed DEF Caller, Inside
<1>4. Drift
  BY <1>1 DEF Drift, Drifts, engine
<1>5. ConnectionHolds'
  BY <1>1, <1>2, <1>4, ConnectionStays DEF engine
<1>6. EngineHolds' /\ ReturnedOnceAndClean'
  BY <1>1, LockIsUsed, EngineKept
<1> QED  BY <1>1, <1>2, <1>3, <1>5, <1>6, LockIsUsed, StepKeeps DEF engine

\* Whoever frees the lock leaves the connection at rest.
LEMMA UnlockKeeps ==
    ASSUME IInv, TypeOK', NEW t \in Threads, Unlock(t)
    PROVE  IInv'
<1>1. /\ call[t].point = "return" /\ lock = t /\ lock' = NoThread /\ call' = call
      /\ UNCHANGED <<transactional, conn, begun, begins, engine>>
  BY DEF Unlock, At
<1>2. AtRest'
  BY <1>1, LockIsUsed DEF Holder, AtRest, Live, engine
<1>3. EngineHolds' /\ ReturnedOnceAndClean'
  BY <1>1, LockIsUsed, EngineKept
<1> QED  BY <1>1, <1>2, <1>3, LockIsUsed, HolderStep DEF Inside, engine

\* The connection released is in no other hands, and over unless it is discarded.
LEMMA ReleaseKeeps ==
    ASSUME IInv, TypeOK', NEW t \in Threads, Release(t)
    PROVE  IInv'
<1>1. /\ call[t].point = "release" /\ conn' = None /\ begun' = FALSE /\ lock' = lock
      /\ UNCHANGED <<transactional, begins, engine>>
  BY DEF Release, At
<1>2. /\ \A u \in Threads \ {t} : call'[u] = call[u]
      /\ call'[t].point = IF conn = None THEN "return" ELSE "put"
      /\ call'[t].mine = conn /\ call'[t].discard = call[t].discard
      /\ call'[t].op = call[t].op
  BY LockIsUsed, Releases
<1>3. ~call[t].discard => lock = t
  BY <1>1, LockIsUsed DEF Caller
<1>4. conn # None /\ ~call[t].discard => fate[conn] \in Over
  BY <1>1, <1>3, LockIsUsed DEF Holder
<1>5. Caller(t)'
  <2>1. /\ conn <= begins /\ (conn # None => returned[conn] = 0) /\ call[t].op # "none"
    BY <1>1, LockIsUsed DEF ConnectionHolds, Caller, None
  <2>2. lock' # t => call'[t].point \notin Inside /\ call'[t].discard
    BY <1>1, <1>2, <1>3 DEF Inside
  <2> QED  BY <1>1, <1>2, <1>4, <2>1, <2>2 DEF Caller, engine
<1>6. lock = t => Holder(call[t])'
  BY <1>1, <1>2 DEF Holder, AtRest
<1>7. Drift
  BY <1>1 DEF Drift, Drifts, engine
<1>8. ConnectionHolds'
  BY <1>1, <1>2, <1>6, <1>7, ConnectionStays DEF engine
<1>9. EngineHolds' /\ ReturnedOnceAndClean'
  BY <1>1, LockIsUsed, EngineKept
<1>10. \A u \in Threads : At(u, "put") => call[u].mine # conn
  BY LockIsUsed DEF Caller, At
<1> QED  BY <1>1, <1>2, <1>5, <1>8, <1>9, <1>10, LockIsUsed, StepKeeps DEF engine

\* It goes back once.
LEMMA PutKeeps ==
    ASSUME IInv, TypeOK', NEW t \in Threads, Put(t)
    PROVE  IInv'
<1> DEFINE k == call[t].mine
<1>1. /\ call[t].point = "put" /\ lock' = lock
      /\ UNCHANGED <<transactional, conn, begun, begins, rolled>>
      /\ returned' = [returned EXCEPT ![k] = @ + 1]
  BY DEF Put, At, session
<1>2. /\ \A u \in Threads \ {t} : call'[u] = call[u]
      /\ call'[t].point = "return" /\ call'[t].op = call[t].op /\ call'[t].mine = k
  BY LockIsUsed, Goes DEF Put, TypeOK, Points
<1>3. /\ k \in Connections /\ k # conn /\ returned[k] = 0 /\ k <= begins
      /\ ~call[t].discard => fate[k] \in Over
  BY <1>1, LockIsUsed DEF Caller, Calls
<1>4. /\ finished \subseteq finished' /\ finished' \subseteq finished \cup {k}
      /\ call[t].discard => k \in finished'
      /\ \A j \in Connections :
            fate'[j] = IF call[t].discard /\ j = k /\ fate[j] \in {"open", "error"}
                       THEN "aborted" ELSE fate[j]
  <2>1. CASE call[t].discard
    <3>1. Finish(k)
      BY <2>1 DEF Put
    <3> QED  BY <2>1, <3>1, <1>3, LockIsUsed, Finishes
  <2>2. CASE ~call[t].discard
    BY <2>2 DEF Put
  <2> QED  BY <2>1, <2>2
<1> HIDE DEF k
<1>5. \A j \in Connections : returned'[j] = IF j = k THEN returned[j] + 1 ELSE returned[j]
  BY <1>1, <1>3, LockIsUsed DEF TypeOK
<1>6. Drift
  BY <1>1, <1>4 DEF Drift, Drifts
<1>7. Caller(t)'
  BY <1>1, <1>2, <1>3, LockIsUsed DEF Caller, Inside
<1>8. lock = t => Holder(call[t])'
  <2>1. lock = t => conn' = None
    BY <1>1, LockIsUsed DEF Holder
  <2> QED  BY <1>2, <2>1 DEF Holder, AtRest
<1>9. ConnectionHolds'
  <2>1. conn # None => returned'[conn] = returned[conn]
    BY <1>3, <1>5, LockIsUsed DEF TypeOK
  <2> QED  BY <1>1, <1>2, <1>6, <1>8, <2>1, ConnectionStays
<1>10. EngineHolds'
  <2>1. \A j \in Connections : j \in finished' => fate'[j] \notin {"open", "error"}
    <3>1. \A j \in finished : fate[j] \notin {"open", "error"}
      BY DEF IInv, EngineHolds
    <3>2. ~call[t].discard => fate[k] \notin {"open", "error"}
      BY <1>3 DEF Over
    <3> QED  BY <1>4, <3>1, <3>2
  <2>2. \A j \in rolled' : fate'[j] = "rolledback"
    BY <1>1, <1>4, LockIsUsed DEF IInv, EngineHolds, TypeOK
  <2>3. \A j \in Connections : j > begins' => fate'[j] = "none" /\ returned'[j] = 0
    BY <1>1, <1>3, <1>4, <1>5, Numbers, LockIsUsed DEF IInv, EngineHolds
  <2> QED  BY <2>1, <2>2, <2>3 DEF EngineHolds, TypeOK
<1>11. ReturnedOnceAndClean'
  BY <1>3, <1>4, <1>5, LockIsUsed DEF IInv, ReturnedOnceAndClean, TypeOK, Over
<1>12. \A j \in Connections : fate[j] \in Over => fate'[j] \in Over
  BY <1>4 DEF Over
<1> QED  BY <1>1, <1>2, <1>5, <1>7, <1>9, <1>10, <1>11, <1>12, LockIsUsed, StepKeeps DEF At, k

\* The deadline and the server take nothing from callers but open transactions.
LEMMA WorldKeeps ==
    ASSUME IInv, TypeOK', Expire \/ \E k \in Connections : ServerCommit(k)
    PROVE  IInv'
<1>1. UNCHANGED <<transactional, conn, begun, lock, begins, call, finished, returned, rolled>>
  BY DEF Expire, ServerCommit, session, engine
<1>2. \A j \in Connections : \/ fate'[j] = fate[j]
                             \/ /\ fate[j] = "committing"
                                /\ fate'[j] \in {"committed", "aborted"}
  BY DEF Expire, ServerCommit, engine, IInv, TypeOK
<1>3. Drift
  BY <1>1, <1>2 DEF Drift, Drifts
<1>4. ConnectionHolds'
  BY <1>1, <1>3, ConnectionStays
<1>5. EngineHolds' /\ ReturnedOnceAndClean'
  <2>1. EngineHolds /\ ReturnedOnceAndClean /\ TypeOK
    BY DEF IInv
  <2>2. EngineHolds'
    BY <1>1, <1>2, <2>1 DEF EngineHolds, TypeOK
  <2>3. ReturnedOnceAndClean'
    BY <1>1, <1>2, <2>1 DEF ReturnedOnceAndClean
  <2> QED  BY <2>2, <2>3
<1>6. ASSUME NEW u \in Threads
      PROVE  Caller(u)'
  BY <1>1, <1>2, LockIsUsed DEF Caller, Calls, Over
<1>7. PutsApart'
  BY <1>1 DEF IInv, PutsApart, At
<1> QED  BY <1>4, <1>5, <1>6, <1>7 DEF IInv

-----------------------------------------------------------------------------
(* Steps under the lock                                                    *)

\* Steps that only move the call on.
LEMMA QuietKeeps ==
    ASSUME IInv, TypeOK', NEW t \in Threads,
           \/ Refuse(t) \/ Body(t) \/ PoolTimeout(t) \/ CheckBegun(t) \/ SetBegun(t)
           \/ CheckCommit(t) \/ MarkUnknown(t) \/ Ack(t) \/ MarkCommitted(t) \/ LateCheck(t)
    PROVE  IInv'
<1>1. /\ call[t].point \in Inside /\ lock' \in {t, NoThread}
      /\ UNCHANGED <<transactional, conn, begins, engine>>
      /\ ~SetBegun(t) => UNCHANGED begun
      /\ ~Refuse(t) => UNCHANGED lock
  BY WhoHolds DEF Refuse, Body, PoolTimeout, CheckBegun, SetBegun, CheckCommit, MarkUnknown, Ack,
     MarkCommitted, LateCheck, Inside, At, session, Unlocked
<1>2. lock = t /\ Holder(call[t]) /\ call[t] \in Calls /\ t # NoThread
  BY <1>1, WhoHolds, LockIsUsed
<1>3. /\ \A u \in Threads \ {t} : call'[u] = call[u]
      /\ call'[t].op = call[t].op /\ call'[t].mine \in {call[t].mine, conn}
      /\ call'[t].point \notin {"idle", "admit", "put"}
      /\ IF lock' = t THEN Holder(call[t])'
         ELSE /\ AtRest' /\ call'[t].point \notin Inside
              /\ call'[t].point = "release" => call'[t].discard
  <2>1. CASE Refuse(t)
    <3>1. /\ lock' = NoThread /\ \A u \in Threads \ {t} : call'[u] = call[u]
          /\ call'[t].op = call[t].op /\ call'[t].mine = call[t].mine
          /\ call'[t].point \in {"release", "return"}
          /\ call'[t].point = "release" => call'[t].discard
      BY <1>2, <2>1, LockIsUsed, Goes, Leaves DEF Refuse, Unlocked, TypeOK, Points, CommitStates
    <3>2. AtRest'
      BY <1>1, <1>2, <2>1 DEF Refuse, At, Holder, AtRest, Live, engine, session
    <3> QED  BY <1>2, <3>1, <3>2 DEF Inside
  <2>2. CASE Body(t)
    <3>1. /\ \A u \in Threads \ {t} : call'[u] = call[u]
          /\ \/ call[t].op = "begin" /\ call'[t].point = "getconn"
             \/ call[t].op = "execute" /\ transactional /\ call'[t].point = "statement"
             \/ call[t].op = "execute" /\ ~transactional /\ call'[t].point = "getconn"
             \/ call[t].op = "commit" /\ call'[t].point = "checkCommit"
             \/ call[t].op \in {"rollback", "close"} /\ call'[t].point = "rollbackIO"
          /\ call'[t].op = call[t].op /\ call'[t].mine = conn /\ lock' = t
      BY <1>2, <2>2, Enters DEF Body, session
    <3>2. /\ AtRest /\ UNCHANGED <<conn, begun, transactional, fate, finished>>
      BY <1>2, <2>2 DEF Body, Holder, At, session, engine
    <3>3. AtRest'
      BY <3>2 DEF AtRest, Live
    <3>4. /\ call'[t].point = "getconn" => conn = None
          /\ call'[t].point \in {"statement", "checkCommit"} => conn # None
      BY <2>2, <3>1, <3>2 DEF Body, Refused, AtRest
    <3>5. call[t].op = "begin" => transactional'
      BY <2>2, <3>2 DEF Body, Refused
    <3>6. Holder(call[t])'
      BY <3>1, <3>2, <3>3, <3>4, <3>5 DEF Holder, OnOwn, AtRest
    <3> QED  BY <3>1, <3>6
  <2>3. CASE PoolTimeout(t)
    <3>1. /\ \A u \in Threads \ {t} : call'[u] = call[u]
          /\ call'[t].point = "return"
          /\ call'[t].op = call[t].op /\ call'[t].mine = call[t].mine /\ lock' = t
      BY <1>2, <2>3, LockIsUsed, Goes DEF PoolTimeout, TypeOK, Points, session
    <3>2. Holder(call[t])'
      BY <1>1, <1>2, <2>3, <3>1 DEF PoolTimeout, At, Holder, AtRest
    <3> QED  BY <3>1, <3>2
  <2>4. CASE SetBegun(t)
    <3>1. /\ \A u \in Threads \ {t} : call'[u] = call[u]
          /\ call'[t].point \in {"return", "statement"}
          /\ call'[t].op = call[t].op /\ call'[t].mine = call[t].mine /\ lock' = t
      BY <1>2, <2>4, LockIsUsed, Goes DEF SetBegun, TypeOK, Points
    <3>2. /\ OnOwn(call[t]) /\ Live(call[t].mine) /\ begun' = TRUE
          /\ UNCHANGED <<conn, transactional, fate, finished>>
      BY <1>2, <2>4 DEF SetBegun, At, Holder, engine
    <3>3. call'[t].point = "return" => transactional
      BY <1>2, <2>4, <3>1, LockIsUsed, Goes DEF SetBegun, At, TypeOK, Points, Holder
    <3>4. transactional => AtRest'
      BY <3>2 DEF AtRest, OnOwn, Live
    <3>5. Holder(call[t])'
      BY <3>1, <3>2, <3>3, <3>4 DEF Holder, OnOwn, Live
    <3> QED  BY <3>1, <3>5
  <2>5. CASE CheckCommit(t)
    <3>1. /\ \A u \in Threads \ {t} : call'[u] = call[u]
          /\ call'[t].op = call[t].op /\ call'[t].mine = call[t].mine /\ lock' = t
          /\ \/ call'[t].point = "release" /\ call'[t].discard
             \/ call'[t].point = "return" /\ conn = None
             \/ /\ call'[t].point = "markUnknown" /\ conn # None
                /\ ~(Usable(conn) /\ fate[conn] = "error")
      BY <1>2, <2>5, LockIsUsed, Goes, Leaves
         DEF CheckCommit, TypeOK, Points, session, CommitStates
    <3>2. OnOwn(call[t]) /\ Live(call[t].mine) /\ UNCHANGED <<conn, fate, finished>>
      BY <1>1, <1>2, <2>5 DEF CheckCommit, At, Holder, engine
    <3>3. call'[t].point = "markUnknown" => fate[call[t].mine] # "error"
      BY <3>1, <3>2 DEF OnOwn, Usable, IInv, EngineHolds
    <3>4. Holder(call[t])'
      BY <3>1, <3>2, <3>3 DEF Holder, OnOwn, Live, AtRest
    <3> QED  BY <3>1, <3>4
  <2>6. CASE MarkUnknown(t) \/ Ack(t) \/ MarkCommitted(t)
    <3>1. /\ \A u \in Threads \ {t} : call'[u] = call[u]
          /\ call'[t].op = call[t].op /\ call'[t].mine = call[t].mine /\ lock' = t
          /\ \/ call[t].point = "markUnknown" /\ call'[t].point = "dispatch"
             \/ /\ call[t].point = "ack" /\ call'[t].point = "markCommitted"
                /\ fate[call[t].mine] \in Over
             \/ call[t].point = "markCommitted" /\ call'[t].point = "lateCheck"
      BY <1>2, <2>6, LockIsUsed, Goes
         DEF MarkUnknown, Ack, MarkCommitted, At, TypeOK, Points, session, Over
    <3>2. UNCHANGED <<conn, fate, finished>>
      BY <1>1 DEF engine
    <3>3. Holder(call[t])'
      BY <1>2, <3>1, <3>2 DEF Holder, OnOwn, Live, Over
    <3> QED  BY <3>1, <3>3
  <2>8. CASE CheckBegun(t)
    <3>1. /\ \A u \in Threads \ {t} : call'[u] = call[u]
          /\ call'[t].op = call[t].op /\ call'[t].mine = call[t].mine /\ lock' = t
          /\ \/ call'[t].point = "release" /\ call'[t].discard
             \/ call'[t].point = "setBegun"
          /\ call[t].point = "checkBegun"
      BY <1>2, <2>8, LockIsUsed, Goes, Leaves
         DEF CheckBegun, At, TypeOK, Points, session, CommitStates
    <3>2. UNCHANGED <<transactional, conn, fate, finished>>
      BY <1>1 DEF engine
    <3>3. Holder(call[t])'
      BY <1>2, <3>1, <3>2 DEF Holder, OnOwn, Live
    <3> QED  BY <3>1, <3>3
  <2>7. CASE LateCheck(t)
    <3>1. /\ \A u \in Threads \ {t} : call'[u] = call[u]
          /\ call'[t].op = call[t].op /\ call'[t].mine = call[t].mine /\ lock' = t
          /\ call'[t].point = "release"
      BY <1>2, <2>7, LockIsUsed, Leaves DEF LateCheck, TypeOK, session, CommitStates
    <3>2. UNCHANGED <<conn, fate>> /\ OnOwn(call[t]) /\ fate[call[t].mine] = "committed"
      BY <1>1, <1>2, <2>7 DEF engine, LateCheck, At, Holder
    <3>3. Holder(call[t])'
      BY <3>1, <3>2 DEF Holder, OnOwn, Over
    <3> QED  BY <3>1, <3>3
  <2> QED  BY <2>1, <2>2, <2>3, <2>4, <2>5, <2>6, <2>7, <2>8
<1>4. EngineHolds' /\ ReturnedOnceAndClean'
  BY <1>1, LockIsUsed, EngineKept
<1> QED  BY <1>1, <1>2, <1>3, <1>4, HolderStep DEF engine

\* A new connection is taken when there is none.
LEMMA GetConnKeeps ==
    ASSUME IInv, TypeOK', NEW t \in Threads, GetConn(t)
    PROVE  IInv'
<1>1. /\ lock = t /\ Holder(call[t]) /\ lock' = lock /\ conn = None
      /\ begins' = begins + 1 /\ conn' = begins + 1 /\ UNCHANGED <<transactional, engine>>
  BY WhoHolds DEF GetConn, Inside, At, Holder
<1>2. begins + 1 \in Connections
  BY LockIsUsed, Numbers DEF GetConn, TypeOK
<1>3. /\ \A u \in Threads \ {t} : call'[u] = call[u]
      /\ call'[t].point = "beginIO" /\ call'[t].mine = begins + 1 /\ call'[t].op = call[t].op
  BY <1>2, LockIsUsed, Takes
<1>4. fate[begins + 1] = "none" /\ returned[begins + 1] = 0
  BY <1>2, LockIsUsed DEF IInv, EngineHolds
<1>5. Caller(t)'
  BY <1>1, <1>3, LockIsUsed DEF Caller, GetConn, At
<1>6. ConnectionHolds'
  <2>1. Holder(call[t])'
    BY <1>1, <1>3, <1>4, LockIsUsed DEF GetConn, At, Holder, OnOwn, None, engine
  <2>2. Holder(call[lock])'
    BY <1>1, <2>1 DEF Holder, AtRest, OnOwn, Live
  <2> QED  BY <1>1, <1>4, <2>2, LockIsUsed DEF ConnectionHolds, engine
<1>7. EngineHolds' /\ ReturnedOnceAndClean'
  BY <1>1, LockIsUsed, EngineKept
<1> QED  BY <1>1, <1>3, <1>5, <1>6, <1>7, LockIsUsed, StepKeeps DEF engine

\* What a call does to its own transaction over the wire.
LEMMA WireKeeps ==
    ASSUME IInv, NEW k \in Connections, k \notin finished, fate[k] \notin Over, k <= begins,
           UNCHANGED <<begins, finished, returned>>, rolled' \in {rolled, rolled \cup {k}},
           fate' \in [Connections -> Fates],
           \A j \in Connections : j # k => fate'[j] = fate[j],
           rolled' # rolled => fate'[k] = "rolledback"
    PROVE  EngineHolds' /\ ReturnedOnceAndClean'
<1>1. k \notin rolled /\ returned[k] # 1
  BY DEF IInv, EngineHolds, ReturnedOnceAndClean, Over
<1>2. begins \in Nat /\ k \in Nat /\ finished \subseteq Connections /\ rolled \subseteq Connections
  BY Numbers DEF IInv, TypeOK
<1>3. EngineHolds'
  <2>1. \A j \in finished' : fate'[j] \notin {"open", "error"}
    BY <1>2 DEF IInv, EngineHolds
  <2>2. \A j \in rolled' : fate'[j] = "rolledback"
    BY <1>1, <1>2 DEF IInv, EngineHolds
  <2>3. \A j \in Connections : j > begins' => fate'[j] = "none" /\ returned'[j] = 0
    BY <1>2 DEF IInv, EngineHolds
  <2> QED  BY <2>1, <2>2, <2>3 DEF EngineHolds
<1> QED  BY <1>1, <1>3 DEF IInv, ReturnedOnceAndClean

\* BEGIN and statements act on the transaction of the call.
LEMMA StatementKeeps ==
    ASSUME IInv, TypeOK', NEW t \in Threads, BeginIO(t) \/ Statement(t)
    PROVE  IInv'
<1> DEFINE k == call[t].mine
<1>1. /\ call[t].point \in Inside
      /\ UNCHANGED <<transactional, conn, begun, begins, lock, finished, returned, rolled>>
      /\ Usable(k)
  BY DEF BeginIO, Statement, Inside, At, session
<1>2. lock = t /\ Holder(call[t]) /\ call[t] \in Calls /\ t # NoThread
  BY <1>1, WhoHolds, LockIsUsed
<1>3. k \in Connections /\ k \notin finished /\ k <= begins
  BY <1>1, <1>2, LockIsUsed DEF Usable, Calls, Caller
<1>4. /\ \A u \in Threads \ {t} : call'[u] = call[u]
      /\ call'[t].op = call[t].op /\ call'[t].mine = k
      /\ \/ /\ call[t].point = "beginIO" /\ call'[t].point = "checkBegun"
            /\ fate' = [fate EXCEPT ![k] = "open"]
         \/ /\ call[t].point = "statement"
            /\ fate' = fate \/ (fate[k] = "open" /\ fate' = [fate EXCEPT ![k] = "error"])
            /\ \/ call'[t].point = "return" /\ transactional
               \/ call'[t].point = "checkCommit" /\ ~transactional
               \/ call'[t].point = "release" /\ call'[t].discard
  BY <1>2, LockIsUsed, Goes, Leaves
     DEF BeginIO, Statement, At, TypeOK, Points, CommitStates
<1>5. /\ OnOwn(call[t]) /\ fate \in [Connections -> Fates] /\ fate[k] \notin Over
      /\ fate' \in [Connections -> Fates]
      /\ call[t].point = "beginIO" => fate[k] = "none"
      /\ call[t].point = "statement" => Live(k) /\ (transactional => AtRest)
  BY <1>2, <1>4, LockIsUsed DEF Holder, TypeOK, Live, Over
<1>6. EngineHolds' /\ ReturnedOnceAndClean'
  BY <1>1, <1>3, <1>4, <1>5, WireKeeps
<1>7. /\ fate'[k] \in {"open", "error"}
      /\ \A j \in Connections : fate[j] \in Over => fate'[j] \in Over
  BY <1>1, <1>3, <1>4, <1>5 DEF Live, Over
<1> HIDE DEF k
<1>8. transactional /\ call[t].point = "statement" => AtRest'
  <2>1. conn # None => conn = k
    BY <1>5 DEF OnOwn, k
  <2> QED  BY <1>1, <1>5, <1>7, <2>1 DEF AtRest, Live
<1>9. Holder(call[t])'
  BY <1>1, <1>2, <1>4, <1>5, <1>7, <1>8 DEF Holder, OnOwn, k, Live
<1> QED  BY <1>1, <1>2, <1>4, <1>6, <1>7, <1>9, HolderStep DEF k

\* ROLLBACK and COMMIT act on the transaction at rest, or that of the call.
LEMMA EndKeeps ==
    ASSUME IInv, TypeOK', NEW t \in Threads, RollbackIO(t) \/ Dispatch(t)
    PROVE  IInv'
<1>1. /\ call[t].point \in Inside
      /\ UNCHANGED <<transactional, conn, begun, begins, lock, finished, returned>>
      /\ Usable(conn) /\ rolled' \in {rolled, rolled \cup {conn}}
  BY DEF RollbackIO, Dispatch, Inside, At, session
<1>2. lock = t /\ Holder(call[t]) /\ call[t] \in Calls /\ t # NoThread
  BY <1>1, WhoHolds, LockIsUsed
<1>3. conn \in Connections /\ conn \notin finished /\ conn <= begins
  BY <1>1, LockIsUsed DEF Usable, TypeOK, ConnectionHolds, None
<1>4. /\ \A u \in Threads \ {t} : call'[u] = call[u]
      /\ call'[t].op = call[t].op /\ call'[t].mine \in {call[t].mine, conn}
      /\ \/ call[t].point = "rollbackIO" /\ call'[t].point = "release"
         \/ call[t].point = "dispatch" /\ call'[t].point = "ack" /\ call'[t].mine = conn
  <2>1. CASE RollbackIO(t)
    BY <2>1, LockIsUsed, Leaves DEF RollbackIO, At, TypeOK, CommitStates
  <2>2. CASE Dispatch(t)
    BY <2>2, LockIsUsed, Sends DEF Dispatch, At
  <2> QED  BY <2>1, <2>2
<1>5. /\ fate \in [Connections -> Fates] /\ fate[conn] \in {"open", "error"}
      /\ call[t].point = "dispatch" => fate[conn] = "open"
  <2>1. Live(conn)
    BY <1>1, <1>2, <1>4 DEF Holder, AtRest, OnOwn, Usable
  <2>2. call[t].point = "dispatch" => fate[conn] # "error"
    BY <1>1, <1>2 DEF Holder, OnOwn, Usable
  <2> QED  BY <1>3, <2>1, <2>2, LockIsUsed DEF Live, TypeOK
<1>6. /\ fate' \in [Connections -> Fates]
      /\ \A j \in Connections : j # conn => fate'[j] = fate[j]
      /\ call[t].point = "dispatch" => fate'[conn] = "committing" /\ rolled' = rolled
      /\ call[t].point = "rollbackIO" => fate'[conn] = "rolledback"
  BY <1>3, <1>5 DEF RollbackIO, Dispatch, At, Fates
<1>7. EngineHolds' /\ ReturnedOnceAndClean'
  BY <1>1, <1>3, <1>4, <1>5, <1>6, WireKeeps DEF Over
<1>8. Holder(call[t])'
  BY <1>1, <1>3, <1>4, <1>6, Numbers DEF Holder, OnOwn, Over
<1> QED  BY <1>1, <1>2, <1>4, <1>5, <1>6, <1>7, <1>8, HolderStep DEF Over

\* A wait that fails shuts the connection down.
LEMMA FailureKeeps ==
    ASSUME IInv, TypeOK', NEW t \in Threads, IOFailure(t)
    PROVE  IInv'
<1>1. /\ call[t].point \in Inside
      /\ UNCHANGED <<transactional, conn, begun, begins, returned, rolled>>
      /\ Wire(t) = None => UNCHANGED <<fate, finished>>
      /\ Wire(t) # None => Finish(Wire(t))
  BY DEF IOFailure, Waiting, Inside
<1>2. lock = t /\ Holder(call[t]) /\ call[t] \in Calls /\ t # NoThread
  BY <1>1, WhoHolds, LockIsUsed
<1>3. lock' = IF call[t].point = "rollbackIO" THEN NoThread ELSE t
  BY <1>2 DEF IOFailure, AfterFailure, Unlocked, At
<1>4. /\ \A u \in Threads \ {t} : call'[u] = call[u]
      /\ call'[t].mine = call[t].mine /\ call'[t].op = call[t].op
      /\ \/ call'[t].point = "release" /\ call'[t].discard
         \/ call[t].point = "statement" /\ transactional /\ call'[t].point = "return"
  BY LockIsUsed, Fails DEF At
<1>5. Wire(t) \in Connections \cup {None}
  BY <1>2, LockIsUsed DEF Wire, Calls, TypeOK
<1>6. /\ finished \subseteq finished' /\ finished' \subseteq finished \cup {Wire(t)}
      /\ \A j \in Connections : fate'[j] = IF j = Wire(t) /\ fate[j] \in {"open", "error"}
                                           THEN "aborted" ELSE fate[j]
      /\ Wire(t) # None => Wire(t) \in finished'
  <2>1. None \notin Connections
    BY Numbers
  <2> QED  BY <1>1, <1>5, <2>1, LockIsUsed, Finishes
<1>7. Drift
  BY <1>1, <1>6, Numbers DEF Drift, Drifts
<1>8. EngineHolds' /\ ReturnedOnceAndClean'
  <2>1. EngineHolds /\ ReturnedOnceAndClean /\ TypeOK /\ finished' \subseteq Connections
    BY DEF IInv, TypeOK
  <2>2. \A j \in finished' : fate'[j] \notin {"open", "error"}
    BY <1>6, <2>1 DEF EngineHolds
  <2>3. \A j \in rolled' : fate'[j] = "rolledback"
    BY <1>1, <1>6, <2>1 DEF EngineHolds, TypeOK
  <2>4. \A j \in Connections : j > begins' => fate'[j] = "none" /\ returned'[j] = 0
    BY <1>1, <1>6, <2>1 DEF EngineHolds
  <2>5. ReturnedOnceAndClean'
    BY <1>1, <1>6, <2>1 DEF ReturnedOnceAndClean, TypeOK
  <2> QED  BY <2>2, <2>3, <2>4, <2>5 DEF EngineHolds
<1>9. AtRest => AtRest'
  BY <1>7, LockIsUsed, RestStays
<1>10. IF lock' = t THEN Holder(call[t])'
       ELSE /\ AtRest' /\ call'[t].point \notin Inside
            /\ call'[t].point = "release" => call'[t].discard
  <2>1. CASE call[t].point = "rollbackIO"
    BY <1>2, <1>3, <1>4, <1>9, <2>1 DEF Holder, Inside
  <2>2. CASE call[t].point # "rollbackIO"
    <3>1. call'[t].point = "return" => AtRest'
      BY <1>2, <1>4, <1>9 DEF Holder
    <3>2. Holder(call[t])'
      BY <1>4, <3>1 DEF Holder, AtRest
    <3> QED  BY <1>3, <2>2, <3>2
  <2> QED  BY <2>1, <2>2
<1>11. \A j \in Connections : fate[j] \in Over => fate'[j] \in Over
  BY <1>6 DEF Over
<1> QED  BY <1>1, <1>2, <1>3, <1>4, <1>8, <1>10, <1>11, HolderStep

\* Every step preserves the invariant.
LEMMA NextInv == IInv /\ [Next]_vars => IInv'
<1> SUFFICES ASSUME IInv, [Next]_vars
             PROVE  IInv'
  OBVIOUS
<1>1. ASSUME Next
      PROVE  IInv'
  <2>1. TypeOK'
    BY <1>1, TypeKept
  <2>2. ASSUME NEW t \in Threads, NEW op \in Operations, Start(t, op)
        PROVE  IInv'
    BY <2>1, <2>2, StartKeeps
  <2>3. ASSUME NEW t \in Threads, Local(t) \/ Remote(t)
        PROVE  IInv'
    <3>1. AdmissionExpired(t) => IInv'
      BY <2>1, StartKeeps DEF Operations
    <3> QED  BY <2>1, <2>3, <3>1, AdmitKeeps, UnlockKeeps, ReturnKeeps, ReleaseKeeps,
                PutKeeps, QuietKeeps,
                GetConnKeeps, StatementKeeps, EndKeeps, FailureKeeps DEF Local, Remote, IOEnds
  <2> QED  BY <1>1, <2>1, <2>2, <2>3, WorldKeeps DEF Next
<1>2. CASE UNCHANGED vars
  <2>1. ConnectionHolds'
    BY <1>2 DEF IInv, ConnectionHolds, vars, session, engine, Holder, AtRest, OnOwn, Live
  <2> QED  BY <1>2, <2>1 DEF IInv, TypeOK, Caller, PutsApart, At, EngineHolds,
           ReturnedOnceAndClean, vars, session, engine
<1> QED  BY <1>1, <1>2

-----------------------------------------------------------------------------
(* What becomes of connections and transactions                            *)

\* Every reachable state of every instance is well typed: what is given back, shut
\* down or rolled back is a connection the session took.
THEOREM SessionTypeOK == Spec => []TypeOK
<1>1. IInv => TypeOK
  BY DEF IInv
<1> QED  BY <1>1, InitInv, NextInv, PTL DEF Spec

\* Releases without the lock included, the pool gets each connection at most once,
\* and open only when its transaction is over.
THEOREM PoolGetsItBack == Spec => []ReturnedOnceAndClean
<1>1. IInv => ReturnedOnceAndClean
  BY DEF IInv
<1> QED  BY <1>1, InitInv, NextInv, PTL DEF Spec

\* No ROLLBACK is sent on a connection that carried a COMMIT.
THEOREM CommitIsNotRolledBack == Spec => []NoRollbackAfterCommit
<1>1. IInv => NoRollbackAfterCommit
  BY DEF IInv, EngineHolds, NoRollbackAfterCommit
<1> QED  BY <1>1, InitInv, NextInv, PTL DEF Spec

-----------------------------------------------------------------------------
(* What becomes of what is said of them                                    *)

\* How a step moves transaction k: COMMIT is sent of an open one, in time.
Moves(k) ==
    \/ fate'[k] = fate[k]
    \/ fate[k] = "none" /\ fate'[k] = "open" /\ ~expired
    \/ fate[k] \in {"open", "error"} /\ fate'[k] \in {"error", "rolledback", "aborted"}
    \/ /\ fate[k] = "open" /\ fate'[k] = "committing" /\ ~expired
       /\ \E t \in Threads : At(t, "dispatch")
    \/ fate[k] = "committing" /\ fate'[k] \in {"committed", "aborted"}

\* Transactions only move on, and the budget is never renewed.
LEMMA FatesMove ==
    ASSUME IInv, Next
    PROVE  /\ \A k \in Connections : Moves(k)
           /\ expired => expired'
           /\ transactional' = transactional /\ begins <= begins' /\ begins \in Nat
           /\ begins' \in Nat
<1> USE DEF session, engine
<1>1. /\ expired => expired'
      /\ transactional' = transactional /\ begins <= begins' /\ begins \in Nat
      /\ begins' \in Nat
  <2>1. begins \in Nat
    BY Numbers DEF IInv, TypeOK
  <2>2. ASSUME NEW t \in Threads, GetConn(t)
        PROVE  transactional' = transactional /\ expired' = expired /\ begins' = begins + 1
    BY <2>2 DEF GetConn
  <2>3. ASSUME NEW t \in Threads, Local(t)
        PROVE  UNCHANGED <<transactional, expired, begins>>
    BY <2>3 DEF Local, Admit, AdmissionExpired, Unlock, Return, Release, Put, Refuse, Body,
       PoolTimeout, CheckBegun, SetBegun, CheckCommit, MarkUnknown, MarkCommitted, LateCheck,
       IOEnds, IOFailure
  <2>4. ASSUME NEW t \in Threads, Remote(t), ~GetConn(t)
        PROVE  UNCHANGED <<transactional, expired, begins>>
    BY <2>4 DEF Remote, BeginIO, Statement, RollbackIO, Dispatch, Ack, IOFailure
  <2>5. ASSUME NEW t \in Threads, NEW op, Start(t, op)
        PROVE  UNCHANGED <<transactional, expired, begins>>
    BY <2>5 DEF Start
  <2>6. CASE Expire \/ \E k \in Connections : ServerCommit(k)
    BY <2>1, <2>6 DEF Expire, ServerCommit
  <2>7. CASE UNCHANGED <<transactional, expired, begins>>
    BY <2>1, <2>7
  <2> QED  BY <2>1, <2>2, <2>3, <2>4, <2>5, <2>6, <2>7 DEF Next
<1>2. \A k \in Connections : Moves(k)
  <2> SUFFICES ASSUME NEW k \in Connections
               PROVE  Moves(k)
    OBVIOUS
  <2>1. TypeOK /\ \A t \in Threads : call[t] \in Calls
    BY DEF IInv, TypeOK
  <2>2. CASE UNCHANGED fate
    BY <2>2 DEF Moves
  <2>3. ASSUME NEW j \in Connections, Finish(j)
        PROVE  Moves(k)
    BY <2>1, <2>3, Finishes DEF Moves
  <2>4. ASSUME NEW t \in Threads, Put(t)
        PROVE  Moves(k)
    <3>1. call[t].mine \in Connections
      BY <2>4, LockIsUsed DEF Put, At, Caller, Calls
    <3> QED  BY <2>2, <2>3, <2>4, <3>1 DEF Put
  <2>5. ASSUME NEW t \in Threads, IOFailure(t)
        PROVE  Moves(k)
    <3>1. Wire(t) \in Connections \cup {None}
      BY <2>1 DEF Wire, Calls, TypeOK
    <3> QED  BY <2>2, <2>3, <2>5, <3>1 DEF IOFailure
  <2>6. ASSUME NEW t \in Threads, BeginIO(t)
        PROVE  Moves(k)
    <3>1. fate[call[t].mine] = "none"
      BY <2>6, WhoHolds DEF BeginIO, At, Inside, Holder
    <3> QED  BY <2>1, <2>6, <3>1 DEF BeginIO, Moves, TypeOK
  <2>7. ASSUME NEW t \in Threads, Statement(t)
        PROVE  Moves(k)
    BY <2>1, <2>7 DEF Statement, Moves, TypeOK
  <2>8. ASSUME NEW t \in Threads, RollbackIO(t)
        PROVE  Moves(k)
    BY <2>1, <2>8 DEF RollbackIO, Moves, TypeOK
  <2>9. ASSUME NEW t \in Threads, Dispatch(t)
        PROVE  Moves(k)
    <3>1. fate[conn] = "open"
      BY <2>9, WhoHolds DEF Dispatch, At, Inside, Holder, OnOwn, Usable, Live
    <3> QED  BY <2>1, <2>9, <3>1 DEF Dispatch, Moves, TypeOK
  <2>10. ASSUME NEW j \in Connections, ServerCommit(j)
         PROVE  Moves(k)
    BY <2>1, <2>10 DEF ServerCommit, Moves, TypeOK
  <2> QED  BY <2>2, <2>4, <2>5, <2>6, <2>7, <2>8, <2>9, <2>10
           DEF Next, Local, Remote, Start, Admit, AdmissionExpired, Unlock, Return,
               Release, Refuse, Body, PoolTimeout, CheckBegun, SetBegun, CheckCommit, MarkUnknown,
               MarkCommitted, LateCheck, IOEnds, GetConn, Ack, Expire
<1> QED  BY <1>1, <1>2

\* What was final is.
LEMMA FinalStays ==
    ASSUME IInv, Next, NEW state, NEW k \in Connections, Final(state, k)
    PROVE  Final(state, k)'
<1>1. Moves(k) /\ (expired => expired')
  BY FatesMove
<1> QED  BY <1>1 DEF Final, Moves

\* So a call that does not move has its answer, and one that goes on keeps it.
LEMMA AnswerStays ==
    ASSUME IInv, AnswersHold, Next, NEW t \in Threads,
           call'[t].op = call[t].op, call'[t].about = call[t].about,
           call'[t].point \in Committing => call[t].op = "commit" \/ ~transactional,
           call'[t].point \in Committing \cup {"beginIO", "checkBegun", "setBegun", "statement"} =>
              (call[t].op = "commit" \/ ~transactional => call[t].about = call'[t].mine),
           call'[t].point \in Inside \cup {"admit"} =>
              call[t].point \in Inside \cup {"admit"} /\ call'[t].report = call[t].report,
           \/ call'[t].report = call[t].report
           \/ call'[t].report = "none"
           \/ call'[t].report = "read" /\ expired /\ transactional
           \/ /\ call'[t].report \in CommitStates /\ call[t].about # None
              /\ Final(call'[t].report, call[t].about)
    PROVE  Answer(call[t])'
<1>1. /\ Answer(call[t]) /\ call[t].about \in Connections \cup {None}
      /\ call[t].about \in Nat
  BY Numbers DEF AnswersHold, IInv, TypeOK, Calls
<1>2. /\ expired => expired'
      /\ transactional' = transactional /\ begins <= begins' /\ begins \in Nat
      /\ begins' \in Nat
  BY FatesMove
<1>3. \A r \in CommitStates : \A k : r = call'[t].report /\ k = call'[t].about =>
         k # None /\ Final(r, k)'
  <2>1. \A r \in CommitStates : \A k : r = call'[t].report /\ k = call[t].about =>
           k # None /\ k \in Connections /\ Final(r, k)
    BY <1>1 DEF Answer, CommitStates
  <2>2. \A r : \A k \in Connections : Final(r, k) => Final(r, k)'
    BY FinalStays
  <2> QED  BY <1>1, <2>1, <2>2
<1>4. call'[t].report = "read" => expired' /\ transactional'
  BY <1>1, <1>2 DEF Answer, CommitStates
<1>5. call'[t].report \in CommitStates =>
         call'[t].about # None /\ Final(call[t].report, call[t].about)'
  BY <1>3 DEF Final
<1> QED  BY <1>1, <1>2, <1>4, <1>5 DEF Answer

\* A call that commits reports on the transaction it commits.
LEMMA CommitsItsOwn ==
    ASSUME IInv, AnswersHold, NEW t \in Threads, call[t].point \in Committing
    PROVE  /\ call[t].about = call[t].mine /\ call[t].mine \in Connections
           /\ call[t].mine # None /\ conn \in {None, call[t].mine}
           /\ call[t].op = "commit" \/ ~transactional
           /\ Holder(call[t]) /\ call[t].mine <= begins /\ lock = t
<1>1. Holder(call[t]) /\ call[t] \in Calls /\ call[t].mine <= begins /\ lock = t
  BY WhoHolds, LockIsUsed DEF Committing, Inside, Caller
<1>2. OnOwn(call[t])
  BY <1>1 DEF Holder, Committing
<1>3. call[t].op = "commit" \/ ~transactional
  BY DEF AnswersHold, Answer
<1>4. call[t].about = call[t].mine
  BY <1>3 DEF AnswersHold, Answer
<1> QED  BY <1>1, <1>2, <1>3, <1>4 DEF OnOwn, Calls

\* With one transaction at most, its number is known.
LEMMA TheOne ==
    ASSUME OneBegin, IInv, AnswersHold, transactional, NEW k \in Connections, k <= begins
    PROVE  k = 1 /\ begins = 1
<1>1. begins <= 1
  <2>1. transactional = TRUE /\ TRUE \in Transactional
    BY DEF IInv, TypeOK
  <2>2. \E m \in Nat : begins <= m /\ m <= 1
    BY <2>1, SessionAssumption DEF AnswersHold, StateHolds, OneBegin
  <2>3. begins \in Nat
    BY Numbers DEF IInv, TypeOK
  <2> QED  BY <2>2, <2>3
<1>2. k \in Nat \ {0} /\ begins \in Nat
  BY Numbers DEF IInv, TypeOK
<1> QED  BY <1>1, <1>2

\* Each call keeps an answer that is so.
LEMMA AnswersKept ==
    ASSUME OneBegin, IInv, AnswersHold, NEW t \in Threads, Next,
           \/ \E op \in Operations : Start(t, op)
           \/ Local(t) \/ Remote(t)
    PROVE  Answer(call[t])'
<1> DEFINE c == call[t]
           Same == /\ call'[t].op = c.op /\ call'[t].about = c.about
           Stays == Same /\ call'[t].report = c.report
<1>1. TypeOK /\ Caller(t) /\ c \in Calls /\ Answer(c) /\ begins \in Nat
  BY LockIsUsed DEF AnswersHold
<1>2. ASSUME Stays,
             call'[t].point \notin Committing
                                   \cup {"beginIO", "checkBegun", "setBegun", "statement"},
             call'[t].point \in Inside \cup {"admit"} => c.point \in Inside \cup {"admit"}
      PROVE  Answer(call[t])'
  BY <1>2, AnswerStays DEF Inside
<1>3. ASSUME Same, call'[t].point \notin Committing \cup Inside \cup {"admit"},
             call'[t].report \in {"none", "unknown-commit"},
             call'[t].report = "unknown-commit" => c.about # None
      PROVE  Answer(call[t])'
  BY <1>3, AnswerStays DEF Final, CommitStates, Inside
<1>4. CASE \E op \in Operations : Start(t, op)
  <2>1. PICK op \in Operations : Start(t, op)
    BY <1>4
  <2> DEFINE p == IF op = "close" /\ conn = None THEN "return" ELSE "admit"
             d == [NoCall EXCEPT !.point = p, !.op = op, !.about = begins]
  <2>2. /\ call' = [call EXCEPT ![t] = d] /\ begins' = begins
    BY <2>1 DEF Start
  <2>3. d.point \in {"admit", "return"} /\ d.op = op /\ d.about = begins /\ d.report = "none"
    BY DEF NoCall
  <2> HIDE DEF d
  <2>4. call'[t] = d
    BY <1>1, <2>2 DEF TypeOK
  <2> QED  BY <1>1, <2>2, <2>3, <2>4 DEF Answer, Committing, CommitStates, None
<1>5. CASE Unlock(t)
  <2>1. call' = call /\ call[t].point = "return"
    BY <1>5 DEF Unlock, At
  <2> QED  BY <1>2, <2>1 DEF Committing, Inside
<1>6. CASE Admit(t) \/ PoolTimeout(t)
  <2>1. call'[t].point \in {"body", "return"} /\ Stays /\ c.point \in {"admit", "getconn"}
    BY <1>1, <1>6, Goes DEF Admit, PoolTimeout, TypeOK, Points, At
  <2> QED  BY <1>2, <2>1 DEF Committing, Inside
<1>7. CASE AdmissionExpired(t)
  <2>1. expired /\ call[t].point = "admit"
    BY <1>7 DEF AdmissionExpired, At
  <2>2. CASE call[t].op = "commit"
    <3>1. /\ Same /\ call'[t].point = "release"
          /\ call'[t].report = IF transactional THEN "read" ELSE "none"
      BY <1>1, <1>7, <2>2, Leaves DEF AdmissionExpired, TypeOK
    <3> QED  BY <2>1, <3>1, AnswerStays DEF Committing, Inside
  <2>3. CASE call[t].op # "commit"
    <3>1. /\ Same /\ call'[t].point \in {"release", "return"}
          /\ call'[t].report \in {c.report, "none"}
      BY <1>1, <1>7, <2>3, Goes, Leaves DEF AdmissionExpired, TypeOK, Points
    <3> QED  BY <3>1, AnswerStays DEF Committing, Inside
  <2> QED  BY <2>2, <2>3
<1>8. CASE Return(t)
  <2>1. call'[t] = NoCall /\ begins' = begins
    BY <1>1, <1>8 DEF Return, TypeOK
  <2> QED  BY <1>1, <2>1 DEF Answer, NoCall, Committing, CommitStates
<1>9. CASE Release(t) \/ Put(t)
  <2>1. call'[t].point \in {"put", "return"} /\ Stays
    BY <1>1, <1>9, Releases, Goes DEF Put, TypeOK, Points
  <2> QED  BY <1>2, <2>1 DEF Committing, Inside
<1>10. CASE Refuse(t)
  <2>1. /\ Same /\ call'[t].point \in {"release", "return"}
        /\ call'[t].report \in {c.report, "none"}
    BY <1>1, <1>10, Goes, Leaves DEF Refuse, TypeOK, Points
  <2> QED  BY <2>1, AnswerStays DEF Committing, Inside
<1>11. CASE Body(t)
  <2>1. /\ call'[t].mine = conn /\ call'[t].op = c.op /\ call'[t].report = c.report
        /\ call'[t].about = IF c.op = "commit" THEN conn ELSE c.about
        /\ \/ c.op = "begin" /\ call'[t].point = "getconn"
           \/ c.op = "execute" /\ transactional /\ call'[t].point = "statement"
           \/ c.op = "execute" /\ ~transactional /\ call'[t].point = "getconn"
           \/ c.op = "commit" /\ call'[t].point = "checkCommit"
           \/ c.op \in {"rollback", "close"} /\ call'[t].point = "rollbackIO"
    BY <1>11, Enters
  <2>2. CASE c.op = "commit"
    <3>1. conn <= begins /\ begins' = begins
      BY <1>1, <1>11, LockIsUsed DEF Body, ConnectionHolds, None
    <3>2. c.report = "none"
      BY <1>1, <1>11 DEF Answer, Body, At, Inside
    <3> QED  BY <2>1, <2>2, <3>1, <3>2 DEF Answer, Committing, Inside, CommitStates
  <2>3. CASE c.op # "commit"
    <3>1. c.point \in Inside
      BY <1>11 DEF Body, At, Inside
    <3> QED  BY <2>1, <2>3, <3>1, AnswerStays DEF Committing
  <2> QED  BY <2>2, <2>3
<1>12. CASE GetConn(t)
  <2>1. begins + 1 \in Connections /\ begins' = begins + 1 /\ call[t].point = "getconn"
    BY <1>1, <1>12, Numbers DEF TypeOK, GetConn, At
  <2>2. /\ call'[t].point = "beginIO" /\ call'[t].mine = begins + 1
        /\ call'[t].about = begins + 1 /\ call'[t].op = c.op /\ call'[t].report = c.report
    BY <1>1, <1>12, <2>1, Takes
  <2>3. c.report = "none"
    BY <1>1, <2>1 DEF Answer, Inside
  <2> QED  BY <1>1, <2>1, <2>2, <2>3, Numbers DEF Answer, Committing, CommitStates, None
<1>13. CASE BeginIO(t) \/ CheckBegun(t) \/ SetBegun(t)
  <2>1. /\ Same /\ call'[t].mine = c.mine
        /\ call[t].point \in {"beginIO", "checkBegun", "setBegun"}
        /\ \/ /\ call'[t].point \in {"checkBegun", "setBegun", "statement", "return"}
              /\ call'[t].report = c.report
           \/ call'[t].point = "release" /\ call'[t].report = "none"
    BY <1>1, <1>13, Goes, Leaves DEF BeginIO, CheckBegun, SetBegun, At, TypeOK, Points
  <2> QED  BY <1>1, <2>1, AnswerStays DEF Answer, Committing, Inside
<1>14. CASE Statement(t)
  <2>1. /\ Same /\ call'[t].mine = c.mine /\ c.point = "statement"
        /\ \/ call'[t].point = "return" /\ call'[t].report = c.report
           \/ call'[t].point = "release" /\ call'[t].report = "none"
           \/ /\ call'[t].point = "checkCommit" /\ ~transactional
              /\ call'[t].report = c.report
    BY <1>1, <1>14, Goes, Leaves DEF Statement, At, TypeOK, Points
  <2> QED  BY <1>1, <2>1, AnswerStays DEF Answer, Committing, Inside
<1>15. CASE RollbackIO(t)
  <2>1. Same /\ call'[t].point = "release" /\ call'[t].report = "none"
    BY <1>1, <1>15, Leaves DEF RollbackIO, TypeOK
  <2> QED  BY <1>3, <2>1 DEF Committing, Inside
<1>16. CASE CheckCommit(t)
  <2>1. /\ c.about = c.mine /\ c.mine \in Connections /\ c.mine # None
        /\ conn \in {None, c.mine} /\ (c.op = "commit" \/ ~transactional) /\ Live(c.mine)
        /\ c.point = "checkCommit"
    BY <1>16, CommitsItsOwn DEF CheckCommit, At, Committing, Holder
  <2>2. /\ Same /\ call'[t].mine = c.mine
        /\ \/ /\ call'[t].point = "release" /\ call'[t].report = "known-not-committed"
              /\ expired \/ fate[c.mine] = "error"
           \/ call'[t].point \in {"return", "markUnknown"} /\ call'[t].report = c.report
    BY <1>1, <1>16, <2>1, Goes, Leaves DEF CheckCommit, TypeOK, Points, CommitStates
  <2>3. expired \/ fate[c.mine] = "error" => Final("known-not-committed", c.about)
    BY <2>1 DEF Final, Live
  <2> QED  BY <2>1, <2>2, <2>3, AnswerStays DEF Committing, CommitStates, Inside
<1>17. CASE MarkUnknown(t) \/ Dispatch(t) \/ Ack(t) \/ MarkCommitted(t)
  <2>1. c.point \in Committing
    BY <1>17 DEF MarkUnknown, Dispatch, Ack, MarkCommitted, At, Committing
  <2>2. c.about = c.mine /\ (c.op = "commit" \/ ~transactional) /\ conn \in {None, c.mine}
    BY <2>1, CommitsItsOwn
  <2>3. /\ Stays /\ call'[t].point \in {"dispatch", "ack", "markCommitted", "lateCheck"}
        /\ call'[t].mine = c.mine
    <3>1. CASE Dispatch(t)
      BY <1>1, <2>2, <3>1, Sends DEF Dispatch, Usable
    <3>2. CASE MarkUnknown(t) \/ Ack(t) \/ MarkCommitted(t)
      BY <1>1, <3>2, Goes DEF MarkUnknown, Ack, MarkCommitted, TypeOK, Points
    <3> QED  BY <1>17, <3>1, <3>2
  <2> QED  BY <2>1, <2>2, <2>3, AnswerStays DEF Committing, Inside
<1>18. CASE LateCheck(t)
  <2>1. /\ c.about = c.mine /\ c.mine # None /\ fate[c.mine] = "committed"
    BY <1>18, CommitsItsOwn DEF LateCheck, At, Committing, Holder
  <2>2. Same /\ call'[t].point = "release" /\ call'[t].report = "known-committed"
    BY <1>1, <1>18, Leaves DEF LateCheck, TypeOK, CommitStates
  <2>3. Final("known-committed", c.about)
    BY <2>1 DEF Final
  <2> QED  BY <2>1, <2>2, <2>3, AnswerStays DEF Committing, CommitStates, Inside
<1>19. CASE IOFailure(t)
  <2>1. /\ Same /\ call'[t].point \in {"release", "return"}
        /\ call'[t].report \in {"unknown-commit", "none", c.report}
    BY <1>1, <1>19, Fails
  <2>2. call'[t].report = "unknown-commit" => c.point \in {"dispatch", "ack"} \/ c.report # "none"
    BY <1>1, <1>19, <2>1, Goes, Leaves
       DEF IOFailure, AfterFailure, At, TypeOK, Points, CommitStates
  <2>3. c.report = "none"
    BY <1>1, <1>19 DEF IOFailure, Waiting, Answer, Inside
  <2>4. call'[t].report = "unknown-commit" => c.about # None
    BY <2>2, <2>3, CommitsItsOwn DEF Committing
  <2> QED  BY <1>3, <2>1, <2>3, <2>4 DEF Committing, Inside
<1> HIDE DEF c, Same, Stays
<1> QED  BY <1>4, <1>5, <1>6, <1>7, <1>8, <1>9, <1>10, <1>11, <1>12, <1>13, <1>14, <1>15, <1>16,
         <1>17, <1>18, <1>19 DEF Local, Remote, IOEnds

\* One thread moves at a time.
LEMMA OneMoves ==
    ASSUME IInv, Next, NEW u \in Threads
    PROVE  \/ call'[u] = call[u]
           \/ \E op \in Operations : Start(u, op)
           \/ Local(u) \/ Remote(u)
<1>1. TypeOK
  BY DEF IInv
<1>2. ASSUME NEW t \in Threads \ {u}, NEW op \in Operations, Start(t, op)
      PROVE  call'[u] = call[u]
  BY <1>1, <1>2 DEF Start, TypeOK
<1>3. ASSUME NEW t \in Threads \ {u}, Local(t)
      PROVE  call'[u] = call[u]
  <2>1. CASE Admit(t) \/ AdmissionExpired(t) \/ Put(t) \/ Refuse(t) \/ PoolTimeout(t)
             \/ CheckBegun(t) \/ SetBegun(t) \/ CheckCommit(t) \/ LateCheck(t)
             \/ MarkUnknown(t) \/ MarkCommitted(t)
    BY <1>1, <2>1, Goes, Leaves
       DEF Admit, AdmissionExpired, Put, Refuse, PoolTimeout, CheckBegun, SetBegun, CheckCommit,
           LateCheck, MarkUnknown, MarkCommitted, TypeOK, Points, CommitStates
  <2>2. CASE Return(t) \/ Unlock(t)
    BY <1>1, <2>2 DEF Return, Unlock, TypeOK
  <2>3. CASE Release(t) \/ Body(t) \/ IOEnds(t)
    BY <1>1, <2>3, Releases, Enters, Fails DEF IOEnds
  <2> QED  BY <1>3, <2>1, <2>2, <2>3 DEF Local
<1>4. ASSUME NEW t \in Threads \ {u}, Remote(t)
      PROVE  call'[u] = call[u]
  <2>1. CASE BeginIO(t) \/ Statement(t) \/ RollbackIO(t) \/ Ack(t)
    BY <1>1, <2>1, Goes, Leaves
       DEF BeginIO, Statement, RollbackIO, Ack, TypeOK, Points, CommitStates
  <2>2. CASE GetConn(t)
    BY <1>1, <2>2, Takes, Numbers DEF GetConn, TypeOK
  <2>3. CASE Dispatch(t) \/ IOFailure(t)
    BY <1>1, <2>3, Sends, Fails
  <2> QED  BY <1>4, <2>1, <2>2, <2>3 DEF Remote
<1>5. CASE Expire \/ \E k \in Connections : ServerCommit(k)
  BY <1>5 DEF Expire, ServerCommit
<1> QED  BY <1>2, <1>3, <1>4, <1>5 DEF Next

\* What commit_state says follows the transaction.
LEMMA StateKept ==
    ASSUME OneBegin, IInv, AnswersHold, Next
    PROVE  StateHolds'
<1> DEFINE Sent == {"dispatch", "ack", "markCommitted", "lateCheck"}
<1>0. \A k \in Connections : k <= begins => begins # 0
  <2>1. Connections \subseteq Nat \ {0}
    BY Numbers
  <2> HIDE DEF Sent
  <2> SUFFICES ASSUME NEW k \in Nat \ {0}, k <= begins PROVE begins # 0
    BY <2>1
  <2> QED  OBVIOUS
<1>1. /\ TypeOK /\ StateHolds /\ \A k \in Connections : Moves(k)
      /\ transactional' = transactional /\ begins <= begins' /\ begins \in Nat
      /\ begins' \in Nat /\ TypeOK'
  BY FatesMove, TypeKept DEF IInv, AnswersHold
<1>2. begins' <= MaxBegins[transactional]'
  <2>1. begins' = begins \/ (\E t \in Threads : GetConn(t))
    BY DEF Next, Local, Remote, Start, Admit, AdmissionExpired, Unlock, Return, Release, Put,
       Refuse, Body, PoolTimeout, CheckBegun, SetBegun, CheckCommit, MarkUnknown, MarkCommitted,
       LateCheck, IOEnds, IOFailure, BeginIO, Statement, RollbackIO, Dispatch, Ack, Expire,
       ServerCommit
  <2>2. MaxBegins[transactional] \in Nat
    BY <1>1, SessionAssumption DEF TypeOK
  <2>3. begins <= MaxBegins[transactional]
    BY <1>1 DEF StateHolds
  <2>4. CASE \E t \in Threads : GetConn(t)
    <3>1. begins < MaxBegins[transactional] /\ begins' = begins + 1
      BY <2>4 DEF GetConn
    <3> QED  BY <1>1, <2>2, <3>1
  <2> QED  BY <1>1, <2>1, <2>3, <2>4
<1>3. \/ \E t \in Threads : MarkUnknown(t)
      \/ \E t \in Threads : MarkCommitted(t)
      \/ /\ commitState' = commitState
         /\ \A t \in Threads : call'[t].point \in Sent => call[t].point \in Sent
  <2> SUFFICES ASSUME ~(\E t \in Threads : MarkUnknown(t) \/ MarkCommitted(t))
               PROVE  /\ commitState' = commitState
                      /\ \A t \in Threads : call'[t].point \in Sent => call[t].point \in Sent
    OBVIOUS
  <2>1. CASE UNCHANGED <<commitState, call>>
    BY <2>1
  <2> DEFINE Quiet(t) == /\ commitState' = commitState
                         /\ \A u \in Threads \ {t} : call'[u] = call[u]
                         /\ call'[t].point \in Sent => call[t].point \in Sent
  <2>2. ASSUME NEW t \in Threads, NEW op \in Operations, Start(t, op)
        PROVE  Quiet(t)
    <3> DEFINE p == IF op = "close" /\ conn = None THEN "return" ELSE "admit"
               d == [NoCall EXCEPT !.point = p, !.op = op, !.about = begins]
    <3>1. call' = [call EXCEPT ![t] = d] /\ d.point \in {"admit", "return"}
      BY <2>2 DEF Start, NoCall
    <3> HIDE DEF d
    <3> QED  BY <1>1, <2>2, <3>1 DEF Start, TypeOK, session
  <2>3. ASSUME NEW t \in Threads, Local(t)
        PROVE  Quiet(t)
    <3>1. CASE Admit(t) \/ AdmissionExpired(t) \/ Put(t) \/ Refuse(t) \/ PoolTimeout(t)
               \/ CheckBegun(t) \/ SetBegun(t) \/ CheckCommit(t) \/ LateCheck(t)
      BY <1>1, <3>1, Goes, Leaves
         DEF Admit, AdmissionExpired, Put, Refuse, PoolTimeout, CheckBegun, SetBegun, CheckCommit,
             LateCheck, TypeOK, Points, CommitStates, session
    <3>2. CASE Return(t) \/ Unlock(t)
      BY <1>1, <3>2 DEF Return, Unlock, TypeOK, NoCall
    <3>3. CASE Release(t)
      <4>1. call'[t].point \in {"return", "put"} /\ \A u \in Threads \ {t} : call'[u] = call[u]
        BY <1>1, <3>3, Releases
      <4> QED  BY <3>3, <4>1 DEF Release
    <3>4. CASE Body(t)
      BY <3>4, Enters DEF Body, session
    <3>5. CASE IOEnds(t)
      BY <1>1, <3>5, Fails DEF IOEnds, IOFailure, session
    <3> QED  BY <2>3, <3>1, <3>2, <3>3, <3>4, <3>5 DEF Local
  <2>4. ASSUME NEW t \in Threads, Remote(t)
        PROVE  Quiet(t)
    <3>1. CASE BeginIO(t) \/ Statement(t) \/ RollbackIO(t) \/ Ack(t)
      BY <1>1, <3>1, Goes, Leaves
         DEF BeginIO, Statement, RollbackIO, Ack, At, TypeOK, Points, CommitStates, session
    <3>2. CASE GetConn(t)
      BY <1>1, <3>2, Takes, Numbers DEF GetConn, TypeOK
    <3>3. CASE Dispatch(t)
      BY <1>1, <3>3, Sends DEF Dispatch, At, session
    <3>4. CASE IOFailure(t)
      BY <1>1, <3>4, Fails DEF IOFailure, session
    <3> QED  BY <2>4, <3>1, <3>2, <3>3, <3>4 DEF Remote
  <2>5. CASE Expire \/ \E k \in Connections : ServerCommit(k)
    BY <2>1, <2>5 DEF Expire, ServerCommit, session
  <2> HIDE DEF Quiet
  <2>6. (\E t \in Threads : Quiet(t)) =>
           /\ commitState' = commitState
           /\ \A t \in Threads : call'[t].point \in Sent => call[t].point \in Sent
    BY DEF Quiet
  <2> QED  BY <2>2, <2>3, <2>4, <2>5, <2>6 DEF Next
<1>4. CASE \E t \in Threads : MarkUnknown(t)
  <2>1. commitState' = "unknown-commit"
    BY <1>4 DEF MarkUnknown
  <2>2. begins # 0
    <3>1. PICK t \in Threads : call[t].point = "markUnknown"
      BY <1>4 DEF MarkUnknown, At
    <3>2. call[t].mine <= begins /\ call[t].mine \in Connections
      BY <3>1, CommitsItsOwn DEF Committing
    <3> QED  BY <1>0, <3>2
  <2> QED  BY <1>1, <1>2, <2>1, <2>2 DEF StateHolds
<1>5. CASE \E t \in Threads : MarkCommitted(t)
  <2>1. PICK t \in Threads : MarkCommitted(t)
    BY <1>5
  <2>2. /\ call[t].mine # None /\ call[t].mine <= begins /\ call[t].mine \in Connections
        /\ fate[call[t].mine] = "committed"
    BY <2>1, CommitsItsOwn DEF Committing, MarkCommitted, At, Holder
  <2>3. begins # 0 /\ commitState' = "known-committed" /\ fate' = fate
    <3>1. begins # 0
      BY <1>0, <2>2
    <3> QED  BY <2>1, <3>1 DEF MarkCommitted, engine
  <2>4. transactional => fate[1] = "committed"
    BY <2>2, TheOne
  <2> QED  BY <1>1, <1>2, <2>3, <2>4 DEF StateHolds
<1>6. CASE /\ commitState' = commitState
           /\ \A t \in Threads : call'[t].point \in Sent => call[t].point \in Sent
  <2>1. commitState' # "known-not-committed" => begins' # 0
    BY <1>1, <1>6 DEF StateHolds
  <2>2. ASSUME commitState' = "known-not-committed"
        PROVE  /\ \A k \in Connections : fate'[k] \notin {"committing", "committed"}
               /\ \A t \in Threads : call'[t].point \notin Sent
    BY <1>1, <1>6, <2>2 DEF StateHolds, Moves, At
  <2>3. transactional /\ commitState = "known-committed" => fate'[1] = "committed"
    <3>1. SUFFICES ASSUME transactional, commitState = "known-committed"
                   PROVE  fate'[1] = "committed"
      OBVIOUS
    <3>2. begins \in Connections
      BY <1>1, <3>1 DEF StateHolds, TypeOK, None
    <3>3. begins = 1
      BY <1>1, <3>1, <3>2, TheOne
    <3> QED  BY <1>1, <3>1, <3>2, <3>3 DEF StateHolds, Moves
  <2> QED  BY <1>1, <1>2, <1>6, <2>1, <2>2, <2>3 DEF StateHolds
<1> QED  BY <1>3, <1>4, <1>5, <1>6

\* A caller is told what is so.
LEMMA ReportsKept ==
    ASSUME OneBegin, IInv, AnswersHold, Next
    PROVE  \A r \in reports' : r.tx # None /\ Final(r.state, r.tx)'
<1> SUFFICES ASSUME NEW r \in reports'
             PROVE  r.tx # None /\ Final(r.state, r.tx)'
  OBVIOUS
<1>1. TypeOK
  BY DEF IInv
<1>2. CASE r \in reports
  <2>1. r.tx # None /\ Final(r.state, r.tx) /\ r.tx \in Connections
    BY <1>1, <1>2 DEF AnswersHold, TypeOK
  <2> QED  BY <2>1, FinalStays
<1>3. CASE r \notin reports
  <2>1. PICK t \in Threads : Return(t)
    BY <1>3 DEF Next, Local, Remote, Start, Admit, AdmissionExpired, Unlock, Release, Put,
       Refuse, Body, PoolTimeout, CheckBegun, SetBegun, CheckCommit, MarkUnknown, MarkCommitted,
       LateCheck, IOEnds, IOFailure, GetConn, BeginIO, Statement, RollbackIO, Dispatch, Ack, Expire,
       ServerCommit
  <2> DEFINE c == call[t]
  <2>2. /\ c \in Calls /\ Answer(c) /\ begins \in Nat
        /\ c.report # "none" /\ c.about # None
        /\ r = [tx |-> c.about, state |-> IF c.report = "read" THEN commitState ELSE c.report]
        /\ UNCHANGED <<engine, expired>>
    BY <1>1, <1>3, <2>1, LockIsUsed DEF AnswersHold, Return
  <2>3. CASE c.report = "read"
    <3>1. /\ expired /\ transactional /\ c.about # None /\ c.about <= begins
          /\ c.about \in Connections
      BY <2>2, <2>3 DEF Answer, Calls
    <3>2. c.about = 1 /\ begins = 1
      BY <3>1, TheOne
    <3>3. Final(commitState, 1)
      BY <3>1, <3>2 DEF AnswersHold, StateHolds, Final
    <3> QED  BY <2>2, <2>3, <3>1, <3>2, <3>3 DEF Final, engine
  <2>4. CASE c.report # "read"
    <3>1. c.report \in CommitStates
      BY <2>2, <2>4 DEF Calls
    <3>2. c.about # None /\ Final(c.report, c.about)
      BY <2>2, <3>1 DEF Answer
    <3> QED  BY <2>2, <2>4, <3>2 DEF Final, engine
  <2> QED  BY <2>3, <2>4
<1> QED  BY <1>2, <1>3

\* So every step keeps what callers may rely on.
LEMMA AnswersNext == OneBegin /\ TInv /\ [Next]_vars => TInv'
<1> SUFFICES ASSUME OneBegin, TInv, [Next]_vars
             PROVE  TInv'
  OBVIOUS
<1>1. IInv'
  BY NextInv DEF TInv
<1>2. ASSUME Next
      PROVE  AnswersHold'
  <2>1. \A t \in Threads : Answer(call[t])'
    <3> SUFFICES ASSUME NEW t \in Threads
                 PROVE  Answer(call[t])'
      OBVIOUS
    <3>1. CASE call'[t] = call[t]
      <4>1. Answer(call[t])
        BY DEF TInv, AnswersHold
      <4> QED  BY <1>2, <3>1, <4>1, AnswerStays DEF TInv, Answer
    <3>2. CASE \/ \E op \in Operations : Start(t, op)
               \/ Local(t) \/ Remote(t)
      BY <1>2, <3>2, AnswersKept DEF TInv
    <3> QED  BY <1>2, <3>1, <3>2, OneMoves DEF TInv
  <2> QED  BY <1>2, <2>1, StateKept, ReportsKept DEF TInv, AnswersHold, Final
<1>3. CASE UNCHANGED vars
  <2>1. /\ \A k : Moves(k) /\ call' = call /\ reports' = reports
        /\ \A state, k : Final(state, k)' <=> Final(state, k)
    BY <1>3 DEF vars, engine, Moves, Final
  <2>2. \A c : Answer(c)' <=> Answer(c)
    BY <1>3, <2>1 DEF Answer, vars, session
  <2>3. StateHolds'
    BY <1>3 DEF TInv, AnswersHold, StateHolds, vars, session, engine
  <2>4. \A t \in Threads : Answer(call[t])'
    BY <2>1, <2>2 DEF TInv, AnswersHold, Answer
  <2>5. \A r \in reports' : r.tx # None /\ Final(r.state, r.tx)'
    BY <2>1 DEF TInv, AnswersHold
  <2> QED  BY <1>1, <2>3, <2>4, <2>5 DEF TInv, AnswersHold, Final
<1> QED  BY <1>1, <1>2, <1>3 DEF TInv

\* Initially nothing was said.
LEMMA AnswersInit == Init => TInv
<1> SUFFICES ASSUME Init
             PROVE  TInv
  OBVIOUS
<1>1. \A t \in Threads : Answer(call[t])
  BY DEF Init, Answer, NoCall, Committing, CommitStates, Inside, None
<1>2. StateHolds
  <2>1. MaxBegins[transactional] \in Nat
    BY SessionAssumption DEF Init
  <2> QED  BY <2>1 DEF Init, StateHolds, NoCall
<1> QED  BY <1>1, <1>2, InitInv DEF TInv, AnswersHold, Init

\* In a session of one transaction, or one that is not transactional, no caller is
\* told an outcome of a commit that is not so, whichever thread lost the race for
\* the session; nor does commit_state say one.
THEOREM ToldTheTruth == OneBegin => (Spec => []OutcomesAreTruthful)
<1>1. ASSUME OneBegin, TInv
      PROVE  OutcomesAreTruthful
  <2>1. \A r \in reports : Truthful(r.state, r.tx)
    BY <1>1 DEF TInv, AnswersHold, Final, Truthful
  <2>2. ASSUME transactional, begins = 1
        PROVE  Truthful(commitState, 1)
    <3>1. 1 \in Connections
      BY <1>1, <2>2 DEF TInv, IInv, TypeOK, None
    <3> QED  BY <1>1, <2>2, <3>1 DEF TInv, AnswersHold, StateHolds, Truthful
  <2> QED  BY <2>1, <2>2 DEF OutcomesAreTruthful
<1>2. ASSUME OneBegin
      PROVE  Spec => []OutcomesAreTruthful
  <2>1. OneBegin
    BY <1>2
  <2>2. TInv /\ [Next]_vars => TInv'
    BY <2>1, AnswersNext
  <2>3. TInv => OutcomesAreTruthful
    BY <1>1, <2>1
  <2> QED  BY <2>2, <2>3, AnswersInit, PTL DEF Spec
<1> QED  BY <1>2

-----------------------------------------------------------------------------
(* What close() leaves behind                                              *)

Leaving == {"admit", "body", "rollbackIO", "release", "put", "return"}

\* Connection k went back to the pool, or is about to in some call's hands.
GivenBack(k) == returned[k] = 1 \/ \E u \in Threads : At(u, "put") /\ call[u].mine = k

\* A close() knows the connections taken before it, and has released them once it is
\* past its own release, or found that there were none.
Closes(c) ==
    /\ c.about <= begins
    /\ c.op = "close" => c.point \in Leaving
    /\ c.op = "close" /\ c.point \in {"put", "return"} => conn = None \/ conn > c.about

\* A connection taken from the pool is the session's, or was given back.
ClosingHolds ==
    /\ \A t \in Threads : Closes(call[t])
    /\ \A k \in Connections : k <= begins => conn = k \/ GivenBack(k)

CInv == IInv /\ ClosingHolds

\* A call that gives a connection back goes on with it until the pool has it.
LEMMA PutsStay ==
    ASSUME IInv, Next, NEW u \in Threads, At(u, "put")
    PROVE  call'[u] = call[u] \/ Put(u)
<1>1. ~(\E op \in Operations : Start(u, op)) /\ ~Remote(u)
  BY DEF Start, Remote, GetConn, BeginIO, Statement, RollbackIO, Dispatch, Ack, IOFailure,
     Waiting, At
<1>2. Local(u) => Put(u)
  BY DEF Local, Admit, AdmissionExpired, Unlock, Return, Release, Refuse, Body, PoolTimeout,
     CheckBegun, SetBegun, CheckCommit, MarkUnknown, MarkCommitted, LateCheck, IOEnds,
     IOFailure, Waiting, At
<1> QED  BY <1>1, <1>2, OneMoves

\* Only three steps touch what a close() leaves behind.
LEMMA WhatMoves ==
    ASSUME IInv, Next
    PROVE  \/ \E t \in Threads : GetConn(t)
           \/ \E t \in Threads : Release(t)
           \/ (\E t \in Threads : Put(t)) /\ UNCHANGED <<conn, begins>>
           \/ UNCHANGED <<conn, begins, returned>>
<1> DEFINE Still == UNCHANGED <<conn, begins, returned>>
<1>1. ASSUME NEW t \in Threads, Local(t)
      PROVE  Release(t) \/ (Put(t) /\ UNCHANGED <<conn, begins>>) \/ Still
  BY <1>1 DEF Local, Admit, AdmissionExpired, Unlock, Return, Put, Refuse, Body, PoolTimeout,
     CheckBegun, SetBegun, CheckCommit, MarkUnknown, MarkCommitted, LateCheck, IOEnds,
     IOFailure, session, engine
<1>2. ASSUME NEW t \in Threads, Remote(t)
      PROVE  GetConn(t) \/ Still
  BY <1>2 DEF Remote, IOFailure, BeginIO, Statement, RollbackIO, Dispatch, Ack, session, engine
<1>3. ASSUME \/ \E t \in Threads, op \in Operations : Start(t, op)
             \/ Expire \/ \E k \in Connections : ServerCommit(k)
      PROVE  Still
  BY <1>3 DEF Start, Expire, ServerCommit, session, engine
<1> HIDE DEF Still
<1>4. \/ \E t \in Threads : GetConn(t)
      \/ \E t \in Threads : Release(t)
      \/ (\E t \in Threads : Put(t)) /\ UNCHANGED <<conn, begins>>
      \/ Still
  BY <1>1, <1>2, <1>3 DEF Next
<1> QED  BY <1>4 DEF Still

\* What was given back stays so.
LEMMA GivenStays ==
    ASSUME IInv, Next, NEW k \in Connections, GivenBack(k)
    PROVE  GivenBack(k)'
<1>1. returned \in [Connections -> Nat]
  BY DEF IInv, TypeOK
<1>2. ASSUME NEW t \in Threads, Put(t)
      PROVE  /\ returned' = [returned EXCEPT ![call[t].mine] = 1]
             /\ call[t].mine \in Connections
  <2>1. call[t] \in Calls /\ call[t].mine # None /\ returned[call[t].mine] = 0
    BY <1>2, LockIsUsed DEF Put, At, Caller
  <2>2. returned' = [returned EXCEPT ![call[t].mine] = returned[call[t].mine] + 1]
    BY <1>2 DEF Put
  <2> QED  BY <2>1, <2>2 DEF Calls
<1>3. CASE returned[k] = 1
  <2>1. UNCHANGED returned \/ \E t \in Threads : Put(t)
    BY WhatMoves DEF GetConn, Release, engine
  <2> QED  BY <1>1, <1>2, <1>3, <2>1 DEF GivenBack
<1>4. CASE \E u \in Threads : At(u, "put") /\ call[u].mine = k
  <2>1. PICK u \in Threads : At(u, "put") /\ call[u].mine = k
    BY <1>4
  <2>2. call'[u] = call[u] \/ Put(u)
    BY <2>1, PutsStay
  <2> QED  BY <1>1, <1>2, <2>1, <2>2 DEF GivenBack, At
<1> QED  BY <1>3, <1>4 DEF GivenBack

\* So no connection is lost between the session and the pool.
LEMMA NothingLost ==
    ASSUME CInv, Next, NEW k \in Connections, k <= begins'
    PROVE  (conn = k \/ GivenBack(k))'
<1>1. TypeOK /\ IInv /\ begins \in Nat /\ k \in Nat /\ (k <= begins => conn = k \/ GivenBack(k))
  BY Numbers DEF CInv, ClosingHolds, IInv, TypeOK
<1>2. CASE \E t \in Threads : GetConn(t)
  <2>1. conn' = begins + 1 /\ begins' = begins + 1 /\ conn = None
    BY <1>1, <1>2, WhoHolds DEF GetConn, At, Inside, Holder
  <2>2. k = conn' \/ (k <= begins /\ k # None)
    BY <1>1, <2>1, Numbers
  <2> QED  BY <1>1, <2>1, <2>2, GivenStays DEF GivenBack
<1>3. CASE \E t \in Threads : Release(t)
  <2>1. PICK t \in Threads : Release(t)
    BY <1>3
  <2>2. begins' = begins
    BY <2>1 DEF Release
  <2>3. CASE conn = k
    <3>1. call'[t].point = "put" /\ call'[t].mine = k
      BY <1>1, <2>1, <2>3, Releases, Numbers
    <3> QED  BY <3>1 DEF GivenBack, At
  <2> QED  BY <1>1, <2>2, <2>3, GivenStays DEF GivenBack
<1>4. CASE UNCHANGED <<conn, begins>>
  BY <1>1, <1>4, GivenStays DEF GivenBack
<1> QED  BY <1>1, <1>2, <1>3, <1>4, WhatMoves

\* Whatever the other calls do, a close() that is past its release finds no connection
\* it knows on the session.
LEMMA ClosesKept ==
    ASSUME CInv, Next, NEW t \in Threads
    PROVE  Closes(call[t])'
<1> DEFINE c == call[t]
<1>1. /\ TypeOK /\ IInv /\ c \in Calls /\ Closes(c) /\ begins \in Nat
      /\ c.about \in Connections \cup {None} /\ c.about \in Nat /\ conn \in Nat
      /\ begins' \in Nat /\ begins <= begins' /\ conn \in {None, begins}
  BY Numbers, FatesMove, LockIsUsed DEF CInv, ClosingHolds, ConnectionHolds, TypeOK, Calls
<1>2. conn' = conn \/ conn' = None \/ (conn' = begins + 1 /\ begins' = begins + 1)
  BY WhatMoves, <1>1 DEF GetConn, Release
<1>3. CASE call'[t].about = c.about /\ call'[t].op = c.op
           /\ (c.op = "close" => call'[t].point \in Leaving
               /\ (call'[t].point \in {"put", "return"} =>
                      c.point \in {"put", "return"} \/ conn' = None))
  BY <1>1, <1>2, <1>3 DEF Closes, None
<1>4. CASE call'[t] = c
  BY <1>1, <1>2, <1>4 DEF Closes, None
<1>5. CASE \E op \in Operations : Start(t, op)
  <2>1. PICK op \in Operations : Start(t, op)
    BY <1>5
  <2> DEFINE p == IF op = "close" /\ conn = None THEN "return" ELSE "admit"
             d == [NoCall EXCEPT !.point = p, !.op = op, !.about = begins]
  <2>2. /\ call' = [call EXCEPT ![t] = d] /\ begins' = begins /\ conn' = conn
    BY <2>1 DEF Start, session
  <2>3. /\ d.point \in {"admit", "return"} /\ d.op = op /\ d.about = begins
        /\ d.op = "close" /\ d.point = "return" => conn = None
    BY DEF NoCall
  <2> HIDE DEF d
  <2>4. call'[t] = d
    BY <1>1, <2>2 DEF TypeOK
  <2> QED  BY <1>1, <2>2, <2>3, <2>4 DEF Closes, Leaving, None
<1>6. CASE GetConn(t)
  <2>1. /\ call'[t].about = begins + 1 /\ begins' = begins + 1 /\ call'[t].op = c.op
        /\ c.point = "getconn"
    BY <1>1, <1>6, Takes, Numbers DEF GetConn, At, TypeOK
  <2> QED  BY <1>1, <2>1 DEF Closes, Leaving
<1>7. CASE Body(t)
  <2>1. /\ call'[t].op = c.op /\ call'[t].about = IF c.op = "commit" THEN conn ELSE c.about
        /\ c.op = "close" => call'[t].point = "rollbackIO"
        /\ begins' = begins
    BY <1>1, <1>7, Enters DEF Body
  <2> QED  BY <1>1, <2>1 DEF Closes, Leaving, None
<1>8. CASE Return(t)
  <2>1. call'[t].op = "none" /\ call'[t].about = None
    BY <1>1, <1>8 DEF Return, TypeOK, NoCall, None
  <2> QED  BY <1>1, <2>1 DEF Closes, None
<1>9. CASE Release(t)
  <2>1. /\ call'[t].about = c.about /\ call'[t].op = c.op /\ conn' = None
        /\ call'[t].point \in {"put", "return"}
    BY <1>1, <1>9, Releases DEF Release
  <2> QED  BY <1>3, <2>1 DEF Leaving
<1>10. CASE Admit(t) \/ AdmissionExpired(t) \/ Unlock(t) \/ Put(t) \/ Refuse(t) \/ RollbackIO(t)
  <2>1. /\ call'[t].about = c.about /\ call'[t].op = c.op
        /\ c.op = "close" => \/ call'[t].point \in {"body", "release"}
                             \/ /\ call'[t].point = "return"
                                /\ c.point \in {"put", "return"}
    BY <1>1, <1>10, Goes, Leaves
       DEF Admit, AdmissionExpired, Unlock, Put, Refuse, RollbackIO, At, TypeOK, Points,
           CommitStates
  <2> QED  BY <1>3, <2>1 DEF Leaving
<1>11. CASE PoolTimeout(t) \/ CheckBegun(t) \/ SetBegun(t) \/ CheckCommit(t) \/ MarkUnknown(t)
            \/ MarkCommitted(t) \/ LateCheck(t) \/ BeginIO(t) \/ Statement(t) \/ Dispatch(t)
            \/ Ack(t)
  <2>1. c.op # "close"
    BY <1>1, <1>11
       DEF PoolTimeout, CheckBegun, SetBegun, CheckCommit, MarkUnknown, MarkCommitted,
           LateCheck, BeginIO, Statement, Dispatch, Ack, At, Closes, Leaving
  <2>2. call'[t].about = c.about /\ call'[t].op = c.op
    <3>1. CASE Dispatch(t)
      BY <1>1, <3>1, Sends
    <3>2. CASE ~Dispatch(t)
      BY <1>1, <1>11, <3>2, Goes, Leaves
         DEF PoolTimeout, CheckBegun, SetBegun, CheckCommit, MarkUnknown, MarkCommitted,
             LateCheck, BeginIO, Statement, Ack, TypeOK, Points, CommitStates
    <3> QED  BY <3>1, <3>2
  <2> QED  BY <1>3, <2>1, <2>2
<1>12. CASE IOFailure(t)
  <2>1. /\ call'[t].about = c.about /\ call'[t].op = c.op
        /\ call'[t].point = "release" \/ c.point = "statement"
    BY <1>1, <1>12, Fails DEF At
  <2>2. c.op = "close" => c.point # "statement"
    BY <1>1 DEF Closes, Leaving
  <2> QED  BY <1>3, <2>1, <2>2 DEF Leaving
<1> HIDE DEF c
<1> QED  BY <1>1, <1>4, <1>5, <1>6, <1>7, <1>8, <1>9, <1>10, <1>11, <1>12, OneMoves
         DEF Local, Remote, IOEnds, c

\* What close() relies on holds of every reachable state.
LEMMA ClosingInv == CInv /\ [Next]_vars => CInv'
<1> SUFFICES ASSUME CInv, [Next]_vars
             PROVE  CInv'
  OBVIOUS
<1>1. IInv'
  BY NextInv DEF CInv
<1>2. CASE Next
  <2>1. \A t \in Threads : Closes(call[t])'
    BY <1>2, ClosesKept
  <2>2. \A k \in Connections : k <= begins' => (conn = k \/ GivenBack(k))'
    BY <1>2, NothingLost
  <2>3. ClosingHolds'
    BY <2>1, <2>2 DEF ClosingHolds, Closes
  <2> QED  BY <1>1, <2>3 DEF CInv
<1>3. CASE UNCHANGED vars
  BY <1>1, <1>3 DEF CInv, ClosingHolds, Closes, GivenBack, At, vars, session, engine
<1> QED  BY <1>2, <1>3

\* Initially there is nothing to give back.
LEMMA ClosingInit == Init => CInv
<1> SUFFICES ASSUME Init
             PROVE  CInv
  OBVIOUS
<1>1. \A t \in Threads : Closes(call[t])
  BY DEF Init, Closes, NoCall
<1>2. \A k \in Connections : ~(k <= begins)
  <2>1. Connections \subseteq Nat \ {0}
    BY Numbers
  <2>2. \A k \in Nat \ {0} : ~(k <= 0)
    OBVIOUS
  <2> QED  BY <2>1, <2>2 DEF Init
<1> QED  BY <1>1, <1>2, InitInv DEF CInv, ClosingHolds

\* Only the return of a close() ends it.
LEMMA ClosesEnd ==
    ASSUME CInv, Next, NEW t \in Threads, call[t].op = "close", call'[t].op # "close"
    PROVE  call[t].point = "return"
<1>1. TypeOK /\ IInv /\ Closes(call[t]) /\ call[t] \in Calls
  BY LockIsUsed DEF CInv, ClosingHolds
<1>2. call[t].point \in Leaving /\ call[t].point # "idle"
  BY <1>1 DEF Closes, Leaving
<1>3. ~(\E op \in Operations : Start(t, op)) /\ ~GetConn(t) /\ ~Dispatch(t)
  BY <1>2 DEF Start, GetConn, Dispatch, At, Leaving
<1>4. CASE Local(t) /\ ~Return(t)
  <2>1. CASE Release(t) \/ Body(t) \/ IOEnds(t)
    BY <1>1, <2>1, Releases, Enters, Fails DEF IOEnds
  <2>2. CASE ~(Release(t) \/ Body(t) \/ IOEnds(t))
    BY <1>1, <1>4, <2>2, Goes, Leaves
       DEF Local, Admit, AdmissionExpired, Unlock, Put, Refuse, PoolTimeout, CheckBegun,
           SetBegun, CheckCommit, MarkUnknown, MarkCommitted, LateCheck, TypeOK, Points,
           CommitStates
  <2> QED  BY <2>1, <2>2
<1>5. CASE Remote(t)
  BY <1>1, <1>3, <1>5, Goes, Leaves, Fails
     DEF Remote, BeginIO, Statement, RollbackIO, Ack, TypeOK, Points, CommitStates
<1>6. Return(t) => call[t].point = "return"
  BY DEF Return, At
<1> QED  BY <1>1, <1>3, <1>4, <1>5, <1>6, OneMoves

\* When close() returns, none of the connections taken before the call is the
\* session's, and each went back to the pool or is on its way, whichever other calls
\* release, begin or close at the same time.
THEOREM ClosingGivesBack == Spec => CloseGivesBack
<1> DEFINE Given == \A t \in Threads :
                       call[t].op = "close" /\ call'[t].op # "close" =>
                          \A k \in 1 .. call[t].about : conn # k /\ GivenBack(k)
<1>1. CInv /\ [Next]_vars => [Given]_vars
  <2> SUFFICES ASSUME CInv, Next, NEW t \in Threads,
                      call[t].op = "close", call'[t].op # "close",
                      NEW k \in 1 .. call[t].about
               PROVE  conn # k /\ GivenBack(k)
    BY DEF Given
  <2>1. /\ Closes(call[t]) /\ IInv /\ TypeOK /\ call[t].about \in Connections \cup {None}
        /\ begins \in Connections \cup {None}
    BY DEF CInv, ClosingHolds, IInv, TypeOK, Calls
  <2>2. call[t].point = "return"
    BY ClosesEnd
  <2>3. k \in Nat /\ k # 0 /\ call[t].about \in Nat /\ begins \in Nat /\ k <= call[t].about
        /\ conn \in Nat
    <3>1. call[t].about \in Nat /\ begins \in Nat /\ conn \in Nat
      BY <2>1, Numbers DEF TypeOK
    <3>2. \A a \in Nat : \A j \in 1 .. a : j \in Nat /\ j # 0 /\ j <= a
      OBVIOUS
    <3> QED  BY <3>1, <3>2
  <2>4. conn # k
    BY <2>1, <2>2, <2>3 DEF Closes, None
  <2>5. k \in Connections
    BY <2>1, <2>3, SessionAssumption DEF Connections, None
  <2>6. k <= begins
    BY <2>1, <2>3 DEF Closes
  <2> QED  BY <2>4, <2>5, <2>6 DEF CInv, ClosingHolds
<1>2. Spec => [][Given]_vars
  BY <1>1, ClosingInit, ClosingInv, PTL DEF Spec
<1>3. [Given]_vars <=> [\A t \in Threads :
          call[t].op = "close" /\ call'[t].op # "close" =>
             \A k \in 1 .. call[t].about :
                /\ conn # k
                /\ returned[k] = 1 \/ \E u \in Threads : At(u, "put") /\ call[u].mine = k]_vars
  BY DEF Given, GivenBack
<1> QED  BY <1>2, <1>3, PTL DEF CloseGivesBack
=============================================================================
