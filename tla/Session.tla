------------------------------ MODULE Session ------------------------------
(***************************************************************************)
(* PostgreSQLAdapterSession (transactions/__init__.py): one session object *)
(* that several threads may call, its re-entrant lock, its one retained    *)
(* OperationBudget (_deadline.py), the pooled connection it holds and the  *)
(* commit outcome it reports.                                              *)
(*                                                                         *)
(* A step is what a thread does between two points where another thread    *)
(* can run or the server can answer.  The k-th connection the session      *)
(* takes from the pool carries the k-th transaction, so one number names   *)
(* both.  What is wrong with an operation itself (compilation, SQL errors, *)
(* result limits) is a statement that fails.                               *)
(***************************************************************************)
EXTENDS Integers, FiniteSets

CONSTANTS
    Threads,
    Transactional,   \* the values of open_session(transactional=...)
    MaxBegins,       \* bound: connections taken from the pool, for each of them
    NoThread

ASSUME SessionAssumption ==
    /\ NoThread \notin Threads
    /\ Transactional \subseteq BOOLEAN
    /\ MaxBegins \in [Transactional -> Nat]

None == 0
Connections == UNION {1 .. MaxBegins[mode] : mode \in Transactional}

CommitStates == {"known-not-committed", "unknown-commit", "known-committed"}

\* What the server knows of a transaction.
Fates == {"none", "open", "error", "committing", "committed", "rolledback", "aborted"}

Operations == {"begin", "execute", "commit", "rollback", "close"}

Points == {"idle", "admit", "body", "getconn", "beginIO", "checkBegun", "setBegun", "statement",
           "checkCommit", "markUnknown", "dispatch", "ack", "markCommitted",
           "lateCheck", "rollbackIO", "release", "put", "return"}

\* A call in progress: the connection it works on, whether _release discards
\* it, the outcome the call will report ("none", or "read": commit_state as it
\* will be then) and the transaction that outcome is about.
Calls == [point : Points, op : Operations \cup {"none"}, mine : Connections \cup {None},
          discard : BOOLEAN, report : CommitStates \cup {"none", "read"},
          about : Connections \cup {None}]

NoCall == [point |-> "idle", op |-> "none", mine |-> None, discard |-> FALSE,
           report |-> "none", about |-> 0]

VARIABLES
    transactional,  \* the mode of the session, for good
    conn, begun, closed, commitState, lock,  \* the session's attributes
    expired,    \* the budget is spent or cancelled; it is never renewed
    begins,     \* connections taken so far
    call,       \* the call each thread is in
    fate,       \* the transactions, as the server knows them
    finished,   \* connections closed by this side
    returned,   \* putconn calls for each connection
    rolled,     \* connections on which ROLLBACK was sent
    reports     \* commit outcomes callers were given

session == <<transactional, conn, begun, closed, commitState, lock>>
engine == <<fate, finished, returned, rolled>>
vars == <<session, expired, begins, call, engine, reports>>

TypeOK ==
    /\ transactional \in Transactional
    /\ conn \in Connections \cup {None}
    /\ begun \in BOOLEAN /\ closed \in BOOLEAN
    /\ commitState \in CommitStates
    /\ lock \in Threads \cup {NoThread}
    /\ expired \in BOOLEAN
    /\ begins \in Connections \cup {None}
    /\ call \in [Threads -> Calls]
    /\ fate \in [Connections -> Fates]
    /\ finished \subseteq Connections
    /\ returned \in [Connections -> Nat]
    /\ rolled \subseteq Connections
    /\ reports \subseteq [tx : Connections \cup {None}, state : CommitStates]

Init ==
    /\ transactional \in Transactional
    /\ conn = None /\ begun = FALSE /\ closed = FALSE
    /\ commitState = "known-not-committed"
    /\ lock = NoThread
    /\ expired = FALSE
    /\ begins = 0
    /\ call = [t \in Threads |-> NoCall]
    /\ fate = [k \in Connections |-> "none"]
    /\ finished = {}
    /\ returned = [k \in Connections |-> 0]
    /\ rolled = {}
    /\ reports = {}

-----------------------------------------------------------------------------

At(t, point) == call[t].point = point

Goto(t, point) == call' = [call EXCEPT ![t].point = point]

\* Mutant: the connection is given back as it is.
LeaveOpen(t, discard, report) ==
    call' = [call EXCEPT ![t].point = "release", ![t].report = report]

\* Control goes to _release(discard), and from there to the end of the call.
Leave(t, discard, report) ==
    call' = [call EXCEPT ![t].point = "release", ![t].discard = discard,
                         ![t].report = report]

Unlocked(t) == IF lock = t THEN NoThread ELSE lock

\* Local transport shutdown: an uncommitted transaction is lost, a dispatched
\* COMMIT is not recalled.
Finish(k) ==
    /\ finished' = finished \cup {k}
    /\ fate' = IF fate[k] \in {"open", "error"} THEN [fate EXCEPT ![k] = "aborted"] ELSE fate

-----------------------------------------------------------------------------
(* Calling, admission (_guard) and returning                               *)

\* close() returns at once when closed, and takes no lock when the session holds
\* no connection.
Start(t, op) ==
    /\ At(t, "idle")
    /\ op = "close" => ~closed
    /\ call' = [call EXCEPT ![t] =
          [NoCall EXCEPT !.point = IF op = "close" /\ conn = None THEN "return" ELSE "admit",
                         !.op = op, !.about = begins]]
    /\ UNCHANGED <<session, expired, begins, engine, reports>>

\* Mutant: the lock is not awaited.
AdmitAnyway(t) ==
    /\ At(t, "admit")
    /\ ~expired
    /\ lock' = t
    /\ Goto(t, "body")
    /\ UNCHANGED <<transactional, conn, begun, closed, commitState, expired, begins,
                   engine, reports>>

Admit(t) ==
    /\ At(t, "admit")
    /\ lock = NoThread /\ ~expired
    /\ lock' = t
    /\ Goto(t, "body")
    /\ UNCHANGED <<transactional, conn, begun, closed, commitState, expired, begins,
                   engine, reports>>

\* Mutant: close's handler lets the timeout pass.
AdmissionExpiredHeld(t) ==
    /\ At(t, "admit")
    /\ expired
    /\ \/ call[t].op \in {"begin", "execute", "close"} /\ Goto(t, "return")
       \/ call[t].op = "commit" /\ Leave(t, TRUE, IF transactional THEN "read" ELSE "none")
       \/ call[t].op = "rollback" /\ Leave(t, TRUE, "none")
    /\ UNCHANGED <<session, expired, begins, engine, reports>>

\* The lock was not free in time, or the budget was already spent.  commit,
\* rollback and close release the connection without holding the lock; commit
\* tells commit_state, of a transaction if there are any in the session.
AdmissionExpired(t) ==
    /\ At(t, "admit")
    /\ expired
    /\ \/ call[t].op \in {"begin", "execute"} /\ Goto(t, "return")
       \/ call[t].op = "commit" /\ Leave(t, TRUE, IF transactional THEN "read" ELSE "none")
       \/ call[t].op \in {"rollback", "close"} /\ Leave(t, TRUE, "none")
    /\ UNCHANGED <<session, expired, begins, engine, reports>>

\* _guard frees the lock before the call is over.
Unlock(t) ==
    /\ At(t, "return")
    /\ lock = t
    /\ lock' = NoThread
    /\ UNCHANGED <<transactional, conn, begun, closed, commitState, expired, begins, call,
                   engine, reports>>

\* Mutant: commit reports that it failed, but no outcome.
ReturnUnresolved(t) ==
    /\ At(t, "return")
    /\ lock # t
    /\ closed' = (closed \/ call[t].op = "close")
    /\ reports' = reports \cup {[tx |-> call[t].about, state |-> call[t].report]}
    /\ call' = [call EXCEPT ![t] = NoCall]
    /\ UNCHANGED <<transactional, conn, begun, commitState, lock, expired, begins, engine>>

\* The call is over; close() marks the session closed only now.
Return(t) ==
    LET c == call[t] IN
    /\ At(t, "return")
    /\ lock # t
    /\ closed' = (closed \/ c.op = "close")
    /\ reports' = IF c.report = "none" \/ c.about = None THEN reports
                  ELSE reports \cup {[tx |-> c.about,
                                      state |-> IF c.report = "read" THEN commitState
                                                ELSE c.report]}
    /\ call' = [call EXCEPT ![t] = NoCall]
    /\ UNCHANGED <<transactional, conn, begun, commitState, lock, expired, begins, engine>>

\* _release: connection, self._connection = self._connection, None.
Release(t) ==
    /\ At(t, "release")
    /\ conn' = None
    /\ begun' = FALSE
    /\ call' = [call EXCEPT ![t].mine = conn,
                            ![t].point = IF conn = None THEN "return" ELSE "put"]
    /\ UNCHANGED <<transactional, closed, commitState, lock, expired, begins, engine, reports>>

\* close() of the connection when it is discarded, then putconn.
Put(t) ==
    LET k == call[t].mine IN
    /\ At(t, "put")
    /\ IF call[t].discard THEN Finish(k) ELSE UNCHANGED <<fate, finished>>
    /\ returned' = [returned EXCEPT ![k] = @ + 1]
    /\ Goto(t, "return")
    /\ UNCHANGED <<session, expired, begins, rolled, reports>>

-----------------------------------------------------------------------------
(* The body of each operation, under the lock                              *)

\* _require_open, _require_transaction and begin's own test.
Refused(op) ==
    \/ closed
    \/ op = "begin" /\ (~transactional \/ begun)
    \/ op = "execute" /\ transactional /\ (~begun \/ conn = None)
    \/ op \in {"commit", "rollback"} /\ (~transactional \/ ~begun \/ conn = None)

\* An operation that is refused raises; rollback's handler then runs _release
\* after the lock is free again.
Refuse(t) ==
    LET op == call[t].op IN
    /\ At(t, "body")
    /\ op # "close"
    /\ Refused(op)
    /\ IF op = "rollback" THEN Leave(t, TRUE, "none") ELSE Goto(t, "return")
    /\ lock' = Unlocked(t)
    /\ UNCHANGED <<transactional, conn, begun, closed, commitState, expired, begins,
                   engine, reports>>

Body(t) ==
    LET op == call[t].op
        point == CASE op = "begin" -> "getconn"
                   [] op = "execute" -> IF transactional THEN "statement" ELSE "getconn"
                   [] op = "commit" -> "checkCommit"
                   [] op \in {"rollback", "close"} -> "rollbackIO"
    IN  /\ At(t, "body")
        /\ op = "close" \/ ~Refused(op)
        /\ call' = [call EXCEPT ![t].point = point, ![t].mine = conn,
                                ![t].about = IF op = "commit" THEN conn ELSE @]
        /\ UNCHANGED <<session, expired, begins, engine, reports>>

\* _acquire_begin takes a connection, unless the pool has none in time.
GetConn(t) ==
    /\ At(t, "getconn")
    /\ ~expired /\ begins < MaxBegins[transactional]
    /\ begins' = begins + 1
    /\ conn' = begins + 1
    /\ call' = [call EXCEPT ![t].point = "beginIO", ![t].mine = begins + 1,
                            ![t].about = begins + 1]
    /\ UNCHANGED <<transactional, begun, closed, commitState, lock, expired, engine, reports>>

PoolTimeout(t) ==
    /\ At(t, "getconn")
    /\ Goto(t, "return")
    /\ UNCHANGED <<session, expired, begins, engine, reports>>

Usable(k) == k # None /\ k \notin finished

\* BEGIN was acknowledged in time.  (A budget that is spent before it is sent ends
\* the wait for it in IOEnds.)
BeginIO(t) ==
    LET k == call[t].mine IN
    /\ At(t, "beginIO")
    /\ Usable(k) /\ ~expired
    /\ fate' = [fate EXCEPT ![k] = "open"]
    /\ Goto(t, "checkBegun")
    /\ UNCHANGED <<session, expired, begins, finished, returned, rolled, reports>>

\* A late acknowledgement gives the connection up again.
CheckBegun(t) ==
    /\ At(t, "checkBegun")
    /\ IF expired THEN Leave(t, TRUE, "none") ELSE Goto(t, "setBegun")
    /\ UNCHANGED <<session, expired, begins, engine, reports>>

SetBegun(t) ==
    /\ At(t, "setBegun")
    /\ begun' = TRUE
    /\ Goto(t, IF call[t].op = "begin" THEN "return" ELSE "statement")
    /\ UNCHANGED <<transactional, conn, closed, commitState, lock, expired, begins, engine,
                   reports>>

\* A statement of execute succeeds, or fails and leaves the transaction as it
\* was (a rejected request or result) or aborted (INERROR).
Statement(t) ==
    LET k == call[t].mine IN
    /\ At(t, "statement")
    /\ Usable(k) /\ ~expired
    /\ \/ fate[k] = "open" /\ Goto(t, IF transactional THEN "return" ELSE "checkCommit")
          /\ UNCHANGED fate
       \/ /\ IF transactional THEN Goto(t, "return") ELSE Leave(t, TRUE, "none")
          /\ \/ UNCHANGED fate
             \/ fate[k] = "open" /\ fate' = [fate EXCEPT ![k] = "error"]
    /\ UNCHANGED <<session, expired, begins, finished, returned, rolled, reports>>

\* ROLLBACK was acknowledged in time.
RollbackIO(t) ==
    LET k == conn IN
    /\ At(t, "rollbackIO")
    /\ Usable(k) /\ ~expired
    /\ fate' = IF fate[k] \in {"open", "error"} THEN [fate EXCEPT ![k] = "rolledback"]
               ELSE fate
    /\ rolled' = rolled \cup {k}
    /\ Leave(t, FALSE, "none")
    /\ UNCHANGED <<session, expired, begins, finished, returned, reports>>

-----------------------------------------------------------------------------
(* _commit                                                                 *)

\* Mutant: COMMIT of an aborted transaction, which the server acknowledges.
CheckCommitBlind(t) ==
    /\ At(t, "checkCommit")
    /\ \/ expired /\ Leave(t, TRUE, "known-not-committed")
       \/ ~expired /\ Goto(t, IF conn = None THEN "return" ELSE "markUnknown")
    /\ UNCHANGED <<session, expired, begins, engine, reports>>

\* Before dispatch: the deadline, an aborted transaction.
CheckCommit(t) ==
    /\ At(t, "checkCommit")
    /\ \/ expired /\ Leave(t, TRUE, "known-not-committed")
       \/ ~expired /\ conn = None /\ Goto(t, "return")
       \/ /\ ~expired /\ conn # None
          /\ IF Usable(conn) /\ fate[conn] = "error"
             THEN Leave(t, TRUE, "known-not-committed")
             ELSE Goto(t, "markUnknown")
    /\ UNCHANGED <<session, expired, begins, engine, reports>>

MarkUnknown(t) ==
    /\ At(t, "markUnknown")
    /\ commitState' = "unknown-commit"
    /\ Goto(t, "dispatch")
    /\ UNCHANGED <<transactional, conn, begun, closed, lock, expired, begins, engine, reports>>

\* self._connection.commit(): the budget is checked before anything is sent.  An
\* aborted transaction would be rolled back, and the COMMIT acknowledged.
Dispatch(t) ==
    /\ At(t, "dispatch")
    /\ Usable(conn) /\ ~expired
    /\ fate' = [fate EXCEPT ![conn] = IF @ = "open" THEN "committing" ELSE "rolledback"]
    /\ call' = [call EXCEPT ![t].point = "ack", ![t].mine = conn]
    /\ UNCHANGED <<session, expired, begins, finished, returned, rolled, reports>>

Ack(t) ==
    LET k == call[t].mine IN
    /\ At(t, "ack")
    /\ Usable(k) /\ ~expired
    /\ fate[k] \in {"committed", "rolledback"}
    /\ Goto(t, "markCommitted")
    /\ UNCHANGED <<session, expired, begins, engine, reports>>

MarkCommitted(t) ==
    /\ At(t, "markCommitted")
    /\ commitState' = "known-committed"
    /\ Goto(t, "lateCheck")
    /\ UNCHANGED <<transactional, conn, begun, closed, lock, expired, begins, engine, reports>>

\* After the acknowledgement only clean-up is left; a late one is an error,
\* but a committed one.
LateCheck(t) ==
    /\ At(t, "lateCheck")
    /\ Leave(t, expired, "known-committed")
    /\ UNCHANGED <<session, expired, begins, engine, reports>>

-----------------------------------------------------------------------------
(* I/O that fails: DeadlineConnection.wait finishes the transport          *)

Waiting == {"beginIO", "statement", "rollbackIO", "dispatch", "ack"}

\* How each caller of the failed wait goes on; rollback and close do so after
\* the lock is free again.
AfterFailure(t) ==
    /\ IF At(t, "statement") /\ transactional THEN Goto(t, "return")
       ELSE Leave(t, TRUE, IF At(t, "dispatch") \/ At(t, "ack") THEN "unknown-commit"
                           ELSE "none")
    /\ lock' = IF At(t, "rollbackIO") THEN Unlocked(t) ELSE lock

\* The connection the wait is on.
Wire(t) == IF call[t].point \in {"rollbackIO", "dispatch"} THEN conn ELSE call[t].mine

IOFailure(t) ==
    /\ call[t].point \in Waiting
    /\ AfterFailure(t)
    /\ IF Wire(t) = None THEN UNCHANGED <<fate, finished>> ELSE Finish(Wire(t))
    /\ UNCHANGED <<transactional, conn, begun, closed, commitState, expired, begins,
                   returned, rolled, reports>>

\* Mutant: a wait for the server has no deadline.
IOEndsWhenClosed(t) ==
    /\ ~Usable(Wire(t))
    /\ IOFailure(t)

\* A wait ends by itself when the budget is spent or the connection is gone.
IOEnds(t) ==
    /\ expired \/ ~Usable(Wire(t))
    /\ IOFailure(t)

-----------------------------------------------------------------------------
(* The rest of the world                                                   *)

\* The deadline passes or the caller's context is cancelled.
Expire ==
    /\ expired' = TRUE
    /\ UNCHANGED <<session, begins, call, engine, reports>>

\* The server commits, or fails to, whether or not anyone still listens.
ServerCommit(k) ==
    /\ fate[k] = "committing"
    /\ \E outcome \in {"committed", "aborted"} : fate' = [fate EXCEPT ![k] = outcome]
    /\ UNCHANGED <<session, expired, begins, call, finished, returned, rolled, reports>>

-----------------------------------------------------------------------------

\* Steps a thread takes by itself.
Local(t) ==
    \/ Admit(t) \/ AdmissionExpired(t) \/ Unlock(t) \/ Return(t) \/ Release(t) \/ Put(t)
    \/ Refuse(t) \/ Body(t) \/ PoolTimeout(t) \/ CheckBegun(t) \/ SetBegun(t)
    \/ CheckCommit(t) \/ MarkUnknown(t) \/ MarkCommitted(t) \/ LateCheck(t)
    \/ IOEnds(t)

\* Steps that need an answer, or that the network decides.
Remote(t) ==
    \/ GetConn(t) \/ BeginIO(t) \/ Statement(t) \/ RollbackIO(t)
    \/ Dispatch(t) \/ Ack(t) \/ IOFailure(t)

Next ==
    \/ \E t \in Threads : \/ \E op \in Operations : Start(t, op)
                          \/ Local(t) \/ Remote(t)
    \/ Expire
    \/ \E k \in Connections : ServerCommit(k)

Spec == Init /\ [][Next]_vars

\* Threads run and every budget ends (operation_timeout_ms is always part of
\* it).  The server need not answer.
FairSpec == Spec /\ WF_vars(Expire) /\ \A t \in Threads : WF_vars(Local(t))

-----------------------------------------------------------------------------
(* Properties                                                              *)

Truthful(state, k) ==
    /\ state = "known-committed" => fate[k] = "committed"
    /\ state = "known-not-committed" => fate[k] \notin {"committing", "committed"}

\* No caller is told a commit outcome that is not so: known-committed only of a
\* transaction the server committed, known-not-committed only of one it never
\* will, whichever thread lost the race for the session.  Nor is commit_state,
\* which a host may read at any moment, wrong about a session's first transaction.
OutcomesAreTruthful ==
    /\ \A r \in reports : Truthful(r.state, r.tx)
    /\ transactional /\ begins = 1 => Truthful(commitState, 1)

\* A connection goes back to the pool at most once, although releases on expired
\* admission run without the lock, and open only when its transaction is over:
\* the pool is never left to roll back, as clean-up "cannot trigger pool rollback
\* I/O".
ReturnedOnceAndClean ==
    \A k \in Connections :
        /\ returned[k] <= 1
        /\ returned[k] = 1 => k \in finished \/ fate[k] \in {"committed", "rolledback"}

\* "A failed commit is never followed by an invented successful rollback": no
\* ROLLBACK is sent on a connection that carried a COMMIT.
NoRollbackAfterCommit ==
    \A k \in rolled : fate[k] \notin {"committing", "committed"}

\* When close() returns, every connection the session had taken by the time of the
\* call is its no longer, and went back to the pool or is on the way in the hands of
\* another call, whatever of begin, execute, commit, rollback and another close()
\* overlaps it with or without the lock.  (What a begin that overlaps it takes from
\* the pool afterwards may stay on the closed session.)
CloseGivesBack ==
    [][\A t \in Threads :
          call[t].op = "close" /\ call'[t].op # "close" =>
             \A k \in 1 .. call[t].about :
                /\ conn # k
                /\ returned[k] = 1 \/ \E u \in Threads : At(u, "put") /\ call[u].mine = k]_vars

\* Every call returns, even if the server never answers again and another
\* thread holds the lock: one budget bounds admission and I/O alike.
CallsReturn == \A t \in Threads : ~At(t, "idle") ~> At(t, "idle")
=============================================================================
