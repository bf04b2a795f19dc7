--------------------------- MODULE StructuredStore ---------------------------
(***************************************************************************)
(* Structured DML (query/dml.py, run by _execute_dml of                    *)
(* transactions/__init__.py) and LogicalTransfer.import_rows               *)
(* (migration/__init__.py): the rows of one Resource in one tenant and     *)
(* scope, under READ COMMITTED transactions: of one operation in a session  *)
(* that is not transactional, of one or more in one that is.               *)
(*                                                                         *)
(* A mutation is one SQL statement, which is not one step: it selects rows *)
(* on a snapshot, then reaches them one by one, waits for their writers    *)
(* and decides again on each row as it is by then.                         *)
(***************************************************************************)
EXTENDS Integers, FiniteSets

CONSTANTS
    Sessions,
    Keys,        \* record identities; claims take them in ascending order
    Requests,    \* the mutations callers ask for
    Limit,       \* limit of atomic_claim
    MaxCalls,    \* bound: mutations
    NoRow, NoGuard, Unwritten

Calls == 1 .. MaxCalls
Values == {"free", "taken"}

\* A row: __record_version, its mutable fields, the mutation that inserted it and
\* the one that last counted its version.
Rows == [version : Calls, value : Values, born : Calls, by : Calls]

Puts == {"if_absent", "update", "upsert"}
Operations == Puts \cup {"patch", "delete", "claim", "import"}

\* A put or a line of an import names one record, a patch or delete any, a claim
\* the free ones; patches, deletions, updates and upserts may carry an
\* expectedVersion.
WellFormed(r) ==
    /\ r.op \in Operations
    /\ r.keys \subseteq Keys
    /\ r.op \in Puts \cup {"import"} => Cardinality(r.keys) = 1
    /\ r.expected \in Calls \cup {NoGuard}
    /\ r.op \in {"if_absent", "claim", "import"} => r.expected = NoGuard
    /\ r.value \in Values

ASSUME StoreAssumption ==
    /\ Keys \subseteq Nat /\ IsFiniteSet(Keys)
    /\ Limit \in Nat \ {0}
    /\ MaxCalls \in Nat
    /\ NoRow \notin Rows
    /\ NoGuard \notin Calls
    /\ Unwritten \notin Rows \cup {NoRow}
    /\ Requests # {}
    /\ \A r \in Requests : WellFormed(r)

\* A row that a mutation returned, and what it replaced.
Answers == [key : Keys, op : Operations,
            expected : Calls \cup {NoGuard},
            from : Rows \cup {NoRow}, row : Rows \cup {NoRow}]

Tables == [Keys -> Rows \cup {NoRow}]

\* Whose transaction it is: one its caller has begun and will end, that of a
\* single operation in a session that is not transactional, or that of an import.
Scopes == {"caller", "operation", "import"}

\* The transaction of a session: its uncommitted writes and the mutations that
\* made them, and the statement it is in with its snapshot, the rows still to be
\* reached and those it has changed.
Transactions ==
    [phase : {"idle", "open", "run"}, scope : Scopes, id : 0 .. MaxCalls, request : Requests,
     snapshot : Tables, todo : SUBSET Keys, hits : SUBSET Answers,
     view : [Keys -> Rows \cup {NoRow, Unwritten}], work : SUBSET Calls,
     given : SUBSET Answers]

Nothing == [k \in Keys |-> NoRow]

Idle == [phase |-> "idle", scope |-> "caller", id |-> 0, request |-> CHOOSE r \in Requests : TRUE,
         snapshot |-> Nothing, todo |-> {}, hits |-> {},
         view |-> [k \in Keys |-> Unwritten], work |-> {}, given |-> {}]

VARIABLES
    table,   \* the committed rows
    tx,      \* the transaction of each session
    calls,   \* mutations so far
    known,   \* results callers hold for committed
    failed   \* mutations that raised; not one refused in its caller's transaction
             \* after it had changed rows, which are the caller's to commit or not

vars == <<table, tx, calls, known, failed>>

TypeOK ==
    /\ table \in Tables
    /\ tx \in [Sessions -> Transactions]
    /\ calls \in 0 .. MaxCalls
    /\ known \subseteq Answers
    /\ failed \subseteq Calls

Init ==
    /\ table = Nothing
    /\ tx = [s \in Sessions |-> Idle]
    /\ calls = 0
    /\ known = {}
    /\ failed = {}

-----------------------------------------------------------------------------

Wrote(s, k) == tx[s].view[k] # Unwritten

\* The row as the session finds it now: its own write, or the committed row.
Latest(s, k) == IF Wrote(s, k) THEN tx[s].view[k] ELSE table[k]

\* Other transactions with an uncommitted write of the row.
Writers(s, k) == {o \in Sessions \ {s} : Wrote(o, k)}

Continue(s, t) == tx' = [tx EXCEPT ![s] = t] /\ UNCHANGED <<table, calls, known, failed>>

\* The mutation raises and leaves the transaction t.
Raise(s, t) ==
    /\ tx' = [tx EXCEPT ![s] = t]
    /\ failed' = failed \cup {tx[s].id}
    /\ UNCHANGED <<table, calls, known>>

\* Mutant: the expected version is compared by the caller, before the statement.
MeetsUnguarded(r, row) ==
    /\ row # NoRow
    /\ r.op = "claim" => row.value = "free"

\* The WHERE clause: identity, the claim's predicate, t.__record_version = %s.
Meets(r, row) ==
    /\ row # NoRow
    /\ r.op = "claim" => row.value = "free"
    /\ r.expected # NoGuard => row.version = r.expected

\* An INSERT, with or without ON CONFLICT DO UPDATE; a put with an expected
\* version is an UPDATE in every mode.
Inserts(r) == r.op \in {"if_absent", "upsert", "import"} /\ r.expected = NoGuard

\* The transactions a mutation can start, and those it can be one more of.
ScopesOf(r) == IF r.op = "import" THEN {"import"} ELSE {"caller", "operation"}
Joins(s, scope) == tx[s].phase = "open" /\ tx[s].scope = scope /\ scope # "operation"

\* The statement starts: its snapshot, and the rows it selects there.
Call(s, r) ==
    LET seen == [k \in Keys |-> Latest(s, k)] IN
    /\ calls < MaxCalls
    /\ calls' = calls + 1
    /\ \E scope \in ScopesOf(r) :
          /\ tx[s].phase = "idle" \/ Joins(s, scope)
          /\ tx' = [tx EXCEPT ![s].phase = "run", ![s].scope = scope,
                              ![s].id = calls + 1, ![s].request = r,
                              ![s].snapshot = seen, ![s].hits = {},
                              ![s].todo = {k \in r.keys : Inserts(r) \/ Meets(r, seen[k])}]
    /\ UNCHANGED <<table, known, failed>>

\* The statement has dealt with row k, and left it as it is.
Passed(t, k) == [t EXCEPT !.todo = @ \ {k}]

\* It has written row k.
Changed(s, k, row) ==
    LET t == tx[s]
        answer == [key |-> k, op |-> t.request.op, expected |-> t.request.expected,
                   from |-> Latest(s, k), row |-> row]
    IN  [Passed(t, k) EXCEPT !.hits = @ \cup {answer},
                             !.view[k] = row, !.work = @ \cup {t.id}]

\* Mutant: the version counts from zero.
FirstZero(s) == [version |-> 0, value |-> tx[s].request.value, born |-> tx[s].id, by |-> tx[s].id]

First(s) == [version |-> 1, value |-> tx[s].request.value, born |-> tx[s].id, by |-> tx[s].id]

\* Mutant: a claim leaves the version alone.
SuccessorUncounted(s, row) ==
    [row EXCEPT !.version = IF tx[s].request.op = "claim" THEN @ ELSE @ + 1,
                !.value = tx[s].request.value, !.by = tx[s].id]

\* SET ..., __record_version = t.__record_version + 1
Successor(s, row) == [row EXCEPT !.version = @ + 1, !.value = tx[s].request.value, !.by = tx[s].id]

\* An import overwrites the mutable fields and counts nothing.
Overwritten(s, row) == [row EXCEPT !.value = tx[s].request.value]

Running(s, k) == tx[s].phase = "run" /\ k \in tx[s].todo

\* INSERT waits for the writers of its key, then inserts, updates (upsert, import)
\* or raises a unique violation, which ends the transaction.
Insert(s, k) ==
    LET row == Latest(s, k)
        op == tx[s].request.op
    IN
    /\ Running(s, k)
    /\ Inserts(tx[s].request)
    /\ Writers(s, k) = {}
    /\ \/ row = NoRow /\ Continue(s, Changed(s, k, First(s)))
       \/ row # NoRow /\ op = "upsert" /\ Continue(s, Changed(s, k, Successor(s, row)))
       \/ row # NoRow /\ op = "import" /\ Continue(s, Changed(s, k, Overwritten(s, row)))
       \/ row # NoRow /\ op = "if_absent" /\ Raise(s, Idle)

\* The row found on the snapshot is still there, and its latest version is one
\* the statement wants.
Confirmed(s, k) ==
    /\ Latest(s, k) # NoRow
    /\ Latest(s, k).born = tx[s].snapshot[k].born
    /\ Meets(tx[s].request, Latest(s, k))

\* UPDATE and DELETE wait for the writers of the row.
Modify(s, k) ==
    LET r == tx[s].request IN
    /\ Running(s, k)
    /\ ~Inserts(r) /\ r.op # "claim"
    /\ Writers(s, k) = {}
    /\ Continue(s, IF ~Confirmed(s, k) THEN Passed(tx[s], k)
                   ELSE Changed(s, k, IF r.op = "delete" THEN NoRow
                                      ELSE Successor(s, Latest(s, k))))

Full(s) == tx[s].request.op = "claim" /\ Cardinality(tx[s].hits) = Limit

\* FOR UPDATE SKIP LOCKED LIMIT: rows with a writer are passed over.
Claim(s, k) ==
    /\ Running(s, k)
    /\ tx[s].request.op = "claim" /\ ~Full(s)
    /\ \A j \in tx[s].todo : k <= j
    /\ Continue(s, IF Writers(s, k) = {} /\ Confirmed(s, k)
                   THEN Changed(s, k, Successor(s, Latest(s, k)))
                   ELSE Passed(tx[s], k))

Over(s) == tx[s].phase = "run" /\ (tx[s].todo = {} \/ Full(s))

Opened(t, answers) ==
    [Idle EXCEPT !.phase = "open", !.scope = t.scope, !.view = t.view, !.work = t.work,
                 !.given = t.given \cup answers]

\* An update, or a mutation with an expected version.
Conditional(r) == r.op = "update" \/ r.expected # NoGuard

\* The statement is over and its operation answers; of its rows an import answers
\* nothing but their number.
Answer(s) ==
    LET t == tx[s] IN
    /\ Over(s)
    /\ Conditional(t.request) => t.hits # {}
    /\ Continue(s, Opened(t, IF t.scope = "import" THEN {} ELSE t.hits))

\* Mutant: the transaction of a refused operation is left to be committed.
RefuseKept(s) ==
    LET t == tx[s] IN
    /\ Over(s)
    /\ Conditional(t.request) \/ t.hits # {}
    /\ t.scope # "import"
    /\ IF t.scope = "caller" /\ t.hits # {} THEN Continue(s, Opened(t, {}))
       ELSE Raise(s, Opened(t, {}))

\* The statement is over and its operation raises: a ConflictError, when a
\* conditional one has changed nothing, or the result limit (which no empty result
\* exceeds).  A transaction of its own is thrown away with it; the caller's goes on,
\* rows that were changed included.
Refuse(s) ==
    LET t == tx[s] IN
    /\ Over(s)
    /\ Conditional(t.request) \/ t.hits # {}
    /\ \/ t.scope = "operation" /\ Raise(s, Idle)
       \/ t.scope = "caller" /\ t.hits = {} /\ Raise(s, Opened(t, {}))
       \/ t.scope = "caller" /\ t.hits # {} /\ Continue(s, Opened(t, {}))

\* COMMIT; its acknowledgement may be lost.
Commit(s) ==
    /\ tx[s].phase = "open"
    /\ table' = [k \in Keys |-> Latest(s, k)]
    /\ tx' = [tx EXCEPT ![s] = Idle]
    /\ known' \in {known, known \cup tx[s].given}
    /\ UNCHANGED <<calls, failed>>

\* ROLLBACK, or a connection lost between calls.
Abort(s) == tx[s].phase = "open" /\ Continue(s, Idle)

\* A statement timeout, a server error, the deadlock detector or the deadline ends
\* the statement among its rows, and the transaction with it (all that is left to its
\* session is ROLLBACK).
Fail(s) == tx[s].phase = "run" /\ Raise(s, Idle)

Next ==
    \E s \in Sessions :
        \/ \E r \in Requests : Call(s, r)
        \/ \E k \in Keys : Insert(s, k) \/ Modify(s, k) \/ Claim(s, k)
        \/ Answer(s) \/ Refuse(s) \/ Commit(s) \/ Abort(s) \/ Fail(s)

Spec == Init /\ [][Next]_vars

-----------------------------------------------------------------------------
(* Properties                                                              *)

\* A mutation that raised has changed nothing and never will, be it refused for its
\* result after its rows were changed, ended among them, or at odds with a key or an
\* expected version: none of its writes is ever committed, not with those of the
\* same transaction that did not fail either.
FailuresLeaveNothing ==
    [][\A k \in Keys : table'[k] # table[k] =>
          \E s \in Sessions : Wrote(s, k) /\ tx[s].work \cap failed = {}]_vars

\* "concurrent upserts are atomic": a recordVersion names one mutation of a record
\* until it is deleted: no two of them, claims included, made the same version of
\* it.  (An import rewrites the fields of a version, and is not one of them.)
VersionsAreUnique ==
    LET Same(p, q) == p.born = q.born /\ p.version = q.version => p.by = q.by
        told(k) == {a.row : a \in {b \in known : b.key = k}} \ {NoRow}
    IN  \A k \in Keys : \A p \in told(k) :
          /\ \A q \in told(k) : Same(p, q)
          /\ table[k] # NoRow => Same(p, table[k])

\* What a caller was told to have changed was what it asked for at the moment it
\* changed, not only when the statement looked: the expected version, or a
\* record still free.
ConditionsHeld ==
    \A a \in known :
        /\ a.expected # NoGuard => a.from # NoRow /\ a.from.version = a.expected
        /\ a.op = "claim" => a.from # NoRow /\ a.from.value = "free"
=============================================================================
