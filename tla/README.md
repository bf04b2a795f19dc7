# TLA+ development of the PostgreSQL adapter

This directory specifies the concurrent and failure-prone parts of
`meridian_storage.adapters.postgresql` in TLA+, model-checks them with TLC and
proves some of what matters with TLAPS. Paths below are relative to
`src/meridian_storage/adapters/postgresql/` of the repository.

## 1. The system

The adapter runs Meridian operations on PostgreSQL. A host creates one *runtime*
per binding; the runtime owns a connection pool and opens *sessions*, each of
which runs operations on one connection at a time. Several parts keep state of
their own in tables the deployment migrates, and any number of processes share
them: there is no lock above PostgreSQL's.

| Component | Where | State | Operations | Hard because |
| --- | --- | --- | --- | --- |
| Durable projection outbox | `projection/outbox.py`, `projection/_storage.py` | `__meridian_outbox_state`, `__meridian_outbox_checkpoint`; intent rows are written by source transactions | `atomic_claim`, `complete`, `release`; `get`, `checkpoint`, `lag` read | concurrent workers, statement snapshots under READ COMMITTED, leases that expire, crashes and lost answers |
| Adapter session | `transactions/__init__.py`, `_deadline.py` | connection, begun, closed, `commit_state`, lock, budget | `begin`, `execute`, `commit`, `rollback`, `close` | one budget over lock, pool and I/O; COMMIT without acknowledgement; clean-up that runs without the lock |
| Evidence append and replay | `transactions/__init__.py` `_execute_append` | `__meridian_evidence_replay`, Evidence tables | `append` of one record or a batch | retries, concurrent replay, savepoints, deadlocks |
| Schema registry | `schema_registry.py` | one row per tenant and scope: revision, schemas, checksum | `publish_schema`, `deprecate_schema`, migration; reads | compare-and-set, first writers, enclosing transactions |
| Structured DML | `query/dml.py` | Resource tables | `put` (modes, version guard), `patch`, `delete`, `atomic_claim` | conditional upserts, `SKIP LOCKED` claims |
| Migration and transfer | `migration/__init__.py`, `schema/__init__.py` | `__meridian_migrations`, `__meridian_resources`, tables | `apply`, `export_rows`, `import_rows` | advisory lock, plans applied again |
| Activation adapter | `semantics/__init__.py` | none (reads the registry revision) | `plan_activation`, `apply_activation` | the revision is read in another transaction than the plan was applied in |
| Query translation | `query/__init__.py`, `_sql.py`, `_values.py` | signed cursor | `compile`, `normalize_result` | keyset continuation under concurrent writes, bounded traversal |
| Runtime | `_runtime.py` | pool, opened, closed, TLS files | `open`, `open_session`, `probe`, `verify_physical`, `close` | `close` racing uses that took the pool; an `open` that waits under the lock, and fails |
| Probe | `probe/__init__.py` | none | `probe`, `verify_physical`, `validate_table_privileges`: catalogue queries | `verify_physical` reads statement by statement while plans commit |
| Operation compiler, settings, descriptor, error mapping | `_operation.py`, `_settings.py`, `descriptor/`, `_errors.py` | none | pure functions | none: validation and formatting |

How they interact: a session compiles a request (operation compiler, DML,
query translation) and executes it on its connection; `append` and
`publish_schema` run in the session's transaction under a savepoint. The outbox
takes its own connections from the runtime's pool; the source transactions whose
intents it delivers are ordinary session transactions. Migration prepares every
table before the runtime starts; the runtime never issues DDL.

What makes each part correct:

- **Outbox.** Only the earliest incomplete version of a source identity is handed
  out, and a quarantined one blocks its successors; a live lease has one owner;
  only its latest claimant ends it; completion and checkpoint are one; nothing
  published is stranded.
- **Session.** The commit outcome told to a caller is what the server did; a
  connection goes back to the pool once, and closed or with its transaction over;
  a failed commit is never followed by a rollback; a `close` that has returned has
  given back what the session held; every call returns in time.
- **Evidence.** An append takes effect exactly once per replay key, all of it or
  nothing, and every answer equals what was committed.
- **Registry.** Revisions count changes, versions of a schema increase and never
  change, compare-and-set has one winner.
- **Structured DML.** A guarded mutation changes exactly the version it named; two
  claims never share a record; one that failed leaves nothing behind.
- **Migration.** Evidence describes the schema that is there, and a verification that
  succeeds does too, whatever commits between its statements.
- **Query.** Pages neither repeat nor skip a row that stayed; a traversal visits
  what is reachable within its bound, and what its page omits is farther away than
  what it has.
- **Runtime.** After `close` nobody gets a connection and none is left; a failed `open`
  leaves nothing behind; a call waits for nobody who keeps a connection.

PROJECT.json lists the hazards of this code line by line, each with the
properties that would catch it.

## 2. Modules

| Module | What it is |
| --- | --- |
| `Outbox` | `PostgreSQLOutbox`, one action per SQL statement |
| `OutboxLifecycle` | its abstract specification: indivisible calls |
| `OutboxProofs` | theorems about `Outbox` |
| `MCOutbox` | instances for TLC, two configurations |
| `Session` | `PostgreSQLAdapterSession`, one action per step between two points where another thread or the server can act |
| `SessionProofs` | theorems about `Session` |
| `MCSession` | instances for TLC, two configurations |
| `EvidenceReplay` | `_execute_append`, one action per SQL statement |
| `EvidenceReplayProofs` | theorems about `EvidenceReplay` |
| `MCEvidenceReplay` | an instance for TLC |
| `SchemaRegistry` | `PostgreSQLSchemaRepository`, one action per SQL statement or decision |
| `SchemaRegistryProofs` | theorems about `SchemaRegistry` |
| `MCSchemaRegistry` | an instance for TLC |
| `StructuredStore` | the mutations of `DMLCompiler` and the upserts of `import_rows`, one action per row a statement reaches |
| `StructuredStoreProofs` | theorems about `StructuredStore` |
| `MCStructuredStore` | an instance for TLC |
| `Migration` | `MigrationExecutor.apply`, `apply_activation` and `verify_physical`, one action per SQL statement |
| `MigrationProofs` | theorems about `Migration` |
| `MCMigration` | instances for TLC, two configurations |
| `Keyset` | pages of a record query, one action per page or written row |
| `MCKeyset` | an instance for TLC |
| `Traversal` | a traversal of relations, one action per iteration of its recursive statement |
| `MCTraversal` | an instance for TLC |
| `QueryProofs` | theorems about `Keyset` and `Traversal` |
| `Runtime` | `PostgreSQLAdapterRuntime`, one action per step between two points where another thread can act |
| `RuntimeProofs` | theorems about `Runtime` |
| `MCRuntime` | an instance for TLC |

How they fit together: `Runtime` ends where a use has its connection, and `Session`
begins where a session takes one. What a session's statements do to the tables is
`StructuredStore`, `EvidenceReplay` and `SchemaRegistry`, each with its own
transactions; what a query returns from them is `Keyset` and `Traversal`. `Outbox` and
`Migration` open transactions of their own.

Definitions that stand just above another one and are commented as *mutants* are
deliberately wrong variants of it: substituting one for the other must make a
named property fail, which shows that the property depends on that code.

### Outbox

`row`, `ckpt` and `published` are the committed tables; `tx[w]` is the
transaction of the call worker `w` is in, with its row locks and its uncommitted
writes; `held[w]` is what the worker was told it holds.

| Code | Actions |
| --- | --- |
| `atomic_claim`: SELECT ... FOR UPDATE SKIP LOCKED LIMIT | `ClaimSnapshot` takes the snapshot, `ClaimLock` locks the rows of it one by one, skipping what is locked *then* |
| `atomic_claim`: upsert per row | `ClaimRow` (with the state committed by then), `ClaimTooLarge` |
| `_load`, `_leased`, version check | `Load`, `CheckLease` |
| `complete` | `ReadCheckpoint`, `WriteCheckpoint` (blocked by an uncommitted writer of the row, then compared), `MarkCompleted` |
| `release` | `Release` |
| LeaseLostError | `LeaseLost` |
| leaving `_connection` | `Commit` (its answer may be lost), `Rollback` |
| driver errors, timeouts, process death | `Fail`, `Crash` |
| `clock_timestamp()` | `Tick`: a lease is the number of ticks left |
| source transactions | `Publish` |

Abstractions: one projection and one tenant and scope (every statement is
keyed by them); the JSON identity is the partition; failure and fingerprint
columns and the intent's payload are left out; a batch is too large when its set
of intents is not in `Fitting`; a row of the state table satisfies that table's CHECK
constraints (`StateRow`). The caller's `now` argument is not modelled: the
host passes none and the database clock decides. Reads (`get`, `checkpoint`,
`lag`) change nothing and are left out. The bound `MaxAttempts` stands in
`Available`.

### Session

`transactional` is the mode the session was opened in, for good: a transactional one is
committed or rolled back by its caller, the other one runs each operation in a
transaction of its own. The k-th connection the session takes carries the k-th transaction. `fate[k]` is
what the server knows of it, `finished` whether this side closed the transport,
`returned[k]` how often it was put back. `call[t]` is where thread `t` is.
`expired` is the OperationBudget: spent or cancelled, and never renewed.
`RollbackIO`, `Dispatch` and the others in `Remote` need the server;
`IOFailure` is `DeadlineConnection.wait` finishing the transport. A dispatched
COMMIT is decided by `ServerCommit`, with or without anyone listening.
`AdmissionExpired`, `Refuse` and the failure of `RollbackIO` go on to `Release`
without the lock, as the handlers of `commit`, `rollback` and `close` do, a `rollback`
refused by a session that is not transactional included. `CheckBegun` is the budget
check between a connection taken and `_begun`. `Unlock` is the end of `_guard`, and
`Return` the end of the call, where `close` sets `_closed`: another thread may have the
lock in between. `about` is the transaction a call reports on, and for `close` the last
connection the session had taken when it was called.

Abstractions: what a statement does is success, a rejection or an aborted
transaction; a server error of BEGIN, COMMIT or ROLLBACK closes the connection at
once, where the code does so a moment later in `_release`; a failing `putconn` is
left out (it changes the message, not the outcome).

### EvidenceReplay

A session is one transaction of any number of appends; `tx[s].view` is what it
has written, `saved` the copy its savepoint restores. `Claim` is the INSERT ... ON
CONFLICT DO NOTHING of the replay key, `Replay` and `Conflict` what follows when
the key is taken, `Insert` the INSERT of one record, `Store` the UPDATE of the
result. `Holders` is PostgreSQL's rule that an insert waits for an uncommitted one
of the same unique key, `BreakDeadlock` its deadlock detector. `TimedOut` ends a wait:
the waiter's own `statement_timeout`, which leaves the transaction to its savepoint, or
its budget, which costs the connection. `Fail` stands for a
deadline, the result limit and server errors, `Abort` for ROLLBACK and lost
connections, `Commit` may lose its acknowledgement. A caller that retries is
another session running the same request, while the first may still be alive.

Abstractions: request fingerprints and replay keys are model values related by
`KeyOf`; a result is the number of the append that made it. Appends outside an
explicit transaction are transactions of one append.

### SchemaRegistry

`row` is the committed row of one tenant and scope; rows of other scopes are never
touched together. `Ensure` is the INSERT of the empty row, `Lock` the SELECT ...
FOR UPDATE; `Publish`, `Replay`, `RefusePublish`, `Deprecate` and `RefuseDeprecate` are
the decisions on the row that was read, with the UPDATE. A call that raises goes
back to its savepoint, locks included; `TimedOut` is the waiter's `statement_timeout` or
budget, as in `EvidenceReplay`; the enclosing transaction decides on the
rest. Callers pin the revision they can see when they call, or none.

Abstractions: documents are model values with a schema, a version and a relation
`Breaking` in place of `classify_compatibility`; timestamps and checksums are left
out, and so are corrupted rows, which every operation refuses.

### StructuredStore

A mutation is one SQL statement, but not one step: `Call` takes the snapshot and
the rows the statement selects there, then each row is reached once. `Insert` is
the INSERT of `if_absent` and `upsert` (which waits for a writer of the same
identity, then inserts, updates or fails; a line of an import, which `Overwritten`
gives its effect, overwrites the mutable fields and counts nothing), `Modify` the UPDATE and DELETE of guarded
puts, `update`, `patch` and `delete`, `Claim` one candidate of `atomic_claim`. A row
that changed meanwhile counts only if it is the same row (`born`) and still
satisfies the statement (`Confirmed`), which is READ COMMITTED's rule. `Answer` and
`Refuse` are the end of `_execute_dml`, `Fail` whatever ends a statement among its rows.

`tx[s].scope` says whose the transaction is: one operation's, in a session that is not
transactional, which a raise rolls back; the caller's, which a `ConflictError` or a result
over the byte limit leaves open, rows that were changed included, as the code does; or
that of an import, of any number of lines, which answers only how many. `tx[s].work`
collects the mutations whose writes a transaction holds and `failed` those that raised
(`Raise`), but for one that had changed rows in its caller's transaction: these are the
caller's to commit or not. `known` has the results of committed transactions. The three
exist for the properties.

Abstractions: the mutable fields of a record are one of two values; a predicate is
a set of identities, with "free" for claims; one Resource, tenant and scope. `get`
reads. A layout without mutable fields, whose puts leave the version alone, is
not modelled.

### Migration

`tx[e]` is the application executor `e` is in: `Lock`, `Lookup`, `Compare` or
`Refuse`, `Execute` once per statement of the plan, `Name` (the metadata upserts),
`Record`, `Commit`. A plan is its physical fingerprint, its statements and its
Resources; a statement makes an object of a name with a definition, and is skipped
when the name is taken. DDL is transactional. `Activate` is `apply_activation`: it
calls `apply` without an expected fingerprint, and when it has the evidence reads the
registry's revision in another transaction (`ReadRevision`).

`check[v]` is the `verify_physical` of a runtime: for each Resource `ReadMetadata`,
`ReadColumns` and `ReadIndexes`, with `InOrder` the comparisons that raise. A statement
sees what is committed by then, and nothing locks the tables meanwhile. `verified` is
what the verifiers were told.

Abstractions: the verification of the registry's own tables (`verify_schema_repository`)
and the compatibility proofs of read-only bindings are left out; transactions are READ
COMMITTED, PostgreSQL's default, so that each statement has a snapshot of its own; a revision is the set of metadata rows it is the hash
of; a statement that fails is a `Fail`.

### Keyset

`Page(q)` is one page: `Order(q)` is `_order` (the identity completes it), `Valid` the
check of the cursor's payload, `Continues` and `After` are `_keyset` and `_after`,
`Limited` is LIMIT with one row more than the page, `Kept` and the new cursor are
`normalize_result`. `Before` is PostgreSQL's ORDER BY, defined on its own: the
properties relate the two. `Write` is any mutation by another session of a row the
query selects, between two pages. `page`, `returned` and `stayed` are what the
client has seen and which rows did not change since it began.

Abstractions: the identity is one field; a query stands for its plan, Schema,
Registry and scope fingerprints; filters and projections are left out. `Values` are
of types whose JSON text PostgreSQL reads back as the same value (numbers, text,
timestamps, identifiers). Durations and bytes are not of that kind, and joined
rows can tie; both are among the hazards of PROJECT.json.

### Traversal

`Resolve` is the caller that names the Relation Collections or takes all that are
registered; `Register` may add one before the request is translated (`Start`, or `Refuse`
with the errors of `_compile_traversal` in `Refused`). `EdgesOf` is the `edges` CTE: a row
is an edge from source to target, from target to source, or both when the query's
direction is `any` or the Collection is undirected. `Iterate` is one iteration of WITH
RECURSIVE on the working table, `New` its `NOT ... = ANY(path)`, `Answer` the final SELECT
with its ORDER BY and LIMIT and what `normalize_result` keeps of it. The statement has one
snapshot, so `rows` does not change. `IsPath` and `Reach` define paths and distances
on their own, and the properties compare. Where `Keyset` has a definition of the same name,
this module's is `TraversalInit`, `TraversalNext` and so on: `QueryProofs` extends both.

Abstractions: relation predicates and the scope select `Pool`; all records are of one
Collection; a walk is the sequence of its edges, which determines `path` and
`relation_path`. `Dumped` is the text `json.dumps` gives the start: for some identities
not the text that jsonb stores, and then nothing is found.

### Runtime

`lock`, `opened`, `closed`, `pool` and `files` are the attributes. A use is any of `probe`,
`verify_physical`, `_semantics_connection` and a session: `Admit` is `_require_pool`, which
leaves the lock before the pool is used, `Getconn`, `GetconnFails` and `Putconn` are the
rest. `OpenPool` enters `pool.open(wait=True)` and `Opened` or `OpenFailed` leave it, all
under the lock; `ClosePool` closes the pool, `Closed` is the rest of `close`, and
`CleanupFails` that rest when the TLS directory cannot be removed: the pool is given up,
and the flags are as they were. `Connect`,
`Shrink` and `ShutPool` are the workers of psycopg's pool and its `close`, as the calls
made of it show them: a closed pool gives nothing out and closes what comes back.

Abstractions: a use holds one connection at a time, perhaps for ever; the connection
string and the factory's checks are made before there is a runtime. `close` empties that
string before it removes the TLS directory, so that a runtime that was never opened may
connect elsewhere, or nowhere, if it is opened after a `close` that failed: the model
lets such an `open` succeed or fail.

## 3. What the runs check

| Run | Bounds | Properties |
| --- | --- | --- |
| `outbox_calls` | 2 workers, 3 intents of 2 identities published in any order, 2 claims per intent, lease 1 tick; one batch of two is too large | type invariant; `CheckpointMatchesCompletions`, `CallsSerialised` |
| `outbox_refines` | 2 workers, 3 versions of one identity (one opaque) published in order, 2 claims per intent, lease 1 tick, 1 fault | `PredecessorsCompleted`, `LeasesAreHonoured`, `CheckpointMovesForward`, `ImplementsLifecycle`, `EveryIntentIsServed` |
| `session_threads` | 2 threads, 1 transaction of a transactional session or 2 operations of another | type invariant; `OutcomesAreTruthful`, `ReturnedOnceAndClean`, `NoRollbackAfterCommit`, `CloseGivesBack`, `CallsReturn` |
| `evidence_replay` | 2 sessions, 4 appends of 4 requests (one key in common, one request without a key, 3 records) | type invariant; `AppliedOnce`, `KnownAnswersHold`, `AppendsEnd` |
| `schema_registry` | 2 sessions, 3 calls, 5 documents of 2 schemas (two contents of one version, two breaking steps, one of them allowed) | type invariant; `BreakingIsExplicit`, `KnownPublicationsHold`, `HistoryOnlyGrows`, `CallsEnd` |
| `structured_store` | 2 sessions (a transaction of one operation, of its caller or of an import), 2 records, 4 of 10 mutations (every put mode, guarded put and patch, patch of all, delete, claim of one, imports) | type invariant; `VersionsAreUnique`, `ConditionsHeld`, `FailuresLeaveNothing` |
| `migration` | 2 executors, 3 applications or activations of 4 plans (initial, the same objects under another Resource fingerprint, one column and one Resource more, another type), any expected fingerprint; 1 verification | type invariant; `RecordedIsComplete`, `VerifiedStaysTrue`, `ReportedTruly` |
| `migration_retyped` | 2 executors, an initial plan and one that gives its column another type | `IncompatibleIsRejected` is violated (section 5) |
| `keyset` | every table of up to 3 rows with 2 nullable fields, 4 queries (both directions and null placements, a mixed order, one that names the identity; pages of 1 and 2), 2 writes | type invariant; `PagesGoForward`, `StayedIsReturned` |
| `traversal` | every subset of 7 relation rows over 4 records (a circle with a parallel edge, an undirected circle, a loop), 72 queries (3 directions, 4 ranges of depth, one past the bound), pages of 4, a Collection registered meanwhile | type invariant; `WalkIsExact`, `NearestIsFound` |
| `runtime` | 3 threads, 2 calls of `open`, 2 of `close`, 3 uses, pool of 1 to 2 connections | type invariant; `CloseIsFinal`, `RuntimeDrains` |
| `session_reuse` | 1 thread, 2 transactions | `OutcomesAreTruthful` is violated (section 5) |

Why the bounds are enough: two workers give every pair of calls; a second claim
of one intent gives a stale claimant; two versions in which the later one
occurred first set `ORDER BY occurredAt` against the version order; the third
intent is opaque (ranked after every number) and either a third version or an
identity of its own, so that batches are partly skipped; one fault at any point
gives a crash, a failed call or a lost answer, and a second would only repeat
it. One connection gives every race between two threads; a second one needs
the first to be over. Two sessions give every wait and the smallest ring of
waits (key against key, key against record, record against record); three or
four calls give an original, its retry, a competitor and a second call in one
transaction. Four mutations give creation, deletion, creation again and a racing
one; three applications two plans and a repetition or a
competitor, of which any may commit between two statements of the verification. Three rows are a
page, the row beyond it and one more; two writes can delete the cursor's row and
insert behind it. Seven rows have a path of every length up to the bound, two paths to
one record, and more paths than a page holds. Three threads are one that closes, one
that opens again, and one that has taken the pool; two opens one that fails and the
next.

Deadlock checking is off: a bounded instance stops when all claims or
connections are used, and the real system may stop too.

Fairness. `Outbox!FairSpec`: workers keep polling and their statements end (each
transaction sets a `statement_timeout`), and time passes. Nothing obliges a
worker to complete or release. `Session!FairSpec`: threads run and every budget
ends, because `operation_timeout_ms` is always part of it; the server need
never answer. `EvidenceReplay!FairSpec` and `SchemaRegistry!FairSpec`: statements that can
proceed do, and a statement that waits is ended by its own `statement_timeout` or its
session's budget (`TimedOut`). A transaction between calls is its caller's, and nothing
obliges the caller to end it: the budget has no timer and is looked at inside calls only;
nor need the server look for deadlocks. `Runtime!Spec`: a thread in a call goes on until it
has a connection, because each wait before that has a timeout (`acquire_timeout_ms`, the
operation's deadline, psycopg's own in `close`) or is for the lock, whose holder is in such
a wait. Who has a connection may keep it: `docs/operation-deadlines.md` puts the statements
of `probe` and `verify_physical` outside the deadline contract, and a session keeps its
connection between calls. Nothing is assumed of the pool's workers either, so that a
connection need never come. The second half of `RuntimeDrains`, which says that a close
leaves no connection open, has as its own condition that those who have one give it back.

Assumptions of `outbox_refines`: workers do not share an owner string (the README asks
this of hosts) and the source commits the versions of an identity in order;
`outbox_calls` drops the second.

## 4. What is proved

`OutboxProofs` proves, for every value of the constants that satisfies
`ConfigAssumption` and `NoWriteAssumption`:

- `TypeCorrect`: `Spec => []TypeOK`;
- `CallsAreSerialised`: `Spec => []CallsSerialised`;
- `CheckpointsCountCompletions`: `Spec => []CheckpointMatchesCompletions`;
- `VersionsInOrder` (`[]PredecessorsCompleted`) and `CheckpointsMoveForward`
  (`CheckpointMovesForward`), for a source that commits in order (`InOrder`);
- `LeasesHonoured` (`LeasesAreHonoured`), if no two workers share an owner string
  (`OwnersApart`, which the repository's README asks of hosts);
- `CallsAreIndivisible`: `Spec => ImplementsLifecycle`, the refinement of `OutboxLifecycle`.

`CheckpointMatchesCompletions` is not inductive: a commit writes a revision that
was computed statements before. `CallsSerialised` says what makes that sound.
A call that has written the checkpoint holds the next revision of its
partition, its event is locked and not yet completed (`WellFormed`), and no other
call has the same row locked or the same checkpoint advanced (`Compatible`).
The inductive invariant `IInv` is the conjunction of the three; one lemma per
action shows that it is preserved, `RowType`, `StepInv`, `ContinueInv` and
`RollbackInv` hold what the actions share; the count is that of
`FiniteSetTheorems`.

The other four rest on `LInv`, which adds what a call has in hand, of a snapshot that may
be old. A claim has only intents that are `Ready`: published, and with every earlier
version completed. Nothing takes this away again, because no call writes over a completed
row and an ordered source adds nothing before what is published. The rows a claim has
written are still on offer when it commits, and carry the next attempt (`IsClaim`); the
row that `complete` or `release` has written is still leased to its worker, and keeps its
attempt (`IsEnd`): the lock on the intent keeps all others from the row, and time
only takes away what is left of a lease. A worker knows of no later claim than the last
one, and of that one only if it is its own (`ClaimsKnown`). For the refinement, only
`Commit`, `Publish` and `Tick` are seen: a commit is a claim (`LifecycleClaim`), the end of
a lease (`LifecycleEnd`) or nothing, `Tick` is the lapse of leases, and every other step
stutters.

`QueryProofs` proves of `Keyset`, from `KeysetAssumption`, for any finite set of keys, any
fields, orders of any length and any page size:

- `ContinuesIsBefore`: the predicate `_keyset` builds selects exactly the rows that
  ORDER BY puts after the cursor's row;
- `PagesAreTyped`, `PagesNeverGoBack` (`Spec => []PagesGoForward`) and
  `NoRowIsSkipped` (`Spec => []StayedIsReturned`).

ORDER BY is shown to be irreflexive, transitive and, because the identity completes
every order, total on different records (`BeforeTotal`, by the least index at which
two rows differ). `PageCutsOff` follows: a page with a cursor leaves out only rows
after its last one, a page without a cursor leaves out nothing. The two properties
are not inductive; `ScanInv` adds that the cursor carries the last row of the last page,
which every row seen so far equals or precedes (`CursorIsLast`), and that a row
that stayed and was not seen is still ahead of the cursor (`StayedIsAhead`).

`QueryProofs` proves of `Traversal`, from `TraversalAssumption`, for any finite set of relation
rows, any query and any bounds:

- `TraversalIsTyped` (`TraversalSpec => []TraversalTypeOK`), `TraversalIsExact`
  (`TraversalSpec => []WalkIsExact`) and `NearestIsAnswered` (`TraversalSpec => []NearestIsFound`).

The inductive invariant, `WalkInv`, says what the recursive table holds after any number of
iterations: `walk` is exactly the paths of at most `level` edges, and the working table
those of exactly `level`. `ExtensionsAreExact` is its step: an edge more makes a path of
a path (`PathExtends`), and every path is made so (`PathEndsWithEdge`). `WalkIsComplete`
closes it: an empty working table means that there is no longer path within the bound,
because the beginning of a path is a path (`PathPrefix`).

`NearestIsAnswered` needs three things more, in `NearestInv` and two lemmas. `Reach` satisfies the recursion that defines
it (`ReachUnfolds`), and a record at distance n ends a path of n edges (`ShortestIsPath`:
records on the way are nearer, so that none comes twice); both are by induction on n, as
`NaturalSteps` gives it for a set of naturals. The closure walked is that of the request
(`AsRequested`), because a translation compares the registry with the one it was resolved
against. And what a page leaves out does not come before any row of it (`AnswerIsFirst`),
so that a page that leaves out a path is full (`OmittedIsFarther`).

`RuntimeProofs` proves, from `RuntimeAssumption`, for any threads, calls and pool sizes:

- `RuntimeTypeOK` (`Spec => []TypeOK`) and `CloseIsFinalHolds` (`Spec => CloseIsFinal`).

`CloseIsFinal` needs to know where an open pool can be: `PoolsHeld` says that it is the
runtime's or that of the thread in `open`, and that the runtime's is open until a close;
`OpeningHolds` and `ClosingHolds` that such threads have the lock, a runtime that is not
closed and, in `close`, no open pool left; and `UsesHold` that a use has the runtime's pool
until a close has given that up (`Shut`), which a close that failed has done too.

`MigrationProofs` proves, from `MigrationAssumption`, for any plans, jobs and verifiers:

- `MigrationTypeOK` (`Spec => []TypeOK`), `MigrationsAreAtomic`
  (`Spec => []RecordedIsComplete`), `VerificationsAreRight`
  (`Spec => []VerifiedStaysTrue`) and `AnswersAreTrue` (`Spec => ReportedTruly`).

None of them is inductive. The advisory lock lets one application at a time past it
(`LocksExclude`), so what it found in `__meridian_migrations` and what it compared stays
so until it commits (`FoundSoFar`); it makes only what is not there and has every object
of the statements it is past (`MadeSoFar`), and names all Resources of its plan before it
records it (`NamedSoFar`). A verification takes no lock. Its answer is right because
tables only grow, plans stay recorded and every row of `__meridian_resources` is
of a recorded plan (`MetadataIsRecorded`): what was found of a Resource still holds when
the last one has been read (`ChecksHold`). The steps of one kind share `JobStep` and
`CheckStep`.

`SessionProofs` proves, from `SessionAssumption`, for any threads, operations and
connections:

- `SessionTypeOK` (`Spec => []TypeOK`), `PoolGetsItBack` (`Spec => []ReturnedOnceAndClean`),
  `CommitIsNotRolledBack` (`Spec => []NoRollbackAfterCommit`) and `ClosingGivesBack`
  (`Spec => CloseGivesBack`);
- `ToldTheTruth`: `OneBegin => (Spec => []OutcomesAreTruthful)`, where `OneBegin` says that a
  transactional session begins one transaction. Without it the property is false
  (section 5, `session_reuse`).

The lock does not protect a session by itself: a call whose admission expires goes on to
release the connection without it. `Caller` says that a call without the lock does nothing
but leave, `ConnectionHolds` what the connection is: the last one taken, at rest
while nobody has the lock (`AtRest`), and otherwise what the holder's place in its call
says (`Holder`). `Drift` is all that others can do to the holder meanwhile, and
`HolderStays` shows that what the holder relies on survives it; so an action needs to be
considered for the call it belongs to only. Every connection has one place: it is the session's, one
release has it in hand (`PutsApart`), or it is back.

`ClosingGivesBack` needs two things more (`ClosingHolds`). Connections do not get lost: each
one taken is the session's, in the hands of a call that puts it back, or back (`GivenBack`,
`NothingLost`). And a `close` past its own release, or one that found nothing to release,
leaves the session without a connection or with one taken after `close` was called
(`Closes`); this stays so while others act, because a session only ever takes a new
connection (`ClosesKept`). The race of a `begin` that takes one after that is why the
property speaks of the connections taken before: with the later ones it is false, and
PROJECT.json lists that leak as a hazard.

Outcomes are true because transactions
only move on (`FatesMove`): what a call has been told was final then and stays so
(`FinalStays`).

`EvidenceReplayProofs` proves, from `ReplayAssumption`, for any sessions, requests, keys
and records:

- `ReplayTypeOK` (`Spec => []TypeOK`), `AppendsTakeEffectOnce` (`Spec => []AppliedOnce`) and
  `AnswersAreCommitted` (`Spec => []KnownAnswersHold`).

What is committed is whole only because what a transaction has written is, at every point
where it can commit. `TransactionsHold` says so of a transaction's view, and of the copy its
savepoint restores, but for the append in progress, whose records are written one by one.
`TransactionsApart` is what unique keys give: rows two open transactions have
written differ, and none of them is committed, because an insert waits for an
uncommitted one of its key. A replay therefore answers with a committed row or one
of its own transaction.

`SchemaRegistryProofs` proves, from `RegistryAssumption`, for any sessions, documents and calls:

- `RegistryTypeOK` (`Spec => []TypeOK`), `BreakingNeedsConsent` (`Spec => []BreakingIsExplicit`),
  `PublicationsAreCommitted` (`Spec => []KnownPublicationsHold`) and `HistoryGrows`
  (`Spec => HistoryOnlyGrows`).

The row lock excludes: a transaction that has locked or written the row is alone with it,
and the row it has in hand follows the committed one, change by change. That the
committed history has a latest version is part of the invariant, where one would otherwise
argue by induction over a finite set. A caller's revision is one its own transaction made
or one already committed, so that two publications never share one.

`StructuredStoreProofs` proves, from `StoreAssumption`, for any sessions, records, mutations
and limit:

- `StoreTypeOK` (`Spec => []TypeOK`), `VersionsNameMutations` (`Spec => []VersionsAreUnique`),
  `ConditionsAreHeld` (`Spec => []ConditionsHeld`) and `FailuresAreUndone`
  (`Spec => FailuresLeaveNothing`).

None of them is inductive, because what a transaction has written and answered is not seen
before it commits. `WritersApart` says that a record has one uncommitted writer, which
is what waiting for `Writers` is for. `FailuresApart` is what `FailuresAreUndone` needs: no
transaction holds the work of a mutation that failed, the work of a running statement is in
no other transaction, and a statement without an answer has no work in its own.
`AnswersHold` says that a transaction
answers only for records it has written, and that each condition held for the row that was
replaced. `LinesHold` is about versions: the rows callers were told of, with those this transaction
will tell of when it commits, agree with each other, and none of the birth of the latest
row has a later version than it (`Line`). A write goes on with the line (`LineGrows`): with the
next version, with the same one rewritten by an import, or with a row of another birth,
which is new because a mutation reaches a record once (`PendingHolds`). `PendingHolds` also
bounds versions: a version and the mutations that have the record still to reach are at most
the mutations so far, which is why the next version is well typed. The steps that write
nothing share `StepKeeps`, all writes `ChangeKeeps`.

Induction is available to the provers only over sets of naturals (`LeastNatural`, from
`WellFoundedInduction`); the library's induction rules take a predicate and are not used.

Only model-checked: liveness (`EveryIntentIsServed`, `CallsReturn`, `AppendsEnd`, `CallsEnd`,
`RuntimeDrains`: the provers do not handle fairness) and the violations that `migration_retyped` and `session_reuse` expect.

## 5. Findings

`session_reuse`. `begin` refuses a session only while a transaction is open, so a
session that has committed may begin again, although the refusal says "begin
requires a new transactional Adapter session". `commit_state` is never reset.
When the admission of the second `commit` expires, the second transaction is
discarded and the caller is told `known-committed`, the first one's outcome.
`tests/unit/test_deadline_lifecycle.py` asserts known-not-committed after a
cancelled commit admission; this holds for a session's first transaction only.

`migration_retyped`. `docs/architecture.md` says "incompatible changes are rejected
before DDL", and the repository's README that incompatible evolution "fails closed".
No step compares the plan with the tables that exist: a column of the same name
and another type is skipped by `ADD COLUMN IF NOT EXISTS`, the plan is recorded,
its fingerprint written and `applied=True` returned. Only a later probe reports the
drift.

## 6. Plan

The modules of the plan are written: `Outbox`, `Session`, `EvidenceReplay`,
`SchemaRegistry`, `StructuredStore`, `Migration`, `Keyset`, `Traversal` and `Runtime`; every
safety property and every action property of theirs is proved, and so is the refinement of
`OutboxLifecycle`. What is left would need other provers: the liveness properties.

Not modelled: settings, descriptor and error mapping (validation and formatting without
state), the operation compiler but for the bounds of a traversal, the text of SQL
expressions, joins and aggregates (one query becomes one statement), the probe of
versions and privileges (reads that keep nothing), `export_rows` (a query),
`verify_schema_repository`, and `RecoveryHook` (a constant).
