------------------------------ MODULE Migration ------------------------------
(***************************************************************************)
(* MigrationExecutor.apply (migration/__init__.py): plans compiled from    *)
(* settings (schema/__init__.py) applied to one physical schema by         *)
(* deployment jobs that may run at once, each in a transaction that takes  *)
(* the advisory lock first; apply_activation (semantics/__init__.py),      *)
(* which applies and then reads the registry's revision; and               *)
(* verify_physical (probe/__init__.py), by which runtimes compare their    *)
(* settings with the schema meanwhile.  Every SQL statement is one step;   *)
(* DDL is transactional and skips what exists by name.                     *)
(***************************************************************************)
EXTENDS Integers, Sequences, FiniteSets

CONSTANTS
    Executors, Verifiers,
    Plans,         \* plan fingerprints, one for each configuration
    Physical,      \* physical fingerprint of each plan
    StatementsOf,  \* its DDL: pairs of an object's name and definition
    ResourcesOf,   \* the fingerprints of the Resources it configures; Resources
                   \* are naturals in the order of their references
    ResourceOf,    \* the Resource whose table each object belongs to
    Indexes,       \* the objects that are indexes; the others are columns
    MaxApplies,    \* bound: calls of apply
    MaxChecks,     \* bound: calls of verify_physical
    NoPlan, NoFingerprint, Missing, NoRow, Divergent

Fingerprints == {Physical[p] : p \in Plans}
Resources == UNION {DOMAIN ResourcesOf[p] : p \in Plans}
Objects == UNION {{StatementsOf[p][i].object : i \in DOMAIN StatementsOf[p]} : p \in Plans}
Definitions == UNION {{StatementsOf[p][i].definition : i \in DOMAIN StatementsOf[p]} : p \in Plans}

\* physical_fingerprint and resource_fingerprint in a row of __meridian_resources.
MetadataRow ==
    [physical : Fingerprints,
     resource : UNION {{ResourcesOf[p][r] : r \in DOMAIN ResourcesOf[p]} : p \in Plans}]

ASSUME MigrationAssumption ==
    /\ DOMAIN Physical = Plans /\ DOMAIN ResourcesOf = Plans
    /\ DOMAIN StatementsOf = Plans
    /\ \A p \in Plans : /\ StatementsOf[p] \in Seq([object : Objects, definition : Definitions])
                        /\ StatementsOf[p] # <<>>
                        /\ DOMAIN ResourcesOf[p] # {}
    /\ Resources \subseteq Nat
    /\ \A p \in Plans : \A i \in DOMAIN StatementsOf[p] :
          ResourceOf[StatementsOf[p][i].object] \in DOMAIN ResourcesOf[p]
    /\ Indexes \subseteq Objects
    /\ MaxApplies \in Nat /\ MaxChecks \in Nat
    /\ NoPlan \notin Plans
    /\ NoFingerprint \notin Fingerprints /\ Divergent \notin Fingerprints
    /\ Missing \notin Definitions
    /\ NoRow \notin MetadataRow

Schemas == [Objects -> Definitions \cup {Missing}]
Metadata == [Resources -> MetadataRow \cup {NoRow}]

NoSchema == [o \in Objects |-> Missing]
NoMetadata == [r \in Resources |-> NoRow]

\* MigrationEvidence, with the fingerprint the caller expected.
Evidence == [plan : Plans, applied : BOOLEAN, expected : Fingerprints \cup {NoFingerprint}]

\* ActivationResult; the revision is the hash of the rows.
Activation == [plan : Plans, revision : Metadata]

\* PhysicalVerification of the requested Resources under the settings of a plan.
Verification == [plan : Plans, requested : SUBSET Resources,
                 fingerprint : Fingerprints \cup {Divergent}]

Phases == {"idle", "lock", "lookup", "compare", "ddl", "record", "commit", "revision"}

\* An application: its place in the plan and what it has written.
Applications ==
    [phase : Phases, plan : Plans \cup {NoPlan}, activation : BOOLEAN,
     expected : Fingerprints \cup {NoFingerprint}, present : BOOLEAN, next : Nat,
     made : Schemas, named : Metadata]

Idle == [phase |-> "idle", plan |-> NoPlan, activation |-> FALSE, expected |-> NoFingerprint,
         present |-> FALSE, next |-> 1, made |-> NoSchema, named |-> NoMetadata]

\* A verification: the Resources it has still to do, the first one's row, whether
\* its columns were as they should be, and the physical fingerprints found.
Checks ==
    [phase : {"idle", "metadata", "columns", "indexes"}, plan : Plans \cup {NoPlan},
     requested : SUBSET Resources, rest : SUBSET Resources, row : MetadataRow \cup {NoRow},
     columns : BOOLEAN, found : SUBSET Fingerprints]

NoCheck == [phase |-> "idle", plan |-> NoPlan, requested |-> {}, rest |-> {}, row |-> NoRow,
            columns |-> FALSE, found |-> {}]

VARIABLES
    schema,    \* the committed tables, columns and indexes
    metadata,  \* __meridian_resources
    recorded,  \* __meridian_migrations
    tx,        \* the application each executor is in
    applies,   \* calls so far
    known,     \* evidence that jobs hold
    activated, \* results of activations
    check,     \* the verification each verifier is in
    checks,    \* calls so far
    verified   \* what they were told

tables == <<schema, metadata, recorded>>
jobs == <<tx, applies, known, activated>>
verifiers == <<check, checks, verified>>
vars == <<tables, jobs, verifiers>>

TypeOK ==
    /\ schema \in Schemas
    /\ metadata \in Metadata
    /\ recorded \subseteq Plans
    /\ tx \in [Executors -> Applications]
    /\ applies \in 0 .. MaxApplies
    /\ known \subseteq Evidence
    /\ activated \subseteq Activation
    /\ check \in [Verifiers -> Checks]
    /\ checks \in 0 .. MaxChecks
    /\ verified \subseteq Verification

Init ==
    /\ schema = NoSchema
    /\ metadata = NoMetadata
    /\ recorded = {}
    /\ tx = [e \in Executors |-> Idle]
    /\ applies = 0
    /\ known = {} /\ activated = {}
    /\ check = [v \in Verifiers |-> NoCheck]
    /\ checks = 0
    /\ verified = {}

-----------------------------------------------------------------------------

At(e, phase) == tx[e].phase = phase

Continue(e, t) ==
    tx' = [tx EXCEPT ![e] = t] /\ UNCHANGED <<tables, applies, known, activated, verifiers>>

\* pg_advisory_xact_lock is held until the transaction ends.
Locked(e) == tx[e].phase \notin {"idle", "lock", "revision"}

Start(e, p, expected, activation) ==
    /\ At(e, "idle")
    /\ applies < MaxApplies
    /\ applies' = applies + 1
    /\ tx' = [tx EXCEPT ![e].phase = "lock", ![e].plan = p, ![e].expected = expected,
                        ![e].activation = activation]
    /\ UNCHANGED <<tables, known, activated, verifiers>>

Call(e, p, expected) == Start(e, p, expected, FALSE)

\* apply_activation expects no fingerprint.  An ActivationPlan that plan_activation
\* made under other settings than p's raises before anything is sent.
Activate(e, p) == Start(e, p, NoFingerprint, TRUE)

\* Mutant: the advisory lock is not taken.
LockNothing(e) ==
    /\ At(e, "lock")
    /\ Continue(e, [tx[e] EXCEPT !.phase = "lookup"])

Lock(e) ==
    /\ At(e, "lock")
    /\ \A o \in Executors \ {e} : ~Locked(o)
    /\ Continue(e, [tx[e] EXCEPT !.phase = "lookup"])

\* Is the plan in __meridian_migrations, if there is such a table yet?
Lookup(e) ==
    /\ At(e, "lookup")
    /\ Continue(e, [tx[e] EXCEPT !.phase = "compare", !.present = tx[e].plan \in recorded])

\* _current_fingerprint: the fingerprints in __meridian_resources.
Observed == {metadata[r].physical : r \in {s \in Resources : metadata[s] # NoRow}}

\* Divergent fingerprints raise, and so does one that is not the expected one;
\* without an expected fingerprint nothing is compared.
Expected(t) == t.expected = NoFingerprint \/ Observed \subseteq {t.expected}

\* A plan that is present is not applied again.
Compare(e) ==
    /\ At(e, "compare")
    /\ Expected(tx[e])
    /\ Continue(e, [tx[e] EXCEPT !.phase = IF tx[e].present THEN "commit" ELSE "ddl"])

Refuse(e) == At(e, "compare") /\ ~Expected(tx[e]) /\ Continue(e, Idle)

\* Mutant: the last statement is left out.
LastButOne(p) == Len(StatementsOf[p]) - 1

Last(p) == Len(StatementsOf[p])

\* CREATE ... IF NOT EXISTS and ADD COLUMN IF NOT EXISTS: an object of that name
\* is left as it is.
Execute(e) ==
    LET t == tx[e]
        statement == StatementsOf[t.plan][t.next]
    IN  /\ At(e, "ddl") /\ t.next <= Last(t.plan)
        /\ Continue(e, [t EXCEPT !.next = @ + 1,
                !.made[statement.object] =
                    IF @ = Missing /\ schema[statement.object] = Missing
                    THEN statement.definition ELSE @])

\* Mutant: the plan's name is written in the place of its fingerprint.
NameByPlan(e) ==
    LET p == tx[e].plan IN
    /\ At(e, "ddl") /\ tx[e].next > Last(p)
    /\ Continue(e, [tx[e] EXCEPT !.phase = "record",
            !.named = [r \in Resources |-> IF r \in DOMAIN ResourcesOf[p]
                                           THEN [physical |-> p, resource |-> ResourcesOf[p][r]]
                                           ELSE NoRow]])

\* The upserts of the plan's Resources; rows of other Resources stay.
Name(e) ==
    LET p == tx[e].plan IN
    /\ At(e, "ddl") /\ tx[e].next > Last(p)
    /\ Continue(e, [tx[e] EXCEPT !.phase = "record",
            !.named = [r \in Resources |->
                IF r \in DOMAIN ResourcesOf[p]
                THEN [physical |-> Physical[p], resource |-> ResourcesOf[p][r]]
                ELSE NoRow]])

\* INSERT INTO __meridian_migrations; its key is the plan's fingerprint.
Record(e) ==
    /\ At(e, "record")
    /\ Continue(e, IF tx[e].plan \in recorded THEN Idle ELSE [tx[e] EXCEPT !.phase = "commit"])

\* MigrationEvidence
Answer(e) == [plan |-> tx[e].plan, applied |-> ~tx[e].present, expected |-> tx[e].expected]

Overlay(old, new, none) == [x \in DOMAIN old |-> IF new[x] = none THEN old[x] ELSE new[x]]

\* COMMIT; its acknowledgement may be lost.  An activation that has it goes on.
Commit(e) ==
    LET t == tx[e] IN
    /\ At(e, "commit")
    /\ schema' = Overlay(schema, t.made, Missing)
    /\ metadata' = Overlay(metadata, t.named, NoRow)
    /\ recorded' = recorded \cup {t.plan}
    /\ \/ tx' = [tx EXCEPT ![e] = Idle] /\ UNCHANGED known
       \/ /\ tx' = [tx EXCEPT ![e] = IF t.activation
                                     THEN [Idle EXCEPT !.phase = "revision", !.plan = t.plan]
                                     ELSE Idle]
          /\ known' = known \cup {Answer(e)}
    /\ UNCHANGED <<applies, activated, verifiers>>

\* _read_registry_revision, in another transaction; without rows it raises.
ReadRevision(e) ==
    /\ At(e, "revision")
    /\ metadata # NoMetadata
    /\ activated' = activated \cup {[plan |-> tx[e].plan, revision |-> metadata]}
    /\ tx' = [tx EXCEPT ![e] = Idle]
    /\ UNCHANGED <<tables, applies, known, verifiers>>

\* A server error, a timeout or a dead job rolls everything back.
Fail(e) == ~At(e, "idle") /\ Continue(e, Idle)

-----------------------------------------------------------------------------
(* verify_physical: each statement of it sees what is committed by then    *)

Goto(v, c) == check' = [check EXCEPT ![v] = c] /\ UNCHANGED <<tables, jobs, checks, verified>>

Verify(v, p, requested) ==
    /\ check[v].phase = "idle"
    /\ checks < MaxChecks
    /\ checks' = checks + 1
    /\ check' = [check EXCEPT ![v] = [NoCheck EXCEPT !.phase = "metadata", !.plan = p,
                                          !.requested = requested, !.rest = requested]]
    /\ UNCHANGED <<tables, jobs, verified>>

\* The Resources are visited in the order of their references.
Current(v) == CHOOSE r \in check[v].rest : \A s \in check[v].rest : r <= s

\* The Resource's row; there must be one.
ReadMetadata(v) ==
    LET row == metadata[Current(v)] IN
    /\ check[v].phase = "metadata"
    /\ Goto(v, IF row = NoRow THEN NoCheck
               ELSE [check[v] EXCEPT !.phase = "columns", !.row = row])

\* What the settings of plan p give the table of Resource r, and what it has.
Expects(p, r) == {StatementsOf[p][i] : i \in {j \in DOMAIN StatementsOf[p] :
                                                 ResourceOf[StatementsOf[p][j].object] = r}}
Has(r) == {[object |-> o, definition |-> schema[o]] :
              o \in {x \in Objects : ResourceOf[x] = r /\ schema[x] # Missing}}

ColumnsIn(shape) == {c \in shape : c.object \notin Indexes}
IndexNames(shape) == {c.object : c \in shape} \cap Indexes

\* Mutant: columns that are not there yet are no drift.
ColumnsNoneTooMany(p, r) == ColumnsIn(Has(r)) \subseteq ColumnsIn(Expects(p, r))

\* Columns are compared with name, type, nullability and generation; a table that
\* does not exist (to_regclass) has none.
ColumnsAgree(p, r) == ColumnsIn(Has(r)) = ColumnsIn(Expects(p, r))

ReadColumns(v) ==
    /\ check[v].phase = "columns"
    /\ Goto(v, [check[v] EXCEPT !.phase = "indexes",
                                !.columns = ColumnsAgree(check[v].plan, Current(v))])

\* Indexes are compared by name.  The Resource is in order when its columns, its
\* indexes and the fingerprints of its row are.
InOrder(v) ==
    LET p == check[v].plan
        r == Current(v)
    IN  /\ check[v].columns
        /\ IndexNames(Has(r)) = IndexNames(Expects(p, r))
        /\ check[v].row.resource = ResourcesOf[p][r]

Found(v) == check[v].found \cup {check[v].row.physical}

ReadIndexes(v) ==
    /\ check[v].phase = "indexes"
    /\ \/ ~InOrder(v) /\ Goto(v, NoCheck)
       \/ /\ InOrder(v) /\ check[v].rest # {Current(v)}
          /\ Goto(v, [check[v] EXCEPT !.phase = "metadata", !.rest = @ \ {Current(v)},
                                      !.row = NoRow, !.columns = FALSE, !.found = Found(v)])
       \/ /\ InOrder(v) /\ check[v].rest = {Current(v)}
          /\ check' = [check EXCEPT ![v] = NoCheck]
          /\ verified' = verified \cup
                {[plan |-> check[v].plan, requested |-> check[v].requested,
                  fingerprint |-> IF Cardinality(Found(v)) = 1 THEN check[v].row.physical
                                  ELSE Divergent]}
          /\ UNCHANGED <<tables, jobs, checks>>

-----------------------------------------------------------------------------

Next ==
    \/ \E e \in Executors :
        \/ \E p \in Plans : \/ \E f \in Fingerprints \cup {NoFingerprint} : Call(e, p, f)
                            \/ Activate(e, p)
        \/ Lock(e) \/ Lookup(e) \/ Compare(e) \/ Refuse(e) \/ Execute(e)
        \/ Name(e) \/ Record(e) \/ Commit(e) \/ ReadRevision(e) \/ Fail(e)
    \/ \E v \in Verifiers :
        \/ \E p \in Plans : \E S \in (SUBSET DOMAIN ResourcesOf[p]) \ {{}} : Verify(v, p, S)
        \/ ReadMetadata(v) \/ ReadColumns(v) \/ ReadIndexes(v)

Spec == Init /\ [][Next]_vars

-----------------------------------------------------------------------------
(* Properties                                                              *)

\* However many jobs apply a plan, and however often they retry, at most once is
\* it reported as applied, and it has been applied then, to a physical state that
\* had the expected fingerprint up to its commit, whatever other jobs did since it
\* was compared.  The revision an activation returns knows all its Resources.
ReportedTruly ==
    [][/\ \A k \in known' : k.plan \in recorded'
       /\ \A k \in known' \ known : k.applied =>
             /\ k.plan \notin recorded
             /\ k.expected # NoFingerprint => Observed \subseteq {k.expected}
       /\ \A a \in activated' : \A r \in DOMAIN ResourcesOf[a.plan] :
             a.revision[r] # NoRow]_vars

\* Migrations are atomic: a recorded plan has all its objects and the metadata of
\* all its Resources, wherever its job and others failed.
RecordedIsComplete ==
    \A p \in recorded :
        /\ \A i \in DOMAIN StatementsOf[p] : schema[StatementsOf[p][i].object] # Missing
        /\ \A r \in DOMAIN ResourcesOf[p] : metadata[r] # NoRow

\* A verification that succeeds is right, although migrations may commit between
\* its statements: the tables have, and keep, every column as the settings say and
\* an index of every name, and the fingerprint it returns is one that a recorded
\* plan gave each of the Resources together with the settings' own.
VerifiedStaysTrue ==
    \A k \in verified : \A r \in k.requested :
        /\ ColumnsIn(Expects(k.plan, r)) \subseteq Has(r)
        /\ IndexNames(Expects(k.plan, r)) \subseteq IndexNames(Has(r))
        /\ \E q \in recorded :
              /\ r \in DOMAIN ResourcesOf[q]
              /\ ResourcesOf[q][r] = ResourcesOf[k.plan][r]
              /\ k.fingerprint \in {Physical[q], Divergent}

\* "incompatible changes are rejected before DDL": a recorded plan's objects are
\* there as the plan defines them.
IncompatibleIsRejected ==
    \A p \in recorded : \A i \in DOMAIN StatementsOf[p] :
        schema[StatementsOf[p][i].object] = StatementsOf[p][i].definition
=============================================================================
