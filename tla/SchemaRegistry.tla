--------------------------- MODULE SchemaRegistry ---------------------------
(***************************************************************************)
(* PostgreSQLSchemaRepository (schema_registry.py): the registry row of    *)
(* one tenant and scope, and the transactions that publish and deprecate   *)
(* schemas in it.  A call runs under a savepoint of its session's READ     *)
(* COMMITTED transaction, which may hold several calls and decides their   *)
(* fate; every SQL statement is one step, and so is what the code decides  *)
(* between reading the locked row and writing it.                          *)
(***************************************************************************)
EXTENDS Integers, FiniteSets

CONSTANTS
    Sessions,
    Documents,   \* schema documents, told apart by their fingerprint
    SchemaOf,    \* catalog, namespace and name of a document
    VersionOf,   \* its semantic version, in precedence order
    Breaking,    \* pairs that classify_compatibility calls breaking
    Allowed,     \* documents whose publishers pass allow_breaking
    MaxCalls,    \* bound: publish and deprecate calls
    NoRow, NoPin, NoDocument

Revisions == 0 .. MaxCalls

\* The payload of the row.
Registries == [revision : Revisions, schemas : SUBSET Documents, deprecated : SUBSET Documents]

ASSUME RegistryAssumption ==
    /\ IsFiniteSet(Documents)
    /\ VersionOf \in [Documents -> Nat]
    /\ DOMAIN SchemaOf = Documents
    /\ Breaking \subseteq Documents \X Documents
    /\ Allowed \subseteq Documents
    /\ MaxCalls \in Nat
    /\ NoRow \notin Registries
    /\ NoPin \notin Revisions
    /\ NoDocument \notin Documents

Empty == [revision |-> 0, schemas |-> {}, deprecated |-> {}]

Answers == [document : Documents, revision : Revisions, replay : BOOLEAN]

Phases == {"idle", "open", "ensure", "lock", "publish", "deprecate"}

\* The row version a transaction has written, whether it has the row locked,
\* what the savepoint keeps of both, and the row its call has read.
Transactions ==
    [phase : Phases, op : {"publish", "deprecate"}, document : Documents \cup {NoDocument},
     pin : Revisions \cup {NoPin},
     view : Registries \cup {NoRow}, locked : BOOLEAN,
     savedView : Registries \cup {NoRow}, savedLocked : BOOLEAN,
     before : Registries, given : SUBSET Answers]

Idle == [phase |-> "idle", op |-> "publish", document |-> NoDocument, pin |-> NoPin,
         view |-> NoRow, locked |-> FALSE, savedView |-> NoRow, savedLocked |-> FALSE,
         before |-> Empty, given |-> {}]

VARIABLES
    row,    \* the committed registry row
    tx,     \* the transaction of each session
    calls,  \* calls so far
    known   \* publications callers hold for committed

vars == <<row, tx, calls, known>>

TypeOK ==
    /\ row \in Registries \cup {NoRow}
    /\ tx \in [Sessions -> Transactions]
    /\ calls \in 0 .. MaxCalls
    /\ known \subseteq Answers

Init ==
    /\ row = NoRow
    /\ tx = [s \in Sessions |-> Idle]
    /\ calls = 0
    /\ known = {}

-----------------------------------------------------------------------------

SameSchema(d, e) == SchemaOf[d] = SchemaOf[e]
SameReference(d, e) == SameSchema(d, e) /\ VersionOf[d] = VersionOf[e]

\* The published versions of a document's schema; a snapshot keeps them sorted.
History(registry, d) == {e \in registry.schemas : SameSchema(d, e)}

IsLatest(e, S) == e \in S /\ \A f \in S : VersionOf[f] <= VersionOf[e]

\* The row a statement of the session sees.
Seen(s) == IF tx[s].view # NoRow THEN tx[s].view ELSE row

InCall(s) == tx[s].phase \notin {"idle", "open"}

Continue(s, t) == /\ tx' = [tx EXCEPT ![s] = t]
                  /\ UNCHANGED <<row, calls, known>>

\* The call raises: its writes and the locks it took go, those of the calls
\* before it stay.
BackToSavepoint(s) ==
    Continue(s, [tx[s] EXCEPT !.phase = "open", !.view = tx[s].savedView,
                              !.locked = tx[s].savedLocked])

Revision(s) == IF Seen(s) = NoRow THEN 0 ELSE Seen(s).revision

\* publish_schema or deprecate_schema, pinned or not to the revision the caller
\* can see at the time.
Begin(s, op, d) ==
    /\ tx[s].phase \in {"idle", "open"}
    /\ calls < MaxCalls
    /\ calls' = calls + 1
    /\ \E pin \in {NoPin, Revision(s)} :
          tx' = [tx EXCEPT ![s].phase = "ensure", ![s].op = op, ![s].document = d,
                           ![s].pin = pin,
                           ![s].savedView = tx[s].view, ![s].savedLocked = tx[s].locked]
    /\ UNCHANGED <<row, known>>

\* Mutant: the empty row is not inserted.
EnsureNothing(s) ==
    /\ tx[s].phase = "ensure"
    /\ Continue(s, [tx[s] EXCEPT !.phase = "lock"])

\* INSERT of the empty row ... ON CONFLICT DO NOTHING waits for a transaction
\* that has inserted it, or changed it, without committing yet.
Ensure(s) ==
    /\ tx[s].phase = "ensure"
    /\ \A o \in Sessions \ {s} : tx[o].view = NoRow
    /\ Continue(s, IF Seen(s) = NoRow
                   THEN [tx[s] EXCEPT !.phase = "lock", !.view = Empty, !.locked = TRUE]
                   ELSE [tx[s] EXCEPT !.phase = "lock"])

\* Mutant: SELECT without FOR UPDATE.
LockNothing(s) ==
    /\ tx[s].phase = "lock"
    /\ Continue(s, [tx[s] EXCEPT !.phase = tx[s].op, !.before = Seen(s)])

\* SELECT ... FOR UPDATE reads the row as it is once the lock is granted.
Lock(s) ==
    /\ tx[s].phase = "lock"
    /\ \A o \in Sessions \ {s} : ~tx[o].locked
    /\ Continue(s, [tx[s] EXCEPT !.phase = tx[s].op, !.locked = TRUE, !.before = Seen(s)])

\* _revision: the compare-and-set on the expected revision.
PinHolds(s) == tx[s].pin \in {NoPin, tx[s].before.revision}

\* Mutants: a version may repeat; compatibility is not classified.
ExtendsOrRepeats(registry, d) ==
    \A e \in History(registry, d) : VersionOf[e] <= VersionOf[d]

ExtendsVersionsOnly(registry, d) ==
    \A e \in History(registry, d) : VersionOf[e] < VersionOf[d]

\* The checks of publish_schema on the versions of the document's schema: the
\* version increases, and breaks nothing unless that is allowed.
Extends(registry, d) ==
    \A e \in History(registry, d) :
        IsLatest(e, History(registry, d)) =>
            /\ VersionOf[e] < VersionOf[d]
            /\ <<e, d>> \in Breaking => d \in Allowed

Answered(t, revision, replay) ==
    [t EXCEPT !.phase = "open",
              !.given = @ \cup {[document |-> t.document, revision |-> revision,
                                 replay |-> replay]}]

\* The same document is there: the original publication is returned.
Replay(s) ==
    LET t == tx[s] IN
    /\ t.phase = "publish"
    /\ PinHolds(s)
    /\ t.document \in t.before.schemas
    /\ Continue(s, Answered(t, t.before.revision, TRUE))

\* UPDATE of the whole row.
Publish(s) ==
    LET t == tx[s]
        after == [t.before EXCEPT !.revision = @ + 1, !.schemas = @ \cup {t.document}]
    IN  /\ t.phase = "publish"
        /\ PinHolds(s)
        /\ t.document \notin t.before.schemas
        /\ Extends(t.before, t.document)
        /\ Continue(s, Answered([t EXCEPT !.view = after], after.revision, FALSE))

\* RegistryRevisionConflict, SchemaVersionConflict, IncompatibleSchema
RefusePublish(s) ==
    LET t == tx[s] IN
    /\ t.phase = "publish"
    /\ ~PinHolds(s) \/ (t.document \notin t.before.schemas /\ ~Extends(t.before, t.document))
    /\ BackToSavepoint(s)

\* The publications deprecate_schema finds under the reference.
Found(s) == {e \in tx[s].before.schemas : SameReference(e, tx[s].document)}

\* A deprecated schema is left as it is.
Deprecate(s) ==
    LET t == tx[s] IN
    /\ t.phase = "deprecate"
    /\ PinHolds(s)
    /\ Found(s) # {}
    /\ Continue(s,
          IF Found(s) \subseteq t.before.deprecated THEN [t EXCEPT !.phase = "open"]
          ELSE [t EXCEPT !.phase = "open",
                         !.view = [t.before EXCEPT !.revision = @ + 1,
                                                   !.deprecated = @ \cup Found(s)]])

\* RegistryRevisionConflict, ResourceNotFound
RefuseDeprecate(s) ==
    /\ tx[s].phase = "deprecate"
    /\ ~PinHolds(s) \/ Found(s) = {}
    /\ BackToSavepoint(s)

\* A server error.
Fail(s) == InCall(s) /\ BackToSavepoint(s)

\* The row, or its insertion, is in the hands of another transaction.
Waits(s) ==
    \E o \in Sessions \ {s} :
        \/ tx[s].phase = "ensure" /\ tx[o].view # NoRow
        \/ tx[s].phase = "lock" /\ tx[o].locked

\* Mutant: the timeout is set after the row has been ensured.
TimedOutLocking(s) ==
    /\ tx[s].phase = "lock" /\ Waits(s)
    /\ BackToSavepoint(s) \/ Continue(s, Idle)

\* A statement that waits is cancelled by its statement_timeout, or its session's
\* budget is spent and the transport finished: a wait ends whether or not the
\* caller of the other transaction ever ends that.
TimedOut(s) ==
    /\ Waits(s)
    /\ BackToSavepoint(s) \/ Continue(s, Idle)

\* The enclosing transaction commits; its acknowledgement may be lost.
Commit(s) ==
    /\ tx[s].phase = "open"
    /\ row' = Seen(s)
    /\ tx' = [tx EXCEPT ![s] = Idle]
    /\ known' \in {known, known \cup tx[s].given}
    /\ UNCHANGED calls

\* It rolls back, or its connection is gone.
Abort(s) ==
    /\ tx[s].phase # "idle"
    /\ Continue(s, Idle)

Statement(s) ==
    \/ Ensure(s) \/ Lock(s) \/ Replay(s) \/ Publish(s) \/ RefusePublish(s)
    \/ Deprecate(s) \/ RefuseDeprecate(s)

Next ==
    \E s \in Sessions :
        \/ \E op \in {"publish", "deprecate"}, d \in Documents : Begin(s, op, d)
        \/ Statement(s) \/ TimedOut(s) \/ Fail(s) \/ Commit(s) \/ Abort(s)

Spec == Init /\ [][Next]_vars

\* Statements that can proceed do, and waits time out.  Nothing obliges a caller
\* to end the enclosing transaction.
FairSpec ==
    /\ Spec
    /\ \A s \in Sessions : WF_vars(Statement(s)) /\ WF_vars(TimedOut(s))

-----------------------------------------------------------------------------
(* Properties                                                              *)

\* "Schema versions increase by semantic version order": what is committed stays,
\* deprecation included, and every new document is a later version than all of
\* its schema before, whatever snapshot its publisher decided on.  The revision
\* counts the changes: none is lost to a concurrent one.
HistoryOnlyGrows ==
    [][row # NoRow =>
          /\ row'.revision = Cardinality(row'.schemas) + Cardinality(row'.deprecated)
          /\ row.schemas \subseteq row'.schemas
          /\ row.deprecated \subseteq row'.deprecated
          /\ \A d \in row'.schemas \ row.schemas : \A e \in History(row, d) :
                VersionOf[e] < VersionOf[d]]_vars

\* "Breaking changes require explicit allow_breaking": no version breaks the one
\* just before it unless its publisher allowed it.
BreakingIsExplicit ==
    row # NoRow =>
        \A d \in row.schemas \ Allowed : \A e \in History(row, d) :
            IsLatest(e, {f \in History(row, d) : VersionOf[f] < VersionOf[d]}) =>
                <<e, d>> \notin Breaking

\* A publication a caller holds for committed stays in the registry, and a
\* revision was the work of one: "concurrent identical publication has one
\* original result", and of two callers pinned to one revision one wins.
KnownPublicationsHold ==
    /\ \A a \in known : row # NoRow /\ a.document \in row.schemas /\ a.revision <= row.revision
    /\ \A a, b \in known : ~a.replay /\ ~b.replay /\ a # b =>
          a.revision # b.revision /\ a.document # b.document

\* Every call ends, though the transaction that has written or locked the row, or
\* inserted it first, stays open for ever between its calls.
CallsEnd == \A s \in Sessions : InCall(s) ~> ~InCall(s)
=============================================================================
