--------------------------- MODULE EvidenceReplay ---------------------------
(***************************************************************************)
(* Evidence append and its replay records (transactions/__init__.py,       *)
(* _execute_append).  A session is one READ COMMITTED transaction at a     *)
(* time, of one or more appends; each append runs under a savepoint, and   *)
(* every SQL statement of it is one step.  A caller that lost its session  *)
(* retries on another one, while the first may still be alive.             *)
(***************************************************************************)
EXTENDS Integers, FiniteSets, Sequences

CONSTANTS
    Sessions,
    Keys,        \* replay keys, hashed with binding, principal, tenant, scope, ...
    Records,     \* what the unique key of an Evidence table identifies
    Requests,    \* request fingerprints
    KeyOf,       \* replay key of each request, NoKey if it has none
    BatchOf,     \* records of each request, in order
    MaxAppends,  \* bound: append calls
    NoKey, NoRow, NoResult, NoRequest

Numbers == 1 .. MaxAppends

\* The result of an append: the values it wrote, known by its number.
Results == [request : Requests, number : Numbers]

\* A row of __meridian_evidence_replay; the result is NULL until it is stored.
Rows == [request : Requests, result : Results \cup {NoResult}]

ASSUME ReplayAssumption ==
    /\ KeyOf \in [Requests -> Keys \cup {NoKey}]
    /\ NoKey \notin Keys
    /\ BatchOf \in [Requests -> Seq(Records) \ {<<>>}]
    /\ MaxAppends \in Nat
    /\ NoResult \notin Results
    /\ NoRow \notin Rows
    /\ NoRequest \notin Requests

Written(r) == {BatchOf[r][i] : i \in DOMAIN BatchOf[r]}

\* What a transaction has written so far; the savepoint keeps a copy.
Views == [claims : [Keys -> Rows \cup {NoRow}], records : [Records -> Results \cup {NoResult}]]

NoView == [claims |-> [k \in Keys |-> NoRow], records |-> [x \in Records |-> NoResult]]

Answers == [request : Requests, result : Results]

Phases == {"idle", "open", "claim", "lookup", "insert", "store"}

Transactions ==
    [phase : Phases, request : Requests \cup {NoRequest}, number : 0 .. MaxAppends,
     next : Nat, view : Views, saved : Views, given : SUBSET Answers]

Idle == [phase |-> "idle", request |-> NoRequest, number |-> 0, next |-> 0,
         view |-> NoView, saved |-> NoView, given |-> {}]

VARIABLES
    replay,    \* committed replay rows
    evidence,  \* committed records, each with the append that wrote it
    tx,        \* the transaction of each session
    appends,   \* append calls so far
    known      \* answers callers hold for committed

vars == <<replay, evidence, tx, appends, known>>

TypeOK ==
    /\ replay \in [Keys -> Rows \cup {NoRow}]
    /\ evidence \in [Records -> Results \cup {NoResult}]
    /\ tx \in [Sessions -> Transactions]
    /\ appends \in 0 .. MaxAppends
    /\ known \subseteq Answers

Init ==
    /\ replay = NoView.claims
    /\ evidence = NoView.records
    /\ tx = [s \in Sessions |-> Idle]
    /\ appends = 0
    /\ known = {}

-----------------------------------------------------------------------------

Key(s) == KeyOf[tx[s].request]
Record(s) == BatchOf[tx[s].request][tx[s].next]
Result(s) == [request |-> tx[s].request, number |-> tx[s].number]

\* Another session has an uncommitted row of the same unique key: PostgreSQL
\* waits for its transaction.
Holders(s) ==
    {o \in Sessions \ {s} :
        \/ tx[s].phase = "claim" /\ tx[o].view.claims[Key(s)] # NoRow
        \/ tx[s].phase = "insert" /\ tx[o].view.records[Record(s)] # NoResult}

InAppend(s) == tx[s].phase \notin {"idle", "open"}

Continue(s, t) == /\ tx' = [tx EXCEPT ![s] = t]
                  /\ UNCHANGED <<replay, evidence, appends, known>>

\* The append raises: connection.transaction() rolls back to the savepoint, and
\* what the transaction did before stays.
BackToSavepoint(s) ==
    Continue(s, [tx[s] EXCEPT !.phase = "open", !.view = tx[s].saved])

Begin(s, r) ==
    /\ tx[s].phase \in {"idle", "open"}
    /\ appends < MaxAppends
    /\ appends' = appends + 1
    /\ tx' = [tx EXCEPT ![s].phase = IF KeyOf[r] = NoKey THEN "insert" ELSE "claim",
                        ![s].request = r,
                        ![s].number = appends + 1,
                        ![s].next = 1,
                        ![s].saved = tx[s].view]
    /\ UNCHANGED <<replay, evidence, known>>

\* Mutant: the claim overwrites the row it conflicts with.
ClaimAnyway(s) ==
    /\ tx[s].phase = "claim"
    /\ Holders(s) = {}
    /\ Continue(s, [tx[s] EXCEPT !.phase = "insert",
            !.view.claims[Key(s)] = [request |-> tx[s].request, result |-> NoResult]])

\* INSERT ... ON CONFLICT DO NOTHING RETURNING
Claim(s) ==
    LET t == tx[s] IN
    /\ t.phase = "claim"
    /\ Holders(s) = {}
    /\ IF t.view.claims[Key(s)] = NoRow /\ replay[Key(s)] = NoRow
       THEN Continue(s, [t EXCEPT !.phase = "insert",
                !.view.claims[Key(s)] = [request |-> t.request, result |-> NoResult]])
       ELSE Continue(s, [t EXCEPT !.phase = "lookup"])

\* The row the SELECT sees: the transaction's own, or the committed one.
Previous(s) ==
    IF tx[s].view.claims[Key(s)] # NoRow THEN tx[s].view.claims[Key(s)] ELSE replay[Key(s)]

\* Mutant: the fingerprint is not compared.
MatchesAny(s) == Previous(s) # NoRow /\ Previous(s).result # NoResult

Matches(s) ==
    /\ Previous(s) # NoRow
    /\ Previous(s).result # NoResult
    /\ Previous(s).request = tx[s].request

Answered(t, result) ==
    [t EXCEPT !.phase = "open", !.given = @ \cup {[request |-> t.request, result |-> result]}]

\* The earlier result is replayed.
Replay(s) ==
    /\ tx[s].phase = "lookup"
    /\ Matches(s)
    /\ Continue(s, Answered(tx[s], Previous(s).result))

\* IDEMPOTENCY_CONFLICT
Conflict(s) ==
    /\ tx[s].phase = "lookup"
    /\ ~Matches(s)
    /\ BackToSavepoint(s)

\* INSERT of the next record; one that exists already is a unique violation.
Insert(s) ==
    LET t == tx[s] IN
    /\ t.phase = "insert"
    /\ Holders(s) = {}
    /\ IF t.view.records[Record(s)] = NoResult /\ evidence[Record(s)] = NoResult
       THEN Continue(s, [t EXCEPT !.phase = IF t.next = Len(BatchOf[t.request])
                                            THEN "store" ELSE "insert",
                                  !.next = t.next + 1,
                                  !.view.records[Record(s)] = Result(s)])
       ELSE BackToSavepoint(s)

\* Mutant: the row keeps the request where its result belongs.
StoreRequest(s) ==
    /\ tx[s].phase = "store"
    /\ Key(s) # NoKey
    /\ Continue(s, [tx[s] EXCEPT !.phase = "open",
            !.view.claims[Key(s)].result = tx[s].request])

\* UPDATE ... SET result; the savepoint is released and the append answered.
Store(s) ==
    LET t == tx[s]
        stored == IF Key(s) = NoKey THEN t
                  ELSE [t EXCEPT !.view.claims[Key(s)].result = Result(s)]
    IN  /\ t.phase = "store"
        /\ Continue(s, Answered(stored, Result(s)))

\* A deadline, the result limit or a server error.
Fail(s) == InAppend(s) /\ BackToSavepoint(s)

\* Some sessions wait for each other in a ring, this one among them: the server
\* ends its statement (40P01).
Deadlocked(s) ==
    \E ring \in SUBSET Sessions :
        /\ s \in ring
        /\ \A o \in ring : Holders(o) \cap ring # {}
        /\ ring \subseteq UNION {Holders(o) : o \in ring}

BreakDeadlock(s) == Deadlocked(s) /\ BackToSavepoint(s)

\* Mutant: only the INSERTs of records get a timeout, not the claim of the key.
TimedOutInserting(s) ==
    /\ tx[s].phase = "insert" /\ Holders(s) # {}
    /\ BackToSavepoint(s) \/ Continue(s, Idle)

\* A statement that waits is cancelled by its statement_timeout, or its session's
\* budget is spent and the transport finished: a wait ends whether or not the
\* caller of the other transaction ever ends that.
TimedOut(s) ==
    /\ Holders(s) # {}
    /\ BackToSavepoint(s) \/ Continue(s, Idle)

\* COMMIT; its acknowledgement may be lost.
Commit(s) ==
    LET v == tx[s].view IN
    /\ tx[s].phase = "open"
    /\ replay' = [k \in Keys |-> IF v.claims[k] = NoRow THEN replay[k] ELSE v.claims[k]]
    /\ evidence' = [x \in Records |-> IF v.records[x] = NoResult THEN evidence[x]
                                      ELSE v.records[x]]
    /\ tx' = [tx EXCEPT ![s] = Idle]
    /\ known' \in {known, known \cup tx[s].given}
    /\ UNCHANGED appends

\* ROLLBACK, or the connection is gone.
Abort(s) ==
    /\ tx[s].phase # "idle"
    /\ Continue(s, Idle)

Statement(s) == Claim(s) \/ Replay(s) \/ Conflict(s) \/ Insert(s) \/ Store(s)

Next ==
    \E s \in Sessions :
        \/ \E r \in Requests : Begin(s, r)
        \/ Statement(s) \/ BreakDeadlock(s) \/ TimedOut(s) \/ Fail(s)
        \/ Commit(s) \/ Abort(s)

Spec == Init /\ [][Next]_vars

\* Statements that can proceed do, and waits time out.  Nothing obliges a caller
\* to end its transaction, and the server need not look for deadlocks.
FairSpec ==
    /\ Spec
    /\ \A s \in Sessions : WF_vars(Statement(s)) /\ WF_vars(TimedOut(s))

-----------------------------------------------------------------------------
(* Properties                                                              *)

\* An append is committed whole or not at all, also one that failed inside a
\* transaction whose caller went on and committed; and under one replay key at
\* most one takes effect, its replay row with it: every committed record written
\* under a key is of the append whose result that key replays.
AppliedOnce ==
    /\ \A x \in Records : evidence[x] # NoResult =>
          LET r == evidence[x].request IN
          /\ \A y \in Written(r) : evidence[y] = evidence[x]
          /\ KeyOf[r] # NoKey => replay[KeyOf[r]] = [request |-> r, result |-> evidence[x]]
    /\ \A k \in Keys : replay[k] # NoRow =>
          \A x \in Written(replay[k].request) : evidence[x] = replay[k].result

\* "Identical replay returns the committed original result": an answer a caller
\* holds for committed is of its own request and is what the tables say, however
\* often the request was retried.
KnownAnswersHold ==
    \A a \in known : \A x \in Written(a.request) : evidence[x] = a.result

\* Every append ends, though the caller whose replay key or record it waits for
\* leaves its transaction open for ever, or waits in turn for a record of this one.
AppendsEnd == \A s \in Sessions : InAppend(s) ~> ~InAppend(s)
=============================================================================
