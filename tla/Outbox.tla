------------------------------- MODULE Outbox -------------------------------
(***************************************************************************)
(* PostgreSQLOutbox (projection/outbox.py): the durable outbox of one      *)
(* projection, shared by several workers that each run one port call at a  *)
(* time.  A call is one READ COMMITTED transaction on a pooled connection, *)
(* and every SQL statement of it is one step here: a statement reads what  *)
(* is committed when it starts, a transaction keeps its writes to itself   *)
(* until COMMIT, and FOR UPDATE row locks last until the transaction ends. *)
(*                                                                         *)
(* Time is the database clock (now=None).  A lease is the number of ticks  *)
(* it has left, so expires_at <= clock_timestamp() is lease = 0.           *)
(***************************************************************************)
EXTENDS Integers, FiniteSets

CONSTANTS
    Workers,      \* concurrent callers of the port
    Owners,       \* owner strings
    OwnerOf,      \* the owner string each worker passes to every call
    Events,       \* event ids, naturals: the code compares eventId as text
    Identities,   \* source identities; one checkpoint partition for each
    Opaque,       \* source versions that are not JSON numbers (null included)
    Intent,       \* the immutable intent rows: identity, version, occurredAt
    InOrder,      \* the source commits the versions of an identity in order
    Limit,        \* limit of atomic_claim
    Fitting,      \* sets of intents whose JSON fits max_result_bytes
    LeaseTicks,   \* lease_duration
    Threshold,    \* poison_threshold
    MaxAttempts,  \* bound: claims of one intent
    MaxFaults,    \* bound: failed calls, crashes and lost answers
    NoOwner, NoEvent, NoWrite

Versions == Nat \cup Opaque

ASSUME ConfigAssumption ==
    /\ OwnerOf \in [Workers -> Owners]
    /\ NoOwner \notin Owners
    /\ Events \subseteq Nat
    /\ IsFiniteSet(Events)
    /\ NoEvent \notin Events
    /\ \A v \in Opaque : v \notin Nat
    /\ DOMAIN Intent = Events
    /\ \A e \in Events : /\ Intent[e].identity \in Identities
                         /\ Intent[e].version \in Versions
                         /\ Intent[e].at \in Nat
    /\ InOrder \in BOOLEAN
    /\ Limit \in Nat \ {0}
    /\ Fitting \subseteq SUBSET Events
    /\ LeaseTicks \in Nat \ {0}
    /\ Threshold \in Nat \ {0}
    /\ MaxAttempts \in Nat
    /\ MaxFaults \in Nat

States == {"PENDING", "LEASED", "RETRYABLE", "QUARANTINED", "COMPLETED"}

\* A row of __meridian_outbox_state, which its CHECK constraints accept; an intent
\* without a row reads as PENDING.
StateRow ==
    {r \in [state : States, attempt : Nat,
            owner : Owners \cup {NoOwner}, lease : 0 .. LeaseTicks] :
        /\ r.state = "PENDING" <=> r.attempt = 0
        /\ r.state = "LEASED" <=> r.owner # NoOwner
        /\ r.state # "LEASED" => r.lease = 0}

ASSUME NoWriteAssumption == NoWrite \notin StateRow

Absent == [state |-> "PENDING", attempt |-> 0, owner |-> NoOwner, lease |-> 0]

Checkpoints == [revision : Nat, event : Events \cup {NoEvent}]

Phases == {"idle", "claimLock", "claimRow", "complete", "readCheckpoint",
           "writeCheckpoint", "finish", "release", "commit"}

\* The transaction of a call: the rows of its snapshot still to lock, the
\* locked rows still to upsert, the intent row locks, the uncommitted state
\* rows, the event of complete or release, the checkpoint revision it read and
\* the one it has written (0: none).
Transactions ==
    [phase : Phases, queue : SUBSET Events, batch : SUBSET Events,
     locks : SUBSET Events, writes : [Events -> StateRow \cup {NoWrite}],
     target : Events \cup {NoEvent}, previous : Nat, advance : Nat]

Idle == [phase |-> "idle", queue |-> {}, batch |-> {}, locks |-> {},
         writes |-> [e \in Events |-> NoWrite],
         target |-> NoEvent, previous |-> 0, advance |-> 0]

VARIABLES
    published,  \* intents committed by source transactions
    row,        \* committed __meridian_outbox_state rows
    ckpt,       \* committed __meridian_outbox_checkpoint rows
    tx,         \* the call each worker is in
    held,       \* claim generation each worker was given, 0 for none
    faults      \* faults so far

vars == <<published, row, ckpt, tx, held, faults>>

TypeOK ==
    /\ published \subseteq Events
    /\ row \in [Events -> StateRow]
    /\ ckpt \in [Identities -> Checkpoints]
    /\ tx \in [Workers -> Transactions]
    /\ held \in [Workers -> [Events -> Nat]]
    /\ faults \in 0 .. MaxFaults

Init ==
    /\ published = {}
    /\ row = [e \in Events |-> Absent]
    /\ ckpt = [i \in Identities |-> [revision |-> 0, event |-> NoEvent]]
    /\ tx = [w \in Workers |-> Idle]
    /\ held = [w \in Workers |-> [e \in Events |-> 0]]
    /\ faults = 0

-----------------------------------------------------------------------------
(* Order of the intents of one identity, and what a statement can see.     *)

IdentityOf(e) == Intent[e].identity
Rank(e) == IF Intent[e].version \in Opaque THEN 1 ELSE 0
Number(e) == IF Intent[e].version \in Opaque THEN 0 ELSE Intent[e].version

\* ORDER BY occurredAt, eventId
Earlier(p, e) ==
    \/ Intent[p].at < Intent[e].at
    \/ Intent[p].at = Intent[e].at /\ p < e

\* Numeric versions come first, by number; the rest by occurrence and event id.
Precedes(p, e) ==
    \/ Rank(p) < Rank(e)
    \/ Rank(p) = Rank(e) /\ Number(p) < Number(e)
    \/ Rank(p) = Rank(e) /\ Number(p) = Number(e) /\ Earlier(p, e)

Prior(p, e) == IdentityOf(p) = IdentityOf(e) /\ Precedes(p, e)

IsFirst(e, S) == e \in S /\ \A f \in S \ {e} : Earlier(e, f)

\* Mutant: expired leases are not offered again.
AvailableUnleased(e) ==
    /\ row[e].state \in {"PENDING", "RETRYABLE"}
    /\ row[e].attempt < MaxAttempts

\* The state test of the SELECT and of the ON CONFLICT ... WHERE (the bound
\* MaxAttempts is the model's).
Available(e) ==
    /\ \/ row[e].state \in {"PENDING", "RETRYABLE"}
       \/ row[e].state = "LEASED" /\ row[e].lease = 0
    /\ row[e].attempt < MaxAttempts

\* Mutant: a quarantined version is skipped.
EligiblePastQuarantine ==
    {e \in published :
        /\ Available(e)
        /\ \A p \in published : Prior(p, e) => row[p].state \in {"COMPLETED", "QUARANTINED"}}

\* Mutant: versions are claimed in whatever order they are available.
EligibleAnyOrder == {e \in published : Available(e)}

Eligible ==
    {e \in published :
        /\ Available(e)
        /\ \A p \in published : Prior(p, e) => row[p].state = "COMPLETED"}

\* Mutant: no FOR UPDATE.
NeverLocked(e) == e \in published

Unlocked(e) == \A w \in Workers : e \notin tx[w].locks

\* An uncommitted checkpoint upsert locks its row for every other transaction.
CheckpointUnlocked(i) ==
    \A w \in Workers : tx[w].advance # 0 => IdentityOf(tx[w].target) # i

\* LEASED, by this owner, not expired: _leased and the WHERE of both UPDATEs.
OwnsLease(w, e) ==
    /\ row[e].state = "LEASED"
    /\ row[e].owner = OwnerOf[w]
    /\ row[e].lease > 0

\* A raised error leaves the transaction block: everything it did is undone.
Rollback(w) == /\ tx' = [tx EXCEPT ![w] = Idle]
               /\ UNCHANGED <<published, row, ckpt>>

\* A step inside the transaction: only the caller's own view changes.
Continue(w, t) == /\ tx' = [tx EXCEPT ![w] = t]
                  /\ UNCHANGED <<published, row, ckpt, held, faults>>

-----------------------------------------------------------------------------
(* atomic_claim                                                            *)

\* The SELECT takes its snapshot.  A claim that finds nothing changes nothing.
ClaimSnapshot(w) ==
    /\ tx[w].phase = "idle"
    /\ Eligible # {}
    /\ Continue(w, [Idle EXCEPT !.phase = "claimLock", !.queue = Eligible])

\* FOR UPDATE OF i SKIP LOCKED LIMIT: the rows of the snapshot in order, each
\* locked unless another transaction has it at that moment.
ClaimLock(w) ==
    /\ tx[w].phase = "claimLock"
    /\ \E e \in tx[w].queue :
          LET t == tx[w]
              queue == t.queue \ {e}
              batch == IF Unlocked(e) THEN t.batch \cup {e} ELSE t.batch
              full == queue = {} \/ Cardinality(batch) = Limit
              phase == IF ~full THEN "claimLock"
                       ELSE IF batch = {} THEN "commit" ELSE "claimRow"
          IN  /\ IsFirst(e, t.queue)
              /\ Continue(w, [t EXCEPT !.phase = phase,
                                       !.queue = IF full THEN {} ELSE queue,
                                       !.batch = batch,
                                       !.locks = batch])

\* Mutant: the conflict branch has no WHERE.
UpsertAlways(w, e) ==
    [state |-> "LEASED", attempt |-> row[e].attempt + 1,
     owner |-> OwnerOf[w], lease |-> LeaseTicks]

\* The upsert of the next locked row, which sees the state committed by now.
Upsert(w, e) ==
    IF Available(e)
    THEN [state |-> "LEASED", attempt |-> row[e].attempt + 1,
          owner |-> OwnerOf[w], lease |-> LeaseTicks]
    ELSE NoWrite

\* The locked rows converted so far, e included.
RowsRead(w, e) == tx[w].locks \ (tx[w].batch \ {e})

ClaimRow(w) ==
    /\ tx[w].phase = "claimRow"
    /\ \E e \in tx[w].batch :
          LET batch == tx[w].batch \ {e} IN
          /\ IsFirst(e, tx[w].batch)
          /\ RowsRead(w, e) \in Fitting
          /\ Continue(w, [tx[w] EXCEPT !.phase = IF batch = {} THEN "commit" ELSE "claimRow",
                                       !.batch = batch,
                                       !.writes[e] = Upsert(w, e)])

\* OPERATION_RESULT_LIMIT: the rows read so far exceed the byte limit.
ClaimTooLarge(w) ==
    /\ tx[w].phase = "claimRow"
    /\ \E e \in tx[w].batch :
          IsFirst(e, tx[w].batch) /\ RowsRead(w, e) \notin Fitting
    /\ Rollback(w)
    /\ UNCHANGED <<held, faults>>

-----------------------------------------------------------------------------
(* complete and release                                                    *)

\* _load: SELECT ... FOR UPDATE OF i returns once no other call has the row.
Load(w, e, phase) ==
    /\ tx[w].phase = "idle"
    /\ held[w][e] > 0
    /\ Unlocked(e)
    /\ Continue(w, [Idle EXCEPT !.phase = phase, !.target = e, !.locks = {e}])

\* _leased, then the comparison of the acknowledged source version.
CheckLease(w) ==
    LET t == tx[w] IN
    /\ t.phase = "complete"
    /\ OwnsLease(w, t.target)
    /\ \E acknowledged \in {Intent[e].version : e \in Events} :
          IF acknowledged = Intent[t.target].version
          THEN Continue(w, [t EXCEPT !.phase = "readCheckpoint"])
          ELSE Rollback(w) /\ UNCHANGED <<held, faults>>

ReadCheckpoint(w) ==
    LET t == tx[w] IN
    /\ t.phase = "readCheckpoint"
    /\ Continue(w, [t EXCEPT !.phase = "writeCheckpoint",
                             !.previous = ckpt[IdentityOf(t.target)].revision])

\* Mutant: the checkpoint is committed on its own, before the event.
WriteCheckpointFirst(w) ==
    LET t == tx[w]
        i == IdentityOf(t.target)
    IN  /\ t.phase = "writeCheckpoint"
        /\ CheckpointUnlocked(i)
        /\ ckpt[i].revision = t.previous
        /\ ckpt' = [ckpt EXCEPT ![i] = [revision |-> t.previous + 1, event |-> t.target]]
        /\ tx' = [tx EXCEPT ![w].phase = "finish"]
        /\ UNCHANGED <<published, row, held, faults>>

\* INSERT ... ON CONFLICT DO UPDATE ... WHERE c.revision = previous: waits for
\* an uncommitted writer of the row, then compares with what it committed.
WriteCheckpoint(w) ==
    LET t == tx[w] IN
    /\ t.phase = "writeCheckpoint"
    /\ CheckpointUnlocked(IdentityOf(t.target))
    /\ IF ckpt[IdentityOf(t.target)].revision = t.previous
       THEN Continue(w, [t EXCEPT !.phase = "finish", !.advance = t.previous + 1])
       ELSE Rollback(w) /\ UNCHANGED <<held, faults>>

\* Mutant: the UPDATE trusts the lease that _leased saw.
EndLeaseUnchecked(w, state) ==
    LET t == tx[w]
        ended == [row[t.target] EXCEPT !.state = state, !.owner = NoOwner, !.lease = 0]
    IN  Continue(w, [t EXCEPT !.phase = "commit", !.writes[t.target] = ended])

\* Mutant: the ended lease keeps its owner, which the table's CHECK refuses.
EndLeaseOwned(w, state) ==
    LET t == tx[w]
        ended == [row[t.target] EXCEPT !.state = state, !.lease = 0]
    IN  /\ OwnsLease(w, t.target)
        /\ Continue(w, [t EXCEPT !.phase = "commit", !.writes[t.target] = ended])

\* UPDATE ... SET state of the lease that is still owned at this moment.
EndLease(w, state) ==
    LET t == tx[w]
        ended == [row[t.target] EXCEPT !.state = state, !.owner = NoOwner, !.lease = 0]
    IN  /\ OwnsLease(w, t.target)
        /\ Continue(w, [t EXCEPT !.phase = "commit", !.writes[t.target] = ended])

MarkCompleted(w) ==
    /\ tx[w].phase = "finish"
    /\ EndLease(w, "COMPLETED")

Release(w, retryable) ==
    /\ tx[w].phase = "release"
    /\ EndLease(w, IF retryable /\ row[tx[w].target].attempt < Threshold
                   THEN "RETRYABLE" ELSE "QUARANTINED")

\* LeaseLostError, from _leased or from an UPDATE that matched no row; the
\* caller gives the event up.
LeaseLost(w) ==
    LET t == tx[w] IN
    /\ t.phase \in {"complete", "finish", "release"}
    /\ ~OwnsLease(w, t.target)
    /\ Rollback(w)
    /\ held' = [held EXCEPT ![w][t.target] = 0]
    /\ UNCHANGED faults

-----------------------------------------------------------------------------
(* COMMIT, faults, time and the source                                     *)

Written(w) == {e \in Events : tx[w].writes[e] # NoWrite}

\* What the caller knows once the call has returned: its new claims, and that
\* an event it completed or released is no longer its own.
Answer(w) ==
    [e \in Events |->
        IF e \notin Written(w) THEN held[w][e]
        ELSE IF tx[w].writes[e].state = "LEASED" THEN tx[w].writes[e].attempt ELSE 0]

\* The whole transaction takes effect; the answer may be lost on the way.
Commit(w) ==
    LET t == tx[w]
        i == IdentityOf(t.target)
    IN  /\ t.phase = "commit"
        /\ row' = [e \in Events |-> IF e \in Written(w) THEN t.writes[e] ELSE row[e]]
        /\ ckpt' = IF t.advance = 0 THEN ckpt
                   ELSE [ckpt EXCEPT ![i] = [revision |-> t.advance, event |-> t.target]]
        /\ tx' = [tx EXCEPT ![w] = Idle]
        /\ \/ held' = [held EXCEPT ![w] = Answer(w)] /\ UNCHANGED faults
           \/ faults < MaxFaults /\ faults' = faults + 1 /\ UNCHANGED held
        /\ UNCHANGED published

\* A driver error or a statement timeout: the caller keeps what it had claimed.
Fail(w) ==
    /\ faults < MaxFaults
    /\ tx[w].phase # "idle"
    /\ Rollback(w)
    /\ faults' = faults + 1
    /\ UNCHANGED held

\* The worker's process dies; its successor knows nothing of its claims.
Crash(w) ==
    /\ faults < MaxFaults
    /\ tx[w].phase # "idle" \/ \E e \in Events : held[w][e] > 0
    /\ Rollback(w)
    /\ held' = [held EXCEPT ![w] = [e \in Events |-> 0]]
    /\ faults' = faults + 1

Aged(r) == [r EXCEPT !.lease = IF @ > 0 THEN @ - 1 ELSE 0]

\* Time passes, for committed and for uncommitted leases alike.
Tick ==
    /\ row' = [e \in Events |-> Aged(row[e])]
    /\ tx' = [w \in Workers |->
                [tx[w] EXCEPT !.writes = [e \in Events |->
                    IF @[e] = NoWrite THEN NoWrite ELSE Aged(@[e])]]]
    /\ UNCHANGED <<published, ckpt, held, faults>>

\* A source transaction commits its mutation together with the intent.
Publish(e) ==
    /\ e \notin published
    /\ InOrder => \A f \in published : ~Prior(e, f)
    /\ published' = published \cup {e}
    /\ UNCHANGED <<row, ckpt, tx, held, faults>>

-----------------------------------------------------------------------------

\* The statements of a call once it has begun.
Statement(w) ==
    \/ ClaimLock(w) \/ ClaimRow(w) \/ ClaimTooLarge(w)
    \/ CheckLease(w) \/ ReadCheckpoint(w) \/ WriteCheckpoint(w) \/ MarkCompleted(w)
    \/ \E retryable \in BOOLEAN : Release(w, retryable)
    \/ LeaseLost(w) \/ Commit(w)

Next ==
    \/ \E w \in Workers :
          \/ ClaimSnapshot(w)
          \/ \E e \in Events, phase \in {"complete", "release"} : Load(w, e, phase)
          \/ Statement(w) \/ Fail(w) \/ Crash(w)
    \/ Tick
    \/ \E e \in Events : Publish(e)

Spec == Init /\ [][Next]_vars

\* Workers keep polling and no statement runs for ever (each call sets a
\* statement_timeout); time passes.  Nothing obliges a worker to complete or
\* release what it has claimed, or the source to publish.
Fairness ==
    /\ \A w \in Workers : WF_vars(Statement(w)) /\ WF_vars(ClaimSnapshot(w))
    /\ WF_vars(Tick)

FairSpec == Spec /\ Fairness

-----------------------------------------------------------------------------
(* Safety                                                                  *)

Completed(i) == {e \in Events : IdentityOf(e) = i /\ row[e].state = "COMPLETED"}

\* complete advances the checkpoint and marks the event in one transaction:
\* whatever rolls back, conflicts or crashes, a partition's revision is the
\* number of its completed events and its event is one of them.
CheckpointMatchesCompletions ==
    \A i \in Identities :
        /\ ckpt[i].revision = Cardinality(Completed(i))
        /\ Completed(i) # {} => ckpt[i].event \in Completed(i)

\* "Only the earliest incomplete version for each source identity is eligible",
\* and quarantine is never skipped: once an intent has left PENDING, every
\* earlier one of its identity is COMPLETED, however stale the claim's snapshot
\* was.  (For a source that commits its versions in order.)
PredecessorsCompleted ==
    \A e \in Events : row[e].state # "PENDING" =>
        \A p \in published : Prior(p, e) => row[p].state = "COMPLETED"

\* A lease is honoured.  While it is live no other claim gets the intent: the
\* SELECT may be stale, the upsert is not.  And only the latest claimant ends it:
\* when worker w's commit takes e out of LEASED, no other worker was given a
\* claim of e of the same or a later generation.  (For workers that do not share
\* an owner string.)
LeasesAreHonoured ==
    [][\A e \in Events : row[e].state = "LEASED" =>
          /\ row[e].lease > 0 =>
                row'[e].attempt = row[e].attempt /\ row'[e].owner \in {row[e].owner, NoOwner}
          /\ row'[e].state # "LEASED" =>
                \E w \in Workers :
                    /\ tx[w].target = e
                    /\ \A v \in Workers \ {w} : held[v][e] < row[e].attempt]_vars

\* The recorded progress of a partition never goes back to an earlier version.
\* (For a source that commits its versions in order.)
CheckpointMovesForward ==
    [][\A i \in Identities : ckpt'[i] # ckpt[i] /\ ckpt[i].event # NoEvent =>
          Prior(ckpt[i].event, ckpt'[i].event)]_vars

-----------------------------------------------------------------------------
(* What holds inside the transactions                                      *)

\* A call writes only rows it has locked, only COMPLETED together with the
\* checkpoint, and the checkpoint it has written is the next one.
WellFormed(t) ==
    /\ t.phase \in {"claimLock", "claimRow"} => t.batch \subseteq t.locks
    /\ t.phase = "claimLock" => \A e \in Events : t.writes[e] = NoWrite
    /\ t.phase \in {"complete", "readCheckpoint", "writeCheckpoint", "finish", "release"} =>
          t.target \in Events /\ t.target \in t.locks
    /\ t.phase = "finish" => t.advance # 0
    /\ t.advance # 0 =>
          /\ t.phase \in {"finish", "commit"}
          /\ t.target \in Events
          /\ t.advance = ckpt[IdentityOf(t.target)].revision + 1
          /\ t.phase = "commit" => /\ t.writes[t.target] # NoWrite
                                   /\ t.writes[t.target].state = "COMPLETED"
    /\ \A e \in Events : t.writes[e] # NoWrite =>
          /\ e \in t.locks
          /\ row[e].state # "COMPLETED"
          /\ t.writes[e].state = "COMPLETED" => e = t.target /\ t.advance # 0

\* Two calls never have the same row locked or the same checkpoint advanced.
Compatible(t, u) ==
    /\ t.locks \cap u.locks = {}
    /\ t.advance # 0 /\ u.advance # 0 => IdentityOf(t.target) # IdentityOf(u.target)

\* Row locks and the checkpoint CAS serialise the calls: with TypeOK and
\* CheckpointMatchesCompletions this is inductive.
CallsSerialised ==
    \A w \in Workers :
        /\ WellFormed(tx[w])
        /\ \A v \in Workers \ {w} : Compatible(tx[v], tx[w])

IInv == TypeOK /\ CallsSerialised /\ CheckpointMatchesCompletions

-----------------------------------------------------------------------------
(* Refinement                                                              *)

Column(f) == [e \in Events |-> row[e][f]]

Lifecycle == INSTANCE OutboxLifecycle WITH
    state <- Column("state"), attempt <- Column("attempt"), owner <- Column("owner"),
    lapsed <- {e \in Events : row[e].state = "LEASED" /\ row[e].lease = 0}

\* The calls of concurrent workers, statement by statement and with stale
\* snapshots, are the indivisible calls of OutboxLifecycle in commit order.
ImplementsLifecycle == Lifecycle!Spec

-----------------------------------------------------------------------------
(* Liveness                                                                *)

Exhausted(e) == row[e].attempt = MaxAttempts
Settled(e) == row[e].state \in {"COMPLETED", "QUARANTINED"} \/ Exhausted(e)

\* No intent is stranded: whatever its claimants do or fail to do, it is offered
\* again until it is completed or quarantined (or the model's bound on claims is
\* reached), unless an earlier version of its identity is in the way.
EveryIntentIsServed ==
    \A e \in Events :
        e \in published ~>
            \/ Settled(e)
            \/ \E p \in published : Prior(p, e) /\ Settled(p) /\ row[p].state # "COMPLETED"
=============================================================================
