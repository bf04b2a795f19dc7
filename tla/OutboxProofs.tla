---------------------------- MODULE OutboxProofs ----------------------------
(***************************************************************************)
(* Proofs about Outbox, for every set of workers, intents and bounds.      *)
(* IInv is inductive: a statement changes only the caller's transaction,   *)
(* so it is enough that this stays well formed and compatible with the     *)
(* others (StepInv); COMMIT and the clock are the two exceptions.  LInv    *)
(* adds what the calls have in hand of order and leases; from it follow    *)
(* the properties about these and the refinement of OutboxLifecycle.       *)
(***************************************************************************)
EXTENDS Outbox, FiniteSetTheorems, TLAPS

-----------------------------------------------------------------------------
(* Types of what a call is made of                                         *)

\* The idle transaction and the absent row are well typed, and an idle
\* transaction stands in no other's way.
LEMMA IdleFacts ==
    /\ Idle \in Transactions
    /\ Absent \in StateRow
    /\ WellFormed(Idle)
    /\ \A u : Compatible(u, Idle) /\ Compatible(Idle, u)
  <1>1. Absent \in StateRow
    BY ConfigAssumption DEF Absent, StateRow, States
  <1>2. Idle \in Transactions
    BY DEF Idle, Transactions, Phases
  <1>3. WellFormed(Idle)
    BY DEF Idle, WellFormed
  <1>4. \A u : Compatible(u, Idle) /\ Compatible(Idle, u)
    BY DEF Idle, Compatible
  <1> QED BY <1>1, <1>2, <1>3, <1>4

\* The rows a claim and the end of a lease write, and a row as it ages.
LEMMA RowType ==
    ASSUME NEW r \in StateRow
    PROVE  /\ r.state = "LEASED" => \A s \in States \ {"PENDING", "LEASED"} :
                 [r EXCEPT !.state = s, !.owner = NoOwner, !.lease = 0] \in StateRow
           /\ Aged(r) \in StateRow
           /\ Aged(r).state = r.state
           /\ Aged(r) # NoWrite
  <1>1. 0 \in 0 .. LeaseTicks
    BY ConfigAssumption
  <1>2. ASSUME r.state = "LEASED", NEW s \in States \ {"PENDING", "LEASED"}
        PROVE  [r EXCEPT !.state = s, !.owner = NoOwner, !.lease = 0] \in StateRow
    BY <1>1, <1>2 DEF StateRow
  <1>3. Aged(r) \in StateRow /\ Aged(r).state = r.state
    BY ConfigAssumption DEF StateRow, Aged
  <1>4. Aged(r) # NoWrite
    BY <1>3, NoWriteAssumption
  <1> QED BY <1>2, <1>3, <1>4

\* The upsert writes a LEASED row, over one that is not COMPLETED, or nothing.
LEMMA UpsertType ==
    ASSUME TypeOK, NEW w \in Workers, NEW e \in Events
    PROVE  /\ Upsert(w, e) \in StateRow \cup {NoWrite}
           /\ Upsert(w, e) # NoWrite =>
                 Upsert(w, e).state = "LEASED" /\ row[e].state # "COMPLETED"
  <1>1. row[e] \in StateRow
    BY DEF TypeOK
  <1>2. CASE Available(e)
    <2>1. Upsert(w, e) \in StateRow /\ Upsert(w, e).state = "LEASED"
      BY <1>1, <1>2, ConfigAssumption DEF Upsert, StateRow, States
    <2> QED BY <1>2, <2>1 DEF Available
  <1>3. CASE ~Available(e)
    BY <1>3 DEF Upsert
  <1> QED BY <1>2, <1>3

-----------------------------------------------------------------------------
(* A statement inside a transaction                                        *)

\* A statement preserves the invariant if the caller's transaction stays well
\* formed and in nobody's way.
LEMMA StepInv ==
    ASSUME IInv, NEW w \in Workers, NEW t \in Transactions,
           tx' = [tx EXCEPT ![w] = t], UNCHANGED <<published, row, ckpt>>,
           held' \in [Workers -> [Events -> Nat]], faults' \in 0 .. MaxFaults,
           WellFormed(t),
           \A v \in Workers \ {w} : Compatible(tx[v], t)
    PROVE  IInv'
  <1> USE DEF IInv
  <1>1. TypeOK'
    BY DEF TypeOK
  <1>2. row' = row /\ ckpt' = ckpt
    OBVIOUS
  <1>3. \A v \in Workers : tx'[v] = IF v = w THEN t ELSE tx[v]
    BY DEF TypeOK
  <1>4. ASSUME NEW u \in Workers
        PROVE  WellFormed(tx[u])'
    <2> DEFINE T == IF u = w THEN t ELSE tx[u]
    <2>1. tx'[u] = T /\ WellFormed(T)
      BY <1>3 DEF CallsSerialised
    <2> HIDE DEF T
    <2> QED BY <1>2, <2>1 DEF WellFormed
  <1>5. ASSUME NEW u \in Workers, NEW v \in Workers \ {u}
        PROVE  Compatible(tx[v], tx[u])'
    BY <1>3 DEF CallsSerialised, Compatible
  <1>6. CallsSerialised'
    BY <1>4, <1>5 DEF CallsSerialised
  <1>7. CheckpointMatchesCompletions'
    BY <1>2 DEF CheckpointMatchesCompletions, Completed
  <1> QED BY <1>1, <1>6, <1>7

\* The same for the two ways a statement ends: it continues or rolls back.
LEMMA ContinueInv ==
    ASSUME IInv, NEW w \in Workers, NEW t \in Transactions, Continue(w, t),
           WellFormed(t),
           \A v \in Workers \ {w} : Compatible(tx[v], t)
    PROVE  IInv'
  <1>1. held' = held /\ faults' = faults /\ tx' = [tx EXCEPT ![w] = t]
        /\ UNCHANGED <<published, row, ckpt>>
    BY DEF Continue
  <1> QED BY <1>1, StepInv DEF IInv, TypeOK

\* An idle transaction is well formed and in nobody's way, so giving up is safe.
LEMMA RollbackInv ==
    ASSUME IInv, NEW w \in Workers, Rollback(w),
           held' \in [Workers -> [Events -> Nat]], faults' \in 0 .. MaxFaults
    PROVE  IInv'
  BY IdleFacts, StepInv DEF Rollback

-----------------------------------------------------------------------------
(* atomic_claim                                                            *)

\* The snapshot locks and writes nothing.
LEMMA ClaimSnapshotInv ==
    ASSUME IInv, NEW w \in Workers, ClaimSnapshot(w)
    PROVE  IInv'
  <1> DEFINE t == [Idle EXCEPT !.phase = "claimLock", !.queue = Eligible]
  <1>1. Eligible \in SUBSET Events
    BY DEF IInv, TypeOK, Eligible
  <1>2. t \in Transactions
    BY <1>1, IdleFacts DEF Transactions, Phases
  <1>3. WellFormed(t)
    BY DEF Idle, WellFormed
  <1>4. \A v \in Workers \ {w} : Compatible(tx[v], t)
    BY DEF Idle, Compatible
  <1>5. Continue(w, t)
    BY DEF ClaimSnapshot
  <1> QED BY <1>2, <1>3, <1>4, <1>5, ContinueInv

\* SKIP LOCKED adds a row only when no other call has it locked.
LEMMA ClaimLockInv ==
    ASSUME IInv, NEW w \in Workers, ClaimLock(w)
    PROVE  IInv'
  <1>0. tx[w] \in Transactions /\ tx[w].phase = "claimLock" /\ WellFormed(tx[w])
    BY DEF IInv, TypeOK, ClaimLock, CallsSerialised
  <1>1. PICK e \in tx[w].queue : ClaimLock(w)!2!(e)
    BY DEF ClaimLock
  <1> DEFINE queue == tx[w].queue \ {e}
             batch == IF Unlocked(e) THEN tx[w].batch \cup {e} ELSE tx[w].batch
             full == queue = {} \/ Cardinality(batch) = Limit
             phase == IF ~full THEN "claimLock"
                      ELSE IF batch = {} THEN "commit" ELSE "claimRow"
             rest == IF full THEN {} ELSE queue
             t == [tx[w] EXCEPT !.phase = phase, !.queue = rest,
                                !.batch = batch, !.locks = batch]
  <1>2. Continue(w, t)
    BY <1>1
  <1>3. phase \in {"claimLock", "claimRow", "commit"}
    OBVIOUS
  <1>4. rest \in SUBSET Events /\ batch \in SUBSET Events
    BY <1>0 DEF Transactions
  <1>5. \A v \in Workers \ {w} : batch \cap tx[v].locks = {}
    BY <1>0 DEF IInv, CallsSerialised, Compatible, WellFormed, Unlocked
  <1> HIDE DEF phase, rest, batch
  <1>6. t \in Transactions
    BY <1>0, <1>3, <1>4 DEF Transactions, Phases
  <1>7. WellFormed(t)
    BY <1>0, <1>3 DEF WellFormed, Transactions
  <1>8. \A v \in Workers \ {w} : Compatible(tx[v], t)
    BY <1>0, <1>5 DEF Compatible, WellFormed, Transactions
  <1> QED BY <1>2, <1>6, <1>7, <1>8, ContinueInv

\* The upsert writes a row this call has locked.
LEMMA ClaimRowInv ==
    ASSUME IInv, NEW w \in Workers, ClaimRow(w)
    PROVE  IInv'
  <1>0. tx[w] \in Transactions /\ tx[w].phase = "claimRow" /\ WellFormed(tx[w])
    BY DEF IInv, TypeOK, ClaimRow, CallsSerialised
  <1>1. PICK e \in tx[w].batch : ClaimRow(w)!2!(e)
    BY DEF ClaimRow
  <1> DEFINE batch == tx[w].batch \ {e}
             phase == IF batch = {} THEN "commit" ELSE "claimRow"
             t == [tx[w] EXCEPT !.phase = phase, !.batch = batch,
                                !.writes[e] = Upsert(w, e)]
  <1>2. Continue(w, t)
    BY <1>1
  <1>3. phase \in {"claimRow", "commit"} /\ batch \in SUBSET Events /\ e \in Events
    BY <1>0 DEF Transactions
  <1>4. Upsert(w, e) \in StateRow \cup {NoWrite}
        /\ (Upsert(w, e) # NoWrite =>
              Upsert(w, e).state = "LEASED" /\ row[e].state # "COMPLETED")
    BY <1>3, UpsertType DEF IInv
  <1>5. e \in tx[w].locks /\ batch \subseteq tx[w].locks
    BY <1>0 DEF WellFormed
  <1> HIDE DEF phase, batch
  <1>6. t \in Transactions
    BY <1>0, <1>3, <1>4 DEF Transactions, Phases
  <1>7. WellFormed(t)
    BY <1>0, <1>3, <1>4, <1>5 DEF WellFormed, Transactions
  <1>8. \A v \in Workers \ {w} : Compatible(tx[v], t)
    BY <1>0 DEF IInv, CallsSerialised, Compatible, Transactions
  <1> QED BY <1>2, <1>6, <1>7, <1>8, ContinueInv

\* A batch over the byte limit gives up the whole claim.
LEMMA ClaimTooLargeInv ==
    ASSUME IInv, NEW w \in Workers, ClaimTooLarge(w)
    PROVE  IInv'
  BY RollbackInv DEF ClaimTooLarge, IInv, TypeOK
-----------------------------------------------------------------------------
(* complete and release                                                    *)

\* The intent is locked by nobody else when the SELECT returns.
LEMMA LoadInv ==
    ASSUME IInv, NEW w \in Workers, NEW e \in Events,
           NEW phase \in {"complete", "release"}, Load(w, e, phase)
    PROVE  IInv'
  <1> DEFINE t == [Idle EXCEPT !.phase = phase, !.target = e, !.locks = {e}]
  <1>1. t \in Transactions
    BY IdleFacts DEF Transactions, Phases
  <1>2. WellFormed(t)
    BY DEF Idle, WellFormed
  <1>3. \A v \in Workers \ {w} : Compatible(tx[v], t)
    BY DEF Idle, Compatible, Load, Unlocked
  <1> QED BY <1>1, <1>2, <1>3, ContinueInv DEF Load

\* Reading only: the transaction moves on or is rolled back.
LEMMA CheckLeaseInv ==
    ASSUME IInv, NEW w \in Workers, CheckLease(w)
    PROVE  IInv'
  <1> DEFINE t == [tx[w] EXCEPT !.phase = "readCheckpoint"]
  <1>1. tx[w] \in Transactions /\ tx[w].phase = "complete" /\ WellFormed(tx[w])
    BY DEF IInv, TypeOK, CheckLease, CallsSerialised
  <1>2. CASE Continue(w, t)
    <2>1. t \in Transactions
      BY <1>1 DEF Transactions, Phases
    <2>2. WellFormed(t)
      BY <1>1 DEF WellFormed, Transactions
    <2>3. \A v \in Workers \ {w} : Compatible(tx[v], t)
      BY <1>1 DEF IInv, CallsSerialised, Compatible, Transactions
    <2> QED BY <1>2, <2>1, <2>2, <2>3, ContinueInv
  <1>3. CASE Rollback(w) /\ UNCHANGED <<held, faults>>
    BY <1>3, RollbackInv DEF IInv, TypeOK
  <1> QED BY <1>2, <1>3 DEF CheckLease

\* The revision read is a natural number; nothing is written yet.
LEMMA ReadCheckpointInv ==
    ASSUME IInv, NEW w \in Workers, ReadCheckpoint(w)
    PROVE  IInv'
  <1> DEFINE r == ckpt[IdentityOf(tx[w].target)].revision
             t == [tx[w] EXCEPT !.phase = "writeCheckpoint", !.previous = r]
  <1>1. tx[w] \in Transactions /\ tx[w].phase = "readCheckpoint" /\ WellFormed(tx[w])
    BY DEF IInv, TypeOK, ReadCheckpoint, CallsSerialised
  <1>2. r \in Nat
    BY <1>1, ConfigAssumption DEF IInv, TypeOK, WellFormed, IdentityOf, Checkpoints
  <1>3. Continue(w, t)
    BY DEF ReadCheckpoint
  <1> HIDE DEF r
  <1>4. t \in Transactions
    BY <1>1, <1>2 DEF Transactions, Phases
  <1>5. WellFormed(t)
    BY <1>1 DEF WellFormed, Transactions
  <1>6. \A v \in Workers \ {w} : Compatible(tx[v], t)
    BY <1>1 DEF IInv, CallsSerialised, Compatible, Transactions
  <1> QED BY <1>3, <1>4, <1>5, <1>6, ContinueInv

\* The upsert waits for other writers of the partition and compares revisions.
LEMMA WriteCheckpointInv ==
    ASSUME IInv, NEW w \in Workers, WriteCheckpoint(w)
    PROVE  IInv'
  <1> DEFINE i == IdentityOf(tx[w].target)
             n == tx[w].previous + 1
             t == [tx[w] EXCEPT !.phase = "finish", !.advance = n]
  <1>1. tx[w] \in Transactions /\ tx[w].phase = "writeCheckpoint" /\ WellFormed(tx[w])
    BY DEF IInv, TypeOK, WriteCheckpoint, CallsSerialised
  <1>2. CASE ckpt[i].revision = tx[w].previous /\ Continue(w, t)
    <2>0. n \in Nat /\ n # 0 /\ n = ckpt[i].revision + 1
      BY <1>1, <1>2 DEF Transactions
    <2> HIDE DEF n
    <2>1. t \in Transactions
      BY <1>1, <2>0 DEF Transactions, Phases
    <2>2. WellFormed(t)
      BY <1>1, <2>0 DEF WellFormed, Transactions
    <2>3. \A v \in Workers \ {w} : Compatible(tx[v], t)
      BY <1>1 DEF IInv, CallsSerialised, Compatible, Transactions,
                  WriteCheckpoint, CheckpointUnlocked
    <2> QED BY <1>2, <2>1, <2>2, <2>3, ContinueInv
  <1>3. CASE Rollback(w) /\ UNCHANGED <<held, faults>>
    BY <1>3, RollbackInv DEF IInv, TypeOK
  <1> QED BY <1>2, <1>3 DEF WriteCheckpoint

\* The UPDATE finds a LEASED row of this call's own event.
LEMMA EndLeaseInv ==
    ASSUME IInv, NEW w \in Workers, NEW s \in States \ {"PENDING", "LEASED"},
           \/ tx[w].phase = "finish" /\ s = "COMPLETED"
           \/ tx[w].phase = "release" /\ s # "COMPLETED",
           EndLease(w, s)
    PROVE  IInv'
  <1> DEFINE g == tx[w].target
             ended == [row[g] EXCEPT !.state = s, !.owner = NoOwner, !.lease = 0]
             t == [tx[w] EXCEPT !.phase = "commit", !.writes[g] = ended]
  <1>1. tx[w] \in Transactions /\ WellFormed(tx[w])
    BY DEF IInv, TypeOK, CallsSerialised
  <1>2. g \in Events /\ g \in tx[w].locks
    BY <1>1 DEF WellFormed
  <1>3. row[g] \in StateRow /\ row[g].state = "LEASED"
    BY <1>2 DEF IInv, TypeOK, EndLease, OwnsLease
  <1>4. ended \in StateRow /\ ended.state = s /\ ended # NoWrite
    <2>1. ended \in StateRow
      BY <1>3, RowType
    <2>2. ended.state = s
      BY <1>3 DEF StateRow
    <2> QED BY <2>1, <2>2, NoWriteAssumption
  <1>5. Continue(w, t)
    BY DEF EndLease
  <1> HIDE DEF ended
  <1>6. t \in Transactions
    BY <1>1, <1>2, <1>4 DEF Transactions, Phases
  <1>7. WellFormed(t)
    BY <1>1, <1>2, <1>3, <1>4 DEF WellFormed, Transactions
  <1>8. \A v \in Workers \ {w} : Compatible(tx[v], t)
    BY <1>1 DEF IInv, CallsSerialised, Compatible, Transactions
  <1> QED BY <1>5, <1>6, <1>7, <1>8, ContinueInv

\* A lost lease gives up the call, its checkpoint included.
LEMMA LeaseLostInv ==
    ASSUME IInv, NEW w \in Workers, LeaseLost(w)
    PROVE  IInv'
  BY RollbackInv DEF LeaseLost, IInv, TypeOK
-----------------------------------------------------------------------------
(* COMMIT, time and the source                                             *)

\* COMMIT changes only rows the call has locked, and the partition only it has
\* advanced: the other calls stay well formed, and exactly the event whose
\* completion advanced the checkpoint joins the completed ones.
LEMMA CommitInv ==
    ASSUME IInv, NEW w \in Workers, Commit(w)
    PROVE  IInv'
  <1> DEFINE t == tx[w]
             g == tx[w].target
             i == IdentityOf(g)
  <1>0. /\ t \in Transactions
        /\ t.phase = "commit"
        /\ WellFormed(t)
        /\ TypeOK
    BY DEF IInv, TypeOK, Commit, CallsSerialised
  <1>1. \A e \in Events : row'[e] = IF t.writes[e] # NoWrite THEN t.writes[e] ELSE row[e]
    BY DEF Commit, Written
  <1>2. ckpt' = IF t.advance = 0 THEN ckpt
                ELSE [ckpt EXCEPT ![i] = [revision |-> t.advance, event |-> g]]
    BY DEF Commit
  <1>3. \A u \in Workers : tx'[u] = IF u = w THEN Idle ELSE tx[u]
    BY <1>0 DEF Commit, TypeOK
  <1>4. t.advance # 0 => /\ g \in Events /\ i \in Identities
                         /\ t.advance = ckpt[i].revision + 1
                         /\ t.writes[g] # NoWrite
                         /\ t.writes[g].state = "COMPLETED"
    BY <1>0, ConfigAssumption DEF WellFormed, IdentityOf
  <1>5. TypeOK'
    <2>1. row' \in [Events -> StateRow]
      BY <1>0 DEF TypeOK, Commit, Written, Transactions
    <2>2. ckpt' \in [Identities -> Checkpoints]
      <3>1. CASE t.advance = 0
        BY <1>0, <1>2, <3>1 DEF TypeOK
      <3>2. CASE t.advance # 0
        <4>1. [revision |-> t.advance, event |-> g] \in Checkpoints
          BY <1>0, <1>4, <3>2 DEF Checkpoints, Transactions
        <4> QED BY <1>0, <1>2, <3>2, <4>1 DEF TypeOK
      <3> QED BY <3>1, <3>2
    <2>3. tx' \in [Workers -> Transactions]
      BY <1>0, IdleFacts DEF TypeOK, Commit
    <2>4. Answer(w) \in [Events -> Nat]
      <3>1. ASSUME NEW e \in Events, t.writes[e] # NoWrite
            PROVE  t.writes[e].attempt \in Nat
        <4>1. t.writes[e] \in StateRow
          BY <1>0, <3>1 DEF Transactions
        <4> QED BY <4>1 DEF StateRow
      <3> QED BY <1>0, <3>1 DEF Answer, Written, TypeOK
    <2>5. held' \in [Workers -> [Events -> Nat]] /\ faults' \in 0 .. MaxFaults
      BY <1>0, <2>4, ConfigAssumption DEF TypeOK, Commit
    <2>6. published' \subseteq Events
      BY <1>0 DEF TypeOK, Commit
    <2> QED BY <2>1, <2>2, <2>3, <2>5, <2>6 DEF TypeOK
  <1>6. ASSUME NEW u \in Workers
        PROVE  WellFormed(tx[u])'
    <2>1. CASE u = w
      BY <1>3, <2>1 DEF WellFormed, Idle
    <2>2. CASE u # w
      <3>1. tx'[u] = tx[u] /\ WellFormed(tx[u]) /\ Compatible(t, tx[u])
        BY <1>3, <2>2 DEF IInv, CallsSerialised
      <3>2. \A e \in Events : e \in tx[u].locks => row'[e] = row[e]
        BY <1>0, <1>1, <3>1 DEF Compatible, WellFormed
      <3>3. tx[u].advance # 0 =>
              ckpt'[IdentityOf(tx[u].target)] = ckpt[IdentityOf(tx[u].target)]
        BY <1>0, <1>2, <3>1 DEF Compatible, TypeOK
      <3> QED BY <3>1, <3>2, <3>3 DEF WellFormed
    <2> QED BY <2>1, <2>2
  <1>7. ASSUME NEW u \in Workers, NEW v \in Workers \ {u}
        PROVE  Compatible(tx[v], tx[u])'
    <2>1. CASE u = w \/ v = w
      BY <1>3, <2>1 DEF Compatible, Idle
    <2>2. CASE u # w /\ v # w
      BY <1>3, <2>2 DEF IInv, CallsSerialised, Compatible
    <2> QED BY <2>1, <2>2
  <1>8. ASSUME NEW j \in Identities
        PROVE  /\ ckpt'[j].revision = Cardinality(Completed(j)')
               /\ Completed(j)' # {} => ckpt'[j].event \in Completed(j)'
    <2>0. /\ ckpt[j].revision = Cardinality(Completed(j))
          /\ Completed(j) # {} => ckpt[j].event \in Completed(j)
          /\ IsFiniteSet(Completed(j))
      BY FS_Subset, ConfigAssumption DEF IInv, CheckpointMatchesCompletions, Completed
    <2>1. \A e \in Events : row'[e].state = "COMPLETED" <=>
             row[e].state = "COMPLETED" \/ (t.advance # 0 /\ e = g)
      BY <1>0, <1>1, <1>4 DEF WellFormed
    <2>2. CASE t.advance # 0 /\ j = i
      <3>1. Completed(j)' = Completed(j) \cup {g}
        BY <1>4, <2>1, <2>2 DEF Completed
      <3>2. g \notin Completed(j)
        BY <1>0, <1>4, <2>2 DEF Completed, WellFormed
      <3>3. Cardinality(Completed(j) \cup {g}) = Cardinality(Completed(j)) + 1
        BY <2>0, <3>2, FS_AddElement
      <3>4. ckpt'[j] = [revision |-> t.advance, event |-> g]
        BY <1>0, <1>2, <2>2 DEF TypeOK
      <3> QED BY <1>4, <2>0, <2>2, <3>1, <3>3, <3>4
    <2>3. CASE ~(t.advance # 0 /\ j = i)
      <3>1. Completed(j)' = Completed(j)
        BY <2>1, <2>3 DEF Completed
      <3>2. ckpt'[j] = ckpt[j]
        BY <1>0, <1>2, <2>3 DEF TypeOK
      <3> QED BY <2>0, <3>1, <3>2
    <2> QED BY <2>2, <2>3
  <1> QED BY <1>5, <1>6, <1>7, <1>8 DEF IInv, CallsSerialised, CheckpointMatchesCompletions

\* Only the remaining time of leases changes.
LEMMA TickInv ==
    ASSUME IInv, Tick
    PROVE  IInv'
  <1>1. TypeOK
    BY DEF IInv
  <1>2. /\ row' \in [Events -> StateRow]
        /\ \A e \in Events : row'[e].state = row[e].state
    BY <1>1, RowType DEF Tick, TypeOK
  <1>3. ASSUME NEW u \in Workers
        PROVE  /\ tx'[u] \in Transactions
               /\ tx'[u].phase = tx[u].phase /\ tx'[u].batch = tx[u].batch
               /\ tx'[u].locks = tx[u].locks /\ tx'[u].target = tx[u].target
               /\ tx'[u].advance = tx[u].advance
               /\ \A e \in Events :
                     /\ tx'[u].writes[e] = NoWrite <=> tx[u].writes[e] = NoWrite
                     /\ tx[u].writes[e] # NoWrite =>
                           tx'[u].writes[e].state = tx[u].writes[e].state
    <2> DEFINE new == [e \in Events |-> IF tx[u].writes[e] = NoWrite THEN NoWrite
                                        ELSE Aged(tx[u].writes[e])]
    <2>1. tx[u] \in Transactions
      BY <1>1 DEF TypeOK
    <2>2. ASSUME NEW e \in Events
          PROVE  /\ new[e] \in StateRow \cup {NoWrite}
                 /\ new[e] = NoWrite <=> tx[u].writes[e] = NoWrite
                 /\ tx[u].writes[e] # NoWrite => new[e].state = tx[u].writes[e].state
      <3>1. CASE tx[u].writes[e] = NoWrite
        BY <3>1
      <3>2. CASE tx[u].writes[e] # NoWrite
        <4>1. tx[u].writes[e] \in StateRow
          BY <2>1, <3>2 DEF Transactions
        <4> QED BY <3>2, <4>1, RowType
      <3> QED BY <3>1, <3>2
    <2>3. new \in [Events -> StateRow \cup {NoWrite}]
      BY <2>2
    <2>4. tx'[u] = [tx[u] EXCEPT !.writes = new]
      BY DEF Tick
    <2> HIDE DEF new
    <2>5. tx'[u] \in Transactions
      BY <2>1, <2>3, <2>4 DEF Transactions
    <2>6. tx'[u].writes = new
      BY <2>1, <2>4 DEF Transactions
    <2>7. /\ tx'[u].phase = tx[u].phase /\ tx'[u].batch = tx[u].batch
          /\ tx'[u].locks = tx[u].locks /\ tx'[u].target = tx[u].target
          /\ tx'[u].advance = tx[u].advance
      BY <2>1, <2>4 DEF Transactions
    <2> QED BY <2>2, <2>5, <2>6, <2>7
  <1>4. TypeOK'
    <2>1. tx' \in [Workers -> Transactions]
      BY <1>3 DEF Tick
    <2> QED BY <1>1, <1>2, <2>1 DEF TypeOK, Tick
  <1>5. ckpt' = ckpt
    BY DEF Tick
  <1>6. ASSUME NEW u \in Workers
        PROVE  WellFormed(tx[u])'
    <2>1. WellFormed(tx[u])
      BY DEF IInv, CallsSerialised
    <2> QED BY <1>2, <1>3, <1>5, <2>1 DEF WellFormed
  <1>7. ASSUME NEW u \in Workers, NEW v \in Workers \ {u}
        PROVE  Compatible(tx[v], tx[u])'
    BY <1>3 DEF IInv, CallsSerialised, Compatible
  <1>8. CheckpointMatchesCompletions'
    BY <1>2, <1>5 DEF IInv, CheckpointMatchesCompletions, Completed
  <1> QED BY <1>4, <1>6, <1>7, <1>8 DEF IInv, CallsSerialised

\* Faults undo the call; publishing touches no call.
LEMMA FaultInv ==
    ASSUME IInv, NEW w \in Workers, Fail(w) \/ Crash(w)
    PROVE  IInv'
  <1>1. /\ Rollback(w)
        /\ held' \in [Workers -> [Events -> Nat]]
        /\ faults' \in 0 .. MaxFaults
    BY ConfigAssumption DEF IInv, TypeOK, Fail, Crash
  <1> QED BY <1>1, RollbackInv

\* CallsSerialised is about the calls, the checkpoints and which rows are
\* COMPLETED: a step that leaves these alone preserves it.
LEMMA SameCalls ==
    ASSUME CallsSerialised, row' = row, ckpt' = ckpt, tx' = tx
    PROVE  CallsSerialised'
  <1>1. ASSUME NEW u \in Workers
        PROVE  WellFormed(tx[u])'
    <2>1. WellFormed(tx[u])
      BY DEF CallsSerialised
    <2> QED BY <2>1 DEF WellFormed
  <1>2. ASSUME NEW u \in Workers, NEW v \in Workers \ {u}
        PROVE  Compatible(tx[v], tx[u])'
    BY DEF CallsSerialised, Compatible
  <1> QED BY <1>1, <1>2 DEF CallsSerialised

\* A new intent has no row yet.
LEMMA PublishInv ==
    ASSUME IInv, NEW e \in Events, Publish(e)
    PROVE  IInv'
  <1>1. /\ row' = row /\ ckpt' = ckpt /\ tx' = tx /\ held' = held /\ faults' = faults
        /\ published' = published \cup {e}
    BY DEF Publish
  <1>2. TypeOK'
    BY <1>1 DEF IInv, TypeOK
  <1>3. CallsSerialised'
    BY <1>1, SameCalls DEF IInv
  <1>4. CheckpointMatchesCompletions'
    BY <1>1 DEF IInv, CheckpointMatchesCompletions, Completed
  <1> QED BY <1>2, <1>3, <1>4 DEF IInv

-----------------------------------------------------------------------------
(* The theorems about checkpoints                                          *)

\* No call is open and nothing is completed.
LEMMA InitInv == Init => IInv
  <1> SUFFICES ASSUME Init PROVE IInv
    OBVIOUS
  <1>1. TypeOK
    BY IdleFacts, ConfigAssumption DEF Init, TypeOK, Checkpoints
  <1>2. CallsSerialised
    BY IdleFacts DEF Init, CallsSerialised
  <1>3. CheckpointMatchesCompletions
    <2>1. \A i \in Identities : Completed(i) = {}
      BY DEF Init, Completed, Absent
    <2> QED BY <2>1, FS_EmptySet DEF Init, CheckpointMatchesCompletions
  <1> QED BY <1>1, <1>2, <1>3 DEF IInv

\* The inductive step, action by action.
LEMMA NextInv == IInv /\ [Next]_vars => IInv'
  <1> SUFFICES ASSUME IInv, [Next]_vars PROVE IInv'
    OBVIOUS
  <1>1. ASSUME NEW w \in Workers, Statement(w)
        PROVE  IInv'
    <2>1. ASSUME MarkCompleted(w) \/ \E retryable \in BOOLEAN : Release(w, retryable)
          PROVE  IInv'
      BY <2>1, EndLeaseInv DEF MarkCompleted, Release, States
    <2> QED BY <1>1, <2>1, ClaimLockInv, ClaimRowInv, ClaimTooLargeInv, CheckLeaseInv,
               ReadCheckpointInv, WriteCheckpointInv, LeaseLostInv, CommitInv
            DEF Statement
  <1>2. CASE UNCHANGED vars
    <2>1. row' = row /\ ckpt' = ckpt /\ tx' = tx
      BY <1>2 DEF vars
    <2>2. TypeOK'
      BY <1>2 DEF vars, IInv, TypeOK
    <2>3. CallsSerialised'
      BY <2>1, SameCalls DEF IInv
    <2>4. CheckpointMatchesCompletions'
      BY <2>1 DEF IInv, CheckpointMatchesCompletions, Completed
    <2> QED BY <2>2, <2>3, <2>4 DEF IInv
  <1> QED BY <1>1, <1>2, ClaimSnapshotInv, LoadInv, FaultInv, TickInv, PublishInv DEF Next

\* Every variable keeps its type, whatever the interleaving, the faults and the
\* number of workers and intents.
THEOREM TypeCorrect == Spec => []TypeOK
  <1>1. IInv => TypeOK
    BY DEF IInv
  <1> QED BY <1>1, InitInv, NextInv, PTL DEF Spec

\* Row locks and the checkpoint CAS serialise the calls of the port: no two
\* calls have a row or a partition in hand, and a pending completion's
\* checkpoint is the next revision of its partition.
THEOREM CallsAreSerialised == Spec => []CallsSerialised
  <1>1. IInv => CallsSerialised
    BY DEF IInv
  <1> QED BY <1>1, InitInv, NextInv, PTL DEF Spec

\* complete() is atomic: the revision of a partition's checkpoint is the number
\* of its completed intents, and the checkpoint names one of them.
THEOREM CheckpointsCountCompletions == Spec => []CheckpointMatchesCompletions
  <1>1. IInv => CheckpointMatchesCompletions
    BY DEF IInv
  <1> QED BY <1>1, InitInv, NextInv, PTL DEF Spec

-----------------------------------------------------------------------------
(* Order and leases: the inductive invariant                               *)

\* Published, and (in order) with all earlier versions completed.  Nothing takes
\* this away from an intent again.
Ready(e) ==
    /\ e \in published
    /\ InOrder => \A p \in published : Prior(p, e) => row[p].state = "COMPLETED"

\* What Available asks of a row, but for the bound.
Offered(r) == r.state \in {"PENDING", "RETRYABLE"} \/ (r.state = "LEASED" /\ r.lease = 0)

\* The uncommitted upsert x by worker w of the row r: the next claim of it.
IsClaim(w, x, r) ==
    /\ Offered(r)
    /\ x.state = "LEASED" /\ x.owner = OwnerOf[w] /\ x.attempt = r.attempt + 1

\* The uncommitted end x of a lease of worker w over the row r.
IsEnd(w, x, r) ==
    /\ r.state = "LEASED" /\ r.owner = OwnerOf[w]
    /\ x.owner = NoOwner /\ x.attempt = r.attempt
    /\ \/ x.state \in {"COMPLETED", "QUARANTINED"}
       \/ x.state = "RETRYABLE" /\ x.attempt < Threshold

\* What a call of worker w has in hand: a claim only intents that are ready and
\* rows that are still on offer; complete and release the lease they end.
InHand(w, t) ==
    /\ \A e \in t.queue \cup t.batch : Ready(e)
    /\ t.phase \in {"claimLock", "claimRow"} => t.target = NoEvent
    /\ t.phase \in {"complete", "readCheckpoint", "writeCheckpoint", "finish", "release"} =>
          \A e \in Events : t.writes[e] = NoWrite
    /\ \A e \in Events : t.writes[e] # NoWrite =>
          \/ t.target = NoEvent /\ Ready(e) /\ IsClaim(w, t.writes[e], row[e])
          \/ t.target = e /\ IsEnd(w, t.writes[e], row[e])

\* An intent leaves PENDING only when it is ready, and is leased by a claim.
LeftWhenReady ==
    \A e \in Events :
        /\ row[e].state # "PENDING" => Ready(e)
        /\ row[e].state = "LEASED" => row[e].attempt > 0

\* A worker knows of no later claim than the last one, and of that one only if it
\* is its own.
ClaimsKnown ==
    \A w \in Workers, e \in Events :
        /\ held[w][e] <= row[e].attempt
        /\ held[w][e] = row[e].attempt /\ row[e].state = "LEASED" => row[e].owner = OwnerOf[w]

\* The checkpoint never names an intent that is not completed.
LastIsCompleted ==
    \A i \in Identities : ckpt[i].event # NoEvent => ckpt[i].event \in Completed(i)

LInv ==
    /\ IInv
    /\ LeftWhenReady
    /\ \A w \in Workers : InHand(w, tx[w])
    /\ ClaimsKnown
    /\ LastIsCompleted

\* An idle transaction has nothing in hand.
LEMMA IdleInHand == \A w \in Workers : InHand(w, Idle)
  BY ConfigAssumption DEF InHand, Idle

\* A statement that touches no committed row preserves the invariant if the caller
\* has in hand what a call may have, and the worker forgets or keeps its claims.
LEMMA StepKeeps ==
    ASSUME LInv, IInv', NEW w \in Workers, NEW t, tx' = [tx EXCEPT ![w] = t],
           UNCHANGED <<published, row, ckpt>>, InHand(w, t),
           \A v \in Workers, e \in Events : held'[v][e] \in {0, held[v][e]}
    PROVE  LInv'
  <1>0. TypeOK /\ row' = row /\ published' = published /\ ckpt' = ckpt
    BY DEF LInv, IInv
  <1>1. LeftWhenReady'
    BY <1>0 DEF LInv, LeftWhenReady, Ready
  <1>2. ASSUME NEW u \in Workers
        PROVE  InHand(u, tx[u])'
    <2> DEFINE T == IF u = w THEN t ELSE tx[u]
    <2>1. tx'[u] = T /\ InHand(u, T)
      BY <1>0 DEF TypeOK, LInv
    <2> HIDE DEF T
    <2>2. \A e : Ready(e)' <=> Ready(e)
      BY <1>0 DEF Ready
    <2> QED BY <1>0, <2>1, <2>2 DEF InHand
  <1>3. ClaimsKnown'
    <2> SUFFICES ASSUME NEW v \in Workers, NEW e \in Events
                 PROVE  /\ held'[v][e] <= row[e].attempt
                        /\ held'[v][e] = row[e].attempt /\ row[e].state = "LEASED" =>
                              row[e].owner = OwnerOf[v]
      BY <1>0 DEF ClaimsKnown
    <2>1. row[e] \in StateRow
      BY <1>0 DEF TypeOK
    <2>2. row[e].attempt \in Nat
      BY <2>1 DEF StateRow
    <2> QED BY <2>2 DEF LInv, ClaimsKnown, LeftWhenReady
  <1>4. LastIsCompleted'
    BY <1>0 DEF LInv, LastIsCompleted, Completed
  <1> QED BY <1>1, <1>2, <1>3, <1>4 DEF LInv

\* The two ways a statement ends.
LEMMA ContinueKeeps ==
    ASSUME LInv, IInv', NEW w \in Workers, NEW t, Continue(w, t), InHand(w, t)
    PROVE  LInv'
  BY StepKeeps DEF Continue

LEMMA RollbackKeeps ==
    ASSUME LInv, IInv', NEW w \in Workers, Rollback(w),
           \A v \in Workers, e \in Events : held'[v][e] \in {0, held[v][e]}
    PROVE  LInv'
  BY StepKeeps, IdleInHand DEF Rollback

\* What holds of a row and of a call before a step.
LEMMA CallFacts ==
    ASSUME LInv, NEW w \in Workers
    PROVE  tx[w] \in Transactions /\ WellFormed(tx[w]) /\ InHand(w, tx[w])
  BY DEF LInv, IInv, TypeOK, CallsSerialised

\* The snapshot holds ready intents only.
LEMMA ClaimSnapshotKeeps ==
    ASSUME LInv, IInv', NEW w \in Workers, ClaimSnapshot(w)
    PROVE  LInv'
  <1> DEFINE t == [Idle EXCEPT !.phase = "claimLock", !.queue = Eligible]
  <1>1. \A e \in Eligible : Ready(e)
    BY DEF Eligible, Ready
  <1>2. InHand(w, t)
    BY <1>1 DEF InHand, Idle
  <1> QED BY <1>2, ContinueKeeps DEF ClaimSnapshot

\* What is locked comes from the snapshot.
LEMMA ClaimLockKeeps ==
    ASSUME LInv, IInv', NEW w \in Workers, ClaimLock(w)
    PROVE  LInv'
  <1>0. tx[w] \in Transactions /\ tx[w].phase = "claimLock" /\ InHand(w, tx[w])
    BY CallFacts DEF ClaimLock
  <1>1. PICK e \in tx[w].queue : ClaimLock(w)!2!(e)
    BY DEF ClaimLock
  <1> DEFINE queue == tx[w].queue \ {e}
             batch == IF Unlocked(e) THEN tx[w].batch \cup {e} ELSE tx[w].batch
             full == queue = {} \/ Cardinality(batch) = Limit
             phase == IF ~full THEN "claimLock"
                      ELSE IF batch = {} THEN "commit" ELSE "claimRow"
             rest == IF full THEN {} ELSE queue
             t == [tx[w] EXCEPT !.phase = phase, !.queue = rest,
                                !.batch = batch, !.locks = batch]
  <1>2. Continue(w, t)
    BY <1>1
  <1>3. phase \in {"claimLock", "claimRow", "commit"}
    OBVIOUS
  <1>4. rest \subseteq tx[w].queue /\ batch \subseteq tx[w].queue \cup tx[w].batch
    OBVIOUS
  <1> HIDE DEF phase, rest, batch
  <1>5. InHand(w, t)
    BY <1>0, <1>3, <1>4 DEF InHand, Transactions
  <1> QED BY <1>2, <1>5, ContinueKeeps

\* The upsert finds its row on offer and takes the next generation of it.
LEMMA ClaimRowKeeps ==
    ASSUME LInv, IInv', NEW w \in Workers, ClaimRow(w)
    PROVE  LInv'
  <1>0. tx[w] \in Transactions /\ tx[w].phase = "claimRow" /\ InHand(w, tx[w])
    BY CallFacts DEF ClaimRow
  <1>1. PICK e \in tx[w].batch : ClaimRow(w)!2!(e)
    BY DEF ClaimRow
  <1> DEFINE batch == tx[w].batch \ {e}
             phase == IF batch = {} THEN "commit" ELSE "claimRow"
             t == [tx[w] EXCEPT !.phase = phase, !.batch = batch,
                                !.writes[e] = Upsert(w, e)]
  <1>2. Continue(w, t)
    BY <1>1
  <1>3. phase \in {"claimRow", "commit"} /\ batch \subseteq tx[w].batch /\ e \in Events
    BY <1>0 DEF Transactions
  <1>4. Upsert(w, e) # NoWrite => IsClaim(w, Upsert(w, e), row[e])
    BY DEF Upsert, Available, IsClaim, Offered
  <1>5. Ready(e) /\ tx[w].target = NoEvent
    BY <1>0 DEF InHand
  <1> HIDE DEF phase, batch
  <1>6. InHand(w, t)
    <2>1. /\ t.queue = tx[w].queue /\ t.batch = batch /\ t.phase = phase
          /\ t.target = tx[w].target
          /\ \A f \in Events : t.writes[f] = IF f = e THEN Upsert(w, e) ELSE tx[w].writes[f]
      BY <1>0, <1>3 DEF Transactions
    <2> HIDE DEF t
    <2> QED BY <1>0, <1>3, <1>4, <1>5, <2>1 DEF InHand
  <1> QED BY <1>2, <1>6, ContinueKeeps

\* The call starts with nothing written.
LEMMA LoadKeeps ==
    ASSUME LInv, IInv', NEW w \in Workers, NEW e \in Events,
           NEW phase \in {"complete", "release"}, Load(w, e, phase)
    PROVE  LInv'
  <1> DEFINE t == [Idle EXCEPT !.phase = phase, !.target = e, !.locks = {e}]
  <1>1. InHand(w, t)
    BY DEF InHand, Idle
  <1> QED BY <1>1, ContinueKeeps DEF Load

\* Up to the UPDATE of the row the call has written nothing of it.
LEMMA ReadsKeep ==
    ASSUME LInv, IInv', NEW w \in Workers,
           CheckLease(w) \/ ReadCheckpoint(w) \/ WriteCheckpoint(w)
    PROVE  LInv'
  <1>0. tx[w] \in Transactions /\ InHand(w, tx[w])
        /\ tx[w].phase \in {"complete", "readCheckpoint", "writeCheckpoint"}
    BY CallFacts DEF CheckLease, ReadCheckpoint, WriteCheckpoint
  <1>1. CASE Rollback(w) /\ UNCHANGED <<held, faults>>
    BY <1>1, RollbackKeeps
  <1>2. CASE Continue(w, [tx[w] EXCEPT !.phase = "readCheckpoint"])
    <2>1. InHand(w, [tx[w] EXCEPT !.phase = "readCheckpoint"])
      BY <1>0 DEF InHand, Transactions
    <2> QED BY <1>2, <2>1, ContinueKeeps
  <1>3. ASSUME NEW r, Continue(w, [tx[w] EXCEPT !.phase = "writeCheckpoint", !.previous = r])
        PROVE  LInv'
    <2>1. InHand(w, [tx[w] EXCEPT !.phase = "writeCheckpoint", !.previous = r])
      BY <1>0 DEF InHand, Transactions
    <2> QED BY <1>3, <2>1, ContinueKeeps
  <1>4. ASSUME NEW a, Continue(w, [tx[w] EXCEPT !.phase = "finish", !.advance = a])
        PROVE  LInv'
    <2>1. InHand(w, [tx[w] EXCEPT !.phase = "finish", !.advance = a])
      BY <1>0 DEF InHand, Transactions
    <2> QED BY <1>4, <2>1, ContinueKeeps
  <1> QED BY <1>1, <1>2, <1>3, <1>4 DEF CheckLease, ReadCheckpoint, WriteCheckpoint

\* The UPDATE ends a lease this worker owns.
LEMMA EndLeaseKeeps ==
    ASSUME LInv, IInv', NEW w \in Workers, tx[w].phase \in {"finish", "release"},
           NEW s \in {"COMPLETED", "QUARANTINED", "RETRYABLE"},
           s = "RETRYABLE" => row[tx[w].target].attempt < Threshold,
           EndLease(w, s)
    PROVE  LInv'
  <1> DEFINE g == tx[w].target
             ended == [row[g] EXCEPT !.state = s, !.owner = NoOwner, !.lease = 0]
             t == [tx[w] EXCEPT !.phase = "commit", !.writes[g] = ended]
  <1>1. tx[w] \in Transactions /\ InHand(w, tx[w]) /\ g \in Events
    BY CallFacts DEF WellFormed
  <1>2. row[g] \in StateRow
    BY <1>1 DEF LInv, IInv, TypeOK
  <1>3. IsEnd(w, ended, row[g])
    BY <1>2 DEF IsEnd, EndLease, OwnsLease, StateRow
  <1>4. Continue(w, t)
    BY DEF EndLease
  <1> HIDE DEF ended
  <1>5. InHand(w, t)
    <2>1. /\ t.queue = tx[w].queue /\ t.batch = tx[w].batch /\ t.phase = "commit"
          /\ t.target = g
          /\ \A f \in Events : t.writes[f] = IF f = g THEN ended ELSE tx[w].writes[f]
      BY <1>1 DEF Transactions
    <2> HIDE DEF t
    <2> QED BY <1>1, <1>3, <2>1 DEF InHand
  <1> QED BY <1>4, <1>5, ContinueKeeps

\* A call that gives up takes nothing with it.
LEMMA GivingUpKeeps ==
    ASSUME LInv, IInv', NEW w \in Workers,
           ClaimTooLarge(w) \/ LeaseLost(w) \/ Fail(w) \/ Crash(w)
    PROVE  LInv'
  <1>1. Rollback(w)
    BY DEF ClaimTooLarge, LeaseLost, Fail, Crash
  <1>2. held \in [Workers -> [Events -> Nat]]
    BY DEF LInv, IInv, TypeOK
  <1>3. \/ held' = held
        \/ held' = [held EXCEPT ![w] = [e \in Events |-> 0]]
        \/ tx[w].target \in Events /\ held' = [held EXCEPT ![w][tx[w].target] = 0]
    BY CallFacts DEF ClaimTooLarge, LeaseLost, Fail, Crash, WellFormed
  <1>4. \A v \in Workers, e \in Events : held'[v][e] \in {0, held[v][e]}
    BY <1>2, <1>3
  <1> QED BY <1>1, <1>4, RollbackKeeps

\* What COMMIT does to a row: it stays, is claimed again, or its lease ends.
LEMMA CommitRows ==
    ASSUME LInv, NEW w \in Workers, Commit(w), NEW e \in Events
    PROVE  /\ row'[e] = IF tx[w].writes[e] # NoWrite THEN tx[w].writes[e] ELSE row[e]
           /\ tx[w].writes[e] # NoWrite =>
                 \/ /\ tx[w].target = NoEvent
                    /\ Ready(e)
                    /\ IsClaim(w, row'[e], row[e])
                 \/ tx[w].target = e /\ IsEnd(w, row'[e], row[e])
           /\ row[e].state = "COMPLETED" => row'[e] = row[e]
  <1>1. row'[e] = IF tx[w].writes[e] # NoWrite THEN tx[w].writes[e] ELSE row[e]
    BY DEF Commit, Written
  <1>2. WellFormed(tx[w]) /\ InHand(w, tx[w])
    BY CallFacts
  <1> QED BY <1>1, <1>2 DEF WellFormed, InHand

\* A step that completes rows or changes their leases leaves ready what is ready.
LEMMA ReadyStays ==
    ASSUME published' = published, published \subseteq Events,
           \A e \in Events : row[e].state = "COMPLETED" => row'[e].state = "COMPLETED",
           NEW e, Ready(e)
    PROVE  Ready(e)'
  BY DEF Ready

\* COMMIT changes only rows that no other call has in hand; a claim is newer than
\* all others know.
LEMMA CommitKeeps ==
    ASSUME LInv, IInv', NEW w \in Workers, Commit(w)
    PROVE  LInv'
  <1> DEFINE t == tx[w]
  <1>0. /\ TypeOK /\ TypeOK' /\ published' = published
        /\ t \in Transactions /\ WellFormed(t) /\ InHand(w, t)
    BY CallFacts DEF LInv, IInv, Commit
  <1>1. \A e : Ready(e) => Ready(e)'
    BY <1>0, CommitRows, ReadyStays DEF TypeOK
  <1>2. ASSUME NEW e \in Events
        PROVE  row[e].attempt \in Nat /\ row'[e].attempt \in Nat
    <2>1. row[e] \in StateRow /\ row'[e] \in StateRow
      BY <1>0 DEF TypeOK
    <2> QED BY <2>1 DEF StateRow
  <1>3. LeftWhenReady'
    <2> SUFFICES ASSUME NEW e \in Events
                 PROVE  /\ row'[e].state # "PENDING" => Ready(e)'
                        /\ row'[e].state = "LEASED" => row'[e].attempt > 0
      BY DEF LeftWhenReady
    <2>1. /\ row[e].state # "PENDING" => Ready(e)
          /\ row[e].state = "LEASED" => row[e].attempt > 0
      BY DEF LInv, LeftWhenReady
    <2> QED BY <1>1, <1>2, <2>1, CommitRows DEF IsClaim, IsEnd
  <1>4. ASSUME NEW u \in Workers
        PROVE  InHand(u, tx[u])'
    <2>1. CASE u = w
      <3>1. tx'[u] = Idle
        BY <1>0, <2>1 DEF Commit, TypeOK
      <3> QED BY <3>1, ConfigAssumption DEF InHand, Idle
    <2>2. CASE u # w
      <3>1. /\ tx'[u] = tx[u] /\ WellFormed(tx[u]) /\ InHand(u, tx[u])
            /\ Compatible(t, tx[u])
        BY <1>0, <2>2, CallFacts DEF Commit, TypeOK, LInv, IInv, CallsSerialised
      <3>2. \A e \in Events : tx[u].writes[e] # NoWrite => row'[e] = row[e]
        BY <1>0, <3>1, CommitRows DEF Compatible, WellFormed
      <3> QED BY <1>1, <3>1, <3>2 DEF InHand
    <2> QED BY <2>1, <2>2
  <1>5. ClaimsKnown'
    <2> SUFFICES ASSUME NEW v \in Workers, NEW e \in Events
                 PROVE  /\ held'[v][e] <= row'[e].attempt
                        /\ held'[v][e] = row'[e].attempt /\ row'[e].state = "LEASED" =>
                              row'[e].owner = OwnerOf[v]
      BY DEF ClaimsKnown
    <2>1. /\ held[v][e] \in Nat
          /\ held[v][e] <= row[e].attempt
          /\ held[v][e] = row[e].attempt /\ row[e].state = "LEASED" =>
                row[e].owner = OwnerOf[v]
      BY <1>0 DEF LInv, ClaimsKnown, TypeOK
    <2>2. \/ held'[v][e] = held[v][e]
          \/ /\ v = w /\ t.writes[e] # NoWrite
             /\ held'[v][e] = IF row'[e].state = "LEASED" THEN row'[e].attempt ELSE 0
      BY <1>0, CommitRows DEF Commit, Answer, Written, TypeOK
    <2>3. CASE t.writes[e] = NoWrite
      BY <2>1, <2>2, <2>3, CommitRows
    <2>4. CASE t.writes[e] # NoWrite /\ IsClaim(w, row'[e], row[e])
      BY <1>2, <2>1, <2>2, <2>4 DEF IsClaim
    <2>5. CASE t.writes[e] # NoWrite /\ IsEnd(w, row'[e], row[e])
      BY <1>2, <2>1, <2>2, <2>5 DEF IsEnd
    <2> QED BY <2>3, <2>4, <2>5, CommitRows
  <1>6. LastIsCompleted'
    <2> SUFFICES ASSUME NEW i \in Identities, ckpt'[i].event # NoEvent
                 PROVE  /\ ckpt'[i].event \in Events
                        /\ IdentityOf(ckpt'[i].event) = i
                        /\ row'[ckpt'[i].event].state = "COMPLETED"
      BY DEF LastIsCompleted, Completed
    <2>1. CASE ckpt'[i] = ckpt[i]
      <3>1. ckpt[i].event \in Completed(i)
        BY <2>1 DEF LInv, LastIsCompleted
      <3> QED BY <2>1, <3>1, CommitRows DEF Completed
    <2>2. CASE ckpt'[i] # ckpt[i]
      <3>1. t.advance # 0 /\ i = IdentityOf(t.target) /\ ckpt'[i].event = t.target
        BY <1>0, <2>2 DEF Commit, TypeOK
      <3>2. t.target \in Events /\ t.writes[t.target] # NoWrite
            /\ t.writes[t.target].state = "COMPLETED"
        BY <1>0, <3>1 DEF WellFormed, Commit
      <3> QED BY <3>1, <3>2, CommitRows
    <2> QED BY <2>1, <2>2
  <1> QED BY <1>3, <1>4, <1>5, <1>6 DEF LInv

\* Time takes away only what is left of a lease.
LEMMA AgedRow ==
    ASSUME NEW r \in StateRow
    PROVE  /\ Aged(r).state = r.state /\ Aged(r).owner = r.owner
           /\ Aged(r).attempt = r.attempt
           /\ r.lease = 0 => Aged(r).lease = 0
  BY ConfigAssumption DEF StateRow, Aged

\* The clock changes neither what is ready nor whose a lease is; an expired lease
\* stays on offer.
LEMMA TickKeeps ==
    ASSUME LInv, IInv', Tick
    PROVE  LInv'
  <1>0. TypeOK /\ published' = published /\ ckpt' = ckpt /\ held' = held
    BY DEF LInv, IInv, Tick
  <1>1. ASSUME NEW e \in Events
        PROVE  /\ row'[e].state = row[e].state /\ row'[e].owner = row[e].owner
               /\ row'[e].attempt = row[e].attempt
               /\ row[e].lease = 0 => row'[e].lease = 0
    BY <1>0, AgedRow DEF Tick, TypeOK
  <1>2. \A e : Ready(e) => Ready(e)'
    BY <1>0, <1>1, ReadyStays DEF TypeOK
  <1>3. LeftWhenReady'
    BY <1>1, <1>2 DEF LInv, LeftWhenReady
  <1>4. ASSUME NEW u \in Workers
        PROVE  InHand(u, tx[u])'
    <2> DEFINE new == [e \in Events |-> IF tx[u].writes[e] = NoWrite THEN NoWrite
                                        ELSE Aged(tx[u].writes[e])]
    <2>1. tx[u] \in Transactions /\ InHand(u, tx[u])
      BY CallFacts
    <2>2. tx'[u] = [tx[u] EXCEPT !.writes = new]
      BY DEF Tick
    <2>3. ASSUME NEW e \in Events
          PROVE  /\ new[e] = NoWrite <=> tx[u].writes[e] = NoWrite
                 /\ tx[u].writes[e] # NoWrite =>
                       /\ new[e].state = tx[u].writes[e].state
                       /\ new[e].owner = tx[u].writes[e].owner
                       /\ new[e].attempt = tx[u].writes[e].attempt
      <3>1. tx[u].writes[e] # NoWrite => tx[u].writes[e] \in StateRow
        BY <2>1 DEF Transactions
      <3> QED BY <3>1, RowType, AgedRow
    <2> HIDE DEF new
    <2>4. /\ tx'[u].queue = tx[u].queue /\ tx'[u].batch = tx[u].batch
          /\ tx'[u].phase = tx[u].phase /\ tx'[u].target = tx[u].target
          /\ tx'[u].writes = new
      BY <2>1, <2>2 DEF Transactions
    <2>5. ASSUME NEW e \in Events
          PROVE  /\ IsClaim(u, tx[u].writes[e], row[e]) /\ tx[u].writes[e] # NoWrite =>
                       IsClaim(u, new[e], row'[e])
                 /\ IsEnd(u, tx[u].writes[e], row[e]) /\ tx[u].writes[e] # NoWrite =>
                       IsEnd(u, new[e], row'[e])
      BY <1>1, <2>3 DEF IsClaim, IsEnd, Offered
    <2> QED BY <1>2, <2>1, <2>3, <2>4, <2>5 DEF InHand
  <1>5. ClaimsKnown'
    BY <1>0, <1>1 DEF LInv, ClaimsKnown
  <1>6. LastIsCompleted'
    BY <1>0, <1>1 DEF LInv, LastIsCompleted, Completed
  <1> QED BY <1>3, <1>4, <1>5, <1>6 DEF LInv

\* A source that commits in order adds nothing before what is published.
LEMMA PublishKeeps ==
    ASSUME LInv, IInv', NEW f \in Events, Publish(f)
    PROVE  LInv'
  <1>0. /\ row' = row /\ ckpt' = ckpt /\ tx' = tx /\ held' = held
        /\ published' = published \cup {f}
        /\ InOrder => \A e \in published : ~Prior(f, e)
    BY DEF Publish
  <1>1. \A e : Ready(e) => Ready(e)'
    BY <1>0 DEF Ready
  <1>2. LeftWhenReady'
    BY <1>0, <1>1 DEF LInv, LeftWhenReady
  <1>3. ASSUME NEW u \in Workers
        PROVE  InHand(u, tx[u])'
    <2>1. InHand(u, tx[u])
      BY CallFacts
    <2> QED BY <1>0, <1>1, <2>1 DEF InHand
  <1>4. ClaimsKnown' /\ LastIsCompleted'
    BY <1>0 DEF LInv, ClaimsKnown, LastIsCompleted, Completed
  <1> QED BY <1>2, <1>3, <1>4 DEF LInv

\* Nothing has been published, claimed or completed.
LEMMA InitLInv == Init => LInv
  <1> SUFFICES ASSUME Init PROVE LInv
    OBVIOUS
  <1>1. LeftWhenReady
    BY DEF Init, Absent, LeftWhenReady
  <1>2. \A w \in Workers : InHand(w, tx[w])
    BY IdleInHand DEF Init
  <1>3. ClaimsKnown
    BY DEF Init, Absent, ClaimsKnown
  <1>4. LastIsCompleted
    BY DEF Init, LastIsCompleted
  <1> QED BY <1>1, <1>2, <1>3, <1>4, InitInv DEF LInv

LEMMA NextLInv == LInv /\ [Next]_vars => LInv'
  <1> SUFFICES ASSUME LInv, [Next]_vars PROVE LInv'
    OBVIOUS
  <1>1. IInv'
    BY NextInv DEF LInv
  <1>2. ASSUME NEW w \in Workers, MarkCompleted(w)
        PROVE  LInv'
    BY <1>1, <1>2, EndLeaseKeeps DEF MarkCompleted
  <1>3. ASSUME NEW w \in Workers, NEW retryable \in BOOLEAN, Release(w, retryable)
        PROVE  LInv'
    BY <1>1, <1>3, EndLeaseKeeps DEF Release
  <1>4. ASSUME NEW w \in Workers, Statement(w)
        PROVE  LInv'
    BY <1>1, <1>2, <1>3, <1>4, ClaimLockKeeps, ClaimRowKeeps, GivingUpKeeps, ReadsKeep,
       CommitKeeps DEF Statement
  <1>5. CASE UNCHANGED vars
    <2>1. /\ row' = row /\ ckpt' = ckpt /\ tx' = tx /\ held' = held
          /\ published' = published
      BY <1>5 DEF vars
    <2>2. \A w \in Workers : InHand(w, tx[w])'
      <3>1. \A w \in Workers : InHand(w, tx[w])
        BY DEF LInv
      <3> QED BY <2>1, <3>1 DEF InHand, Ready
    <2>3. LeftWhenReady' /\ ClaimsKnown' /\ LastIsCompleted'
      BY <2>1 DEF LInv, LeftWhenReady, Ready, ClaimsKnown, LastIsCompleted, Completed
    <2> QED BY <1>1, <2>2, <2>3 DEF LInv
  <1> QED BY <1>1, <1>4, <1>5, ClaimSnapshotKeeps, LoadKeeps, GivingUpKeeps, TickKeeps,
             PublishKeeps DEF Next

-----------------------------------------------------------------------------
(* The theorems about order and leases                                     *)

\* Versions are claimed and completed in their order, for a source that commits
\* them in order: once an intent has left PENDING, every earlier one of its
\* identity is COMPLETED, however stale the claim's snapshot was.
THEOREM VersionsInOrder ==
    ASSUME InOrder
    PROVE  Spec => []PredecessorsCompleted
  <1>1. LInv => PredecessorsCompleted
    BY DEF LInv, LeftWhenReady, Ready, PredecessorsCompleted
  <1> QED BY <1>1, InitLInv, NextLInv, PTL DEF Spec

\* The order of versions is total on the intents of an identity.
LEMMA PriorTotal ==
    ASSUME NEW p \in Events, NEW e \in Events, p # e, IdentityOf(p) = IdentityOf(e)
    PROVE  Prior(p, e) \/ Prior(e, p)
  <1>1. p \in Int /\ e \in Int /\ Intent[p].at \in Int /\ Intent[e].at \in Int
    BY ConfigAssumption
  <1>2. ASSUME NEW f \in Events
        PROVE  Rank(f) \in Int /\ Number(f) \in Int
    BY ConfigAssumption DEF Rank, Number, Versions
  <1>3. Earlier(p, e) \/ Earlier(e, p)
    BY <1>1 DEF Earlier
  <1> QED BY <1>2, <1>3 DEF Prior, Precedes

\* The checkpoint of a partition goes from a version to a later one only.
THEOREM CheckpointsMoveForward ==
    ASSUME InOrder
    PROVE  Spec => CheckpointMovesForward
  <1> DEFINE Forward == \A i \in Identities : ckpt'[i] # ckpt[i] /\ ckpt[i].event # NoEvent =>
                           Prior(ckpt[i].event, ckpt'[i].event)
  <1>1. LInv /\ [Next]_vars => [Forward]_vars
    <2> SUFFICES ASSUME LInv, [Next]_vars,
                        NEW i \in Identities, ckpt'[i] # ckpt[i], ckpt[i].event # NoEvent
                 PROVE  Prior(ckpt[i].event, ckpt'[i].event)
      OBVIOUS
    <2>1. PICK w \in Workers : Commit(w)
      BY DEF Next, vars, Statement, ClaimSnapshot, Load, ClaimLock, ClaimRow, ClaimTooLarge,
             CheckLease, ReadCheckpoint, WriteCheckpoint, MarkCompleted, Release, EndLease,
             LeaseLost, Fail, Crash, Rollback, Continue, Tick, Publish
    <2> DEFINE g == tx[w].target
               c == ckpt[i].event
    <2>2. WellFormed(tx[w]) /\ InHand(w, tx[w]) /\ TypeOK
      BY CallFacts DEF LInv, IInv
    <2>3. tx[w].advance # 0 /\ i = IdentityOf(g) /\ ckpt'[i].event = g
      BY <2>1, <2>2 DEF Commit, TypeOK
    <2>4. g \in Events /\ tx[w].writes[g] # NoWrite /\ row[g].state = "LEASED"
      BY <2>1, <2>2, <2>3, ConfigAssumption DEF Commit, WellFormed, InHand, IsEnd
    <2>5. c \in Events /\ IdentityOf(c) = i /\ row[c].state = "COMPLETED"
      BY DEF LInv, LastIsCompleted, Completed
    <2>6. Ready(g) /\ Ready(c)
      BY <2>4, <2>5 DEF LInv, LeftWhenReady
    <2>7. ~Prior(g, c)
      BY <2>4, <2>6 DEF Ready
    <2> QED BY <2>3, <2>4, <2>5, <2>7, PriorTotal
  <1> HIDE DEF Forward
  <1>2. Spec => [][Forward]_vars
    BY <1>1, InitLInv, NextLInv, PTL DEF Spec
  <1> QED BY <1>2 DEF Forward, CheckpointMovesForward

\* What the README asks of hosts: no two workers pass the same owner string.
OwnersApart == \A v, w \in Workers : OwnerOf[v] = OwnerOf[w] => v = w

\* While a lease is live no other claim gets its intent, and only the worker of the
\* latest claim ends it: a stale claimant's complete or release has no effect.
THEOREM LeasesHonoured ==
    ASSUME OwnersApart
    PROVE  Spec => LeasesAreHonoured
  <1> DEFINE Honoured ==
        \A e \in Events : row[e].state = "LEASED" =>
          /\ row[e].lease > 0 =>
                row'[e].attempt = row[e].attempt /\ row'[e].owner \in {row[e].owner, NoOwner}
          /\ row'[e].state # "LEASED" =>
                \E w \in Workers :
                    /\ tx[w].target = e
                    /\ \A v \in Workers \ {w} : held[v][e] < row[e].attempt
  <1>1. LInv /\ [Next]_vars => [Honoured]_vars
    <2> SUFFICES ASSUME LInv, [Next]_vars, NEW e \in Events, row[e].state = "LEASED"
                 PROVE  /\ row[e].lease > 0 => /\ row'[e].attempt = row[e].attempt
                                               /\ row'[e].owner \in {row[e].owner, NoOwner}
                        /\ row'[e].state # "LEASED" =>
                              \E w \in Workers :
                                  /\ tx[w].target = e
                                  /\ \A v \in Workers \ {w} : held[v][e] < row[e].attempt
      OBVIOUS
    <2>0. TypeOK /\ row[e] \in StateRow /\ row[e].attempt \in Nat
      BY DEF LInv, IInv, TypeOK, StateRow
    <2>1. CASE row' = row
      BY <2>1
    <2>2. CASE Tick
      <3>1. row'[e] = Aged(row[e])
        BY <2>2 DEF Tick
      <3> QED BY <2>0, <3>1, AgedRow
    <2>3. ASSUME NEW w \in Workers, Commit(w)
          PROVE  /\ row[e].lease > 0 => /\ row'[e].attempt = row[e].attempt
                                        /\ row'[e].owner \in {row[e].owner, NoOwner}
                 /\ row'[e].state # "LEASED" =>
                       /\ tx[w].target = e
                       /\ \A v \in Workers \ {w} : held[v][e] < row[e].attempt
      <3>1. CASE row'[e] = row[e]
        BY <3>1
      <3>2. CASE IsClaim(w, row'[e], row[e])
        BY <3>2 DEF IsClaim, Offered
      <3>3. CASE tx[w].target = e /\ IsEnd(w, row'[e], row[e])
        <4>1. ASSUME NEW v \in Workers \ {w}
              PROVE  held[v][e] < row[e].attempt
          <5>1. OwnerOf[v] # OwnerOf[w] /\ row[e].owner = OwnerOf[w]
            BY <3>3 DEF OwnersApart, IsEnd
          <5>2. held[v][e] \in Nat /\ held[v][e] <= row[e].attempt
                /\ held[v][e] # row[e].attempt
            BY <5>1, <2>0 DEF LInv, ClaimsKnown, TypeOK
          <5> QED BY <2>0, <5>2
        <4> QED BY <3>3, <4>1 DEF IsEnd
      <3> QED BY <2>3, <3>1, <3>2, <3>3, CommitRows
    <2>4. row' = row \/ Tick \/ \E w \in Workers : Commit(w)
      BY DEF Next, vars, Statement, ClaimSnapshot, Load, ClaimLock, ClaimRow, ClaimTooLarge,
             CheckLease, ReadCheckpoint, WriteCheckpoint, MarkCompleted, Release, EndLease,
             LeaseLost, Fail, Crash, Rollback, Continue, Publish
    <2> QED BY <2>1, <2>2, <2>3, <2>4
  <1> HIDE DEF Honoured
  <1>2. Spec => [][Honoured]_vars
    BY <1>1, InitLInv, NextLInv, PTL DEF Spec
  <1> QED BY <1>2 DEF Honoured, LeasesAreHonoured

-----------------------------------------------------------------------------
(* Refinement of OutboxLifecycle                                           *)

\* The columns of the rows, and how they follow the rows of a step.
LEMMA Columns ==
    /\ Column("state") = [e \in Events |-> row[e].state]
    /\ Column("attempt") = [e \in Events |-> row[e].attempt]
    /\ Column("owner") = [e \in Events |-> row[e].owner]
    /\ Column("state")' = [e \in Events |-> row'[e].state]
    /\ Column("attempt")' = [e \in Events |-> row'[e].attempt]
    /\ Column("owner")' = [e \in Events |-> row'[e].owner]
  BY DEF Column

\* The empty outbox is that of the abstract specification.
LEMMA LifecycleInit == Init => Lifecycle!Init
  <1> SUFFICES ASSUME Init PROVE Lifecycle!Init
    OBVIOUS
  <1>1. {e \in Events : row[e].state = "LEASED" /\ row[e].lease = 0} = {}
    BY DEF Init, Absent
  <1> QED BY <1>1, Columns DEF Init, Absent, Lifecycle!Init

\* A step that commits nothing is not seen.
LEMMA LifecycleStutters ==
    ASSUME row' = row, published' = published, ckpt' = ckpt
    PROVE  UNCHANGED Lifecycle!vars
  BY Columns DEF Lifecycle!vars

\* A source transaction.
LEMMA LifecyclePublish ==
    ASSUME NEW e \in Events, Publish(e)
    PROVE  Lifecycle!Publish(e)
  BY Columns DEF Publish, Lifecycle!Publish

\* The passing of time is the lapse of the leases that have none left.
LEMMA LifecycleLapse ==
    ASSUME LInv, Tick
    PROVE  \E S \in SUBSET Events : Lifecycle!Lapse(S)
  <1>1. ASSUME NEW e \in Events
        PROVE  /\ row'[e].state = row[e].state /\ row'[e].owner = row[e].owner
               /\ row'[e].attempt = row[e].attempt
               /\ row[e].lease = 0 => row'[e].lease = 0
    BY AgedRow DEF Tick, LInv, IInv, TypeOK
  <1>2. published' = published /\ ckpt' = ckpt
    BY DEF Tick
  <1>3. PICK S \in SUBSET Events :
           S = {e \in Events : row'[e].state = "LEASED" /\ row'[e].lease = 0}
    OBVIOUS
  <1>4. S = {e \in Events : row[e].state = "LEASED" /\ row[e].lease = 0} \cup S
    BY <1>1, <1>3
  <1>5. \A e \in S : row[e].state = "LEASED"
    BY <1>1, <1>3
  <1>6. Lifecycle!Lapse(S)
    BY <1>1, <1>2, <1>3, <1>4, <1>5, Columns DEF Lifecycle!Lapse
  <1> QED BY <1>6

\* The commit of a claim is the claim of the rows it wrote.
LEMMA LifecycleClaim ==
    ASSUME LInv, NEW w \in Workers, Commit(w), tx[w].target = NoEvent
    PROVE  \E o \in Owners, S \in SUBSET Events : \E late \in SUBSET S :
              Lifecycle!Claim(o, S, late)
  <1>0. /\ OwnerOf[w] \in Owners
        /\ tx[w] \in Transactions /\ WellFormed(tx[w]) /\ InHand(w, tx[w])
        /\ published' = published
    BY CallFacts, ConfigAssumption DEF Commit
  <1>1. ckpt' = ckpt
    BY <1>0, ConfigAssumption DEF Commit, WellFormed
  <1>2. PICK o \in Owners, S \in SUBSET Events :
           o = OwnerOf[w] /\ S = {e \in Events : tx[w].writes[e] # NoWrite}
    BY <1>0
  <1>3. PICK late \in SUBSET S : late = {e \in S : row'[e].lease = 0}
    OBVIOUS
  <1>4. ASSUME NEW e \in Events
        PROVE  /\ e \notin S => row'[e] = row[e]
               /\ e \in S => Ready(e) /\ IsClaim(w, row'[e], row[e])
    BY <1>2, CommitRows, ConfigAssumption
  <1>5. \A e \in S : /\ e \in published
                     /\ \/ row[e].state \in {"PENDING", "RETRYABLE"}
                        \/ e \in {f \in Events : row[f].state = "LEASED" /\ row[f].lease = 0}
                     /\ InOrder => \A p \in published : Prior(p, e) => row[p].state = "COMPLETED"
    BY <1>4 DEF Ready, IsClaim, Offered
  <1>6. \A e \in S : Lifecycle!Claimable(e)
    <2>1. published \subseteq Events
      BY DEF LInv, IInv, TypeOK
    <2> QED BY <1>5, <2>1, Columns DEF Lifecycle!Claimable
  <1>7. \A e \in Events : /\ row'[e].state = IF e \in S THEN "LEASED" ELSE row[e].state
                          /\ row'[e].attempt = IF e \in S THEN row[e].attempt + 1
                                               ELSE row[e].attempt
                          /\ row'[e].owner = IF e \in S THEN o ELSE row[e].owner
    BY <1>2, <1>4 DEF IsClaim
  <1>8. {e \in Events : row'[e].state = "LEASED" /\ row'[e].lease = 0}
          = ({e \in Events : row[e].state = "LEASED" /\ row[e].lease = 0} \ S) \cup late
    BY <1>3, <1>4 DEF IsClaim
  <1>9. Lifecycle!Claim(o, S, late)
    BY <1>0, <1>1, <1>6, <1>7, <1>8, Columns DEF Lifecycle!Claim
  <1> QED BY <1>9

\* The commit of complete or release is the end of the lease it wrote.
LEMMA LifecycleEnd ==
    ASSUME LInv, NEW w \in Workers, Commit(w), NEW g \in Events, tx[w].target = g,
           tx[w].writes[g] # NoWrite
    PROVE  \E o \in Owners : \/ Lifecycle!Complete(o, g)
                             \/ Lifecycle!Release(o, g, "RETRYABLE")
                             \/ Lifecycle!Release(o, g, "QUARANTINED")
  <1>0. /\ OwnerOf[w] \in Owners
        /\ tx[w] \in Transactions /\ WellFormed(tx[w]) /\ InHand(w, tx[w]) /\ TypeOK
        /\ published' = published
    BY CallFacts, ConfigAssumption DEF Commit, LInv, IInv
  <1>1. PICK o \in Owners : o = OwnerOf[w]
    BY <1>0
  <1>2. IsEnd(w, row'[g], row[g])
    BY CommitRows, ConfigAssumption
  <1>3. \A e \in Events \ {g} : row'[e] = row[e]
    BY CommitRows, ConfigAssumption
  <1>4. PICK s \in {"COMPLETED", "QUARANTINED", "RETRYABLE"} : s = row'[g].state
    BY <1>2 DEF IsEnd
  <1>5. Lifecycle!End(o, g, s)
    <2>1. \A e \in Events :
             /\ row'[e].state = IF e = g THEN s ELSE row[e].state
             /\ row'[e].owner = IF e = g THEN NoOwner ELSE row[e].owner
             /\ row'[e].attempt = row[e].attempt
      BY <1>2, <1>3, <1>4 DEF IsEnd
    <2>2. {e \in Events : row'[e].state = "LEASED" /\ row'[e].lease = 0}
            = {e \in Events : row[e].state = "LEASED" /\ row[e].lease = 0} \ {g}
      BY <1>3, <1>4
    <2>3. row[g].state = "LEASED" /\ row[g].owner = o
      BY <1>1, <1>2 DEF IsEnd
    <2> QED BY <1>0, <2>1, <2>2, <2>3, Columns DEF Lifecycle!End
  <1>6. row'[g] = tx[w].writes[g]
    BY CommitRows
  <1>7. CASE s = "COMPLETED"
    <2>1. tx[w].advance # 0 /\ tx[w].advance = ckpt[IdentityOf(g)].revision + 1
      BY <1>0, <1>4, <1>6, <1>7 DEF WellFormed
    <2>2. ckpt' = [ckpt EXCEPT ![IdentityOf(g)] =
                     [revision |-> ckpt[IdentityOf(g)].revision + 1, event |-> g]]
      BY <2>1 DEF Commit
    <2>3. Lifecycle!Complete(o, g)
      BY <1>5, <1>7, <2>2 DEF Lifecycle!Complete
    <2> QED BY <2>3
  <1>8. CASE s # "COMPLETED"
    <2>1. tx[w].advance = 0
      BY <1>0, <1>4, <1>6, <1>8 DEF WellFormed, Commit
    <2>2. ckpt' = ckpt
      BY <2>1 DEF Commit
    <2>3. s = "RETRYABLE" => Column("attempt")[g] < Threshold
      BY <1>2, <1>4, Columns DEF IsEnd
    <2>4. Lifecycle!Release(o, g, s)
      BY <1>4, <1>5, <1>8, <2>2, <2>3 DEF Lifecycle!Release
    <2> QED BY <1>4, <1>8, <2>4
  <1> QED BY <1>7, <1>8

\* Every step of the calls is a step of the abstract specification or is not seen.
LEMMA LifecycleStep ==
    ASSUME LInv, [Next]_vars
    PROVE  [Lifecycle!Next]_(Lifecycle!vars)
  <1>1. CASE row' = row /\ published' = published /\ ckpt' = ckpt
    BY <1>1, LifecycleStutters
  <1>2. CASE Tick
    BY <1>2, LifecycleLapse DEF Lifecycle!Next
  <1>3. ASSUME NEW e \in Events, Publish(e)
        PROVE  Lifecycle!Next
    BY <1>3, LifecyclePublish DEF Lifecycle!Next
  <1>4. ASSUME NEW w \in Workers, Commit(w)
        PROVE  [Lifecycle!Next]_(Lifecycle!vars)
    <2>0. /\ tx[w] \in Transactions /\ WellFormed(tx[w]) /\ InHand(w, tx[w])
          /\ published' = published /\ tx[w].phase = "commit"
      BY <1>4, CallFacts DEF Commit
    <2>1. CASE tx[w].target = NoEvent
      BY <1>4, <2>1, LifecycleClaim DEF Lifecycle!Next
    <2>2. CASE tx[w].target # NoEvent /\ tx[w].writes[tx[w].target] # NoWrite
      <3>1. PICK g \in Events : g = tx[w].target
        BY <2>0, <2>2 DEF Transactions
      <3>2. \E o \in Owners : \/ Lifecycle!Complete(o, g)
                              \/ Lifecycle!Release(o, g, "RETRYABLE")
                              \/ Lifecycle!Release(o, g, "QUARANTINED")
        BY <1>4, <2>2, <3>1, LifecycleEnd
      <3> QED BY <3>2 DEF Lifecycle!Next
    <2>3. CASE tx[w].target # NoEvent /\ tx[w].writes[tx[w].target] = NoWrite
      <3>1. \A e \in Events : tx[w].writes[e] = NoWrite
        BY <2>0, <2>3 DEF InHand
      <3>2. row' = row
        <4>1. \A e \in Events : row'[e] = row[e]
          BY <1>4, <3>1, CommitRows
        <4>2. row \in [Events -> StateRow] /\ row' = [e \in Events |-> row'[e]]
          BY <1>4 DEF LInv, IInv, TypeOK, Commit
        <4> QED BY <4>1, <4>2
      <3>3. ckpt' = ckpt
        BY <1>4, <2>0, <2>3 DEF Commit, WellFormed
      <3> QED BY <2>0, <3>2, <3>3, LifecycleStutters
    <2> QED BY <2>1, <2>2, <2>3
  <1>5. \/ row' = row /\ published' = published /\ ckpt' = ckpt
        \/ Tick
        \/ \E e \in Events : Publish(e)
        \/ \E w \in Workers : Commit(w)
    <2> DEFINE Same == row' = row /\ published' = published /\ ckpt' = ckpt
    <2>1. ASSUME NEW w \in Workers, Statement(w), ~Commit(w)
          PROVE  Same
      BY <2>1 DEF Statement, ClaimLock, ClaimRow, ClaimTooLarge, CheckLease, ReadCheckpoint,
                  WriteCheckpoint, MarkCompleted, Release, EndLease, LeaseLost, Rollback,
                  Continue
    <2>2. ASSUME NEW w \in Workers,
                 \/ ClaimSnapshot(w) \/ Fail(w) \/ Crash(w)
                 \/ \E e \in Events, phase \in {"complete", "release"} : Load(w, e, phase)
          PROVE  Same
      BY <2>2 DEF ClaimSnapshot, Load, Fail, Crash, Rollback, Continue
    <2>3. CASE UNCHANGED vars
      BY <2>3 DEF vars
    <2> QED BY <2>1, <2>2, <2>3 DEF Next
  <1> QED BY <1>1, <1>2, <1>3, <1>4, <1>5

\* The calls of any number of workers, statement by statement, with stale snapshots,
\* faults and lost answers, are indivisible calls in the order of their commits.
THEOREM CallsAreIndivisible == Spec => ImplementsLifecycle
  <1>1. LInv /\ [Next]_vars => [Lifecycle!Next]_(Lifecycle!vars)
    BY LifecycleStep
  <1>2. Spec => Lifecycle!Init /\ [][Lifecycle!Next]_(Lifecycle!vars)
    BY <1>1, LifecycleInit, InitLInv, NextLInv, PTL DEF Spec
  <1> QED BY <1>2 DEF ImplementsLifecycle, Lifecycle!Spec
=============================================================================
