------------------------ MODULE StructuredStoreProofs ------------------------
(***************************************************************************)
(* Theorems about StructuredStore: whatever mutations of other sessions    *)
(* come between the snapshot of a statement and the rows it reaches,       *)
(* conditions hold where they are said to, no two mutations share a        *)
(* version of a record, and none that raised leaves a trace.               *)
(***************************************************************************)
EXTENDS StructuredStore, FiniteSetTheorems, TLAPS

-----------------------------------------------------------------------------
(* The inductive invariant                                                 *)

\* What a transaction tells its caller if it commits.
Mine(t) == t.given \cup t.hits

\* The rows of record k in some answers.
Told(answers, k) == {a.row : a \in {b \in answers : b.key = k}} \ {NoRow}

\* The mutations that have record k still to reach.
Pending(k) == {s \in Sessions : Running(s, k)}

\* All rows of record k that anyone has.
Versions(k) ==
    (Told(known, k) \cup {table[k]} \cup {tx[s].view[k] : s \in Sessions}
       \cup UNION {Told(Mine(tx[s]), k) : s \in Sessions}) \ {NoRow, Unwritten}

\* A mutation counts one version at most: with those still to come, a version is no
\* higher than the number of mutations, and none of these has inserted its row.
Counted(r, k) ==
    /\ r.version + Cardinality(Pending(k)) <= calls
    /\ \A s \in Pending(k) : r.born # tx[s].id

PendingHolds ==
    \A k \in Keys :
        /\ IsFiniteSet(Pending(k))
        /\ Cardinality(Pending(k)) <= calls
        /\ \A r \in Versions(k) : r.born <= calls /\ Counted(r, k)

\* A running mutation has a number of its own.
IdsApart ==
    \A s \in Sessions : tx[s].phase = "run" =>
        /\ tx[s].id \in 1 .. calls
        /\ \A o \in Sessions \ {s} : tx[o].phase = "run" => tx[o].id # tx[s].id

\* The condition of an answer held for the row it replaced.
Held(a) ==
    /\ a.expected # NoGuard => a.from # NoRow /\ a.from.version = a.expected
    /\ a.op = "claim" => a.from # NoRow /\ a.from.value = "free"

\* Waiting for Writers excludes: a record has one uncommitted writer.
WritersApart == \A s \in Sessions, k \in Keys : Wrote(s, k) => Writers(s, k) = {}

\* A transaction answers for what it has written, as its request asked.
AnswersHold ==
    \A s \in Sessions : \A a \in Mine(tx[s]) : Wrote(s, a.key) /\ Held(a)

\* Rows of one version and birth are by one mutation.
Same(p, q) == p.born = q.born /\ p.version = q.version => p.by = q.by

\* The rows of some answers, none of them made after the latest one, row.
Line(rows, row) ==
    \A p \in rows :
        /\ \A q \in rows : Same(p, q)
        /\ row # NoRow /\ p.born = row.born => p.version <= row.version /\ Same(p, row)

\* What callers know, and what they will know if a transaction commits as it is.
LinesHold ==
    \A k \in Keys :
        /\ Line(Told(known, k), table[k])
        /\ \A s \in Sessions : Line(Told(known \cup Mine(tx[s]), k), Latest(s, k))

IInv ==
    /\ TypeOK
    /\ PendingHolds /\ IdsApart
    /\ WritersApart
    /\ AnswersHold /\ ConditionsHeld
    /\ LinesHold

\* No transaction holds the work of a mutation that failed, and none that of another
\* transaction's running statement, which may fail yet; a statement that has changed
\* no row has no work in its own.
FailuresApart ==
    /\ failed \subseteq 1 .. calls
    /\ \A s \in Sessions :
          /\ tx[s].work \subseteq (1 .. calls) \ failed
          /\ tx[s].phase = "run" =>
                /\ tx[s].id \notin failed
                /\ \A o \in Sessions \ {s} : tx[s].id \notin tx[o].work
                /\ tx[s].hits = {} => tx[s].id \notin tx[s].work

\* Session s goes on with transaction t, its statement failed or not.
GoesOn(s, t) ==
    /\ tx' = [tx EXCEPT ![s] = t]
    /\ UNCHANGED <<table, calls, known>>
    /\ failed' \in {failed} \cup
          (IF tx[s].phase = "run" THEN {failed \cup {tx[s].id}} ELSE {})

-----------------------------------------------------------------------------
(* Rows and answers                                                        *)

\* A part of a line is one.
LEMMA LineShrinks ==
    ASSUME NEW rows, NEW part \in SUBSET rows, NEW row, Line(rows, row)
    PROVE  Line(part, row)
BY DEF Line

\* A line goes on with a row of another birth, with the next version, with the
\* same version rewritten, or ends with a deletion.
LEMMA LineGrows ==
    ASSUME NEW rows \in SUBSET Rows, NEW old \in Rows \cup {NoRow},
           NEW row \in Rows \cup {NoRow}, Line(rows, old),
           \/ row = NoRow
           \/ \A p \in rows : p.born # row.born
           \/ /\ old # NoRow /\ row.born = old.born
              /\ row.version = old.version + 1
           \/ /\ old # NoRow /\ row.born = old.born
              /\ row.version = old.version /\ row.by = old.by
    PROVE  Line(rows \cup ({row} \ {NoRow}), row)
<1>1. CASE row = NoRow
  BY <1>1 DEF Line
<1>2. CASE row # NoRow
  <2>1. row \in Rows /\ row.version \in Nat
    BY <1>2 DEF Rows, Calls
  <2>2. ASSUME NEW p \in rows
        PROVE  p.born = row.born => p.version <= row.version /\ Same(p, row) /\ Same(row, p)
    <3>1. p \in Rows /\ p.version \in Nat
      BY DEF Rows, Calls
    <3>2. ASSUME old # NoRow, row.born = old.born, p.born = row.born
          PROVE  /\ p.version <= old.version /\ Same(p, old)
                 /\ old.version \in Nat
      BY <3>2 DEF Line, Rows, Calls
    <3> QED  BY <1>2, <2>1, <3>1, <3>2 DEF Same
  <2>3. Same(row, row) /\ row.version <= row.version
    BY <2>1 DEF Same
  <2>4. \A p, q : p.born # q.born => Same(p, q)
    BY DEF Same
  <2> QED  BY <2>2, <2>3, <2>4 DEF Line
<1> QED  BY <1>1, <1>2

\* Each answer is told of its own record.
LEMMA ToldOf ==
    ASSUME NEW A, NEW B, NEW k
    PROVE  /\ Told(A \cup B, k) = Told(A, k) \cup Told(B, k)
           /\ A \subseteq B => Told(A, k) \subseteq Told(B, k)
           /\ (\A a \in A : a.key # k) => Told(A, k) = {}
           /\ A \subseteq Answers => Told(A, k) \subseteq Rows
BY DEF Told, Answers

\* One answer tells of one row, a deletion of none.
LEMMA ToldOne ==
    ASSUME NEW a, NEW k
    PROVE  Told({a}, k) = IF a.key = k THEN {a.row} \ {NoRow} ELSE {}
BY DEF Told

-----------------------------------------------------------------------------
(* Transactions                                                            *)

\* A session that is not in a transaction has nothing.
LEMMA IdleHolds ==
    /\ Idle \in Transactions
    /\ Idle.phase = "idle" /\ Mine(Idle) = {}
    /\ \A k \in Keys : Idle.view[k] = Unwritten
<1>1. (CHOOSE r \in Requests : TRUE) \in Requests
  BY StoreAssumption
<1>2. 0 \in 0 .. MaxCalls
  BY StoreAssumption
<1>3. Nothing \in Tables /\ [k \in Keys |-> Unwritten] \in [Keys -> Rows \cup {NoRow, Unwritten}]
  BY DEF Nothing, Tables
<1> QED  BY <1>1, <1>2, <1>3 DEF Idle, Scopes, Transactions, Mine

\* What the types say of one transaction and the row it finds.
LEMMA OfTransaction ==
    ASSUME TypeOK, NEW s \in Sessions
    PROVE  /\ tx[s] \in Transactions
           /\ tx[s].request \in Requests /\ WellFormed(tx[s].request)
           /\ tx[s].id \in 0 .. MaxCalls
           /\ tx[s].view \in [Keys -> Rows \cup {NoRow, Unwritten}]
           /\ Mine(tx[s]) \subseteq Answers
           /\ \A k \in Keys : Latest(s, k) \in Rows \cup {NoRow}
<1>1. /\ tx[s] \in Transactions /\ tx[s].request \in Requests
      /\ tx[s].id \in 0 .. MaxCalls
      /\ tx[s].view \in [Keys -> Rows \cup {NoRow, Unwritten}]
      /\ Mine(tx[s]) \subseteq Answers
  BY DEF TypeOK, Transactions, Mine
<1>2. \A k \in Keys : Latest(s, k) \in Rows \cup {NoRow}
  BY <1>1 DEF Latest, Wrote, TypeOK, Tables
<1> QED  BY <1>1, <1>2, StoreAssumption

-----------------------------------------------------------------------------
(* The mutations that have a record still to reach                         *)

\* Every version is a row.
LEMMA VersionsTyped ==
    ASSUME TypeOK, NEW k \in Keys
    PROVE  Versions(k) \subseteq Rows
<1>1. \A s \in Sessions : Told(Mine(tx[s]), k) \subseteq Rows
  BY OfTransaction, ToldOf
<1>2. \A s \in Sessions : tx[s].view[k] \in Rows \cup {NoRow, Unwritten}
  BY OfTransaction
<1>3. Told(known, k) \subseteq Rows
  BY ToldOf DEF TypeOK
<1>4. table[k] \in Rows \cup {NoRow}
  BY DEF TypeOK, Tables
<1> QED  BY <1>1, <1>2, <1>3, <1>4 DEF Versions

\* A step that lets no mutation start, and adds no row but fresh ones.
LEMMA PendingKept ==
    ASSUME IInv, NEW k \in Keys, calls' = calls,
           Pending(k)' \subseteq Pending(k),
           \A o \in Pending(k)' : tx'[o].id = tx[o].id,
           NEW fresh,
           Versions(k)' \subseteq Versions(k) \cup fresh,
           \A r \in fresh :
              /\ r.version + Cardinality(Pending(k)') <= calls
              /\ r.born <= calls
              /\ \A o \in Pending(k)' : r.born # tx[o].id
    PROVE  /\ IsFiniteSet(Pending(k)')
           /\ Cardinality(Pending(k)') <= calls'
           /\ \A r \in Versions(k)' : r.born <= calls' /\ Counted(r, k)'
<1>1. /\ IsFiniteSet(Pending(k)) /\ Cardinality(Pending(k)) <= calls
      /\ \A r \in Versions(k) : r.born <= calls /\ Counted(r, k)
      /\ calls \in Nat
  BY StoreAssumption DEF IInv, PendingHolds, TypeOK
<1>2. /\ IsFiniteSet(Pending(k)') /\ Cardinality(Pending(k)') <= Cardinality(Pending(k))
      /\ Cardinality(Pending(k)') \in Nat /\ Cardinality(Pending(k)) \in Nat
  BY <1>1, FS_Subset, FS_CardinalityType
<1>3. ASSUME NEW r \in Versions(k)'
      PROVE  /\ r.born <= calls
             /\ r.version + Cardinality(Pending(k)') <= calls
             /\ \A o \in Pending(k)' : r.born # tx'[o].id
  <2>1. CASE r \in fresh
    BY <2>1
  <2>2. CASE r \in Versions(k)
    <3>1. r.version \in Int
      BY <2>2, VersionsTyped DEF IInv, Rows, Calls
    <3> QED  BY <1>1, <1>2, <2>2, <3>1 DEF Counted
  <2> QED  BY <2>1, <2>2
<1> QED  BY <1>1, <1>2, <1>3 DEF Counted

-----------------------------------------------------------------------------
(* Steps that write nothing                                                *)

\* A step that takes a transaction on without a write, or takes back all of it.
LEMMA StepKeeps ==
    ASSUME IInv, NEW s \in Sessions, NEW t \in Transactions, GoesOn(s, t),
           Mine(t) \subseteq Mine(tx[s]),
           t.phase = "run" => /\ tx[s].phase = "run" /\ t.id = tx[s].id
                              /\ t.todo \subseteq tx[s].todo,
           \/ t.view = tx[s].view
           \/ Mine(t) = {} /\ \A k \in Keys : t.view[k] = Unwritten
    PROVE  IInv'
<1>1. /\ TypeOK /\ tx' = [tx EXCEPT ![s] = t]
      /\ \A o \in Sessions : tx'[o] = IF o = s THEN t ELSE tx[o]
      /\ table' = table /\ calls' = calls /\ known' = known
  BY DEF IInv, TypeOK, GoesOn
<1>2. TypeOK'
  <2>1. failed' \subseteq Calls
    BY StoreAssumption DEF IInv, TypeOK, GoesOn, IdsApart, Calls
  <2> QED  BY <1>1, <2>1 DEF TypeOK
<1>3. PendingHolds'
  <2>1. ASSUME NEW k \in Keys
        PROVE  Pending(k)' \subseteq Pending(k) /\ \A o \in Pending(k)' : tx'[o].id = tx[o].id
    BY <1>1 DEF Pending, Running
  <2>2. ASSUME NEW k \in Keys
        PROVE  Versions(k)' \subseteq Versions(k) \cup {}
    <3>1. ASSUME NEW o \in Sessions
          PROVE  Told(Mine(tx'[o]), k) \subseteq Told(Mine(tx[o]), k)
      BY <1>1, ToldOf
    <3>2. ASSUME NEW o \in Sessions
          PROVE  tx'[o].view[k] \in {tx[o].view[k], Unwritten}
      BY <1>1
    <3> QED  BY <1>1, <3>1, <3>2 DEF Versions
  <2>3. ASSUME NEW k \in Keys
        PROVE  /\ IsFiniteSet(Pending(k)')
               /\ Cardinality(Pending(k)') <= calls'
               /\ \A r \in Versions(k)' : r.born <= calls' /\ Counted(r, k)'
    <3>1. PICK none : none = {}
      OBVIOUS
    <3>2. /\ Versions(k)' \subseteq Versions(k) \cup none
          /\ \A r \in none : /\ r.version + Cardinality(Pending(k)') <= calls
                            /\ r.born <= calls
                            /\ \A o \in Pending(k)' : r.born # tx[o].id
      BY <2>2, <3>1
    <3> QED  BY <1>1, <2>1, <3>2, PendingKept
  <2> QED  BY <2>3 DEF PendingHolds
<1>4. IdsApart'
  BY <1>1 DEF IInv, IdsApart
<1>5. \A o \in Sessions, k \in Keys : Wrote(o, k)' => Wrote(o, k)
  BY <1>1 DEF Wrote
<1>6. WritersApart'
  BY <1>1, <1>5 DEF IInv, WritersApart, Writers
<1>7. AnswersHold'
  BY <1>1 DEF IInv, AnswersHold, Wrote
<1>8. LinesHold'
  <2>1. ASSUME NEW k \in Keys, NEW o \in Sessions
        PROVE  Line(Told(known \cup Mine(tx'[o]), k), Latest(o, k)')
    <3>1. CASE tx'[o].view = tx[o].view
      <4>1. Latest(o, k)' = Latest(o, k)
        BY <1>1, <3>1 DEF Latest, Wrote
      <4>2. Told(known \cup Mine(tx'[o]), k) \subseteq Told(known \cup Mine(tx[o]), k)
        BY <1>1, ToldOf
      <4> QED  BY <4>1, <4>2, LineShrinks DEF IInv, LinesHold
    <3>2. CASE Mine(tx'[o]) = {} /\ \A j \in Keys : tx'[o].view[j] = Unwritten
      <4>1. Latest(o, k)' = table[k]
        BY <1>1, <3>2 DEF Latest, Wrote
      <4> QED  BY <3>2, <4>1 DEF IInv, LinesHold
    <3> QED  BY <1>1, <3>1, <3>2
  <2> QED  BY <1>1, <2>1 DEF IInv, LinesHold
<1> QED  BY <1>1, <1>2, <1>3, <1>4, <1>6, <1>7, <1>8 DEF IInv, ConditionsHeld

\* A row that a statement passes over.
LEMMA PassKeeps ==
    ASSUME IInv, NEW s \in Sessions, NEW k \in Keys, Running(s, k),
           Continue(s, Passed(tx[s], k))
    PROVE  IInv'
<1> DEFINE t == Passed(tx[s], k)
<1>1. tx[s] \in Transactions
  BY OfTransaction DEF IInv
<1>2. /\ t \in Transactions
      /\ t.phase = tx[s].phase /\ t.id = tx[s].id /\ t.todo = tx[s].todo \ {k}
      /\ t.view = tx[s].view
      /\ Mine(t) = Mine(tx[s])
  BY <1>1 DEF Passed, Transactions, Mine
<1>3. GoesOn(s, t)
  BY DEF Continue, GoesOn
<1> HIDE DEF t
<1> QED  BY <1>2, <1>3, StepKeeps DEF Running

\* A rollback takes back all that was written and answered, of a failed statement too.
LEMMA IdleKeeps ==
    ASSUME IInv, NEW s \in Sessions,
           Continue(s, Idle) \/ (tx[s].phase = "run" /\ Raise(s, Idle))
    PROVE  IInv'
<1>1. GoesOn(s, Idle)
  BY DEF Continue, Raise, GoesOn
<1> QED  BY <1>1, IdleHolds, StepKeeps

\* At its end a statement answers what it changed, or nothing.
LEMMA OpenedKeeps ==
    ASSUME IInv, NEW s \in Sessions, tx[s].phase = "run", NEW answers \in {{}, tx[s].hits},
           Continue(s, Opened(tx[s], answers)) \/ Raise(s, Opened(tx[s], answers))
    PROVE  IInv'
<1>1. tx[s] \in Transactions
  BY OfTransaction DEF IInv
<1> DEFINE t == Opened(tx[s], answers)
<1>2. /\ t \in Transactions
      /\ t.phase = "open" /\ t.view = tx[s].view
      /\ t.hits = {} /\ t.given = tx[s].given \cup answers
  <2>1. Idle \in Transactions /\ Idle.hits = {}
    BY IdleHolds DEF Mine
  <2> QED  BY <1>1, <2>1 DEF Transactions, Opened
<1>3. GoesOn(s, t)
  BY DEF Continue, Raise, GoesOn
<1> HIDE DEF t
<1> QED  BY <1>2, <1>3, StepKeeps DEF Mine

\* An answer, and a refusal with what it leaves of the transaction.
LEMMA EndKeeps ==
    ASSUME IInv, NEW s \in Sessions, Answer(s) \/ Refuse(s)
    PROVE  IInv'
<1>1. tx[s].phase = "run"
  BY DEF Answer, Refuse, Over
<1>2. \E answers \in {{}, tx[s].hits} :
         \/ Continue(s, Opened(tx[s], answers)) \/ Raise(s, Opened(tx[s], answers))
         \/ Raise(s, Idle)
  BY DEF Answer, Refuse
<1> QED  BY <1>1, <1>2, OpenedKeeps, IdleKeeps

-----------------------------------------------------------------------------
(* A row is written                                                        *)

\* What a mutation may make of the row it finds: nothing, the first version of a
\* new one, the next version, or the same one with other fields.
Follows(s, old, row) ==
    \/ row = NoRow
    \/ row # NoRow /\ row.version = 1 /\ row.born = tx[s].id
    \/ /\ old # NoRow /\ row # NoRow /\ row.born = old.born
       /\ row.version = old.version + 1
    \/ /\ old # NoRow /\ row # NoRow /\ row.born = old.born
       /\ row.version = old.version /\ row.by = old.by

\* The transaction after a write.
LEMMA OfChange ==
    ASSUME IInv, NEW s \in Sessions, NEW k \in Keys, NEW row \in Rows \cup {NoRow},
           tx[s].phase = "run"
    PROVE  \E t \in Transactions, a \in Answers :
              /\ Changed(s, k, row) = t
              /\ a.key = k /\ a.op = tx[s].request.op /\ a.expected = tx[s].request.expected
              /\ a.from = Latest(s, k) /\ a.row = row
              /\ t.phase = "run" /\ t.id = tx[s].id /\ t.todo = tx[s].todo \ {k}
              /\ Mine(t) = Mine(tx[s]) \cup {a}
              /\ t.hits = tx[s].hits \cup {a} /\ t.work = tx[s].work \cup {tx[s].id}
              /\ \A j \in Keys : t.view[j] = IF j = k THEN row ELSE tx[s].view[j]
<1>1. /\ tx[s] \in Transactions /\ WellFormed(tx[s].request) /\ Latest(s, k) \in Rows \cup {NoRow}
      /\ tx[s].id \in Calls
  BY OfTransaction, StoreAssumption DEF IInv, IdsApart, TypeOK, Calls
<1> DEFINE a == [key |-> k, op |-> tx[s].request.op, expected |-> tx[s].request.expected,
                 from |-> Latest(s, k), row |-> row]
           t == [Passed(tx[s], k) EXCEPT !.hits = @ \cup {a}, !.view[k] = row,
                                         !.work = @ \cup {tx[s].id}]
<1>2. a \in Answers
  BY <1>1 DEF Answers, WellFormed
<1>3. tx[s].view \in [Keys -> Rows \cup {NoRow, Unwritten}] /\ tx[s].work \subseteq Calls
  BY <1>1 DEF Transactions
<1>4. Changed(s, k, row) = t
  BY <1>1, <1>3 DEF Changed, Passed, Transactions
<1>5. a.key = k /\ a.op = tx[s].request.op /\ a.expected = tx[s].request.expected
      /\ a.from = Latest(s, k) /\ a.row = row
  OBVIOUS
<1> HIDE DEF a
<1>6. /\ t.phase = "run" /\ t.id = tx[s].id /\ t.todo = tx[s].todo \ {k}
      /\ t.hits = tx[s].hits \cup {a} /\ t.given = tx[s].given
      /\ t.view = [tx[s].view EXCEPT ![k] = row]
      /\ t.work = tx[s].work \cup {tx[s].id}
  BY <1>1 DEF Passed, Transactions
<1>7. \A j \in Keys : t.view[j] = IF j = k THEN row ELSE tx[s].view[j]
  BY <1>3, <1>6
<1>8. t \in Transactions
  <2> DEFINE u == Passed(tx[s], k)
             view == [u.view EXCEPT ![k] = row]
             work == u.work \cup {tx[s].id}
             hits == u.hits \cup {a}
  <2>1. u \in Transactions
    BY <1>1 DEF Passed, Transactions
  <2>2. t = [u EXCEPT !.hits = hits, !.view = view, !.work = work]
    BY <2>1 DEF Transactions
  <2>3. /\ view \in [Keys -> Rows \cup {NoRow, Unwritten}]
        /\ work \in SUBSET Calls /\ hits \in SUBSET Answers
    BY <1>1, <1>2, <1>3, <2>1 DEF Transactions
  <2> HIDE DEF t, u, view, work, hits
  <2> QED  BY <2>1, <2>2, <2>3 DEF Transactions
<1>9. Mine(t) = Mine(tx[s]) \cup {a}
  BY <1>6 DEF Mine
<1> HIDE DEF t
<1> QED  BY <1>2, <1>4, <1>5, <1>6, <1>7, <1>8, <1>9

\* A write keeps the invariant: a row is written only when nobody else has written
\* it, from the row the session finds.
LEMMA ChangeKeeps ==
    ASSUME IInv, NEW s \in Sessions, NEW k \in Keys, NEW row \in Rows \cup {NoRow},
           Running(s, k), Writers(s, k) = {}, Continue(s, Changed(s, k, row)),
           Follows(s, Latest(s, k), row),
           tx[s].request.expected # NoGuard =>
              Latest(s, k) # NoRow /\ Latest(s, k).version = tx[s].request.expected,
           tx[s].request.op = "claim" =>
              Latest(s, k) # NoRow /\ Latest(s, k).value = "free"
    PROVE  IInv'
<1>1. PICK t \in Transactions, a \in Answers :
         /\ Changed(s, k, row) = t
         /\ a.key = k /\ a.op = tx[s].request.op /\ a.expected = tx[s].request.expected
         /\ a.from = Latest(s, k) /\ a.row = row
         /\ t.phase = "run" /\ t.id = tx[s].id /\ t.todo = tx[s].todo \ {k}
         /\ Mine(t) = Mine(tx[s]) \cup {a}
         /\ \A j \in Keys : t.view[j] = IF j = k THEN row ELSE tx[s].view[j]
  BY OfChange DEF Running
<1>2. /\ TypeOK /\ tx' = [tx EXCEPT ![s] = t]
      /\ \A o \in Sessions : tx'[o] = IF o = s THEN t ELSE tx[o]
      /\ table' = table /\ calls' = calls /\ known' = known /\ failed' = failed
  BY <1>1 DEF IInv, TypeOK, Continue
<1>3. TypeOK'
  BY <1>2 DEF TypeOK
<1>4. row # Unwritten /\ Latest(s, k) \in Rows \cup {NoRow}
  BY <1>2, OfTransaction, StoreAssumption
<1>5. /\ \A o \in Sessions \ {s} : ~Wrote(o, k) /\ \A b \in Mine(tx[o]) : b.key # k
      /\ \A o \in Sessions \ {s}, j \in Keys : /\ Wrote(o, j)' <=> Wrote(o, j)
                                               /\ Latest(o, j)' = Latest(o, j)
      /\ \A j \in Keys : /\ Wrote(s, j)' <=> j = k \/ Wrote(s, j)
                         /\ Latest(s, j)' = IF j = k THEN row ELSE Latest(s, j)
  <2>1. \A o \in Sessions \ {s} : ~Wrote(o, k)
    BY DEF Writers
  <2>2. \A o \in Sessions \ {s} : \A b \in Mine(tx[o]) : b.key # k
    BY <2>1 DEF IInv, AnswersHold
  <2> QED  BY <1>1, <1>2, <1>4, <2>1, <2>2 DEF Wrote, Latest
<1>6. \A j \in Keys :
         /\ Pending(j)' = IF j = k THEN Pending(j) \ {s} ELSE Pending(j)
         /\ \A o \in Pending(j)' : tx'[o].id = tx[o].id
  BY <1>1, <1>2 DEF Pending, Running
<1>7. \A A, j : Told(A \cup Mine(t), j) =
         Told(A \cup Mine(tx[s]), j) \cup (IF j = k THEN {row} \ {NoRow} ELSE {})
  <2> SUFFICES ASSUME NEW A, NEW j
               PROVE  Told(A \cup Mine(t), j) =
                         Told(A \cup Mine(tx[s]), j) \cup (IF j = k THEN {row} \ {NoRow} ELSE {})
    OBVIOUS
  <2>1. A \cup Mine(t) = (A \cup Mine(tx[s])) \cup {a}
    BY <1>1
  <2>2. Told({a}, j) = IF j = k THEN {row} \ {NoRow} ELSE {}
    BY <1>1, ToldOne
  <2> QED  BY <2>1, <2>2, ToldOf
<1>8. PendingHolds'
  <2>1. ASSUME NEW j \in Keys
        PROVE  Versions(j)' \subseteq Versions(j) \cup (IF j = k THEN {row} \ {NoRow} ELSE {})
    <3>1. Told(Mine(t), j) \subseteq Told(Mine(tx[s]), j)
                                        \cup (IF j = k THEN {row} \ {NoRow} ELSE {})
      <4>1. {} \cup Mine(t) = Mine(t) /\ {} \cup Mine(tx[s]) = Mine(tx[s])
        OBVIOUS
      <4> QED  BY <1>7, <4>1
    <3>2. t.view[j] \in {tx[s].view[j]} \cup (IF j = k THEN {row} ELSE {})
      BY <1>1
    <3> QED  BY <1>2, <3>1, <3>2 DEF Versions
  <2>2. /\ s \in Pending(k) /\ IsFiniteSet(Pending(k))
        /\ Cardinality(Pending(k)) <= calls /\ calls \in Nat
        /\ Cardinality(Pending(k) \ {s}) = Cardinality(Pending(k)) - 1
        /\ Cardinality(Pending(k)) \in Nat
    <3>1. s \in Pending(k) /\ IsFiniteSet(Pending(k))
          /\ Cardinality(Pending(k)) <= calls /\ calls \in Nat
      BY StoreAssumption DEF IInv, PendingHolds, Pending, TypeOK
    <3> QED  BY <3>1, FS_RemoveElement, FS_CardinalityType
  <2>3. ASSUME row # NoRow
        PROVE  /\ row.version + Cardinality(Pending(k) \ {s}) <= calls
               /\ row.born <= calls
               /\ \A o \in Pending(k) \ {s} : row.born # tx[o].id
    <3>1. CASE row.version = 1 /\ row.born = tx[s].id
      BY <2>2, <3>1 DEF IInv, IdsApart, Pending, Running
    <3>2. CASE /\ Latest(s, k) # NoRow /\ row.born = Latest(s, k).born
               /\ row.version \in {Latest(s, k).version, Latest(s, k).version + 1}
      <4>1. Latest(s, k) \in Versions(k)
        BY <1>4, <3>2, StoreAssumption DEF Latest, Versions
      <4>2. Latest(s, k).born <= calls /\ Counted(Latest(s, k), k)
        BY <4>1 DEF IInv, PendingHolds
      <4>3. Latest(s, k).version \in Nat
        BY <1>4, <3>2 DEF Rows, Calls
      <4> HIDE DEF Latest
      <4> QED  BY <2>2, <3>2, <4>2, <4>3 DEF Counted
    <3> QED  BY <2>3, <3>1, <3>2 DEF Follows
  <2>4. ASSUME NEW j \in Keys
        PROVE  /\ IsFiniteSet(Pending(j)')
               /\ Cardinality(Pending(j)') <= calls'
               /\ \A r \in Versions(j)' : r.born <= calls' /\ Counted(r, j)'
    <3>1. PICK fresh : fresh = IF j = k THEN {row} \ {NoRow} ELSE {}
      OBVIOUS
    <3>2. \A r \in fresh : /\ r.version + Cardinality(Pending(j)') <= calls
                           /\ r.born <= calls
                           /\ \A o \in Pending(j)' : r.born # tx[o].id
      BY <1>6, <2>3, <3>1
    <3>3. Versions(j)' \subseteq Versions(j) \cup fresh /\ Pending(j)' \subseteq Pending(j)
      BY <1>6, <2>1, <3>1
    <3> QED  BY <1>2, <1>6, <3>2, <3>3, PendingKept
  <2> QED  BY <2>4 DEF PendingHolds
<1>9. IdsApart'
  BY <1>1, <1>2 DEF IInv, IdsApart, Running
<1>10. WritersApart'
  <2>1. \A j \in Keys : Wrote(s, j)' => Writers(s, j)' = {}
    <3>1. ASSUME NEW j \in Keys, Wrote(s, j)'
          PROVE  Writers(s, j) = {}
      BY <1>5, <3>1 DEF IInv, WritersApart
    <3> QED  BY <1>5, <3>1 DEF Writers
  <2>2. \A o \in Sessions \ {s}, j \in Keys : Wrote(o, j) => j # k /\ Writers(o, j)' = {}
    <3>1. ASSUME NEW o \in Sessions \ {s}, NEW j \in Keys, Wrote(o, j)
          PROVE  j # k /\ Writers(o, j) = {}
      BY <1>5, <3>1 DEF IInv, WritersApart
    <3> QED  BY <1>5, <3>1 DEF Writers
  <2> QED  BY <1>5, <2>1, <2>2 DEF WritersApart
<1>11. AnswersHold'
  <2>1. Held(a)
    BY <1>1 DEF Held
  <2>2. \A b \in Mine(t) : Wrote(s, b.key)' /\ Held(b)
    <3>1. \A b \in Mine(tx[s]) : b.key \in Keys /\ Wrote(s, b.key) /\ Held(b)
      BY <1>2, OfTransaction DEF IInv, AnswersHold, Answers
    <3>2. \A b \in Mine(t) : b \in Mine(tx[s]) \/ b = a
      BY <1>1
    <3> QED  BY <1>1, <1>5, <2>1, <3>1, <3>2
  <2>3. \A o \in Sessions \ {s} : \A b \in Mine(tx[o]) : Wrote(o, b.key)' /\ Held(b)
    <3>1. \A o \in Sessions : \A b \in Mine(tx[o]) : b.key \in Keys
      BY <1>2, OfTransaction DEF Answers
    <3> QED  BY <1>5, <3>1 DEF IInv, AnswersHold
  <2> QED  BY <1>2, <2>2, <2>3 DEF AnswersHold
<1>12. LinesHold'
  <2>1. ASSUME NEW j \in Keys
        PROVE  Line(Told(known \cup Mine(t), j), Latest(s, j)')
    <3>1. Line(Told(known \cup Mine(tx[s]), j), Latest(s, j))
      BY DEF IInv, LinesHold
    <3>2. CASE j # k
      <4>1. Told(known \cup Mine(t), j) = Told(known \cup Mine(tx[s]), j)
        <5>1. Told(known \cup Mine(t), j) =
                 Told(known \cup Mine(tx[s]), j) \cup (IF j = k THEN {row} \ {NoRow} ELSE {})
          BY <1>7
        <5>2. (IF j = k THEN {row} \ {NoRow} ELSE {}) = {}
          BY <3>2
        <5> QED  BY <5>1, <5>2
      <4>2. Latest(s, j)' = Latest(s, j)
        BY <1>5, <3>2
      <4> QED  BY <3>1, <4>1, <4>2
    <3>3. CASE j = k
      <4>1. PICK rows, old : rows = Told(known \cup Mine(tx[s]), k) /\ old = Latest(s, k)
        OBVIOUS
      <4>2. rows \subseteq Rows
        <5>1. known \cup Mine(tx[s]) \subseteq Answers
          BY <1>2, OfTransaction DEF TypeOK
        <5> QED  BY <4>1, <5>1, ToldOf
      <4>3. ASSUME row.born = tx[s].id
            PROVE  \A p \in rows : p.born # row.born
        <5>1. rows \subseteq Versions(k)
          <6>1. rows = Told(known, k) \cup Told(Mine(tx[s]), k)
            BY <4>1, ToldOf
          <6> QED  BY <4>2, <6>1, StoreAssumption DEF Versions
        <5>2. s \in Pending(k)
          BY DEF Pending
        <5> QED  BY <4>3, <5>1, <5>2 DEF IInv, PendingHolds, Counted
      <4>4. Line(rows \cup ({row} \ {NoRow}), row)
        <5>1. Line(rows, old) /\ old \in Rows \cup {NoRow} /\ Follows(s, old, row)
          BY <1>4, <3>1, <3>3, <4>1
        <5> QED  BY <4>2, <4>3, <5>1, LineGrows DEF Follows
      <4> QED  BY <1>5, <1>7, <3>3, <4>1, <4>4
    <3> QED  BY <3>2, <3>3
  <2>2. \A o \in Sessions \ {s}, j \in Keys : Line(Told(known \cup Mine(tx[o]), j), Latest(o, j)')
    BY <1>5 DEF IInv, LinesHold
  <2>3. \A j \in Keys : Line(Told(known, j), table[j])
    BY DEF IInv, LinesHold
  <2> QED  BY <1>2, <2>1, <2>2, <2>3 DEF LinesHold
<1> QED  BY <1>2, <1>3, <1>8, <1>9, <1>10, <1>11, <1>12 DEF IInv, ConditionsHeld

-----------------------------------------------------------------------------
(* The actions                                                             *)

\* The first version, a next version and an overwritten one are rows.  The next
\* version is within its bound because the statement has yet to be counted.
LEMMA RowsMade ==
    ASSUME IInv, NEW s \in Sessions, NEW k \in Keys, Running(s, k)
    PROVE  /\ First(s) \in Rows /\ First(s).version = 1 /\ First(s).born = tx[s].id
           /\ Latest(s, k) # NoRow =>
                 /\ Successor(s, Latest(s, k)) \in Rows
                 /\ Successor(s, Latest(s, k)).born = Latest(s, k).born
                 /\ Successor(s, Latest(s, k)).version = Latest(s, k).version + 1
                 /\ Overwritten(s, Latest(s, k)) \in Rows
                 /\ Overwritten(s, Latest(s, k)).born = Latest(s, k).born
                 /\ Overwritten(s, Latest(s, k)).version = Latest(s, k).version
                 /\ Overwritten(s, Latest(s, k)).by = Latest(s, k).by
<1>1. /\ tx[s].id \in Calls /\ calls \in Nat /\ calls <= MaxCalls /\ MaxCalls \in Nat
      /\ tx[s].request.value \in Values
  <2>1. WellFormed(tx[s].request)
    BY OfTransaction DEF IInv
  <2> QED  BY <2>1, StoreAssumption DEF IInv, TypeOK, IdsApart, Running, Calls, WellFormed
<1>2. First(s) \in Rows /\ First(s).version = 1 /\ First(s).born = tx[s].id
  BY <1>1 DEF First, Rows, Calls
<1>3. ASSUME NEW row \in Rows, row = Latest(s, k), row # NoRow
      PROVE  /\ Successor(s, row) \in Rows
             /\ Successor(s, row).born = row.born
             /\ Successor(s, row).version = row.version + 1
             /\ Overwritten(s, row) \in Rows
             /\ Overwritten(s, row).born = row.born
             /\ Overwritten(s, row).version = row.version
             /\ Overwritten(s, row).by = row.by
  <2>1. row \in Versions(k)
    BY <1>3, StoreAssumption DEF Latest, Versions
  <2>2. row.version + Cardinality(Pending(k)) <= calls
    BY <2>1 DEF IInv, PendingHolds, Counted
  <2>3. Cardinality(Pending(k)) \in Nat \ {0}
    <3>1. IsFiniteSet(Pending(k)) /\ s \in Pending(k)
      BY DEF IInv, PendingHolds, Pending
    <3> QED  BY <3>1, FS_EmptySet, FS_CardinalityType
  <2>4. row.version + 1 \in Calls
    BY <1>1, <2>2, <2>3 DEF Rows, Calls
  <2> QED  BY <1>1, <2>4 DEF Successor, Overwritten, Rows
<1>4. Latest(s, k) \in Rows \cup {NoRow}
  BY OfTransaction DEF IInv
<1> QED  BY <1>2, <1>3, <1>4

\* Each of the outcomes of an INSERT.
LEMMA InsertKeeps ==
    ASSUME IInv, NEW s \in Sessions, NEW k \in Keys, Insert(s, k)
    PROVE  IInv'
<1> DEFINE row == Latest(s, k)
           op == tx[s].request.op
<1>1. /\ Running(s, k) /\ Writers(s, k) = {} /\ row \in Rows \cup {NoRow}
      /\ tx[s].request.expected = NoGuard /\ op # "claim"
      /\ op \in {"if_absent", "upsert", "import"}
  BY OfTransaction DEF Insert, Inserts, IInv
<1>2. \/ row = NoRow /\ Continue(s, Changed(s, k, First(s)))
      \/ row # NoRow /\ Continue(s, Changed(s, k, Successor(s, row)))
      \/ row # NoRow /\ Continue(s, Changed(s, k, Overwritten(s, row)))
      \/ Raise(s, Idle)
  <2> HIDE DEF row
  <2>1. CASE row = NoRow
    BY <2>1 DEF Insert, row
  <2>2. CASE row # NoRow /\ op = "upsert"
    BY <2>2 DEF Insert, row
  <2>3. CASE row # NoRow /\ op = "import"
    BY <2>3 DEF Insert, row
  <2>4. CASE row # NoRow /\ op = "if_absent"
    BY <2>4 DEF Insert, row
  <2> QED  BY <1>1, <2>1, <2>2, <2>3, <2>4
<1>3. ASSUME NEW new \in Rows, Continue(s, Changed(s, k, new)), Follows(s, row, new)
      PROVE  IInv'
  BY <1>1, <1>3, ChangeKeeps
<1>4. CASE row = NoRow /\ Continue(s, Changed(s, k, First(s)))
  <2>1. First(s) \in Rows /\ Follows(s, row, First(s))
    BY <1>1, RowsMade, StoreAssumption DEF Follows
  <2> QED  BY <1>3, <1>4, <2>1
<1>5. CASE row # NoRow /\ Continue(s, Changed(s, k, Successor(s, row)))
  <2>1. Successor(s, row) \in Rows /\ Follows(s, row, Successor(s, row))
    BY <1>1, <1>5, RowsMade, StoreAssumption DEF Follows
  <2> QED  BY <1>3, <1>5, <2>1
<1>6. CASE row # NoRow /\ Continue(s, Changed(s, k, Overwritten(s, row)))
  <2>1. Overwritten(s, row) \in Rows /\ Follows(s, row, Overwritten(s, row))
    BY <1>1, <1>6, RowsMade, StoreAssumption DEF Follows
  <2> QED  BY <1>3, <1>6, <2>1
<1>7. CASE Raise(s, Idle)
  BY <1>1, <1>7, IdleKeeps DEF Running
<1> QED  BY <1>2, <1>4, <1>5, <1>6, <1>7

\* A successor of a row that meets the conditions of its mutation.
LEMMA SuccessorKeeps ==
    ASSUME IInv, NEW s \in Sessions, NEW k \in Keys, Running(s, k), Writers(s, k) = {},
           Confirmed(s, k), NEW new, new \in {NoRow, Successor(s, Latest(s, k))},
           Continue(s, Changed(s, k, new))
    PROVE  IInv'
<1>1. /\ Latest(s, k) # NoRow
      /\ tx[s].request.expected # NoGuard => Latest(s, k).version = tx[s].request.expected
      /\ tx[s].request.op = "claim" => Latest(s, k).value = "free"
  BY DEF Confirmed, Meets
<1>2. new \in Rows \cup {NoRow} /\ Follows(s, Latest(s, k), new)
  <2>1. /\ Successor(s, Latest(s, k)) \in Rows
        /\ Successor(s, Latest(s, k)).born = Latest(s, k).born
        /\ Successor(s, Latest(s, k)).version = Latest(s, k).version + 1
    BY <1>1, RowsMade
  <2> QED  BY <1>1, <2>1, StoreAssumption DEF Follows
<1> QED  BY <1>1, <1>2, ChangeKeeps

\* An UPDATE or DELETE changes a confirmed row, and passes any other.
LEMMA ModifyKeeps ==
    ASSUME IInv, NEW s \in Sessions, NEW k \in Keys, Modify(s, k)
    PROVE  IInv'
<1>1. Running(s, k) /\ Writers(s, k) = {}
  BY DEF Modify
<1>2. CASE ~Confirmed(s, k)
  BY <1>1, <1>2, PassKeeps DEF Modify
<1>3. CASE Confirmed(s, k)
  <2> DEFINE new == IF tx[s].request.op = "delete" THEN NoRow ELSE Successor(s, Latest(s, k))
  <2>1. Continue(s, Changed(s, k, new)) /\ new \in {NoRow, Successor(s, Latest(s, k))}
    BY <1>3 DEF Modify
  <2> HIDE DEF new
  <2> QED  BY <1>1, <1>3, <2>1, SuccessorKeeps
<1> QED  BY <1>2, <1>3

\* A claim takes a row that nobody is writing and that is confirmed.
LEMMA ClaimKeeps ==
    ASSUME IInv, NEW s \in Sessions, NEW k \in Keys, Claim(s, k)
    PROVE  IInv'
<1>1. Running(s, k)
  BY DEF Claim
<1>2. CASE Writers(s, k) = {} /\ Confirmed(s, k)
  <2>1. Continue(s, Changed(s, k, Successor(s, Latest(s, k))))
    BY <1>2 DEF Claim
  <2> QED  BY <1>1, <1>2, <2>1, SuccessorKeeps
<1>3. CASE ~(Writers(s, k) = {} /\ Confirmed(s, k))
  BY <1>1, <1>3, PassKeeps DEF Claim
<1> QED  BY <1>2, <1>3

\* A statement starts: one more mutation, which no version is from yet.
LEMMA CallKeeps ==
    ASSUME IInv, NEW s \in Sessions, NEW r \in Requests, Call(s, r)
    PROVE  IInv'
<1> DEFINE seen == [k \in Keys |-> Latest(s, k)]
           todo == {k \in r.keys : Inserts(r) \/ Meets(r, seen[k])}
           T(scope) == [tx[s] EXCEPT !.phase = "run", !.scope = scope, !.id = calls + 1,
                                     !.request = r, !.snapshot = seen, !.hits = {},
                                     !.todo = todo]
<1>1. /\ TypeOK /\ tx[s] \in Transactions /\ WellFormed(r)
      /\ calls \in Nat /\ MaxCalls \in Nat /\ calls < MaxCalls
      /\ calls' = calls + 1 /\ table' = table /\ known' = known /\ failed' = failed
  <2>1. TypeOK /\ tx[s] \in Transactions /\ WellFormed(r)
    BY OfTransaction, StoreAssumption DEF IInv
  <2>2. calls \in Nat /\ MaxCalls \in Nat
    BY <2>1, StoreAssumption DEF TypeOK
  <2> QED  BY <2>1, <2>2 DEF Call
<1>2. PICK scope \in Scopes : tx' = [tx EXCEPT ![s] = T(scope)]
  <2>1. PICK scope \in ScopesOf(r) :
           tx' = [tx EXCEPT ![s].phase = "run", ![s].scope = scope,
                            ![s].id = calls + 1, ![s].request = r,
                            ![s].snapshot = seen, ![s].hits = {}, ![s].todo = todo]
    BY DEF Call
  <2>2. scope \in Scopes
    BY DEF ScopesOf, Scopes
  <2> HIDE DEF seen, todo
  <2>3. tx' = [tx EXCEPT ![s] = T(scope)]
    BY <1>1, <2>1 DEF TypeOK, Transactions
  <2> QED  BY <2>2, <2>3
<1> DEFINE t == T(scope)
<1>3. /\ t \in Transactions /\ tx' = [tx EXCEPT ![s] = t]
      /\ t.phase = "run" /\ t.id = calls + 1 /\ t.view = tx[s].view
      /\ Mine(t) \subseteq Mine(tx[s])
  <2>1. seen \in Tables
    BY <1>1, OfTransaction DEF Tables
  <2> HIDE DEF seen
  <2>2. todo \in SUBSET Keys
    BY <1>1 DEF WellFormed
  <2> HIDE DEF todo
  <2>3. calls + 1 \in 0 .. MaxCalls
    BY <1>1
  <2>4. t.hits = {} /\ t.given = tx[s].given
    BY <1>1 DEF Transactions
  <2> QED  BY <1>1, <1>2, <2>1, <2>2, <2>3, <2>4 DEF Transactions, Mine
<1> HIDE DEF t, T
<1>4. /\ \A o \in Sessions : tx'[o] = IF o = s THEN t ELSE tx[o]
      /\ TypeOK'
  <2>1. tx' \in [Sessions -> Transactions] /\ calls' \in 0 .. MaxCalls
    BY <1>1, <1>3 DEF TypeOK
  <2> QED  BY <1>1, <1>3, <2>1 DEF TypeOK
<1>5. \A k \in Keys : /\ Versions(k)' \subseteq Versions(k)
                      /\ Pending(k)' \subseteq Pending(k) \cup {s}
                      /\ \A o \in Sessions : Latest(o, k)' = Latest(o, k)
                      /\ \A o \in Sessions : Wrote(o, k)' <=> Wrote(o, k)
  <2> SUFFICES ASSUME NEW k \in Keys
               PROVE  /\ Versions(k)' \subseteq Versions(k)
                      /\ Pending(k)' \subseteq Pending(k) \cup {s}
                      /\ \A o \in Sessions : Latest(o, k)' = Latest(o, k)
                      /\ \A o \in Sessions : Wrote(o, k)' <=> Wrote(o, k)
    OBVIOUS
  <2>1. \A o \in Sessions : Told(Mine(tx'[o]), k) \subseteq Told(Mine(tx[o]), k)
    BY <1>3, <1>4, ToldOf
  <2>2. \A o \in Sessions : tx'[o].view = tx[o].view
    BY <1>3, <1>4
  <2>3. Versions(k)' \subseteq Versions(k)
    BY <1>1, <2>1, <2>2 DEF Versions
  <2> QED  BY <1>1, <1>4, <2>2, <2>3 DEF Pending, Running, Latest, Wrote
<1>6. PendingHolds'
  <2>1. ASSUME NEW k \in Keys
        PROVE  /\ IsFiniteSet(Pending(k)')
               /\ Cardinality(Pending(k)') <= calls'
               /\ \A v \in Versions(k)' : v.born <= calls' /\ Counted(v, k)'
    <3>1. /\ IsFiniteSet(Pending(k)) /\ Cardinality(Pending(k)) <= calls
          /\ \A v \in Versions(k) : v.born <= calls /\ Counted(v, k)
      BY DEF IInv, PendingHolds
    <3>2. /\ IsFiniteSet(Pending(k) \cup {s}) /\ Cardinality(Pending(k)) \in Nat
          /\ Cardinality(Pending(k) \cup {s}) \in Nat
          /\ Cardinality(Pending(k) \cup {s}) <= Cardinality(Pending(k)) + 1
      <4>1. /\ IsFiniteSet(Pending(k) \cup {s})
            /\ Cardinality(Pending(k) \cup {s}) \in
                  {Cardinality(Pending(k)), Cardinality(Pending(k)) + 1}
        BY <3>1, FS_AddElement
      <4>2. Cardinality(Pending(k)) \in Nat
        BY <3>1, FS_CardinalityType
      <4> QED  BY <4>1, <4>2
    <3>3. /\ IsFiniteSet(Pending(k)') /\ Cardinality(Pending(k)') \in Nat
          /\ Cardinality(Pending(k)') <= Cardinality(Pending(k)) + 1
      <4>1. /\ IsFiniteSet(Pending(k)') /\ Cardinality(Pending(k)') \in Nat
            /\ Cardinality(Pending(k)') <= Cardinality(Pending(k) \cup {s})
        BY <1>5, <3>2, FS_Subset, FS_CardinalityType
      <4> QED  BY <3>2, <4>1
    <3>4. ASSUME NEW v \in Versions(k)'
          PROVE  /\ v.born <= calls'
                 /\ v.version + Cardinality(Pending(k)') <= calls'
                 /\ \A o \in Pending(k)' : v.born # tx'[o].id
      <4>1. v \in Versions(k) /\ v \in Rows
        BY <1>1, <1>5, VersionsTyped
      <4>2. v.version \in Nat /\ v.born \in Nat
        BY <4>1 DEF Rows, Calls
      <4>3. /\ v.born <= calls /\ v.version + Cardinality(Pending(k)) <= calls
            /\ \A o \in Pending(k) : v.born # tx[o].id
        BY <3>1, <4>1 DEF Counted
      <4>4. \A o \in Pending(k)' : o \in Sessions /\ (o # s => o \in Pending(k))
        BY <1>5 DEF Pending
      <4> QED  BY <1>1, <1>3, <1>4, <3>2, <3>3, <4>2, <4>3, <4>4
    <3> QED  BY <1>1, <3>1, <3>2, <3>3, <3>4 DEF Counted
  <2> QED  BY <2>1 DEF PendingHolds
<1>7. IdsApart'
  BY <1>1, <1>3, <1>4 DEF IInv, IdsApart
<1>8. WritersApart'
  BY <1>1, <1>3, <1>4, <1>5 DEF IInv, WritersApart, Writers
<1>9. AnswersHold'
  <2>1. \A o \in Sessions : \A a \in Mine(tx'[o]) :
           a.key \in Keys /\ Wrote(o, a.key) /\ Held(a)
    BY <1>1, <1>3, <1>4, OfTransaction DEF IInv, AnswersHold, Answers
  <2> QED  BY <1>5, <2>1 DEF AnswersHold
<1>10. LinesHold'
  <2>1. ASSUME NEW k \in Keys, NEW o \in Sessions
        PROVE  Line(Told(known \cup Mine(tx'[o]), k), Latest(o, k)')
    <3>1. Told(known \cup Mine(tx'[o]), k) \subseteq Told(known \cup Mine(tx[o]), k)
      <4>1. known \cup Mine(tx'[o]) \subseteq known \cup Mine(tx[o])
        BY <1>3, <1>4
      <4> QED  BY <4>1, ToldOf
    <3>2. Latest(o, k)' = Latest(o, k)
      BY <1>5
    <3> QED  BY <3>1, <3>2, LineShrinks DEF IInv, LinesHold
  <2> QED  BY <1>1, <2>1 DEF IInv, LinesHold
<1> QED  BY <1>1, <1>4, <1>6, <1>7, <1>8, <1>9, <1>10 DEF IInv, ConditionsHeld

\* A commit makes the rows of its transaction the committed ones; no one else has
\* written any of them.
LEMMA CommitKeeps ==
    ASSUME IInv, NEW s \in Sessions, Commit(s)
    PROVE  IInv'
<1>1. /\ TypeOK /\ tx' = [tx EXCEPT ![s] = Idle]
      /\ \A o \in Sessions : tx'[o] = IF o = s THEN Idle ELSE tx[o]
      /\ \A k \in Keys : table'[k] = Latest(s, k)
      /\ table' \in Tables /\ calls' = calls /\ tx[s].phase = "open"
      /\ failed' = failed
      /\ known \subseteq known' /\ known' \subseteq known \cup Mine(tx[s])
  BY OfTransaction DEF IInv, TypeOK, Commit, Tables, Mine
<1>2. /\ Idle \in Transactions /\ Idle.phase = "idle" /\ Mine(Idle) = {}
      /\ \A k \in Keys : Idle.view[k] = Unwritten
  BY IdleHolds
<1>3. TypeOK'
  BY <1>1, <1>2, OfTransaction DEF TypeOK
<1>4. /\ \A k \in Keys : ~Wrote(s, k)' /\ Latest(s, k)' = Latest(s, k)
      /\ \A o \in Sessions \ {s}, k \in Keys : Wrote(o, k)' <=> Wrote(o, k)
  BY <1>1, <1>2 DEF Wrote, Latest
<1>5. ASSUME NEW o \in Sessions \ {s}, NEW k \in Keys
      PROVE  /\ Wrote(o, k) => table'[k] = table[k] /\ ~Wrote(s, k)
             /\ \A a \in Mine(tx[o]) : a.key = k => Wrote(o, k)
  <2>1. Wrote(o, k) => ~Wrote(s, k)
    BY DEF IInv, WritersApart, Writers
  <2> QED  BY <1>1, <2>1 DEF IInv, AnswersHold, Latest
<1>6. PendingHolds'
  <2>1. ASSUME NEW k \in Keys
        PROVE  Pending(k)' \subseteq Pending(k) /\ \A o \in Pending(k)' : tx'[o].id = tx[o].id
    BY <1>1, <1>2 DEF Pending, Running
  <2>2. ASSUME NEW k \in Keys
        PROVE  Versions(k)' \subseteq Versions(k)
    <3>1. Told(known', k) \subseteq Told(known, k) \cup Told(Mine(tx[s]), k)
      <4>1. Told(known', k) \subseteq Told(known \cup Mine(tx[s]), k)
        BY <1>1, ToldOf
      <4> QED  BY <4>1, ToldOf
    <3>2. \A o \in Sessions : Told(Mine(tx'[o]), k) \subseteq Told(Mine(tx[o]), k)
      BY <1>1, <1>2, ToldOf
    <3>3. \A o \in Sessions : tx'[o].view[k] \in {tx[o].view[k], Unwritten}
      BY <1>1, <1>2
    <3>4. table'[k] \in {table[k], tx[s].view[k]}
      BY <1>1 DEF Latest
    <3> QED  BY <3>1, <3>2, <3>3, <3>4 DEF Versions
  <2>3. ASSUME NEW k \in Keys
        PROVE  /\ IsFiniteSet(Pending(k)')
               /\ Cardinality(Pending(k)') <= calls'
               /\ \A r \in Versions(k)' : r.born <= calls' /\ Counted(r, k)'
    <3>1. PICK none : none = {}
      OBVIOUS
    <3>2. /\ Versions(k)' \subseteq Versions(k) \cup none
          /\ \A r \in none : /\ r.version + Cardinality(Pending(k)') <= calls
                            /\ r.born <= calls
                            /\ \A o \in Pending(k)' : r.born # tx[o].id
      BY <2>2, <3>1
    <3> QED  BY <1>1, <2>1, <3>2, PendingKept
  <2> QED  BY <2>3 DEF PendingHolds
<1>7. IdsApart'
  BY <1>1, <1>2 DEF IInv, IdsApart
<1>8. WritersApart'
  <2>1. ASSUME NEW o \in Sessions \ {s}, NEW k \in Keys, Wrote(o, k)
        PROVE  Writers(o, k)' = {}
    <3>1. Writers(o, k) = {}
      BY <2>1 DEF IInv, WritersApart
    <3> QED  BY <1>4, <2>1, <3>1 DEF Writers
  <2> QED  BY <1>4, <2>1 DEF WritersApart
<1>9. AnswersHold'
  <2>1. \A o \in Sessions \ {s} : \A a \in Mine(tx[o]) :
           a.key \in Keys /\ Wrote(o, a.key) /\ Held(a)
    BY <1>1, OfTransaction DEF IInv, AnswersHold, Answers
  <2> QED  BY <1>1, <1>2, <1>4, <2>1 DEF AnswersHold
<1>10. ConditionsHeld'
  BY <1>1 DEF IInv, AnswersHold, ConditionsHeld, Held
<1>11. LinesHold'
  <2>1. ASSUME NEW k \in Keys
        PROVE  Line(Told(known', k), table'[k])
    <3>1. Told(known', k) \subseteq Told(known \cup Mine(tx[s]), k)
      BY <1>1, ToldOf
    <3> QED  BY <1>1, <3>1, LineShrinks DEF IInv, LinesHold
  <2>2. ASSUME NEW k \in Keys, NEW o \in Sessions
        PROVE  Line(Told(known' \cup Mine(tx'[o]), k), Latest(o, k)')
    <3>1. CASE o = s \/ ~Wrote(o, k)
      <4>1. Latest(o, k)' = table'[k]
        BY <1>1, <1>4, <3>1 DEF Latest
      <4>2. \A a \in Mine(tx'[o]) : a.key # k
        BY <1>1, <1>2, <1>5, <3>1
      <4>3. Told(Mine(tx'[o]), k) = {}
        BY <4>2, ToldOf
      <4>4. Told(known' \cup Mine(tx'[o]), k) = Told(known', k) \cup Told(Mine(tx'[o]), k)
        BY ToldOf
      <4> QED  BY <2>1, <4>1, <4>3, <4>4
    <3>2. CASE o # s /\ Wrote(o, k)
      <4>1. /\ \A a \in Mine(tx[s]) : a.key # k
            /\ Latest(o, k)' = Latest(o, k) /\ tx'[o] = tx[o]
        BY <1>1, <1>4, <1>5, <3>2 DEF IInv, AnswersHold, Latest
      <4>2. Told(Mine(tx[s]), k) = {}
        BY <4>1, ToldOf
      <4>3. Told(known' \cup Mine(tx[o]), k) \subseteq Told(known \cup Mine(tx[o]), k)
        <5>1. Told(known', k) \subseteq Told(known, k)
          <6>1. Told(known', k) \subseteq Told(known \cup Mine(tx[s]), k)
            BY <1>1, ToldOf
          <6> QED  BY <4>2, <6>1, ToldOf
        <5> QED  BY <5>1, ToldOf
      <4> QED  BY <4>1, <4>3, LineShrinks DEF IInv, LinesHold
    <3> QED  BY <3>1, <3>2
  <2> QED  BY <2>1, <2>2 DEF LinesHold
<1> QED  BY <1>3, <1>6, <1>7, <1>8, <1>9, <1>10, <1>11 DEF IInv

-----------------------------------------------------------------------------
(* The theorems                                                            *)

\* No record, no mutation, no answer.
LEMMA InitInv == Init => IInv
<1> SUFFICES ASSUME Init
             PROVE  IInv
  OBVIOUS
<1>1. /\ \A s \in Sessions : tx[s] = Idle
      /\ table = Nothing /\ calls = 0 /\ known = {}
      /\ \A k \in Keys : table[k] = NoRow
  BY DEF Init, Nothing
<1>2. TypeOK
  <2>1. 0 \in 0 .. MaxCalls /\ Nothing \in Tables
    BY StoreAssumption DEF Nothing, Tables
  <2> QED  BY <2>1, IdleHolds DEF Init, TypeOK
<1>3. PendingHolds
  <2>1. ASSUME NEW k \in Keys
        PROVE  /\ IsFiniteSet(Pending(k)) /\ Cardinality(Pending(k)) <= calls
               /\ Versions(k) = {}
    <3>1. Pending(k) = {}
      BY <1>1, IdleHolds DEF Pending, Running
    <3>2. \A s \in Sessions : Told(Mine(tx[s]), k) = {} /\ tx[s].view[k] = Unwritten
      BY <1>1, IdleHolds, ToldOf
    <3>3. Told(known, k) = {}
      BY <1>1, ToldOf
    <3>4. Versions(k) = {}
      BY <1>1, <3>2, <3>3 DEF Versions
    <3> QED  BY <1>1, <3>1, <3>4, FS_EmptySet
  <2> QED  BY <2>1 DEF PendingHolds
<1>4. IdsApart /\ WritersApart /\ AnswersHold /\ ConditionsHeld
  BY <1>1, IdleHolds DEF IdsApart, WritersApart, Wrote, AnswersHold, ConditionsHeld
<1>5. LinesHold
  <2>1. \A s \in Sessions : known \cup Mine(tx[s]) = {}
    BY <1>1, IdleHolds
  <2>2. \A k : Told({}, k) = {}
    BY ToldOf
  <2> QED  BY <1>1, <2>1, <2>2 DEF LinesHold, Line
<1> QED  BY <1>2, <1>3, <1>4, <1>5 DEF IInv

\* Each action keeps the invariant.
LEMMA NextInv == IInv /\ [Next]_vars => IInv'
<1> SUFFICES ASSUME IInv, [Next]_vars
             PROVE  IInv'
  OBVIOUS
<1>1. ASSUME NEW s \in Sessions, NEW r \in Requests, Call(s, r)
      PROVE  IInv'
  BY <1>1, CallKeeps
<1>2. ASSUME NEW s \in Sessions, NEW k \in Keys, Insert(s, k) \/ Modify(s, k) \/ Claim(s, k)
      PROVE  IInv'
  BY <1>2, InsertKeeps, ModifyKeeps, ClaimKeeps
<1>3. ASSUME NEW s \in Sessions, Answer(s) \/ Refuse(s) \/ Commit(s) \/ Abort(s) \/ Fail(s)
      PROVE  IInv'
  BY <1>3, EndKeeps, CommitKeeps, IdleKeeps DEF Abort, Fail
<1>4. CASE UNCHANGED vars
  <2>1. table' = table /\ tx' = tx /\ calls' = calls /\ known' = known /\ failed' = failed
    BY <1>4 DEF vars
  <2>2. TypeOK' /\ IdsApart' /\ ConditionsHeld'
    BY <2>1 DEF IInv, TypeOK, IdsApart, ConditionsHeld
  <2>3. PendingHolds'
    <3>1. \A k \in Keys : Pending(k)' = Pending(k)
      BY <2>1 DEF Pending, Running
    <3>2. \A k \in Keys : Versions(k)' = Versions(k)
      BY <2>1 DEF Versions
    <3>3. \A k \in Keys : \A v : Counted(v, k) => Counted(v, k)'
      BY <2>1, <3>1 DEF Counted
    <3> QED  BY <2>1, <3>1, <3>2, <3>3 DEF IInv, PendingHolds
  <2>4. WritersApart' /\ AnswersHold'
    BY <2>1 DEF IInv, WritersApart, Writers, Wrote, AnswersHold
  <2>5. LinesHold'
    BY <2>1 DEF IInv, LinesHold, Latest, Wrote
  <2> QED  BY <2>2, <2>3, <2>4, <2>5 DEF IInv
<1> QED  BY <1>1, <1>2, <1>3, <1>4 DEF Next

\* Every state of every instance is well typed: in particular no version is above
\* the number of mutations.
THEOREM StoreTypeOK == Spec => []TypeOK
<1>1. IInv => TypeOK
  BY DEF IInv
<1> QED  BY <1>1, InitInv, NextInv, PTL DEF Spec

\* Two mutations never make the same version of a record that was not deleted in
\* between: as far as callers were told, a recordVersion names one of them.
THEOREM VersionsNameMutations == Spec => []VersionsAreUnique
<1>1. IInv => VersionsAreUnique
  <2> SUFFICES ASSUME IInv, NEW k \in Keys
               PROVE  \A p \in Told(known, k) :
                         /\ \A q \in Told(known, k) : Same(p, q)
                         /\ table[k] # NoRow => Same(p, table[k])
    BY DEF VersionsAreUnique, Told, Same
  <2>1. Line(Told(known, k), table[k])
    BY DEF IInv, LinesHold
  <2> QED  BY <2>1 DEF Line, Same
<1> QED  BY <1>1, InitInv, NextInv, PTL DEF Spec

\* An expected version and a claim's predicate held for the very row that was
\* replaced, whatever was committed since the statement selected it.
THEOREM ConditionsAreHeld == Spec => []ConditionsHeld
<1>1. IInv => ConditionsHeld
  BY DEF IInv
<1> QED  BY <1>1, InitInv, NextInv, PTL DEF Spec

\* Work that failed stays apart from every transaction.
LEMMA FailuresStayApart == IInv /\ FailuresApart /\ [Next]_vars => FailuresApart'
<1> SUFFICES ASSUME IInv, FailuresApart, [Next]_vars
             PROVE  FailuresApart'
  OBVIOUS
<1>1. /\ \A s \in Sessions : tx[s] \in Transactions
      /\ calls \in Nat /\ IdsApart
      /\ \A s \in Sessions : tx[s].phase = "run" => tx[s].id \in 1 .. calls
  BY OfTransaction, StoreAssumption DEF IInv, TypeOK, IdsApart
<1>2. ASSUME NEW s \in Sessions, NEW t, tx' = [tx EXCEPT ![s] = t], calls' = calls,
             failed' = failed,
             t.work \subseteq tx[s].work \cup (IF tx[s].phase = "run" THEN {tx[s].id} ELSE {}),
             t.phase = "run" => /\ tx[s].phase = "run" /\ t.id = tx[s].id
                                /\ t.hits = {} => t.work \subseteq tx[s].work /\ tx[s].hits = {}
      PROVE  FailuresApart'
  <2>1. \A o \in Sessions : tx'[o] = IF o = s THEN t ELSE tx[o]
    BY <1>2 DEF IInv, TypeOK
  <2> QED  BY <1>1, <1>2, <2>1 DEF FailuresApart, IdsApart
<1>3. ASSUME NEW s \in Sessions, NEW t, Raise(s, t), tx[s].phase = "run", t.phase # "run",
             t.work \subseteq tx[s].work, tx[s].id \notin t.work
      PROVE  FailuresApart'
  <2>1. /\ \A o \in Sessions : tx'[o] = IF o = s THEN t ELSE tx[o]
        /\ calls' = calls /\ failed' = failed \cup {tx[s].id}
    BY <1>3 DEF Raise, IInv, TypeOK
  <2>2. /\ failed \subseteq 1 .. calls /\ tx[s].id \in 1 .. calls
        /\ t.work \subseteq (1 .. calls) \ (failed \cup {tx[s].id})
    BY <1>1, <1>3 DEF FailuresApart
  <2>3. ASSUME NEW o \in Sessions \ {s}
        PROVE  /\ tx[o].work \subseteq (1 .. calls) \ (failed \cup {tx[s].id})
               /\ tx[o].phase = "run" =>
                     /\ tx[o].id \notin failed \cup {tx[s].id}
                     /\ \A u \in Sessions \ {o} : tx[o].id \notin tx[u].work
                     /\ tx[o].hits = {} => tx[o].id \notin tx[o].work
    BY <1>1, <1>3 DEF FailuresApart, IdsApart
  <2> QED  BY <1>3, <2>1, <2>2, <2>3 DEF FailuresApart
<1>4. Idle.work = {} /\ Idle.phase = "idle"
  BY DEF Idle
<1>5. ASSUME NEW s \in Sessions, NEW r \in Requests, Call(s, r)
      PROVE  FailuresApart'
  <2>1. /\ \A o \in Sessions \ {s} : tx'[o] = tx[o]
        /\ tx'[s].phase = "run" /\ tx'[s].id = calls + 1 /\ tx'[s].work = tx[s].work
        /\ calls' = calls + 1 /\ failed' = failed
    <3>1. PICK scope, seen, todo :
             tx' = [tx EXCEPT ![s].phase = "run", ![s].scope = scope,
                              ![s].id = calls + 1, ![s].request = r,
                              ![s].snapshot = seen, ![s].hits = {}, ![s].todo = todo]
      BY <1>5 DEF Call
    <3>2. tx \in [Sessions -> Transactions] /\ calls' = calls + 1 /\ failed' = failed
      BY <1>5 DEF Call, IInv, TypeOK
    <3>3. \A o \in Sessions \ {s} : tx'[o] = tx[o]
      BY <3>1, <3>2
    <3>4. /\ tx'[s].phase = "run" /\ tx'[s].id = calls + 1 /\ tx'[s].work = tx[s].work
      BY <1>1, <3>1, <3>2 DEF Transactions
    <3> QED  BY <3>2, <3>3, <3>4
  <2> QED  BY <1>1, <2>1 DEF FailuresApart
<1>6. ASSUME NEW s \in Sessions, NEW k \in Keys, Running(s, k), Continue(s, Passed(tx[s], k))
      PROVE  FailuresApart'
  <2>1. /\ Passed(tx[s], k).work = tx[s].work /\ Passed(tx[s], k).hits = tx[s].hits
        /\ Passed(tx[s], k).id = tx[s].id /\ Passed(tx[s], k).phase = tx[s].phase
    BY <1>1 DEF Passed, Transactions
  <2> QED  BY <1>2, <1>6, <2>1 DEF Continue, Running
<1>7. ASSUME NEW s \in Sessions, NEW k \in Keys, NEW row \in Rows \cup {NoRow},
             Running(s, k), Continue(s, Changed(s, k, row))
      PROVE  FailuresApart'
  <2>1. PICK t \in Transactions, a \in Answers :
           /\ Changed(s, k, row) = t /\ t.phase = "run" /\ t.id = tx[s].id
           /\ t.hits = tx[s].hits \cup {a} /\ t.work = tx[s].work \cup {tx[s].id}
    BY <1>7, OfChange DEF Running
  <2>2. t.hits # {}
    BY <2>1
  <2> QED  BY <1>2, <1>7, <2>1, <2>2 DEF Continue, Running
<1>8. ASSUME NEW s \in Sessions, NEW k \in Keys, Insert(s, k) \/ Modify(s, k) \/ Claim(s, k)
      PROVE  FailuresApart'
  <2>1. /\ Running(s, k) /\ First(s) \in Rows /\ Latest(s, k) \in Rows \cup {NoRow}
        /\ Latest(s, k) # NoRow => /\ Successor(s, Latest(s, k)) \in Rows
                                   /\ Overwritten(s, Latest(s, k)) \in Rows
    BY <1>8, RowsMade, OfTransaction DEF Insert, Modify, Claim, IInv
  <2>2. CASE Insert(s, k)
    <3>1. \/ \E row \in Rows : Continue(s, Changed(s, k, row))
          \/ Raise(s, Idle)
      BY <2>1, <2>2 DEF Insert
    <3> QED  BY <1>3, <1>4, <1>7, <2>1, <3>1 DEF Running
  <2>3. CASE Modify(s, k) \/ Claim(s, k)
    <3>1. \/ \E row \in Rows \cup {NoRow} : Continue(s, Changed(s, k, row))
          \/ Continue(s, Passed(tx[s], k))
      BY <2>1, <2>3 DEF Modify, Claim, Confirmed
    <3> QED  BY <1>6, <1>7, <2>1, <3>1
  <2> QED  BY <1>8, <2>2, <2>3
<1>9. ASSUME NEW s \in Sessions, Answer(s) \/ Refuse(s)
      PROVE  FailuresApart'
  <2>1. \A answers : /\ Opened(tx[s], answers).work = tx[s].work
                     /\ Opened(tx[s], answers).phase = "open"
    BY DEF Opened, Idle
  <2>2. \/ \E answers : Continue(s, Opened(tx[s], answers))
        \/ Raise(s, Idle)
        \/ tx[s].hits = {} /\ Raise(s, Opened(tx[s], {}))
    BY <1>9 DEF Answer, Refuse
  <2>3. tx[s].phase = "run"
    BY <1>9 DEF Answer, Refuse, Over
  <2>4. CASE \E answers : Continue(s, Opened(tx[s], answers))
    BY <1>2, <2>1, <2>4 DEF Continue
  <2>5. CASE Raise(s, Idle)
    BY <1>3, <1>4, <2>3, <2>5
  <2>6. CASE tx[s].hits = {} /\ Raise(s, Opened(tx[s], {}))
    BY <1>3, <2>1, <2>3, <2>6 DEF FailuresApart
  <2> QED  BY <2>2, <2>4, <2>5, <2>6
<1>10. ASSUME NEW s \in Sessions, Commit(s) \/ Abort(s)
       PROVE  FailuresApart'
  <2>1. tx' = [tx EXCEPT ![s] = Idle] /\ calls' = calls /\ failed' = failed
    BY <1>10 DEF Commit, Abort, Continue
  <2> QED  BY <1>2, <1>4, <2>1
<1>11. ASSUME NEW s \in Sessions, Fail(s)
       PROVE  FailuresApart'
  BY <1>3, <1>4, <1>11 DEF Fail
<1>12. CASE UNCHANGED vars
  BY <1>12 DEF vars, FailuresApart
<1> QED  BY <1>5, <1>8, <1>9, <1>10, <1>11, <1>12 DEF Next

\* Only a commit changes committed rows, and it holds the work of no mutation that
\* raised: not of one whose statement ended among its rows, met a key or a version it
\* did not want, or whose result was too long, unless its caller has the transaction.
THEOREM FailuresAreUndone == Spec => FailuresLeaveNothing
<1> DEFINE Undone == \A k \in Keys : table'[k] # table[k] =>
                        \E s \in Sessions : Wrote(s, k) /\ tx[s].work \cap failed = {}
<1>1. FailuresApart /\ [Next]_vars => [Undone]_vars
  <2> SUFFICES ASSUME FailuresApart, Next, NEW k \in Keys, table'[k] # table[k]
               PROVE  \E s \in Sessions : Wrote(s, k) /\ tx[s].work \cap failed = {}
    OBVIOUS
  <2>1. PICK s \in Sessions : Commit(s)
    <3>1. \A o, t : Continue(o, t) \/ Raise(o, t) => table' = table
      BY DEF Continue, Raise
    <3>2. ASSUME NEW o \in Sessions, NEW j \in Keys, Insert(o, j) \/ Modify(o, j) \/ Claim(o, j)
          PROVE  table' = table
      BY <3>1, <3>2 DEF Insert, Modify, Claim
    <3>3. ASSUME NEW o \in Sessions, Answer(o) \/ Refuse(o) \/ Abort(o) \/ Fail(o)
          PROVE  table' = table
      BY <3>1, <3>3 DEF Answer, Refuse, Abort, Fail
    <3>4. ASSUME NEW o \in Sessions, NEW r \in Requests, Call(o, r)
          PROVE  table' = table
      BY <3>4 DEF Call
    <3> QED  BY <3>2, <3>3, <3>4 DEF Next
  <2>2. table'[k] = Latest(s, k)
    BY <2>1 DEF Commit
  <2>3. Wrote(s, k)
    BY <2>2 DEF Latest
  <2> QED  BY <2>3 DEF FailuresApart
<1>2. Init => FailuresApart
  <2>1. ASSUME Init
        PROVE  FailuresApart
    <3>1. failed = {} /\ \A s \in Sessions : tx[s].work = {} /\ tx[s].phase = "idle"
      BY <2>1 DEF Init, Idle
    <3> QED  BY <3>1 DEF FailuresApart
  <2> QED  BY <2>1
<1>3. Spec => [][Undone]_vars
  BY <1>1, <1>2, InitInv, NextInv, FailuresStayApart, PTL DEF Spec
<1> QED  BY <1>3 DEF FailuresLeaveNothing
=============================================================================
