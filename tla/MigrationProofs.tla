---------------------------- MODULE MigrationProofs ----------------------------
(***************************************************************************)
(* Theorems about Migration: for any plans, jobs and verifiers, migrations *)
(* are atomic, reported truly, and verified while they go on.              *)
(***************************************************************************)
EXTENDS Migration, FiniteSetTheorems, WellFoundedInduction, TLAPS

-----------------------------------------------------------------------------
(* The inductive invariant                                                 *)

\* The row that plan p writes for Resource r.
RowOf(p, r) == [physical |-> Physical[p], resource |-> ResourcesOf[p][r]]

ObjectOf(p, i) == StatementsOf[p][i].object

\* One application at a time has the advisory lock.
LocksExclude == \A e, o \in Executors : Locked(e) /\ Locked(o) => e = o

Holding(t) == t.phase \notin {"idle", "lock", "revision"}

\* An application t creates only what is not there, and has done so for every
\* statement that it is past.
MadeSoFar(t) ==
    /\ ~Holding(t) => t.made = NoSchema
    /\ t.next > 0 /\ (t.phase \notin {"ddl", "record", "commit"} => t.next = 1)
    /\ \A o \in Objects : t.made[o] # Missing => schema[o] = Missing
    /\ t.phase \in {"ddl", "record"} \/ (t.phase = "commit" /\ ~t.present) =>
          \A i \in DOMAIN StatementsOf[t.plan] :
              i < t.next \/ t.phase # "ddl" =>
                  t.made[ObjectOf(t.plan, i)] # Missing \/ schema[ObjectOf(t.plan, i)] # Missing

\* It names its plan's Resources, all of them, after its statements.
NamedSoFar(t) ==
    /\ t.phase \notin {"record", "commit"} => t.named = NoMetadata
    /\ \A r \in Resources : t.named[r] # NoRow =>
          r \in DOMAIN ResourcesOf[t.plan] /\ t.named[r] = RowOf(t.plan, r)
    /\ t.phase = "record" \/ (t.phase = "commit" /\ ~t.present) =>
          \A r \in DOMAIN ResourcesOf[t.plan] : t.named[r] # NoRow

\* What it found before is so until it commits, as nobody else can.
FoundSoFar(t) ==
    /\ t.phase # "idle" => t.plan \in Plans
    /\ t.phase \in {"compare", "commit"} => (t.present <=> t.plan \in recorded)
    /\ t.phase \in {"ddl", "record"} => ~t.present /\ t.plan \notin recorded
    /\ t.phase \in {"ddl", "record", "commit"} => Expected(t)
    /\ t.phase = "revision" => t.plan \in recorded

HoldsSoFar(t) == MadeSoFar(t) /\ NamedSoFar(t) /\ FoundSoFar(t)

ApplicationsHold == \A e \in Executors : HoldsSoFar(tx[e])

\* Every row of the metadata is of a recorded plan.
IsOfRecorded(row, r) ==
    \E q \in recorded : r \in DOMAIN ResourcesOf[q] /\ row = RowOf(q, r)

MetadataIsRecorded == \A r \in Resources : metadata[r] # NoRow => IsOfRecorded(metadata[r], r)

\* Answers keep what commits gave them.
AnswersHold ==
    /\ \A k \in known : k.plan \in recorded
    /\ \A a \in activated : \A r \in DOMAIN ResourcesOf[a.plan] : a.revision[r] # NoRow

\* A Resource that a verification of plan p has done, with the fingerprints F it
\* has found.
ShapeHolds(p, r) ==
    /\ ColumnsIn(Expects(p, r)) \subseteq Has(r)
    /\ IndexNames(Expects(p, r)) \subseteq IndexNames(Has(r))

RowHolds(p, r, F) ==
    \E q \in recorded : /\ r \in DOMAIN ResourcesOf[q]
                        /\ ResourcesOf[q][r] = ResourcesOf[p][r]
                        /\ Physical[q] \in F

CheckHolds(v) ==
    LET c == check[v] IN
    c.phase # "idle" =>
        /\ c.plan \in Plans
        /\ c.requested \subseteq DOMAIN ResourcesOf[c.plan]
        /\ c.rest \subseteq c.requested /\ c.rest # {}
        /\ IsFiniteSet(c.found)
        /\ c.phase # "metadata" => c.row # NoRow /\ IsOfRecorded(c.row, Current(v))
        /\ c.phase = "indexes" /\ c.columns =>
              ColumnsIn(Expects(c.plan, Current(v))) \subseteq Has(Current(v))
        /\ \A r \in c.requested \ c.rest : ShapeHolds(c.plan, r) /\ RowHolds(c.plan, r, c.found)

ChecksHold == \A v \in Verifiers : CheckHolds(v)

IInv ==
    /\ TypeOK
    /\ LocksExclude
    /\ ApplicationsHold
    /\ RecordedIsComplete
    /\ MetadataIsRecorded
    /\ AnswersHold
    /\ ChecksHold
    /\ VerifiedStaysTrue
-----------------------------------------------------------------------------
(* The parts                                                               *)

\* What the plans are made of.
LEMMA PlanParts ==
    ASSUME NEW p \in Plans
    PROVE  /\ Last(p) \in Nat /\ Last(p) > 0
           /\ DOMAIN StatementsOf[p] = 1 .. Last(p)
           /\ \A i \in 1 .. Last(p) : ObjectOf(p, i) \in Objects
                                     /\ StatementsOf[p][i].definition \in Definitions
           /\ DOMAIN ResourcesOf[p] \subseteq Resources
           /\ Physical[p] \in Fingerprints
           /\ \A r \in DOMAIN ResourcesOf[p] : RowOf(p, r) \in MetadataRow
<1>1. StatementsOf[p] \in Seq([object : Objects, definition : Definitions])
      /\ StatementsOf[p] # <<>>
  BY MigrationAssumption
<1>2. Last(p) \in Nat /\ Last(p) > 0 /\ DOMAIN StatementsOf[p] = 1 .. Last(p)
  BY <1>1 DEF Last
<1>3. \A i \in 1 .. Last(p) : ObjectOf(p, i) \in Objects
                              /\ StatementsOf[p][i].definition \in Definitions
  <2> DEFINE S == [object : Objects, definition : Definitions]
             s == StatementsOf[p]
  <2>1. s \in Seq(S)
    BY <1>1
  <2>2. ASSUME NEW i \in 1 .. Last(p)
        PROVE  s[i] \in S
    <3> HIDE DEF S, s
    <3>1. Last(p) = Len(s)
      BY DEF Last, s
    <3> QED  BY <2>1, <2>2, <3>1
  <2> QED  BY <2>2 DEF ObjectOf
<1>4. DOMAIN ResourcesOf[p] \subseteq Resources
  BY Zenon DEF Resources
<1>5. Physical[p] \in Fingerprints
  BY DEF Fingerprints
<1>6. \A r \in DOMAIN ResourcesOf[p] : RowOf(p, r) \in MetadataRow
  BY <1>5 DEF RowOf, MetadataRow
<1> QED  BY <1>2, <1>3, <1>4, <1>5, <1>6

\* An application that is over, or not begun, has done nothing.
LEMMA IdleHolds == Idle \in Applications /\ HoldsSoFar(Idle) /\ ~Holding(Idle)
<1>1. NoSchema \in Schemas /\ NoMetadata \in Metadata
  BY DEF NoSchema, NoMetadata, Schemas, Metadata
<1>2. Idle \in Applications
  BY <1>1 DEF Idle, Applications, Phases
<1>3. MadeSoFar(Idle)
  BY DEF Idle, MadeSoFar, Holding, NoSchema
<1>4. NamedSoFar(Idle)
  BY DEF Idle, NamedSoFar, NoMetadata
<1>5. FoundSoFar(Idle)
  BY DEF Idle, FoundSoFar
<1> QED  BY <1>2, <1>3, <1>4, <1>5 DEF HoldsSoFar, Holding, Idle

\* The initial state satisfies the invariant.
LEMMA InitInv == Init => IInv
<1> SUFFICES ASSUME Init
             PROVE  IInv
  OBVIOUS
<1>1. TypeOK
  <2>1. NoSchema \in Schemas /\ NoMetadata \in Metadata
    BY DEF NoSchema, NoMetadata, Schemas, Metadata
  <2>2. NoCheck \in Checks
    BY DEF NoCheck, Checks
  <2> QED  BY <2>1, <2>2, IdleHolds, MigrationAssumption DEF Init, TypeOK
<1>2. LocksExclude
  BY DEF Init, LocksExclude, Locked, Idle
<1>3. ApplicationsHold
  BY IdleHolds DEF Init, ApplicationsHold
<1>4. MetadataIsRecorded
  BY DEF Init, MetadataIsRecorded, NoMetadata
<1>5. ChecksHold
  BY DEF Init, ChecksHold, CheckHolds, NoCheck
<1> QED  BY <1>1, <1>2, <1>3, <1>4, <1>5 DEF Init, IInv, RecordedIsComplete, AnswersHold,
            VerifiedStaysTrue

-----------------------------------------------------------------------------
(* Steps                                                                   *)

\* Migrations add to what is there.
Grows ==
    /\ recorded \subseteq recorded'
    /\ \A o \in Objects : schema[o] # Missing => schema'[o] = schema[o]

\* What a table has it keeps.
LEMMA HasGrows ==
    ASSUME Grows, NEW r
    PROVE  /\ Has(r) \subseteq Has(r)'
           /\ IndexNames(Has(r)) \subseteq IndexNames(Has(r))'
<1>1. Has(r) \subseteq Has(r)'
  BY DEF Grows, Has
<1> QED  BY <1>1 DEF IndexNames

\* Verifications in progress, and those that are over, are not disturbed.
LEMMA ChecksAreKept ==
    ASSUME IInv, Grows, UNCHANGED <<check, verified>>
    PROVE  ChecksHold' /\ VerifiedStaysTrue'
<1>1. \A p, r : ShapeHolds(p, r) => ShapeHolds(p, r)'
  BY HasGrows DEF ShapeHolds
<1>2. \A p, r, F : RowHolds(p, r, F) => RowHolds(p, r, F)'
  BY DEF RowHolds, Grows
<1>3. \A row, r : IsOfRecorded(row, r) => IsOfRecorded(row, r)'
  BY DEF IsOfRecorded, Grows
<1>4. \A v \in Verifiers : CheckHolds(v) => CheckHolds(v)'
  <2> SUFFICES ASSUME NEW v \in Verifiers, CheckHolds(v)
               PROVE  CheckHolds(v)'
    OBVIOUS
  <2>1. Current(v)' = Current(v) /\ check[v]' = check[v]
    BY DEF Current
  <2>2. Has(Current(v)) \subseteq Has(Current(v))'
    BY <2>1, HasGrows
  <2> QED  BY <1>1, <1>2, <1>3, <2>1, <2>2 DEF CheckHolds
<1>5. ChecksHold'
  BY <1>4 DEF IInv, ChecksHold
<1>6. VerifiedStaysTrue'
  <2> SUFFICES ASSUME NEW k \in verified, NEW r \in k.requested
               PROVE  /\ ColumnsIn(Expects(k.plan, r)) \subseteq Has(r)'
                      /\ IndexNames(Expects(k.plan, r)) \subseteq IndexNames(Has(r)')
                      /\ \E q \in recorded' :
                            /\ r \in DOMAIN ResourcesOf[q]
                            /\ ResourcesOf[q][r] = ResourcesOf[k.plan][r]
                            /\ k.fingerprint \in {Physical[q], Divergent}
    BY DEF VerifiedStaysTrue
  <2>1. Has(r) \subseteq Has(r)' /\ IndexNames(Has(r)) \subseteq IndexNames(Has(r)')
    BY HasGrows
  <2> QED  BY <2>1 DEF IInv, VerifiedStaysTrue, Grows
<1> QED  BY <1>5, <1>6

\* A step of an application before its commit.
LEMMA JobStep ==
    ASSUME IInv, NEW e \in Executors, NEW t \in Applications, tx' = [tx EXCEPT ![e] = t],
           HoldsSoFar(t), Holding(t) => \A o \in Executors \ {e} : ~Locked(o),
           UNCHANGED <<tables, verifiers>>,
           known' \subseteq Evidence, activated' \subseteq Activation,
           applies' \in 0 .. MaxApplies, AnswersHold'
    PROVE  IInv'
<1>1. UNCHANGED <<schema, metadata, recorded, check, checks, verified>>
  BY DEF tables, verifiers
<1>2. TypeOK'
  BY <1>1 DEF IInv, TypeOK
<1>3. tx'[e] = t /\ \A o \in Executors \ {e} : tx'[o] = tx[o]
  BY DEF IInv, TypeOK
<1>4. LocksExclude'
  BY <1>3 DEF IInv, LocksExclude, Locked, Holding
<1>5. \A u : HoldsSoFar(u) <=> HoldsSoFar(u)'
  BY <1>1 DEF HoldsSoFar, MadeSoFar, NamedSoFar, FoundSoFar, Expected, Observed
<1>6. ApplicationsHold'
  BY <1>3, <1>5 DEF IInv, ApplicationsHold
<1>7. ChecksHold' /\ VerifiedStaysTrue'
  BY <1>1, ChecksAreKept DEF Grows
<1>8. RecordedIsComplete' /\ MetadataIsRecorded'
  BY <1>1 DEF IInv, RecordedIsComplete, MetadataIsRecorded, IsOfRecorded
<1> QED  BY <1>2, <1>4, <1>6, <1>7, <1>8 DEF IInv

\* A job's step that only moves its application.
LEMMA ContinueStep ==
    ASSUME IInv, NEW e \in Executors, NEW t \in Applications, Continue(e, t), HoldsSoFar(t),
           Holding(t) => \A o \in Executors \ {e} : ~Locked(o)
    PROVE  IInv'
<1>1. tx' = [tx EXCEPT ![e] = t] /\ UNCHANGED <<tables, verifiers, applies, known, activated>>
  BY DEF Continue
<1>2. AnswersHold'
  BY <1>1 DEF IInv, AnswersHold, tables
<1> QED  BY <1>1, <1>2, JobStep DEF IInv, TypeOK

\* A job that has the lock goes on with it.
LEMMA LockedGoesOn ==
    ASSUME IInv, NEW e \in Executors, Locked(e), NEW t \in Applications, Continue(e, t),
           HoldsSoFar(t)
    PROVE  IInv'
<1>1. \A o \in Executors \ {e} : ~Locked(o)
  BY DEF IInv, LocksExclude
<1> QED  BY <1>1, ContinueStep

\* What the invariant says of one application.
LEMMA OfApplication ==
    ASSUME IInv, NEW e \in Executors
    PROVE  /\ tx[e] \in Applications
           /\ MadeSoFar(tx[e]) /\ NamedSoFar(tx[e]) /\ FoundSoFar(tx[e])
           /\ tx[e].made \in Schemas /\ tx[e].named \in Metadata /\ tx[e].next \in Nat
           /\ Locked(e) <=> Holding(tx[e])
<1>1. tx[e] \in Applications
  BY DEF IInv, TypeOK
<1> QED  BY <1>1 DEF IInv, ApplicationsHold, HoldsSoFar, Applications, Locked, Holding

\* Calls of apply and apply_activation.
LEMMA StartKeeps ==
    ASSUME IInv, NEW e \in Executors, NEW p \in Plans,
           NEW f \in Fingerprints \cup {NoFingerprint}, NEW a \in BOOLEAN, Start(e, p, f, a)
    PROVE  IInv'
<1> DEFINE t == [tx[e] EXCEPT !.phase = "lock", !.plan = p, !.expected = f, !.activation = a]
<1>1. tx[e].phase = "idle" /\ tx' = [tx EXCEPT ![e] = t]
      /\ UNCHANGED <<tables, known, activated, verifiers>>
      /\ applies < MaxApplies /\ applies' = applies + 1
  BY OfApplication DEF Start, At, Applications
<1>2. t \in Applications
  BY OfApplication DEF Applications, Phases
<1>3. MadeSoFar(t) /\ FoundSoFar(t) /\ ~Holding(t)
  BY <1>1, OfApplication DEF MadeSoFar, FoundSoFar, Holding, Applications
<1>4. NamedSoFar(t)
  BY <1>1, OfApplication DEF NamedSoFar, NoMetadata, Applications
<1>5. applies' \in 0 .. MaxApplies
  BY <1>1, MigrationAssumption DEF IInv, TypeOK
<1>6. AnswersHold'
  BY <1>1 DEF IInv, AnswersHold, tables
<1> HIDE DEF t
<1> QED  BY <1>1, <1>2, <1>3, <1>4, <1>5, <1>6, JobStep DEF IInv, TypeOK, HoldsSoFar

\* The steps between the lock and the DDL.
LEMMA LockKeeps ==
    ASSUME IInv, NEW e \in Executors, Lock(e)
    PROVE  IInv'
<1> DEFINE t == [tx[e] EXCEPT !.phase = "lookup"]
<1>1. tx[e].phase = "lock" /\ Continue(e, t) /\ \A o \in Executors \ {e} : ~Locked(o)
  BY DEF Lock, At
<1>2. t \in Applications
  BY OfApplication DEF Applications, Phases
<1>3. HoldsSoFar(t)
  BY <1>1, OfApplication DEF HoldsSoFar, MadeSoFar, NamedSoFar, FoundSoFar, Holding, Applications
<1> HIDE DEF t
<1> QED  BY <1>1, <1>2, <1>3, ContinueStep

\* What is found in __meridian_migrations is so, because nobody else can add to it.
LEMMA LookupKeeps ==
    ASSUME IInv, NEW e \in Executors, Lookup(e)
    PROVE  IInv'
<1> DEFINE present == tx[e].plan \in recorded
           t == [tx[e] EXCEPT !.phase = "compare", !.present = present]
<1>1. tx[e].phase = "lookup" /\ Continue(e, t) /\ Locked(e)
  BY DEF Lookup, At, Locked
<1>2. present \in BOOLEAN
  OBVIOUS
<1>3. t \in Applications
  <2> HIDE DEF present
  <2> QED  BY <1>2, OfApplication DEF Applications, Phases
<1>4. t.phase = "compare" /\ t.plan = tx[e].plan /\ t.present = present
      /\ t.made = tx[e].made /\ t.named = tx[e].named /\ t.next = tx[e].next
  <2> HIDE DEF present
  <2> QED  BY OfApplication DEF Applications
<1>5. t.present <=> t.plan \in recorded
  BY <1>4
<1> HIDE DEF t, present
<1>6. MadeSoFar(t)
  BY <1>1, <1>4, OfApplication DEF MadeSoFar, Holding
<1>7. NamedSoFar(t)
  BY <1>1, <1>4, OfApplication DEF NamedSoFar
<1>8. FoundSoFar(t)
  BY <1>1, <1>4, <1>5, OfApplication DEF FoundSoFar
<1> QED  BY <1>1, <1>3, <1>6, <1>7, <1>8, LockedGoesOn DEF HoldsSoFar

\* The expected fingerprint is compared with those there are, and they stay.
LEMMA CompareKeeps ==
    ASSUME IInv, NEW e \in Executors, Compare(e)
    PROVE  IInv'
<1> DEFINE t == [tx[e] EXCEPT !.phase = IF tx[e].present THEN "commit" ELSE "ddl"]
<1>1. tx[e].phase = "compare" /\ Expected(tx[e]) /\ Continue(e, t) /\ Locked(e)
  BY DEF Compare, At, Locked
<1>2. t \in Applications
  BY OfApplication DEF Applications, Phases
<1>3. MadeSoFar(t)
  <2>1. \A i \in DOMAIN StatementsOf[tx[e].plan] : ~(i < 1)
    BY <1>1, OfApplication, PlanParts DEF FoundSoFar
  <2> QED  BY <1>1, <2>1, OfApplication DEF MadeSoFar, Holding, Applications
<1>4. NamedSoFar(t)
  BY <1>1, OfApplication DEF NamedSoFar, Applications
<1>5. FoundSoFar(t)
  BY <1>1, OfApplication DEF FoundSoFar, Expected, Applications
<1> HIDE DEF t
<1> QED  BY <1>1, <1>2, <1>3, <1>4, <1>5, LockedGoesOn DEF HoldsSoFar

\* An application that is given up.
LEMMA FailKeeps ==
    ASSUME IInv, NEW e \in Executors, Continue(e, Idle)
    PROVE  IInv'
BY IdleHolds, ContinueStep

\* A statement makes its object, unless there is one, and the others are as before.
LEMMA ExecuteKeeps ==
    ASSUME IInv, NEW e \in Executors, Execute(e)
    PROVE  IInv'
<1> DEFINE p == tx[e].plan
           n == tx[e].next
           o == ObjectOf(p, n)
           d == IF tx[e].made[o] = Missing /\ schema[o] = Missing
                THEN StatementsOf[p][n].definition ELSE tx[e].made[o]
           made == [tx[e].made EXCEPT ![o] = d]
           t == [tx[e] EXCEPT !.next = n + 1, !.made = made]
<1>1. tx[e].phase = "ddl" /\ n <= Last(p) /\ Continue(e, t) /\ Locked(e)
  BY OfApplication DEF Execute, At, Locked, ObjectOf, Applications
<1>2. /\ p \in Plans /\ ~tx[e].present /\ p \notin recorded /\ Expected(tx[e])
      /\ \A i \in DOMAIN StatementsOf[p] : i < n =>
             tx[e].made[ObjectOf(p, i)] # Missing \/ schema[ObjectOf(p, i)] # Missing
      /\ \A x \in Objects : tx[e].made[x] # Missing => schema[x] = Missing
  BY <1>1, OfApplication DEF FoundSoFar, MadeSoFar
<1>3. n \in Nat /\ tx[e].made \in Schemas
  BY OfApplication
<1>4. n \in DOMAIN StatementsOf[p] => o \in Objects /\ StatementsOf[p][n].definition \in Definitions
  BY <1>2, PlanParts
<1>5. DOMAIN StatementsOf[p] \subseteq Nat
  BY <1>2, PlanParts
<1>6. d = tx[e].made[o] \/ (tx[e].made[o] = Missing /\ schema[o] = Missing)
  OBVIOUS
<1>7. n \in DOMAIN StatementsOf[p]
  BY <1>1, <1>2, <1>3, PlanParts, OfApplication DEF MadeSoFar
<1>8. o \in Objects /\ (d # Missing \/ schema[o] # Missing)
      /\ d \in Definitions \cup {Missing}
  BY <1>3, <1>4, <1>7, MigrationAssumption DEF Schemas
<1>9. made \in Schemas /\ made[o] = d /\ \A x \in Objects \ {o} : made[x] = tx[e].made[x]
  <2> HIDE DEF o, d
  <2> QED  BY <1>3, <1>8 DEF Schemas
<1>10. t \in Applications
  <2>1. tx[e] \in Applications /\ n + 1 \in Nat
    BY <1>3, OfApplication
  <2> HIDE DEF made, n, o, d
  <2> QED  BY <1>9, <2>1 DEF Applications
<1>11. t.phase = "ddl" /\ t.plan = p /\ t.present = tx[e].present /\ t.made = made
       /\ t.named = tx[e].named /\ t.next = n + 1 /\ t.expected = tx[e].expected
  <2> HIDE DEF made
  <2> QED  BY <1>1, OfApplication DEF Applications
<1> HIDE DEF t, made
<1>12. \A x \in Objects : made[x] # Missing => schema[x] = Missing
  BY <1>2, <1>6, <1>8, <1>9
<1>13. ASSUME NEW i \in DOMAIN StatementsOf[p], i < n + 1
       PROVE  made[ObjectOf(p, i)] # Missing \/ schema[ObjectOf(p, i)] # Missing
  <2>1. CASE ObjectOf(p, i) = o
    BY <2>1, <1>8, <1>9
  <2>2. CASE ObjectOf(p, i) # o
    <3>1. i < n /\ ObjectOf(p, i) \in Objects
      BY <1>2, <1>3, <1>5, <1>13, <2>2, PlanParts
    <3> QED  BY <1>2, <1>9, <2>2, <3>1
  <2> QED  BY <2>1, <2>2
<1> HIDE DEF p, n, o, d
<1>14. MadeSoFar(t)
  BY <1>3, <1>11, <1>12, <1>13 DEF MadeSoFar, Holding, n
<1>15. NamedSoFar(t)
  BY <1>1, <1>11, OfApplication DEF NamedSoFar, p
<1>16. FoundSoFar(t)
  BY <1>1, <1>2, <1>11 DEF FoundSoFar, Expected
<1> QED  BY <1>1, <1>10, <1>14, <1>15, <1>16, LockedGoesOn DEF HoldsSoFar

\* The metadata of all the plan's Resources are written when all statements were.
LEMMA NameKeeps ==
    ASSUME IInv, NEW e \in Executors, Name(e)
    PROVE  IInv'
<1> DEFINE p == tx[e].plan
           named == [r \in Resources |-> IF r \in DOMAIN ResourcesOf[p] THEN RowOf(p, r) ELSE NoRow]
           t == [tx[e] EXCEPT !.phase = "record", !.named = named]
<1>1. tx[e].phase = "ddl" /\ tx[e].next > Last(p) /\ Continue(e, t) /\ Locked(e)
  BY DEF Name, At, Locked, RowOf
<1>2. /\ p \in Plans /\ ~tx[e].present /\ p \notin recorded /\ Expected(tx[e]) /\ tx[e].next > 0
      /\ \A i \in DOMAIN StatementsOf[p] : i < tx[e].next =>
             tx[e].made[ObjectOf(p, i)] # Missing \/ schema[ObjectOf(p, i)] # Missing
      /\ \A x \in Objects : tx[e].made[x] # Missing => schema[x] = Missing
  BY <1>1, OfApplication DEF FoundSoFar, MadeSoFar
<1>3. \A i \in DOMAIN StatementsOf[p] : i < tx[e].next
  BY <1>1, <1>2, OfApplication, PlanParts
<1>4. \A r \in DOMAIN ResourcesOf[p] : r \in Resources /\ RowOf(p, r) \in MetadataRow
  BY <1>2, PlanParts
<1>5. named \in Metadata
  BY <1>4 DEF Metadata
<1>6. \A r \in Resources : named[r] # NoRow => r \in DOMAIN ResourcesOf[p] /\ named[r] = RowOf(p, r)
  OBVIOUS
<1>7. \A r \in DOMAIN ResourcesOf[p] : named[r] # NoRow
  BY <1>4, MigrationAssumption
<1> HIDE DEF named
<1>8. t \in Applications
  BY <1>5, OfApplication DEF Applications, Phases
<1>9. t.phase = "record" /\ t.plan = p /\ t.present = tx[e].present /\ t.made = tx[e].made
      /\ t.named = named /\ t.next = tx[e].next /\ t.expected = tx[e].expected
  BY OfApplication DEF Applications
<1> HIDE DEF t, p
<1>10. MadeSoFar(t)
  BY <1>2, <1>3, <1>9 DEF MadeSoFar, Holding
<1>11. NamedSoFar(t)
  BY <1>6, <1>7, <1>9 DEF NamedSoFar
<1>12. FoundSoFar(t)
  BY <1>2, <1>9 DEF FoundSoFar, Expected
<1> QED  BY <1>1, <1>8, <1>10, <1>11, <1>12, LockedGoesOn DEF HoldsSoFar

\* The INSERT of the plan.
LEMMA RecordKeeps ==
    ASSUME IInv, NEW e \in Executors, Record(e)
    PROVE  IInv'
<1> DEFINE t == [tx[e] EXCEPT !.phase = "commit"]
<1>1. tx[e].phase = "record" /\ Locked(e)
  BY DEF Record, At, Locked
<1>2. tx[e].plan \in Plans /\ tx[e].plan \notin recorded /\ ~tx[e].present /\ Expected(tx[e])
  BY <1>1, OfApplication DEF FoundSoFar
<1>3. Continue(e, t)
  BY <1>2 DEF Record
<1>4. t \in Applications
  BY OfApplication DEF Applications, Phases
<1>5. t.phase = "commit" /\ t.plan = tx[e].plan /\ t.present = tx[e].present
      /\ t.made = tx[e].made /\ t.named = tx[e].named /\ t.next = tx[e].next
      /\ t.expected = tx[e].expected
  BY OfApplication DEF Applications
<1> HIDE DEF t
<1>6. MadeSoFar(t) /\ NamedSoFar(t)
  BY <1>1, <1>5, OfApplication DEF MadeSoFar, NamedSoFar, Holding
<1>7. FoundSoFar(t)
  BY <1>2, <1>5 DEF FoundSoFar, Expected
<1> QED  BY <1>1, <1>3, <1>4, <1>6, <1>7, LockedGoesOn DEF HoldsSoFar

\* A commit adds what its application has made and named.
LEMMA CommitAdds ==
    ASSUME IInv, NEW e \in Executors, Commit(e)
    PROVE  /\ tx[e].phase = "commit" /\ tx[e].plan \in Plans /\ Grows
           /\ schema' \in Schemas /\ metadata' \in Metadata
           /\ recorded' = recorded \cup {tx[e].plan}
           /\ \A o \in Objects :
                 tx[e].made[o] # Missing \/ schema[o] # Missing => schema'[o] # Missing
           /\ \A r \in Resources :
                 metadata'[r] = IF tx[e].named[r] = NoRow THEN metadata[r] ELSE tx[e].named[r]
<1>1. /\ tx[e].phase = "commit" /\ recorded' = recorded \cup {tx[e].plan}
      /\ schema' = Overlay(schema, tx[e].made, Missing)
      /\ metadata' = Overlay(metadata, tx[e].named, NoRow)
  BY DEF Commit, At
<1>2. tx[e].plan \in Plans /\ \A o \in Objects : tx[e].made[o] # Missing => schema[o] = Missing
  BY <1>1, OfApplication DEF FoundSoFar, MadeSoFar
<1>3. schema \in Schemas /\ metadata \in Metadata
      /\ tx[e].made \in Schemas /\ tx[e].named \in Metadata
  BY OfApplication DEF IInv, TypeOK
<1>4. schema' \in Schemas
      /\ \A o \in Objects :
            schema'[o] = IF tx[e].made[o] = Missing THEN schema[o] ELSE tx[e].made[o]
  BY <1>1, <1>3 DEF Overlay, Schemas
<1>5. metadata' \in Metadata
      /\ \A r \in Resources :
            metadata'[r] = IF tx[e].named[r] = NoRow THEN metadata[r] ELSE tx[e].named[r]
  BY <1>1, <1>3 DEF Overlay, Metadata
<1>6. Grows
  BY <1>1, <1>2, <1>4 DEF Grows
<1> QED  BY <1>1, <1>2, <1>4, <1>5, <1>6

\* The commit shows all of an application at once, and keeps what others found.
LEMMA CommitKeeps ==
    ASSUME IInv, NEW e \in Executors, Commit(e)
    PROVE  IInv'
<1> DEFINE p == tx[e].plan
           Next1 == [Idle EXCEPT !.phase = "revision", !.plan = p]
<1>1. PICK u \in {Idle, Next1} : tx' = [tx EXCEPT ![e] = u]
  BY DEF Commit
<1>2. known' \in {known, known \cup {Answer(e)}} /\ UNCHANGED <<applies, activated, verifiers>>
  BY DEF Commit
<1>3. /\ tx[e].phase = "commit" /\ p \in Plans /\ p \in recorded'
      /\ recorded' = recorded \cup {p} /\ Grows /\ Locked(e)
  BY CommitAdds DEF Locked
<1>4. \A o \in Executors \ {e} : ~Locked(o)
  BY <1>3 DEF IInv, LocksExclude
<1>5. /\ u \in Applications /\ ~Holding(u)
      /\ u.phase \in {"idle", "revision"} /\ (u.phase = "revision" => u.plan = p)
      /\ u.made = NoSchema /\ u.named = NoMetadata /\ u.next = 1
  <2>1. Next1 \in Applications
    BY <1>3, IdleHolds DEF Applications, Phases, Idle
  <2>2. Next1.phase = "revision" /\ Next1.plan = p /\ Next1.made = NoSchema
        /\ Next1.named = NoMetadata /\ Next1.next = 1
    BY DEF Idle
  <2>3. Idle.phase = "idle" /\ Idle.made = NoSchema /\ Idle.named = NoMetadata /\ Idle.next = 1
    BY DEF Idle
  <2>4. Idle \in Applications
    BY IdleHolds
  <2> HIDE DEF Next1
  <2> QED  BY <1>1, <2>1, <2>2, <2>3, <2>4 DEF Holding
<1> HIDE DEF Next1
<1>6. tx' \in [Executors -> Applications] /\ tx'[e] = u
      /\ \A o \in Executors \ {e} : tx'[o] = tx[o]
  BY <1>1, <1>5 DEF IInv, TypeOK
<1>7. TypeOK'
  <2>1. Answer(e) \in Evidence
    <3>1. tx[e].present \in BOOLEAN /\ tx[e].expected \in Fingerprints \cup {NoFingerprint}
      BY OfApplication DEF Applications
    <3> QED  BY <1>3, <3>1 DEF Answer, Evidence
  <2> QED  BY <1>2, <1>3, <1>6, <2>1, CommitAdds DEF IInv, TypeOK, verifiers
<1>8. LocksExclude'
  BY <1>4, <1>5, <1>6 DEF LocksExclude, Locked, Holding
<1>9. ApplicationsHold'
  <2>1. ASSUME NEW t \in Applications, ~Holding(t), t.made = NoSchema, t.next = 1,
               NamedSoFar(t), t.phase # "idle" => t.plan \in Plans,
               t.phase = "revision" => t.plan \in recorded'
        PROVE  HoldsSoFar(t)'
    <3>1. MadeSoFar(t)'
      BY <2>1 DEF MadeSoFar, Holding, NoSchema
    <3>2. NamedSoFar(t)'
      BY <2>1 DEF NamedSoFar
    <3>3. FoundSoFar(t)'
      BY <2>1 DEF FoundSoFar, Holding
    <3> QED  BY <3>1, <3>2, <3>3 DEF HoldsSoFar
  <2>2. HoldsSoFar(u)'
    <3>1. NamedSoFar(u)
      BY <1>5 DEF NamedSoFar, NoMetadata
    <3> QED  BY <1>3, <1>5, <2>1, <3>1
  <2>3. ASSUME NEW o \in Executors \ {e}
        PROVE  HoldsSoFar(tx[o])'
    <3>1. ~Holding(tx[o])
      BY <1>4, OfApplication
    <3>2. tx[o].made = NoSchema /\ tx[o].next = 1 /\ NamedSoFar(tx[o])
          /\ (tx[o].phase # "idle" => tx[o].plan \in Plans)
          /\ (tx[o].phase = "revision" => tx[o].plan \in recorded')
      BY <1>3, <3>1, OfApplication DEF MadeSoFar, FoundSoFar, Holding
    <3>3. HoldsSoFar(tx[o])' <=> HoldsSoFar(tx[o])'
      OBVIOUS
    <3> QED  BY <1>6, <2>1, <3>1, <3>2, OfApplication
  <2> QED  BY <1>6, <2>2, <2>3 DEF ApplicationsHold
<1>10. RecordedIsComplete'
  <2>1. ASSUME NEW q \in Plans, NEW i \in DOMAIN StatementsOf[q], q \in recorded'
        PROVE  schema'[StatementsOf[q][i].object] # Missing
    <3>1. StatementsOf[q][i].object \in Objects
      BY <2>1, PlanParts DEF ObjectOf
    <3>2. CASE q \in recorded
      BY <3>1, <3>2, CommitAdds DEF IInv, RecordedIsComplete
    <3>3. CASE q \notin recorded
      <4>1. q = p /\ ~tx[e].present
        BY <1>3, <2>1, <3>3, OfApplication DEF FoundSoFar
      <4>2. tx[e].made[ObjectOf(p, i)] # Missing \/ schema[ObjectOf(p, i)] # Missing
        BY <1>3, <4>1, OfApplication DEF MadeSoFar
      <4> QED  BY <3>1, <4>1, <4>2, CommitAdds DEF ObjectOf
    <3> QED  BY <3>2, <3>3
  <2>2. ASSUME NEW q \in Plans, NEW r \in DOMAIN ResourcesOf[q], q \in recorded'
        PROVE  metadata'[r] # NoRow
    <3>1. r \in Resources
      BY <2>2, PlanParts
    <3>2. CASE q \in recorded
      BY <3>1, <3>2, CommitAdds DEF IInv, RecordedIsComplete
    <3>3. CASE q \notin recorded
      <4>1. q = p /\ ~tx[e].present
        BY <1>3, <2>2, <3>3, OfApplication DEF FoundSoFar
      <4>2. tx[e].named[r] # NoRow
        BY <1>3, <2>2, <4>1, OfApplication DEF NamedSoFar
      <4> QED  BY <3>1, <4>2, CommitAdds
    <3> QED  BY <3>2, <3>3
  <2>3. recorded' \subseteq Plans
    BY <1>7 DEF TypeOK
  <2> QED  BY <2>1, <2>2, <2>3 DEF RecordedIsComplete
<1>11. MetadataIsRecorded'
  <2> SUFFICES ASSUME NEW r \in Resources, metadata'[r] # NoRow
               PROVE  IsOfRecorded(metadata[r], r)'
    BY DEF MetadataIsRecorded
  <2>1. CASE tx[e].named[r] = NoRow
    <3>1. metadata'[r] = metadata[r]
      BY <2>1, CommitAdds
    <3>2. IsOfRecorded(metadata[r], r)
      BY <3>1 DEF IInv, MetadataIsRecorded
    <3> QED  BY <1>3, <3>1, <3>2 DEF IsOfRecorded
  <2>2. CASE tx[e].named[r] # NoRow
    <3>1. metadata'[r] = tx[e].named[r]
      BY <2>2, CommitAdds
    <3>2. r \in DOMAIN ResourcesOf[p] /\ tx[e].named[r] = RowOf(p, r)
      BY <2>2, OfApplication DEF NamedSoFar
    <3> QED  BY <1>3, <3>1, <3>2 DEF IsOfRecorded
  <2> QED  BY <2>1, <2>2
<1>12. AnswersHold'
  BY <1>2, <1>3 DEF IInv, AnswersHold, Answer
<1>13. ChecksHold' /\ VerifiedStaysTrue'
  BY <1>2, <1>3, ChecksAreKept DEF verifiers
<1> QED  BY <1>7, <1>8, <1>9, <1>10, <1>11, <1>12, <1>13 DEF IInv

\* The revision has every Resource of the plan that was applied before it was read.
LEMMA ReadRevisionKeeps ==
    ASSUME IInv, NEW e \in Executors, ReadRevision(e)
    PROVE  IInv'
<1> DEFINE result == [plan |-> tx[e].plan, revision |-> metadata]
<1>1. /\ tx[e].phase = "revision" /\ activated' = activated \cup {result}
      /\ tx' = [tx EXCEPT ![e] = Idle] /\ UNCHANGED <<tables, applies, known, verifiers>>
  BY DEF ReadRevision, At
<1>2. tx[e].plan \in recorded
  BY <1>1, OfApplication DEF FoundSoFar
<1>3. result \in Activation
  BY <1>2 DEF IInv, TypeOK, Activation
<1>4. \A r \in DOMAIN ResourcesOf[result.plan] : result.revision[r] # NoRow
  BY <1>2 DEF IInv, RecordedIsComplete
<1> HIDE DEF result
<1>5. AnswersHold'
  BY <1>1, <1>4 DEF IInv, AnswersHold, tables
<1> QED  BY <1>1, <1>3, <1>5, IdleHolds, JobStep DEF IInv, TypeOK

-----------------------------------------------------------------------------
(* Verifications                                                           *)

\* A verification in progress is at one of the Resources it has left to do.
LEMMA CurrentIsLeft ==
    ASSUME IInv, NEW v \in Verifiers, check[v].phase # "idle"
    PROVE  /\ Current(v) \in check[v].rest
           /\ Current(v) \in DOMAIN ResourcesOf[check[v].plan]
           /\ Current(v) \in Resources
<1> DEFINE S == check[v].rest
           R == OpToRel(<, Nat)
<1>1. CheckHolds(v)
  BY DEF IInv, ChecksHold
<1>2. check[v].plan \in Plans /\ S # {} /\ S \subseteq DOMAIN ResourcesOf[check[v].plan]
  BY <1>1 DEF CheckHolds
<1>3. S \subseteq Resources /\ S \subseteq Nat
  BY <1>2, PlanParts, MigrationAssumption
<1>4. \A m, n \in Nat : n < m => <<n, m>> \in R
  BY DEF OpToRel
<1>5. IsWellFoundedOn(R, Nat)
  BY NatLessThanWellFounded
<1> HIDE DEF R, S
<1>6. PICK m \in S : \A n \in S : <<n, m>> \notin R
  BY <1>2, <1>3, <1>5, WFMin
<1>7. ASSUME NEW n \in S
      PROVE  m <= n
  <2>1. m \in Nat /\ n \in Nat
    BY <1>3
  <2>2. ~(n < m)
    BY <1>4, <1>6, <2>1
  <2> QED  BY <2>1, <2>2
<1>8. Current(v) \in S
  BY <1>7 DEF Current, S
<1> QED  BY <1>2, <1>3, <1>8 DEF S

\* A step of a verification.
LEMMA CheckStep ==
    ASSUME IInv, NEW v \in Verifiers, NEW c \in Checks, check' = [check EXCEPT ![v] = c],
           UNCHANGED <<tables, jobs>>, checks' \in 0 .. MaxChecks, verified' \subseteq Verification,
           CheckHolds(v)', VerifiedStaysTrue'
    PROVE  IInv'
<1>1. UNCHANGED <<schema, metadata, recorded, tx, applies, known, activated>>
  BY DEF tables, jobs
<1>2. TypeOK'
  BY <1>1 DEF IInv, TypeOK
<1>3. LocksExclude' /\ RecordedIsComplete' /\ AnswersHold'
  BY <1>1 DEF IInv, LocksExclude, Locked, RecordedIsComplete, AnswersHold
<1>4. MetadataIsRecorded'
  BY <1>1 DEF IInv, MetadataIsRecorded, IsOfRecorded
<1>5. ApplicationsHold'
  BY <1>1 DEF IInv, ApplicationsHold, HoldsSoFar, MadeSoFar, NamedSoFar, FoundSoFar, Expected,
     Observed
<1>6. ASSUME NEW w \in Verifiers \ {v}
      PROVE  CheckHolds(w)'
  <2>1. check'[w] = check[w] /\ Current(w)' = Current(w)
    BY DEF IInv, TypeOK, Current
  <2>2. CheckHolds(w)
    BY DEF IInv, ChecksHold
  <2>3. \A p, r : ShapeHolds(p, r)' <=> ShapeHolds(p, r)
    BY <1>1 DEF ShapeHolds, Has
  <2>4. \A p, r, F : RowHolds(p, r, F)' <=> RowHolds(p, r, F)
    BY <1>1 DEF RowHolds
  <2>5. \A row, r : IsOfRecorded(row, r)' <=> IsOfRecorded(row, r)
    BY <1>1 DEF IsOfRecorded
  <2>6. Has(Current(w))' = Has(Current(w))
    BY <1>1, <2>1 DEF Has
  <2> QED  BY <2>1, <2>2, <2>3, <2>4, <2>5, <2>6 DEF CheckHolds
<1>7. ChecksHold'
  BY <1>6 DEF ChecksHold
<1> QED  BY <1>2, <1>3, <1>4, <1>5, <1>7 DEF IInv

\* A verification that is over, or not begun.
LEMMA CheckEnds ==
    ASSUME IInv, NEW v \in Verifiers, Goto(v, NoCheck)
    PROVE  IInv'
<1>1. NoCheck \in Checks /\ check' = [check EXCEPT ![v] = NoCheck]
      /\ UNCHANGED <<tables, jobs, checks, verified>>
  BY DEF NoCheck, Checks, Goto
<1>2. CheckHolds(v)'
  BY <1>1 DEF IInv, TypeOK, CheckHolds, NoCheck
<1>3. VerifiedStaysTrue'
  BY <1>1 DEF IInv, VerifiedStaysTrue, tables, Has
<1> QED  BY <1>1, <1>2, <1>3, CheckStep DEF IInv, TypeOK

\* Calls of verify_physical.
LEMMA VerifyKeeps ==
    ASSUME IInv, NEW v \in Verifiers, NEW p \in Plans,
           NEW Q \in SUBSET DOMAIN ResourcesOf[p], Q # {}, Verify(v, p, Q)
    PROVE  IInv'
<1> DEFINE c == [NoCheck EXCEPT !.phase = "metadata", !.plan = p, !.requested = Q, !.rest = Q]
<1>1. check' = [check EXCEPT ![v] = c] /\ UNCHANGED <<tables, jobs, verified>>
      /\ checks < MaxChecks /\ checks' = checks + 1
  BY DEF Verify
<1>2. Q \subseteq Resources
  BY PlanParts
<1>3. c \in Checks /\ c.phase = "metadata" /\ c.plan = p /\ c.requested = Q /\ c.rest = Q
      /\ c.found = {}
  BY <1>2 DEF NoCheck, Checks
<1> HIDE DEF c
<1>4. check'[v] = c
  BY <1>1 DEF IInv, TypeOK
<1>5. CheckHolds(v)'
  BY <1>3, <1>4, FS_EmptySet DEF CheckHolds
<1>6. VerifiedStaysTrue'
  BY <1>1 DEF IInv, VerifiedStaysTrue, tables, Has
<1>7. checks' \in 0 .. MaxChecks
  BY <1>1, MigrationAssumption DEF IInv, TypeOK
<1> QED  BY <1>1, <1>3, <1>5, <1>6, <1>7, CheckStep DEF IInv, TypeOK

\* A step at the same Resource.
LEMMA GotoKeeps ==
    ASSUME IInv, NEW v \in Verifiers, check[v].phase # "idle", NEW c \in Checks, Goto(v, c),
           c.phase # "idle", c.plan = check[v].plan, c.requested = check[v].requested,
           c.rest = check[v].rest, c.found = check[v].found,
           c.phase # "metadata" => c.row # NoRow /\ IsOfRecorded(c.row, Current(v)),
           c.phase = "indexes" /\ c.columns =>
              ColumnsIn(Expects(c.plan, Current(v))) \subseteq Has(Current(v))
    PROVE  IInv'
<1>1. check' = [check EXCEPT ![v] = c] /\ UNCHANGED <<tables, jobs, checks, verified>>
  BY DEF Goto
<1>2. check'[v] = c
  BY <1>1 DEF IInv, TypeOK
<1>3. Current(v)' = Current(v)
  BY <1>2 DEF Current
<1>4. CheckHolds(v)
  BY DEF IInv, ChecksHold
<1>5. \A p, r : ShapeHolds(p, r)' <=> ShapeHolds(p, r)
  BY <1>1 DEF ShapeHolds, Has, tables
<1>6. \A p, r, F : RowHolds(p, r, F)' <=> RowHolds(p, r, F)
  BY <1>1 DEF RowHolds, tables
<1>7. \A row, r : IsOfRecorded(row, r)' <=> IsOfRecorded(row, r)
  BY <1>1 DEF IsOfRecorded, tables
<1>8. Has(Current(v))' = Has(Current(v))
  BY <1>1, <1>3 DEF Has, tables
<1>9. CheckHolds(v)'
  BY <1>2, <1>3, <1>4, <1>5, <1>6, <1>7, <1>8 DEF CheckHolds
<1>10. VerifiedStaysTrue'
  BY <1>1 DEF IInv, VerifiedStaysTrue, tables, Has
<1> QED  BY <1>1, <1>9, <1>10, CheckStep DEF IInv, TypeOK

\* The row a verification reads is of a recorded plan, or there is none.
LEMMA ReadMetadataKeeps ==
    ASSUME IInv, NEW v \in Verifiers, ReadMetadata(v)
    PROVE  IInv'
<1> DEFINE row == metadata[Current(v)]
           c == [check[v] EXCEPT !.phase = "columns", !.row = row]
<1>1. check[v].phase = "metadata" /\ Goto(v, IF row = NoRow THEN NoCheck ELSE c)
  BY DEF ReadMetadata
<1>2. CASE row = NoRow
  BY <1>1, <1>2, CheckEnds
<1>3. CASE row # NoRow
  <2>1. Current(v) \in Resources
    BY <1>1, CurrentIsLeft
  <2>2. IsOfRecorded(row, Current(v)) /\ row \in MetadataRow \cup {NoRow}
    BY <1>3, <2>1 DEF IInv, MetadataIsRecorded, TypeOK, Metadata
  <2>3. check[v] \in Checks
    BY DEF IInv, TypeOK
  <2> HIDE DEF row
  <2>4. c \in Checks /\ c.phase = "columns" /\ c.plan = check[v].plan
        /\ c.requested = check[v].requested /\ c.rest = check[v].rest
        /\ c.found = check[v].found /\ c.row = row
    BY <2>2, <2>3 DEF Checks
  <2> HIDE DEF c
  <2> QED  BY <1>1, <1>3, <2>2, <2>4, GotoKeeps
<1> QED  BY <1>2, <1>3

\* Columns that a verification has seen stay.
LEMMA ReadColumnsKeeps ==
    ASSUME IInv, NEW v \in Verifiers, ReadColumns(v)
    PROVE  IInv'
<1> DEFINE agree == ColumnsAgree(check[v].plan, Current(v))
           c == [check[v] EXCEPT !.phase = "indexes", !.columns = agree]
<1>1. check[v].phase = "columns" /\ Goto(v, c)
  BY DEF ReadColumns
<1>2. check[v] \in Checks /\ CheckHolds(v)
  BY DEF IInv, TypeOK, ChecksHold
<1>3. agree \in BOOLEAN
  BY DEF ColumnsAgree
<1>4. agree => ColumnsIn(Expects(check[v].plan, Current(v))) \subseteq Has(Current(v))
  BY DEF ColumnsAgree, ColumnsIn
<1> HIDE DEF agree
<1>5. c \in Checks /\ c.phase = "indexes" /\ c.plan = check[v].plan
      /\ c.requested = check[v].requested /\ c.rest = check[v].rest
      /\ c.found = check[v].found /\ c.row = check[v].row
  BY <1>2, <1>3 DEF Checks
<1>6. c.columns = agree
  BY <1>2 DEF Checks
<1> HIDE DEF c
<1>7. c.row # NoRow /\ IsOfRecorded(c.row, Current(v))
  BY <1>1, <1>2, <1>5 DEF CheckHolds
<1>8. c.columns => ColumnsIn(Expects(c.plan, Current(v))) \subseteq Has(Current(v))
  BY <1>4, <1>5, <1>6
<1> QED  BY <1>1, <1>5, <1>7, <1>8, GotoKeeps

\* A Resource that is in order is as the plan has it, and its row is of a plan that
\* agrees.
LEMMA InOrderHolds ==
    ASSUME IInv, NEW v \in Verifiers, check[v].phase = "indexes", InOrder(v)
    PROVE  /\ ShapeHolds(check[v].plan, Current(v))
           /\ RowHolds(check[v].plan, Current(v), Found(v))
           /\ \A r \in check[v].requested \ check[v].rest :
                 ShapeHolds(check[v].plan, r) /\ RowHolds(check[v].plan, r, Found(v))
           /\ IsFiniteSet(Found(v)) /\ Found(v) \subseteq Fingerprints
           /\ check[v].row.physical \in Found(v)
<1> DEFINE p == check[v].plan
           r == Current(v)
           row == check[v].row
<1>1. CheckHolds(v)
  BY DEF IInv, ChecksHold
<1>2. /\ ColumnsIn(Expects(p, r)) \subseteq Has(r) /\ row # NoRow /\ IsOfRecorded(row, r)
      /\ IsFiniteSet(check[v].found)
      /\ \A s \in check[v].requested \ check[v].rest :
            ShapeHolds(p, s) /\ RowHolds(p, s, check[v].found)
  BY <1>1 DEF CheckHolds, InOrder
<1>3. IndexNames(Has(r)) = IndexNames(Expects(p, r)) /\ row.resource = ResourcesOf[p][r]
  BY DEF InOrder
<1>4. ShapeHolds(p, r)
  BY <1>2, <1>3 DEF ShapeHolds
<1>5. PICK q \in recorded : r \in DOMAIN ResourcesOf[q] /\ row = RowOf(q, r)
  BY <1>2 DEF IsOfRecorded
<1>6. row.physical = Physical[q] /\ row.resource = ResourcesOf[q][r]
  BY <1>5 DEF RowOf
<1>7. row.physical \in Found(v) /\ check[v].found \subseteq Found(v)
  BY DEF Found
<1>8. RowHolds(p, r, Found(v))
  BY <1>3, <1>5, <1>6, <1>7 DEF RowHolds
<1>9. \A s : RowHolds(p, s, check[v].found) => RowHolds(p, s, Found(v))
  BY <1>7 DEF RowHolds
<1>10. IsFiniteSet(Found(v))
  BY <1>2, FS_AddElement DEF Found
<1>11. Found(v) \subseteq Fingerprints
  <2>1. check[v] \in Checks /\ q \in Plans
    BY DEF IInv, TypeOK
  <2>2. Physical[q] \in Fingerprints
    BY <2>1, PlanParts
  <2> QED  BY <1>6, <2>1, <2>2 DEF Found, Checks
<1> QED  BY <1>2, <1>4, <1>7, <1>8, <1>9, <1>10, <1>11

\* The next Resource.
LEMMA GoesOn ==
    ASSUME IInv, NEW v \in Verifiers, check[v].phase = "indexes", InOrder(v),
           check[v].rest # {Current(v)},
           Goto(v, [check[v] EXCEPT !.phase = "metadata", !.rest = @ \ {Current(v)},
                                    !.row = NoRow, !.columns = FALSE, !.found = Found(v)])
    PROVE  IInv'
<1> DEFINE rest == check[v].rest \ {Current(v)}
           c == [check[v] EXCEPT !.phase = "metadata", !.rest = rest,
                                 !.row = NoRow, !.columns = FALSE, !.found = Found(v)]
<1>1. check[v] \in Checks /\ CheckHolds(v)
  BY DEF IInv, TypeOK, ChecksHold
<1>2. check' = [check EXCEPT ![v] = c] /\ UNCHANGED <<tables, jobs, checks, verified>>
  BY <1>1 DEF Goto, Checks
<1>3. /\ IsFiniteSet(Found(v)) /\ Found(v) \subseteq Fingerprints
      /\ \A r \in check[v].requested \ rest :
            ShapeHolds(check[v].plan, r) /\ RowHolds(check[v].plan, r, Found(v))
  BY InOrderHolds
<1>4. rest # {} /\ rest \subseteq check[v].requested /\ check[v].requested \subseteq Resources
  BY <1>1, CurrentIsLeft DEF CheckHolds, Checks
<1> HIDE DEF rest
<1>5. c \in Checks
  BY <1>1, <1>3, <1>4 DEF Checks
<1>6. c.phase = "metadata" /\ c.plan = check[v].plan /\ c.requested = check[v].requested
      /\ c.rest = rest /\ c.found = Found(v)
  BY <1>1 DEF Checks
<1> HIDE DEF c
<1>7. check'[v] = c
  BY <1>2 DEF IInv, TypeOK
<1>8. \A p, r : ShapeHolds(p, r)' <=> ShapeHolds(p, r)
  BY <1>2 DEF ShapeHolds, Has, tables
<1>9. \A p, r, F : RowHolds(p, r, F)' <=> RowHolds(p, r, F)
  BY <1>2 DEF RowHolds, tables
<1>10. check[v].plan \in Plans /\ check[v].requested \subseteq DOMAIN ResourcesOf[check[v].plan]
  BY <1>1 DEF CheckHolds
<1>11. CheckHolds(v)'
  BY <1>3, <1>4, <1>6, <1>7, <1>8, <1>9, <1>10 DEF CheckHolds
<1>12. VerifiedStaysTrue'
  BY <1>2 DEF IInv, VerifiedStaysTrue, tables, Has
<1> QED  BY <1>2, <1>5, <1>11, <1>12, CheckStep DEF IInv, TypeOK

\* The last Resource: what the verifier is told.
LEMMA Succeeds ==
    ASSUME IInv, NEW v \in Verifiers, check[v].phase = "indexes", InOrder(v),
           check[v].rest = {Current(v)}, check' = [check EXCEPT ![v] = NoCheck],
           verified' = verified \cup
               {[plan |-> check[v].plan, requested |-> check[v].requested,
                 fingerprint |-> IF Cardinality(Found(v)) = 1 THEN check[v].row.physical
                                 ELSE Divergent]},
           UNCHANGED <<tables, jobs, checks>>
    PROVE  IInv'
<1> DEFINE p == check[v].plan
           fingerprint == IF Cardinality(Found(v)) = 1 THEN check[v].row.physical ELSE Divergent
           k == [plan |-> p, requested |-> check[v].requested, fingerprint |-> fingerprint]
<1>1. check[v] \in Checks /\ CheckHolds(v)
  BY DEF IInv, TypeOK, ChecksHold
<1>2. /\ IsFiniteSet(Found(v)) /\ Found(v) \subseteq Fingerprints
      /\ check[v].row.physical \in Found(v)
      /\ \A r \in check[v].requested : ShapeHolds(p, r) /\ RowHolds(p, r, Found(v))
  BY InOrderHolds
<1>3. \A f \in Found(v) : fingerprint \in {f, Divergent}
  <2>1. CASE Cardinality(Found(v)) = 1
    <3>1. PICK x : Found(v) = {x}
      BY <1>2, <2>1, FS_Singleton
    <3> QED  BY <1>2, <3>1
  <2>2. CASE Cardinality(Found(v)) # 1
    BY <2>2
  <2> QED  BY <2>1, <2>2
<1>4. fingerprint \in Fingerprints \cup {Divergent}
  BY <1>2
<1> HIDE DEF fingerprint
<1>5. k \in Verification
  BY <1>1, <1>4 DEF Verification, Checks, CheckHolds
<1>6. k.plan = p /\ k.requested = check[v].requested /\ k.fingerprint = fingerprint
  OBVIOUS
<1>7. verified' = verified \cup {k}
  BY DEF fingerprint
<1> HIDE DEF k, p
<1>8. UNCHANGED <<schema, recorded>>
  BY DEF tables
<1>9. VerifiedStaysTrue'
  <2> SUFFICES ASSUME NEW j \in verified', NEW r \in j.requested
               PROVE  /\ ColumnsIn(Expects(j.plan, r)) \subseteq Has(r)'
                      /\ IndexNames(Expects(j.plan, r)) \subseteq IndexNames(Has(r)')
                      /\ \E q \in recorded' :
                            /\ r \in DOMAIN ResourcesOf[q]
                            /\ ResourcesOf[q][r] = ResourcesOf[j.plan][r]
                            /\ j.fingerprint \in {Physical[q], Divergent}
    BY DEF VerifiedStaysTrue
  <2>1. Has(r)' = Has(r)
    BY <1>8 DEF Has
  <2>2. CASE j \in verified
    BY <1>8, <2>1, <2>2 DEF IInv, VerifiedStaysTrue
  <2>3. CASE j = k
    <3>1. ShapeHolds(p, r) /\ RowHolds(p, r, Found(v))
      BY <1>2, <1>6, <2>3
    <3>2. PICK q \in recorded : /\ r \in DOMAIN ResourcesOf[q]
                                /\ ResourcesOf[q][r] = ResourcesOf[p][r]
                                /\ Physical[q] \in Found(v)
      BY <3>1 DEF RowHolds
    <3>3. j.fingerprint \in {Physical[q], Divergent}
      BY <1>3, <1>6, <2>3, <3>2
    <3> QED  BY <1>6, <1>8, <2>1, <2>3, <3>1, <3>2, <3>3 DEF ShapeHolds
  <2> QED  BY <1>7, <2>2, <2>3
<1>10. NoCheck \in Checks
  BY DEF NoCheck, Checks
<1>11. CheckHolds(v)'
  BY DEF IInv, TypeOK, CheckHolds, NoCheck
<1>12. verified' \subseteq Verification
  BY <1>5, <1>7 DEF IInv, TypeOK
<1> QED  BY <1>9, <1>10, <1>11, <1>12, CheckStep DEF IInv, TypeOK

\* A verification that has seen the indexes too is done with a Resource; with the last
\* one it ends, and what it found of each of them holds.
LEMMA ReadIndexesKeeps ==
    ASSUME IInv, NEW v \in Verifiers, ReadIndexes(v)
    PROVE  IInv'
<1>1. check[v].phase = "indexes"
  BY DEF ReadIndexes
<1>2. CASE ~InOrder(v)
  BY <1>2, CheckEnds DEF ReadIndexes
<1>3. CASE InOrder(v) /\ check[v].rest # {Current(v)}
  BY <1>1, <1>3, GoesOn DEF ReadIndexes
<1>4. CASE InOrder(v) /\ check[v].rest = {Current(v)}
  BY <1>1, <1>4, Succeeds DEF ReadIndexes
<1> QED  BY <1>2, <1>3, <1>4

-----------------------------------------------------------------------------
(* The theorems                                                            *)

\* Every step of the program keeps the invariant.
LEMMA NextInv == IInv /\ [Next]_vars => IInv'
<1> SUFFICES ASSUME IInv, [Next]_vars
             PROVE  IInv'
  OBVIOUS
<1>1. ASSUME NEW e \in Executors, NEW p \in Plans, NEW f \in Fingerprints \cup {NoFingerprint},
             Call(e, p, f)
      PROVE  IInv'
  BY <1>1, StartKeeps DEF Call
<1>2. ASSUME NEW e \in Executors, NEW p \in Plans, Activate(e, p)
      PROVE  IInv'
  BY <1>2, StartKeeps DEF Activate
<1>3. ASSUME NEW e \in Executors, Refuse(e) \/ Fail(e)
      PROVE  IInv'
  BY <1>3, FailKeeps DEF Refuse, Fail
<1>4. ASSUME NEW e \in Executors,
             Lock(e) \/ Lookup(e) \/ Compare(e) \/ Execute(e) \/ Name(e) \/ Record(e) \/ Commit(e)
             \/ ReadRevision(e)
      PROVE  IInv'
  BY <1>4, LockKeeps, LookupKeeps, CompareKeeps, ExecuteKeeps, NameKeeps, RecordKeeps, CommitKeeps,
     ReadRevisionKeeps
<1>5. ASSUME NEW v \in Verifiers, NEW p \in Plans,
             NEW Q \in (SUBSET DOMAIN ResourcesOf[p]) \ {{}}, Verify(v, p, Q)
      PROVE  IInv'
  <2>1. Q \in SUBSET DOMAIN ResourcesOf[p] /\ Q # {}
    OBVIOUS
  <2> QED  BY <1>5, <2>1, VerifyKeeps
<1>6. ASSUME NEW v \in Verifiers, ReadMetadata(v) \/ ReadColumns(v) \/ ReadIndexes(v)
      PROVE  IInv'
  BY <1>6, ReadMetadataKeeps, ReadColumnsKeeps, ReadIndexesKeeps
<1>7. CASE UNCHANGED vars
  <2>1. UNCHANGED <<schema, metadata, recorded, tx, applies, known, activated, check, checks,
                    verified>>
    BY <1>7 DEF vars, tables, jobs, verifiers
  <2>2. TypeOK' /\ LocksExclude' /\ RecordedIsComplete' /\ AnswersHold' /\ MetadataIsRecorded'
    BY <2>1 DEF IInv, TypeOK, LocksExclude, Locked, RecordedIsComplete, AnswersHold,
       MetadataIsRecorded, IsOfRecorded
  <2>3. ApplicationsHold'
    BY <2>1 DEF IInv, ApplicationsHold, HoldsSoFar, MadeSoFar, NamedSoFar, FoundSoFar, Expected,
       Observed
  <2>4. ChecksHold' /\ VerifiedStaysTrue'
    BY <2>1, ChecksAreKept DEF Grows
  <2> QED  BY <2>2, <2>3, <2>4 DEF IInv
<1> QED  BY <1>1, <1>2, <1>3, <1>4, <1>5, <1>6, <1>7 DEF Next

\* Every reachable state of every instance is well typed.
THEOREM MigrationTypeOK == Spec => []TypeOK
<1>1. IInv => TypeOK
  BY DEF IInv
<1> QED  BY <1>1, InitInv, NextInv, PTL DEF Spec

\* A plan in __meridian_migrations has all its objects and all its metadata, wherever
\* jobs fail, die or lose their answer.
THEOREM MigrationsAreAtomic == Spec => []RecordedIsComplete
<1>1. IInv => RecordedIsComplete
  BY DEF IInv
<1> QED  BY <1>1, InitInv, NextInv, PTL DEF Spec

\* A verify_physical that succeeds is right, and stays so, although each of its
\* statements has a snapshot of its own.
THEOREM VerificationsAreRight == Spec => []VerifiedStaysTrue
<1>1. IInv => VerifiedStaysTrue
  BY DEF IInv
<1> QED  BY <1>1, InitInv, NextInv, PTL DEF Spec

\* A plan is reported as applied by the one job that applied it, to the state its
\* caller expected; and an activation answers with all of its Resources.
THEOREM AnswersAreTrue == Spec => ReportedTruly
<1> DEFINE Truly ==
      /\ \A k \in known' : k.plan \in recorded'
      /\ \A k \in known' \ known : k.applied =>
            /\ k.plan \notin recorded
            /\ k.expected # NoFingerprint => Observed \subseteq {k.expected}
      /\ \A a \in activated' : \A r \in DOMAIN ResourcesOf[a.plan] : a.revision[r] # NoRow
<1>1. ASSUME IInv, IInv', [Next]_vars
      PROVE  Truly
  <2>1. AnswersHold'
    BY <1>1 DEF IInv
  <2>2. ASSUME NEW k \in known' \ known, k.applied
        PROVE  /\ k.plan \notin recorded
               /\ k.expected # NoFingerprint => Observed \subseteq {k.expected}
    <3>1. PICK e \in Executors : Commit(e)
      BY <1>1, <2>2 DEF Next, Call, Activate, Start, Lock, Lookup, Compare, Refuse, Execute, Name,
         Record, ReadRevision, Fail, Continue, Verify, ReadMetadata, ReadColumns, ReadIndexes, Goto,
         vars, jobs
    <3>2. k = Answer(e) /\ tx[e].phase = "commit"
      BY <2>2, <3>1 DEF Commit, At
    <3>3. k.plan = tx[e].plan /\ ~tx[e].present /\ k.expected = tx[e].expected
      BY <2>2, <3>2 DEF Answer
    <3>4. tx[e].plan \notin recorded /\ Expected(tx[e])
      BY <1>1, <3>2, <3>3, OfApplication DEF FoundSoFar
    <3> QED  BY <3>3, <3>4 DEF Expected
  <2> QED  BY <2>1, <2>2 DEF AnswersHold
<1>2. ASSUME IInv, IInv', [Next]_vars
      PROVE  [Truly]_vars
  BY <1>1, <1>2
<1> QED  BY <1>2, InitInv, NextInv, PTL DEF Spec, ReportedTruly
=============================================================================
