------------------------ MODULE EvidenceReplayProofs ------------------------
(***************************************************************************)
(* Theorems about EvidenceReplay: for any sessions, keys and batches, an   *)
(* append is committed whole, once, and answered with what was committed.  *)
(***************************************************************************)
EXTENDS EvidenceReplay, TLAPS

-----------------------------------------------------------------------------
(* The inductive invariant                                                 *)

Appending(t) == t.phase \notin {"idle", "open"}

\* What transaction t keeps if its append fails: all it has when there is none.
Base(t) == IF Appending(t) THEN t.saved ELSE t.view

\* Replay rows and records without an unfinished append: AppliedOnce of any tables.
Whole(claims, records) ==
    /\ \A x \in Records : records[x] # NoResult =>
          LET r == records[x].request IN
          /\ \A y \in Written(r) : records[y] = records[x]
          /\ KeyOf[r] # NoKey => claims[KeyOf[r]] = [request |-> r, result |-> records[x]]
    /\ \A k \in Keys : claims[k] # NoRow =>
          /\ claims[k].result # NoResult
          /\ \A x \in Written(claims[k].request) : records[x] = claims[k].result

\* An append with a key has its claim, and of its batch the records before the next.
Done(t) == {BatchOf[t.request][i] : i \in 1 .. t.next - 1}

AppendHolds(t) ==
    /\ t.request \in Requests /\ t.number # 0
    /\ t.phase \in {"claim", "lookup"} =>
          KeyOf[t.request] # NoKey /\ t.next = 1 /\ t.view = t.saved
    /\ t.phase \in {"insert", "store"} =>
          /\ t.next > 0
          /\ t.phase = "insert" => t.next <= Len(BatchOf[t.request])
          /\ t.phase = "store" => t.next = Len(BatchOf[t.request]) + 1
          /\ KeyOf[t.request] # NoKey => t.saved.claims[KeyOf[t.request]] = NoRow
          /\ \A k \in Keys : t.view.claims[k] =
                IF k = KeyOf[t.request] THEN [request |-> t.request, result |-> NoResult]
                ELSE t.saved.claims[k]
          /\ \A x \in Done(t) : t.saved.records[x] = NoResult
          /\ \A x \in Records : t.view.records[x] =
                IF x \in Done(t) THEN [request |-> t.request, number |-> t.number]
                ELSE t.saved.records[x]

\* A transaction writes only what is not committed yet.
Fresh(view) ==
    /\ \A k \in Keys : view.claims[k] # NoRow => replay[k] = NoRow
    /\ \A x \in Records : view.records[x] # NoResult => evidence[x] = NoResult

\* Its answers are what the tables say, or will say when it commits.
GivenHold(given, records) ==
    \A a \in given : \A x \in Written(a.request) :
        evidence[x] = a.result \/ records[x] = a.result

Holds(t) ==
    /\ Appending(t) => AppendHolds(t)
    /\ Whole(Base(t).claims, Base(t).records)
    /\ Fresh(t.view)
    /\ GivenHold(t.given, Base(t).records)

TransactionsHold == \A s \in Sessions : Holds(tx[s])

\* No two transactions have written the same row.
Apart(v, w) ==
    /\ \A k \in Keys : v.claims[k] = NoRow \/ w.claims[k] = NoRow
    /\ \A x \in Records : v.records[x] = NoResult \/ w.records[x] = NoResult

TransactionsApart == \A s, o \in Sessions : s # o => Apart(tx[s].view, tx[o].view)

IInv ==
    /\ TypeOK
    /\ TransactionsHold
    /\ TransactionsApart
    /\ Whole(replay, evidence)
    /\ KnownAnswersHold
-----------------------------------------------------------------------------

\* A session that is not in a transaction has nothing.
LEMMA IdleHolds == Idle \in Transactions /\ Holds(Idle)
<1>1. Idle \in Transactions
  BY ReplayAssumption DEF Idle, Transactions, NoView, Views, Phases
<1> QED  BY <1>1 DEF Holds, Appending, Base, Idle, NoView, Whole, Fresh, GivenHold

\* The initial state satisfies the invariant.
LEMMA InitInv == Init => IInv
<1> SUFFICES ASSUME Init
             PROVE  IInv
  OBVIOUS
<1>1. TypeOK
  BY IdleHolds, ReplayAssumption DEF Init, TypeOK, NoView
<1>2. TransactionsHold
  BY IdleHolds DEF Init, TransactionsHold
<1>3. TransactionsApart
  BY DEF Init, TransactionsApart, Apart, Idle, NoView
<1> QED  BY <1>1, <1>2, <1>3 DEF Init, IInv, NoView, Whole, KnownAnswersHold

\* Tables without unfinished appends that have no row in common make such tables
\* together.
LEMMA WholeTogether ==
    ASSUME NEW c \in [Keys -> Rows \cup {NoRow}], NEW w \in [Records -> Results \cup {NoResult}],
           NEW d \in [Keys -> Rows \cup {NoRow}], NEW v \in [Records -> Results \cup {NoResult}],
           Whole(c, w), Whole(d, v),
           \A k \in Keys : c[k] = NoRow \/ d[k] = NoRow,
           \A x \in Records : w[x] = NoResult \/ v[x] = NoResult,
           NEW claims, NEW records,
           \A k \in Keys : claims[k] = IF d[k] = NoRow THEN c[k] ELSE d[k],
           \A x \in Records : records[x] = IF v[x] = NoResult THEN w[x] ELSE v[x]
    PROVE  Whole(claims, records)
<1>1. \A q \in Requests : Written(q) \subseteq Records /\ KeyOf[q] \in Keys \cup {NoKey}
  BY ReplayAssumption DEF Written
<1>2. \A x \in Records : /\ w[x] # NoResult => w[x].request \in Requests
                         /\ v[x] # NoResult => v[x].request \in Requests
  BY DEF Results
<1>3. \A k \in Keys : /\ c[k] # NoRow => c[k].request \in Requests
                      /\ d[k] # NoRow => d[k].request \in Requests
  BY DEF Rows
<1>4. \A q \in Requests, z \in Results : [request |-> q, result |-> z] # NoRow
  BY ReplayAssumption DEF Rows
<1>5. ASSUME NEW x \in Records, records[x] # NoResult
      PROVE  LET r == records[x].request IN
             /\ \A y \in Written(r) : records[y] = records[x]
             /\ KeyOf[r] # NoKey => claims[KeyOf[r]] = [request |-> r, result |-> records[x]]
  <2>1. CASE v[x] = NoResult
    <3> DEFINE r == w[x].request
    <3>1. records[x] = w[x] /\ w[x] \in Results /\ r \in Requests
      BY <1>2, <1>5, <2>1
    <3>2. /\ \A y \in Written(r) : w[y] = w[x]
          /\ KeyOf[r] # NoKey => c[KeyOf[r]] = [request |-> r, result |-> w[x]]
      BY <1>5, <3>1 DEF Whole
    <3>3. \A y \in Written(r) : y \in Records /\ v[y] = NoResult
      BY <1>1, <1>5, <3>1, <3>2
    <3>4. KeyOf[r] # NoKey => KeyOf[r] \in Keys /\ d[KeyOf[r]] = NoRow
      BY <1>1, <1>4, <3>1, <3>2
    <3> QED  BY <3>1, <3>2, <3>3, <3>4
  <2>2. CASE v[x] # NoResult
    <3> DEFINE r == v[x].request
    <3>1. records[x] = v[x] /\ v[x] \in Results /\ r \in Requests
      BY <1>2, <2>2
    <3>2. /\ \A y \in Written(r) : v[y] = v[x]
          /\ KeyOf[r] # NoKey => d[KeyOf[r]] = [request |-> r, result |-> v[x]]
      BY <2>2 DEF Whole
    <3>3. \A y \in Written(r) : y \in Records /\ v[y] # NoResult
      BY <1>1, <2>2, <3>1, <3>2
    <3>4. KeyOf[r] # NoKey => KeyOf[r] \in Keys /\ d[KeyOf[r]] # NoRow
      BY <1>1, <1>4, <3>1, <3>2
    <3> QED  BY <3>1, <3>2, <3>3, <3>4
  <2> QED  BY <2>1, <2>2
<1>6. ASSUME NEW k \in Keys, claims[k] # NoRow
      PROVE  /\ claims[k].result # NoResult
             /\ \A x \in Written(claims[k].request) : records[x] = claims[k].result
  <2>1. CASE d[k] = NoRow
    <3>1. claims[k] = c[k] /\ c[k] # NoRow /\ c[k].request \in Requests
      BY <1>3, <1>6, <2>1
    <3>2. /\ c[k].result # NoResult
          /\ \A x \in Written(c[k].request) : x \in Records /\ w[x] = c[k].result
      BY <1>1, <3>1 DEF Whole
    <3>3. \A x \in Written(c[k].request) : v[x] = NoResult
      BY <3>2
    <3> QED  BY <3>1, <3>2, <3>3
  <2>2. CASE d[k] # NoRow
    <3>1. claims[k] = d[k] /\ d[k].request \in Requests
      BY <1>3, <2>2
    <3>2. /\ d[k].result # NoResult
          /\ \A x \in Written(d[k].request) : x \in Records /\ v[x] = d[k].result
      BY <1>1, <2>2, <3>1 DEF Whole
    <3> QED  BY <3>1, <3>2
  <2> QED  BY <2>1, <2>2
<1> HIDE DEF Written
<1> QED  BY <1>5, <1>6 DEF Whole

\* A step of one transaction that commits nothing.
LEMMA StepKeeps ==
    ASSUME IInv, NEW s \in Sessions, NEW t \in Transactions,
           tx' = [tx EXCEPT ![s] = t], UNCHANGED <<replay, evidence, known>>,
           appends' \in 0 .. MaxAppends,
           Holds(t), \A o \in Sessions \ {s} : Apart(t.view, tx[o].view)
    PROVE  IInv'
<1>1. /\ \A o \in Sessions : tx'[o] = IF o = s THEN t ELSE tx[o]
      /\ TypeOK'
  BY DEF IInv, TypeOK
<1>2. \A u : Holds(u)' <=> Holds(u)
  BY DEF Holds, Fresh, GivenHold
<1>3. TransactionsHold'
  BY <1>1, <1>2 DEF IInv, TransactionsHold
<1>4. TransactionsApart'
  BY <1>1 DEF IInv, TransactionsApart, Apart
<1> QED  BY <1>1, <1>3, <1>4 DEF IInv, KnownAnswersHold

\* What the invariant says of one transaction.
LEMMA OfTransaction ==
    ASSUME IInv, NEW s \in Sessions
    PROVE  /\ tx[s] \in Transactions /\ Holds(tx[s])
           /\ \A o \in Sessions \ {s} : Apart(tx[s].view, tx[o].view)
           /\ tx[s].view \in Views /\ tx[s].saved \in Views
  BY DEF IInv, TypeOK, TransactionsHold, TransactionsApart, Transactions

\* An append that ends otherwise than answered leaves what there was before it.
LEMMA BackKeeps ==
    ASSUME IInv, NEW s \in Sessions, InAppend(s), BackToSavepoint(s)
    PROVE  IInv'
<1> DEFINE t == [tx[s] EXCEPT !.phase = "open", !.view = tx[s].saved]
<1>1. /\ tx[s] \in Transactions /\ Holds(tx[s])
      /\ \A o \in Sessions \ {s} : Apart(tx[s].view, tx[o].view)
      /\ tx[s].saved \in Views
  BY OfTransaction
<1>2. /\ t \in Transactions
      /\ t.phase = "open" /\ t.view = tx[s].saved /\ t.given = tx[s].given
  BY <1>1 DEF Transactions, Phases
<1>3. Appending(tx[s])
  BY DEF InAppend, Appending
<1>4. /\ \A k \in Keys : t.view.claims[k] # NoRow => tx[s].view.claims[k] # NoRow
      /\ \A x \in Records : t.view.records[x] # NoResult => tx[s].view.records[x] # NoResult
  <2>1. CASE tx[s].phase \in {"claim", "lookup"}
    BY <1>1, <1>2, <1>3, <2>1 DEF Holds, AppendHolds
  <2>2. CASE tx[s].phase \in {"insert", "store"}
    BY <1>1, <1>2, <1>3, <2>2, ReplayAssumption DEF Holds, AppendHolds
  <2> QED  BY <1>1, <1>3, <2>1, <2>2 DEF Transactions, Phases, Appending
<1>5. Holds(t)
  BY <1>1, <1>2, <1>3, <1>4 DEF Holds, Base, Appending, Fresh
<1>6. \A o \in Sessions \ {s} : Apart(t.view, tx[o].view)
  BY <1>1, <1>4 DEF Apart
<1>7. tx' = [tx EXCEPT ![s] = t] /\ UNCHANGED <<replay, evidence, appends, known>>
  BY DEF BackToSavepoint, Continue
<1> HIDE DEF t
<1> QED  BY <1>2, <1>5, <1>6, <1>7, StepKeeps DEF IInv, TypeOK

\* An append begins with what the transaction has.
LEMMA BeginKeeps ==
    ASSUME IInv, NEW s \in Sessions, NEW r \in Requests, Begin(s, r)
    PROVE  IInv'
<1> DEFINE t == [tx[s] EXCEPT !.phase = IF KeyOf[r] = NoKey THEN "insert" ELSE "claim",
                              !.request = r, !.number = appends + 1, !.next = 1,
                              !.saved = tx[s].view]
<1>1. /\ tx[s] \in Transactions /\ Holds(tx[s]) /\ tx[s].view \in Views
      /\ \A o \in Sessions \ {s} : Apart(tx[s].view, tx[o].view)
  BY OfTransaction
<1>2. /\ appends' \in 0 .. MaxAppends /\ appends + 1 \in 1 .. MaxAppends
      /\ UNCHANGED <<replay, evidence, known>>
      /\ ~Appending(tx[s])
  BY ReplayAssumption DEF Begin, IInv, TypeOK, Appending
<1>3. tx' = [tx EXCEPT ![s] = t]
  BY <1>1 DEF Begin, IInv, TypeOK, Transactions
<1>4. /\ t.phase = IF KeyOf[r] = NoKey THEN "insert" ELSE "claim"
      /\ t.request = r /\ t.number = appends + 1 /\ t.next = 1
      /\ t.saved = tx[s].view /\ t.view = tx[s].view /\ t.given = tx[s].given
  BY <1>1 DEF Transactions
<1>5. t \in Transactions
  <2>1. /\ (IF KeyOf[r] = NoKey THEN "insert" ELSE "claim") \in Phases
        /\ appends + 1 \in 0 .. MaxAppends /\ 1 \in Nat
    BY <1>2, ReplayAssumption DEF Phases
  <2> HIDE DEF Phases
  <2> QED  BY <1>1, <2>1 DEF Transactions
<1> HIDE DEF t
<1>6. Len(BatchOf[r]) > 0
  BY ReplayAssumption
<1>7. Done(t) = {}
  BY <1>4 DEF Done
<1>8. AppendHolds(t)
  BY <1>2, <1>4, <1>6, <1>7, ReplayAssumption DEF AppendHolds, IInv, TypeOK
<1>9. Holds(t)
  BY <1>1, <1>2, <1>4, <1>8 DEF Holds, Base, Appending
<1> QED  BY <1>1, <1>2, <1>3, <1>4, <1>5, <1>9, StepKeeps

\* A claim is of a key that no one has.
LEMMA ClaimKeeps ==
    ASSUME IInv, NEW s \in Sessions, Claim(s)
    PROVE  IInv'
<1>1. /\ tx[s] \in Transactions /\ Holds(tx[s]) /\ tx[s].view \in Views
      /\ \A o \in Sessions \ {s} : Apart(tx[s].view, tx[o].view)
  BY OfTransaction
<1>2. /\ AppendHolds(tx[s]) /\ tx[s].phase = "claim" /\ tx[s].view = tx[s].saved
      /\ Key(s) \in Keys /\ Key(s) = KeyOf[tx[s].request]
  BY <1>1, ReplayAssumption DEF Claim, Holds, Appending, AppendHolds, Key
<1>3. CASE tx[s].view.claims[Key(s)] = NoRow /\ replay[Key(s)] = NoRow
  <2> DEFINE row == [request |-> tx[s].request, result |-> NoResult]
             t == [tx[s] EXCEPT !.phase = "insert", !.view.claims[Key(s)] = row]
  <2>1. tx' = [tx EXCEPT ![s] = t] /\ UNCHANGED <<replay, evidence, appends, known>>
    BY <1>3 DEF Claim, Continue
  <2>2. /\ row \in Rows /\ row # NoRow
    BY <1>2, ReplayAssumption DEF Rows, AppendHolds
  <2>3. t.view = [tx[s].view EXCEPT !.claims[Key(s)] = row]
    BY <1>1 DEF Transactions
  <2>4. /\ \A k \in Keys : t.view.claims[k] = IF k = Key(s) THEN row ELSE tx[s].view.claims[k]
        /\ t.view.records = tx[s].view.records
        /\ t.view \in Views
    BY <1>1, <1>2, <2>2, <2>3 DEF Views
  <2>5. /\ t \in Transactions
        /\ t.phase = "insert" /\ t.request = tx[s].request /\ t.number = tx[s].number
        /\ t.next = tx[s].next /\ t.saved = tx[s].saved /\ t.given = tx[s].given
    BY <1>1, <2>4 DEF Transactions, Phases
  <2> HIDE DEF t, row
  <2>6. Done(t) = {}
    BY <1>2, <2>5 DEF Done, AppendHolds
  <2>7. AppendHolds(t)
    BY <1>2, <1>3, <2>4, <2>5, <2>6, ReplayAssumption DEF AppendHolds, row
  <2>8. Holds(t)
    BY <1>1, <1>2, <1>3, <2>4, <2>5, <2>7 DEF Holds, Base, Appending, Fresh
  <2>9. \A o \in Sessions \ {s} : Apart(t.view, tx[o].view)
    BY <1>1, <1>2, <2>4 DEF Apart, Claim, Holders
  <2> QED  BY <2>1, <2>5, <2>8, <2>9, StepKeeps DEF IInv, TypeOK
<1>4. CASE ~(tx[s].view.claims[Key(s)] = NoRow /\ replay[Key(s)] = NoRow)
  <2> DEFINE t == [tx[s] EXCEPT !.phase = "lookup"]
  <2>1. tx' = [tx EXCEPT ![s] = t] /\ UNCHANGED <<replay, evidence, appends, known>>
    BY <1>4 DEF Claim, Continue
  <2>2. /\ t \in Transactions
        /\ t.phase = "lookup" /\ t.request = tx[s].request /\ t.number = tx[s].number
        /\ t.next = tx[s].next /\ t.view = tx[s].view /\ t.saved = tx[s].saved
        /\ t.given = tx[s].given
    BY <1>1 DEF Transactions, Phases
  <2> HIDE DEF t
  <2>3. Holds(t)
    BY <1>1, <1>2, <2>2 DEF Holds, Base, Appending, Fresh, AppendHolds
  <2> QED  BY <1>1, <2>1, <2>2, <2>3, StepKeeps DEF IInv, TypeOK
<1> QED  BY <1>3, <1>4

\* A replayed result is committed, or will be with this transaction.
LEMMA ReplayKeeps ==
    ASSUME IInv, NEW s \in Sessions, Replay(s)
    PROVE  IInv'
<1> DEFINE row == Previous(s)
           answer == [request |-> tx[s].request, result |-> row.result]
           t == Answered(tx[s], row.result)
<1>1. /\ tx[s] \in Transactions /\ Holds(tx[s]) /\ tx[s].view \in Views
      /\ \A o \in Sessions \ {s} : Apart(tx[s].view, tx[o].view)
  BY OfTransaction
<1>2. /\ AppendHolds(tx[s]) /\ tx[s].phase = "lookup" /\ tx[s].view = tx[s].saved
      /\ Key(s) \in Keys
  BY <1>1, ReplayAssumption DEF Replay, Holds, Appending, AppendHolds, Key
<1>3. /\ row \in Rows /\ row.result \in Results /\ row.request = tx[s].request
      /\ row = tx[s].view.claims[Key(s)] \/ row = replay[Key(s)]
      /\ row # NoRow
  <2>1. row \in Rows \cup {NoRow} /\ row # NoRow
    BY <1>1, <1>2 DEF Replay, Matches, Previous, IInv, TypeOK, Views
  <2> QED  BY <1>2, <2>1 DEF Replay, Matches, Rows, Previous
<1>4. \A x \in Written(tx[s].request) :
         evidence[x] = row.result \/ tx[s].view.records[x] = row.result
  <2>1. Whole(tx[s].view.claims, tx[s].view.records) /\ Whole(replay, evidence)
    BY <1>1, <1>2 DEF Holds, Base, Appending, IInv
  <2>2. CASE row = tx[s].view.claims[Key(s)]
    <3>1. tx[s].view.claims[Key(s)] # NoRow
      BY <1>3, <2>2
    <3>2. \A x \in Written(tx[s].view.claims[Key(s)].request) :
             tx[s].view.records[x] = tx[s].view.claims[Key(s)].result
      BY <1>2, <2>1, <3>1 DEF Whole
    <3> HIDE DEF row
    <3> QED  BY <1>3, <2>2, <3>2
  <2>3. CASE row = replay[Key(s)]
    <3>1. replay[Key(s)] # NoRow
      BY <1>3, <2>3
    <3>2. \A x \in Written(replay[Key(s)].request) : evidence[x] = replay[Key(s)].result
      BY <1>2, <2>1, <3>1 DEF Whole
    <3> HIDE DEF row
    <3> QED  BY <1>3, <2>3, <3>2
  <2> QED  BY <1>3, <2>2, <2>3
<1>5. /\ tx' = [tx EXCEPT ![s] = t] /\ UNCHANGED <<replay, evidence, appends, known>>
  BY DEF Replay, Continue
<1>6. answer \in Answers
  BY <1>2, <1>3 DEF Answers, AppendHolds
<1> HIDE DEF row
<1>7. /\ t.phase = "open" /\ t.view = tx[s].view
      /\ t.given = tx[s].given \cup {answer}
      /\ t \in Transactions
  BY <1>1, <1>6 DEF Answered, Transactions, Phases
<1>8. GivenHold(t.given, t.view.records)
  BY <1>1, <1>2, <1>4, <1>7 DEF Holds, Base, Appending, GivenHold
<1> HIDE DEF t
<1>9. Holds(t)
  BY <1>1, <1>2, <1>7, <1>8 DEF Holds, Base, Appending, Fresh
<1> QED  BY <1>1, <1>5, <1>7, <1>9, StepKeeps DEF IInv, TypeOK

\* A record is inserted that no one has.
LEMMA InsertKeeps ==
    ASSUME IInv, NEW s \in Sessions, Insert(s)
    PROVE  IInv'
<1> DEFINE batch == BatchOf[tx[s].request]
           phase == IF tx[s].next = Len(batch) THEN "store" ELSE "insert"
           t == [tx[s] EXCEPT !.phase = phase, !.next = tx[s].next + 1,
                              !.view.records[Record(s)] = Result(s)]
<1>1. /\ tx[s] \in Transactions /\ Holds(tx[s]) /\ tx[s].view \in Views
      /\ \A o \in Sessions \ {s} : Apart(tx[s].view, tx[o].view)
  BY OfTransaction
<1>2. AppendHolds(tx[s]) /\ tx[s].phase = "insert"
  BY <1>1 DEF Insert, Holds, Appending
<1>3. CASE tx[s].view.records[Record(s)] = NoResult /\ evidence[Record(s)] = NoResult
  <2>1. /\ tx' = [tx EXCEPT ![s] = t] /\ UNCHANGED <<replay, evidence, appends, known>>
    BY <1>3 DEF Insert, Continue
  <2>2. /\ tx[s].request \in Requests /\ tx[s].next \in 1 .. Len(batch) /\ batch \in Seq(Records)
        /\ Record(s) \in Records /\ Result(s) \in Results /\ Result(s) # NoResult
    BY <1>1, <1>2, ReplayAssumption DEF AppendHolds, Record, Result, Results, Numbers, Transactions
  <2>3. t.view = [tx[s].view EXCEPT !.records[Record(s)] = Result(s)]
    BY <1>1 DEF Transactions
  <2>4. /\ \A x \in Records : t.view.records[x] = IF x = Record(s) THEN Result(s)
                                                  ELSE tx[s].view.records[x]
        /\ t.view.claims = tx[s].view.claims
        /\ t.view \in Views
    <3>1. tx[s].view.records \in [Records -> Results \cup {NoResult}]
      BY <1>1 DEF Views
    <3>2. /\ t.view.records = [tx[s].view.records EXCEPT ![Record(s)] = Result(s)]
          /\ t.view.claims = tx[s].view.claims
      BY <1>1, <2>3 DEF Views
    <3>3. t.view.records \in [Records -> Results \cup {NoResult}]
      BY <2>2, <3>1, <3>2
    <3>4. t.view = [claims |-> tx[s].view.claims, records |-> t.view.records]
      BY <1>1, <2>3, <3>2 DEF Views
    <3>5. t.view \in Views
      BY <1>1, <3>3, <3>4 DEF Views
    <3> QED  BY <2>2, <3>1, <3>2, <3>5
  <2>5. /\ t \in Transactions
        /\ t.phase = phase /\ t.request = tx[s].request /\ t.number = tx[s].number
        /\ t.next = tx[s].next + 1 /\ t.saved = tx[s].saved /\ t.given = tx[s].given
    <3>1. phase \in Phases /\ tx[s].next + 1 \in Nat
      BY <2>2 DEF Phases
    <3> HIDE DEF phase
    <3> QED  BY <1>1, <2>4, <3>1 DEF Transactions
  <2> HIDE DEF t
  <2>6. Done(t) = Done(tx[s]) \cup {Record(s)}
    <3>1. 1 .. tx[s].next = (1 .. tx[s].next - 1) \cup {tx[s].next}
      BY <2>2
    <3> QED  BY <2>2, <2>5, <3>1 DEF Done, Record
  <2>7. tx[s].saved.records[Record(s)] = NoResult
    BY <1>2, <1>3, <2>2 DEF AppendHolds
  <2>8. AppendHolds(t)
    BY <1>2, <2>2, <2>4, <2>5, <2>6, <2>7 DEF AppendHolds, Result
  <2>9. Holds(t)
    BY <1>1, <1>2, <1>3, <2>4, <2>5, <2>8 DEF Holds, Base, Appending, Fresh
  <2>10. \A o \in Sessions \ {s} : Apart(t.view, tx[o].view)
    BY <1>1, <1>2, <2>2, <2>4 DEF Apart, Insert, Holders
  <2> QED  BY <2>1, <2>5, <2>9, <2>10, StepKeeps DEF IInv, TypeOK
<1>4. CASE ~(tx[s].view.records[Record(s)] = NoResult /\ evidence[Record(s)] = NoResult)
  BY <1>2, <1>4, BackKeeps DEF Insert, InAppend
<1> QED  BY <1>3, <1>4

\* The stored result completes the append.
LEMMA StoreKeeps ==
    ASSUME IInv, NEW s \in Sessions, Store(s)
    PROVE  IInv'
<1> DEFINE r == tx[s].request
           answer == [request |-> r, result |-> Result(s)]
           stored == IF Key(s) = NoKey THEN tx[s]
                     ELSE [tx[s] EXCEPT !.view.claims[Key(s)].result = Result(s)]
           t == Answered(stored, Result(s))
<1>1. /\ tx[s] \in Transactions /\ Holds(tx[s]) /\ tx[s].view \in Views
      /\ \A o \in Sessions \ {s} : Apart(tx[s].view, tx[o].view)
      /\ tx[s].saved \in Views
  BY OfTransaction
<1>2. AppendHolds(tx[s]) /\ tx[s].phase = "store"
  BY <1>1 DEF Store, Holds, Appending
<1>3. tx' = [tx EXCEPT ![s] = t] /\ UNCHANGED <<replay, evidence, appends, known>>
  BY DEF Store, Continue
<1>4. /\ r \in Requests /\ Result(s) \in Results /\ Result(s) # NoResult
      /\ answer \in Answers
      /\ Key(s) = KeyOf[r] /\ Key(s) \in Keys \cup {NoKey}
  BY <1>1, <1>2, ReplayAssumption
     DEF AppendHolds, Result, Results, Numbers, Transactions, Answers, Key
<1>5. /\ stored \in Transactions
      /\ \A k \in Keys : stored.view.claims[k] =
            IF k = Key(s) THEN [request |-> r, result |-> Result(s)] ELSE tx[s].view.claims[k]
      /\ stored.view.records = tx[s].view.records
      /\ stored.given = tx[s].given /\ stored.request = r
  <2>1. CASE Key(s) = NoKey
    BY <1>1, <2>1, ReplayAssumption
  <2>2. CASE Key(s) \in Keys
    <3> DEFINE row == [request |-> r, result |-> Result(s)]
    <3>1. tx[s].view.claims[Key(s)] = [request |-> r, result |-> NoResult]
      BY <1>2, <1>4, <2>2 DEF AppendHolds
    <3>2. [tx[s].view.claims[Key(s)] EXCEPT !.result = Result(s)] = row
      BY <3>1
    <3>3. stored = [tx[s] EXCEPT !.view = [tx[s].view EXCEPT !.claims =
                       [tx[s].view.claims EXCEPT ![Key(s)] = row]]]
      BY <2>2, <3>2, ReplayAssumption
    <3>4. row \in Rows
      BY <1>4 DEF Rows
    <3> HIDE DEF row
    <3>5. [tx[s].view EXCEPT !.claims = [tx[s].view.claims EXCEPT ![Key(s)] = row]] \in Views
      BY <1>1, <2>2, <3>4 DEF Views
    <3>6. /\ stored \in Transactions /\ stored.given = tx[s].given /\ stored.request = r
          /\ stored.view = [tx[s].view EXCEPT !.claims =
                               [tx[s].view.claims EXCEPT ![Key(s)] = row]]
      BY <1>1, <3>3, <3>5 DEF Transactions
    <3> QED  BY <1>1, <2>2, <3>6 DEF Views, row
  <2> QED  BY <1>4, <2>1, <2>2
<1> HIDE DEF stored
<1>6. /\ t \in Transactions
      /\ t.phase = "open" /\ t.view = stored.view /\ t.given = tx[s].given \cup {answer}
  BY <1>4, <1>5 DEF Answered, Transactions, Phases
<1> HIDE DEF t
<1>7. Done(tx[s]) = Written(r)
  BY <1>2, <1>4, ReplayAssumption DEF Done, Written, AppendHolds
<1>8. /\ \A x \in Records : t.view.records[x] =
            IF x \in Written(r) THEN Result(s) ELSE tx[s].saved.records[x]
      /\ \A x \in Written(r) : tx[s].saved.records[x] = NoResult /\ x \in Records
      /\ Key(s) # NoKey => tx[s].saved.claims[Key(s)] = NoRow
      /\ \A k \in Keys : t.view.claims[k] =
            IF k = Key(s) THEN [request |-> r, result |-> Result(s)] ELSE tx[s].saved.claims[k]
  BY <1>2, <1>4, <1>5, <1>6, <1>7, ReplayAssumption DEF AppendHolds, Result, Written
<1>9. \A q \in Requests : Written(q) \subseteq Records
  BY ReplayAssumption DEF Written
<1>10. Whole(t.view.claims, t.view.records)
  <2> DEFINE d == [k \in Keys |-> IF k = Key(s) THEN [request |-> r, result |-> Result(s)]
                                  ELSE NoRow]
             v == [x \in Records |-> IF x \in Written(r) THEN Result(s) ELSE NoResult]
  <2>1. d \in [Keys -> Rows \cup {NoRow}] /\ v \in [Records -> Results \cup {NoResult}]
    BY <1>4 DEF Rows
  <2>2. Result(s).request = r
    BY DEF Result
  <2>3. Whole(d, v)
    BY <1>4, <1>9, <2>2 DEF Whole
  <2>4. /\ Whole(tx[s].saved.claims, tx[s].saved.records)
        /\ tx[s].saved.claims \in [Keys -> Rows \cup {NoRow}]
        /\ tx[s].saved.records \in [Records -> Results \cup {NoResult}]
    BY <1>1, <1>2 DEF Holds, Base, Appending, Views
  <2>5. [request |-> r, result |-> Result(s)] # NoRow
    BY <1>4, ReplayAssumption DEF Rows
  <2>6. /\ \A k \in Keys : tx[s].saved.claims[k] = NoRow \/ d[k] = NoRow
        /\ \A x \in Records : tx[s].saved.records[x] = NoResult \/ v[x] = NoResult
        /\ \A k \in Keys : t.view.claims[k] =
              IF d[k] = NoRow THEN tx[s].saved.claims[k] ELSE d[k]
        /\ \A x \in Records : t.view.records[x] =
              IF v[x] = NoResult THEN tx[s].saved.records[x] ELSE v[x]
    BY <1>4, <1>8, <2>5, ReplayAssumption
  <2> HIDE DEF d, v
  <2> QED  BY <2>1, <2>3, <2>4, <2>6, WholeTogether
<1>11. GivenHold(t.given, t.view.records)
  <2>1. GivenHold(tx[s].given, tx[s].saved.records)
    BY <1>1, <1>2 DEF Holds, Base, Appending
  <2>2. \A a \in tx[s].given : a.request \in Requests /\ a.result \in Results
    BY <1>1 DEF Transactions, Answers
  <2> QED  BY <1>6, <1>8, <1>9, <2>1, <2>2, ReplayAssumption DEF GivenHold
<1>12. /\ \A k \in Keys : t.view.claims[k] # NoRow <=> tx[s].view.claims[k] # NoRow
       /\ \A x \in Records : t.view.records[x] # NoResult <=> tx[s].view.records[x] # NoResult
  BY <1>2, <1>4, <1>5, <1>6, ReplayAssumption DEF AppendHolds, Rows
<1>13. Holds(t)
  BY <1>1, <1>6, <1>10, <1>11, <1>12 DEF Holds, Base, Appending, Fresh
<1>14. \A o \in Sessions \ {s} : Apart(t.view, tx[o].view)
  BY <1>1, <1>12 DEF Apart
<1> QED  BY <1>3, <1>6, <1>13, <1>14, StepKeeps DEF IInv, TypeOK

\* A transaction that is given up leaves nothing.
LEMMA AbortKeeps ==
    ASSUME IInv, NEW s \in Sessions, Abort(s)
    PROVE  IInv'
<1>1. tx' = [tx EXCEPT ![s] = Idle] /\ UNCHANGED <<replay, evidence, appends, known>>
  BY DEF Abort, Continue
<1>2. \A o \in Sessions : Apart(Idle.view, tx[o].view)
  BY DEF Idle, NoView, Apart
<1>3. Holds(Idle)
  BY IdleHolds
<1> QED  BY <1>1, <1>2, <1>3, IdleHolds, StepKeeps DEF IInv, TypeOK

\* A commit shows whole appends, keeps what was there, and what it answers stays.
LEMMA CommitKeeps ==
    ASSUME IInv, NEW s \in Sessions, Commit(s)
    PROVE  IInv'
<1> DEFINE v == tx[s].view
<1>1. /\ tx[s] \in Transactions /\ Holds(tx[s]) /\ v \in Views
      /\ \A o \in Sessions \ {s} : Apart(v, tx[o].view)
  BY OfTransaction
<1>2. /\ Whole(v.claims, v.records) /\ Fresh(v) /\ GivenHold(tx[s].given, v.records)
      /\ tx[s].given \subseteq Answers
      /\ v.claims \in [Keys -> Rows \cup {NoRow}]
      /\ v.records \in [Records -> Results \cup {NoResult}]
  BY <1>1 DEF Commit, Holds, Base, Appending, Views, Transactions
<1> HIDE DEF v
<1>3. /\ replay \in [Keys -> Rows \cup {NoRow}]
      /\ evidence \in [Records -> Results \cup {NoResult}]
      /\ Whole(replay, evidence)
  BY DEF IInv, TypeOK
<1>4. /\ replay' = [k \in Keys |-> IF v.claims[k] = NoRow THEN replay[k] ELSE v.claims[k]]
      /\ evidence' = [x \in Records |-> IF v.records[x] = NoResult THEN evidence[x]
                                        ELSE v.records[x]]
      /\ tx' = [tx EXCEPT ![s] = Idle] /\ known' \in {known, known \cup tx[s].given}
      /\ appends' = appends
  BY DEF Commit, v
<1>5. TypeOK'
  <2>1. /\ replay' \in [Keys -> Rows \cup {NoRow}]
        /\ evidence' \in [Records -> Results \cup {NoResult}]
    BY <1>2, <1>3, <1>4
  <2> QED  BY <1>2, <1>4, <2>1, IdleHolds DEF IInv, TypeOK
<1>6. Whole(replay, evidence)'
  <2>1. Whole(replay', evidence')
    BY <1>2, <1>3, <1>4, WholeTogether DEF Fresh
  <2> QED  BY <2>1 DEF Whole
<1>7. \A x \in Records : evidence[x] # NoResult => evidence'[x] = evidence[x]
  BY <1>2, <1>4 DEF Fresh
<1>8. \A q \in Requests : Written(q) \subseteq Records
  BY ReplayAssumption DEF Written
<1>9. \A a \in Answers : \A x \in Written(a.request) :
         evidence[x] = a.result => evidence'[x] = a.result
  BY <1>7, <1>8, ReplayAssumption DEF Answers
<1>10. KnownAnswersHold'
  <2>1. ASSUME NEW a \in known
        PROVE  \A x \in Written(a.request) : evidence'[x] = a.result
    BY <1>7, <1>8, ReplayAssumption DEF IInv, TypeOK, KnownAnswersHold, Answers
  <2>2. ASSUME NEW a \in tx[s].given
        PROVE  \A x \in Written(a.request) : evidence'[x] = a.result
    <3>1. a.request \in Requests /\ a.result \in Results
      BY <1>2 DEF Answers
    <3> QED  BY <1>2, <1>4, <1>7, <1>8, <3>1, ReplayAssumption DEF GivenHold
  <2> QED  BY <1>4, <2>1, <2>2 DEF KnownAnswersHold
<1>11. ASSUME NEW t \in Transactions, Holds(t), Apart(v, t.view)
       PROVE  Holds(t)'
  <2>1. Fresh(t.view)'
    BY <1>4, <1>11 DEF Fresh, Holds, Apart
  <2>2. t.given \subseteq Answers
    BY DEF Transactions
  <2>3. GivenHold(t.given, Base(t).records)'
    BY <1>9, <1>11, <2>2 DEF GivenHold, Holds
  <2> QED  BY <1>11, <2>1, <2>3 DEF Holds
<1>12. TransactionsHold'
  <2>1. \A o \in Sessions : tx'[o] = IF o = s THEN Idle ELSE tx[o]
    BY <1>4 DEF IInv, TypeOK
  <2>2. Holds(Idle)'
    BY DEF Holds, Appending, Base, Idle, NoView, Whole, Fresh, GivenHold
  <2>3. \A o \in Sessions \ {s} :
           tx[o] \in Transactions /\ Holds(tx[o]) /\ Apart(v, tx[o].view)
    BY <1>1, OfTransaction DEF v
  <2> QED  BY <1>11, <2>1, <2>2, <2>3 DEF TransactionsHold
<1>13. TransactionsApart'
  BY <1>4 DEF TransactionsApart, Apart, Idle, NoView, IInv, TypeOK
<1> QED  BY <1>5, <1>6, <1>10, <1>12, <1>13 DEF IInv

\* Every step preserves the invariant.
LEMMA NextInv == IInv /\ [Next]_vars => IInv'
<1> SUFFICES ASSUME IInv, [Next]_vars
             PROVE  IInv'
  OBVIOUS
<1>1. ASSUME NEW s \in Sessions, NEW r \in Requests, Begin(s, r)
      PROVE  IInv'
  BY <1>1, BeginKeeps
<1>2. ASSUME NEW s \in Sessions, Statement(s)
      PROVE  IInv'
  <2>1. CASE Claim(s) \/ Replay(s) \/ Insert(s) \/ Store(s)
    BY <2>1, ClaimKeeps, ReplayKeeps, InsertKeeps, StoreKeeps
  <2>2. CASE Conflict(s)
    BY <2>2, BackKeeps DEF Conflict, InAppend
  <2> QED  BY <1>2, <2>1, <2>2 DEF Statement
<1>3. ASSUME NEW s \in Sessions, BreakDeadlock(s) \/ TimedOut(s)
      PROVE  IInv'
  <2>1. Holders(s) # {}
    BY <1>3 DEF BreakDeadlock, Deadlocked, TimedOut
  <2>2. InAppend(s) /\ tx[s].phase # "idle"
    BY <2>1 DEF Holders, InAppend
  <2>3. BackToSavepoint(s) \/ Abort(s)
    BY <1>3, <2>2 DEF BreakDeadlock, TimedOut, Abort
  <2> QED  BY <2>2, <2>3, BackKeeps, AbortKeeps
<1>4. ASSUME NEW s \in Sessions, Fail(s) \/ Commit(s) \/ Abort(s)
      PROVE  IInv'
  BY <1>4, BackKeeps, CommitKeeps, AbortKeeps DEF Fail
<1>5. CASE UNCHANGED vars
  BY <1>5 DEF vars, IInv, TypeOK, TransactionsHold, Holds, Fresh, GivenHold, TransactionsApart,
     KnownAnswersHold
<1> QED  BY <1>1, <1>2, <1>3, <1>4, <1>5 DEF Next

\* Every reachable state of every instance is well typed.
THEOREM ReplayTypeOK == Spec => []TypeOK
<1>1. IInv => TypeOK
  BY DEF IInv
<1> QED  BY <1>1, InitInv, NextInv, PTL DEF Spec

\* An append is committed whole or not at all, and under one replay key once, whichever
\* sessions retry it, fail in it or wait for each other.
THEOREM AppendsTakeEffectOnce == Spec => []AppliedOnce
<1>1. IInv => AppliedOnce
  BY DEF IInv, AppliedOnce, Whole
<1> QED  BY <1>1, InitInv, NextInv, PTL DEF Spec

\* What a caller was answered, first or replayed, is what was committed.
THEOREM AnswersAreCommitted == Spec => []KnownAnswersHold
<1>1. IInv => KnownAnswersHold
  BY DEF IInv
<1> QED  BY <1>1, InitInv, NextInv, PTL DEF Spec
=============================================================================
