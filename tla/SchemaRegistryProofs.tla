------------------------ MODULE SchemaRegistryProofs ------------------------
(***************************************************************************)
(* Theorems about SchemaRegistry: for any sessions, documents and          *)
(* compatibility relation, the history of a registry only grows, breaks    *)
(* nothing silently and holds what callers were told to have published.    *)
(***************************************************************************)
EXTENDS SchemaRegistry, FiniteSetTheorems, TLAPS

-----------------------------------------------------------------------------
(* The inductive invariant                                                 *)

\* A row that is not there yet counts as the empty one.
Content(r) == IF r = NoRow THEN Empty ELSE r

\* A registry that publications and deprecations have made one after the other.
Sound(g) ==
    /\ g.revision = Cardinality(g.schemas) + Cardinality(g.deprecated)
    /\ \A d, e \in g.schemas : SameReference(d, e) => d = e
    /\ \A d \in g.schemas : \E e \in g.schemas : IsLatest(e, History(g, d))
    /\ \A d \in g.schemas \ Allowed : \A e \in History(g, d) :
          IsLatest(e, {f \in History(g, d) : VersionOf[f] < VersionOf[d]}) =>
             <<e, d>> \notin Breaking

\* What calls have made of registry g.
Succeeds(h, g) ==
    /\ g.revision <= h.revision
    /\ g.schemas \subseteq h.schemas
    /\ g.deprecated \subseteq h.deprecated
    /\ \A d \in h.schemas \ g.schemas : \A e \in History(g, d) : VersionOf[e] < VersionOf[d]

Calling(t) == t.phase \notin {"idle", "open"}

\* The row a transaction sees if it has written view.
SeenWith(view) == IF view # NoRow THEN view ELSE row

\* What transaction t has written but for the call in progress.
Base(t) == IF Calling(t) THEN t.savedView ELSE t.view

\* A transaction that has written the row has it locked, and there is a row to lock.
LockHolds(t) ==
    /\ t.view # NoRow => t.locked
    /\ t.locked => SeenWith(t.view) # NoRow

\* A call has the locks it began with, has written at most the empty row, and
\* decides on the row as it is.
CallHolds(t) ==
    /\ t.document \in Documents
    /\ t.savedLocked => t.locked /\ SeenWith(t.savedView) # NoRow
    /\ t.savedView # NoRow => t.savedLocked
    /\ t.view = t.savedView \/ (t.view = Empty /\ t.savedView = NoRow)
    /\ t.phase # "ensure" => SeenWith(t.view) # NoRow
    /\ t.phase \in {"publish", "deprecate"} => t.locked /\ t.before = SeenWith(t.view)

\* Its answers are in what it will commit, and the first ones are news.
GivenHold(given, view) ==
    LET g == SeenWith(view) IN
    /\ \A a \in given : /\ g # NoRow /\ a.document \in g.schemas /\ a.revision <= g.revision
                        /\ ~a.replay => /\ view # NoRow
                                        /\ a.revision > Content(row).revision
                                        /\ a.document \notin Content(row).schemas
    /\ \A a, b \in given : ~a.replay /\ ~b.replay /\ a # b =>
          a.revision # b.revision /\ a.document # b.document

Holds(t) ==
    /\ LockHolds(t)
    /\ Calling(t) => CallHolds(t)
    /\ t.view # NoRow => Sound(t.view) /\ Succeeds(t.view, Content(row))
    /\ GivenHold(t.given, Base(t))

TransactionsHold == \A s \in Sessions : Holds(tx[s])

OneLocks == \A s, o \in Sessions : tx[s].locked /\ tx[o].locked => s = o

\* A revision was the work of a call that is over.
Callers == {s \in Sessions : InCall(s)}

Counted(r) == Content(r).revision + Cardinality(Callers) <= calls

RevisionsCounted ==
    /\ IsFiniteSet(Callers)
    /\ Counted(row) /\ \A s \in Sessions : Counted(tx[s].view)

IInv ==
    /\ TypeOK
    /\ TransactionsHold
    /\ OneLocks
    /\ RevisionsCounted
    /\ row # NoRow => Sound(row)
    /\ KnownPublicationsHold
-----------------------------------------------------------------------------
(* Registries                                                              *)

\* The empty row is sound.
LEMMA EmptyIsSound == Empty \in Registries /\ Sound(Empty)
<1>1. Empty \in Registries
  BY RegistryAssumption DEF Empty, Registries, Revisions
<1>2. Cardinality({}) = 0
  BY FS_EmptySet
<1> QED  BY <1>1, <1>2 DEF Sound, Empty, Registries

\* To follow is transitive, and nothing follows itself by a document.
LEMMA SuccessionGoesOn ==
    ASSUME NEW f \in Registries, NEW g \in Registries, NEW h \in Registries
    PROVE  /\ Succeeds(f, f)
           /\ Succeeds(f, g) /\ Succeeds(g, h) => Succeeds(f, h)
  BY DEF Succeeds, Registries, Revisions, History

\* Sets of documents are finite, so are counted.
LEMMA DocumentsCount ==
    ASSUME NEW S \in SUBSET Documents
    PROVE  /\ IsFiniteSet(S) /\ Cardinality(S) \in Nat
           /\ \A d : d \notin S => Cardinality(S \cup {d}) = Cardinality(S) + 1
<1>1. IsFiniteSet(S)
  BY RegistryAssumption, FS_Subset
<1> QED  BY <1>1, FS_AddElement, FS_CardinalityType

\* A publication that passes its checks makes a sound registry: it is later than all
\* of its schema, because it is later than the latest.
LEMMA PublicationIsSound ==
    ASSUME NEW g \in Registries, Sound(g), NEW d \in Documents, d \notin g.schemas,
           Extends(g, d), NEW h,
           h.revision = g.revision + 1, h.schemas = g.schemas \cup {d},
           h.deprecated = g.deprecated
    PROVE  Sound(h) /\ Succeeds(h, g)
<1>1. /\ g.schemas \subseteq Documents /\ g.deprecated \subseteq Documents
      /\ \A e \in Documents : VersionOf[e] \in Nat
      /\ g.revision \in Nat
  BY RegistryAssumption DEF Registries, Revisions
<1>2. \A e \in History(g, d) : VersionOf[e] < VersionOf[d]
  <2>1. CASE History(g, d) # {}
    <3>1. PICK f \in g.schemas : SameSchema(f, d)
      BY <2>1 DEF History, SameSchema
    <3>2. History(g, f) = History(g, d)
      BY <3>1 DEF History, SameSchema
    <3>3. PICK e : IsLatest(e, History(g, d))
      BY <3>2 DEF Sound
    <3>4. e \in g.schemas /\ VersionOf[e] < VersionOf[d]
      BY <3>3 DEF Extends, IsLatest, History
    <3>5. \A c \in History(g, d) : c \in Documents /\ VersionOf[c] <= VersionOf[e]
      BY <1>1, <3>3 DEF IsLatest, History
    <3> HIDE DEF History
    <3> QED  BY <1>1, <3>4, <3>5
  <2> QED  BY <2>1
<1>3. Succeeds(h, g)
  <2>1. \A c \in h.schemas \ g.schemas : c = d
    OBVIOUS
  <2> QED  BY <1>1, <1>2, <2>1 DEF Succeeds
<1>4. h.revision = Cardinality(h.schemas) + Cardinality(h.deprecated)
  <2>1. /\ Cardinality(h.schemas) = Cardinality(g.schemas) + 1
        /\ Cardinality(g.schemas) \in Nat /\ Cardinality(g.deprecated) \in Nat
    BY <1>1, DocumentsCount
  <2> QED  BY <2>1 DEF Sound
<1>5. \A c, e \in h.schemas : SameReference(c, e) => c = e
  BY <1>1, <1>2 DEF Sound, SameReference, SameSchema, History
<1>6. \A c \in h.schemas : \E e \in h.schemas : IsLatest(e, History(h, c))
  <2>1. ASSUME NEW c \in h.schemas, SameSchema(c, d)
        PROVE  IsLatest(d, History(h, c))
    <3>1. \A e \in History(h, c) : e = d \/ e \in History(g, d)
      BY <2>1 DEF History, SameSchema
    <3>2. d \in History(h, c)
      BY <2>1 DEF History, SameSchema
    <3>3. \A e \in History(h, c) : VersionOf[e] <= VersionOf[d]
      <4>1. \A e \in History(g, d) : e \in Documents
        BY <1>1 DEF History
      <4> QED  BY <1>1, <1>2, <3>1, <4>1
    <3> QED  BY <3>2, <3>3 DEF IsLatest
  <2>2. ASSUME NEW c \in h.schemas, ~SameSchema(c, d)
        PROVE  \E e \in g.schemas : IsLatest(e, History(h, c))
    <3>1. History(h, c) = History(g, c) /\ c \in g.schemas
      BY <2>2 DEF History, SameSchema
    <3> QED  BY <3>1 DEF Sound
  <2> QED  BY <2>1, <2>2
<1>7. ASSUME NEW c \in h.schemas \ Allowed, NEW e \in History(h, c),
             IsLatest(e, {f \in History(h, c) : VersionOf[f] < VersionOf[c]})
      PROVE  <<e, c>> \notin Breaking
  <2>1. CASE c = d
    <3>1. {f \in History(h, c) : VersionOf[f] < VersionOf[c]} = History(g, d)
      BY <1>1, <1>2, <2>1 DEF History
    <3> QED  BY <1>7, <2>1, <3>1 DEF Extends, IsLatest
  <2>2. CASE c # d
    <3>1. c \in g.schemas
      BY <2>2
    <3>2. SameSchema(c, d) => ~(VersionOf[d] < VersionOf[c])
      BY <1>1, <1>2, <3>1 DEF History, SameSchema
    <3>3. /\ {f \in History(h, c) : VersionOf[f] < VersionOf[c]}
             = {f \in History(g, c) : VersionOf[f] < VersionOf[c]}
      BY <1>1, <3>1, <3>2 DEF History
    <3> QED  BY <1>7, <3>1, <3>3 DEF Sound, IsLatest
  <2> QED  BY <2>1, <2>2
<1> QED  BY <1>3, <1>4, <1>5, <1>6, <1>7 DEF Sound

\* A deprecation that changes anything adds one document, and leaves the history.
LEMMA DeprecationIsSound ==
    ASSUME NEW g \in Registries, Sound(g), NEW d \in Documents, NEW found,
           found = {e \in g.schemas : SameReference(e, d)},
           ~(found \subseteq g.deprecated), NEW h,
           h.revision = g.revision + 1, h.schemas = g.schemas,
           h.deprecated = g.deprecated \cup found
    PROVE  Sound(h) /\ Succeeds(h, g)
<1>1. g.deprecated \subseteq Documents /\ g.schemas \subseteq Documents /\ g.revision \in Nat
  BY RegistryAssumption DEF Registries, Revisions
<1>2. PICK e \in found : e \notin g.deprecated
  OBVIOUS
<1>3. found = {e}
  BY <1>2 DEF Sound, SameReference, SameSchema
<1>4. /\ Cardinality(h.deprecated) = Cardinality(g.deprecated) + 1
      /\ Cardinality(g.schemas) \in Nat /\ Cardinality(g.deprecated) \in Nat
  BY <1>1, <1>2, <1>3, DocumentsCount
<1>5. h.revision = Cardinality(h.schemas) + Cardinality(h.deprecated)
  BY <1>4 DEF Sound
<1>6. Succeeds(h, g)
  BY <1>1 DEF Succeeds
<1> QED  BY <1>5, <1>6 DEF Sound, History
-----------------------------------------------------------------------------
(* Transactions                                                            *)

\* A session that is not in a transaction has nothing.
LEMMA IdleHolds == Idle \in Transactions /\ Holds(Idle) /\ ~Calling(Idle)
<1>1. Idle \in Transactions
  BY EmptyIsSound DEF Idle, Transactions, Phases
<1> QED  BY <1>1 DEF Idle, Holds, LockHolds, Calling, Base, GivenHold

\* The content of a row is a registry.
LEMMA ContentIsRegistry ==
    /\ Empty # NoRow /\ \A r \in Registries \cup {NoRow} : Content(r) \in Registries
    /\ \A g \in Registries : g # NoRow /\ Content(g) = g /\ g.revision \in Nat
  BY EmptyIsSound, RegistryAssumption DEF Content, Registries, Revisions

\* The initial state satisfies the invariant.
LEMMA InitInv == Init => IInv
<1> SUFFICES ASSUME Init
             PROVE  IInv
  OBVIOUS
<1>1. TypeOK
  BY IdleHolds, RegistryAssumption DEF Init, TypeOK
<1>2. TransactionsHold /\ OneLocks
  BY IdleHolds DEF Init, TransactionsHold, OneLocks, Idle
<1>3. Callers = {}
  BY DEF Init, Callers, InCall, Idle
<1>4. RevisionsCounted
  BY <1>3, FS_EmptySet DEF Init, RevisionsCounted, Counted, Content, Empty, Idle
<1> QED  BY <1>1, <1>2, <1>4 DEF Init, IInv, KnownPublicationsHold

\* What the invariant says of one transaction.
LEMMA OfTransaction ==
    ASSUME IInv, NEW s \in Sessions
    PROVE  /\ tx[s] \in Transactions /\ Holds(tx[s])
           /\ row \in Registries \cup {NoRow}
           /\ InCall(s) <=> Calling(tx[s])
           /\ Seen(s) = SeenWith(tx[s].view)
           /\ IsFiniteSet(Callers) /\ Cardinality(Callers) \in Nat
           /\ InCall(s) => Cardinality(Callers) > 0
           /\ Counted(row) /\ Counted(tx[s].view)
           /\ calls \in 0 .. MaxCalls
<1>1. /\ tx[s] \in Transactions /\ Holds(tx[s])
      /\ row \in Registries \cup {NoRow}
      /\ InCall(s) <=> Calling(tx[s])
      /\ Seen(s) = SeenWith(tx[s].view)
      /\ IsFiniteSet(Callers) /\ Counted(row) /\ Counted(tx[s].view)
      /\ calls \in 0 .. MaxCalls
  BY DEF IInv, TypeOK, TransactionsHold, InCall, Calling, Seen, SeenWith, RevisionsCounted
<1>2. Cardinality(Callers) \in Nat
  BY <1>1, FS_CardinalityType
<1>3. InCall(s) => Cardinality(Callers) > 0
  <2>1. Cardinality(Callers) = 0 => Callers = {}
    BY <1>1, FS_EmptySet
  <2>2. InCall(s) => s \in Callers
    BY DEF Callers
  <2> QED  BY <1>2, <2>1, <2>2
<1> QED  BY <1>1, <1>2, <1>3

\* The calls in progress after a step of session s.
LEMMA CallersMove ==
    ASSUME IInv, NEW s \in Sessions, NEW t \in Transactions, tx' = [tx EXCEPT ![s] = t]
    PROVE  /\ IsFiniteSet(Callers')
           /\ (InCall(s) <=> Calling(t)) => Cardinality(Callers') = Cardinality(Callers)
           /\ InCall(s) /\ ~Calling(t) => Cardinality(Callers') = Cardinality(Callers) - 1
           /\ ~InCall(s) /\ Calling(t) => Cardinality(Callers') = Cardinality(Callers) + 1
<1>1. \A o \in Sessions : tx'[o] = IF o = s THEN t ELSE tx[o]
  BY DEF IInv, TypeOK
<1>2. Callers' = IF Calling(t) THEN Callers \cup {s} ELSE Callers \ {s}
  BY <1>1 DEF Callers, InCall, Calling
<1>3. s \in Callers <=> InCall(s)
  BY DEF Callers
<1>4. IsFiniteSet(Callers)
  BY OfTransaction
<1>5. CASE Calling(t)
  BY <1>2, <1>3, <1>4, <1>5, FS_AddElement
<1>6. CASE ~Calling(t)
  <2>1. ~InCall(s) => Callers \ {s} = Callers
    BY <1>3
  <2> QED  BY <1>2, <1>3, <1>4, <1>6, <2>1, FS_RemoveElement
<1> QED  BY <1>5, <1>6

\* A step of a transaction in its call, or the last of it, counts one revision at most.
LEMMA CountKeeps ==
    ASSUME IInv, NEW s \in Sessions, NEW t \in Transactions,
           tx' = [tx EXCEPT ![s] = t], UNCHANGED <<row, calls>>,
           \/ (InCall(s) <=> Calling(t)) /\ Counted(t.view)
           \/ /\ InCall(s) /\ ~Calling(t)
              /\ Content(t.view).revision + Cardinality(Callers) <= calls + 1
    PROVE  RevisionsCounted'
<1>1. \A o \in Sessions : tx'[o] = IF o = s THEN t ELSE tx[o]
  BY DEF IInv, TypeOK
<1>2. /\ IsFiniteSet(Callers') /\ Cardinality(Callers) \in Nat /\ Cardinality(Callers') \in Nat
      /\ calls \in Nat
  <2>1. IsFiniteSet(Callers') /\ IsFiniteSet(Callers)
    BY CallersMove, OfTransaction
  <2>2. Cardinality(Callers) \in Nat /\ Cardinality(Callers') \in Nat
    BY <2>1, FS_CardinalityType
  <2> QED  BY <2>1, <2>2, OfTransaction, RegistryAssumption
<1>3. \A r \in Registries \cup {NoRow} : Content(r).revision \in Nat
  BY ContentIsRegistry
<1>4. /\ Cardinality(Callers') <= Cardinality(Callers)
      /\ Content(t.view).revision + Cardinality(Callers') <= calls
  <2>1. Content(t.view).revision \in Nat
    BY <1>3 DEF Transactions
  <2>2. CASE (InCall(s) <=> Calling(t)) /\ Counted(t.view)
    <3>1. Cardinality(Callers') = Cardinality(Callers)
      BY <2>2, CallersMove
    <3> QED  BY <1>2, <2>1, <2>2, <3>1 DEF Counted
  <2>3. CASE /\ InCall(s) /\ ~Calling(t)
             /\ Content(t.view).revision + Cardinality(Callers) <= calls + 1
    <3>1. Cardinality(Callers') = Cardinality(Callers) - 1
      BY <2>3, CallersMove
    <3> QED  BY <1>2, <2>1, <2>3, <3>1
  <2> QED  BY <2>2, <2>3
<1>5. ASSUME NEW r \in Registries \cup {NoRow}, Counted(r)
      PROVE  Content(r).revision + Cardinality(Callers') <= calls
  BY <1>2, <1>3, <1>4, <1>5 DEF Counted
<1>6. /\ row \in Registries \cup {NoRow}
      /\ \A o \in Sessions : tx[o].view \in Registries \cup {NoRow}
  BY DEF IInv, TypeOK, Transactions
<1>7. Content(row).revision + Cardinality(Callers') <= calls
  BY <1>5, <1>6 DEF IInv, RevisionsCounted
<1>8. \A o \in Sessions : Content(tx'[o].view).revision + Cardinality(Callers') <= calls
  BY <1>1, <1>4, <1>5, <1>6 DEF IInv, RevisionsCounted
<1> QED  BY <1>2, <1>7, <1>8 DEF RevisionsCounted, Counted, Content

\* A step of one transaction that commits nothing.
LEMMA StepKeeps ==
    ASSUME IInv, NEW s \in Sessions, NEW t \in Transactions,
           tx' = [tx EXCEPT ![s] = t], UNCHANGED <<row, known>>, calls' \in 0 .. MaxCalls,
           Holds(t), t.locked => tx[s].locked \/ \A o \in Sessions \ {s} : ~tx[o].locked,
           RevisionsCounted'
    PROVE  IInv'
<1>1. /\ \A o \in Sessions : tx'[o] = IF o = s THEN t ELSE tx[o]
      /\ TypeOK'
  BY DEF IInv, TypeOK
<1>2. TransactionsHold'
  <2>1. \A u : Holds(u)' <=> Holds(u)
    BY DEF Holds, LockHolds, CallHolds, GivenHold, SeenWith
  <2> QED  BY <1>1, <2>1 DEF IInv, TransactionsHold
<1>3. OneLocks'
  BY <1>1 DEF IInv, OneLocks
<1>4. KnownPublicationsHold' /\ (row # NoRow => Sound(row))'
  BY DEF IInv, KnownPublicationsHold, Sound, History
<1> QED  BY <1>1, <1>2, <1>3, <1>4 DEF IInv

\* In a call, earlier answers are also in what it has written so far.
LEMMA GivenStays ==
    ASSUME IInv, NEW s \in Sessions, InCall(s)
    PROVE  GivenHold(tx[s].given, tx[s].view)
<1>1. /\ tx[s] \in Transactions /\ Calling(tx[s]) /\ CallHolds(tx[s])
      /\ GivenHold(tx[s].given, tx[s].savedView)
      /\ tx[s].view # NoRow => Succeeds(tx[s].view, Content(row))
  BY OfTransaction DEF Holds, Base
<1>2. CASE tx[s].view = tx[s].savedView
  BY <1>1, <1>2
<1>3. CASE tx[s].view = Empty /\ tx[s].savedView = NoRow
  <2>1. Content(row).schemas = {}
    BY <1>1, <1>3, ContentIsRegistry DEF Succeeds, Empty
  <2>2. tx[s].given = {}
    BY <1>1, <1>3, <2>1 DEF GivenHold, SeenWith, Content
  <2> QED  BY <2>2 DEF GivenHold
<1> QED  BY <1>1, <1>2, <1>3 DEF CallHolds

\* A call that ends otherwise than answered leaves what there was before it.
LEMMA BackKeeps ==
    ASSUME IInv, NEW s \in Sessions, InCall(s), BackToSavepoint(s)
    PROVE  IInv'
<1> DEFINE t == [tx[s] EXCEPT !.phase = "open", !.view = tx[s].savedView,
                              !.locked = tx[s].savedLocked]
<1>1. /\ tx[s] \in Transactions /\ Holds(tx[s]) /\ Calling(tx[s]) /\ CallHolds(tx[s])
      /\ calls \in 0 .. MaxCalls /\ Counted(tx[s].view) /\ Cardinality(Callers) \in Nat
  BY OfTransaction DEF Holds
<1>2. /\ t \in Transactions /\ ~Calling(t)
      /\ t.view = tx[s].savedView /\ t.locked = tx[s].savedLocked /\ t.given = tx[s].given
  BY <1>1 DEF Transactions, Phases, Calling
<1>3. tx' = [tx EXCEPT ![s] = t] /\ UNCHANGED <<row, calls, known>>
  BY DEF BackToSavepoint, Continue
<1> HIDE DEF t
<1>4. Holds(t)
  BY <1>1, <1>2 DEF Holds, LockHolds, CallHolds, Base
<1>5. Content(t.view).revision + Cardinality(Callers) <= calls + 1
  <2>1. Content(t.view).revision <= Content(tx[s].view).revision
    BY <1>1, <1>2, ContentIsRegistry DEF CallHolds, Content, Empty, Transactions
  <2>2. Content(t.view).revision \in Nat /\ Content(tx[s].view).revision \in Nat
    BY <1>1, <1>2, ContentIsRegistry DEF Transactions
  <2> QED  BY <1>1, <2>1, <2>2, RegistryAssumption DEF Counted
<1>6. RevisionsCounted'
  BY <1>2, <1>3, <1>5, CountKeeps
<1>7. t.locked => tx[s].locked
  BY <1>1, <1>2 DEF CallHolds
<1> QED  BY <1>1, <1>2, <1>3, <1>4, <1>6, <1>7, StepKeeps

\* A call begins with what the transaction has.
LEMMA BeginKeeps ==
    ASSUME IInv, NEW s \in Sessions, NEW op \in {"publish", "deprecate"}, NEW d \in Documents,
           Begin(s, op, d)
    PROVE  IInv'
<1>1. /\ tx[s] \in Transactions /\ Holds(tx[s]) /\ ~InCall(s) /\ ~Calling(tx[s])
      /\ row \in Registries \cup {NoRow} /\ Seen(s) = SeenWith(tx[s].view)
      /\ calls \in 0 .. MaxCalls /\ Cardinality(Callers) \in Nat
  BY OfTransaction DEF Begin, InCall
<1>2. /\ calls' = calls + 1 /\ calls' \in 0 .. MaxCalls /\ UNCHANGED <<row, known>>
  BY <1>1, RegistryAssumption DEF Begin
<1>3. PICK pin \in {NoPin, Revision(s)} :
         tx' = [tx EXCEPT ![s].phase = "ensure", ![s].op = op, ![s].document = d,
                          ![s].pin = pin,
                          ![s].savedView = tx[s].view, ![s].savedLocked = tx[s].locked]
  BY DEF Begin
<1>4. pin \in Revisions \cup {NoPin}
  BY <1>1, <1>3, RegistryAssumption DEF Revision, Registries, Revisions, Transactions, SeenWith
<1> DEFINE t == [tx[s] EXCEPT !.phase = "ensure", !.op = op, !.document = d, !.pin = pin,
                              !.savedView = tx[s].view, !.savedLocked = tx[s].locked]
<1>5. tx' = [tx EXCEPT ![s] = t]
  BY <1>1, <1>3 DEF IInv, TypeOK, Transactions
<1>6. /\ t \in Transactions /\ t.phase = "ensure" /\ Calling(t)
      /\ t.document = d /\ t.view = tx[s].view /\ t.locked = tx[s].locked
      /\ t.savedView = tx[s].view /\ t.savedLocked = tx[s].locked /\ t.given = tx[s].given
  BY <1>1, <1>4 DEF Transactions, Phases, Calling
<1> HIDE DEF t
<1>7. Holds(t)
  BY <1>1, <1>6 DEF Holds, LockHolds, CallHolds, Base
<1>8. RevisionsCounted'
  <2>1. /\ \A o \in Sessions : tx'[o].view = tx[o].view
    BY <1>5, <1>6 DEF IInv, TypeOK
  <2>2. IsFiniteSet(Callers') /\ Cardinality(Callers') = Cardinality(Callers) + 1
    BY <1>1, <1>5, <1>6, CallersMove
  <2>3. \A r \in Registries \cup {NoRow} : Content(r).revision \in Nat
    BY ContentIsRegistry
  <2>4. \A r \in Registries \cup {NoRow} :
           Counted(r) => Content(r).revision + Cardinality(Callers') <= calls'
    BY <1>1, <1>2, <2>2, <2>3, RegistryAssumption DEF Counted
  <2>5. \A o \in Sessions : tx[o].view \in Registries \cup {NoRow} /\ Counted(tx[o].view)
    BY DEF IInv, TypeOK, Transactions, RevisionsCounted
  <2>6. /\ Content(row).revision + Cardinality(Callers') <= calls'
        /\ \A o \in Sessions : Content(tx'[o].view).revision + Cardinality(Callers') <= calls'
    BY <1>1, <2>1, <2>4, <2>5 DEF IInv, RevisionsCounted
  <2> QED  BY <1>2, <2>2, <2>6 DEF RevisionsCounted, Counted, Content
<1> QED  BY <1>2, <1>5, <1>6, <1>7, <1>8, StepKeeps

\* The empty row is made, and locked, when there is none that anyone can see.
LEMMA EnsureKeeps ==
    ASSUME IInv, NEW s \in Sessions, Ensure(s)
    PROVE  IInv'
<1>1. /\ tx[s] \in Transactions /\ Holds(tx[s]) /\ InCall(s) /\ Calling(tx[s])
      /\ CallHolds(tx[s]) /\ Seen(s) = SeenWith(tx[s].view)
      /\ calls \in 0 .. MaxCalls /\ Counted(row) /\ Counted(tx[s].view)
      /\ Cardinality(Callers) \in Nat
  BY OfTransaction DEF Ensure, InCall, Holds, Calling
<1>2. CASE Seen(s) = NoRow
  <2> DEFINE t == [tx[s] EXCEPT !.phase = "lock", !.view = Empty, !.locked = TRUE]
  <2>1. tx' = [tx EXCEPT ![s] = t] /\ UNCHANGED <<row, calls, known>>
    BY <1>2 DEF Ensure, Continue
  <2>2. /\ t \in Transactions /\ t.phase = "lock" /\ Calling(t)
        /\ t.document = tx[s].document /\ t.view = Empty /\ t.locked
        /\ t.savedView = tx[s].savedView /\ t.savedLocked = tx[s].savedLocked
        /\ t.given = tx[s].given
    BY <1>1, EmptyIsSound DEF Transactions, Phases, Calling
  <2> HIDE DEF t
  <2>3. /\ tx[s].view = NoRow /\ row = NoRow /\ tx[s].savedView = NoRow /\ Empty # NoRow
    BY <1>1, <1>2, ContentIsRegistry DEF SeenWith, CallHolds
  <2>4. Holds(t)
    BY <1>1, <2>2, <2>3, EmptyIsSound, SuccessionGoesOn
       DEF Holds, LockHolds, CallHolds, Base, SeenWith, Content
  <2>5. \A o \in Sessions \ {s} : ~tx[o].locked
    BY <2>3, OfTransaction DEF Ensure, Holds, LockHolds, SeenWith
  <2>6. Counted(t.view)
    BY <1>1, <2>2, <2>3 DEF Counted, Content
  <2>7. RevisionsCounted'
    BY <1>1, <2>1, <2>2, <2>6, CountKeeps
  <2> QED  BY <1>1, <2>1, <2>2, <2>4, <2>5, <2>7, StepKeeps
<1>3. CASE Seen(s) # NoRow
  <2> DEFINE t == [tx[s] EXCEPT !.phase = "lock"]
  <2>1. tx' = [tx EXCEPT ![s] = t] /\ UNCHANGED <<row, calls, known>>
    BY <1>3 DEF Ensure, Continue
  <2>2. /\ t \in Transactions /\ t.phase = "lock" /\ Calling(t)
        /\ t.document = tx[s].document /\ t.view = tx[s].view /\ t.locked = tx[s].locked
        /\ t.savedView = tx[s].savedView /\ t.savedLocked = tx[s].savedLocked
        /\ t.given = tx[s].given
    BY <1>1 DEF Transactions, Phases, Calling
  <2> HIDE DEF t
  <2>3. Holds(t)
    BY <1>1, <1>3, <2>2 DEF Holds, LockHolds, CallHolds, Base
  <2>4. RevisionsCounted'
    BY <1>1, <2>1, <2>2, CountKeeps
  <2> QED  BY <1>1, <2>1, <2>2, <2>3, <2>4, StepKeeps
<1> QED  BY <1>2, <1>3

\* The lock is granted to one, who reads the row as it is.
LEMMA LockKeeps ==
    ASSUME IInv, NEW s \in Sessions, Lock(s)
    PROVE  IInv'
<1> DEFINE t == [tx[s] EXCEPT !.phase = tx[s].op, !.locked = TRUE, !.before = Seen(s)]
<1>1. /\ tx[s] \in Transactions /\ Holds(tx[s]) /\ InCall(s) /\ Calling(tx[s])
      /\ CallHolds(tx[s]) /\ Seen(s) = SeenWith(tx[s].view)
      /\ calls \in 0 .. MaxCalls /\ Counted(tx[s].view)
      /\ row \in Registries \cup {NoRow}
  BY OfTransaction DEF Lock, InCall, Holds, Calling
<1>2. tx' = [tx EXCEPT ![s] = t] /\ UNCHANGED <<row, calls, known>>
  BY DEF Lock, Continue
<1>3. Seen(s) \in Registries /\ SeenWith(tx[s].view) # NoRow
  BY <1>1 DEF Lock, CallHolds, SeenWith, Transactions
<1>4. /\ t \in Transactions /\ Calling(t)
      /\ t.document = tx[s].document /\ t.view = tx[s].view /\ t.locked
      /\ t.savedView = tx[s].savedView /\ t.savedLocked = tx[s].savedLocked
      /\ t.given = tx[s].given /\ t.before = Seen(s)
  BY <1>1, <1>3 DEF Transactions, Phases, Calling
<1> HIDE DEF t
<1>5. Holds(t)
  BY <1>1, <1>3, <1>4 DEF Holds, LockHolds, CallHolds, Base
<1>6. RevisionsCounted'
  BY <1>1, <1>2, <1>4, CountKeeps
<1>7. \A o \in Sessions \ {s} : ~tx[o].locked
  BY DEF Lock
<1> QED  BY <1>1, <1>2, <1>4, <1>5, <1>6, <1>7, StepKeeps

\* What a call that decides has before it.
LEMMA Deciding ==
    ASSUME IInv, NEW s \in Sessions, tx[s].phase \in {"publish", "deprecate"}
    PROVE  /\ tx[s] \in Transactions /\ Holds(tx[s]) /\ InCall(s) /\ Calling(tx[s])
           /\ tx[s].document \in Documents /\ tx[s].locked
           /\ tx[s].before \in Registries /\ tx[s].before # NoRow
           /\ tx[s].before = SeenWith(tx[s].view)
           /\ Sound(tx[s].before) /\ Succeeds(tx[s].before, Content(row))
           /\ Content(row) \in Registries
           /\ GivenHold(tx[s].given, tx[s].view)
           /\ tx[s].before.revision + Cardinality(Callers) <= calls
           /\ Cardinality(Callers) \in Nat \ {0} /\ calls \in 0 .. MaxCalls
<1>1. /\ tx[s] \in Transactions /\ Holds(tx[s]) /\ InCall(s) /\ Calling(tx[s])
      /\ CallHolds(tx[s])
      /\ calls \in 0 .. MaxCalls /\ Counted(row) /\ Counted(tx[s].view)
      /\ Cardinality(Callers) \in Nat \ {0}
      /\ row \in Registries \cup {NoRow}
  BY OfTransaction DEF InCall, Holds, Calling
<1>2. /\ tx[s].before \in Registries /\ tx[s].before # NoRow
      /\ tx[s].before = SeenWith(tx[s].view)
      /\ tx[s].document \in Documents /\ tx[s].locked
  BY <1>1, ContentIsRegistry DEF CallHolds, Transactions
<1>3. Sound(tx[s].before) /\ Succeeds(tx[s].before, Content(row))
  BY <1>1, <1>2, SuccessionGoesOn DEF Holds, SeenWith, Content, IInv
<1>4. Content(tx[s].before).revision + Cardinality(Callers) <= calls
  BY <1>1, <1>2 DEF Counted, SeenWith
<1> QED  BY <1>1, <1>2, <1>3, <1>4, GivenStays, ContentIsRegistry

\* The last step of a call that has decided: it leaves the row it has read, or writes
\* one that follows it.
LEMMA EndKeeps ==
    ASSUME IInv, NEW s \in Sessions, tx[s].phase \in {"publish", "deprecate"},
           NEW t \in Transactions, ~Calling(t), t.locked,
           tx' = [tx EXCEPT ![s] = t], UNCHANGED <<row, calls, known>>,
           \/ t.view = tx[s].view
           \/ /\ t.view \in Registries /\ Sound(t.view) /\ Succeeds(t.view, tx[s].before)
              /\ t.view.revision = tx[s].before.revision + 1,
           GivenHold(t.given, t.view)
    PROVE  IInv'
<1>1. /\ tx[s] \in Transactions /\ Holds(tx[s]) /\ InCall(s) /\ tx[s].locked
      /\ tx[s].before \in Registries /\ tx[s].before.revision \in Nat
      /\ Succeeds(tx[s].before, Content(row)) /\ Content(row) \in Registries
      /\ tx[s].before.revision + Cardinality(Callers) <= calls
      /\ Cardinality(Callers) \in Nat \ {0} /\ calls \in 0 .. MaxCalls
      /\ Counted(tx[s].view)
  BY Deciding, OfTransaction, ContentIsRegistry
<1>2. CASE t.view = tx[s].view
  <2>1. Holds(t)
    BY <1>1, <1>2 DEF Holds, LockHolds, Base
  <2>2. Content(t.view).revision \in Nat
    BY ContentIsRegistry DEF Transactions
  <2>3. Content(t.view).revision + Cardinality(Callers) <= calls + 1
    BY <1>1, <1>2, <2>2, RegistryAssumption DEF Counted
  <2>4. RevisionsCounted'
    BY <1>1, <2>3, CountKeeps
  <2> QED  BY <1>1, <2>1, <2>4, StepKeeps
<1>3. CASE /\ t.view \in Registries /\ Sound(t.view) /\ Succeeds(t.view, tx[s].before)
           /\ t.view.revision = tx[s].before.revision + 1
  <2>1. t.view # NoRow /\ Content(t.view) = t.view
    BY <1>3, ContentIsRegistry
  <2>2. Succeeds(t.view, Content(row))
    BY <1>1, <1>3, SuccessionGoesOn
  <2>3. Holds(t)
    BY <1>1, <1>3, <2>1, <2>2 DEF Holds, LockHolds, Base, SeenWith
  <2>4. Content(t.view).revision + Cardinality(Callers) <= calls + 1
    BY <1>1, <1>3, <2>1, RegistryAssumption
  <2>5. RevisionsCounted'
    BY <1>1, <2>4, CountKeeps
  <2> QED  BY <1>1, <2>3, <2>5, StepKeeps
<1> QED  BY <1>2, <1>3

\* A replayed publication is one of the row.
LEMMA ReplayKeeps ==
    ASSUME IInv, NEW s \in Sessions, Replay(s)
    PROVE  IInv'
<1> DEFINE before == tx[s].before
           answer == [document |-> tx[s].document, revision |-> before.revision, replay |-> TRUE]
           t == Answered(tx[s], before.revision, TRUE)
<1>1. /\ tx[s] \in Transactions /\ tx[s].locked /\ tx[s].document \in Documents
      /\ before \in Registries /\ before # NoRow /\ before = SeenWith(tx[s].view)
      /\ GivenHold(tx[s].given, tx[s].view) /\ before.revision \in Nat
      /\ before.revision \in Revisions
  BY Deciding, ContentIsRegistry DEF Replay, Registries
<1>2. tx[s].document \in before.schemas /\ tx[s].phase = "publish"
  BY DEF Replay
<1>3. tx' = [tx EXCEPT ![s] = t] /\ UNCHANGED <<row, calls, known>>
  BY DEF Replay, Continue
<1> HIDE DEF before
<1>4. /\ t \in Transactions /\ ~Calling(t) /\ t.locked /\ t.view = tx[s].view
      /\ t.given = tx[s].given \cup {answer}
  <2>1. answer \in Answers
    BY <1>1 DEF Answers
  <2> QED  BY <1>1, <2>1 DEF Answered, Transactions, Phases, Calling
<1> HIDE DEF t
<1>5. GivenHold(t.given, t.view)
  BY <1>1, <1>2, <1>4 DEF GivenHold
<1> QED  BY <1>2, <1>3, <1>4, <1>5, EndKeeps

\* A first publication is news, and has a revision of its own.
LEMMA PublishKeeps ==
    ASSUME IInv, NEW s \in Sessions, Publish(s)
    PROVE  IInv'
<1> DEFINE before == tx[s].before
           d == tx[s].document
           after == [before EXCEPT !.revision = @ + 1, !.schemas = @ \cup {d}]
           answer == [document |-> d, revision |-> after.revision, replay |-> FALSE]
           t == Answered([tx[s] EXCEPT !.view = after], after.revision, FALSE)
<1>1. /\ tx[s] \in Transactions /\ tx[s].locked /\ d \in Documents
      /\ before \in Registries /\ before # NoRow /\ before = SeenWith(tx[s].view)
      /\ Sound(before) /\ Succeeds(before, Content(row)) /\ Content(row) \in Registries
      /\ GivenHold(tx[s].given, tx[s].view)
      /\ before.revision + Cardinality(Callers) <= calls
      /\ Cardinality(Callers) \in Nat \ {0} /\ calls \in 0 .. MaxCalls
  BY Deciding DEF Publish
<1>2. tx[s].phase = "publish" /\ d \notin before.schemas /\ Extends(before, d)
  BY DEF Publish
<1>3. tx' = [tx EXCEPT ![s] = t] /\ UNCHANGED <<row, calls, known>>
  BY DEF Publish, Continue
<1>4. before.revision \in Nat /\ Content(row).revision \in Nat
  BY <1>1, ContentIsRegistry
<1> HIDE DEF before, d
<1>5. /\ after.revision = before.revision + 1 /\ after.schemas = before.schemas \cup {d}
      /\ after.deprecated = before.deprecated
  BY <1>1 DEF Registries
<1>6. after.revision \in Revisions
  BY <1>1, <1>4, <1>5, RegistryAssumption DEF Revisions
<1>7. after \in Registries /\ after # NoRow
  <2>1. after \in Registries
    BY <1>1, <1>5, <1>6 DEF Registries
  <2> QED  BY <2>1, ContentIsRegistry
<1> HIDE DEF after
<1>8. Sound(after) /\ Succeeds(after, before)
  BY <1>1, <1>2, <1>5, PublicationIsSound
<1>9. /\ t \in Transactions /\ ~Calling(t) /\ t.locked /\ t.view = after
      /\ t.given = tx[s].given \cup {answer}
  <2>1. answer \in Answers
    BY <1>1, <1>6 DEF Answers
  <2> QED  BY <1>1, <1>7, <2>1 DEF Answered, Transactions, Phases, Calling, d
<1> HIDE DEF t
<1>10. GivenHold(t.given, t.view)
  <2>1. \A a \in tx[s].given : /\ a.document \in before.schemas
                               /\ a.revision <= before.revision /\ a.revision \in Nat
                               /\ ~a.replay => /\ a.revision > Content(row).revision
                                               /\ a.document \notin Content(row).schemas
    BY <1>1 DEF GivenHold, Transactions, Answers, Revisions
  <2>2. /\ answer.document \notin before.schemas /\ answer.revision = before.revision + 1
        /\ answer.document = d
    BY <1>2, <1>5
  <2>3. answer.document \notin Content(row).schemas /\ answer.revision > Content(row).revision
    BY <1>1, <1>4, <2>2 DEF Succeeds
  <2>4. \A a, b \in tx[s].given : ~a.replay /\ ~b.replay /\ a # b =>
           a.revision # b.revision /\ a.document # b.document
    BY <1>1 DEF GivenHold
  <2>5. \A a \in tx[s].given :
           a.revision # answer.revision /\ a.document # answer.document
    BY <1>4, <2>1, <2>2
  <2> HIDE DEF answer
  <2>6. \A a \in t.given : /\ a.document \in after.schemas /\ a.revision <= after.revision
                           /\ ~a.replay => /\ a.revision > Content(row).revision
                                           /\ a.document \notin Content(row).schemas
    BY <1>4, <1>5, <1>9, <2>1, <2>2, <2>3
  <2> QED  BY <1>7, <1>9, <2>4, <2>5, <2>6 DEF GivenHold, SeenWith
<1> QED  BY <1>2, <1>3, <1>5, <1>7, <1>8, <1>9, <1>10, EndKeeps DEF before

\* A deprecation leaves the publications.
LEMMA DeprecateKeeps ==
    ASSUME IInv, NEW s \in Sessions, Deprecate(s)
    PROVE  IInv'
<1> DEFINE before == tx[s].before
           after == [before EXCEPT !.revision = @ + 1, !.deprecated = @ \cup Found(s)]
<1>1. /\ tx[s] \in Transactions /\ tx[s].locked /\ tx[s].document \in Documents
      /\ before \in Registries /\ before # NoRow /\ before = SeenWith(tx[s].view)
      /\ Sound(before) /\ Succeeds(before, Content(row)) /\ Content(row) \in Registries
      /\ GivenHold(tx[s].given, tx[s].view)
      /\ before.revision + Cardinality(Callers) <= calls
      /\ Cardinality(Callers) \in Nat \ {0} /\ calls \in 0 .. MaxCalls
  BY Deciding DEF Deprecate
<1>2. tx[s].phase = "deprecate"
  BY DEF Deprecate
<1>3. CASE Found(s) \subseteq before.deprecated
  <2> DEFINE t == [tx[s] EXCEPT !.phase = "open"]
  <2>1. tx' = [tx EXCEPT ![s] = t] /\ UNCHANGED <<row, calls, known>>
    BY <1>3 DEF Deprecate, Continue
  <2>2. /\ t \in Transactions /\ ~Calling(t) /\ t.locked /\ t.view = tx[s].view
        /\ t.given = tx[s].given
    BY <1>1 DEF Transactions, Phases, Calling
  <2> HIDE DEF t
  <2> QED  BY <1>1, <1>2, <2>1, <2>2, EndKeeps
<1>4. CASE ~(Found(s) \subseteq before.deprecated)
  <2> DEFINE t == [tx[s] EXCEPT !.phase = "open", !.view = after]
  <2>1. tx' = [tx EXCEPT ![s] = t] /\ UNCHANGED <<row, calls, known>>
    BY <1>4 DEF Deprecate, Continue
  <2>2. before.revision \in Nat /\ Content(row).revision \in Nat
    BY <1>1, ContentIsRegistry
  <2>3. Found(s) = {e \in before.schemas : SameReference(e, tx[s].document)}
    BY DEF Found
  <2> HIDE DEF before
  <2>4. /\ after.revision = before.revision + 1 /\ after.schemas = before.schemas
        /\ after.deprecated = before.deprecated \cup Found(s)
    BY <1>1 DEF Registries
  <2>5. after.revision \in Revisions
    BY <1>1, <2>2, <2>4, RegistryAssumption DEF Revisions
  <2>6. after \in Registries /\ after # NoRow
    <3>1. after \in Registries
      BY <1>1, <2>3, <2>4, <2>5 DEF Registries
    <3> QED  BY <3>1, ContentIsRegistry
  <2> HIDE DEF after
  <2>7. Sound(after) /\ Succeeds(after, before)
    BY <1>1, <1>4, <2>3, <2>4, DeprecationIsSound
  <2>8. /\ t \in Transactions /\ ~Calling(t) /\ t.locked /\ t.view = after
        /\ t.given = tx[s].given
    BY <1>1, <2>6 DEF Transactions, Phases, Calling
  <2> HIDE DEF t
  <2>9. GivenHold(t.given, t.view)
    <3>1. \A a \in tx[s].given : a.revision \in Nat
      BY <1>1 DEF Transactions, Answers, Revisions
    <3>2. \A a \in tx[s].given : a.document \in after.schemas /\ a.revision <= after.revision
      BY <1>1, <2>2, <2>4, <3>1 DEF GivenHold
    <3> QED  BY <1>1, <2>6, <2>8, <3>2 DEF GivenHold, SeenWith
  <2> QED  BY <1>2, <2>1, <2>4, <2>6, <2>7, <2>8, <2>9, EndKeeps DEF before
<1> QED  BY <1>3, <1>4

\* A transaction that is given up leaves nothing.
LEMMA AbortKeeps ==
    ASSUME IInv, NEW s \in Sessions, Abort(s)
    PROVE  IInv'
<1>1. tx' = [tx EXCEPT ![s] = Idle] /\ UNCHANGED <<row, calls, known>>
  BY DEF Abort, Continue
<1>2. /\ calls \in 0 .. MaxCalls /\ Cardinality(Callers) \in Nat /\ Counted(tx[s].view)
      /\ Content(tx[s].view).revision \in Nat
  BY OfTransaction, ContentIsRegistry DEF Transactions
<1>3. /\ ~Idle.locked /\ Content(Idle.view).revision = 0
  BY DEF Idle, Content, Empty
<1>4. Cardinality(Callers) <= calls
  BY <1>2, RegistryAssumption DEF Counted
<1>5. calls' = calls /\ Content(Idle.view).revision + Cardinality(Callers) <= calls
  BY <1>1, <1>2, <1>3, <1>4
<1>6. Counted(Idle.view)
  BY <1>5 DEF Counted
<1>7. RevisionsCounted'
  <2>1. CASE InCall(s)
    <3>1. Content(Idle.view).revision + Cardinality(Callers) <= calls + 1
      BY <1>2, <1>5, <1>3
    <3> QED  BY <1>1, <2>1, <3>1, IdleHolds, CountKeeps
  <2>2. CASE ~InCall(s)
    BY <1>1, <1>6, <2>2, IdleHolds, CountKeeps
  <2> QED  BY <2>1, <2>2
<1> QED  BY <1>1, <1>2, <1>3, <1>7, IdleHolds, StepKeeps

\* What a commit writes follows what was committed, which its transaction has locked.
LEMMA CommitFollows ==
    ASSUME IInv, NEW s \in Sessions, Commit(s)
    PROVE  /\ row' = SeenWith(tx[s].view) /\ tx' = [tx EXCEPT ![s] = Idle]
           /\ known' \in {known, known \cup tx[s].given} /\ calls' = calls
           /\ row' \in Registries \cup {NoRow}
           /\ row # NoRow => row' # NoRow
           /\ row' # NoRow => Sound(row')
           /\ Succeeds(Content(row'), Content(row))
           /\ GivenHold(tx[s].given, tx[s].view)
           /\ row' # row => \A o \in Sessions \ {s} : ~tx[o].locked
<1>1. /\ tx[s] \in Transactions /\ Holds(tx[s]) /\ ~Calling(tx[s])
      /\ Seen(s) = SeenWith(tx[s].view)
      /\ row \in Registries \cup {NoRow} /\ Content(row) \in Registries
  BY OfTransaction, ContentIsRegistry DEF Commit, Calling
<1>2. /\ row' = SeenWith(tx[s].view) /\ tx' = [tx EXCEPT ![s] = Idle]
      /\ known' \in {known, known \cup tx[s].given} /\ calls' = calls
  BY <1>1 DEF Commit
<1>3. GivenHold(tx[s].given, tx[s].view)
  BY <1>1 DEF Holds, Base
<1>4. CASE tx[s].view = NoRow
  BY <1>1, <1>2, <1>3, <1>4, SuccessionGoesOn DEF SeenWith, IInv
<1>5. CASE tx[s].view # NoRow
  <2>1. /\ tx[s].locked /\ Sound(tx[s].view) /\ Succeeds(tx[s].view, Content(row))
        /\ tx[s].view \in Registries
    BY <1>1, <1>5 DEF Holds, LockHolds, Transactions
  <2>2. row' = tx[s].view /\ Content(row') = tx[s].view
    BY <1>2, <1>5 DEF SeenWith, Content
  <2> QED  BY <1>2, <1>3, <1>5, <2>1, <2>2 DEF IInv, OneLocks
<1> QED  BY <1>4, <1>5

\* A commit keeps what others found and what callers know.
LEMMA CommitKeeps ==
    ASSUME IInv, NEW s \in Sessions, Commit(s)
    PROVE  IInv'
<1>1. /\ row' = SeenWith(tx[s].view) /\ tx' = [tx EXCEPT ![s] = Idle]
      /\ known' \in {known, known \cup tx[s].given} /\ calls' = calls
      /\ row' \in Registries \cup {NoRow}
      /\ row # NoRow => row' # NoRow
      /\ row' # NoRow => Sound(row')
      /\ Succeeds(Content(row'), Content(row))
      /\ GivenHold(tx[s].given, tx[s].view)
      /\ row' # row => \A o \in Sessions \ {s} : ~tx[o].locked
  BY CommitFollows
<1>2. \A o \in Sessions : tx'[o] = IF o = s THEN Idle ELSE tx[o]
  BY <1>1 DEF IInv, TypeOK
<1>3. /\ tx[s] \in Transactions /\ ~InCall(s) /\ tx[s].given \subseteq Answers
      /\ Counted(row) /\ Counted(tx[s].view)
      /\ row \in Registries \cup {NoRow}
  BY OfTransaction DEF Commit, InCall, Transactions
<1>4. TypeOK'
  BY <1>1, <1>3, IdleHolds DEF IInv, TypeOK
<1>5. OneLocks'
  BY <1>2 DEF IInv, OneLocks, Idle
<1>6. RevisionsCounted'
  <2>1. IsFiniteSet(Callers') /\ Cardinality(Callers') = Cardinality(Callers)
    BY <1>1, <1>3, IdleHolds, CallersMove
  <2>2. \A r \in {row', NoRow} \cup {tx[o].view : o \in Sessions} : Counted(r)
    <3>1. Counted(row')
      BY <1>1, <1>3 DEF SeenWith
    <3>2. Counted(NoRow)
      <4>1. /\ Content(row).revision \in Nat /\ Content(NoRow).revision = 0
            /\ Cardinality(Callers) \in Nat /\ calls \in 0 .. MaxCalls
        BY <1>3, OfTransaction, ContentIsRegistry DEF Content, Empty
      <4> QED  BY <1>3, <4>1, RegistryAssumption DEF Counted
    <3> QED  BY <3>1, <3>2 DEF IInv, RevisionsCounted
  <2>3. \A r \in {row', NoRow} \cup {tx[o].view : o \in Sessions} :
           Content(r).revision + Cardinality(Callers') <= calls'
    BY <1>1, <2>1, <2>2 DEF Counted
  <2>4. \A o \in Sessions : Content(tx'[o].view).revision + Cardinality(Callers') <= calls'
    BY <1>2, <2>3 DEF Idle
  <2> QED  BY <2>1, <2>3, <2>4 DEF RevisionsCounted, Counted, Content
<1>7. Content(row) \in Registries /\ Content(row') \in Registries
  BY <1>1, <1>3, ContentIsRegistry
<1>8. KnownPublicationsHold'
  <2>1. \A a \in known : /\ row # NoRow /\ a.document \in row.schemas
                         /\ a.revision <= row.revision /\ a.revision \in Nat
                         /\ row' # NoRow /\ a.document \in row'.schemas
                         /\ a.revision <= row'.revision
    BY <1>1, <1>3, <1>7 DEF IInv, TypeOK, KnownPublicationsHold, Succeeds, Content, Answers,
       Registries, Revisions
  <2>2. \A a \in tx[s].given :
           /\ row' # NoRow /\ a.document \in row'.schemas /\ a.revision <= row'.revision
           /\ a.revision \in Nat
           /\ ~a.replay => /\ a.revision > Content(row).revision
                           /\ a.document \notin Content(row).schemas
    BY <1>1, <1>3 DEF GivenHold, Answers, Revisions
  <2>3. \A a \in known, b \in tx[s].given : ~b.replay =>
           a.revision # b.revision /\ a.document # b.document
    <3>1. Content(row).revision \in Nat
      BY <1>7 DEF Registries, Revisions
    <3> QED  BY <2>1, <2>2, <3>1 DEF Content
  <2>4. \A a, b \in tx[s].given : ~a.replay /\ ~b.replay /\ a # b =>
           a.revision # b.revision /\ a.document # b.document
    BY <1>1 DEF GivenHold
  <2>5. \A a, b \in known : ~a.replay /\ ~b.replay /\ a # b =>
           a.revision # b.revision /\ a.document # b.document
    BY DEF IInv, KnownPublicationsHold
  <2> QED  BY <1>1, <2>1, <2>2, <2>3, <2>4, <2>5 DEF KnownPublicationsHold
<1>9. ASSUME NEW t \in Transactions, Holds(t), row' # row => ~t.locked
      PROVE  Holds(t)'
  <2>1. CASE row' = row
    BY <1>9, <2>1 DEF Holds, LockHolds, CallHolds, GivenHold, SeenWith
  <2>2. CASE row' # row
    <3>1. /\ ~t.locked /\ t.view = NoRow /\ Base(t) = NoRow
          /\ Calling(t) => CallHolds(t) /\ ~t.savedLocked /\ t.savedView = NoRow
      BY <1>9, <2>2 DEF Holds, LockHolds, CallHolds, Base
    <3>2. LockHolds(t)' /\ (Calling(t) => CallHolds(t)')
      BY <1>1, <3>1 DEF LockHolds, CallHolds, SeenWith
    <3>3. GivenHold(t.given, Base(t))'
      <4>1. \A a \in t.given : /\ row # NoRow /\ a.document \in row.schemas
                               /\ a.revision <= row.revision /\ a.revision \in Nat /\ a.replay
        BY <1>9, <3>1 DEF Holds, GivenHold, SeenWith, Transactions, Answers, Revisions
      <4>2. \A a \in t.given : /\ row' # NoRow /\ a.document \in row'.schemas
                               /\ a.revision <= row'.revision
        BY <1>1, <1>3, <1>7, <4>1 DEF Succeeds, Content, Registries, Revisions
      <4> QED  BY <3>1, <4>1, <4>2 DEF GivenHold, SeenWith
    <3> QED  BY <1>9, <3>1, <3>2, <3>3 DEF Holds
  <2> QED  BY <2>1, <2>2
<1>10. TransactionsHold'
  <2>1. Holds(Idle)'
    BY DEF Idle, Holds, LockHolds, Calling, Base, GivenHold
  <2>2. \A o \in Sessions \ {s} :
           tx[o] \in Transactions /\ Holds(tx[o]) /\ (row' # row => ~tx[o].locked)
    BY <1>1, OfTransaction
  <2> QED  BY <1>2, <1>9, <2>1, <2>2 DEF TransactionsHold
<1> QED  BY <1>1, <1>4, <1>5, <1>6, <1>8, <1>10 DEF IInv, Sound, History

\* Every step preserves the invariant.
LEMMA NextInv == IInv /\ [Next]_vars => IInv'
<1> SUFFICES ASSUME IInv, [Next]_vars
             PROVE  IInv'
  OBVIOUS
<1>1. ASSUME NEW s \in Sessions, NEW op \in {"publish", "deprecate"}, NEW d \in Documents,
             Begin(s, op, d)
      PROVE  IInv'
  BY <1>1, BeginKeeps
<1>2. ASSUME NEW s \in Sessions, Statement(s)
      PROVE  IInv'
  <2>1. CASE Ensure(s) \/ Lock(s) \/ Replay(s) \/ Publish(s) \/ Deprecate(s)
    BY <2>1, EnsureKeeps, LockKeeps, ReplayKeeps, PublishKeeps, DeprecateKeeps
  <2>2. CASE RefusePublish(s) \/ RefuseDeprecate(s)
    BY <2>2, BackKeeps DEF RefusePublish, RefuseDeprecate, InCall
  <2> QED  BY <1>2, <2>1, <2>2 DEF Statement
<1>3. ASSUME NEW s \in Sessions, TimedOut(s)
      PROVE  IInv'
  <2>1. InCall(s) /\ tx[s].phase # "idle"
    BY <1>3 DEF TimedOut, Waits, InCall
  <2>2. BackToSavepoint(s) \/ Abort(s)
    BY <1>3, <2>1 DEF TimedOut, Abort
  <2> QED  BY <2>1, <2>2, BackKeeps, AbortKeeps
<1>4. ASSUME NEW s \in Sessions, Fail(s) \/ Commit(s) \/ Abort(s)
      PROVE  IInv'
  BY <1>4, BackKeeps, CommitKeeps, AbortKeeps DEF Fail
<1>5. CASE UNCHANGED vars
  <2>1. TransactionsHold'
    BY <1>5 DEF vars, IInv, TransactionsHold, Holds, LockHolds, CallHolds, GivenHold, SeenWith
  <2>2. RevisionsCounted'
    BY <1>5 DEF vars, IInv, RevisionsCounted, Counted, Callers, InCall
  <2> QED  BY <1>5, <2>1, <2>2 DEF vars, IInv, TypeOK, OneLocks, KnownPublicationsHold, Sound,
           History
<1> QED  BY <1>1, <1>2, <1>3, <1>4, <1>5 DEF Next

\* Every reachable state of every instance is well typed: no revision is counted but
\* by a call.
THEOREM RegistryTypeOK == Spec => []TypeOK
<1>1. IInv => TypeOK
  BY DEF IInv
<1> QED  BY <1>1, InitInv, NextInv, PTL DEF Spec

\* No published version breaks the one before it silently, on whatever snapshot its
\* publisher decided.
THEOREM BreakingNeedsConsent == Spec => []BreakingIsExplicit
<1>1. IInv => BreakingIsExplicit
  BY DEF IInv, Sound, BreakingIsExplicit
<1> QED  BY <1>1, InitInv, NextInv, PTL DEF Spec

\* Publications callers hold for committed are in the registry, each with a revision
\* of its own.
THEOREM PublicationsAreCommitted == Spec => []KnownPublicationsHold
<1>1. IInv => KnownPublicationsHold
  BY DEF IInv
<1> QED  BY <1>1, InitInv, NextInv, PTL DEF Spec

\* The registry only grows, by later versions, and its revision counts the changes.
THEOREM HistoryGrows == Spec => HistoryOnlyGrows
<1> DEFINE Grows == row # NoRow =>
        /\ row'.revision = Cardinality(row'.schemas) + Cardinality(row'.deprecated)
        /\ row.schemas \subseteq row'.schemas
        /\ row.deprecated \subseteq row'.deprecated
        /\ \A d \in row'.schemas \ row.schemas : \A e \in History(row, d) :
              VersionOf[e] < VersionOf[d]
<1>1. ASSUME IInv, [Next]_vars
      PROVE  Grows
  <2>1. ASSUME NEW s \in Sessions, Commit(s)
        PROVE  Grows
    <3>1. /\ row # NoRow => row' # NoRow
          /\ row' # NoRow => Sound(row')
          /\ Succeeds(Content(row'), Content(row))
      BY <1>1, <2>1, CommitFollows
    <3> QED  BY <3>1 DEF Succeeds, Sound, Content
  <2>2. CASE row' = row
    BY <1>1, <2>2 DEF IInv, Sound
  <2>3. row' = row \/ \E s \in Sessions : Commit(s)
    <3>1. ASSUME NEW s \in Sessions, Statement(s) \/ TimedOut(s) \/ Fail(s) \/ Abort(s)
          PROVE  row' = row
      <4>1. ASSUME NEW t, Continue(s, t)
            PROVE  row' = row
        BY <4>1 DEF Continue
      <4>2. (Ensure(s) => row' = row) /\ (Lock(s) => row' = row)
        BY <4>1 DEF Ensure, Lock
      <4>3. (Replay(s) => row' = row) /\ (Publish(s) => row' = row)
        BY <4>1 DEF Replay, Publish
      <4>4. Deprecate(s) => row' = row
        BY <4>1 DEF Deprecate
      <4>5. BackToSavepoint(s) => row' = row
        BY <4>1 DEF BackToSavepoint
      <4>6. Abort(s) => row' = row
        BY <4>1 DEF Abort
      <4> QED  BY <3>1, <4>1, <4>2, <4>3, <4>4, <4>5, <4>6
               DEF Statement, RefusePublish, RefuseDeprecate, Fail, TimedOut
    <3>2. ASSUME NEW s \in Sessions, NEW op, NEW d, Begin(s, op, d)
          PROVE  row' = row
      BY <3>2 DEF Begin
    <3> QED  BY <1>1, <3>1, <3>2 DEF Next, vars
  <2> QED  BY <2>1, <2>2, <2>3
<1>2. ASSUME IInv, [Next]_vars
      PROVE  [Grows]_vars
  BY <1>1, <1>2
<1> QED  BY <1>2, InitInv, NextInv, PTL DEF Spec, HistoryOnlyGrows
=============================================================================
