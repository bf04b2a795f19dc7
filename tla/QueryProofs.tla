------------------------------ MODULE QueryProofs ------------------------------
(***************************************************************************)
(* Theorems about queries.  Keyset: for every query, page size and table,  *)
(* whatever is written between pages, pages go forward and skip no row     *)
(* that stayed.  Traversal: for any relation rows, however they run in     *)
(* circles, and any bounds, the recursive statement finds exactly the      *)
(* paths of at most maxDepth edges, and its page omits only records that   *)
(* are no nearer than those it has.                                        *)
(***************************************************************************)
EXTENDS Keyset, Traversal, SequenceTheorems, FiniteSetTheorems, WellFoundedInduction, TLAPS

-----------------------------------------------------------------------------
(* Natural numbers                                                         *)

\* A non-empty set of natural numbers has a least one.
LEMMA LeastNatural ==
    ASSUME NEW S \in SUBSET Nat, S # {}
    PROVE  \E m \in S : \A n \in S : m <= n
<1> DEFINE R == OpToRel(<, Nat)
<1>1. ASSUME NEW m \in Nat, NEW n \in Nat, n < m
      PROVE  <<n, m>> \in R
  BY <1>1 DEF OpToRel
<1>2. IsWellFoundedOn(R, Nat)
  BY NatLessThanWellFounded
<1> HIDE DEF R
<1>3. PICK m \in S : \A n \in S : <<n, m>> \notin R
  BY <1>2, WFMin
<1>4. ASSUME NEW n \in S
      PROVE  m <= n
  <2>1. m \in Nat /\ n \in Nat
    OBVIOUS
  <2>2. ~(n < m)
    BY <1>1, <1>3, <2>1
  <2> QED  BY <2>1, <2>2
<1> QED  BY <1>4

\* Induction on natural numbers, for a set.
LEMMA NaturalSteps ==
    ASSUME NEW S, 0 \in S, \A n \in Nat : n \in S => n + 1 \in S
    PROVE  Nat \subseteq S
<1> SUFFICES ASSUME Nat \ S # {}
             PROVE  FALSE
  OBVIOUS
<1>1. PICK x \in Nat \ S : \A y \in Nat \ S : x <= y
  BY LeastNatural
<1>2. x - 1 \in Nat /\ x - 1 \in S
  BY <1>1
<1>3. x - 1 + 1 = x
  BY <1>1
<1> QED  BY <1>1, <1>2, <1>3

-----------------------------------------------------------------------------
(* Pages: the order                                                        *)

Scalars == Int \cup {Null}

\* The fields of a result row are scalars.
LEMMA RowFields ==
    ASSUME NEW r \in Rows, NEW term \in Terms
    PROVE  r[term.field] \in Scalars
BY KeysetAssumption DEF Rows, Terms, Scalars

\* One term of ORDER BY is a strict order of the scalars that only equals escape.
LEMMA SoonerIsStrict ==
    ASSUME NEW term \in Terms, NEW v \in Scalars, NEW w \in Scalars, NEW x \in Scalars
    PROVE  /\ ~Sooner(term, v, v)
           /\ Sooner(term, v, w) /\ Sooner(term, w, x) => Sooner(term, v, x)
           /\ v # w => Sooner(term, v, w) \/ Sooner(term, w, v)
BY KeysetAssumption DEF Terms, Scalars, Sooner

\* _after is one term of ORDER BY read backwards.
LEMMA AfterIsSooner ==
    ASSUME NEW term \in Terms, NEW v \in Scalars, NEW w \in Scalars
    PROVE  After(term, v, w) <=> Sooner(term, w, v)
BY KeysetAssumption DEF Terms, Scalars, Sooner, After, Compares

\* _keyset selects exactly the rows that ORDER BY puts after the cursor's row:
\* every prefix, direction and placement of nulls is covered.
THEOREM ContinuesIsBefore ==
    ASSUME NEW order \in Seq(Terms), NEW p \in Rows, NEW r \in Rows
    PROVE  Continues(order, Tuple(order, p), r) <=> Before(order, p, r)
<1>1. ASSUME NEW i \in DOMAIN order
      PROVE  /\ Tuple(order, p)[i] = p[order[i].field]
             /\ \A j \in 1 .. i - 1 : Tuple(order, p)[j] = p[order[j].field]
             /\ After(order[i], r[order[i].field], p[order[i].field])
                <=> Sooner(order[i], p[order[i].field], r[order[i].field])
  <2>1. order[i] \in Terms /\ i \in 1 .. Len(order) /\ DOMAIN order = 1 .. Len(order)
    OBVIOUS
  <2>2. p[order[i].field] \in Scalars /\ r[order[i].field] \in Scalars
    BY <2>1, RowFields
  <2> QED  BY <2>1, <2>2, AfterIsSooner DEF Tuple
<1> QED  BY <1>1 DEF Continues, Before

\* No row sorts before itself.
LEMMA BeforeIrreflexive ==
    ASSUME NEW order \in Seq(Terms), NEW p \in Rows
    PROVE  ~Before(order, p, p)
<1>1. ASSUME NEW i \in DOMAIN order
      PROVE  ~Sooner(order[i], p[order[i].field], p[order[i].field])
  <2>1. order[i] \in Terms
    OBVIOUS
  <2> QED  BY <2>1, RowFields, SoonerIsStrict
<1> QED  BY <1>1 DEF Before

\* ORDER BY is transitive.
LEMMA BeforeTransitive ==
    ASSUME NEW order \in Seq(Terms), NEW p \in Rows, NEW q \in Rows, NEW r \in Rows,
           Before(order, p, q), Before(order, q, r)
    PROVE  Before(order, p, r)
<1> DEFINE At(s, i) == s[order[i].field]
<1>1. PICK i \in DOMAIN order : /\ \A j \in 1 .. i - 1 : At(p, j) = At(q, j)
                                /\ Sooner(order[i], At(p, i), At(q, i))
  BY DEF Before
<1>2. PICK k \in DOMAIN order : /\ \A j \in 1 .. k - 1 : At(q, j) = At(r, j)
                                /\ Sooner(order[k], At(q, k), At(r, k))
  BY DEF Before
<1>3. i \in Nat \ {0} /\ k \in Nat \ {0}
  OBVIOUS
<1>4. order[i] \in Terms /\ At(p, i) \in Scalars /\ At(q, i) \in Scalars /\ At(r, i) \in Scalars
  <2>1. order[i] \in Terms
    OBVIOUS
  <2> QED  BY <2>1, RowFields
<1> HIDE DEF At
<1> SUFFICES \E m \in DOMAIN order : /\ \A j \in 1 .. m - 1 : At(p, j) = At(r, j)
                                     /\ Sooner(order[m], At(p, m), At(r, m))
  BY DEF Before, At
<1>5. CASE i < k
  <2>1. At(q, i) = At(r, i) /\ \A j \in 1 .. i - 1 : At(p, j) = At(r, j)
    BY <1>1, <1>2, <1>3, <1>5
  <2> QED  BY <1>1, <2>1
<1>6. CASE i = k
  <2>1. Sooner(order[i], At(p, i), At(r, i))
    BY <1>1, <1>2, <1>4, <1>6, SoonerIsStrict
  <2> QED  BY <1>1, <1>2, <1>6, <2>1
<1>7. CASE k < i
  <2>1. At(p, k) = At(q, k) /\ \A j \in 1 .. k - 1 : At(p, j) = At(r, j)
    BY <1>1, <1>2, <1>3, <1>7
  <2> QED  BY <1>2, <2>1
<1> QED  BY <1>3, <1>5, <1>6, <1>7

\* The order of a query is a sequence of terms with the identity among them.
LEMMA OrderType ==
    ASSUME NEW q \in Queries
    PROVE  /\ Order(q) \in Seq(Terms)
           /\ \E i \in DOMAIN Order(q) : Order(q)[i].field = Identity
<1> DEFINE term == [field |-> Identity, direction |-> "asc", nulls |-> "last"]
<1>1. q.order \in Seq(Terms) /\ term \in Terms
  BY KeysetAssumption DEF Terms
<1>2. CASE \E i \in DOMAIN q.order : q.order[i].field = Identity
  BY <1>1, <1>2 DEF Order
<1>3. CASE ~\E i \in DOMAIN q.order : q.order[i].field = Identity
  <2>1. Order(q) = Append(q.order, term)
    BY <1>3 DEF Order
  <2>2. Append(q.order, term) \in Seq(Terms)
    BY <1>1
  <2>3. Len(q.order) + 1 \in DOMAIN Append(q.order, term)
    BY <1>1
  <2>4. Append(q.order, term)[Len(q.order) + 1].field = Identity
    BY <1>1
  <2> QED  BY <2>1, <2>2, <2>3, <2>4
<1> QED  BY <1>2, <1>3

\* Rows of different records never tie.
LEMMA BeforeTotal ==
    ASSUME NEW q \in Queries, NEW p \in Rows, NEW r \in Rows, p[Identity] # r[Identity]
    PROVE  Before(Order(q), p, r) \/ Before(Order(q), r, p)
<1> DEFINE order == Order(q)
           D == {i \in DOMAIN order : p[order[i].field] # r[order[i].field]}
<1>1. order \in Seq(Terms) /\ D # {}
  BY OrderType
<1>2. D \in SUBSET Nat
  BY <1>1
<1>3. PICK m \in D : \A n \in D : m <= n
  BY <1>1, <1>2, LeastNatural
<1>4. \A j \in 1 .. m - 1 : p[order[j].field] = r[order[j].field]
  <2> SUFFICES ASSUME NEW j \in 1 .. m - 1, p[order[j].field] # r[order[j].field]
               PROVE  FALSE
    OBVIOUS
  <2>1. m \in Nat /\ j \in Nat /\ j < m /\ j \in DOMAIN order
    BY <1>1
  <2>2. j \in D
    BY <2>1
  <2> QED  BY <1>3, <2>1, <2>2
<1>5. order[m] \in Terms /\ m \in DOMAIN order
  BY <1>1
<1>6. p[order[m].field] \in Scalars /\ r[order[m].field] \in Scalars
  BY <1>5, RowFields
<1>7. \/ Sooner(order[m], p[order[m].field], r[order[m].field])
      \/ Sooner(order[m], r[order[m].field], p[order[m].field])
  BY <1>5, <1>6, SoonerIsStrict
<1> QED  BY <1>4, <1>5, <1>7 DEF Before

\* A page has a last row.
LEMMA LastExists ==
    ASSUME NEW order \in Seq(Terms), NEW S \in SUBSET Rows, IsFiniteSet(S), S # {}
    PROVE  \E r \in S : \A p \in S : ~Before(order, r, p)
<1> DEFINE Later(r) == {p \in S : Before(order, r, p)}
           Counts == {Cardinality(Later(r)) : r \in S}
<1>1. \A r \in S : IsFiniteSet(Later(r)) /\ Cardinality(Later(r)) \in Nat
  BY FS_Subset, FS_CardinalityType
<1>2. Counts \in SUBSET Nat /\ Counts # {}
  BY <1>1
<1>3. PICK m \in Counts : \A n \in Counts : m <= n
  BY <1>2, LeastNatural
<1>4. PICK r \in S : m = Cardinality(Later(r))
  BY <1>3
<1>5. ASSUME NEW p \in S, Before(order, r, p)
      PROVE  FALSE
  <2>1. Later(p) \subseteq Later(r)
    BY <1>5, BeforeTransitive
  <2>2. p \in Later(r) /\ p \notin Later(p)
    BY <1>5, BeforeIrreflexive
  <2>3. /\ Cardinality(Later(p)) <= Cardinality(Later(r))
        /\ Cardinality(Later(p)) # Cardinality(Later(r))
    BY <1>1, <2>1, <2>2, FS_Subset
  <2>4. Cardinality(Later(r)) <= Cardinality(Later(p))
    BY <1>3, <1>4
  <2>5. Cardinality(Later(p)) \in Nat /\ Cardinality(Later(r)) \in Nat
    BY <1>1
  <2> HIDE DEF Later
  <2> QED  BY <2>3, <2>4, <2>5
<1> QED  BY <1>5

-----------------------------------------------------------------------------
(* Pages: the inductive invariant                                          *)

Seen == returned \cup page

\* A cursor points at the last row seen of the query that is being read.
CursorIsLast ==
    cursor # NoCursor =>
        /\ query \in Queries
        /\ cursor.query = query
        /\ ~ended
        /\ \E last \in page :
              /\ cursor.tuple = Tuple(Order(query), last)
              /\ \A p \in Seen : p = last \/ Before(Order(query), p, last)

\* Only a scan that has not begun or has ended is without a cursor.
CursorIsThere ==
    /\ query = NoQuery => Seen = {} /\ stayed = {} /\ ~ended
    /\ cursor = NoCursor => query = NoQuery \/ ended

\* A row that stayed has been seen, or the cursor is before it.
StayedIsAhead ==
    \A k \in stayed :
        /\ table[k] # Absent
        /\ Row(k) \in Seen \/ (cursor # NoCursor /\ Continues(Order(query), cursor.tuple, Row(k)))

ScanInv == TypeOK /\ CursorIsLast /\ CursorIsThere /\ PagesGoForward /\ StayedIsAhead

\* A present row is a result row that carries its record's identity.
LEMMA RowType ==
    ASSUME TypeOK, NEW k \in Keys, table[k] # Absent
    PROVE  Row(k) \in Rows /\ Row(k)[Identity] = k
<1>1. table[k] \in Contents
  BY DEF TypeOK, Tables
<1> QED  BY <1>1, KeysetAssumption DEF Row, Rows, Contents

\* What a page selects: rows, finitely many, of different records, behind the
\* cursor.
LEMMA SelectedType ==
    ASSUME TypeOK, NEW q \in Queries
    PROVE  /\ Selected(q) \subseteq Rows
           /\ IsFiniteSet(Selected(q))
           /\ \A p, r \in Selected(q) : p # r => p[Identity] # r[Identity]
           /\ \A r \in Selected(q) : cursor # NoCursor => Continues(Order(q), cursor.tuple, r)
           /\ \A k \in Present :
                 (cursor # NoCursor => Continues(Order(q), cursor.tuple, Row(k)))
                    => Row(k) \in Selected(q)
<1> DEFINE all == {Row(k) : k \in Present}
<1>1. \A k \in Present : Row(k) \in Rows /\ Row(k)[Identity] = k
  BY RowType DEF Present
<1>2. IsFiniteSet(Present)
  BY KeysetAssumption, FS_Subset DEF Present
<1>3. IsFiniteSet(all)
  <2> DEFINE f == [k \in Present |-> Row(k)]
  <2>1. all = {f[k] : k \in DOMAIN f}
    OBVIOUS
  <2>2. f \in Surjection(Present, all)
    BY DEF Surjection
  <2> QED  BY <1>2, <2>2, FS_Surjection
<1>4. Selected(q) \subseteq all
  BY DEF Selected
<1>5. IsFiniteSet(Selected(q))
  BY <1>3, <1>4, FS_Subset
<1>6. \A p, r \in all : p # r => p[Identity] # r[Identity]
  BY <1>1
<1>7. Selected(q) \subseteq Rows
  BY <1>1, <1>4
<1>8. \A r \in Selected(q) : cursor # NoCursor => Continues(Order(q), cursor.tuple, r)
  BY DEF Selected
<1>9. \A k \in Present :
        (cursor # NoCursor => Continues(Order(q), cursor.tuple, Row(k))) => Row(k) \in Selected(q)
  BY DEF Selected
<1> HIDE DEF all
<1>10. \A p, r \in Selected(q) : p # r => p[Identity] # r[Identity]
  BY <1>4, <1>6
<1> QED  BY <1>5, <1>7, <1>8, <1>9, <1>10

\* The last row of a page, as Page chooses it.
LastOf(order, kept) == CHOOSE r \in kept : \A p \in kept : ~Before(order, r, p)

\* A page with a cursor ends in its last row, and leaves out only later rows; a
\* page without one leaves out nothing.
LEMMA PageCutsOff ==
    ASSUME TypeOK, NEW q \in Queries,
           NEW fetched \in Limited(Order(q), Selected(q), q.size + 1),
           NEW kept \in Kept(Order(q), fetched, q)
    PROVE  LET last == LastOf(Order(q), kept)
               more == Cardinality(fetched) > q.size
           IN  /\ kept \subseteq Selected(q)
               /\ Cardinality(kept) <= q.size
               /\ more => /\ last \in kept
                          /\ \A p \in kept : p = last \/ Before(Order(q), p, last)
               /\ \A r \in Selected(q) \ kept : more /\ Before(Order(q), last, r)
<1> DEFINE order == Order(q)
           last == LastOf(order, kept)
           more == Cardinality(fetched) > q.size
<1>1. q.size \in Nat \ {0} /\ order \in Seq(Terms)
  BY KeysetAssumption, OrderType
<1>2. /\ fetched \subseteq Selected(q)
      /\ fetched # Selected(q) => Cardinality(fetched) = q.size + 1
      /\ \A p \in fetched, r \in Selected(q) \ fetched : ~Before(order, r, p)
  BY DEF Limited
<1>3. /\ kept \subseteq fetched
      /\ Cardinality(kept) <= q.size
      /\ kept # fetched => Cardinality(kept) = q.size
      /\ \A p \in kept, r \in fetched \ kept : ~Before(order, r, p)
  BY DEF Limited, Kept
<1>4. IsFiniteSet(fetched) /\ IsFiniteSet(kept)
  BY <1>2, <1>3, SelectedType, FS_Subset
<1>5. Cardinality(fetched) \in Nat /\ Cardinality(kept) \in Nat
  BY <1>4, FS_CardinalityType
<1>6. kept # fetched => more
  <2> SUFFICES ASSUME kept # fetched
               PROVE  more
    OBVIOUS
  <2>1. Cardinality(kept) <= Cardinality(fetched) /\ Cardinality(kept) # Cardinality(fetched)
    BY <1>3, <1>4, FS_Subset
  <2> QED  BY <1>1, <1>3, <1>5, <2>1
<1>7. fetched # Selected(q) => more
  BY <1>1, <1>2
<1>8. more => kept # fetched
  BY <1>1, <1>3, <1>5
<1>9. more => kept # {}
  <2>1. more => Cardinality(kept) = q.size
    BY <1>3, <1>8
  <2>2. Cardinality({}) = 0
    BY FS_EmptySet
  <2> QED  BY <1>1, <2>1, <2>2
<1>10. kept \subseteq Rows
  BY <1>2, <1>3, SelectedType
<1>11. more => last \in kept /\ \A p \in kept : ~Before(order, last, p)
  <2> SUFFICES ASSUME more
               PROVE  last \in kept /\ \A p \in kept : ~Before(order, last, p)
    OBVIOUS
  <2>1. \E r \in kept : \A p \in kept : ~Before(order, r, p)
    BY <1>1, <1>4, <1>9, <1>10, LastExists
  <2> QED  BY <2>1 DEF LastOf
<1> HIDE DEF last, more
<1>12. ASSUME NEW p \in Selected(q), NEW r \in Selected(q), p # r, ~Before(order, r, p)
       PROVE  Before(order, p, r)
  BY <1>12, SelectedType, BeforeTotal
<1>13. more => \A p \in kept : p = last \/ Before(order, p, last)
  BY <1>2, <1>3, <1>11, <1>12
<1>14. ASSUME NEW r \in Selected(q) \ kept
       PROVE  more /\ Before(order, last, r)
  <2>1. more
    BY <1>2, <1>3, <1>6, <1>7, <1>14
  <2>2. last \in kept /\ last \in fetched /\ last \in Selected(q) /\ last # r
    BY <1>2, <1>3, <1>11, <2>1
  <2>3. ~Before(order, r, last)
    BY <1>2, <1>3, <2>2
  <2> QED  BY <1>12, <2>1, <2>2, <2>3
<1>15. kept \subseteq Selected(q)
  BY <1>2, <1>3
<1> QED  BY <1>3, <1>11, <1>13, <1>14, <1>15 DEF last, more

\* Initially nothing is seen.
LEMMA InitScan == Init => ScanInv
<1> SUFFICES ASSUME Init
             PROVE  ScanInv
  OBVIOUS
<1>1. TypeOK
  <2>1. 0 \in 0 .. MaxWrites
    BY KeysetAssumption
  <2> QED  BY <2>1 DEF Init, TypeOK
<1> QED  BY <1>1 DEF Init, ScanInv, CursorIsLast, CursorIsThere, PagesGoForward, StayedIsAhead, Seen

\* Page: what it shows comes after the old cursor, and all it leaves out after
\* the new one.
LEMMA PageInv ==
    ASSUME ScanInv, NEW q \in Queries, Page(q)
    PROVE  ScanInv'
<1> DEFINE order == Order(q)
<1> USE DEF ScanInv
<1>1. PICK fetched, kept :
        LET last == LastOf(order, kept)
            more == Cardinality(fetched) > q.size
        IN  /\ fetched \in Limited(order, Selected(q), q.size + 1)
            /\ kept \in Kept(order, fetched, q)
            /\ query' = IF query = NoQuery THEN q ELSE query
            /\ page' = kept
            /\ returned' = returned \cup page
            /\ cursor' = IF more THEN [query |-> q, tuple |-> Tuple(order, last)] ELSE NoCursor
            /\ ended' = ~more
            /\ stayed' = IF query = NoQuery THEN Present ELSE stayed
            /\ UNCHANGED <<table, writes>>
  BY DEF Page, LastOf
<1> DEFINE last == LastOf(order, kept)
           more == Cardinality(fetched) > q.size
<1>2. /\ kept \subseteq Selected(q)
      /\ Cardinality(kept) <= q.size
      /\ more => last \in kept /\ \A p \in kept : p = last \/ Before(order, p, last)
      /\ \A r \in Selected(q) \ kept : more /\ Before(order, last, r)
  BY <1>1, PageCutsOff
<1>3. order \in Seq(Terms) /\ kept \subseteq Rows /\ Seen \subseteq Rows
  BY <1>2, OrderType, SelectedType DEF TypeOK, Seen
<1>4. /\ query' = q
      /\ query # NoQuery => cursor # NoCursor /\ query = q
      /\ q # NoQuery
  <2>1. ~ended /\ Valid(q) /\ q # NoQuery
    BY KeysetAssumption DEF Page
  <2>2. query # NoQuery => cursor # NoCursor
    BY <2>1 DEF CursorIsThere
  <2>3. cursor # NoCursor => query = q
    BY <2>1 DEF Valid, CursorIsLast
  <2> QED  BY <1>1, <2>1, <2>2, <2>3
<1>5. query = NoQuery => Seen = {} /\ stayed = {} /\ cursor = NoCursor
  BY <1>4, KeysetAssumption DEF CursorIsThere, CursorIsLast
<1>6. Seen' = Seen \cup kept
  BY <1>1 DEF Seen
<1>7. ASSUME NEW r \in kept, NEW p \in Seen
      PROVE  Before(order, p, r)
  <2>1. query = q /\ cursor # NoCursor
    BY <1>4, <1>5, <1>7
  <2>2. PICK old \in page : /\ cursor.tuple = Tuple(order, old)
                            /\ \A s \in Seen : s = old \/ Before(order, s, old)
    BY <2>1 DEF CursorIsLast
  <2>3. r \in Rows /\ p \in Rows /\ old \in Rows
    BY <1>3, <2>2 DEF Seen
  <2>4. Continues(order, cursor.tuple, r)
    BY <1>2, <2>1, SelectedType
  <2>5. Before(order, old, r)
    BY <1>3, <2>2, <2>3, <2>4, ContinuesIsBefore
  <2> QED  BY <1>3, <2>2, <2>3, <2>5, BeforeTransitive
<1>8. more => /\ Tuple(order, last) \in Seq(Values \cup Keys \cup {Null})
              /\ cursor' = [query |-> q, tuple |-> Tuple(order, last)]
              /\ cursor' \in Cursors /\ cursor' # NoCursor
  <2> SUFFICES ASSUME more
               PROVE  /\ Tuple(order, last) \in Seq(Values \cup Keys \cup {Null})
                      /\ cursor' = [query |-> q, tuple |-> Tuple(order, last)]
                      /\ cursor' \in Cursors /\ cursor' # NoCursor
    OBVIOUS
  <2>1. last \in Rows
    BY <1>2, <1>3
  <2>2. \A i \in 1 .. Len(order) : order[i] \in Terms
    BY <1>3
  <2>3. \A i \in 1 .. Len(order) : last[order[i].field] \in Values \cup Keys \cup {Null}
    BY <2>1, <2>2 DEF Rows, Terms
  <2> HIDE DEF order, last
  <2>4. Tuple(order, last) \in Seq(Values \cup Keys \cup {Null})
    <3>1. DOMAIN order = 1 .. Len(order) /\ Len(order) \in Nat
      BY <1>3
    <3>2. Tuple(order, last) \in [1 .. Len(order) -> Values \cup Keys \cup {Null}]
      BY <2>3, <3>1 DEF Tuple
    <3> QED  BY <3>1, <3>2
  <2>5. cursor' = [query |-> q, tuple |-> Tuple(order, last)]
    BY <1>1 DEF order, last, more
  <2> QED  BY <2>4, <2>5, KeysetAssumption DEF Cursors
<1>9. ~more => cursor' = NoCursor
  BY <1>1
<1>11. ended' = ~more
  BY <1>1
<1> HIDE DEF last, more, order
<1>12. TypeOK'
  <2>1. /\ table' \in Tables /\ writes' \in 0 .. MaxWrites
        /\ ended' \in BOOLEAN /\ stayed' \subseteq Keys
    BY <1>1, <1>11 DEF TypeOK, Present, more
  <2>2. page' \subseteq Rows /\ returned' \subseteq Rows
    BY <1>1, <1>3 DEF Seen
  <2>3. Cardinality(page') <= query'.size
    BY <1>1, <1>2, <1>4
  <2>4. cursor' \in Cursors \cup {NoCursor}
    BY <1>8, <1>9
  <2> QED  BY <1>4, <2>1, <2>2, <2>3, <2>4 DEF TypeOK
<1>13. CursorIsLast'
  <2> SUFFICES ASSUME more
               PROVE  /\ query' \in Queries
                      /\ cursor'.query = query'
                      /\ ~ended'
                      /\ \E l \in page' : /\ cursor'.tuple = Tuple(Order(query'), l)
                                          /\ \A p \in Seen' : p = l \/ Before(Order(query'), p, l)
    BY <1>9 DEF CursorIsLast
  <2>1. cursor'.query = q /\ cursor'.tuple = Tuple(order, last) /\ ~ended'
    <3>1. cursor' = [query |-> q, tuple |-> Tuple(order, last)]
      BY <1>8
    <3>2. cursor'.query = q /\ cursor'.tuple = Tuple(order, last)
      BY <3>1
    <3> QED  BY <1>11, <3>2
  <2>2. last \in page' /\ \A p \in Seen' : p = last \/ Before(order, p, last)
    BY <1>1, <1>2, <1>6, <1>7
  <2> QED  BY <1>4, <2>1, <2>2 DEF order
<1>14. CursorIsThere'
  BY <1>4, <1>8, <1>11 DEF CursorIsThere
<1>15. PagesGoForward'
  BY <1>1, <1>4, <1>7 DEF PagesGoForward, Seen, order
<1>16. StayedIsAhead'
  <2> SUFFICES ASSUME NEW k \in stayed'
               PROVE  /\ table[k] # Absent
                      /\ \/ Row(k) \in Seen'
                         \/ cursor' # NoCursor /\ Continues(order, cursor'.tuple, Row(k))
    BY <1>1, <1>4 DEF StayedIsAhead, Row, order
  <2>1. /\ k \in Present
        /\ \/ Row(k) \in Seen
           \/ cursor # NoCursor => Continues(order, cursor.tuple, Row(k))
    <3>1. CASE query = NoQuery
      BY <1>1, <1>5, <3>1
    <3>2. CASE query # NoQuery
      BY <1>1, <1>4, <3>2 DEF StayedIsAhead, Present, TypeOK, order
    <3> QED  BY <3>1, <3>2
  <2>2. CASE Row(k) \in Seen
    BY <1>6, <2>1, <2>2 DEF Present
  <2>3. CASE Row(k) \notin Seen
    <3>1. Row(k) \in Selected(q)
      BY <2>1, <2>3, SelectedType DEF order
    <3>2. CASE Row(k) \in kept
      BY <1>6, <2>1, <3>2 DEF Present
    <3>3. CASE Row(k) \notin kept
      <4>1. more /\ Before(order, last, Row(k))
        BY <1>2, <3>1, <3>3
      <4>2. last \in Rows /\ Row(k) \in Rows
        BY <1>2, <1>3, <3>1, <4>1, SelectedType
      <4>3. Continues(order, Tuple(order, last), Row(k))
        BY <1>3, <4>1, <4>2, ContinuesIsBefore
      <4> QED  BY <1>8, <2>1, <4>1, <4>3 DEF Present
    <3> QED  BY <3>2, <3>3
  <2> QED  BY <2>2, <2>3
<1> QED  BY <1>12, <1>13, <1>14, <1>15, <1>16

\* Write: rows that others write are no longer among those that stayed.
LEMMA WriteInv ==
    ASSUME ScanInv, NEW k \in Keys, NEW content \in Contents \cup {Absent}, Write(k, content)
    PROVE  ScanInv'
<1> USE DEF ScanInv
<1>1. /\ UNCHANGED <<query, cursor, page, returned, ended>>
      /\ stayed' = stayed \ {k}
      /\ table' = [table EXCEPT ![k] = content]
      /\ query # NoQuery
      /\ table \in Tables
  BY DEF Write, TypeOK
<1>2. TypeOK'
  <2>1. writes' \in 0 .. MaxWrites
    BY KeysetAssumption DEF Write, TypeOK
  <2>2. table' \in Tables
    BY <1>1 DEF Tables
  <2> QED  BY <1>1, <2>1, <2>2 DEF TypeOK
<1>3. CursorIsLast' /\ CursorIsThere' /\ PagesGoForward'
  BY <1>1 DEF CursorIsLast, CursorIsThere, PagesGoForward, Seen
<1>4. StayedIsAhead'
  <2> SUFFICES ASSUME NEW j \in stayed'
               PROVE  (/\ table[j] # Absent
                       /\ \/ Row(j) \in Seen
                          \/ cursor # NoCursor /\ Continues(Order(query), cursor.tuple, Row(j)))'
    BY DEF StayedIsAhead
  <2>1. j \in stayed /\ table'[j] = table[j]
    BY <1>1 DEF Tables, TypeOK
  <2>2. Row(j)' = Row(j)
    BY <2>1 DEF Row
  <2> QED  BY <1>1, <2>1, <2>2 DEF StayedIsAhead, Seen
<1> QED  BY <1>2, <1>3, <1>4

\* Every step preserves the invariant.
LEMMA NextScan == ScanInv /\ [Next]_vars => ScanInv'
<1> SUFFICES ASSUME ScanInv, [Next]_vars
             PROVE  ScanInv'
  OBVIOUS
<1>1. ASSUME NEW q \in Queries, Page(q)
      PROVE  ScanInv'
  BY <1>1, PageInv
<1>2. ASSUME NEW k \in Keys, NEW content \in Contents \cup {Absent}, Write(k, content)
      PROVE  ScanInv'
  BY <1>2, WriteInv
<1>3. CASE UNCHANGED vars
  BY <1>3 DEF vars, ScanInv, TypeOK, CursorIsLast, CursorIsThere, PagesGoForward, StayedIsAhead,
              Seen, Row
<1> QED  BY <1>1, <1>2, <1>3 DEF Next

\* The strengthened invariant of pagination always holds.
LEMMA ScanInvariant == Spec => []ScanInv
BY InitScan, NextScan, PTL DEF Spec

-----------------------------------------------------------------------------
(* Pages: the theorems                                                     *)

\* Type correctness of the scan.
THEOREM PagesAreTyped == Spec => []TypeOK
<1>1. ScanInv => TypeOK
  BY DEF ScanInv
<1> QED  BY ScanInvariant, <1>1, PTL

\* normalize_result and _keyset: no page holds a row that sorts before, or with,
\* a row of an earlier page.
THEOREM PagesNeverGoBack == Spec => []PagesGoForward
<1>1. ScanInv => PagesGoForward
  BY DEF ScanInv
<1> QED  BY ScanInvariant, <1>1, PTL

\* When a page comes without a cursor, every row that was there unchanged since
\* the first page has been returned.
THEOREM NoRowIsSkipped == Spec => []StayedIsReturned
<1>1. ScanInv => StayedIsReturned
  BY DEF ScanInv, CursorIsLast, StayedIsAhead, StayedIsReturned, Seen
<1> QED  BY ScanInvariant, <1>1, PTL

-----------------------------------------------------------------------------
(* Traversals: paths                                                       *)

\* One edge more makes a path when it joins the end and its record is new.
LEMMA PathExtends ==
    ASSUME NEW w \in Seq(Edges), NEW e \in Edges, IsPath(w), e.from = End(w), New(w, e.to)
    PROVE  /\ Append(w, e) \in Seq(Edges)
           /\ Len(Append(w, e)) = Len(w) + 1
           /\ IsPath(Append(w, e))
<1> DEFINE v == Append(w, e)
<1>1. /\ v \in Seq(Edges) /\ Len(v) = Len(w) + 1 /\ Len(w) \in Nat
      /\ v[Len(w) + 1] = e /\ \A i \in 1 .. Len(w) : v[i] = w[i]
  OBVIOUS
<1> HIDE DEF v
<1>2. v # <<>> /\ (w = <<>> <=> Len(w) = 0)
  BY <1>1
<1>3. v[1].from = Origin
  BY <1>1, <1>2 DEF End, IsPath
<1>4. \A i \in 2 .. Len(v) : v[i].from = v[i - 1].to
  <2>1. ASSUME NEW i \in 2 .. Len(v), i <= Len(w)
        PROVE  v[i].from = v[i - 1].to
    BY <1>1, <2>1 DEF IsPath
  <2>2. ASSUME NEW i \in 2 .. Len(v), i = Len(w) + 1
        PROVE  v[i].from = v[i - 1].to
    BY <1>1, <1>2, <2>2 DEF End
  <2> QED  BY <1>1, <2>1, <2>2
<1>5. \A i \in 1 .. Len(w) : e.to # w[i].to
  BY DEF New, Path
<1>6. e.to # Origin
  BY DEF New, Path
<1>7. \A i \in 1 .. Len(v) : v[i].to # Origin
  BY <1>1, <1>6 DEF IsPath
<1>8. \A i \in 1 .. Len(v) : \A j \in 1 .. i - 1 : v[i].to # v[j].to
  <2>1. ASSUME NEW i \in 1 .. Len(v), NEW j \in 1 .. i - 1, i <= Len(w)
        PROVE  v[i].to # v[j].to
    BY <1>1, <2>1 DEF IsPath
  <2>2. ASSUME NEW i \in 1 .. Len(v), NEW j \in 1 .. i - 1, i = Len(w) + 1
        PROVE  v[i].to # v[j].to
    BY <1>1, <1>5, <2>2
  <2> QED  BY <1>1, <2>1, <2>2
<1> QED  BY <1>1, <1>3, <1>4, <1>7, <1>8 DEF IsPath, v

\* The beginning of a path is a path.
LEMMA PathPrefix ==
    ASSUME NEW w \in Seq(Edges), IsPath(w), NEW n \in 0 .. Len(w)
    PROVE  /\ SubSeq(w, 1, n) \in Seq(Edges)
           /\ Len(SubSeq(w, 1, n)) = n
           /\ IsPath(SubSeq(w, 1, n))
<1> DEFINE v == SubSeq(w, 1, n)
<1>1. v \in Seq(Edges) /\ Len(v) = n /\ n \in Nat /\ n <= Len(w)
      /\ \A i \in 1 .. n : v[i] = w[i]
  OBVIOUS
<1> HIDE DEF v
<1>2. v # <<>> => v[1].from = Origin
  BY <1>1 DEF IsPath
<1>3. \A i \in 2 .. Len(v) : v[i].from = v[i - 1].to
  BY <1>1 DEF IsPath
<1>4. \A i \in 1 .. Len(v) : v[i].to # Origin
  BY <1>1 DEF IsPath
<1>5. \A i \in 1 .. Len(v) : \A j \in 1 .. i - 1 : v[i].to # v[j].to
  BY <1>1 DEF IsPath
<1> QED  BY <1>1, <1>2, <1>3, <1>4, <1>5 DEF IsPath, v

\* A path that is not empty is the extension of a path by its last edge.
LEMMA PathEndsWithEdge ==
    ASSUME NEW w \in Seq(Edges), IsPath(w), Len(w) > 0
    PROVE  \E v \in Seq(Edges), e \in Edges :
               /\ IsPath(v) /\ Len(v) = Len(w) - 1
               /\ e.from = End(v) /\ New(v, e.to)
               /\ w = Append(v, e)
<1>1. PICK n \in Nat : n + 1 = Len(w) /\ n \in 0 .. Len(w)
  <2>1. Len(w) \in Nat
    OBVIOUS
  <2> WITNESS Len(w) - 1 \in Nat
  <2> QED  BY <2>1
<1>2. PICK v \in Seq(Edges) : Len(v) = n /\ IsPath(v) /\ \A i \in 1 .. n : v[i] = w[i]
  <2>1. \A i \in 1 .. n : SubSeq(w, 1, n)[i] = w[i]
    BY <1>1
  <2> QED  BY <1>1, <2>1, PathPrefix
<1>3. PICK e \in Edges : e = w[n + 1]
  BY <1>1
<1>4. w = Append(v, e)
  <2>1. Append(v, e) \in Seq(Edges) /\ Len(Append(v, e)) = Len(w)
        /\ \A i \in 1 .. n : Append(v, e)[i] = v[i]
        /\ Append(v, e)[n + 1] = e
    BY <1>1, <1>2, <1>3
  <2>2. \A i \in 1 .. Len(w) : w[i] = Append(v, e)[i]
    BY <1>1, <1>2, <1>3, <2>1
  <2> QED  BY <2>1, <2>2, SeqEqual
<1>5. e.from = End(v)
  <2>1. CASE n = 0
    BY <1>1, <1>2, <1>3, <2>1 DEF IsPath, End
  <2>2. CASE n # 0
    <3>1. v # <<>> /\ v[Len(v)] = w[n]
      BY <1>2, <2>2
    <3>2. w[n + 1].from = w[n + 1 - 1].to
      BY <1>1, <2>2 DEF IsPath
    <3>3. n + 1 - 1 = n
      OBVIOUS
    <3> QED  BY <1>3, <3>1, <3>2, <3>3 DEF End
  <2> QED  BY <2>1, <2>2
<1>6. New(v, e.to)
  <2>1. e.to # Origin
    BY <1>1, <1>3 DEF IsPath
  <2>2. \A j \in 1 .. n : e.to # w[j].to
    BY <1>1, <1>3 DEF IsPath
  <2> QED  BY <1>2, <2>1, <2>2 DEF New, Path
<1> QED  BY <1>1, <1>2, <1>3, <1>4, <1>5, <1>6
-----------------------------------------------------------------------------
(* Traversals: finiteness                                                  *)

\* The rows of a scope are finitely many, and so are the edges.
LEMMA EdgesAreFinite ==
    ASSUME TraversalTypeOK
    PROVE  IsFiniteSet(Edges) /\ Edges \subseteq Edge
<1> DEFINE F == [r \in rows |-> Forward(r)]
           R == [r \in rows |-> Reverse(r)]
           Forwards == {Forward(r) : r \in rows}
           Reverses == {Reverse(r) : r \in rows}
<1>1. IsFiniteSet(rows)
  BY TraversalAssumption, FS_Subset DEF TraversalTypeOK
<1>2. F \in Surjection(rows, Forwards) /\ R \in Surjection(rows, Reverses)
  BY DEF Surjection
<1>3. IsFiniteSet(Forwards) /\ IsFiniteSet(Reverses)
  BY <1>1, <1>2, FS_Surjection
<1>4. Edges \subseteq Forwards \cup Reverses
  BY DEF Edges, EdgesOf
<1>5. IsFiniteSet(Edges)
  BY <1>3, <1>4, FS_Union, FS_Subset
<1>6. rows \subseteq RelationRows
  BY TraversalAssumption DEF TraversalTypeOK
<1>7. \A r \in RelationRows : Forward(r) \in Edge /\ Reverse(r) \in Edge
  BY DEF RelationRows, Edge, Forward, Reverse
<1> QED  BY <1>4, <1>5, <1>6, <1>7

\* An iteration adds finitely many walks.
LEMMA ExtensionsAreFinite ==
    ASSUME TraversalTypeOK, NEW S, IsFiniteSet(S)
    PROVE  IsFiniteSet(Extensions(S))
<1> DEFINE Pairs == S \X Edges
           Joined == {Append(p[1], p[2]) : p \in Pairs}
           J == [p \in Pairs |-> Append(p[1], p[2])]
<1>1. IsFiniteSet(Pairs)
  BY EdgesAreFinite, FS_Product
<1>2. J \in Surjection(Pairs, Joined)
  BY DEF Surjection
<1>3. IsFiniteSet(Joined)
  BY <1>1, <1>2, FS_Surjection
<1>4. Extensions(S) \subseteq Joined
  <2>1. ASSUME NEW w \in S, NEW e \in Edges
        PROVE  Append(w, e) \in Joined
    <3>1. <<w, e>> \in Pairs
      OBVIOUS
    <3>2. Append(<<w, e>>[1], <<w, e>>[2]) \in Joined
      BY ONLY <3>1, Zenon
    <3> QED  BY <3>2
  <2> HIDE DEF Joined
  <2>2. ASSUME NEW v \in Extensions(S)
        PROVE  \E w \in S, e \in Edges : v = Append(w, e)
    BY <2>2 DEF Extensions
  <2> QED  BY <2>1, <2>2
<1> QED  BY <1>3, <1>4, FS_Subset

-----------------------------------------------------------------------------
(* Traversals: the inductive invariant                                     *)

Walking == phase \in {"walking", "answered"}

\* The recursive table holds the paths of the iterations so far, and the working
\* table the longest of them.
WalkSoFar ==
    /\ Walking =>
          /\ walk = {w \in Seq(Edges) : IsPath(w) /\ Len(w) <= level /\ Len(w) <= traversal.max}
          /\ working = {w \in walk : Len(w) = level}
    /\ phase = "answered" => working = {}
    /\ phase # "answered" => answer = {}

WalkInv == TraversalTypeOK /\ IsFiniteSet(walk) /\ WalkSoFar

\* An iteration finds the paths that are one edge longer than those before it.
LEMMA ExtensionsAreExact ==
    ASSUME WalkInv, Walking
    PROVE  Extensions(working) =
               {w \in Seq(Edges) : IsPath(w) /\ Len(w) = level + 1 /\ Len(w) <= traversal.max}
<1>1. traversal.max \in Nat /\ level \in Nat
  BY TraversalAssumption DEF WalkInv, TraversalTypeOK, Query
<1>2. working = {w \in Seq(Edges) : IsPath(w) /\ Len(w) = level /\ Len(w) <= traversal.max}
  BY <1>1 DEF WalkInv, WalkSoFar
<1>3. ASSUME NEW w \in Extensions(working)
      PROVE  w \in Seq(Edges) /\ IsPath(w) /\ Len(w) = level + 1 /\ Len(w) <= traversal.max
  <2>1. PICK v \in working, e \in Edges :
            Len(v) < traversal.max /\ e.from = End(v) /\ New(v, e.to) /\ w = Append(v, e)
    BY <1>3 DEF Extensions
  <2> QED  BY <1>1, <1>2, <2>1, PathExtends
<1>4. ASSUME NEW w \in Seq(Edges), IsPath(w), Len(w) = level + 1, Len(w) <= traversal.max
      PROVE  w \in Extensions(working)
  <2>1. PICK v \in Seq(Edges), e \in Edges :
            /\ IsPath(v) /\ Len(v) = Len(w) - 1
            /\ e.from = End(v) /\ New(v, e.to)
            /\ w = Append(v, e)
    BY <1>1, <1>4, PathEndsWithEdge
  <2>2. v \in working /\ Len(v) < traversal.max
    BY <1>1, <1>2, <1>4, <2>1
  <2> QED  BY <2>1, <2>2 DEF Extensions
<1> QED  BY <1>3, <1>4

\* The only path without an edge is the empty one.
LEMMA EmptyPath ==
    \A w \in Seq(Edges) : (IsPath(w) /\ Len(w) <= 0) <=> w = <<>>
<1>1. IsPath(<<>>)
  BY DEF IsPath
<1>2. ASSUME NEW w \in Seq(Edges), Len(w) <= 0
      PROVE  w = <<>>
  BY <1>2
<1>3. Len(<<>>) = 0
  OBVIOUS
<1> QED  BY <1>1, <1>2, <1>3
\* The initial states satisfy the invariant.
LEMMA InitWalk == TraversalInit => WalkInv
<1> SUFFICES ASSUME TraversalInit
             PROVE  WalkInv
  OBVIOUS
<1>1. IsFiniteSet(walk) /\ IsFiniteSet(answer) /\ Cardinality(answer) = 0
  BY FS_EmptySet DEF TraversalInit
<1>2. 0 <= PageSize
  BY TraversalAssumption
<1>3. TraversalTypeOK
  BY <1>1, <1>2 DEF TraversalInit, TraversalTypeOK
<1>4. WalkSoFar
  BY DEF TraversalInit, WalkSoFar, Walking
<1> QED  BY <1>1, <1>3, <1>4 DEF WalkInv

\* A step before the statement runs, or after, keeps what is known of the walk.
LEMMA RequestSteps ==
    ASSUME WalkInv, (~Walking /\ ~Walking') \/ UNCHANGED <<rows, traversal, closure, phase>>,
           UNCHANGED <<walk, working, level, answer>>
    PROVE  WalkSoFar' /\ IsFiniteSet(walk)'
<1>1. CASE ~Walking /\ ~Walking'
  BY <1>1 DEF WalkInv, WalkSoFar, Walking
<1>2. CASE UNCHANGED <<rows, traversal, closure, phase>>
  <2>1. Edges' = Edges /\ \A w : IsPath(w)' <=> IsPath(w)
    BY <1>2 DEF Edges, EdgesOf, IsPath, Origin
  <2> QED  BY <1>2, <2>1 DEF WalkInv, WalkSoFar, Walking
<1> QED  BY <1>1, <1>2

\* Every step of the program keeps the invariant.
LEMMA NextWalk == WalkInv /\ [TraversalNext]_traversalVars => WalkInv'
<1> SUFFICES ASSUME WalkInv, [TraversalNext]_traversalVars
             PROVE  WalkInv'
  OBVIOUS
<1> USE DEF WalkInv
<1>1. ASSUME NEW c \in Collections, Register(c)
      PROVE  WalkInv'
  <2>1. TraversalTypeOK'
    BY <1>1 DEF Register, TraversalTypeOK, statement
  <2> QED  BY <1>1, <2>1, RequestSteps DEF Register, statement
<1>2. CASE Resolve
  <2>1. TraversalTypeOK'
    BY <1>2, TraversalAssumption DEF Resolve, TraversalTypeOK, statement, Query
  <2>2. ~Walking /\ ~Walking'
    BY <1>2 DEF Resolve, Walking
  <2> QED  BY <1>2, <2>1, <2>2, RequestSteps DEF Resolve, statement
<1>3. CASE Refuse
  <2>1. TraversalTypeOK'
    BY <1>3 DEF Refuse, TraversalTypeOK, statement
  <2>2. ~Walking /\ ~Walking'
    BY <1>3 DEF Refuse, Walking
  <2> QED  BY <1>3, <2>1, <2>2, RequestSteps DEF Refuse, statement
<1>4. CASE Start
  <2>1. /\ walk' = {<<>>} /\ working' = {<<>>} /\ level' = 0 /\ phase' = "walking"
        /\ UNCHANGED <<rows, traversal, registry, closure, resolved, answer>>
        /\ requested' = registry
    BY <1>4 DEF Start
  <2>2. traversal.max \in Nat
    BY TraversalAssumption DEF TraversalTypeOK, Query
  <2>3. IsFiniteSet(walk)'
    BY <2>1, FS_Singleton
  <2>4. answer = {}
    BY <1>4 DEF Start, WalkSoFar
  <2>5. WalkSoFar'
    <3>1. Edges' = Edges /\ \A w : IsPath(w)' <=> IsPath(w)
      BY <2>1 DEF Edges, EdgesOf, IsPath, Origin
    <3>2. <<>> \in Seq(Edges) /\ Len(<<>>) = 0
      OBVIOUS
    <3>3. {<<>>} = {w \in Seq(Edges) : IsPath(w) /\ Len(w) <= 0 /\ Len(w) <= traversal.max}
      <4>1. \A w \in Seq(Edges) : IsPath(w) /\ Len(w) <= 0 /\ Len(w) <= traversal.max <=> w = <<>>
        BY <2>2, <3>2, EmptyPath
      <4> QED  BY <3>2, <4>1
    <3>4. {<<>>} = {w \in {<<>>} : Len(w) = 0}
      BY <3>2
    <3> QED  BY <2>1, <2>4, <3>1, <3>3, <3>4 DEF WalkSoFar, Walking
  <2>6. TraversalTypeOK'
    <3>1. <<>> \in Seq(Edge)
      OBVIOUS
    <3> QED  BY <2>1, <2>4, <3>1 DEF TraversalTypeOK
  <2> QED  BY <2>3, <2>5, <2>6
<1>5. CASE Iterate
  <2>1. /\ walk' = walk \cup Extensions(working) /\ working' = Extensions(working)
        /\ level' = level + 1 /\ phase = "walking"
        /\ UNCHANGED <<rows, traversal, registry, closure, resolved, requested, phase, answer>>
    BY <1>5 DEF Iterate, request
  <2>2. traversal.max \in Nat /\ level \in Nat
    BY TraversalAssumption DEF TraversalTypeOK, Query
  <2>3. Extensions(working) =
            {w \in Seq(Edges) : IsPath(w) /\ Len(w) = level + 1 /\ Len(w) <= traversal.max}
    BY <2>1, ExtensionsAreExact DEF Walking
  <2>4. IsFiniteSet(walk)'
    <3>1. IsFiniteSet(working)
      BY FS_Subset DEF TraversalTypeOK
    <3> QED  BY <2>1, <3>1, ExtensionsAreFinite, FS_Union
  <2>5. TraversalTypeOK'
    <3>1. Extensions(working) \subseteq Seq(Edge)
      BY <2>3, EdgesAreFinite, SeqMonotonic
    <3> QED  BY <2>1, <2>2, <3>1 DEF TraversalTypeOK
  <2>6. WalkSoFar'
    <3>1. Edges' = Edges /\ \A w : IsPath(w)' <=> IsPath(w)
      BY <2>1 DEF Edges, EdgesOf, IsPath, Origin
    <3>2. walk = {w \in Seq(Edges) : IsPath(w) /\ Len(w) <= level /\ Len(w) <= traversal.max}
      BY <2>1 DEF WalkSoFar, Walking
    <3>3. walk' = {w \in Seq(Edges) : IsPath(w) /\ Len(w) <= level + 1 /\ Len(w) <= traversal.max}
      BY <2>1, <2>2, <2>3, <3>2
    <3>4. working' = {w \in walk' : Len(w) = level + 1}
      BY <2>1, <2>2, <2>3, <3>3
    <3> QED  BY <2>1, <3>1, <3>3, <3>4 DEF WalkSoFar, Walking
  <2> QED  BY <2>4, <2>5, <2>6
<1>6. CASE Answer
  <2>1. /\ phase = "walking" /\ working = {} /\ answer' \in SUBSET Candidates
        /\ Cardinality(answer') = Least(PageRows, Cardinality(Candidates))
        /\ phase' = "answered"
        /\ UNCHANGED <<rows, traversal, registry, closure, resolved, requested,
                       walk, working, level>>
    BY <1>6 DEF Answer, request
  <2>2. Candidates \subseteq walk /\ Cardinality(Candidates) \in Nat
    BY FS_Subset, FS_CardinalityType DEF Candidates
  <2>3. Cardinality(answer') <= PageSize
    BY <2>1, <2>2, TraversalAssumption DEF Least, PageRows
  <2>4. TraversalTypeOK'
    BY <2>1, <2>2, <2>3 DEF TraversalTypeOK
  <2>5. WalkSoFar'
    <3>1. Edges' = Edges /\ \A w : IsPath(w)' <=> IsPath(w)
      BY <2>1 DEF Edges, EdgesOf, IsPath, Origin
    <3> QED  BY <2>1, <3>1 DEF WalkSoFar, Walking
  <2> QED  BY <2>1, <2>4, <2>5
<1>7. CASE UNCHANGED traversalVars
  <2>1. TraversalTypeOK'
    BY <1>7 DEF traversalVars, request, statement, TraversalTypeOK
  <2> QED  BY <1>7, <2>1, RequestSteps DEF traversalVars, request, statement
<1> QED  BY <1>1, <1>2, <1>3, <1>4, <1>5, <1>6, <1>7 DEF TraversalNext

-----------------------------------------------------------------------------
(* Traversals: the theorems                                                *)

\* Every state of every instance is well typed: in particular no answer is longer
\* than its page.
THEOREM TraversalIsTyped == TraversalSpec => []TraversalTypeOK
<1>1. WalkInv => TraversalTypeOK
  BY DEF WalkInv
<1> QED  BY <1>1, InitWalk, NextWalk, PTL DEF TraversalSpec

\* When an iteration finds nothing there is nothing left to find: a longer path
\* would begin with one of that iteration's.
LEMMA WalkIsComplete == WalkInv => WalkIsExact
<1> SUFFICES ASSUME WalkInv, phase = "answered"
             PROVE  walk = {w \in SequencesUpTo(traversal.max) : IsPath(w)}
  BY DEF WalkIsExact
<1>1. traversal.max \in Nat /\ level \in Nat
  BY TraversalAssumption DEF WalkInv, TraversalTypeOK, Query
<1>2. /\ walk = {w \in Seq(Edges) : IsPath(w) /\ Len(w) <= level /\ Len(w) <= traversal.max}
      /\ \A w \in walk : Len(w) # level
  BY DEF WalkInv, WalkSoFar, Walking
<1>3. ASSUME NEW w \in Seq(Edges), IsPath(w), Len(w) <= traversal.max, Len(w) > level
      PROVE  FALSE
  <2>1. level \in 0 .. Len(w) /\ level <= traversal.max
    BY <1>1, <1>3
  <2>2. PICK v \in Seq(Edges) : IsPath(v) /\ Len(v) = level
    BY <1>3, <2>1, PathPrefix
  <2>3. v \in walk
    BY <1>1, <1>2, <2>1, <2>2
  <2> QED  BY <1>2, <2>2, <2>3
<1>4. \A w : w \in SequencesUpTo(traversal.max) <=> w \in Seq(Edges) /\ Len(w) <= traversal.max
  <2>1. ASSUME NEW w \in Seq(Edges), Len(w) <= traversal.max
        PROVE  w \in SequencesUpTo(traversal.max)
    <3>1. Len(w) \in 0 .. traversal.max /\ w \in [1 .. Len(w) -> Edges]
      BY <1>1, <2>1, LenProperties
    <3> QED  BY <3>1 DEF SequencesUpTo
  <2>2. ASSUME NEW w \in SequencesUpTo(traversal.max)
        PROVE  w \in Seq(Edges) /\ Len(w) <= traversal.max
    <3>1. PICK k \in 0 .. traversal.max : w \in [1 .. k -> Edges]
      BY <2>2 DEF SequencesUpTo
    <3> QED  BY <1>1, <3>1
  <2> QED  BY <2>1, <2>2
<1> QED  BY <1>1, <1>2, <1>3, <1>4

\* The recursion ends with all the paths of at most maxDepth edges and no others,
\* for any relation rows of any directions.
THEOREM TraversalIsExact == TraversalSpec => []WalkIsExact
BY WalkIsComplete, InitWalk, NextWalk, PTL DEF TraversalSpec

-----------------------------------------------------------------------------
(* Traversals: distances                                                   *)

\* The edges over the Relation Collections of the request.
ReachEdges == EdgesOf(IF traversal.all THEN requested ELSE traversal.relations)

\* The records of X and those one edge beyond.
Beyond(X) == X \cup {e.to : e \in {f \in ReachEdges : f.from \in X}}

\* Reach satisfies the recursion that defines it.
LEMMA ReachUnfolds ==
    ASSUME traversal.max \in Nat
    PROVE  /\ Reach[0] = {traversal.start}
           /\ \A n \in 1 .. traversal.max : Reach[n] = Beyond(Reach[n - 1])
<1> DEFINE Def(g, n) ==
        IF n = 0 THEN {traversal.start}
        ELSE g[n - 1] \cup {e.to : e \in {f \in ReachEdges : f.from \in g[n - 1]}}
           F(g, m) == [n \in 0 .. m |-> Def(g, n)]
           S == {m \in Nat : \E g : g = F(g, m)}
<1>1. 0 \in S
  <2> DEFINE g == [n \in 0 .. 0 |-> {traversal.start}]
  <2>1. \A n \in 0 .. 0 : n = 0
    OBVIOUS
  <2>2. g = F(g, 0)
    BY <2>1
  <2>3. \E f : f = F(f, 0)
    BY <2>2
  <2> HIDE DEF F
  <2> QED  BY <2>3
<1>2. ASSUME NEW m \in Nat, m \in S
      PROVE  m + 1 \in S
  <2>0. PICK g : g = F(g, m)
    BY <1>2
  <2>1. \A n \in 0 .. m : g[n] = Def(g, n)
    <3>1. \A n \in 0 .. m : F(g, m)[n] = Def(g, n)
      OBVIOUS
    <3> HIDE DEF F
    <3> QED  BY <2>0, <3>1
  <2> DEFINE h == [n \in 0 .. m + 1 |-> IF n <= m THEN g[n] ELSE Def(g, n)]
  <2>2. ASSUME NEW n \in 0 .. m + 1
        PROVE  h[n] = Def(h, n)
    <3>1. h[n] = Def(g, n)
      <4>1. h[n] = IF n <= m THEN g[n] ELSE Def(g, n)
        BY Zenon
      <4>2. n <= m => n \in 0 .. m
        OBVIOUS
      <4> HIDE DEF h, Def
      <4> QED  BY <2>1, <4>1, <4>2
    <3>2. n # 0 => h[n - 1] = g[n - 1]
      OBVIOUS
    <3> HIDE DEF h
    <3> QED  BY <3>1, <3>2
  <2>3. h = F(h, m + 1)
    BY <2>2
  <2>4. \E f : f = F(f, m + 1)
    BY <2>3
  <2> HIDE DEF F
  <2> QED  BY <2>4
<1>3. \E g : g = F(g, traversal.max)
  <2>1. traversal.max \in S
    BY <1>1, <1>2, NaturalSteps
  <2> HIDE DEF F
  <2> QED  BY <2>1
<1>4. Reach = CHOOSE g : g = F(g, traversal.max)
  BY Zenon DEF Reach, ReachEdges
<1>5. Reach = F(Reach, traversal.max)
  BY <1>3, <1>4, Zenon
<1>6. \A n \in 0 .. traversal.max : F(Reach, traversal.max)[n] = Def(Reach, n)
  OBVIOUS
<1> HIDE DEF F
<1>7. \A n \in 0 .. traversal.max : Reach[n] = Def(Reach, n)
  BY <1>5, <1>6
<1>8. ASSUME NEW n \in 1 .. traversal.max
      PROVE  Reach[n] = Beyond(Reach[n - 1])
  <2>1. n \in 0 .. traversal.max /\ n # 0
    OBVIOUS
  <2>2. Reach[n] = Def(Reach, n)
    BY <1>7, <2>1
  <2> QED  BY <2>1, <2>2, Zenon DEF Beyond
<1>9. 0 \in 0 .. traversal.max
  OBVIOUS
<1> QED  BY <1>7, <1>8, <1>9

\* A record at distance n is at the end of a path of n edges: a record on the way
\* is nearer than n, so that the path meets none twice.
LEMMA ShortestIsPath ==
    ASSUME traversal.max \in Nat, Edges = ReachEdges, Origin = traversal.start,
           NEW n \in 1 .. traversal.max, NEW x \in Reach[n] \ Reach[n - 1]
    PROVE  \E w \in Seq(Edges) : IsPath(w) /\ Len(w) = n /\ End(w) = x
<1> DEFINE Near(w, m) == \A i \in 1 .. Len(w) : w[i].to \in Reach[m]
           Exact(y, m) == y \in Reach[m] /\ (m > 0 => y \notin Reach[m - 1])
           Found(y, m) == \E w \in Seq(Edges) :
                              IsPath(w) /\ Len(w) = m /\ End(w) = y /\ Near(w, m)
           S == {m \in Nat : m <= traversal.max =>
                     /\ traversal.start \in Reach[m]
                     /\ \A y : Exact(y, m) => Found(y, m)}
<1>1. 0 \in S
  <2>1. <<>> \in Seq(Edges) /\ Len(<<>>) = 0 /\ IsPath(<<>>) /\ End(<<>>) = traversal.start
    BY DEF IsPath, End
  <2>2. Near(<<>>, 0)
    BY <2>1
  <2>3. Found(traversal.start, 0)
    <3> HIDE DEF Near
    <3> QED  BY <2>1, <2>2
  <2>4. Reach[0] = {traversal.start}
    BY ReachUnfolds
  <2> HIDE DEF Found
  <2> QED  BY <2>3, <2>4
<1>2. ASSUME NEW m \in Nat, m \in S
      PROVE  m + 1 \in S
  <2> SUFFICES ASSUME m + 1 <= traversal.max
               PROVE  /\ traversal.start \in Reach[m + 1]
                      /\ \A y : Exact(y, m + 1) => Found(y, m + 1)
    <3> HIDE DEF Exact, Found
    <3> QED  OBVIOUS
  <2>1. Reach[m + 1] = Beyond(Reach[m])
    <3>1. m + 1 \in 1 .. traversal.max /\ m + 1 - 1 = m
      OBVIOUS
    <3> QED  BY <3>1, ReachUnfolds
  <2>2. traversal.start \in Reach[m] /\ \A y : Exact(y, m) => Found(y, m)
    <3> HIDE DEF Exact, Found
    <3> QED  BY <1>2
  <2>3. Reach[m] \subseteq Reach[m + 1]
    BY <2>1 DEF Beyond
  <2>4. ASSUME NEW y \in Reach[m + 1], y \notin Reach[m]
        PROVE  Found(y, m + 1)
    <3>1. PICK e \in Edges : e.from \in Reach[m] /\ e.to = y
      BY <2>1, <2>4 DEF Beyond
    <3>2. ASSUME m > 0, e.from \in Reach[m - 1]
          PROVE  FALSE
      <4>1. Reach[m] = Beyond(Reach[m - 1])
        BY <3>2, ReachUnfolds
      <4> QED  BY <2>4, <3>1, <3>2, <4>1 DEF Beyond
    <3>3. PICK w \in Seq(Edges) :
              IsPath(w) /\ Len(w) = m /\ End(w) = e.from /\ Near(w, m)
      <4>1. Exact(e.from, m)
        BY <3>1, <3>2
      <4> HIDE DEF Exact, Near
      <4> QED  BY <2>2, <4>1
    <3>4. New(w, y)
      BY <2>2, <2>4, <3>3 DEF New, Path
    <3>5. /\ Append(w, e) \in Seq(Edges) /\ Len(Append(w, e)) = m + 1
          /\ IsPath(Append(w, e))
      BY <3>1, <3>3, <3>4, PathExtends
    <3>6. /\ \A i \in 1 .. m : Append(w, e)[i] = w[i]
          /\ Append(w, e)[m + 1] = e
      BY <3>3
    <3>7. End(Append(w, e)) = y
      BY <3>1, <3>5, <3>6 DEF End
    <3>8. Near(Append(w, e), m + 1)
      BY <2>3, <2>4, <3>1, <3>3, <3>5, <3>6
    <3> HIDE DEF Near
    <3> QED  BY <3>5, <3>7, <3>8
  <2> HIDE DEF Found
  <2> QED  BY <2>2, <2>3, <2>4
<1>3. n \in S
  <2> HIDE DEF S
  <2> QED  BY <1>1, <1>2, NaturalSteps
<1>4. Found(x, n)
  <2> HIDE DEF Found
  <2> QED  BY <1>3
<1> QED  BY <1>4

-----------------------------------------------------------------------------
(* Traversals: the nearest records are answered                            *)

\* The closure is what the caller named, or all that was registered, when it was
\* resolved and still when the request was translated.
AsRequested ==
    /\ phase = "resolved" => closure = (IF traversal.all THEN resolved ELSE traversal.relations)
    /\ Walking => closure = (IF traversal.all THEN requested ELSE traversal.relations)

\* A page has the first rows of ORDER BY, as many as it can.
AnswerIsFirst ==
    phase = "answered" =>
        /\ answer \subseteq Candidates
        /\ Cardinality(answer) = Least(PageRows, Cardinality(Candidates))
        /\ \A w \in answer, v \in Candidates \ answer : ~RowBefore(v, w)

NearestInv == WalkInv /\ AsRequested /\ AnswerIsFirst

\* Nothing has been resolved.
LEMMA InitNearest == TraversalInit => NearestInv
BY InitWalk DEF NearestInv, AsRequested, AnswerIsFirst, Walking, TraversalInit

\* A closure is translated only if the registry is still the one it was resolved
\* against; after that neither the request nor the tables of the walk change.
LEMMA NextNearest == NearestInv /\ [TraversalNext]_traversalVars => NearestInv'
<1> SUFFICES ASSUME NearestInv, [TraversalNext]_traversalVars
             PROVE  NearestInv'
  OBVIOUS
<1>1. WalkInv'
  BY NextWalk DEF NearestInv
<1>2. ASSUME UNCHANGED <<traversal, walk, answer, phase>>
      PROVE  AnswerIsFirst'
  BY <1>2 DEF NearestInv, AnswerIsFirst, Candidates, RowBefore, End, Origin
<1>3. ASSUME NEW c \in Collections, Register(c)
      PROVE  NearestInv'
  BY <1>1, <1>2, <1>3 DEF Register, statement, NearestInv, AsRequested, AnswerIsFirst, Walking
<1>4. CASE Resolve
  BY <1>1, <1>4 DEF Resolve, statement, NearestInv, AsRequested, AnswerIsFirst, Walking
<1>5. CASE Refuse
  BY <1>1, <1>5 DEF Refuse, statement, NearestInv, AsRequested, AnswerIsFirst, Walking
<1>6. CASE Start
  <2>1. closure = (IF traversal.all THEN registry ELSE traversal.relations)
    BY <1>6 DEF Start, Refused, NearestInv, AsRequested
  <2> QED  BY <1>1, <1>6, <2>1 DEF Start, NearestInv, AsRequested, AnswerIsFirst, Walking
<1>7. CASE Iterate
  BY <1>1, <1>7 DEF Iterate, request, NearestInv, AsRequested, AnswerIsFirst, Walking
<1>8. CASE Answer
  <2>1. AnswerIsFirst'
    <3>1. traversal' = traversal /\ walk' = walk
      BY <1>8 DEF Answer, request
    <3>2. Candidates' = Candidates /\ \A w, v : RowBefore(v, w)' <=> RowBefore(v, w)
      BY <3>1 DEF Candidates, RowBefore, End, Origin
    <3> QED  BY <1>8, <3>2 DEF Answer, AnswerIsFirst
  <2>2. AsRequested'
    BY <1>8 DEF Answer, request, NearestInv, AsRequested, Walking
  <2> QED  BY <1>1, <2>1, <2>2 DEF NearestInv
<1>9. CASE UNCHANGED traversalVars
  BY <1>1, <1>2, <1>9
     DEF traversalVars, request, statement, NearestInv, AsRequested, AnswerIsFirst, Walking
<1> QED  BY <1>3, <1>4, <1>5, <1>6, <1>7, <1>8, <1>9 DEF TraversalNext

\* A page that leaves out a candidate is full of rows that are no farther.
LEMMA OmittedIsFarther ==
    ASSUME NearestInv, phase = "answered", NEW w \in Candidates \ answer
    PROVE  Cardinality(answer) = PageSize /\ \A v \in answer : Len(v) <= Len(w)
<1>1. /\ answer \subseteq Candidates
      /\ Cardinality(answer) = Least(PageRows, Cardinality(Candidates))
      /\ \A v \in answer : ~RowBefore(w, v)
      /\ walk \subseteq Seq(Edge)
  BY DEF NearestInv, AnswerIsFirst, WalkInv, TraversalTypeOK
<1>2. IsFiniteSet(Candidates)
  BY FS_Subset DEF NearestInv, WalkInv, Candidates
<1>3. Cardinality(answer) < Cardinality(Candidates)
      /\ Cardinality(answer) \in Nat /\ Cardinality(Candidates) \in Nat
  <2>1. answer # Candidates
    OBVIOUS
  <2> QED  BY <1>1, <1>2, <2>1, FS_Subset, FS_CardinalityType
<1>4. Cardinality(answer) = PageSize
  BY <1>1, <1>3, TraversalAssumption DEF Least, PageRows
<1>5. ASSUME NEW v \in answer
      PROVE  Len(v) <= Len(w)
  <2>1. Len(v) \in Nat /\ Len(w) \in Nat
    BY <1>1, LenProperties DEF Candidates
  <2> QED  BY <1>1, <2>1 DEF RowBefore
<1> QED  BY <1>4, <1>5

\* A record whose distance is within the query's depths is answered at that
\* distance, unless the page is full of records no farther.
THEOREM NearestIsAnswered == TraversalSpec => []NearestIsFound
<1>1. NearestInv => NearestIsFound
  <2> SUFFICES ASSUME NearestInv, phase = "answered", Dumped[traversal.start] = traversal.start,
                      NEW n \in traversal.min .. traversal.max, n > 0,
                      NEW x \in Reach[n] \ Reach[n - 1]
               PROVE  \/ \E w \in answer : Len(w) = n /\ End(w) = x
                      \/ /\ Cardinality(answer) = PageSize
                         /\ \A w \in answer : Len(w) <= n
    BY DEF NearestIsFound
  <2>1. traversal.min \in Nat /\ traversal.max \in Nat /\ n \in 1 .. traversal.max
    BY TraversalAssumption DEF NearestInv, WalkInv, TraversalTypeOK, Query
  <2>2. Edges = ReachEdges /\ Origin = traversal.start
    BY DEF NearestInv, AsRequested, Walking, Edges, ReachEdges, Origin
  <2>3. PICK w \in Seq(Edges) : IsPath(w) /\ Len(w) = n /\ End(w) = x
    BY <2>1, <2>2, ShortestIsPath
  <2>4. walk = {v \in SequencesUpTo(traversal.max) : IsPath(v)}
    BY WalkIsComplete DEF NearestInv, WalkIsExact
  <2>5. w \in SequencesUpTo(traversal.max)
    <3>1. Len(w) \in 0 .. traversal.max /\ w \in [1 .. Len(w) -> Edges]
      BY <2>1, <2>3, LenProperties
    <3> QED  BY <3>1 DEF SequencesUpTo
  <2>6. w \in Candidates
    BY <2>1, <2>3, <2>4, <2>5 DEF Candidates
  <2>7. CASE w \in answer
    BY <2>3, <2>7
  <2>8. CASE w \notin answer
    BY <2>3, <2>6, <2>8, OmittedIsFarther
  <2> QED  BY <2>7, <2>8
<1> QED  BY <1>1, InitNearest, NextNearest, PTL DEF TraversalSpec
=============================================================================
