-------------------------------- MODULE Keyset --------------------------------
(***************************************************************************)
(* Live-keyset pagination (query/__init__.py): a client reads a query page *)
(* by page, each page being one statement on its own snapshot, while       *)
(* other sessions write the rows it reads.                                 *)
(***************************************************************************)
EXTENDS Integers, Sequences, FiniteSets

CONSTANTS
    Keys,      \* record identities, ordered
    Fields,    \* nullable fields a query may order by
    Values,    \* their values: types whose JSON text PostgreSQL reads back exactly
    Queries,   \* a query stands for its plan, Schema, Registry and scope
    MaxWrites, \* bound: rows written during the scan
    Null, Absent, NoCursor, NoQuery

Identity == "id"

Terms == [field : Fields \cup {Identity}, direction : {"asc", "desc"}, nulls : {"first", "last"}]

Contents == [Fields -> Values \cup {Null}]

Tables == [Keys -> Contents \cup {Absent}]

\* A result row: __cursor_0, __cursor_1, ... are read off it.
Rows == [Fields \cup {Identity} -> Values \cup Keys \cup {Null}]

\* The payload of a signed cursor.
Cursors == [query : Queries, tuple : Seq(Values \cup Keys \cup {Null})]

ASSUME KeysetAssumption ==
    /\ Keys \subseteq Int /\ IsFiniteSet(Keys)
    /\ Values \subseteq Int
    /\ Null \notin Int
    /\ Identity \notin Fields
    /\ \A q \in Queries : q.order \in Seq(Terms) /\ q.size \in Nat \ {0}
    /\ MaxWrites \in Nat
    /\ Absent \notin Contents
    /\ NoQuery \notin Queries
    /\ NoCursor \notin Cursors

VARIABLES
    table,    \* the rows that the query's filter and scope select
    query,    \* the query the client is reading
    cursor,   \* the cursor of the last page
    page,     \* rows of the last page
    returned, \* rows of the pages before it
    stayed,   \* keys of the rows unchanged since the first page
    ended,    \* the last page came without a cursor
    writes

vars == <<table, query, cursor, page, returned, stayed, ended, writes>>

TypeOK ==
    /\ table \in Tables
    /\ query \in Queries \cup {NoQuery}
    /\ page \subseteq Rows
    /\ query # NoQuery => Cardinality(page) <= query.size
    /\ returned \subseteq Rows
    /\ stayed \subseteq Keys
    /\ ended \in BOOLEAN
    /\ writes \in 0 .. MaxWrites
    /\ cursor \in Cursors \cup {NoCursor}

Init ==
    /\ table \in Tables
    /\ query = NoQuery
    /\ cursor = NoCursor
    /\ page = {}
    /\ returned = {}
    /\ stayed = {}
    /\ ended = FALSE
    /\ writes = 0

-----------------------------------------------------------------------------
(* The order of a query                                                    *)

\* Mutant: the identity is not added.
OrderAsGiven(q) == q.order

\* The identity completes the order, unless the query orders by it.
Order(q) ==
    IF \E i \in DOMAIN q.order : q.order[i].field = Identity THEN q.order
    ELSE Append(q.order, [field |-> Identity, direction |-> "asc", nulls |-> "last"])

\* ORDER BY: v sorts before w in one term.
Sooner(term, v, w) ==
    \/ v = Null /\ w # Null /\ term.nulls = "first"
    \/ v # Null /\ w = Null /\ term.nulls = "last"
    \/ v # Null /\ w # Null /\ IF term.direction = "asc" THEN v < w ELSE v > w

Before(order, p, r) ==
    \E i \in DOMAIN order :
        /\ \A j \in 1 .. i - 1 : p[order[j].field] = r[order[j].field]
        /\ Sooner(order[i], p[order[i].field], r[order[i].field])

-----------------------------------------------------------------------------
(* The continuation predicate                                              *)

Compares(term, v, value) == IF term.direction = "asc" THEN v > value ELSE v < value

\* Mutant: >= for >.
AfterOrAt(term, v, value) ==
    \/ value = Null /\ term.nulls = "first" /\ v # Null
    \/ value # Null /\ term.nulls = "last" /\ v = Null
    \/ value # Null /\ v # Null /\ (Compares(term, v, value) \/ v = value)

\* v comes after the cursor's value.
After(term, v, value) ==
    \/ value = Null /\ term.nulls = "first" /\ v # Null
    \/ value # Null /\ term.nulls = "last" /\ v = Null
    \/ value # Null /\ v # Null /\ Compares(term, v, value)

\* One branch for each prefix of the order.
Continues(order, tuple, row) ==
    \E i \in DOMAIN order :
        /\ \A j \in 1 .. i - 1 : row[order[j].field] = tuple[j]
        /\ After(order[i], row[order[i].field], tuple[i])

Tuple(order, row) == [i \in DOMAIN order |-> row[order[i].field]]

-----------------------------------------------------------------------------

Present == {k \in Keys : table[k] # Absent}

Row(k) == [f \in Fields \cup {Identity} |-> IF f = Identity THEN k ELSE table[k][f]]

\* ORDER BY ... LIMIT n: rows that tie come in any order.
Limited(order, rows, n) ==
    {S \in SUBSET rows :
        /\ Cardinality(S) <= n
        /\ S # rows => Cardinality(S) = n
        /\ \A p \in S, r \in rows \ S : ~Before(order, r, p)}

\* The cursor is of this very query and page size.
Valid(q) == cursor # NoCursor => cursor.query = q

\* Mutant: the row fetched beyond the page is not taken off.
KeptAll(order, fetched, q) == {fetched}

\* rows[:page_size]
Kept(order, fetched, q) == Limited(order, fetched, q.size)

Selected(q) ==
    {r \in {Row(k) : k \in Present} : cursor # NoCursor => Continues(Order(q), cursor.tuple, r)}

\* One row more than the page is fetched, to know whether to issue a cursor.
Page(q) ==
    LET order == Order(q) IN
    /\ ~ended
    /\ Valid(q)
    /\ \E fetched \in Limited(order, Selected(q), q.size + 1) :
       \E kept \in Kept(order, fetched, q) :
        LET last == CHOOSE r \in kept : \A p \in kept : ~Before(order, r, p)
            more == Cardinality(fetched) > q.size
        IN  /\ query' = IF query = NoQuery THEN q ELSE query
            /\ page' = kept
            /\ returned' = returned \cup page
            /\ cursor' = IF more THEN [query |-> q, tuple |-> Tuple(order, last)] ELSE NoCursor
            /\ ended' = ~more
            /\ stayed' = IF query = NoQuery THEN Present ELSE stayed
            /\ UNCHANGED <<table, writes>>

\* Another session inserts, changes or deletes a row of the result.
Write(k, content) ==
    /\ query # NoQuery /\ ~ended
    /\ writes < MaxWrites
    /\ table[k] # content
    /\ table' = [table EXCEPT ![k] = content]
    /\ stayed' = stayed \ {k}
    /\ writes' = writes + 1
    /\ UNCHANGED <<query, cursor, page, returned, ended>>

Next ==
    \/ \E q \in Queries : Page(q)
    \/ \E k \in Keys, content \in Contents \cup {Absent} : Write(k, content)

Spec == Init /\ [][Next]_vars

-----------------------------------------------------------------------------
(* Properties                                                              *)

\* No page goes back: whatever is written between two pages, a page holds only
\* rows that sort after every row of the pages before it, so that no row is
\* repeated unless it has been moved forward.
PagesGoForward == \A r \in page, p \in returned : Before(Order(query), p, r)

\* No row is passed over: a row that was there from the first page to the last,
\* and did not change, is on one of them, nulls and ties included.
StayedIsReturned ==
    ended => \A k \in stayed : Row(k) \in returned \cup page
=============================================================================
