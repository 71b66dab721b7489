------------------------- MODULE CursorSearchProofs -------------------------
(***************************************************************************)
(* Proofs about CursorSearch: the pages are in order without duplicates,   *)
(* and a row that is left alone is shown, for any number of rows, keys and *)
(* writes between the requests, and any page size.                         *)
(***************************************************************************)
EXTENDS CursorSearch, FiniteSetTheorems, FunctionTheorems, NaturalsInduction, WellFoundedInduction, TLAPS

USE QueryAssumption, BoundAssumption, NullAssumption

-----------------------------------------------------------------------------
(* Before is a strict total order on sort key and id.                      *)
LEMMA Order ==
    ASSUME NEW a, NEW b, NEW c,
           a.key \in Int, a.id \in Int, b.key \in Int, b.id \in Int, c.key \in Int, c.id \in Int
    PROVE  /\ ~Before(a, a)
           /\ Before(a, b) /\ Before(b, c) => Before(a, c)
           /\ Before(a, b) \/ Before(b, a) \/ (a.key = b.key /\ a.id = b.id)
BY DEF Before, Less

Entries == [key : Key \cup {Null}, id : Id]

LEMMA EntryTypes == \A e \in Entries : e.key \in Int /\ e.id \in Int
BY DEF Entries, Key, Null, Id

LEMMA OrderOfEntries ==
    /\ \A a \in Entries : ~Before(a, a)
    /\ \A a, b, c \in Entries : Before(a, b) /\ Before(b, c) => Before(a, c)
    /\ \A a, b \in Entries : Before(a, b) \/ Before(b, a) \/ a = b
<1>1. \A a \in Entries : ~Before(a, a)
  BY EntryTypes, Order
<1>2. \A a, b, c \in Entries : Before(a, b) /\ Before(b, c) => Before(a, c)
  BY EntryTypes, Order
<1>3. ASSUME NEW a \in Entries, NEW b \in Entries
      PROVE  Before(a, b) \/ Before(b, a) \/ a = b
  <2>1. Before(a, b) \/ Before(b, a) \/ (a.key = b.key /\ a.id = b.id)
    BY EntryTypes, Order
  <2>2. a.key = b.key /\ a.id = b.id => a = b
    BY DEF Entries
  <2> QED BY <2>1, <2>2
<1> QED BY <1>1, <1>2, <1>3

-----------------------------------------------------------------------------
(* LIMIT: a page holds the first rows of what was found.                   *)
Below(F, e) == {f \in F : Before(f, e)}

LEMMA BelowIsFinite ==
    ASSUME NEW F, IsFiniteSet(F), NEW e
    PROVE  IsFiniteSet(Below(F, e)) /\ Cardinality(Below(F, e)) \in Nat
BY FS_Subset, FS_CardinalityType DEF Below

LEMMA BelowGrows ==
    ASSUME NEW F \in SUBSET Entries, IsFiniteSet(F), NEW a \in F, NEW b \in F, Before(a, b)
    PROVE  Cardinality(Below(F, a)) < Cardinality(Below(F, b))
<1>1. Below(F, a) \subseteq Below(F, b) /\ a \in Below(F, b) /\ a \notin Below(F, a)
  BY OrderOfEntries DEF Below
<1>2. Below(F, a) # Below(F, b)
  BY <1>1
<1>3. /\ Cardinality(Below(F, a)) <= Cardinality(Below(F, b))
      /\ Cardinality(Below(F, a)) = Cardinality(Below(F, b)) => Below(F, a) = Below(F, b)
  BY <1>1, BelowIsFinite, FS_Subset
<1> QED BY <1>2, <1>3, BelowIsFinite

(* A page of what was found is not empty.                                  *)
LEMMA PageNotEmpty ==
    ASSUME NEW F \in SUBSET Entries, IsFiniteSet(F), F # {}, NEW n \in Nat \ {0}
    PROVE  PageOf(F, n) # {}
<1> DEFINE T == {Cardinality(Below(F, e)) : e \in F}
<1>1. T \subseteq Nat /\ T # {}
  BY BelowIsFinite
<1>2. PICK m \in T : \A k \in T : ~(<<k, m>> \in OpToRel(<, Nat))
  <2> HIDE DEF T
  <2> QED BY <1>1, NatLessThanWellFounded, WFMin
<1>3. PICK e \in F : m = Cardinality(Below(F, e))
  OBVIOUS
<1>4. Below(F, e) = {}
  <2>1. SUFFICES ASSUME NEW f \in F, Before(f, e) PROVE FALSE
    BY DEF Below
  <2>2. Cardinality(Below(F, f)) < m
    BY <1>3, <2>1, BelowGrows
  <2>3. Cardinality(Below(F, f)) \in T
    OBVIOUS
  <2> QED BY <1>1, <1>2, <2>2, <2>3 DEF OpToRel
<1>5. Cardinality(Below(F, e)) = 0
  BY <1>4, FS_EmptySet
<1> QED BY <1>5 DEF PageOf, Below

(* When no more was found than fits, the page is all of it.                *)
LEMMA LastPageIsAll ==
    ASSUME NEW F \in SUBSET Entries, IsFiniteSet(F), NEW n \in Nat, Cardinality(F) <= n
    PROVE  PageOf(F, n) = F
<1>1. SUFFICES ASSUME NEW e \in F PROVE Cardinality(Below(F, e)) < n
  BY DEF PageOf, Below
<1>2. Below(F, e) \subseteq F \ {e}
  BY OrderOfEntries DEF Below
<1>3. IsFiniteSet(F \ {e}) /\ Cardinality(F \ {e}) = Cardinality(F) - 1
  BY FS_RemoveElement
<1>4. Cardinality(Below(F, e)) <= Cardinality(F \ {e})
  BY <1>2, <1>3, FS_Subset
<1> QED BY <1>3, <1>4, BelowIsFinite, FS_CardinalityType

(* What was found and is not on the page comes after every row of it.      *)
LEMMA RestComesAfter ==
    ASSUME NEW F \in SUBSET Entries, IsFiniteSet(F), NEW n \in Nat,
           NEW a \in PageOf(F, n), NEW b \in F \ PageOf(F, n)
    PROVE  Before(a, b)
<1>1. a \in F /\ Cardinality(Below(F, a)) < n /\ ~(Cardinality(Below(F, b)) < n)
  BY DEF PageOf, Below
<1>2. SUFFICES ASSUME Before(b, a) PROVE FALSE
  BY <1>1, OrderOfEntries
<1>3. Cardinality(Below(F, b)) < Cardinality(Below(F, a))
  BY <1>1, <1>2, BelowGrows
<1> QED BY <1>1, <1>3, BelowIsFinite

-----------------------------------------------------------------------------
(* What a request finds.                                                   *)
LEMMA QueryTypes ==
    ASSUME TypeOK
    PROVE  /\ query \in Query
           /\ query.field \in Field
           /\ KeyOf(query) \subseteq Key \cup {Null}
           /\ Size \in Nat \ {0}
<1>1. query \in Query
  BY DEF TypeOK
<1>2. query.field \in Field /\ query.size \in Nat
  BY <1>1 DEF Query
<1>3. KeyOf(query) \subseteq Key \cup {Null}
  BY <1>2 DEF KeyOf, Field, Key, True, False, Null
<1>4. Size \in Nat \ {0}
  BY <1>2 DEF Size, ConfigSize, PageSize
<1> QED BY <1>1, <1>2, <1>3, <1>4

LEMMA RowTypes ==
    ASSUME TypeOK, NEW i \in Rows
    PROVE  /\ i \in Id
           /\ table[i] \in RowOf(query)
           /\ Entry(i) \in [key : KeyOf(query), id : Id]
           /\ Entry(i).id = i
<1>1. i \in Id /\ table[i] \in RowOf(query)
  BY DEF TypeOK, Rows
<1>2. table[i].key \in KeyOf(query)
  BY <1>1 DEF RowOf
<1> QED BY <1>1, <1>2 DEF Entry

LEMMA FoundTypes ==
    ASSUME TypeOK
    PROVE  /\ Found \subseteq [key : KeyOf(query), id : Id]
           /\ Found \subseteq Entries
           /\ IsFiniteSet(Found)
           /\ Cardinality(Found) \in Nat
           /\ Cardinality(Matching) \in Nat
<1> DEFINE J == {j \in Rows : Visible(j)}
           T == {Entry(i) : i \in J}
           f == [i \in J |-> Entry(i)]
<1>1. IsFiniteSet(Id)
  BY FS_Interval DEF Id
<1>2. IsFiniteSet(J) /\ IsFiniteSet(Matching)
  BY <1>1, FS_Subset DEF Rows, Matching
<1>3. f \in Surjection(J, T)
  BY DEF Surjection
<1>4. IsFiniteSet(T)
  BY <1>2, <1>3, FS_Surjection
<1>5. Found \subseteq T
  BY DEF Found
<1>6. T \subseteq [key : KeyOf(query), id : Id]
  BY RowTypes
<1>7. [key : KeyOf(query), id : Id] \subseteq Entries
  BY QueryTypes DEF Entries
<1> QED BY <1>2, <1>4, <1>5, <1>6, <1>7, FS_Subset, FS_CardinalityType

LEMMA CursorTypes ==
    ASSUME TypeOK, cursor # NoCursor
    PROVE  cursor \in [key : KeyOf(query), id : Id] /\ cursor \in Entries
BY QueryTypes DEF TypeOK, Entries

LEMMA ShownTypes ==
    ASSUME TypeOK, NEW e \in shown
    PROVE  e.key \in Int /\ e.id \in Int /\ e.page \in 1..pages
<1>1. e.key \in KeyOf(query) /\ e.id \in Id /\ e.page \in 1..pages
  BY DEF TypeOK
<1> QED BY <1>1, QueryTypes DEF Key, Null, Id

(* Each of the three cursor conditions holds only of rows that come after  *)
(* the cursor.                                                             *)
LEMMA AfterIsBefore ==
    ASSUME TypeOK, cursor # NoCursor, NEW e \in [key : KeyOf(query), id : Id], After(e)
    PROVE  Before(cursor, e)
<1>1. CASE query.field = "value"
  BY <1>1 DEF After, KeysetAfter
<1>2. CASE query.field = "targetDate"
  BY <1>2 DEF After, NullableAfter
<1>3. CASE query.field = "enabled"
  <2>1. e.key \in {1, 2} /\ cursor.key \in {1, 2} /\ e.id \in Int /\ cursor.id \in Int
    BY <1>3, CursorTypes DEF KeyOf, True, False, Id
  <2> QED BY <1>3, <2>1 DEF After, EnabledAfter, Before, Less, True, False
<1> QED BY <1>1, <1>2, <1>3, QueryTypes DEF Field

LEMMA BeforeStays ==
    ASSUME query' = query, NEW a, NEW b
    PROVE  Before(a, b)' <=> Before(a, b)
BY DEF Before, Less, Ascending

LEMMA AfterStays ==
    ASSUME query' = query, cursor' = cursor, NEW e
    PROVE  After(e)' <=> After(e)
BY DEF After, KeysetAfter, NullableAfter, EnabledAfter, Before, Less, Ascending

LEMMA ReachableStays ==
    ASSUME query' = query, NEW i, table'[i] = table[i]
    PROVE  Reachable(i)' <=> Reachable(i)
BY DEF Reachable, Ascending

(* With the last row of a page as cursor the next request finds what comes *)
(* after it: a cursor has a key, so in descending order whatever comes     *)
(* after it has one too, and in ascending order it is asked for.           *)
LEMMA AfterNewCursor ==
    ASSUME TypeOK, query' = query,
           NEW c \in [key : KeyOf(query), id : Id], cursor' = c, c.key # Null,
           NEW e \in [key : KeyOf(query), id : Id], Before(c, e), Ascending => e.key # Null
    PROVE  After(e)'
<1>1. CASE query.field = "value"
  BY <1>1, BeforeStays DEF After, KeysetAfter
<1>2. CASE query.field = "targetDate"
  <2>1. c.key \in Int /\ e.key \in Int /\ c.key <= Null /\ e.key <= Null /\ Null \in Int
    BY QueryTypes DEF Key, Null
  <2>2. e.key # Null
    BY <2>1 DEF Before, Less
  <2>3. QED
    BY <1>2, <2>2, BeforeStays DEF After, NullableAfter, Null
<1>3. CASE query.field = "enabled"
  <2>1. e.key \in {1, 2} /\ c.key \in {1, 2} /\ e.id \in Int /\ c.id \in Int
    BY <1>3 DEF KeyOf, True, False, Id
  <2>2. Ascending' <=> Ascending
    BY DEF Ascending
  <2> QED BY <1>3, <2>1, <2>2 DEF After, EnabledAfter, Before, Less, True, False
<1> QED BY <1>1, <1>2, <1>3, QueryTypes DEF Field

-----------------------------------------------------------------------------
LEMMA InitInv == Init => IInv
<1> SUFFICES ASSUME Init PROVE IInv
  OBVIOUS
<1>1. TypeOK
  BY DEF Init, TypeOK
<1>2. AskedWhileMore /\ ShownIsPassed /\ PagesInOrder
  BY DEF Init, AskedWhileMore, ShownIsPassed, PagesInOrder
<1>3. RestIsAhead
  BY DEF Init, RestIsAhead, After
<1> QED BY <1>1, <1>2, <1>3 DEF IInv

(* Everything a request finds comes after everything shown before.         *)
LEMMA FoundIsNew ==
    ASSUME IInv, pc = "ask", NEW a \in shown, NEW e \in Found
    PROVE  Before(a, e)
<1> USE DEF IInv
<1>1. e \in [key : KeyOf(query), id : Id] /\ e \in Entries /\ After(e)
  BY FoundTypes DEF Found
<1>2. cursor # NoCursor
  BY ShownTypes DEF TypeOK, AskedWhileMore
<1>3. Before(cursor, e)
  BY <1>1, <1>2, AfterIsBefore
<1>4. ~Before(cursor, a)
  BY <1>2 DEF ShownIsPassed
<1>5. /\ a.key \in Int /\ a.id \in Int /\ e.key \in Int /\ e.id \in Int
      /\ cursor.key \in Int /\ cursor.id \in Int
  BY <1>1, <1>2, ShownTypes, CursorTypes, EntryTypes
<1> QED BY <1>3, <1>4, <1>5 DEF Before, Less

LEMMA DeliverShows ==
    ASSUME NEW P, Deliver(P), NEW e \in P
    PROVE  \E s \in shown' : s.id = e.id
<1> DEFINE s == [key |-> e.key, id |-> e.id, page |-> pages + 1]
<1>1. s \in shown' /\ s.id = e.id
  BY DEF Deliver
<1> QED BY <1>1

(* A page is delivered: it follows what was shown, in the order asked for. *)
LEMMA DeliverKeepsOrder ==
    ASSUME IInv, pc = "ask", NEW P \in SUBSET Found, Deliver(P), query' = query
    PROVE  /\ PagesInOrder'
           /\ shown' \subseteq [key : KeyOf(query), id : Id, page : 1..pages']
<1> USE DEF IInv
<1> DEFINE new == {[key |-> e.key, id |-> e.id, page |-> pages + 1] : e \in P}
<1>1. shown' = shown \cup new /\ pages' = pages + 1 /\ pages \in Nat
  BY DEF Deliver, TypeOK
<1>2. P \subseteq [key : KeyOf(query), id : Id]
  BY FoundTypes
<1>3. new \subseteq [key : KeyOf(query), id : Id, page : 1..(pages + 1)]
  BY <1>1, <1>2
<1>4. shown \subseteq [key : KeyOf(query), id : Id, page : 1..(pages + 1)]
  BY <1>1 DEF TypeOK
<1>5. ASSUME NEW a \in shown', NEW b \in shown', a.page < b.page
      PROVE  Before(a, b)
  <2>1. CASE b \in shown
    <3>1. a \in shown
      BY <1>1, <1>5, <2>1, ShownTypes
    <3> QED BY <1>5, <2>1, <3>1 DEF PagesInOrder
  <2>2. CASE b \in new
    <3>1. PICK e \in P : b = [key |-> e.key, id |-> e.id, page |-> pages + 1]
      BY <2>2
    <3>2. a \in shown
      BY <1>1, <1>5, <3>1
    <3>3. Before(a, e)
      BY <3>2, FoundIsNew
    <3> QED BY <3>1, <3>3 DEF Before, Less
  <2> QED BY <1>1, <2>1, <2>2
<1>6. PagesInOrder'
  BY <1>5, BeforeStays DEF PagesInOrder
<1> QED BY <1>1, <1>3, <1>4, <1>6

(* What is ahead of the cursor stays so while neither moves.               *)
LEMMA RestStaysAhead ==
    ASSUME RestIsAhead, UNCHANGED <<table, touched, query, cursor, shown, hasNext>>
    PROVE  RestIsAhead'
<1> SUFFICES ASSUME NEW i \in Rows' \ touched', Visible(i)', Reachable(i)'
             PROVE  (\E e \in shown' : e.id = i) \/ (hasNext' /\ After(Entry(i))')
  BY DEF RestIsAhead
<1>1. i \in Rows \ touched /\ Visible(i) /\ Reachable(i)
  BY ReachableStays DEF Rows, Visible
<1>2. (\E e \in shown : e.id = i) \/ (hasNext /\ After(Entry(i)))
  BY <1>1 DEF RestIsAhead
<1>3. Entry(i)' = Entry(i)
  BY DEF Entry
<1>4. After(Entry(i))' <=> After(Entry(i))
  BY <1>3 DEF After, KeysetAfter, NullableAfter, EnabledAfter, Before, Less, Ascending
<1> QED BY <1>2, <1>4

LEMMA AskPageInv == ASSUME IInv, AskPage PROVE IInv'
<1> USE DEF IInv
<1> DEFINE P == PageOf(Found, Size)
           Last == {e \in P : \A f \in P : ~Before(e, f)}
<1>0. /\ pc = "ask" /\ hasNext /\ query' = query /\ table' = table /\ touched' = touched
      /\ total' = total /\ writes' = writes
      /\ hasNext' = More(Found, Size)
      /\ \/ (hasNext' => P = {}) /\ Deliver(P) /\ cursor' = NoCursor
         \/ \E e \in Last : hasNext' /\ ~NoCursorValue(e) /\ Deliver(P) /\ cursor' = e
         \/ \E e \in Last : hasNext' /\ pc' = "failed" /\ cursor' = cursor /\ pages' = pages /\ shown' = shown
  BY DEF AskPage, AskedWhileMore
<1>1. /\ Found \subseteq Entries /\ IsFiniteSet(Found) /\ Cardinality(Found) \in Nat
      /\ Found \subseteq [key : KeyOf(query), id : Id] /\ Size \in Nat \ {0}
  BY FoundTypes, QueryTypes
<1>2. P \subseteq Found
  BY DEF PageOf
<1>3. hasNext' \in BOOLEAN /\ (hasNext' <=> Cardinality(Found) > Size)
  <2>1. More(Found, Size) \in BOOLEAN
    BY DEF More
  <2>2. hasNext' \in BOOLEAN
    BY <1>0, <2>1, Zenon
  <2>3. hasNext' <=> More(Found, Size)
    BY <1>0
  <2> QED BY <2>2, <2>3 DEF More
<1>4. hasNext' => P # {}
  <2>1. hasNext' => Found # {}
    BY <1>1, <1>3, FS_EmptySet
  <2> QED BY <1>1, <2>1, PageNotEmpty
<1>5. ~hasNext' => P = Found
  BY <1>1, <1>3, LastPageIsAll
<1>6. ASSUME NEW i \in Rows' \ touched', Visible(i)', Reachable(i)'
      PROVE  /\ i \in Rows \ touched /\ Visible(i) /\ Reachable(i)
             /\ Entry(i)' = Entry(i) /\ Entry(i).id = i
             /\ (\E e \in shown : e.id = i) \/ Entry(i) \in Found
  <2>1. /\ i \in Rows \ touched /\ Visible(i) /\ Reachable(i)
        /\ Entry(i)' = Entry(i)
    BY <1>0, <1>6, ReachableStays DEF Rows, Visible, Entry
  <2>2. (\E e \in shown : e.id = i) \/ After(Entry(i))
    BY <2>1 DEF RestIsAhead
  <2>3. After(Entry(i)) => Entry(i) \in Found
    BY <2>1 DEF Found
  <2> QED BY <2>1, <2>2, <2>3, RowTypes
<1> HIDE DEF P
<1>7. CASE (hasNext' => P = {}) /\ Deliver(P) /\ cursor' = NoCursor
  <2>1. ~hasNext' /\ P = Found
    BY <1>4, <1>5, <1>7
  <2>2. pc' = "count" /\ pages' = pages + 1
    BY <1>7 DEF Deliver
  <2>3. PagesInOrder' /\ shown' \subseteq [key : KeyOf(query), id : Id, page : 1..pages']
    BY <1>0, <1>2, <1>7, DeliverKeepsOrder
  <2>4. TypeOK'
    BY <1>0, <1>3, <1>7, <2>1, <2>2, <2>3 DEF TypeOK
  <2>5. AskedWhileMore' /\ ShownIsPassed'
    BY <1>7, <2>2 DEF AskedWhileMore, ShownIsPassed
  <2>6. \A e \in Found : \E s \in shown' : s.id = e.id
    BY <1>7, <2>1, DeliverShows
  <2>7. shown \subseteq shown'
    BY <1>7 DEF Deliver
  <2>8. RestIsAhead'
    BY <1>6, <2>6, <2>7 DEF RestIsAhead
  <2> QED BY <2>3, <2>4, <2>5, <2>8
<1>8. CASE \E e \in Last : hasNext' /\ ~NoCursorValue(e) /\ Deliver(P) /\ cursor' = e
  <2>1. PICK c \in P : /\ hasNext' /\ Deliver(P) /\ cursor' = c /\ \A f \in P : ~Before(c, f)
                      /\ c.key # Null
    BY <1>8 DEF NoCursorValue
  <2>2. c \in [key : KeyOf(query), id : Id] /\ c \in Found
    BY <1>1, <1>2, <2>1
  <2>3. pc' = "count" /\ pages' = pages + 1
    BY <2>1 DEF Deliver
  <2>4. PagesInOrder' /\ shown' \subseteq [key : KeyOf(query), id : Id, page : 1..pages']
    BY <1>0, <1>2, <2>1, DeliverKeepsOrder
  <2>5. c # NoCursor
    BY <1>1, <2>2, EntryTypes
  <2>6. TypeOK'
    BY <1>0, <1>3, <2>1, <2>2, <2>3, <2>4, <2>5 DEF TypeOK
  <2>7. AskedWhileMore'
    BY <2>3 DEF AskedWhileMore
  <2>8. ASSUME NEW s \in shown' PROVE ~Before(c, s)
    <3>1. CASE s \in shown
      <4>1. Before(s, c)
        BY <1>0, <2>2, <3>1, FoundIsNew
      <4>2. s.key \in Int /\ s.id \in Int /\ c.key \in Int /\ c.id \in Int
        BY <1>1, <2>2, <3>1, ShownTypes, EntryTypes
      <4> QED BY <4>1, <4>2 DEF Before, Less
    <3>2. CASE \E e \in P : s.key = e.key /\ s.id = e.id
      BY <2>1, <3>2 DEF Before, Less
    <3> QED BY <2>1, <3>1, <3>2 DEF Deliver
  <2>9. ShownIsPassed'
    BY <1>0, <2>1, <2>8, BeforeStays DEF ShownIsPassed
  <2>10. RestIsAhead'
    <3>1. SUFFICES ASSUME NEW i \in Rows' \ touched', Visible(i)', Reachable(i)'
                   PROVE  (\E s \in shown' : s.id = i) \/ After(Entry(i))'
      BY <2>1 DEF RestIsAhead
    <3>2. /\ Entry(i)' = Entry(i) /\ Entry(i).id = i /\ Reachable(i)
          /\ (\E e \in shown : e.id = i) \/ Entry(i) \in Found
      BY <1>6, <3>1
    <3>3. CASE \E e \in shown : e.id = i
      BY <2>1, <3>3 DEF Deliver
    <3>4. CASE Entry(i) \in P
      BY <2>1, <3>2, <3>4, DeliverShows
    <3>5. CASE Entry(i) \in Found \ P
      <4>1. Before(c, Entry(i))
        BY <1>1, <2>1, <3>5, RestComesAfter DEF P
      <4>2. Entry(i) \in [key : KeyOf(query), id : Id]
        BY <1>1, <3>5
      <4> DEFINE e == Entry(i)
      <4>3. Ascending => e.key # Null
        BY <3>2 DEF Reachable, Entry
      <4>4. After(e)'
        BY <1>0, <2>1, <2>2, <3>2, <4>1, <4>2, <4>3, AfterNewCursor
      <4> QED BY <4>4
    <3> QED BY <3>2, <3>3, <3>4, <3>5
  <2> QED BY <2>4, <2>6, <2>7, <2>9, <2>10
<1>9. CASE \E e \in Last : hasNext' /\ pc' = "failed" /\ cursor' = cursor /\ pages' = pages /\ shown' = shown
  <2>1. /\ hasNext' /\ hasNext /\ pc' = "failed" /\ cursor' = cursor /\ pages' = pages /\ shown' = shown
    BY <1>0, <1>9
  <2>2. TypeOK'
    BY <1>0, <1>3, <2>1 DEF TypeOK
  <2>3. AskedWhileMore'
    BY <2>1 DEF AskedWhileMore
  <2>4. ShownIsPassed' /\ PagesInOrder'
    BY <1>0, <2>1, BeforeStays DEF ShownIsPassed, PagesInOrder
  <2>5. RestIsAhead'
    BY <1>0, <2>1, RestStaysAhead
  <2> QED BY <2>2, <2>3, <2>4, <2>5
<1> QED BY <1>0, <1>7, <1>8, <1>9 DEF P

LEMMA CountTotalInv == ASSUME IInv, CountTotal PROVE IInv'
<1> USE DEF IInv, CountTotal
<1>1. TypeOK'
  BY FoundTypes DEF TypeOK
<1>2. AskedWhileMore'
  BY DEF AskedWhileMore, TypeOK
<1>3. ShownIsPassed' /\ PagesInOrder'
  BY BeforeStays DEF ShownIsPassed, PagesInOrder
<1>4. RestIsAhead'
  BY RestStaysAhead
<1> QED BY <1>1, <1>2, <1>3, <1>4

(* A write touches the scan in nothing but the row it writes.              *)
LEMMA WriteInv ==
    ASSUME IInv, NEW i \in Id, NEW row \in RowOf(query) \cup {NoRow}, Write(i, row)
    PROVE  IInv'
<1> USE DEF IInv
<1>1. /\ query' = query /\ pc' = pc /\ pages' = pages /\ cursor' = cursor /\ hasNext' = hasNext
      /\ total' = total /\ shown' = shown /\ touched' = touched \cup {i}
      /\ table' = [table EXCEPT ![i] = row]
      /\ writes < MaxWrites /\ writes' = writes + 1
  BY DEF Write, scanVars
<1>2. TypeOK'
  BY <1>1 DEF TypeOK
<1>3. AskedWhileMore'
  BY <1>1 DEF AskedWhileMore
<1>4. ShownIsPassed' /\ PagesInOrder'
  BY <1>1, BeforeStays DEF ShownIsPassed, PagesInOrder
<1>5. RestIsAhead'
  <2>1. SUFFICES ASSUME NEW j \in Rows' \ touched', Visible(j)', Reachable(j)'
                 PROVE  (\E e \in shown : e.id = j) \/ (hasNext /\ After(Entry(j))')
    BY <1>1 DEF RestIsAhead
  <2>2. j \in Id /\ j # i /\ j \notin touched /\ table'[j] = table[j]
    BY <1>1, <2>1 DEF Rows, TypeOK
  <2>3. /\ j \in Rows \ touched /\ Visible(j) /\ Reachable(j)
        /\ Entry(j)' = Entry(j)
    BY <1>1, <2>1, <2>2, ReachableStays DEF Rows, Visible, Entry
  <2>4. (\E e \in shown : e.id = j) \/ (hasNext /\ After(Entry(j)))
    BY <2>3 DEF RestIsAhead
  <2>5. After(Entry(j))' <=> After(Entry(j))
    BY <1>1, <2>3 DEF After, KeysetAfter, NullableAfter, EnabledAfter, Before, Less, Ascending
  <2> QED BY <2>4, <2>5
<1> QED BY <1>2, <1>3, <1>4, <1>5

LEMMA NextInv == ASSUME IInv, [Next]_vars PROVE IInv'
<1>1. CASE AskPage
  BY <1>1, AskPageInv
<1>2. CASE CountTotal
  BY <1>2, CountTotalInv
<1>3. ASSUME NEW i \in Id, Insert(i) PROVE IInv'
  BY <1>3, WriteInv DEF Insert
<1>4. ASSUME NEW i \in Id, Change(i) PROVE IInv'
  BY <1>4, WriteInv DEF Change
<1>5. ASSUME NEW i \in Id, Delete(i) PROVE IInv'
  BY <1>5, WriteInv DEF Delete
<1>6. ASSUME NEW i \in Id, Detach(i) PROVE IInv'
  <2>1. PICK m \in BOOLEAN : Write(i, [table[i] EXCEPT !.attached = FALSE, !.matches = m])
    BY <1>6 DEF Detach
  <2>2. table[i] \in RowOf(query) /\ query.search = "syncJob"
    BY <1>6, RowTypes DEF Detach, IInv
  <2>3. [table[i] EXCEPT !.attached = FALSE, !.matches = m] \in RowOf(query)
    BY <2>2 DEF RowOf, Row
  <2> QED BY <2>1, <2>3, WriteInv
<1>7. CASE UNCHANGED vars
  <2>1. /\ table' = table /\ query' = query /\ pc' = pc /\ pages' = pages
        /\ cursor' = cursor /\ hasNext' = hasNext /\ total' = total /\ shown' = shown
        /\ touched' = touched /\ writes' = writes
    BY <1>7 DEF vars, scanVars
  <2>2. TypeOK'
    BY <2>1 DEF IInv, TypeOK
  <2>3. AskedWhileMore' /\ ShownIsPassed' /\ PagesInOrder'
    BY <2>1, BeforeStays DEF IInv, AskedWhileMore, ShownIsPassed, PagesInOrder
  <2>4. RestIsAhead'
    BY <2>1, RestStaysAhead DEF IInv
  <2> QED BY <2>2, <2>3, <2>4 DEF IInv
<1> QED BY <1>1, <1>2, <1>3, <1>4, <1>5, <1>6, <1>7 DEF Next, Done

(* Types, order, and that what is left alone was shown or is still ahead.  *)
THEOREM Invariant == Spec => []IInv
BY InitInv, NextInv, PTL DEF Spec

(* The types of a scan; a page that is followed has a cursor to follow.    *)
THEOREM TypeCorrect == Spec => []TypeOK
<1>1. IInv => TypeOK
  BY DEF IInv
<1> QED BY <1>1, Invariant, PTL

(* The pages one after the other are in the order asked for, without       *)
(* duplicates, whatever is written between the requests.                   *)
THEOREM Ordered == Spec => []PagesInOrder
<1>1. IInv => PagesInOrder
  BY DEF IInv
<1> QED BY <1>1, Invariant, PTL

(* A scan that is over has shown every row that matched and was left alone. *)
THEOREM NothingMissed == Spec => []StableRowsShown
<1>1. IInv => StableRowsShown
  BY DEF IInv, AskedWhileMore, RestIsAhead, StableRowsShown
<1> QED BY <1>1, Invariant, PTL
-----------------------------------------------------------------------------
(* What hasNext and totalElements promise while nothing is written.        *)

(* A page has no more rows than its size.                                  *)
LEMMA PageFits ==
    ASSUME NEW F \in SUBSET Entries, IsFiniteSet(F), NEW n \in Nat
    PROVE  IsFiniteSet(PageOf(F, n)) /\ Cardinality(PageOf(F, n)) <= n
<1> DEFINE P == PageOf(F, n)
           place == [e \in P |-> Cardinality(Below(F, e))]
<1>1. P \subseteq F /\ \A e \in P : Cardinality(Below(F, e)) < n
  BY DEF PageOf, Below
<1>2. \A e \in P : Cardinality(Below(F, e)) \in 0 .. n - 1
  BY <1>1, BelowIsFinite
<1>3. ASSUME NEW a \in P, NEW b \in P, a # b
      PROVE  Cardinality(Below(F, a)) # Cardinality(Below(F, b))
  <2>1. a \in F /\ b \in F /\ (Before(a, b) \/ Before(b, a))
    BY <1>1, <1>3, OrderOfEntries
  <2>2. Cardinality(Below(F, a)) \in Nat /\ Cardinality(Below(F, b)) \in Nat
    BY BelowIsFinite
  <2>3. QED
    BY <2>1, <2>2, BelowGrows
<1>4. place \in Injection(P, 0 .. n - 1)
  <2>1. place \in [P -> 0 .. n - 1]
    BY <1>2
  <2>2. \A a, b \in P : place[a] = place[b] => a = b
    BY <1>3
  <2>3. QED
    BY <2>1, <2>2, Fun_IsInj
<1>5. IsFiniteSet(0 .. n - 1) /\ Cardinality(0 .. n - 1) = n
  <2>1. n - 1 \in Int /\ 0 \in Int
    OBVIOUS
  <2>2. /\ IsFiniteSet(0 .. n - 1)
        /\ Cardinality(0 .. n - 1) = IF 0 > n - 1 THEN 0 ELSE n - 1 - 0 + 1
    BY <2>1, FS_Interval
  <2>3. QED
    BY <2>2
<1>6. QED
  BY <1>4, <1>5, FS_Injection

LEMMA RestIsFound ==
    ASSUME NEW F \in SUBSET Entries, IsFiniteSet(F), NEW n \in Nat, Cardinality(F) > n
    PROVE  \E e \in F : e \notin PageOf(F, n)
<1>1. SUFFICES ASSUME PageOf(F, n) = F PROVE FALSE
  BY DEF PageOf
<1>2. Cardinality(F) <= n /\ Cardinality(F) \in Nat
  BY <1>1, PageFits, FS_CardinalityType
<1>3. QED
  BY <1>2

(* A page that is promised is found, and has been delivered with rows.     *)
PromisedIsThere ==
    (\A i \in Rows : Visible(i) => Reachable(i)) /\ touched = {} =>
        /\ PageHasRows
        /\ pages > 0 /\ hasNext /\ pc # "failed" => Found # {}

(* What is shown is in the table, and the count of a finished scan is that *)
(* of the table.                                                           *)
ShownIsThere ==
    touched = {} =>
        /\ \A e \in shown : e.id \in Rows /\ Visible(e.id) /\ table[e.id].key = e.key
        /\ pc = "over" => total = Cardinality(Matching)

LEMMA FoundStays ==
    ASSUME UNCHANGED <<table, query, cursor>>
    PROVE  /\ Found' = Found /\ Matching' = Matching /\ Rows' = Rows
           /\ (\A i \in Rows : Visible(i) => Reachable(i))' <=> \A i \in Rows : Visible(i) => Reachable(i)
BY AfterStays, ReachableStays DEF Found, Matching, Rows, Visible, Entry

LEMMA AskPagePromises ==
    ASSUME IInv, PromisedIsThere, AskPage
    PROVE  PromisedIsThere'
<1> USE DEF IInv
<1> DEFINE P == PageOf(Found, Size)
           Last == {e \in P : \A f \in P : ~Before(e, f)}
<1>0. /\ pc = "ask" /\ hasNext /\ query' = query /\ table' = table /\ touched' = touched
      /\ hasNext' = More(Found, Size)
      /\ \/ (hasNext' => P = {}) /\ Deliver(P) /\ cursor' = NoCursor
         \/ \E e \in Last : hasNext' /\ ~NoCursorValue(e) /\ Deliver(P) /\ cursor' = e
         \/ \E e \in Last : hasNext' /\ pc' = "failed" /\ pages' = pages /\ shown' = shown
  BY DEF AskPage, AskedWhileMore
<1>1. /\ Found \subseteq Entries /\ IsFiniteSet(Found) /\ Cardinality(Found) \in Nat
      /\ Found \subseteq [key : KeyOf(query), id : Id] /\ Size \in Nat \ {0}
  BY FoundTypes, QueryTypes
<1>2. SUFFICES ASSUME \A i \in Rows : Visible(i) => Reachable(i), touched = {}
               PROVE  /\ PageHasRows'
                      /\ pages' > 0 /\ hasNext' /\ pc' # "failed" => Found' # {}
  BY <1>0, ReachableStays DEF PromisedIsThere, Rows, Visible
<1>3. PageHasRows /\ (pages > 0 => Found # {}) /\ pages \in Nat
  BY <1>0, <1>2 DEF PromisedIsThere, TypeOK
<1>4. PageHasRows'
  <2>1. CASE pages' = pages /\ shown' = shown
    BY <1>0, <1>3, <2>1 DEF PageHasRows
  <2>2. CASE Deliver(P)
    <3>1. pages' = pages + 1
      BY <2>2 DEF Deliver
    <3>2. SUFFICES ASSUME pages + 1 > 1 PROVE \E e \in shown' : e.page = pages + 1
      BY <3>1 DEF PageHasRows
    <3>3. Found # {}
      BY <1>3, <3>2
    <3>4. PICK e \in P : TRUE
      BY <1>1, <3>3, PageNotEmpty
    <3>5. [key |-> e.key, id |-> e.id, page |-> pages + 1] \in shown'
      BY <2>2, <3>4 DEF Deliver
    <3>6. QED
      BY <3>5
  <2>3. QED
    BY <1>0, <2>1, <2>2
<1>5. ASSUME hasNext', pc' # "failed" PROVE Found' # {}
  <2>1. Cardinality(Found) > Size
    BY <1>0, <1>5 DEF More
  <2>2. Found # {} /\ P # {}
    <3>1. Found # {}
      BY <1>1, <2>1, FS_EmptySet
    <3>2. QED
      BY <1>1, <3>1, PageNotEmpty
  <2>3. PICK c \in Last : cursor' = c /\ c.key # Null
    BY <1>0, <1>5, <2>2 DEF NoCursorValue
  <2>4. PICK e \in Found : e \notin P
    BY <1>1, <2>1, RestIsFound
  <2>5. c \in P /\ c \in Found
    BY <2>3 DEF PageOf
  <2>6. Before(c, e)
    BY <1>1, <2>4, <2>5, RestComesAfter
  <2>7. After(e)'
    <3>1. PICK i \in Rows : Visible(i) /\ e = Entry(i)
      BY <2>4 DEF Found
    <3>2. Ascending => e.key # Null
      BY <1>2, <3>1 DEF Reachable, Entry
    <3>3. QED
      BY <1>0, <1>1, <2>3, <2>4, <2>5, <2>6, <3>2, AfterNewCursor
  <2>8. e \in {Entry(i) : i \in {j \in Rows : Visible(j)}}
    BY <2>4 DEF Found
  <2>9. e \in {Entry(i) : i \in {j \in Rows : Visible(j)}}'
    BY <1>0, <2>8 DEF Entry, Rows, Visible
  <2>10. QED
    BY <2>7, <2>9 DEF Found
<1>6. QED
  BY <1>4, <1>5

LEMMA AskPageShows ==
    ASSUME IInv, ShownIsThere, AskPage
    PROVE  ShownIsThere'
<1>1. /\ query' = query /\ table' = table /\ touched' = touched /\ pc' # "over"
      /\ \/ Deliver(PageOf(Found, Size))
         \/ shown' = shown
  BY DEF AskPage, Deliver
<1>2. SUFFICES ASSUME touched = {}, NEW s \in shown'
               PROVE  s.id \in Rows /\ Visible(s.id) /\ table[s.id].key = s.key
  BY <1>1 DEF ShownIsThere, Rows, Visible
<1>3. CASE s \in shown
  BY <1>2, <1>3 DEF ShownIsThere
<1>4. CASE s \notin shown
  <2>1. PICK e \in PageOf(Found, Size) : s = [key |-> e.key, id |-> e.id, page |-> pages + 1]
    BY <1>1, <1>2, <1>4 DEF Deliver
  <2>2. PICK i \in Rows : Visible(i) /\ e = Entry(i)
    BY DEF PageOf, Found
  <2>3. QED
    BY <2>1, <2>2 DEF Entry
<1>5. QED
  BY <1>3, <1>4

LEMMA CountTotalPromises ==
    ASSUME IInv, PromisedIsThere, ShownIsThere, CountTotal
    PROVE  PromisedIsThere' /\ ShownIsThere'
<1>1. /\ pc = "count" /\ total' = Cardinality(Matching)
      /\ UNCHANGED <<table, query, pages, cursor, hasNext, shown, touched>>
  BY DEF CountTotal
<1>2. /\ Found' = Found /\ Matching' = Matching /\ Rows' = Rows
      /\ (\A i \in Rows : Visible(i) => Reachable(i))' <=> \A i \in Rows : Visible(i) => Reachable(i)
  BY <1>1, FoundStays
<1>3. PromisedIsThere'
  BY <1>1, <1>2 DEF PromisedIsThere, PageHasRows
<1>4. ShownIsThere'
  BY <1>1, <1>2 DEF ShownIsThere, Visible
<1>5. QED
  BY <1>3, <1>4

LEMMA WritePromises ==
    ASSUME NEW i, NEW row, Write(i, row)
    PROVE  PromisedIsThere' /\ ShownIsThere'
BY DEF Write, PromisedIsThere, ShownIsThere

LEMMA PromisesKept == Spec => [](PromisedIsThere /\ ShownIsThere)
<1>1. Init => PromisedIsThere /\ ShownIsThere
  BY DEF Init, PromisedIsThere, ShownIsThere, PageHasRows
<1>2. IInv /\ PromisedIsThere /\ ShownIsThere /\ [Next]_vars => (PromisedIsThere /\ ShownIsThere)'
  <2>1. SUFFICES ASSUME IInv, PromisedIsThere, ShownIsThere, [Next]_vars
                 PROVE  PromisedIsThere' /\ ShownIsThere'
    OBVIOUS
  <2>2. CASE AskPage
    BY <2>1, <2>2, AskPagePromises, AskPageShows
  <2>3. CASE CountTotal
    BY <2>1, <2>3, CountTotalPromises
  <2>4. CASE \E i \in Id : Insert(i) \/ Change(i) \/ Delete(i) \/ Detach(i)
    BY <2>4, WritePromises DEF Insert, Change, Delete, Detach
  <2>5. CASE UNCHANGED vars
    <3>1. /\ table' = table /\ query' = query /\ pc' = pc /\ pages' = pages /\ cursor' = cursor
          /\ hasNext' = hasNext /\ total' = total /\ shown' = shown /\ touched' = touched
      BY <2>5 DEF vars, scanVars
    <3>2. /\ Found' = Found /\ Matching' = Matching /\ Rows' = Rows
          /\ (\A i \in Rows : Visible(i) => Reachable(i))' <=> \A i \in Rows : Visible(i) => Reachable(i)
      BY <3>1, FoundStays
    <3>3. QED
      BY <2>1, <3>1, <3>2 DEF PromisedIsThere, ShownIsThere, PageHasRows, Visible
  <2>6. QED
    BY <2>1, <2>2, <2>3, <2>4, <2>5 DEF Next, Done
<1>3. QED
  BY <1>1, <1>2, Invariant, PTL DEF Spec

(* If nothing is written and no row is out of reach, the page after        *)
(* hasNext has rows.                                                       *)
THEOREM PromisedPage == Spec => []NextPageExists
<1>1. PromisedIsThere => NextPageExists
  BY DEF PromisedIsThere, NextPageExists, PageHasRows
<1>2. QED
  BY <1>1, PromisesKept, PTL

(* If nothing is written, totalElements is the number of rows the pages    *)
(* have shown, unless matching jobs are of a deleted info or out of reach. *)
THEOREM TotalIsRight == Spec => []TotalElements
<1>1. IInv /\ ShownIsThere => TotalElements
  <2>1. SUFFICES ASSUME IInv, ShownIsThere, pc = "over", touched = {},
                        \A i \in Rows : table[i].matches => table[i].attached /\ Reachable(i)
                 PROVE  total = Cardinality(shown)
    BY DEF TotalElements, TotalIsShown
  <2>2. /\ total = Cardinality(Matching)
        /\ \A e \in shown : e.id \in Rows /\ Visible(e.id) /\ table[e.id].key = e.key
    BY <2>1 DEF ShownIsThere
  <2>4. ASSUME NEW i \in Matching PROVE \E e \in shown : e.id = i
    <3>1. i \in Rows /\ table[i].matches
      BY DEF Matching
    <3>2. Visible(i) /\ Reachable(i)
      BY <2>1, <3>1 DEF Visible
    <3>3. QED
      BY <2>1, <3>1, <3>2 DEF IInv, RestIsAhead, AskedWhileMore
  <2>5. ASSUME NEW a \in shown, NEW b \in shown, a.id = b.id PROVE a = b
    <3>1. a.key = b.key
      BY <2>2, <2>5
    <3>2. /\ a \in [key : KeyOf(query), id : Id, page : 1..pages]
          /\ b \in [key : KeyOf(query), id : Id, page : 1..pages]
          /\ pages \in Nat
      BY <2>1 DEF IInv, TypeOK
    <3>3. a.key \in Int /\ a.id \in Int /\ a.page \in Int /\ b.page \in Int
      BY <2>1, <3>2, ShownTypes DEF IInv
    <3>4. ~Before(a, b) /\ ~Before(b, a)
      BY <2>5, <3>1, <3>3 DEF Before, Less
    <3>5. ~(a.page < b.page) /\ ~(b.page < a.page)
      BY <2>1, <3>4 DEF IInv, PagesInOrder
    <3>6. a.page = b.page
      BY <3>3, <3>5
    <3>7. QED
      BY <2>5, <3>1, <3>2, <3>6
  <2>6. ExistsBijection(shown, Matching)
    <3> DEFINE f == [e \in shown |-> e.id]
    <3>1. f \in [shown -> Matching]
      BY <2>2 DEF Matching, Visible
    <3>2. \A a, b \in shown : f[a] = f[b] => a = b
      BY <2>5
    <3>3. \A i \in Matching : \E e \in shown : f[e] = i
      BY <2>4
    <3>4. f \in Bijection(shown, Matching)
      BY <3>1, <3>2, <3>3, Fun_IsBij
    <3>5. QED
      BY <3>4 DEF ExistsBijection
  <2>7. IsFiniteSet(Matching)
    <3>1. IsFiniteSet(Id) /\ Matching \subseteq Id
      BY FS_Interval DEF Id, Matching, Rows
    <3>2. QED
      BY <3>1, FS_Subset
  <2>8. ExistsBijection(Matching, shown)
    BY <2>6, Fun_ExistsBijSymmetric
  <2>9. QED
    BY <2>2, <2>7, <2>8, FS_Bijection
<1>2. QED
  BY <1>1, Invariant, PromisesKept, PTL

=============================================================================
