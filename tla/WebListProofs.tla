--------------------------- MODULE WebListProofs ---------------------------
(***************************************************************************)
(* Proofs about WebList: for any rows, filters, page size and number of    *)
(* user actions and requests, the store keeps its types, loads exactly     *)
(* while a request is in flight, shows its rows in strict order of their   *)
(* sort keys and, unless a refresh was skipped or failed, shows what the   *)
(* server has.                                                             *)
(***************************************************************************)
EXTENDS WebList, FiniteSetTheorems, FunctionTheorems, SequenceTheorems, WellFoundedInduction, TLAPS

USE ListAssumption, NullAssumption

-----------------------------------------------------------------------------
(* The order of a filter, and what a search returns.                       *)

(* A place has a row, no cursor has none.                                 *)
LEMMA NoCursorNoPlace == NoCursor \notin Place
BY DEF Place, NoCursor

(* The order of a filter is strict and total.                              *)
LEMMA Order ==
    ASSUME NEW f, NEW a \in Place, NEW b \in Place, NEW c \in Place
    PROVE  /\ ~After(f, a, a)
           /\ After(f, a, b) /\ After(f, b, c) => After(f, a, c)
           /\ After(f, a, b) \/ After(f, b, a) \/ a = b
<1>1. a # NoCursor /\ b # NoCursor
  BY NoCursorNoPlace
<1>2. /\ a.key \in Nat /\ b.key \in Nat /\ c.key \in Nat
      /\ a.row \in Nat /\ b.row \in Nat /\ c.row \in Nat
      /\ a.key = b.key /\ a.row = b.row => a = b
  <2>1. \A p \in Place : p.key \in Key /\ p.row \in Row /\ p = [key |-> p.key, row |-> p.row]
    BY DEF Place
  <2>2. Key \subseteq Nat /\ Row \subseteq Nat
    OBVIOUS
  <2>3. QED
    BY <2>1, <2>2
<1>3. /\ ~Before(a, a)
      /\ Before(a, b) /\ Before(b, c) => Before(a, c)
      /\ Before(c, b) /\ Before(b, a) => Before(c, a)
      /\ Before(a, b) \/ Before(b, a) \/ a = b
  BY <1>2 DEF Before
<1>4. QED
  BY <1>1, <1>3 DEF After

(* There are as many places as pairs of a sort key and a row.              *)
LEMMA FinitePlaces == IsFiniteSet(Place)
<1> DEFINE at == [pair \in Key \X Row |-> [key |-> pair[1], row |-> pair[2]]]
<1>1. IsFiniteSet(Key \X Row)
  BY FS_Product
<1>2. \A pair \in Key \X Row : at[pair] \in Place
  BY DEF Place
<1>3. \A p \in Place : \E pair \in Key \X Row : at[pair] = p
  <2>1. SUFFICES ASSUME NEW p \in Place PROVE \E pair \in Key \X Row : at[pair] = p
    OBVIOUS
  <2>2. p.key \in Key /\ p.row \in Row /\ p = [key |-> p.key, row |-> p.row]
    BY DEF Place
  <2>3. <<p.key, p.row>> \in Key \X Row /\ at[<<p.key, p.row>>] = p
    BY <2>2
  <2>4. QED
    BY <2>3
<1>4. at \in [Key \X Row -> Place]
  BY <1>2
<1> HIDE DEF at
<1>5. at \in Surjection(Key \X Row, Place)
  BY <1>3, <1>4, Fun_IsSurj
<1>6. QED
  BY <1>1, <1>5, FS_Surjection

(* The places found are places.                                            *)
LEMMA FoundPlaces ==
    ASSUME NEW f, NEW c
    PROVE  /\ Found(f, c) \in SUBSET Place
           /\ Found(f, c) = {p \in Found(f, NoCursor) : After(f, c, p)}
BY DEF Found, After

Preceding(f, R, r) == {x \in R : After(f, x, r)}

(* A row further back has more rows before it.                             *)
LEMMA PrecedingCount ==
    ASSUME NEW f, NEW R \in SUBSET Place
    PROVE  /\ IsFiniteSet(R) /\ Cardinality(R) \in Nat
           /\ \A r \in R : /\ Cardinality(Preceding(f, R, r)) \in Nat
                           /\ Cardinality(Preceding(f, R, r)) < Cardinality(R)
           /\ \A a, b \in R : After(f, a, b) =>
                 Cardinality(Preceding(f, R, a)) < Cardinality(Preceding(f, R, b))
<1>1. IsFiniteSet(R) /\ Cardinality(R) \in Nat
  BY FinitePlaces, FS_Subset, FS_CardinalityType
<1>2. ASSUME NEW r \in R
      PROVE  /\ IsFiniteSet(Preceding(f, R, r)) /\ Cardinality(Preceding(f, R, r)) \in Nat
             /\ Cardinality(Preceding(f, R, r)) < Cardinality(R)
  <2>1. Preceding(f, R, r) \subseteq R \ {r}
    BY Order DEF Preceding
  <2>2. IsFiniteSet(R \ {r}) /\ Cardinality(R \ {r}) = Cardinality(R) - 1
    BY <1>1, FS_RemoveElement
  <2>3. /\ IsFiniteSet(Preceding(f, R, r))
        /\ Cardinality(Preceding(f, R, r)) <= Cardinality(R \ {r})
    BY <2>1, <2>2, FS_Subset
  <2>4. Cardinality(Preceding(f, R, r)) \in Nat
    BY <2>3, FS_CardinalityType
  <2>5. QED
    BY <1>1, <2>2, <2>3, <2>4
<1>3. ASSUME NEW a \in R, NEW b \in R, After(f, a, b)
      PROVE  Cardinality(Preceding(f, R, a)) < Cardinality(Preceding(f, R, b))
  <2>1. /\ Preceding(f, R, a) \subseteq Preceding(f, R, b)
        /\ Preceding(f, R, a) # Preceding(f, R, b)
    BY <1>3, Order DEF Preceding
  <2>2. /\ Cardinality(Preceding(f, R, a)) <= Cardinality(Preceding(f, R, b))
        /\ Cardinality(Preceding(f, R, a)) # Cardinality(Preceding(f, R, b))
    BY <1>2, <2>1, FS_Subset
  <2>3. QED
    BY <1>2, <2>2
<1>4. QED
  BY <1>1, <1>2, <1>3

(* Sorted by rank, a set of rows is a sequence in the order of the filter. *)
LEMMA Sorted ==
    ASSUME NEW f, NEW R \in SUBSET Place
    PROVE  /\ Cardinality(R) \in Nat
           /\ InOrder(f, R) \in [1..Cardinality(R) -> R]
           /\ \A i, j \in 1..Cardinality(R) : i < j => After(f, InOrder(f, R)[i], InOrder(f, R)[j])
<1> DEFINE n    == Cardinality(R)
           rank == [r \in R |-> Cardinality(Preceding(f, R, r)) + 1]
<1>1. n \in Nat
  BY PrecedingCount
<1>2. \A a, b \in R : a # b => After(f, a, b) \/ After(f, b, a)
  BY Order
<1>3. /\ \A r \in R : rank[r] \in Nat /\ rank[r] >= 1 /\ rank[r] <= n
      /\ \A a, b \in R : After(f, a, b) => rank[a] < rank[b]
  <2>1. \A r \in R : rank[r] = Cardinality(Preceding(f, R, r)) + 1
    OBVIOUS
  <2>2. /\ \A r \in R : /\ Cardinality(Preceding(f, R, r)) \in Nat
                        /\ Cardinality(Preceding(f, R, r)) < n
        /\ \A a, b \in R : After(f, a, b) =>
              Cardinality(Preceding(f, R, a)) < Cardinality(Preceding(f, R, b))
    BY PrecedingCount
  <2> HIDE DEF n, rank
  <2>3. \A r \in R : rank[r] \in Nat /\ rank[r] >= 1 /\ rank[r] <= n
    BY <1>1, <2>1, <2>2
  <2>4. \A a, b \in R : After(f, a, b) => rank[a] < rank[b]
    BY <2>1, <2>2
  <2>5. QED
    BY <2>3, <2>4
<1> HIDE DEF n
<1>4. rank \in [R -> 1..n]
  BY <1>1, <1>3
<1> HIDE DEF rank
<1>5. \A a, b \in R : rank[a] = rank[b] => a = b
  BY <1>2, <1>3
<1>6. \A k \in 1..n : \E r \in R : rank[r] = k
  <2>1. rank \in Injection(R, 1..n)
    BY <1>4, <1>5, Fun_IsInj
  <2>2. IsFiniteSet(1..n) /\ Cardinality(1..n) = n
    <3>1. 1 \in Int /\ n \in Int
      BY <1>1
    <3>2. IsFiniteSet(1..n) /\ Cardinality(1..n) = IF 1 > n THEN 0 ELSE n - 1 + 1
      BY <3>1, FS_Interval
    <3>3. QED
      BY <1>1, <3>2
  <2>3. rank \in Surjection(R, 1..n)
    BY <2>1, <2>2, FS_Injection DEF n
  <2>4. QED
    BY <2>3 DEF Surjection
<1> DEFINE s == [k \in 1..n |-> CHOOSE r \in R : rank[r] = k]
<1>7. s \in [1..n -> R] /\ \A k \in 1..n : rank[s[k]] = k
  BY <1>6
<1> HIDE DEF s
<1>8. \A i, j \in 1..n : i < j => After(f, s[i], s[j])
  <2>1. SUFFICES ASSUME NEW i \in 1..n, NEW j \in 1..n, i < j PROVE After(f, s[i], s[j])
    OBVIOUS
  <2>2. s[i] \in R /\ s[j] \in R /\ rank[s[i]] = i /\ rank[s[j]] = j
    BY <1>7
  <2>3. s[i] # s[j]
    BY <2>1, <2>2
  <2>4. After(f, s[j], s[i]) => rank[s[j]] < rank[s[i]]
    BY <1>3, <2>2
  <2>5. ~(rank[s[j]] < rank[s[i]])
    BY <1>1, <2>1, <2>2
  <2>6. QED
    BY <1>2, <2>2, <2>3, <2>4, <2>5
<1>9. \E t \in [1..n -> R] : \A i, j \in DOMAIN t : i < j => After(f, t[i], t[j])
  BY <1>7, <1>8
<1>10. QED
  BY <1>1, <1>9 DEF InOrder, n

(* What a search finds, in its order, each row after the cursor.           *)
LEMMA EntriesAre ==
    ASSUME table \in [Row -> Content \cup {Gone}], NEW f \in Filter, NEW c \in Place \cup {NoCursor}
    PROVE  /\ Entries(f, c) \in Seq(Entry)
           /\ Rising(f, Entries(f, c))
           /\ \A i \in DOMAIN Entries(f, c) : After(f, c, Entries(f, c)[i].place)
           /\ Cardinality(Found(f, c)) \in Nat
<1> DEFINE R    == Found(f, c)
           places == InOrder(f, R)
           n    == Cardinality(R)
<1>1. R \subseteq Place /\ \A p \in R : After(f, c, p) /\ table[p.row].tag \in f.want
  BY DEF Found
<1>2. f.want \subseteq Tag
  OBVIOUS
<1>3. n \in Nat /\ places \in [1..n -> R] /\ \A i, j \in 1..n : i < j => After(f, places[i], places[j])
  BY <1>1, Sorted
<1> HIDE DEF R, places, n
<1>4. Entries(f, c) = [i \in 1..n |-> [place |-> places[i], tag |-> table[places[i].row].tag]]
  BY <1>3 DEF Entries, R, places
<1>5. \A i \in 1..n : [place |-> places[i], tag |-> table[places[i].row].tag] \in Entry
  <2>1. SUFFICES ASSUME NEW i \in 1..n PROVE [place |-> places[i], tag |-> table[places[i].row].tag] \in Entry
    OBVIOUS
  <2>2. places[i] \in R
    BY <1>3
  <2>3. places[i] \in Place /\ table[places[i].row].tag \in Tag
    BY <1>1, <1>2, <2>2
  <2>4. QED
    BY <2>3 DEF Entry
<1>6. Entries(f, c) \in Seq(Entry) /\ DOMAIN Entries(f, c) = 1..n
  BY <1>3, <1>4, <1>5
<1>7. \A i \in 1..n : Entries(f, c)[i].place = places[i] /\ places[i] \in R
  BY <1>3, <1>4
<1>8. Rising(f, Entries(f, c))
  BY <1>3, <1>6, <1>7 DEF Rising
<1>9. \A i \in 1..n : After(f, c, Entries(f, c)[i].place)
  BY <1>1, <1>7
<1>10. QED
  BY <1>3, <1>6, <1>8, <1>9 DEF n, R

(* An answer is in order and goes on after the cursor.                     *)
LEMMA SearchFits ==
    ASSUME table \in [Row -> Content \cup {Gone}], NEW f \in Filter, NEW c \in Place \cup {NoCursor}
    PROVE  Search(f, c) \in Answer /\ Continues(Search(f, c), f, c)
<1> DEFINE all  == Entries(f, c)
           more == Len(all) > PageSize
           page == IF more THEN SubSeq(all, 1, PageSize) ELSE all
           next == IF more THEN all[PageSize].place ELSE NoCursor
           a    == Search(f, c)
<1>1. all \in Seq(Entry) /\ Rising(f, all) /\ \A i \in DOMAIN all : After(f, c, all[i].place)
  BY EntriesAre
<1>2. Cardinality(Found(f, NoCursor)) \in Nat
  BY EntriesAre
<1>3. a.content = page /\ a.cursor = next /\ a.hasNext = more
  BY DEF Search
<1>4. a = [content |-> page, cursor |-> next, hasNext |-> more, total |-> Cardinality(Found(f, NoCursor))]
  BY DEF Search
<1> HIDE DEF all, a
<1>5. Len(all) \in Nat /\ DOMAIN all = 1..Len(all) /\ \A i \in 1..Len(all) : all[i] \in Entry
  BY <1>1, LenProperties, ElementOfSeq
<1>6. PageSize \in Nat /\ PageSize >= 1
  OBVIOUS
<1>7. CASE more
  <2>1. \A i \in 1..PageSize : all[i] \in Entry
    BY <1>5, <1>6, <1>7
  <2>2. /\ page \in Seq(Entry) /\ Len(page) = PageSize
        /\ \A i \in 1 .. PageSize - 1 + 1 : page[i] = all[1 + i - 1]
    BY <1>6, <1>7, <2>1, SubSeqProperties
  <2>3. \A i \in 1..PageSize : page[i] = all[i]
    BY <1>6, <2>2
  <2>4. DOMAIN page = 1..PageSize
    BY <2>2, LenProperties
  <2>5. next = all[PageSize].place /\ all[PageSize] \in Entry
    BY <1>6, <1>7, <2>1
  <2>6. next \in Place
    BY <2>5 DEF Entry
  <2> HIDE DEF page, next
  <2>7. a \in Answer
    BY <1>2, <1>4, <1>7, <2>2, <2>6 DEF Answer
  <2>8. Rising(f, page) /\ \A i \in DOMAIN page : After(f, c, page[i].place)
    BY <1>1, <1>5, <1>6, <1>7, <2>3, <2>4 DEF Rising
  <2>9. EndsAt(page, next)
    <3>1. page # << >>
      BY <1>6, <2>2
    <3>2. page[Len(page)] = all[PageSize]
      BY <1>6, <2>2, <2>3
    <3>3. QED
      BY <2>5, <3>1, <3>2 DEF EndsAt
  <2>10. QED
    BY <1>3, <2>7, <2>8, <2>9 DEF Continues, a
<1>8. CASE ~more
  <2>1. page = all /\ next = NoCursor
    BY <1>8
  <2>2. a \in Answer
    BY <1>1, <1>2, <1>4, <1>8, <2>1 DEF Answer
  <2>3. QED
    BY <1>1, <1>3, <1>8, <2>1, <2>2 DEF Continues, a
<1>9. QED
  BY <1>7, <1>8

-----------------------------------------------------------------------------
(* What every action keeps alike.                                          *)

(* The list with the same rows, cursor and promise, from the same pages.   *)
SameRows(items, others) ==
    /\ Len(others) = Len(items) /\ DOMAIN others = DOMAIN items
    /\ \A i \in DOMAIN items : others[i].place = items[i].place

(* A list with the same rows goes on as before.                            *)
LEMMA SameList ==
    ASSUME OneListing, origin' = origin, list.items \in Seq(Entry),
           SameRows(list.items, list'.items), list'.items \in Seq(Entry),
           list'.hasNext = list.hasNext, list'.cursor = list.cursor
    PROVE  OneListing'
<1>1. SUFFICES ASSUME NEW f \in Filter, origin = {f}
               PROVE  /\ Rising(f, list'.items)
                      /\ list'.hasNext => EndsAt(list'.items, list'.cursor)
  BY DEF OneListing, Rising, EndsAt, After
<1>2. Rising(f, list.items) /\ (list.hasNext => EndsAt(list.items, list.cursor))
  BY <1>1 DEF OneListing
<1>3. Rising(f, list'.items)
  BY <1>2 DEF Rising, SameRows
<1>4. ASSUME list.hasNext PROVE EndsAt(list'.items, list.cursor)
  <2>1. list.items # << >> /\ list.cursor = list.items[Len(list.items)].place
    BY <1>2, <1>4 DEF EndsAt
  <2>2. Len(list.items) \in DOMAIN list.items
    BY <2>1, LenProperties
  <2>3. list'.items # << >>
    BY <2>2 DEF SameRows
  <2>4. QED
    BY <2>1, <2>2, <2>3 DEF EndsAt, SameRows
<1>5. QED
  BY <1>3, <1>4

(* A list has the rows it has.                                             *)
LEMMA ItselfSameRows ==
    ASSUME NEW items \in Seq(Entry)
    PROVE  SameRows(items, items)
BY DEF SameRows

(* A switch changes no row of the list.                                    *)
LEMMA Relabelled ==
    ASSUME NEW items \in Seq(Entry), NEW r, NEW tag \in Tag
    PROVE  Relabel(items, r, tag) \in Seq(Entry) /\ SameRows(items, Relabel(items, r, tag))
<1> DEFINE new == [i \in DOMAIN items |->
                     IF items[i].place.row = r THEN [items[i] EXCEPT !.tag = tag] ELSE items[i]]
<1>1. DOMAIN items = 1..Len(items) /\ Len(items) \in Nat /\ \A i \in 1..Len(items) : items[i] \in Entry
  BY LenProperties, ElementOfSeq
<1>2. \A i \in 1..Len(items) : /\ (IF items[i].place.row = r THEN [items[i] EXCEPT !.tag = tag] ELSE items[i]) \in Entry
                               /\ (IF items[i].place.row = r THEN [items[i] EXCEPT !.tag = tag] ELSE items[i]).place = items[i].place
  BY <1>1 DEF Entry
<1>3. new \in Seq(Entry) /\ Len(new) = Len(items) /\ DOMAIN new = DOMAIN items
  BY <1>1, <1>2
<1>4. \A i \in DOMAIN items : new[i].place = items[i].place
  BY <1>1, <1>2
<1> HIDE DEF new
<1>5. new = Relabel(items, r, tag)
  BY DEF new, Relabel
<1>6. QED
  BY <1>3, <1>4, <1>5 DEF SameRows

(* What the types say of the store and the load.                           *)
LEMMA Parts ==
    ASSUME TypeOK
    PROVE  /\ list \in Store /\ list.items \in Seq(Entry) /\ list.hasNext \in BOOLEAN
           /\ list.cursor \in Place \cup {NoCursor} /\ list.filters \in Filter
           /\ origin \subseteq Filter /\ missed \in BOOLEAN /\ mounted \in BOOLEAN
           /\ load # NoLoad => load \in Load
           /\ list.isLoading <=> (load # NoLoad)
BY DEF TypeOK, Store

(* The load in flight stays as it is.                                      *)
LEMMA LoadStays ==
    ASSUME ListInv, UNCHANGED <<kind, load, origin>>,
           list' \in Store, SameRows(list.items, list'.items),
           list'.isLoading = list.isLoading, list'.hasNext = list.hasNext, list'.cursor = list.cursor,
           table' \in [Row -> Content \cup {Gone}], mounted' \in BOOLEAN, missed' \in BOOLEAN,
           CallsOK', BudgetOK'
    PROVE  ListInv'
<1>1. TypeOK'
  BY DEF ListInv, TypeOK
<1>2. OneListing'
  BY SameList, Parts DEF ListInv, Store
<1>3. GoesOn'
  BY DEF ListInv, GoesOn, Rising, EndsAt, After
<1>4. AnswerFits'
  BY DEF ListInv, AnswerFits, Continues, Rising, EndsAt, After
<1>5. QED
  BY <1>1, <1>2, <1>3, <1>4 DEF ListInv

(* A first page is asked for.                                              *)
LEMMA FirstPageAsked ==
    ASSUME ListInv, UNCHANGED <<kind, table, origin>>, NEW f \in Filter, load' = FirstPage(f),
           list' \in Store, list'.items = list.items,
           list'.isLoading, list'.hasNext = list.hasNext, list'.cursor = list.cursor,
           mounted' \in BOOLEAN, missed' \in BOOLEAN, CallsOK', BudgetOK'
    PROVE  ListInv'
<1>1. FirstPage(f) \in Load
  <2>1. << >> \in Seq(Entry)
    BY EmptySeq
  <2>2. QED
    BY <2>1 DEF FirstPage, Load
<1>2. FirstPage(f) # NoLoad
  BY <1>1
<1>3. TypeOK'
  BY <1>1, <1>2 DEF ListInv, TypeOK
<1>4. OneListing'
  BY SameList, ItselfSameRows, Parts DEF ListInv
<1>5. load'.first /\ load'.before = << >> /\ load'.cursor = NoCursor /\ load'.answer = NoAnswer
  BY DEF FirstPage
<1>6. GoesOn'
  BY <1>5 DEF ListInv, GoesOn
<1>7. AnswerFits'
  BY <1>5 DEF AnswerFits
<1>8. QED
  BY <1>3, <1>4, <1>6, <1>7 DEF ListInv

(* A fetch asks for a first page, or does nothing.                         *)
LEMMA FetchHolds ==
    ASSUME ListInv, UNCHANGED <<kind, table, origin>>,
           NEW l \in Store, l.items = list.items, l.isLoading = list.isLoading,
           l.hasNext = list.hasNext, l.cursor = list.cursor,
           NEW wrote \in BOOLEAN, Fetch(l, wrote),
           mounted' \in BOOLEAN, CallsOK', BudgetOK'
    PROVE  ListInv'
<1>1. CASE l.isLoading
  <2>1. list' = l /\ load' = load
    BY <1>1 DEF Fetch
  <2>2. missed' = (missed \/ load.filters # l.filters \/ (wrote /\ ~(load.first /\ load.answer = NoAnswer)))
    BY <1>1 DEF Fetch
  <2>3. missed' \in BOOLEAN
    BY <2>2, Zenon
  <2>4. SameRows(list.items, list'.items)
    BY <2>1, ItselfSameRows, Parts DEF ListInv
  <2>5. table' \in [Row -> Content \cup {Gone}]
    BY DEF ListInv, TypeOK
  <2>6. QED
    BY <2>1, <2>3, <2>4, <2>5, LoadStays
<1>2. CASE ~l.isLoading
  <2>1. /\ list' = [l EXCEPT !.isLoading = TRUE, !.error = FALSE]
        /\ load' = FirstPage(l.filters) /\ missed' = FALSE
    BY <1>2 DEF Fetch
  <2>2. /\ list' \in Store /\ list'.items = list.items /\ list'.isLoading
        /\ list'.hasNext = list.hasNext /\ list'.cursor = list.cursor /\ l.filters \in Filter
    BY <2>1 DEF Store
  <2>3. QED
    BY <2>1, <2>2, FirstPageAsked
<1>3. QED
  BY <1>1, <1>2

-----------------------------------------------------------------------------
(* One action at a time.                                                   *)

(* Nothing is shown and nothing in flight.                                 *)
LEMMA InitHolds == Init => ListInv
<1> SUFFICES ASSUME Init PROVE ListInv
  OBVIOUS
<1>1. << >> \in Seq(Entry) /\ EmptyList \in Store
  <2>1. << >> \in Seq(Entry)
    BY EmptySeq
  <2>2. QED
    BY <2>1 DEF EmptyList, Store
<1>2. CallsOK /\ BudgetOK
  BY FS_EmptySet DEF Init, CallsOK, BudgetOK
<1>3. table \in [Row -> Content \cup {Gone}]
  BY DEF Init
<1>4. ~list.isLoading /\ ~list.hasNext /\ load = NoLoad /\ origin = {}
  BY DEF Init, EmptyList
<1>5. TypeOK
  BY <1>1, <1>2, <1>3, <1>4 DEF Init, TypeOK
<1>6. OneListing /\ GoesOn /\ AnswerFits
  BY <1>4 DEF OneListing, GoesOn, AnswerFits
<1>7. QED
  BY <1>5, <1>6 DEF ListInv

(* An action of the user takes one of the budget; the calls stay.          *)
LEMMA Spent ==
    /\ BudgetOK /\ Acts => BudgetOK'
    /\ BudgetOK /\ Fails => BudgetOK'
    /\ BudgetOK /\ UNCHANGED budget => BudgetOK'
<1>1. MaxActions \in Nat /\ MaxFailures \in Nat
  OBVIOUS
<1>2. QED
  BY <1>1 DEF BudgetOK, Acts, Fails, budget

(* A page that opens fetches in one of three ways.                         *)
LEMMA OpenPageHolds ==
    ASSUME ListInv, OpenPage
    PROVE  ListInv'
<1>1. UNCHANGED <<kind, table, calls, origin>> /\ mounted' \in BOOLEAN
  BY DEF OpenPage
<1>2. CallsOK' /\ BudgetOK'
  BY <1>1, Spent DEF OpenPage, ListInv, TypeOK, CallsOK
<1>3. list \in Store /\ Default \in Filter /\ list.filters \in Filter
  BY Parts DEF ListInv
<1> DEFINE l == [list EXCEPT !.filters = Default]
<1>4. l \in Store /\ l.items = list.items /\ l.isLoading = list.isLoading
      /\ l.hasNext = list.hasNext /\ l.cursor = list.cursor
  BY <1>3 DEF Store
<1> HIDE DEF l
<1>5. CASE Fetch(l, FALSE)
  BY <1>1, <1>2, <1>4, <1>5, FetchHolds
<1>6. CASE Fetch(list, FALSE)
  BY <1>1, <1>2, <1>3, <1>6, FetchHolds
<1>7. CASE /\ list' = [list EXCEPT !.filters = Default, !.isLoading = TRUE, !.error = FALSE]
           /\ load' = FirstPage(list.filters)
           /\ missed' = (list.filters # Default)
  <2>1. list' \in Store /\ list'.items = list.items /\ list'.isLoading
        /\ list'.hasNext = list.hasNext /\ list'.cursor = list.cursor
    BY <1>3, <1>7 DEF Store
  <2>2. missed' \in BOOLEAN
    BY <1>7, Zenon
  <2>3. QED
    BY <1>1, <1>2, <1>3, <1>7, <2>1, <2>2, FirstPageAsked
<1>8. kind \in {"data", "jobs", "infos", "configs"}
  BY DEF ListInv, TypeOK
<1>9. QED
  BY <1>5, <1>6, <1>7, <1>8 DEF OpenPage, RunEffects, l

(* Other filters are fetched at once.                                      *)
LEMMA SetFiltersHolds ==
    ASSUME ListInv, NEW f \in Filter, SetFilters(f)
    PROVE  ListInv'
<1>1. UNCHANGED <<kind, table, calls, origin>> /\ mounted' \in BOOLEAN
  BY Parts DEF SetFilters, ListInv
<1>2. CallsOK' /\ BudgetOK'
  BY <1>1, Spent DEF SetFilters, ListInv, TypeOK, CallsOK
<1> DEFINE l == [list EXCEPT !.filters = f]
<1>3. list \in Store
  BY Parts DEF ListInv
<1>4. l \in Store /\ l.items = list.items /\ l.isLoading = list.isLoading
      /\ l.hasNext = list.hasNext /\ l.cursor = list.cursor
  BY <1>3 DEF Store
<1>5. Fetch(l, FALSE)
  BY DEF SetFilters, RunEffects
<1> HIDE DEF l
<1>6. QED
  BY <1>1, <1>2, <1>4, <1>5, FetchHolds

(* The store outlives the page.                                            *)
LEMMA LeavePageHolds ==
    ASSUME ListInv, LeavePage
    PROVE  ListInv'
<1>1. UNCHANGED <<kind, table, list, load, calls, origin, missed>> /\ mounted' \in BOOLEAN
  BY DEF LeavePage
<1>2. CallsOK' /\ BudgetOK'
  BY <1>1, Spent DEF LeavePage, ListInv, TypeOK, CallsOK
<1>3. SameRows(list.items, list'.items) /\ list' \in Store /\ missed' \in BOOLEAN
      /\ table' \in [Row -> Content \cup {Gone}]
  BY <1>1, ItselfSameRows, Parts DEF ListInv, TypeOK
<1>4. QED
  BY <1>1, <1>2, <1>3, LoadStays

(* The next page goes on behind the rows of the store.                     *)
LEMMA FetchNextHolds ==
    ASSUME ListInv, FetchNext
    PROVE  ListInv'
<1>1. /\ list.hasNext /\ UNCHANGED <<kind, table, mounted, calls, origin, missed, budget>>
      /\ list' = [list EXCEPT !.isLoading = TRUE, !.error = FALSE]
      /\ load' = [first |-> FALSE, filters |-> list.filters, cursor |-> list.cursor,
                  before |-> list.items, answer |-> NoAnswer]
  BY DEF FetchNext
<1>2. list \in Store /\ list.items \in Seq(Entry) /\ list.filters \in Filter
      /\ list.cursor \in Place \cup {NoCursor}
  BY Parts DEF ListInv
<1>3. load' \in Load
  BY <1>1, <1>2 DEF Load
<1>4. /\ list' \in Store /\ list'.items = list.items /\ list'.isLoading
      /\ list'.hasNext = list.hasNext /\ list'.cursor = list.cursor
  BY <1>1, <1>2 DEF Store
<1>5. TypeOK'
  <2>1. CallsOK' /\ BudgetOK'
    BY <1>1, Spent DEF ListInv, TypeOK, CallsOK
  <2>2. load' # NoLoad
    BY <1>3
  <2>3. QED
    BY <1>1, <1>3, <1>4, <2>1, <2>2 DEF ListInv, TypeOK
<1>6. OneListing'
  BY <1>1, <1>2, <1>4, SameList, ItselfSameRows DEF ListInv
<1>7. GoesOn'
  <2>1. ~load'.first /\ load'.before = list.items /\ load'.cursor = list.cursor
    BY <1>1
  <2>2. origin # {}
    BY <1>1 DEF ListInv, GoesOn
  <2>3. ASSUME NEW f \in Filter, origin = {f}
        PROVE  Rising(f, list.items) /\ EndsAt(list.items, list.cursor)
    BY <1>1, <2>3 DEF ListInv, OneListing
  <2>4. QED
    BY <1>1, <2>1, <2>2, <2>3 DEF GoesOn, Rising, EndsAt, After
<1>8. AnswerFits'
  BY <1>1 DEF AnswerFits
<1>9. QED
  BY <1>5, <1>6, <1>7, <1>8 DEF ListInv

(* The answer has what comes after the cursor.                             *)
LEMMA ServeHolds ==
    ASSUME ListInv, Serve
    PROVE  ListInv'
<1>1. /\ load # NoLoad
      /\ load' = [load EXCEPT !.answer = Search(load.filters, load.cursor)]
      /\ UNCHANGED <<kind, table, mounted, list, calls, origin, missed, budget>>
  BY DEF Serve
<1>2. load \in Load /\ load.filters \in Filter /\ load.cursor \in Place \cup {NoCursor}
  BY <1>1, Parts DEF ListInv, Load
<1>3. /\ Search(load.filters, load.cursor) \in Answer
      /\ Continues(Search(load.filters, load.cursor), load.filters, load.cursor)
  BY <1>2, SearchFits DEF ListInv, TypeOK
<1> DEFINE a == Search(load.filters, load.cursor)
<1> HIDE DEF a
<1>4. /\ load' \in Load /\ load'.answer = a /\ load'.filters = load.filters
      /\ load'.cursor = load.cursor /\ load'.first = load.first /\ load'.before = load.before
  BY <1>1, <1>2, <1>3 DEF Load, a
<1>5. load' # NoLoad
  BY <1>4
<1>6. TypeOK'
  <2>1. CallsOK' /\ BudgetOK'
    BY <1>1, Spent DEF ListInv, TypeOK, CallsOK
  <2>2. QED
    BY <1>1, <1>4, <1>5, <2>1 DEF ListInv, TypeOK
<1>7. OneListing'
  BY <1>1, SameList, ItselfSameRows, Parts DEF ListInv
<1>8. GoesOn'
  BY <1>1, <1>4 DEF ListInv, GoesOn, Rising, EndsAt, After
<1>9. AnswerFits'
  BY <1>3, <1>4 DEF AnswerFits, Continues, Rising, EndsAt, After, a
<1>10. QED
  BY <1>6, <1>7, <1>8, <1>9 DEF ListInv

(* Two sequences in order, the second after the last row of the first.     *)
LEMMA Joined ==
    ASSUME NEW f \in Filter, NEW s \in Seq(Entry), NEW t \in Seq(Entry), NEW c,
           Rising(f, s), EndsAt(s, c), Rising(f, t), \A i \in DOMAIN t : After(f, c, t[i].place)
    PROVE  /\ s \o t \in Seq(Entry) /\ Rising(f, s \o t)
           /\ t # << >> => (s \o t)[Len(s \o t)] = t[Len(t)] /\ s \o t # << >>
<1> DEFINE m == Len(s)
           n == Len(t)
           u == s \o t
<1>1. /\ m \in Nat /\ n \in Nat /\ DOMAIN s = 1..m /\ DOMAIN t = 1..n
      /\ \A i \in 1..m : s[i].place \in Place
      /\ \A i \in 1..n : t[i].place \in Place
  <2>1. /\ m \in Nat /\ n \in Nat /\ DOMAIN s = 1..m /\ DOMAIN t = 1..n
        /\ \A i \in 1..m : s[i] \in Entry
        /\ \A i \in 1..n : t[i] \in Entry
    BY LenProperties, ElementOfSeq
  <2> HIDE DEF m, n
  <2>2. \A e \in Entry : e.place \in Place
    BY DEF Entry
  <2>3. QED
    BY <2>1, <2>2
<1>2. u \in Seq(Entry) /\ Len(u) = m + n
      /\ \A i \in 1 .. m + n : u[i] = IF i <= m THEN s[i] ELSE t[i - m]
  BY ConcatProperties
<1>3. m >= 1 /\ c = s[m].place
  BY <1>1, EmptySeq DEF EndsAt
<1>4. DOMAIN u = 1 .. m + n
  BY <1>2, LenProperties
<1> HIDE DEF m, n, u
<1>5. ASSUME NEW i \in 1 .. m + n, NEW j \in 1 .. m + n, i < j
      PROVE  After(f, u[i].place, u[j].place)
  <2>1. CASE j <= m
    <3>1. i \in 1..m /\ j \in 1..m /\ u[i] = s[i] /\ u[j] = s[j]
      BY <1>1, <1>2, <1>5, <2>1
    <3>2. QED
      BY <1>1, <1>5, <3>1 DEF Rising
  <2>2. CASE i > m
    <3>1. i - m \in 1..n /\ j - m \in 1..n /\ u[i] = t[i - m] /\ u[j] = t[j - m] /\ i - m < j - m
      BY <1>1, <1>2, <1>5, <2>2
    <3>2. QED
      BY <1>1, <3>1 DEF Rising
  <2>3. CASE i <= m /\ j > m
    <3>1. i \in 1..m /\ j - m \in 1..n /\ u[i] = s[i] /\ u[j] = t[j - m] /\ m \in 1..m
      BY <1>1, <1>2, <1>3, <1>5, <2>3
    <3>2. s[i].place = c \/ After(f, s[i].place, c)
      <4>1. CASE i = m
        BY <1>3, <4>1
      <4>2. CASE i < m
        BY <1>1, <1>3, <3>1, <4>2 DEF Rising
      <4>3. QED
        BY <1>1, <3>1, <4>1, <4>2
    <3>3. After(f, c, t[j - m].place)
      BY <1>1, <3>1
    <3>4. c \in Place /\ s[i].place \in Place /\ t[j - m].place \in Place
      BY <1>1, <1>3, <3>1
    <3>5. CASE s[i].place = c
      BY <3>1, <3>3, <3>5
    <3>6. CASE After(f, s[i].place, c)
      <4>1. \A p, q, r \in Place : After(f, p, q) /\ After(f, q, r) => After(f, p, r)
        BY Order
      <4>2. After(f, s[i].place, t[j - m].place)
        BY <3>3, <3>4, <3>6, <4>1
      <4>3. QED
        BY <3>1, <4>2
    <3>7. QED
      BY <3>2, <3>5, <3>6
  <2>4. QED
    BY <1>1, <2>1, <2>2, <2>3
<1>6. Rising(f, u)
  BY <1>4, <1>5 DEF Rising
<1>7. ASSUME t # << >> PROVE u[m + n] = t[n] /\ u # << >>
  <2>1. n >= 1
    BY <1>1, <1>7, EmptySeq DEF n
  <2>2. m + n \in 1 .. m + n /\ ~(m + n <= m) /\ m + n - m = n
    BY <1>1, <2>1
  <2>3. u[m + n] = t[n]
    BY <1>1, <1>2, <2>2
  <2>4. u # << >>
    BY <1>4, <2>2
  <2>5. QED
    BY <2>3, <2>4
<1>8. QED
  BY <1>2, <1>6, <1>7 DEF m, n, u

(* An answer is put behind the rows it was asked for behind.               *)
LEMMA DeliverHolds ==
    ASSUME ListInv, Deliver
    PROVE  ListInv'
<1> DEFINE a == load.answer
<1>1. /\ load # NoLoad /\ a # NoAnswer
      /\ list' = [list EXCEPT !.items = load.before \o a.content, !.isLoading = FALSE,
                              !.hasNext = a.hasNext, !.cursor = a.cursor,
                              !.total = IF load.first THEN a.total ELSE @]
      /\ origin' = {load.filters} \cup IF load.first THEN {} ELSE origin
      /\ load' = NoLoad
      /\ UNCHANGED <<kind, table, mounted, calls, missed, budget>>
  BY DEF Deliver
<1>2. /\ load \in Load /\ load.filters \in Filter /\ load.before \in Seq(Entry)
      /\ list \in Store /\ list.total \in Nat /\ origin \subseteq Filter
  BY <1>1, Parts DEF ListInv, Load, Store
<1>3. a \in Answer
  BY <1>1, <1>2 DEF Load
<1>4. /\ a.content \in Seq(Entry) /\ a.hasNext \in BOOLEAN /\ a.cursor \in Place \cup {NoCursor}
      /\ a.total \in Nat
  BY <1>3 DEF Answer
<1>5. Continues(a, load.filters, load.cursor)
  BY <1>1 DEF ListInv, AnswerFits
<1> HIDE DEF a
<1> DEFINE items == load.before \o a.content
<1>6. items \in Seq(Entry)
  BY <1>2, <1>4, ConcatProperties
<1> HIDE DEF items
<1>7. /\ list' \in Store /\ list'.items = items /\ list'.hasNext = a.hasNext
      /\ list'.cursor = a.cursor /\ ~list'.isLoading
  BY <1>1, <1>2, <1>4, <1>6 DEF Store, items
<1>8. TypeOK'
  <2>1. CallsOK' /\ BudgetOK'
    BY <1>1, Spent DEF ListInv, TypeOK, CallsOK
  <2>2. origin' \subseteq Filter
    BY <1>1, <1>2
  <2>3. QED
    BY <1>1, <1>7, <2>1, <2>2 DEF ListInv, TypeOK
<1>9. ASSUME NEW f \in Filter, origin' = {f}
      PROVE  Rising(f, items) /\ (a.hasNext => EndsAt(items, a.cursor))
  <2>1. f = load.filters
    BY <1>1, <1>9
  <2>2. Rising(f, a.content) /\ (\A i \in DOMAIN a.content : After(f, load.cursor, a.content[i].place))
        /\ (a.hasNext => EndsAt(a.content, a.cursor))
    BY <1>5, <2>1 DEF Continues
  <2>3. CASE load.first
    <3>1. load.before = << >>
      BY <1>1, <2>3 DEF ListInv, GoesOn
    <3>2. items = a.content
      BY <1>4, <3>1, ConcatEmptySeq DEF items
    <3>3. QED
      BY <2>2, <3>2
  <2>4. CASE ~load.first
    <3>1. origin # {} /\ origin \subseteq {f}
      BY <1>1, <1>9, <2>4 DEF ListInv, GoesOn
    <3>2. origin = {f}
      BY <3>1
    <3>3. Rising(f, load.before) /\ EndsAt(load.before, load.cursor)
      BY <1>1, <2>4, <3>2 DEF ListInv, GoesOn
    <3> DEFINE s == load.before
               t == a.content
               c == load.cursor
    <3>4. s \in Seq(Entry) /\ t \in Seq(Entry) /\ Rising(f, s) /\ EndsAt(s, c) /\ Rising(f, t)
      BY <1>2, <1>4, <2>2, <3>3
    <3>5. \A i \in DOMAIN t : After(f, c, t[i].place)
      BY <2>2
    <3> HIDE DEF s, t, c
    <3>6. /\ Rising(f, s \o t)
          /\ t # << >> => (s \o t)[Len(s \o t)] = t[Len(t)] /\ s \o t # << >>
      BY <3>4, <3>5, Joined
    <3>7. QED
      BY <2>2, <3>6 DEF EndsAt, items, s, t
  <2>5. QED
    BY <2>3, <2>4
<1>10. OneListing'
  BY <1>7, <1>9 DEF OneListing, Rising, EndsAt, After
<1>11. GoesOn' /\ AnswerFits'
  BY <1>1 DEF GoesOn, AnswerFits
<1>12. QED
  BY <1>8, <1>10, <1>11 DEF ListInv

(* A load that fails leaves the rows.                                      *)
LEMMA LoadFailsHolds ==
    ASSUME ListInv, LoadFails
    PROVE  ListInv'
<1>1. /\ list' = [list EXCEPT !.isLoading = FALSE, !.error = TRUE]
      /\ missed' = (missed \/ load.first) /\ load' = NoLoad
      /\ UNCHANGED <<kind, table, mounted, calls, origin>> /\ Fails
  BY DEF LoadFails
<1>2. list \in Store
  BY Parts DEF ListInv
<1>3. /\ list' \in Store /\ list'.items = list.items /\ ~list'.isLoading
      /\ list'.hasNext = list.hasNext /\ list'.cursor = list.cursor
  BY <1>1, <1>2 DEF Store
<1>4. missed' \in BOOLEAN
  BY <1>1, Zenon
<1>5. TypeOK'
  <2>1. CallsOK' /\ BudgetOK'
    BY <1>1, Spent DEF ListInv, TypeOK, CallsOK
  <2>2. QED
    BY <1>1, <1>3, <1>4, <2>1 DEF ListInv, TypeOK
<1>6. OneListing'
  BY <1>1, <1>3, SameList, ItselfSameRows, Parts DEF ListInv
<1>7. GoesOn' /\ AnswerFits'
  BY <1>1, <1>3 DEF ListInv, GoesOn, AnswerFits
<1>8. QED
  BY <1>5, <1>6, <1>7 DEF ListInv
-----------------------------------------------------------------------------
(* The requests of the user.                                               *)

(* Numbers have a least one, which Min returns.                             *)
LEMMA Least ==
    ASSUME NEW S \in SUBSET Nat, S # {}
    PROVE  \E u \in S : \A v \in S : u <= v
<1>1. PICK u \in S : \A v \in S : ~(<<v, u>> \in OpToRel(<, Nat))
  BY NatLessThanWellFounded, WFMin
<1>2. \A v \in S : u <= v
  <2>1. SUFFICES ASSUME NEW v \in S, v < u PROVE FALSE
    OBVIOUS
  <2>2. <<v, u>> \in Nat \X Nat
    OBVIOUS
  <2>3. QED
    BY <1>1, <2>1, <2>2 DEF OpToRel
<1>3. QED
  BY <1>2

LEMMA MinIn ==
    ASSUME NEW S \in SUBSET Nat, S # {}
    PROVE  Min(S) \in S
BY Least DEF Min

(* A request more, with an id of its own.                                  *)
LEMMA Sent ==
    ASSUME TypeOK, NEW r \in Row, NEW old \in Content \cup {Gone}, NEW new \in Content \cup {Gone},
           Send(r, old, new), kind' = kind, kind = "configs" => old \in Content /\ new \in Content
    PROVE  CallsOK' /\ BudgetOK' /\ mounted
<1> DEFINE free == 1..MaxCalls \ {c.id : c \in calls}
           one  == [id |-> Min(free), row |-> r, old |-> old, new |-> new, status |-> "sent"]
<1>1. mounted /\ Acts /\ free # {} /\ calls' = calls \cup {one}
  BY DEF Send
<1>2. MaxCalls \in Nat /\ free \subseteq 1..MaxCalls
  OBVIOUS
<1> HIDE DEF free
<1>3. free \in SUBSET Nat
  BY <1>2
<1>4. Min(free) \in 1..MaxCalls
  BY <1>1, <1>2, <1>3, MinIn
<1>5. one \in Call /\ one.old = old /\ one.new = new
  BY <1>4 DEF Call
<1> HIDE DEF one
<1>6. calls' \subseteq Call /\ IsFiniteSet(calls')
  BY <1>1, <1>5, FS_AddElement DEF TypeOK, CallsOK
<1>7. kind' = "configs" => \A c \in calls' : c.old \in Content /\ c.new \in Content
  BY <1>1, <1>5 DEF TypeOK, CallsOK
<1>8. QED
  BY <1>1, <1>6, <1>7, Spent DEF TypeOK, CallsOK

(* What stands in the list is an entry.                                    *)
LEMMA InTheList ==
    ASSUME TypeOK, NEW e \in ToSet(list.items)
    PROVE  e \in Entry /\ e.place.row \in Row /\ e.tag \in Tag /\ ContentOf(e) \in Content
<1>1. list.items \in Seq(Entry)
  BY Parts
<1>2. e \in Entry
  BY <1>1, ElementOfSeq, LenProperties DEF ToSet
<1>3. QED
  BY <1>2 DEF Entry, Place, ContentOf, Content

(* A row to be created is not shown yet.                                   *)
LEMMA SendCreateHolds ==
    ASSUME ListInv, NEW r \in Row, NEW content \in Input, SendCreate(r, content)
    PROVE  ListInv'
<1>1. kind # "configs" /\ Send(r, Gone, content)
      /\ UNCHANGED <<kind, table, mounted, list, load, origin, missed>>
  BY DEF SendCreate
<1>2. CallsOK' /\ BudgetOK'
  BY <1>1, Sent DEF ListInv
<1>3. SameRows(list.items, list'.items) /\ list' \in Store /\ missed' \in BOOLEAN
      /\ mounted' \in BOOLEAN /\ table' \in [Row -> Content \cup {Gone}]
  BY <1>1, ItselfSameRows, Parts DEF ListInv, TypeOK
<1>4. QED
  BY <1>1, <1>2, <1>3, LoadStays

(* A row to be changed or deleted is shown as it was.                      *)
LEMMA SendChangeHolds ==
    ASSUME ListInv, NEW e \in ToSet(list.items), NEW content \in Input \cup {Gone}, SendChange(e, content)
    PROVE  ListInv'
<1>1. kind # "configs" /\ Send(e.place.row, ContentOf(e), content)
      /\ UNCHANGED <<kind, table, mounted, list, load, origin, missed>>
  BY DEF SendChange
<1>2. CallsOK' /\ BudgetOK'
  BY <1>1, InTheList, Sent DEF ListInv
<1>3. SameRows(list.items, list'.items) /\ list' \in Store /\ missed' \in BOOLEAN
      /\ mounted' \in BOOLEAN /\ table' \in [Row -> Content \cup {Gone}]
  BY <1>1, ItselfSameRows, Parts DEF ListInv, TypeOK
<1>4. QED
  BY <1>1, <1>2, <1>3, LoadStays

(* A relabelled list loads and goes on as before.                          *)
LEMMA RelabelledList ==
    ASSUME TypeOK, NEW r, NEW tag \in Tag, list' = [list EXCEPT !.items = Relabel(@, r, tag)]
    PROVE  /\ list' \in Store /\ SameRows(list.items, list'.items)
           /\ list'.isLoading = list.isLoading
           /\ list'.hasNext = list.hasNext /\ list'.cursor = list.cursor
<1>1. list \in Store /\ list.items \in Seq(Entry)
  BY Parts
<1> DEFINE items == Relabel(list.items, r, tag)
<1>2. items \in Seq(Entry) /\ SameRows(list.items, items)
  BY <1>1, Relabelled
<1> HIDE DEF items
<1>3. list' = [list EXCEPT !.items = items]
  BY DEF items
<1>4. QED
  BY <1>1, <1>2, <1>3 DEF Store

(* A switch is shown at once.                                              *)
LEMMA SendToggleHolds ==
    ASSUME ListInv, NEW e \in ToSet(list.items), NEW tag \in Tag, SendToggle(e, tag)
    PROVE  ListInv'
<1> DEFINE new == [ContentOf(e) EXCEPT !.tag = tag]
<1>1. /\ Send(e.place.row, ContentOf(e), new)
      /\ list' = [list EXCEPT !.items = Relabel(@, e.place.row, tag)]
      /\ UNCHANGED <<kind, table, mounted, load, origin, missed>>
  BY DEF SendToggle
<1>2. CallsOK' /\ BudgetOK'
  <2>1. ContentOf(e) \in Content /\ e.place.row \in Row
    BY InTheList DEF ListInv
  <2>2. new \in Content
    BY <2>1 DEF Content
  <2> HIDE DEF new
  <2>3. QED
    BY <1>1, <2>1, <2>2, Sent DEF ListInv
<1>3. /\ list' \in Store /\ SameRows(list.items, list'.items)
      /\ list'.isLoading = list.isLoading
      /\ list'.hasNext = list.hasNext /\ list'.cursor = list.cursor
  BY <1>1, RelabelledList DEF ListInv
<1>4. missed' \in BOOLEAN /\ mounted' \in BOOLEAN /\ table' \in [Row -> Content \cup {Gone}]
  BY <1>1, Parts DEF ListInv, TypeOK
<1>5. QED
  BY <1>1, <1>2, <1>3, <1>4, LoadStays

(* The server answers a request of the user.                               *)
LEMMA ApplyHolds ==
    ASSUME ListInv, NEW c \in calls, Apply(c)
    PROVE  ListInv'
<1> DEFINE ok  == (table[c.row] = Gone) = (c.old = Gone)
           now == IF ok THEN "applied" ELSE "refused"
           one == [c EXCEPT !.status = now]
<1>1. /\ table' = IF ok THEN [table EXCEPT ![c.row] = c.new] ELSE table
      /\ calls' = (calls \ {c}) \cup {one}
      /\ UNCHANGED <<kind, mounted, list, load, origin, missed, budget>>
  BY DEF Apply
<1>2. c \in Call /\ now \in {"applied", "refused"}
  BY DEF ListInv, TypeOK, CallsOK
<1>3. table' \in [Row -> Content \cup {Gone}]
  <2>1. c.row \in Row /\ c.new \in Content \cup {Gone} /\ table \in [Row -> Content \cup {Gone}]
    BY <1>2 DEF Call, ListInv, TypeOK
  <2> HIDE DEF ok
  <2>2. QED
    BY <1>1, <2>1
<1> HIDE DEF now
<1>4. one \in Call /\ one.old = c.old /\ one.new = c.new
  BY <1>2 DEF Call
<1> HIDE DEF one
<1>5. CallsOK'
  <2>1. IsFiniteSet(calls \ {c})
    BY FS_Subset DEF ListInv, TypeOK, CallsOK
  <2>2. IsFiniteSet(calls')
    BY <1>1, <2>1, FS_AddElement
  <2>3. calls' \subseteq Call
    BY <1>1, <1>4 DEF ListInv, TypeOK, CallsOK
  <2>4. kind' = "configs" => \A d \in calls' : d.old \in Content /\ d.new \in Content
    BY <1>1, <1>4 DEF ListInv, TypeOK, CallsOK
  <2>5. QED
    BY <2>2, <2>3, <2>4 DEF CallsOK
<1>6. BudgetOK'
  BY <1>1, Spent DEF ListInv, TypeOK
<1>7. SameRows(list.items, list'.items) /\ list' \in Store /\ missed' \in BOOLEAN
      /\ mounted' \in BOOLEAN
  BY <1>1, ItselfSameRows, Parts DEF ListInv
<1>8. QED
  BY <1>1, <1>3, <1>5, <1>6, <1>7, LoadStays

(* A request less.                                                         *)
LEMMA Ended ==
    ASSUME TypeOK, NEW c \in calls, calls' = calls \ {c}, kind' = kind
    PROVE  CallsOK'
<1>1. IsFiniteSet(calls \ {c})
  BY FS_Subset DEF TypeOK, CallsOK
<1>2. QED
  BY <1>1 DEF TypeOK, CallsOK

(* What was changed is fetched.                                            *)
LEMMA DoneHolds ==
    ASSUME ListInv, NEW c \in calls, Done(c)
    PROVE  ListInv'
<1>1. /\ Fetch(list, TRUE) /\ calls' = calls \ {c}
      /\ UNCHANGED <<kind, table, mounted, origin, budget>>
  BY DEF Done
<1>2. CallsOK' /\ BudgetOK' /\ mounted' \in BOOLEAN /\ list \in Store
  BY <1>1, Ended, Spent, Parts DEF ListInv, TypeOK
<1>3. QED
  BY <1>1, <1>2, FetchHolds

(* A switch is put back.                                                   *)
LEMMA UndoHolds ==
    ASSUME ListInv, NEW c \in calls, Undo(c), BudgetOK'
    PROVE  ListInv'
<1>1. /\ list' = IF kind = "configs" THEN [list EXCEPT !.items = Relabel(@, c.row, c.old.tag)] ELSE list
      /\ calls' = calls \ {c}
      /\ UNCHANGED <<kind, table, mounted, load, origin>>
  BY DEF Undo
<1>2. missed' = \/ missed \/ table[c.row] # c.old
                \/ /\ kind = "configs" /\ load # NoLoad
                   /\ \E e \in ToSet(load.before) : e.place.row = c.row /\ e.tag = c.new.tag
  BY DEF Undo
<1>3. missed' \in BOOLEAN
  BY <1>2, Zenon
<1>4. CallsOK' /\ mounted' \in BOOLEAN /\ table' \in [Row -> Content \cup {Gone}]
  BY <1>1, Ended, Parts DEF ListInv, TypeOK
<1>5. /\ list' \in Store /\ SameRows(list.items, list'.items)
      /\ list'.isLoading = list.isLoading
      /\ list'.hasNext = list.hasNext /\ list'.cursor = list.cursor
  <2>1. CASE kind = "configs"
    <3>1. c.old.tag \in Tag
      BY <2>1 DEF ListInv, TypeOK, CallsOK, Content
    <3>2. list' = [list EXCEPT !.items = Relabel(@, c.row, c.old.tag)]
      BY <1>1, <2>1
    <3>3. QED
      BY <3>1, <3>2, RelabelledList DEF ListInv
  <2>2. CASE kind # "configs"
    BY <1>1, <2>2, ItselfSameRows, Parts DEF ListInv
  <2>3. QED
    BY <2>1, <2>2
<1>6. QED
  BY <1>1, <1>3, <1>4, <1>5, LoadStays

(* A step of any kind.                                                     *)
LEMMA StepHolds == ListInv /\ [Next]_vars => ListInv'
<1> SUFFICES ASSUME ListInv, [Next]_vars PROVE ListInv'
  OBVIOUS
<1>1. CASE OpenPage
  BY <1>1, OpenPageHolds
<1>2. CASE LeavePage
  BY <1>2, LeavePageHolds
<1>3. ASSUME NEW f \in Filter, SetFilters(f) PROVE ListInv'
  BY <1>3, SetFiltersHolds
<1>4. CASE FetchNext
  BY <1>4, FetchNextHolds
<1>5. CASE Serve
  BY <1>5, ServeHolds
<1>6. CASE Deliver
  BY <1>6, DeliverHolds
<1>7. CASE LoadFails
  BY <1>7, LoadFailsHolds
<1>8. ASSUME NEW r \in Row, NEW content \in Input, SendCreate(r, content) PROVE ListInv'
  BY <1>8, SendCreateHolds
<1>9. ASSUME NEW e \in ToSet(list.items), NEW content \in Input \cup {Gone}, SendChange(e, content) PROVE ListInv'
  BY <1>9, SendChangeHolds
<1>10. ASSUME NEW e \in ToSet(list.items), NEW tag \in Tag, SendToggle(e, tag) PROVE ListInv'
  BY <1>10, SendToggleHolds
<1>11. ASSUME NEW c \in calls, Apply(c) PROVE ListInv'
  BY <1>11, ApplyHolds
<1>12. ASSUME NEW c \in calls, Done(c) PROVE ListInv'
  BY <1>12, DoneHolds
<1>13. ASSUME NEW c \in calls, Refused(c) PROVE ListInv'
  BY <1>13, Spent, UndoHolds DEF Refused, ListInv, TypeOK
<1>14. ASSUME NEW c \in calls, CallFails(c) PROVE ListInv'
  BY <1>14, Spent, UndoHolds DEF CallFails, ListInv, TypeOK
<1>15. CASE UNCHANGED vars
  <2>1. SameRows(list.items, list'.items) /\ list' \in Store /\ missed' \in BOOLEAN
        /\ mounted' \in BOOLEAN /\ table' \in [Row -> Content \cup {Gone}]
    BY <1>15, ItselfSameRows, Parts DEF ListInv, TypeOK, vars
  <2>2. CallsOK' /\ BudgetOK'
    BY <1>15, Spent DEF ListInv, TypeOK, CallsOK, vars, budget
  <2>3. UNCHANGED <<kind, load, origin, list>>
    BY <1>15 DEF vars
  <2>4. QED
    BY <2>1, <2>2, <2>3, LoadStays
<1>16. QED
  BY <1>1, <1>2, <1>3, <1>4, <1>5, <1>6, <1>7, <1>8, <1>9, <1>10, <1>11, <1>12, <1>13, <1>14, <1>15 DEF Next

-----------------------------------------------------------------------------
HIDE ListAssumption

(* The rows of a filter stand in one order only.                           *)
InFilterOrder(f, s) == \A i, j \in DOMAIN s : i < j => After(f, s[i], s[j])

(* A sequence in order has every row, and each once.                       *)
LEMMA Enumerates ==
    ASSUME NEW f, NEW R \in SUBSET Place, NEW n, n = Cardinality(R),
           NEW s \in [1..n -> R], InFilterOrder(f, s)
    PROVE  /\ \A i, j \in 1..n : s[i] = s[j] => i = j
           /\ \A r \in R : \E i \in 1..n : s[i] = r
<1>1. n \in Nat /\ IsFiniteSet(R)
  BY PrecedingCount
<1>2. DOMAIN s = 1..n /\ \A i \in 1..n : s[i] \in R
  OBVIOUS
<1>3. IsFiniteSet(1..n) /\ Cardinality(1..n) = n
  <2>1. 1 \in Int /\ n \in Int
    BY <1>1
  <2>2. IsFiniteSet(1..n) /\ Cardinality(1..n) = IF 1 > n THEN 0 ELSE n - 1 + 1
    BY <2>1, FS_Interval
  <2>3. QED
    BY <1>1, <2>2
<1>4. ASSUME NEW i \in 1..n, NEW j \in 1..n, s[i] = s[j] PROVE i = j
  <2>1. s[i] \in R /\ s[i] \in Place
    BY <1>2
  <2>2. ~After(f, s[i], s[i])
    BY <2>1, Order
  <2>3. ~(i < j) /\ ~(j < i)
    BY <1>2, <1>4, <2>2 DEF InFilterOrder
  <2>4. QED
    BY <1>1, <2>3
<1>5. s \in Injection(1..n, R)
  BY <1>4, Fun_IsInj
<1>6. s \in Surjection(1..n, R)
  BY <1>1, <1>3, <1>5, FS_Injection
<1>7. \A r \in R : \E i \in 1..n : s[i] = r
  BY <1>6 DEF Surjection
<1>8. QED
  BY <1>4, <1>7

(* So there is one such sequence: the first place of a difference has none.*)
LEMMA OneOrder ==
    ASSUME NEW f, NEW R \in SUBSET Place, NEW n, n = Cardinality(R),
           NEW s, s \in [1..n -> R], InFilterOrder(f, s)
    PROVE  s = InOrder(f, R)
<1> DEFINE t == InOrder(f, R)
<1>1. n \in Nat /\ t \in [1..n -> R] /\ InFilterOrder(f, t)
  BY Sorted DEF InFilterOrder
<1> HIDE DEF t
<1>2. /\ \A i, j \in 1..n : i < j => After(f, s[i], s[j])
      /\ \A r \in R : \E i \in 1..n : s[i] = r
      /\ \A i, j \in 1..n : s[i] = s[j] => i = j
  <2>1. \A i, j \in 1..n : i < j => After(f, s[i], s[j])
    BY DEF InFilterOrder
  <2>2. QED
    BY <1>1, <2>1, Enumerates
<1>3. /\ \A i, j \in 1..n : i < j => After(f, t[i], t[j])
      /\ \A r \in R : \E i \in 1..n : t[i] = r
      /\ \A i, j \in 1..n : t[i] = t[j] => i = j
  <2>1. \A i, j \in 1..n : i < j => After(f, t[i], t[j])
    BY <1>1 DEF InFilterOrder
  <2>2. QED
    BY <1>1, <2>1, Enumerates
<1> DEFINE bad == {i \in 1..n : s[i] # t[i]}
<1>4. ASSUME NEW i \in bad, \A j \in bad : i <= j
      PROVE  FALSE
  <2>1. i \in 1..n /\ s[i] # t[i] /\ s[i] \in R /\ t[i] \in R
    BY <1>1, <1>2
  <2>2. \A j \in 1..n : j < i => s[j] = t[j]
    BY <1>4
  <2>3. PICK j \in 1..n, k \in 1..n : t[j] = s[i] /\ s[k] = t[i]
    BY <1>2, <1>3, <2>1
  <2>4. ~(j < i) /\ j # i
    BY <1>2, <2>1, <2>2, <2>3
  <2>5. ~(k < i) /\ k # i
    BY <1>3, <2>1, <2>2, <2>3
  <2>6. i < j /\ i < k
    BY <1>1, <2>1, <2>4, <2>5
  <2>7. After(f, t[i], s[i]) /\ After(f, s[i], t[i])
    BY <1>2, <1>3, <2>1, <2>3, <2>6
  <2>8. s[i] \in Place /\ t[i] \in Place
    BY <2>1
  <2>9. After(f, s[i], s[i])
    BY <2>7, <2>8, Order, Zenon
  <2>10. QED
    BY <2>8, <2>9, Order
<1>5. bad = {}
  <2>1. bad \in SUBSET Nat
    BY <1>1
  <2> HIDE DEF bad
  <2>2. QED
    BY <1>4, <2>1, Least
<1>6. s = t
  <2>1. \A i \in 1..n : s[i] = t[i]
    BY <1>5
  <2>2. QED
    BY <1>1, <2>1
<1>7. QED
  BY <1>6 DEF t

(* The rows of a filter, one after the other, and how many there are.      *)
LEMMA EntriesList ==
    ASSUME table \in [Row -> Content \cup {Gone}], NEW f \in Filter, NEW c \in Place \cup {NoCursor}
    PROVE  /\ Cardinality(Found(f, c)) \in Nat
           /\ Len(Entries(f, c)) = Cardinality(Found(f, c))
           /\ \A i \in 1..Cardinality(Found(f, c)) :
                 /\ InOrder(f, Found(f, c))[i] \in Found(f, c)
                 /\ Entries(f, c)[i] = [place |-> InOrder(f, Found(f, c))[i],
                                        tag |-> table[InOrder(f, Found(f, c))[i].row].tag]
<1> DEFINE R == Found(f, c)
           n == Cardinality(R)
           s == InOrder(f, R)
<1>1. R \in SUBSET Place
  BY DEF Found
<1>2. n \in Nat /\ s \in [1..n -> R]
  BY <1>1, Sorted
<1>3. Entries(f, c) \in Seq(Entry)
  BY EntriesAre
<1> HIDE DEF R, n, s
<1>4. Entries(f, c) = [i \in 1..n |-> [place |-> s[i], tag |-> table[s[i].row].tag]]
  BY <1>2 DEF Entries, R, s
<1>5. DOMAIN Entries(f, c) = 1..n
  BY <1>4
<1>6. Len(Entries(f, c)) = n
  BY <1>2, <1>3, <1>5, LenProperties
<1>7. \A i \in 1..n : s[i] \in R /\ Entries(f, c)[i] = [place |-> s[i], tag |-> table[s[i].row].tag]
  BY <1>2, <1>4
<1>8. QED
  BY <1>2, <1>6, <1>7 DEF R, n, s

(* A row found has the tag of the server.                                  *)
LEMMA EntriesTags ==
    ASSUME table \in [Row -> Content \cup {Gone}], NEW f \in Filter
    PROVE  \A i \in 1..Len(Entries(f, NoCursor)) :
              Entries(f, NoCursor)[i].tag = table[Entries(f, NoCursor)[i].place.row].tag
<1> SUFFICES ASSUME NEW i \in 1..Len(Entries(f, NoCursor))
             PROVE  Entries(f, NoCursor)[i].tag = table[Entries(f, NoCursor)[i].place.row].tag
  OBVIOUS
<1>1. Entries(f, NoCursor)[i] = [place |-> InOrder(f, Found(f, NoCursor))[i],
                                 tag |-> table[InOrder(f, Found(f, NoCursor))[i].row].tag]
  BY EntriesList
<1>2. QED
  BY <1>1

(* After a row of the list comes the rest of the list.                     *)
LEMMA RestOfTheList ==
    ASSUME table \in [Row -> Content \cup {Gone}], NEW f \in Filter,
           NEW k \in 1..Len(Entries(f, NoCursor))
    PROVE  LET all  == Entries(f, NoCursor)
               rest == Entries(f, all[k].place)
           IN  /\ all[k].place \in Place
               /\ Len(rest) = Len(all) - k
               /\ \A i \in 1..Len(rest) : rest[i] = all[k + i]
<1> DEFINE all == Entries(f, NoCursor)
           R   == Found(f, NoCursor)
           n   == Cardinality(R)
           s   == InOrder(f, R)
           c   == all[k].place
           Q   == Found(f, c)
           m   == n - k
           t   == [i \in 1..m |-> s[k + i]]
<1>1. /\ n \in Nat /\ Len(all) = n /\ k \in 1..n
      /\ \A i \in 1..n : s[i] \in R /\ all[i] = [place |-> s[i], tag |-> table[s[i].row].tag]
  BY EntriesList
<1>2. R \in SUBSET Place /\ Q = {p \in R : After(f, c, p)}
  BY FoundPlaces
<1>3. s \in [1..n -> R] /\ InFilterOrder(f, s)
  BY <1>2, Sorted DEF InFilterOrder
<1> HIDE DEF n, s
<1>4. \A r \in R : \E i \in 1..n : s[i] = r
  <2>1. n = Cardinality(R) /\ R \in SUBSET Place
    BY <1>2 DEF n
  <2> HIDE DEF R
  <2>2. QED
    BY <1>1, <1>3, <2>1, Enumerates
<1>5. c = s[k] /\ c \in R /\ c \in Place /\ c # NoCursor
  <2>1. c = s[k] /\ c \in R
    BY <1>1
  <2>2. c \in Place
    BY <1>2, <2>1
  <2>3. QED
    BY <2>1, <2>2, NoCursorNoPlace
<1> HIDE DEF all, c
<1>6. \A i \in 1..n : After(f, c, s[i]) <=> i > k
  <2>1. SUFFICES ASSUME NEW i \in 1..n PROVE After(f, c, s[i]) <=> i > k
    OBVIOUS
  <2>2. s[i] \in Place /\ DOMAIN s = 1..n
    BY <1>2, <1>3
  <2>3. CASE i > k
    BY <1>1, <1>3, <1>5, <2>2, <2>3 DEF InFilterOrder
  <2>4. CASE i = k
    BY <1>5, <2>4, Order
  <2>5. CASE i < k
    <3>1. After(f, s[i], c)
      BY <1>1, <1>3, <1>5, <2>2, <2>5 DEF InFilterOrder
    <3>2. After(f, c, s[i]) => After(f, s[i], s[i])
      BY <1>5, <2>2, <3>1, Order, Zenon
    <3>3. ~After(f, s[i], s[i])
      BY <2>2, Order
    <3>4. QED
      BY <1>1, <2>5, <3>2, <3>3
  <2>6. QED
    BY <1>1, <2>3, <2>4, <2>5
<1>7. Q = {p \in R : After(f, c, p)}
  BY <1>2
<1>8. m \in Nat /\ \A i \in 1..m : k + i \in 1..n /\ k + i > k
  BY <1>1
<1> HIDE DEF m, R
<1>9. t \in [1..m -> Q] /\ DOMAIN t = 1..m
  <2>1. \A i \in 1..m : s[k + i] \in R /\ After(f, c, s[k + i])
    BY <1>3, <1>6, <1>8
  <2>2. QED
    BY <1>7, <2>1
<1>10. InFilterOrder(f, t)
  <2>1. \A i, j \in 1..m : i < j => k + i < k + j
    BY <1>1, <1>8
  <2>2. QED
    BY <1>3, <1>8, <1>9, <2>1 DEF InFilterOrder
<1>11. \A r \in Q : \E i \in 1..m : t[i] = r
  <2>1. SUFFICES ASSUME NEW r \in Q PROVE \E i \in 1..m : t[i] = r
    OBVIOUS
  <2>2. PICK i \in 1..n : s[i] = r
    BY <1>4, <1>7
  <2>3. i > k
    BY <1>6, <1>7, <2>2
  <2>4. i - k \in 1..m /\ k + (i - k) = i
    BY <1>1, <2>3 DEF m
  <2>5. QED
    BY <2>2, <2>4
<1>12. Q \in SUBSET Place
  BY DEF Found
<1> HIDE DEF Q, t
<1>13. \A i, j \in 1..m : t[i] = t[j] => i = j
  <2>1. SUFFICES ASSUME NEW i \in 1..m, NEW j \in 1..m, t[i] = t[j] PROVE i = j
    OBVIOUS
  <2>2. ~After(f, t[i], t[i])
    BY <1>9, <1>12, Order
  <2>3. ~(i < j) /\ ~(j < i)
    BY <1>9, <1>10, <2>1, <2>2 DEF InFilterOrder
  <2>4. QED
    BY <1>8, <2>3
<1>14. Cardinality(Q) = m
  <2>1. t \in Bijection(1..m, Q)
    BY <1>9, <1>11, <1>13, Fun_IsBij
  <2>2. IsFiniteSet(1..m) /\ Cardinality(1..m) = m
    <3>1. 1 \in Int /\ m \in Int
      BY <1>8
    <3>2. IsFiniteSet(1..m) /\ Cardinality(1..m) = IF 1 > m THEN 0 ELSE m - 1 + 1
      BY <3>1, FS_Interval
    <3>3. QED
      BY <1>8, <3>2
  <2>3. ExistsBijection(1..m, Q)
    BY <2>1 DEF ExistsBijection
  <2>4. QED
    BY <2>2, <2>3, FS_Bijection
<1>15. t = InOrder(f, Q)
  BY <1>9, <1>10, <1>12, <1>14, OneOrder
<1>16. /\ Len(Entries(f, c)) = m
       /\ \A i \in 1..m : Entries(f, c)[i] = [place |-> t[i], tag |-> table[t[i].row].tag]
  BY <1>5, <1>14, <1>15, EntriesList DEF Q
<1>17. \A i \in 1..m : Entries(f, c)[i] = all[k + i]
  <2>1. \A i \in 1..m : t[i] = s[k + i]
    BY DEF t
  <2>2. SUFFICES ASSUME NEW i \in 1..m PROVE Entries(f, c)[i] = all[k + i]
    OBVIOUS
  <2>3. k + i \in 1..n
    BY <1>8
  <2>4. all[k + i] = [place |-> s[k + i], tag |-> table[s[k + i].row].tag]
    BY <1>1, <2>3
  <2>5. QED
    BY <1>16, <2>1, <2>4
<1>18. QED
  BY <1>1, <1>5, <1>16, <1>17 DEF all, c, m

USE ListAssumption

(* A search answers with the first rows after the cursor.                  *)
LEMMA FirstOfTheList ==
    ASSUME table \in [Row -> Content \cup {Gone}], NEW f \in Filter, NEW c \in Place \cup {NoCursor}
    PROVE  LET all == Entries(f, c)
               a   == Search(f, c)
           IN  /\ a.content \in Seq(Entry) /\ Len(a.content) <= Len(all)
               /\ \A i \in 1..Len(a.content) : a.content[i] = all[i]
               /\ a.hasNext <=> Len(a.content) < Len(all)
               /\ a.total = Len(Entries(f, NoCursor))
<1> DEFINE all  == Entries(f, c)
           more == Len(all) > PageSize
           a    == Search(f, c)
           last == Len(Entries(f, NoCursor))
<1>1. all \in Seq(Entry)
  BY EntriesAre
<1>2. /\ a.content = IF more THEN SubSeq(all, 1, PageSize) ELSE all
      /\ a.hasNext = more /\ a.total = Cardinality(Found(f, NoCursor))
  BY DEF Search
<1>3. a.total = last
  <2>1. Len(Entries(f, NoCursor)) = Cardinality(Found(f, NoCursor))
    BY EntriesList
  <2>2. QED
    BY <1>2, <2>1
<1> HIDE DEF all, a, last
<1>4. Len(all) \in Nat /\ \A i \in 1..Len(all) : all[i] \in Entry
  BY <1>1, LenProperties, ElementOfSeq
<1>5. PageSize \in Nat /\ PageSize >= 1
  OBVIOUS
<1>6. CASE more
  <2>1. \A i \in 1..PageSize : all[i] \in Entry
    BY <1>4, <1>5, <1>6
  <2>2. /\ SubSeq(all, 1, PageSize) \in Seq(Entry) /\ Len(SubSeq(all, 1, PageSize)) = PageSize
        /\ \A i \in 1 .. PageSize - 1 + 1 : SubSeq(all, 1, PageSize)[i] = all[1 + i - 1]
    BY <1>5, <1>6, <2>1, SubSeqProperties
  <2>3. \A i \in 1..PageSize : a.content[i] = all[i]
    BY <1>2, <1>5, <1>6, <2>2
  <2>4. a.content \in Seq(Entry) /\ Len(a.content) = PageSize /\ a.hasNext
    BY <1>2, <1>4, <1>5, <1>6, <2>2
  <2>5. /\ Len(a.content) <= Len(all) /\ Len(a.content) < Len(all)
        /\ \A i \in 1..Len(a.content) : a.content[i] = all[i]
    BY <1>4, <1>5, <1>6, <2>3, <2>4
  <2>6. QED
    BY <1>3, <2>4, <2>5 DEF all, a, last
<1>7. CASE ~more
  <2>1. a.content = all /\ ~a.hasNext
    BY <1>2, <1>7
  <2>2. QED
    BY <1>1, <1>3, <1>4, <2>1 DEF all, a, last
<1>8. QED
  BY <1>6, <1>7

-----------------------------------------------------------------------------
(* What a step leaves current.                                             *)

(* What a search finds depends on the table only.                          *)
LEMMA SameServer ==
    ASSUME UNCHANGED table, NEW f, NEW c
    PROVE  Entries(f, c)' = Entries(f, c) /\ Search(f, c)' = Search(f, c)
BY DEF Entries, InOrder, Found, After, Search

(* The requests are all there, and those applied still are.                *)
Kept == \A c \in calls : \E d \in calls' : /\ d.row = c.row /\ d.new = c.new
                                           /\ c.status = "applied" => d.status = "applied"

(* A change still to be fetched stays one.                                 *)
LEMMA StillFetched ==
    ASSUME ToBeFetched, UNCHANGED table, Kept
    PROVE  ToBeFetched'
BY DEF ToBeFetched, Kept

(* What is shown of a table that stays is still so.                        *)
LEMMA StillShows ==
    ASSUME UNCHANGED <<kind, table>>, Kept, NEW items, NEW f, Shows(items, f)
    PROVE  Shows(items, f)'
<1> DEFINE all == Entries(f, NoCursor)
<1>1. Entries(f, NoCursor)' = all
  BY SameServer
<1>2. \A i \in DOMAIN items : Switched(items[i]) => Switched(items[i])'
  BY DEF Switched, Kept
<1>3. /\ Len(items) <= Len(all)
      /\ \A i \in DOMAIN items : /\ items[i].place = all[i].place
                                 /\ items[i].tag = all[i].tag \/ Switched(items[i])
  BY DEF Shows
<1> HIDE DEF all
<1>4. QED
  BY <1>1, <1>2, <1>3 DEF Shows

(* The filters, what the rows are of and what they promise stay.           *)
SameContent ==
    /\ list'.items = list.items /\ list'.hasNext = list.hasNext
    /\ list'.total = list.total /\ list'.filters = list.filters

(* A step that leaves the list and the load leaves them current.           *)
LEMMA StillCurrent ==
    ASSUME Current, UNCHANGED <<kind, table, origin, load>>, missed => missed', Kept, SameContent
    PROVE  Current'
<1>1. SUFFICES ASSUME ~missed, ~missed' PROVE ToBeFetched' \/ (LoadIsCurrent' /\ RowsAreCurrent')
  BY DEF Current
<1>2. CASE ToBeFetched
  BY <1>2, StillFetched
<1>3. CASE LoadIsCurrent /\ RowsAreCurrent
  <2>1. LoadIsCurrent'
    <3>1. ASSUME ~load.first, load # NoLoad PROVE Shows(load.before, list.filters)'
      BY <1>3, <3>1, StillShows DEF LoadIsCurrent, SameContent
    <3>2. QED
      BY <1>3, <3>1, SameServer DEF LoadIsCurrent, SameContent
  <2>2. RowsAreCurrent'
    <3>1. ASSUME origin # {}, load = NoLoad \/ ~load.first
          PROVE  /\ Shows(list.items, list.filters)' /\ origin = {list.filters}
                 /\ list.hasNext <=> (Len(list.items) < Len(Entries(list.filters, NoCursor)))
                 /\ list.total = Len(Entries(list.filters, NoCursor))
      BY <1>3, <3>1, StillShows DEF RowsAreCurrent, SameContent
    <3>2. Entries(list.filters, NoCursor)' = Entries(list.filters, NoCursor)
      BY SameServer DEF SameContent
    <3>3. QED
      BY <3>1, <3>2 DEF RowsAreCurrent, SameContent
  <2>3. QED
    BY <2>1, <2>2
<1>4. QED
  BY <1>1, <1>2, <1>3 DEF Current

(* A first page just asked for is current.                                 *)
LEMMA FirstPageCurrent ==
    ASSUME NEW f \in Filter, load' = FirstPage(f), list'.filters = f
    PROVE  Current'
<1>1. FirstPage(f) \in Load
  <2>1. << >> \in Seq(Entry)
    BY EmptySeq
  <2>2. QED
    BY <2>1 DEF FirstPage, Load
<1>2. FirstPage(f) # NoLoad
  BY <1>1
<1>3. load'.first /\ load'.filters = f /\ load'.answer = NoAnswer
  BY DEF FirstPage
<1>4. LoadIsCurrent' /\ RowsAreCurrent'
  BY <1>2, <1>3 DEF LoadIsCurrent, RowsAreCurrent
<1>5. QED
  BY <1>4 DEF Current

(* A fetch that is not skipped loads what is current; a skipped one leaves *)
(* a load that is, or is missed.                                           *)
LEMMA FetchCurrent ==
    ASSUME TypeOK, Current, UNCHANGED <<kind, table, origin>>,
           NEW l \in Store, l.items = list.items, l.isLoading = list.isLoading,
           l.hasNext = list.hasNext, l.total = list.total,
           NEW wrote \in BOOLEAN, Fetch(l, wrote), ~wrote => calls' = calls
    PROVE  Current'
<1>1. CASE ~l.isLoading
  <2>1. list' = [l EXCEPT !.isLoading = TRUE, !.error = FALSE] /\ load' = FirstPage(l.filters)
    BY <1>1 DEF Fetch
  <2>2. list'.filters = l.filters /\ l.filters \in Filter
    BY <2>1 DEF Store
  <2>3. QED
    BY <2>1, <2>2, FirstPageCurrent
<1>2. CASE l.isLoading
  <2>1. list' = l /\ load' = load /\ load # NoLoad
    BY <1>2, Parts DEF Fetch
  <2>2. missed' = \/ missed \/ load.filters # l.filters
                  \/ wrote /\ ~(load.first /\ load.answer = NoAnswer)
    BY <1>2 DEF Fetch
  <2>3. SUFFICES ASSUME ~missed, load.filters = l.filters,
                        wrote => load.first /\ load.answer = NoAnswer
                 PROVE  Current'
    BY <2>2 DEF Current
  <2>4. CASE wrote
    <3>1. load.first /\ load.answer = NoAnswer
      BY <2>3, <2>4
    <3>2. LoadIsCurrent' /\ RowsAreCurrent'
      BY <2>1, <2>3, <3>1 DEF LoadIsCurrent, RowsAreCurrent
    <3>3. QED
      BY <3>2 DEF Current
  <2>5. CASE ~wrote
    <3>1. calls' = calls /\ Kept
      BY <2>5 DEF Kept
    <3>2. CASE ToBeFetched
      BY <3>1, <3>2, StillFetched DEF Current
    <3>3. CASE LoadIsCurrent /\ RowsAreCurrent
      <4>1. load.filters = list.filters
        BY <2>1, <3>3 DEF LoadIsCurrent
      <4>2. SameContent
        BY <2>1, <2>3, <4>1 DEF SameContent
      <4>3. ~missed'
        BY <2>2, <2>3, <2>5
      <4>4. QED
        BY <2>1, <2>3, <3>1, <4>2, <4>3, StillCurrent
    <3>4. QED
      BY <2>3, <3>2, <3>3 DEF Current
  <2>6. QED
    BY <2>4, <2>5
<1>3. QED
  BY <1>1, <1>2

(* A page opens with a fetch, or with one of filters it then drops.        *)
LEMMA OpenPageCurrent ==
    ASSUME TypeOK, Current, OpenPage
    PROVE  Current'
<1>1. UNCHANGED <<kind, table, calls, origin>>
  BY DEF OpenPage
<1>2. list \in Store /\ Default \in Filter /\ list.filters \in Filter
  BY Parts
<1> DEFINE l == [list EXCEPT !.filters = Default]
<1>3. l \in Store /\ l.items = list.items /\ l.isLoading = list.isLoading
      /\ l.hasNext = list.hasNext /\ l.total = list.total
  BY <1>2 DEF Store
<1> HIDE DEF l
<1>4. CASE Fetch(l, FALSE)
  BY <1>1, <1>3, <1>4, FetchCurrent
<1>5. CASE Fetch(list, FALSE)
  BY <1>1, <1>2, <1>5, FetchCurrent
<1>6. CASE /\ list' = [list EXCEPT !.filters = Default, !.isLoading = TRUE, !.error = FALSE]
           /\ load' = FirstPage(list.filters)
           /\ missed' = (list.filters # Default)
  <2>1. list'.filters = Default
    BY <1>2, <1>6 DEF Store
  <2>2. CASE list.filters = Default
    BY <1>2, <1>6, <2>1, <2>2, FirstPageCurrent
  <2>3. CASE list.filters # Default
    BY <1>6, <2>3 DEF Current
  <2>4. QED
    BY <2>2, <2>3
<1>7. kind \in {"data", "jobs", "infos", "configs"}
  BY DEF TypeOK
<1>8. QED
  BY <1>4, <1>5, <1>6, <1>7 DEF OpenPage, RunEffects, l

(* A change of the filters fetches, or is missed.                          *)
LEMMA SetFiltersCurrent ==
    ASSUME TypeOK, Current, NEW f \in Filter, SetFilters(f)
    PROVE  Current'
<1> DEFINE l == [list EXCEPT !.filters = f]
<1>1. list \in Store
  BY Parts
<1>2. l \in Store /\ l.items = list.items /\ l.isLoading = list.isLoading
      /\ l.hasNext = list.hasNext /\ l.total = list.total
  BY <1>1 DEF Store
<1>3. Fetch(l, FALSE) /\ UNCHANGED <<kind, table, calls, origin>>
  BY DEF SetFilters, RunEffects
<1> HIDE DEF l
<1>4. QED
  BY <1>2, <1>3, FetchCurrent

(* The fetch after a request may take its place.                           *)
LEMMA DoneCurrent ==
    ASSUME TypeOK, Current, NEW c \in calls, Done(c)
    PROVE  Current'
<1>1. Fetch(list, TRUE) /\ UNCHANGED <<kind, table, origin>>
  BY DEF Done
<1>2. QED
  BY <1>1, Parts, FetchCurrent

(* The next page is asked for behind rows that are current.                *)
LEMMA FetchNextCurrent ==
    ASSUME ListInv, Current, FetchNext
    PROVE  Current'
<1>1. /\ ~list.isLoading /\ list.hasNext /\ UNCHANGED <<kind, table, calls, origin, missed>>
      /\ list' = [list EXCEPT !.isLoading = TRUE, !.error = FALSE]
      /\ load' = [first |-> FALSE, filters |-> list.filters, cursor |-> list.cursor,
                  before |-> list.items, answer |-> NoAnswer]
  BY DEF FetchNext
<1>2. load = NoLoad /\ origin # {} /\ Kept
  BY <1>1, Parts DEF ListInv, GoesOn, Kept
<1>3. SameContent
  <2>1. list \in Store
    BY Parts DEF ListInv
  <2>2. QED
    BY <1>1, <2>1 DEF Store, SameContent
<1>4. CASE ToBeFetched
  BY <1>1, <1>2, <1>4, StillFetched DEF Current
<1>5. CASE LoadIsCurrent /\ RowsAreCurrent
  <2>1. /\ Shows(list.items, list.filters) /\ origin = {list.filters}
        /\ list.hasNext <=> (Len(list.items) < Len(Entries(list.filters, NoCursor)))
        /\ list.total = Len(Entries(list.filters, NoCursor))
    BY <1>2, <1>5 DEF RowsAreCurrent
  <2>2. Shows(list.items, list.filters)'
    BY <1>1, <1>2, <1>3, <2>1, StillShows DEF SameContent
  <2>3. Entries(list.filters, NoCursor)' = Entries(list.filters, NoCursor)
    BY <1>1, <1>3, SameServer DEF SameContent
  <2>4. RowsAreCurrent'
    BY <1>1, <1>3, <2>1, <2>2, <2>3 DEF RowsAreCurrent, SameContent
  <2>5. LoadIsCurrent'
    BY <1>1, <1>3, <2>2 DEF LoadIsCurrent, SameContent
  <2>6. QED
    BY <2>4, <2>5 DEF Current
<1>6. QED
  BY <1>1, <1>4, <1>5 DEF Current

(* The answer is what the server has now.                                  *)
LEMMA ServeCurrent ==
    ASSUME TypeOK, Current, Serve
    PROVE  Current'
<1>1. /\ load # NoLoad
      /\ load' = [load EXCEPT !.answer = Search(load.filters, load.cursor)]
      /\ UNCHANGED <<kind, table, list, calls, origin, missed>>
  BY DEF Serve
<1>2. /\ load'.answer = Search(load.filters, load.cursor) /\ load'.filters = load.filters
      /\ load'.cursor = load.cursor /\ load'.first = load.first /\ load'.before = load.before
      /\ load' # NoLoad
  <2>1. load \in Load
    BY <1>1, Parts
  <2>2. Search(load.filters, load.cursor) \in Answer
    BY <2>1, SearchFits DEF TypeOK, Load
  <2> DEFINE a == Search(load.filters, load.cursor)
  <2> HIDE DEF a
  <2>3. /\ load' \in Load /\ load'.answer = a /\ load'.filters = load.filters
        /\ load'.cursor = load.cursor /\ load'.first = load.first /\ load'.before = load.before
    BY <1>1, <2>1, <2>2 DEF Load, a
  <2>4. QED
    BY <2>3 DEF a
<1>3. Kept
  BY <1>1 DEF Kept
<1>4. CASE ToBeFetched
  BY <1>1, <1>3, <1>4, StillFetched DEF Current
<1>5. CASE LoadIsCurrent /\ RowsAreCurrent
  <2>1. Search(load.filters, load.cursor)' = Search(load.filters, load.cursor)
    BY <1>1, <1>2, SameServer
  <2>2. ~load.first => Shows(load.before, list.filters)'
    BY <1>1, <1>2, <1>3, <1>5, StillShows DEF LoadIsCurrent
  <2>3. LoadIsCurrent'
    BY <1>1, <1>2, <1>5, <2>1, <2>2 DEF LoadIsCurrent
  <2>4. RowsAreCurrent'
    <3>1. ASSUME origin # {}, ~load.first
          PROVE  /\ origin = {list.filters} /\ Shows(list.items, list.filters)'
                 /\ list.hasNext <=> (Len(list.items) < Len(Entries(list.filters, NoCursor)))
                 /\ list.total = Len(Entries(list.filters, NoCursor))
      BY <1>1, <1>3, <1>5, <3>1, StillShows DEF RowsAreCurrent
    <3>2. Entries(list.filters, NoCursor)' = Entries(list.filters, NoCursor)
      BY <1>1, SameServer
    <3>3. QED
      BY <1>1, <1>2, <3>1, <3>2 DEF RowsAreCurrent
  <2>5. QED
    BY <2>3, <2>4 DEF Current
<1>6. QED
  BY <1>1, <1>4, <1>5 DEF Current

(* The answer of a current load makes the rows current: the first ones, or *)
(* those after the ones they are put behind.                               *)
LEMMA DeliverCurrent ==
    ASSUME ListInv, Current, Deliver
    PROVE  Current'
<1> DEFINE a     == load.answer
           f     == list.filters
           all   == Entries(f, NoCursor)
           items == load.before \o a.content
<1>1. /\ load # NoLoad /\ a # NoAnswer
      /\ list' = [list EXCEPT !.items = items, !.isLoading = FALSE,
                              !.hasNext = a.hasNext, !.cursor = a.cursor,
                              !.total = IF load.first THEN a.total ELSE @]
      /\ origin' = {load.filters} \cup IF load.first THEN {} ELSE origin
      /\ load' = NoLoad
      /\ UNCHANGED <<kind, table, calls, missed>>
  BY DEF Deliver
<1>2. /\ load \in Load /\ load.before \in Seq(Entry) /\ load.cursor \in Place \cup {NoCursor}
      /\ list \in Store /\ f \in Filter
  BY <1>1, Parts DEF ListInv, Load
<1>3. /\ list'.items = items /\ list'.hasNext = a.hasNext /\ list'.filters = f
      /\ list'.total = IF load.first THEN a.total ELSE list.total
  BY <1>1, <1>2 DEF Store
<1>4. Kept
  BY <1>1 DEF Kept
<1>5. CASE ToBeFetched
  BY <1>1, <1>4, <1>5, StillFetched DEF Current
<1>6. CASE LoadIsCurrent /\ RowsAreCurrent
  <2>1. load.filters = f /\ a = Search(f, load.cursor)
    BY <1>1, <1>6 DEF LoadIsCurrent
  <2>2. table \in [Row -> Content \cup {Gone}]
    BY DEF ListInv, TypeOK
  <2> DEFINE rest == Entries(f, load.cursor)
  <2>3. /\ a.content \in Seq(Entry) /\ Len(a.content) <= Len(rest)
        /\ \A i \in 1..Len(a.content) : a.content[i] = rest[i]
        /\ a.hasNext <=> Len(a.content) < Len(rest)
        /\ a.total = Len(all)
    <3> DEFINE b == Search(f, load.cursor)
    <3>1. /\ b.content \in Seq(Entry) /\ Len(b.content) <= Len(rest)
          /\ \A i \in 1..Len(b.content) : b.content[i] = rest[i]
          /\ b.hasNext <=> Len(b.content) < Len(rest)
          /\ b.total = Len(all)
      <4> HIDE DEF f
      <4>1. QED
        BY <1>2, <2>2, FirstOfTheList
    <3>2. a = b
      BY <2>1
    <3> HIDE DEF a, b, rest, all
    <3>3. QED
      BY <3>1, <3>2
  <2>4. Len(all) \in Nat /\ Len(rest) \in Nat
    BY <1>2, <2>2, EntriesAre, LenProperties
  <2>5. origin' = {f} /\ Shows(items, f) /\ (a.hasNext <=> Len(items) < Len(all))
        /\ list'.total = Len(all)
    <3>1. CASE load.first
      <4>1. load.before = << >> /\ load.cursor = NoCursor
        BY <1>1, <3>1 DEF ListInv, GoesOn
      <4>2. items = a.content
        BY <2>3, <4>1, ConcatEmptySeq
      <4>3. DOMAIN a.content = 1..Len(a.content)
        BY <2>3, LenProperties
      <4>4. Shows(items, f)
        BY <2>3, <4>1, <4>2, <4>3 DEF Shows
      <4>5. QED
        BY <1>1, <1>3, <2>1, <2>3, <3>1, <4>1, <4>2, <4>4
    <3>2. CASE ~load.first
      <4>1. origin # {} /\ Shows(load.before, f)
        BY <1>1, <1>6, <3>2 DEF ListInv, GoesOn, LoadIsCurrent
      <4>2. origin = {f} /\ list.total = Len(all)
        BY <1>6, <3>2, <4>1 DEF RowsAreCurrent
      <4> DEFINE s == load.before
                 k == Len(s)
                 t == a.content
                 n == Len(t)
      <4>3. s # << >> /\ load.cursor = s[k].place
        BY <1>1, <1>2, <3>2, <4>2 DEF ListInv, GoesOn, EndsAt
      <4>4. s \in Seq(Entry) /\ k \in Nat /\ DOMAIN s = 1..k /\ k >= 1
        <5>1. s \in Seq(Entry) /\ k \in Nat /\ DOMAIN s = 1..k
          BY <1>2, LenProperties
        <5>2. QED
          BY <4>3, <5>1, EmptySeq
      <4>5. t \in Seq(Entry) /\ n \in Nat /\ DOMAIN t = 1..n
        BY <2>3, LenProperties
      <4>6. k <= Len(all) /\ \A i \in 1..k : s[i].place = all[i].place
                                             /\ (s[i].tag = all[i].tag \/ Switched(s[i]))
        BY <4>1, <4>4 DEF Shows
      <4>7. k \in 1..Len(all) /\ load.cursor = all[k].place
        BY <2>4, <4>3, <4>4, <4>6
      <4>8. Len(rest) = Len(all) - k /\ \A i \in 1..Len(rest) : rest[i] = all[k + i]
        <5> HIDE DEF f
        <5>1. /\ Len(Entries(f, all[k].place)) = Len(all) - k
              /\ \A i \in 1..Len(Entries(f, all[k].place)) : Entries(f, all[k].place)[i] = all[k + i]
          <6> HIDE DEF k
          <6>1. QED
            BY <1>2, <2>2, <4>7, RestOfTheList
        <5>2. rest = Entries(f, all[k].place)
          BY <4>7
        <5> HIDE DEF rest, all, k
        <5>3. QED
          BY <5>1, <5>2, Zenon
      <4>9. items \in Seq(Entry) /\ Len(items) = k + n
            /\ \A i \in 1 .. k + n : items[i] = IF i <= k THEN s[i] ELSE t[i - k]
        <5>1. items = s \o t
          OBVIOUS
        <5> HIDE DEF items, s, t
        <5>2. QED
          BY <4>4, <4>5, <5>1, ConcatProperties
      <4>10. DOMAIN items = 1 .. k + n
        BY <4>9, LenProperties
      <4> HIDE DEF items, all, rest, s, t, k, n, a, f
      <4>11. k + n <= Len(all)
        BY <2>3, <2>4, <4>4, <4>5, <4>8 DEF t, n
      <4>12. ASSUME NEW i \in 1 .. k + n
             PROVE  items[i].place = all[i].place /\ (items[i].tag = all[i].tag \/ Switched(items[i]))
        <5>1. CASE i <= k
          <6>1. i \in 1..k /\ items[i] = s[i]
            BY <4>4, <4>9, <5>1
          <6>2. QED
            BY <4>6, <6>1
        <5>2. CASE ~(i <= k)
          <6>1. i - k \in 1..n /\ i - k \in 1..Len(rest) /\ k + (i - k) = i /\ items[i] = t[i - k]
            BY <2>3, <2>4, <4>4, <4>5, <4>9, <5>2 DEF t, n
          <6>2. t[i - k] = rest[i - k] /\ rest[i - k] = all[i]
            BY <2>3, <4>8, <6>1 DEF t, n
          <6>3. QED
            BY <6>1, <6>2
        <5>3. QED
          BY <5>1, <5>2
      <4>13. Shows(items, f)
        BY <4>9, <4>10, <4>11, <4>12 DEF Shows, all
      <4>14. a.hasNext <=> Len(items) < Len(all)
        <5>1. (n < Len(rest)) <=> (k + n < Len(all))
          BY <2>4, <4>4, <4>5, <4>8
        <5>2. QED
          BY <2>3, <4>9, <5>1 DEF t, n
      <4>15. origin' = {f} /\ list'.total = Len(all)
        BY <1>1, <1>3, <2>1, <3>2, <4>2 DEF f
      <4>16. QED
        BY <4>13, <4>14, <4>15
    <3>3. QED
      BY <3>1, <3>2
  <2> HIDE DEF items, a
  <2>6. Shows(list.items, list.filters)'
    BY <1>1, <1>3, <1>4, <2>5, StillShows
  <2>7. Entries(list.filters, NoCursor)' = all
    BY <1>1, <1>3, SameServer
  <2>8. RowsAreCurrent'
    BY <1>1, <1>3, <2>5, <2>6, <2>7 DEF RowsAreCurrent
  <2>9. LoadIsCurrent'
    BY <1>1 DEF LoadIsCurrent
  <2>10. QED
    BY <2>8, <2>9 DEF Current
<1>7. QED
  BY <1>1, <1>5, <1>6 DEF Current

(* A next page that fails leaves the rows current.                         *)
LEMMA LoadFailsCurrent ==
    ASSUME TypeOK, Current, LoadFails
    PROVE  Current'
<1>1. /\ load # NoLoad /\ list' = [list EXCEPT !.isLoading = FALSE, !.error = TRUE]
      /\ missed' = (missed \/ load.first) /\ load' = NoLoad
      /\ UNCHANGED <<kind, table, calls, origin>>
  BY DEF LoadFails
<1>2. SameContent
  <2>1. list \in Store
    BY Parts
  <2>2. QED
    BY <1>1, <2>1 DEF Store, SameContent
<1>3. Kept
  BY <1>1 DEF Kept
<1>4. SUFFICES ASSUME ~missed, ~load.first PROVE Current'
  BY <1>1 DEF Current
<1>5. CASE ToBeFetched
  BY <1>1, <1>3, <1>5, StillFetched DEF Current
<1>6. CASE LoadIsCurrent /\ RowsAreCurrent
  <2>1. ASSUME origin # {}
        PROVE  /\ Shows(list.items, list.filters)' /\ origin = {list.filters}
               /\ list.hasNext <=> (Len(list.items) < Len(Entries(list.filters, NoCursor)))
               /\ list.total = Len(Entries(list.filters, NoCursor))
    BY <1>1, <1>2, <1>3, <1>4, <1>6, <2>1, StillShows DEF RowsAreCurrent, SameContent
  <2>2. Entries(list.filters, NoCursor)' = Entries(list.filters, NoCursor)
    BY <1>1, <1>2, SameServer DEF SameContent
  <2>3. RowsAreCurrent'
    BY <1>1, <1>2, <2>1, <2>2 DEF RowsAreCurrent, SameContent
  <2>4. LoadIsCurrent'
    BY <1>1 DEF LoadIsCurrent
  <2>5. QED
    BY <2>3, <2>4 DEF Current
<1>7. QED
  BY <1>4, <1>5, <1>6 DEF Current

(* A request more leaves what is shown, a switch is shown as it asks.      *)
LEMMA SendKeeps ==
    ASSUME NEW r, NEW old, NEW new, Send(r, old, new)
    PROVE  Kept /\ \E d \in calls' : d.row = r /\ d.new = new
<1> DEFINE one == [id |-> Min(1..MaxCalls \ {c.id : c \in calls}), row |-> r, old |-> old,
                   new |-> new, status |-> "sent"]
<1>1. calls' = calls \cup {one} /\ one.row = r /\ one.new = new
  BY DEF Send
<1> HIDE DEF one
<1>2. QED
  BY <1>1 DEF Kept

(* A form leaves the list.                                                 *)
LEMMA SendOtherCurrent ==
    ASSUME TypeOK, Current,
           \/ \E r \in Row, content \in Input : SendCreate(r, content)
           \/ \E e \in ToSet(list.items), content \in Input \cup {Gone} : SendChange(e, content)
    PROVE  Current'
<1>1. UNCHANGED <<kind, table, list, load, origin, missed>> /\ Kept
  BY SendKeeps DEF SendCreate, SendChange
<1>2. SameContent
  BY <1>1 DEF SameContent
<1>3. QED
  BY <1>1, <1>2, StillCurrent

(* A switch shows what its request asks for.                               *)
LEMMA SendToggleCurrent ==
    ASSUME TypeOK, Current, NEW e \in ToSet(list.items), NEW tag \in Tag, SendToggle(e, tag)
    PROVE  Current'
<1> DEFINE f     == list.filters
           all   == Entries(f, NoCursor)
           items == Relabel(list.items, e.place.row, tag)
<1>1. /\ kind = "configs" /\ Send(e.place.row, ContentOf(e), [ContentOf(e) EXCEPT !.tag = tag])
      /\ list' = [list EXCEPT !.items = items]
      /\ UNCHANGED <<kind, table, load, origin, missed>>
  BY DEF SendToggle
<1>2. Kept /\ \E d \in calls' : d.row = e.place.row /\ d.new.tag = tag
  <2>1. [ContentOf(e) EXCEPT !.tag = tag].tag = tag
    BY DEF ContentOf
  <2> DEFINE new == [ContentOf(e) EXCEPT !.tag = tag]
  <2> HIDE DEF new
  <2>2. Kept /\ \E d \in calls' : d.row = e.place.row /\ d.new = new
    BY <1>1, SendKeeps DEF new
  <2>3. QED
    BY <2>1, <2>2 DEF new
<1>3. /\ list'.items = items /\ list'.hasNext = list.hasNext
      /\ list'.total = list.total /\ list'.filters = f
  <2>1. list \in Store
    BY Parts
  <2>2. QED
    BY <1>1, <2>1 DEF Store
<1>4. Len(items) = Len(list.items) /\ DOMAIN items = DOMAIN list.items
      /\ \A i \in DOMAIN list.items :
            /\ items[i].place = list.items[i].place
            /\ items[i] = list.items[i] \/ (items[i].place.row = e.place.row /\ items[i].tag = tag)
  <2>1. list.items \in Seq(Entry)
    BY Parts
  <2>2. SameRows(list.items, items)
    BY <1>1, <2>1, Relabelled
  <2>3. \A i \in DOMAIN list.items : list.items[i] \in Entry
    BY <2>1, LenProperties, ElementOfSeq
  <2>4. \A i \in DOMAIN list.items :
           items[i] = list.items[i] \/ (items[i].place.row = e.place.row /\ items[i].tag = tag)
    BY <2>3 DEF Relabel, Entry
  <2>5. QED
    BY <2>2, <2>4 DEF SameRows
<1>5. CASE ToBeFetched
  BY <1>1, <1>2, <1>5, StillFetched DEF Current
<1>6. CASE LoadIsCurrent /\ RowsAreCurrent
  <2>1. Entries(list.filters, NoCursor)' = all
    BY <1>1, <1>3, SameServer
  <2>2. ASSUME origin # {}, load = NoLoad \/ ~load.first
        PROVE  /\ Shows(list.items, list.filters)' /\ origin = {f}
               /\ list.hasNext <=> (Len(items) < Len(all))
               /\ list.total = Len(all)
    <3>1. /\ Shows(list.items, f) /\ origin = {f} /\ list.total = Len(all)
          /\ list.hasNext <=> (Len(list.items) < Len(all))
      BY <1>6, <2>2 DEF RowsAreCurrent
    <3>3. ASSUME NEW i \in DOMAIN list.items
          PROVE  items[i].place = all[i].place /\ (items[i].tag = all[i].tag \/ Switched(list.items[i])')
      <4>1. /\ list.items[i].place = all[i].place
            /\ list.items[i].tag = all[i].tag \/ Switched(list.items[i])
        BY <3>1 DEF Shows
      <4> HIDE DEF items, all
      <4>2. items[i].place = all[i].place
        BY <1>4, <4>1
      <4>3. CASE items[i] = list.items[i]
        <5>1. CASE list.items[i].tag = all[i].tag
          BY <4>2, <4>3, <5>1
        <5>2. CASE Switched(list.items[i])
          <6>1. PICK c \in calls : c.row = list.items[i].place.row /\ c.new.tag = list.items[i].tag
            BY <5>2 DEF Switched
          <6>2. PICK d \in calls' : d.row = c.row /\ d.new = c.new
            BY <1>2 DEF Kept
          <6>3. list'.items[i] = list.items[i] /\ kind' = "configs"
            BY <1>1, <1>3, <4>3
          <6>4. Switched(list.items[i])'
            BY <6>1, <6>2, <6>3 DEF Switched
          <6>5. QED
            BY <4>2, <6>4
        <5>3. list.items[i].tag = all[i].tag \/ Switched(list.items[i])
          BY <4>1
        <5>4. QED
          BY <5>1, <5>2, <5>3
      <4>4. CASE items[i].place.row = e.place.row /\ items[i].tag = tag
        <5>1. PICK d \in calls' : d.row = e.place.row /\ d.new.tag = tag
          BY <1>2
        <5>2. list'.items[i].place.row = d.row /\ list'.items[i].tag = d.new.tag /\ kind' = "configs"
          BY <1>1, <1>3, <4>4, <5>1
        <5>3. Switched(list.items[i])'
          BY <5>1, <5>2 DEF Switched
        <5>4. QED
          BY <4>2, <5>3
      <4>5. QED
        BY <1>4, <4>2, <4>3, <4>4
    <3>4. Len(list.items) <= Len(all)
      BY <3>1 DEF Shows
    <3>5. Shows(list.items, list.filters)'
      BY <1>3, <1>4, <2>1, <3>3, <3>4 DEF Shows
    <3>6. QED
      BY <1>4, <3>1, <3>5
  <2>3. RowsAreCurrent'
    BY <1>1, <1>3, <2>1, <2>2 DEF RowsAreCurrent
  <2>4. LoadIsCurrent'
    <3>1. load # NoLoad /\ ~load.first => Shows(load.before, list.filters)'
      BY <1>1, <1>2, <1>3, <1>6, StillShows DEF LoadIsCurrent
    <3>2. QED
      BY <1>1, <1>3, <1>6, <3>1, SameServer DEF LoadIsCurrent
  <2>5. QED
    BY <2>3, <2>4 DEF Current
<1>7. QED
  BY <1>1, <1>5, <1>6 DEF Current

(* What the server has changed is still to be fetched; what it refused is  *)
(* as it was.                                                              *)
LEMMA ApplyCurrent ==
    ASSUME TypeOK, Current, NEW c \in calls, Apply(c)
    PROVE  Current'
<1> DEFINE ok  == (table[c.row] = Gone) = (c.old = Gone)
           now == IF ok THEN "applied" ELSE "refused"
           one == [c EXCEPT !.status = now]
<1>1. /\ c.status = "sent"
      /\ table' = IF ok THEN [table EXCEPT ![c.row] = c.new] ELSE table
      /\ calls' = (calls \ {c}) \cup {one}
      /\ UNCHANGED <<kind, list, load, origin, missed>>
  BY DEF Apply
<1>2. c.row \in Row /\ table \in [Row -> Content \cup {Gone}]
  BY DEF TypeOK, CallsOK, Call
<1>3. one.row = c.row /\ one.new = c.new /\ one.status = now
  <2>1. c \in Call
    BY DEF TypeOK, CallsOK
  <2>2. now \in {"applied", "refused"}
    OBVIOUS
  <2> HIDE DEF now
  <2>3. QED
    BY <2>1, <2>2 DEF Call
<1> HIDE DEF one
<1>4. CASE ok
  <2>1. table'[one.row] = one.new /\ one.status = "applied" /\ one \in calls'
    BY <1>1, <1>2, <1>3, <1>4
  <2>2. ToBeFetched'
    BY <2>1 DEF ToBeFetched
  <2>3. QED
    BY <2>2 DEF Current
<1>5. CASE ~ok
  <2>1. Kept
    BY <1>1, <1>3 DEF Kept
  <2>2. SameContent /\ table' = table
    BY <1>1, <1>5 DEF SameContent
  <2>3. QED
    BY <1>1, <2>1, <2>2, StillCurrent
<1>6. QED
  BY <1>4, <1>5

(* What an undo puts back is what the server has, and nothing else shows   *)
(* what the request asked for.                                             *)
LEMMA UndoShows ==
    ASSUME UNCHANGED <<kind, table>>, NEW c \in calls, calls' = calls \ {c}, CallsDiffer,
           NEW f, NEW items, Shows(items, f),
           kind = "configs" => \A e \in ToSet(items) : ~(e.place.row = c.row /\ e.tag = c.new.tag)
    PROVE  Shows(items, f)'
<1> DEFINE all == Entries(f, NoCursor)
<1>1. Entries(f, NoCursor)' = all
  BY SameServer
<1>2. /\ Len(items) <= Len(all)
      /\ \A i \in DOMAIN items : /\ items[i].place = all[i].place
                                 /\ items[i].tag = all[i].tag \/ Switched(items[i])
  BY DEF Shows
<1> HIDE DEF all
<1>3. ASSUME NEW i \in DOMAIN items, Switched(items[i]) PROVE Switched(items[i])'
  <2>1. PICK d \in calls : kind = "configs" /\ d.row = items[i].place.row /\ d.new.tag = items[i].tag
    BY <1>3 DEF Switched
  <2>2. items[i] \in ToSet(items)
    BY DEF ToSet
  <2>3. d # c
    BY <2>1, <2>2
  <2>4. QED
    BY <2>1, <2>3 DEF Switched
<1>4. QED
  BY <1>1, <1>2, <1>3 DEF Shows

(* The undo of a switch shows what the server has, or is missed.           *)
LEMMA UndoCurrent ==
    ASSUME TypeOK, CallsDiffer, Current, NEW c \in calls, Undo(c)
    PROVE  Current'
<1> DEFINE f     == list.filters
           all   == Entries(f, NoCursor)
           items == IF kind = "configs" THEN Relabel(list.items, c.row, c.old.tag) ELSE list.items
<1>1. /\ list' = IF kind = "configs" THEN [list EXCEPT !.items = Relabel(@, c.row, c.old.tag)] ELSE list
      /\ calls' = calls \ {c}
      /\ UNCHANGED <<kind, table, load, origin>>
  BY DEF Undo
<1>2. missed' = \/ missed \/ table[c.row] # c.old
                \/ /\ kind = "configs" /\ load # NoLoad
                   /\ \E e \in ToSet(load.before) : e.place.row = c.row /\ e.tag = c.new.tag
  BY DEF Undo
<1>3. SUFFICES ASSUME ~missed, table[c.row] = c.old,
                      kind = "configs" /\ load # NoLoad =>
                         \A e \in ToSet(load.before) : ~(e.place.row = c.row /\ e.tag = c.new.tag)
               PROVE  Current'
  BY <1>2 DEF Current
<1>4. list \in Store /\ list.items \in Seq(Entry) /\ f \in Filter /\ table \in [Row -> Content \cup {Gone}]
  BY Parts DEF TypeOK
<1>5. list'.items = items /\ list'.hasNext = list.hasNext /\ list'.total = list.total /\ list'.filters = f
  BY <1>1, <1>4 DEF Store
<1>6. Len(items) = Len(list.items) /\ DOMAIN items = DOMAIN list.items
      /\ \A i \in DOMAIN list.items :
            /\ items[i].place = list.items[i].place
            /\ IF kind = "configs" /\ items[i].place.row = c.row THEN items[i].tag = c.old.tag
               ELSE items[i].tag = list.items[i].tag
  <2>1. CASE kind # "configs"
    BY <2>1
  <2>2. CASE kind = "configs"
    <3>1. c.old.tag \in Tag
      BY <2>2 DEF TypeOK, CallsOK, Content
    <3>2. SameRows(list.items, items)
      BY <1>4, <2>2, <3>1, Relabelled
    <3>3. \A i \in DOMAIN list.items : list.items[i] \in Entry
      BY <1>4, LenProperties, ElementOfSeq
    <3>4. \A i \in DOMAIN list.items :
             IF items[i].place.row = c.row THEN items[i].tag = c.old.tag ELSE items[i].tag = list.items[i].tag
      BY <2>2, <3>3 DEF Relabel, Entry
    <3>5. QED
      BY <2>2, <3>2, <3>4 DEF SameRows
  <2>3. QED
    BY <2>1, <2>2
<1>7. CASE ToBeFetched
  <2>1. PICK d \in calls : d.status = "applied" /\ table[d.row] = d.new
    BY <1>7 DEF ToBeFetched
  <2>2. d # c
    BY <1>3, <2>1 DEF CallsDiffer
  <2>3. ToBeFetched'
    BY <1>1, <2>1, <2>2 DEF ToBeFetched
  <2>4. QED
    BY <2>3 DEF Current
<1>8. CASE LoadIsCurrent /\ RowsAreCurrent
  <2>1. Entries(list.filters, NoCursor)' = all
    BY <1>1, <1>5, SameServer
  <2>2. ASSUME origin # {}, load = NoLoad \/ ~load.first
        PROVE  /\ Shows(list.items, list.filters)' /\ origin = {f}
               /\ list.hasNext <=> (Len(items) < Len(all))
               /\ list.total = Len(all)
    <3>1. /\ Shows(list.items, f) /\ origin = {f} /\ list.total = Len(all)
          /\ list.hasNext <=> (Len(list.items) < Len(all))
      BY <1>8, <2>2 DEF RowsAreCurrent
    <3>2. Len(list.items) <= Len(all)
      BY <3>1 DEF Shows
    <3>3. ASSUME NEW i \in DOMAIN list.items
          PROVE  items[i].place = all[i].place /\ (items[i].tag = all[i].tag \/ Switched(list.items[i])')
      <4>1. /\ list.items[i].place = all[i].place
            /\ list.items[i].tag = all[i].tag \/ Switched(list.items[i])
        BY <3>1 DEF Shows
      <4>2. all[i].tag = table[all[i].place.row].tag
        <5>1. DOMAIN list.items = 1..Len(list.items) /\ Len(list.items) \in Nat
          BY <1>4, LenProperties
        <5>2. all \in Seq(Entry)
          BY <1>4, EntriesAre
        <5>3. i \in 1..Len(all)
          <6> HIDE DEF all
          <6>1. QED
            BY <3>2, <5>1, <5>2, LenProperties
        <5> HIDE DEF f
        <5>4. QED
          BY <1>4, <5>3, EntriesTags
      <4> HIDE DEF items, all
      <4>3. items[i].place = all[i].place
        BY <1>6, <4>1
      <4>4. CASE kind = "configs" /\ items[i].place.row = c.row
        BY <1>3, <1>6, <4>2, <4>3, <4>4
      <4>5. CASE ~(kind = "configs" /\ items[i].place.row = c.row)
        <5>1. items[i].tag = list.items[i].tag /\ items[i].place = list.items[i].place
          BY <1>6, <4>5
        <5>2. CASE list.items[i].tag = all[i].tag
          BY <4>3, <5>1, <5>2
        <5>3. CASE Switched(list.items[i])
          <6>1. PICK d \in calls : kind = "configs" /\ d.row = list.items[i].place.row /\ d.new.tag = list.items[i].tag
            BY <5>3 DEF Switched
          <6>2. d # c /\ d \in calls'
            BY <1>1, <4>5, <5>1, <6>1
          <6>3. list'.items[i].place.row = d.row /\ list'.items[i].tag = d.new.tag /\ kind' = "configs"
            BY <1>1, <1>5, <5>1, <6>1
          <6>4. Switched(list.items[i])'
            BY <6>2, <6>3 DEF Switched
          <6>5. QED
            BY <4>3, <6>4
        <5>4. QED
          BY <4>1, <5>2, <5>3, Zenon
      <4>6. QED
        BY <4>4, <4>5
    <3>4. Shows(list.items, list.filters)'
      BY <1>5, <1>6, <2>1, <3>2, <3>3 DEF Shows
    <3>5. QED
      BY <1>6, <3>1, <3>4
  <2>3. RowsAreCurrent'
    BY <1>1, <1>5, <2>1, <2>2 DEF RowsAreCurrent
  <2>4. LoadIsCurrent'
    <3>1. ASSUME load # NoLoad, ~load.first PROVE Shows(load.before, list.filters)'
      <4>1. Shows(load.before, f) /\ load.before \in Seq(Entry)
        BY <1>8, <3>1, Parts DEF LoadIsCurrent, Load
      <4>2. kind = "configs" => \A e \in ToSet(load.before) : ~(e.place.row = c.row /\ e.tag = c.new.tag)
        BY <1>3, <3>1
      <4>3. QED
        BY <1>1, <1>5, <4>1, <4>2, UndoShows
    <3>2. QED
      BY <1>1, <1>5, <1>8, <3>1, SameServer DEF LoadIsCurrent
  <2>5. QED
    BY <2>3, <2>4 DEF Current
<1>9. QED
  BY <1>3, <1>7, <1>8 DEF Current

(* Every request asks for a change.                                        *)
LEMMA CallsDifferHolds ==
    ASSUME TypeOK, CallsDiffer, [Next]_vars
    PROVE  CallsDiffer'
<1>1. ASSUME NEW r, NEW old, NEW new, Send(r, old, new), old # new PROVE CallsDiffer'
  <2> DEFINE one == [id |-> Min(1..MaxCalls \ {c.id : c \in calls}), row |-> r, old |-> old,
                     new |-> new, status |-> "sent"]
  <2>1. calls' = calls \cup {one} /\ one.old = old /\ one.new = new
    BY <1>1 DEF Send
  <2> HIDE DEF one
  <2>2. QED
    BY <1>1, <2>1 DEF CallsDiffer
<1>2. CASE calls' \subseteq calls
  BY <1>2 DEF CallsDiffer
<1>3. ASSUME NEW r \in Row, NEW content \in Input, SendCreate(r, content) PROVE CallsDiffer'
  <2>1. Gone # content /\ Send(r, Gone, content)
    BY <1>3 DEF SendCreate
  <2>2. QED
    BY <1>1, <2>1
<1>4. ASSUME NEW e, NEW content, SendChange(e, content) PROVE CallsDiffer'
  <2>1. ContentOf(e) # content /\ Send(e.place.row, ContentOf(e), content)
    BY <1>4 DEF SendChange
  <2>2. QED
    BY <1>1, <2>1
<1>5. ASSUME NEW e, NEW tag, SendToggle(e, tag) PROVE CallsDiffer'
  <2> DEFINE new == [ContentOf(e) EXCEPT !.tag = tag]
  <2>1. ContentOf(e) # new /\ Send(e.place.row, ContentOf(e), new)
    BY <1>5 DEF SendToggle, ContentOf
  <2> HIDE DEF new
  <2>2. QED
    BY <1>1, <2>1
<1>6. ASSUME NEW c \in calls, Apply(c) PROVE CallsDiffer'
  <2>1. PICK now \in {"applied", "refused"} : calls' = (calls \ {c}) \cup {[c EXCEPT !.status = now]}
    BY <1>6 DEF Apply
  <2> DEFINE one == [c EXCEPT !.status = now]
  <2>2. one.old = c.old /\ one.new = c.new
    BY DEF TypeOK, CallsOK, Call
  <2> HIDE DEF one
  <2>3. calls' = (calls \ {c}) \cup {one}
    BY <2>1 DEF one
  <2>4. QED
    BY <2>2, <2>3 DEF CallsDiffer
<1>7. ASSUME NEW c \in calls, Done(c) \/ Refused(c) \/ CallFails(c) PROVE CallsDiffer'
  <2>1. calls' = calls \ {c}
    BY <1>7 DEF Done, Refused, CallFails, Undo
  <2>2. QED
    BY <1>2, <2>1
<1>8. CASE \/ OpenPage \/ LeavePage \/ FetchNext \/ Serve \/ Deliver \/ LoadFails
           \/ UNCHANGED vars \/ \E f \in Filter : SetFilters(f)
  <2>1. calls' = calls
    BY <1>8 DEF OpenPage, LeavePage, FetchNext, Serve, Deliver, LoadFails, vars, SetFilters
  <2>2. QED
    BY <1>2, <2>1
<1>9. QED
  BY <1>3, <1>4, <1>5, <1>6, <1>7, <1>8 DEF Next

(* A step of any kind leaves the list current.                             *)
LEMMA CurrentHolds ==
    ASSUME ListInv, CallsDiffer, Current, [Next]_vars
    PROVE  Current'
<1>0. TypeOK
  BY DEF ListInv
<1>1. CASE OpenPage
  BY <1>0, <1>1, OpenPageCurrent
<1>2. CASE LeavePage \/ UNCHANGED vars
  <2>1. UNCHANGED <<kind, table, list, load, calls, origin, missed>>
    BY <1>2 DEF LeavePage, vars
  <2>2. Kept /\ SameContent
    BY <2>1 DEF Kept, SameContent
  <2>3. QED
    BY <2>1, <2>2, StillCurrent
<1>3. ASSUME NEW f \in Filter, SetFilters(f) PROVE Current'
  BY <1>0, <1>3, SetFiltersCurrent
<1>4. CASE FetchNext
  BY <1>4, FetchNextCurrent
<1>5. CASE Serve
  BY <1>0, <1>5, ServeCurrent
<1>6. CASE Deliver
  BY <1>6, DeliverCurrent
<1>7. CASE LoadFails
  BY <1>0, <1>7, LoadFailsCurrent
<1>8. CASE \E r \in Row, content \in Input : SendCreate(r, content)
  BY <1>0, <1>8, SendOtherCurrent
<1>9. ASSUME NEW e \in ToSet(list.items), NEW content \in Input \cup {Gone}, SendChange(e, content) PROVE Current'
  BY <1>0, <1>9, SendOtherCurrent
<1>10. ASSUME NEW e \in ToSet(list.items), NEW tag \in Tag, SendToggle(e, tag) PROVE Current'
  BY <1>0, <1>10, SendToggleCurrent
<1>11. ASSUME NEW c \in calls, Apply(c) PROVE Current'
  BY <1>0, <1>11, ApplyCurrent
<1>12. ASSUME NEW c \in calls, Done(c) PROVE Current'
  BY <1>0, <1>12, DoneCurrent
<1>13. ASSUME NEW c \in calls, Refused(c) \/ CallFails(c) PROVE Current'
  BY <1>0, <1>13, UndoCurrent DEF Refused, CallFails
<1>14. QED
  BY <1>1, <1>2, <1>3, <1>4, <1>5, <1>6, <1>7, <1>8, <1>9, <1>10, <1>11, <1>12, <1>13 DEF Next

-----------------------------------------------------------------------------
(* Whatever the user does, and whatever is answered, refused, lost or late: *)
(* the list loads and goes on as ListInv says, and unless a refresh was     *)
(* missed, either the change made last is still to be fetched, or the rows  *)
(* shown and the answer on its way are what the server has.                 *)
THEOREM Invariant == Spec => []IInv
<1>1. Init => IInv
  <2>1. SUFFICES ASSUME Init PROVE IInv
    OBVIOUS
  <2>2. load = NoLoad /\ origin = {} /\ calls = {}
    BY <2>1 DEF Init
  <2>3. CallsDiffer /\ Current
    BY <2>2 DEF CallsDiffer, Current, LoadIsCurrent, RowsAreCurrent
  <2>4. QED
    BY <2>1, <2>3, InitHolds DEF IInv
<1>2. IInv /\ [Next]_vars => IInv'
  BY StepHolds, CallsDifferHolds, CurrentHolds DEF IInv, ListInv
<1>3. QED
  BY <1>1, <1>2, PTL DEF Spec

(* Once nothing is in flight, the list is what the server has for its       *)
(* filters, or a refresh was skipped or has failed since (fetch, fetchNext, *)
(* updateItemEnabled and its undo).                                         *)
THEOREM ListIsCurrent == Spec => []ShownIsCurrent
<1>1. IInv => ShownIsCurrent
  <2> SUFFICES ASSUME IInv, Settled, ~missed, origin # {} PROVE
        LET all == Entries(list.filters, NoCursor) IN
        /\ origin = {list.filters}
        /\ IsPrefix(list.items, all)
        /\ list.hasNext <=> (Len(list.items) < Len(all))
        /\ list.total = Len(all)
    BY DEF ShownIsCurrent
  <2> DEFINE all   == Entries(list.filters, NoCursor)
             items == list.items
  <2>1. load = NoLoad /\ calls = {} /\ items \in Seq(Entry) /\ list.filters \in Filter
    BY Parts DEF IInv, ListInv, Settled
  <2>2. /\ origin = {list.filters} /\ Shows(items, list.filters)
        /\ list.hasNext <=> (Len(items) < Len(all))
        /\ list.total = Len(all)
    BY <2>1 DEF IInv, Current, ToBeFetched, RowsAreCurrent
  <2>3. all \in Seq(Entry)
    BY <2>1, EntriesAre DEF IInv, ListInv, TypeOK
  <2>4. Len(items) <= Len(all) /\ \A i \in DOMAIN items : items[i].place = all[i].place /\ items[i].tag = all[i].tag
    BY <2>1, <2>2 DEF Shows, Switched
  <2> HIDE DEF all, items
  <2>5. /\ Len(items) \in Nat /\ Len(all) \in Nat /\ DOMAIN items = 1..Len(items)
        /\ \A i \in 1..Len(items) : items[i] \in Entry
        /\ \A i \in 1..Len(all) : all[i] \in Entry
    BY <2>1, <2>3, LenProperties, ElementOfSeq
  <2>6. \A i \in 1..Len(items) : items[i] = all[i]
    <3>1. SUFFICES ASSUME NEW i \in 1..Len(items) PROVE items[i] = all[i]
      OBVIOUS
    <3>2. items[i] \in Entry /\ all[i] \in Entry
      BY <2>4, <2>5
    <3>3. items[i].place = all[i].place /\ items[i].tag = all[i].tag
      BY <2>4, <2>5
    <3>4. QED
      BY <3>2, <3>3 DEF Entry
  <2>7. SubSeq(items, 1, Len(items)) = SubSeq(all, 1, Len(items))
    BY <2>4, <2>5, <2>6
  <2>8. QED
    BY <2>2, <2>4, <2>7 DEF IsPrefix, all, items
<1>2. QED
  BY <1>1, Invariant, PTL

(* A list all of whose pages are of the same filters shows its rows in      *)
(* strict order of the sort keys it shows, whatever was edited, skipped or  *)
(* lost meanwhile, and asks for the next page after its last row (fetch and *)
(* fetchNext of the stores).  A row that an edit has moved past the cursor  *)
(* is shown a second time, with its new sort key.                           *)
THEOREM RowsInOrder == Spec => []OneListing
<1>1. IInv => OneListing
  BY DEF IInv, ListInv
<1>2. QED
  BY <1>1, Invariant, PTL

=============================================================================
