---------------------------- MODULE CursorSearch ----------------------------
(***************************************************************************)
(* The four paged searches (index infos, index data, sync jobs, auto-sync  *)
(* configs): a client follows nextCursor and nextIdAfter from page to page *)
(* while rows are inserted, changed and deleted between its requests.      *)
(*                                                                         *)
(* A row is reduced to its sort key, whether the filter of the search      *)
(* matches it and, for a sync job, whether it still refers to an index     *)
(* info.  Which of the four searches runs, its sort field, direction and   *)
(* page size are the query, fixed for a scan.  A cursor names the last row *)
(* of a page by sort key and id; reading it back gives the same values.    *)
(***************************************************************************)
EXTENDS Integers, FiniteSets

CONSTANTS
    MaxId,          \* bound: ids
    MaxKey,         \* bound: sort keys
    Queries,        \* the queries to consider
    DefaultSize,    \* page size when none, or one below 1, is given
    MaxSize,        \* largest page of the config search
    NoRow, NoCursor,
    MaxWrites       \* bound: rows written during the scan

Id  == 1..MaxId
Key == 1..MaxKey
Null == MaxKey + 1      \* PostgreSQL sorts NULL behind every value
False == 1              \* the keys of auto_sync_config.enabled
True  == 2

Search    == {"indexInfo", "indexData", "syncJob", "autoSyncConfig"}
Field     == {"value", "targetDate", "enabled"}
Direction == {"asc", "desc", "blank"}   \* or missing, of index infos; desc for the others
Query == [search : Search, field : Field, direction : Direction, size : Nat]

ASSUME QueryAssumption ==
    /\ Queries \subseteq Query
    /\ \A q \in Queries : /\ q.field = "targetDate" => q.search = "syncJob"
                          /\ q.field = "enabled" => q.search = "autoSyncConfig"
ASSUME BoundAssumption ==
    /\ {MaxId, MaxKey, MaxWrites} \subseteq Nat /\ MaxKey >= True
    /\ {DefaultSize, MaxSize} \subseteq Nat \ {0}

KeyOf(q) == CASE q.field = "value"      -> Key
              [] q.field = "enabled"    -> {False, True}
              [] q.field = "targetDate" -> Key \cup {Null}

Row == [key : Key \cup {Null}, matches : BOOLEAN, attached : BOOLEAN]
RowOf(q) == {r \in Row : /\ r.key \in KeyOf(q)
                         /\ q.search # "syncJob" => r.attached}

ASSUME NullAssumption == NoRow \notin Row /\ NoCursor \notin [key : Int, id : Int]

VARIABLES
    table,      \* Id -> the committed row
    query,
    pc,         \* "ask" for a page, "count" the total, "over", "failed" (an error response)
    pages,      \* pages delivered
    cursor,     \* nextCursor and nextIdAfter, NoCursor when they are null
    hasNext,
    total,      \* totalElements of the last page
    shown,      \* rows delivered: key and id as read, and the page
    touched,    \* ghost: rows written during the scan
    writes

scanVars == <<pc, pages, cursor, hasNext, total, shown>>
vars == <<table, query, scanVars, touched, writes>>

Rows == {i \in Id : table[i] # NoRow}

-----------------------------------------------------------------------------
(* What a blank direction means differs from search to search.             *)
InfoAscending(d)   == d # "desc"
DataAscending(d)   == d = "asc"
JobAscending(d)    == d # "desc"
ConfigAscending(d) == d = "asc"

Ascending ==
    CASE query.search = "indexInfo"      -> InfoAscending(query.direction)
      [] query.search = "indexData"      -> DataAscending(query.direction)
      [] query.search = "syncJob"        -> JobAscending(query.direction)
      [] query.search = "autoSyncConfig" -> ConfigAscending(query.direction)

PageSize(n)   == IF n <= 0 THEN DefaultSize ELSE n
ConfigSize(n) == LET p == PageSize(n) IN IF p > MaxSize THEN MaxSize ELSE p
Size == IF query.search = "autoSyncConfig" THEN ConfigSize(query.size) ELSE PageSize(query.size)

(* ORDER BY the sort field, then id, both in the same direction.           *)
Less(a, b)   == a.key < b.key \/ (a.key = b.key /\ a.id < b.id)
Before(a, b) == IF Ascending THEN Less(a, b) ELSE Less(b, a)

(* compareCursor: the row comes after the cursor.                          *)
KeysetNotBefore(c, e) == ~Before(e, c)                 \* mutant of KeysetAfter
KeysetAfter(c, e) == Before(c, e)

(* The same as JPQL: a comparison with NULL is never true.                 *)
NullableAfter(c, e) == e.key # Null /\ Before(c, e)

(* compareEnabledCursor: the other value altogether, or the same value and *)
(* an id further on.                                                       *)
EnabledOtherOnly(c, e) ==                              \* mutant of EnabledAfter
    IF e.key = c.key
      THEN c.key = (IF Ascending THEN True ELSE False)
             /\ (IF Ascending THEN e.id > c.id ELSE e.id < c.id)
      ELSE c.key = IF Ascending THEN False ELSE True
EnabledAfter(c, e) ==
    \/ e.key = c.key /\ IF Ascending THEN e.id > c.id ELSE e.id < c.id
    \/ e.key # c.key /\ c.key = IF Ascending THEN False ELSE True

After(e) ==
    \/ cursor = NoCursor
    \/ CASE query.field = "value"      -> KeysetAfter(cursor, e)
         [] query.field = "targetDate" -> NullableAfter(cursor, e)
         [] query.field = "enabled"    -> EnabledAfter(cursor, e)

Entry(i) == [key |-> table[i].key, id |-> i]

(* The search of sync jobs joins index_info, which drops the jobs whose    *)
(* index info was deleted; the other joins drop nothing.                   *)
Visible(i) == table[i].matches /\ table[i].attached

Found == {e \in {Entry(i) : i \in {j \in Rows : Visible(j)}} : After(e)}
PageOf(F, n) == {e \in F : Cardinality({f \in F : Before(f, e)}) < n}   \* LIMIT

MatchingIgnored == Rows                                \* mutant of Matching
Matching == {i \in Rows : table[i].matches}            \* count has no join

(* getCursorValue: a job without target date cannot be turned into one.    *)
NoCursorValue(e) == e.key = Null

-----------------------------------------------------------------------------
Init ==
    /\ query \in Queries
    /\ table \in [Id -> RowOf(query) \cup {NoRow}]
    /\ pc = "ask" /\ pages = 0
    /\ cursor = NoCursor /\ hasNext = TRUE
    /\ total = 0
    /\ shown = {}
    /\ touched = {} /\ writes = 0

MoreAtFullPage(F, n) == Cardinality(F) >= n            \* mutant of More
More(F, n) == Cardinality(F) > n                       \* size + 1 rows were read

(* search: one query for the page.  The cursor is built from its last row, *)
(* or cannot be, which fails the request (some searches count first).      *)
Deliver(P) ==
    /\ pc' = "count"
    /\ pages' = pages + 1
    /\ shown' = shown \cup {[key |-> e.key, id |-> e.id, page |-> pages + 1] : e \in P}

AskPage ==
    LET F    == Found
        P    == PageOf(F, Size)
        Last == {e \in P : \A f \in P : ~Before(e, f)}
    IN
    /\ pc = "ask"
    /\ hasNext' = More(F, Size)
    /\ \/ (hasNext' => P = {}) /\ Deliver(P) /\ cursor' = NoCursor
       \/ \E e \in Last : hasNext' /\ ~NoCursorValue(e) /\ Deliver(P) /\ cursor' = e
       \/ \E e \in Last : /\ hasNext' /\ NoCursorValue(e)
                          /\ pc' = "failed"
                          /\ UNCHANGED <<cursor, pages, shown>>
    /\ UNCHANGED <<table, query, total, touched, writes>>

(* count: a second query; the response goes out and the client follows it. *)
CountTotal ==
    /\ pc = "count"
    /\ total' = Cardinality(Matching)
    /\ pc' = IF hasNext THEN "ask" ELSE "over"
    /\ UNCHANGED <<table, query, pages, cursor, hasNext, shown, touched, writes>>

-----------------------------------------------------------------------------
(* Requests and syncs on other threads, after the first page was read.     *)
Write(i, row) ==
    /\ pages > 0 /\ pc \in {"ask", "count"}
    /\ writes < MaxWrites
    /\ writes' = writes + 1
    /\ table' = [table EXCEPT ![i] = row]
    /\ touched' = touched \cup {i}
    /\ UNCHANGED <<query, scanVars>>

Insert(i) ==                \* ids are drawn in order, their rows commit in any order
    /\ i \notin Rows \cup touched
    /\ \E row \in {r \in RowOf(query) : r.attached} : Write(i, row)

Change(i) ==                \* a PATCH or a sync; sync jobs are never changed
    /\ i \in Rows /\ query.search # "syncJob"
    /\ \E row \in RowOf(query) \ {table[i]} : Write(i, row)

Delete(i) ==
    /\ i \in Rows /\ query.search # "syncJob"
    /\ Write(i, NoRow)

Detach(i) ==                \* the index info of a job is deleted; a filter on it matches no more
    /\ i \in Rows /\ query.search = "syncJob" /\ table[i].attached
    /\ \E m \in BOOLEAN : /\ m => table[i].matches
                          /\ Write(i, [table[i] EXCEPT !.attached = FALSE, !.matches = m])

Done == pc \in {"over", "failed"} /\ UNCHANGED vars

Next ==
    \/ AskPage \/ CountTotal \/ Done
    \/ \E i \in Id : Insert(i) \/ Change(i) \/ Delete(i) \/ Detach(i)

Spec == Init /\ [][Next]_vars

-----------------------------------------------------------------------------
(* Types; a page that is followed has rows, so there is a cursor to follow. *)
TypeOK ==
    /\ query \in Queries
    /\ table \in [Id -> RowOf(query) \cup {NoRow}]
    /\ pc \in {"ask", "count", "over", "failed"}
    /\ pages \in Nat /\ total \in Nat
    /\ cursor \in [key : KeyOf(query), id : Id] \cup {NoCursor}
    /\ pages > 0 /\ hasNext => cursor # NoCursor
    /\ hasNext \in BOOLEAN
    /\ shown \subseteq [key : KeyOf(query), id : Id, page : 1..pages]
    /\ touched \subseteq Id
    /\ writes \in 0..MaxWrites

(* The pages, one after the other, are in the order asked for and have no  *)
(* entry twice, whatever is written between the requests.                  *)
PagesInOrder ==
    \A a, b \in shown : a.page < b.page => Before(a, b)

(* No comparison with a cursor is true of a job without target date: in    *)
(* ascending order, where these come last, only a first page can show them. *)
Reachable(i) == Ascending => table[i].key # Null

(* Who follows the cursors to the end has seen every row that matched and  *)
(* was left alone all the while, whatever happened to the other rows, the  *)
(* one the cursor was taken from included.                                 *)
StableRowsShown ==
    pc = "over" =>
        \A i \in Rows \ touched : Visible(i) /\ Reachable(i) => \E e \in shown : e.id = i

(* hasNext is true only when a next page has rows, if nothing is written:  *)
(* "found more than size means there is a next page" (SyncJobServiceImpl). *)
(* It is so unless there are rows out of reach.                            *)
PageHasRows == touched = {} /\ pages > 1 => \E e \in shown : e.page = pages
NextPageExists == (\A i \in Rows : Visible(i) => Reachable(i)) => PageHasRows
JobNextPageExists == query.field = "targetDate" => PageHasRows

(* totalElements is the number of rows the pages show, if nothing is       *)
(* written: filter and search agree.  Not so where rows are out of reach,  *)
(* nor among the jobs of deleted infos, which are counted and never shown. *)
TotalIsShown == pc = "over" /\ touched = {} => total = Cardinality(shown)
TotalElements ==
    (\A i \in Rows : table[i].matches => table[i].attached /\ Reachable(i)) => TotalIsShown

-----------------------------------------------------------------------------
(* The inductive invariant behind PagesInOrder and StableRowsShown.        *)
AskedWhileMore == (pc = "ask" => hasNext) /\ (pc = "over" => ~hasNext)
ShownIsPassed ==        \* nothing shown lies behind the cursor
    cursor # NoCursor => \A e \in shown : ~Before(cursor, e)
RestIsAhead ==          \* what is left alone was shown, or a next page finds it
    \A i \in Rows \ touched : Visible(i) /\ Reachable(i) =>
        (\E e \in shown : e.id = i) \/ (hasNext /\ After(Entry(i)))

IInv ==
    /\ TypeOK
    /\ AskedWhileMore
    /\ ShownIsPassed
    /\ RestIsAhead
    /\ PagesInOrder

=============================================================================
