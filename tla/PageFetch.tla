----------------------------- MODULE PageFetch -----------------------------
(***************************************************************************)
(* How SyncJobManager reads a listing of the Open API page by page, while  *)
(* the API may publish further items.                                      *)
(*                                                                         *)
(* An index-info run reads the pages after the first in parallel, batch by *)
(* batch, skips those that fail, and keeps the newest item of each index.  *)
(* The fetch of one target of an index-data run reads them one after the   *)
(* other and gives up on an error.  An item is an identity, the index it   *)
(* belongs to and its base date; that the pages of a batch go through a    *)
(* bounded executor is SyncManager's subject.                              *)
(***************************************************************************)
EXTENDS Integers, FiniteSets, SequencesExt

CONSTANTS
    IndexKey,       \* (classification, name) pairs
    MaxDate,        \* bound: base dates
    MaxListed,      \* bound: items listed when the fetch begins
    MaxNews,        \* bound: items published while it runs
    Rows,           \* numOfRows the responses may state
    FetchBatchSize, \* pages read at once
    NoItem          \* no item of an index yet

NoDate == 0         \* blank basDt: null
Item   == [id : 1..(MaxListed + MaxNews), key : IndexKey, date : 0..MaxDate]
Query  == [kind : {"infos", "data"}, rows : Rows, newestFirst : BOOLEAN]

ASSUME BoundAssumption ==
    /\ {MaxDate, MaxListed, MaxNews} \subseteq Nat
    /\ Rows \subseteq Nat \ {0} /\ FetchBatchSize \in Nat \ {0}
    /\ NoItem \notin Item

VARIABLES
    query,          \* which fetch, the rows of a page and the order of the API
    listing,        \* what the API lists now
    pc,
    totalPages,     \* of the first response
    from,           \* the next page, or the first one of the batch
    read,           \* page of the batch -> its items
    failedPages,    \* pages skipped
    latest,         \* index infos: the item kept of each index
    first, seen,    \* ghosts: what was listed at first, items of the pages read
    news

vars == <<query, listing, pc, totalPages, from, read, failedPages, latest, first, seen, news>>

-----------------------------------------------------------------------------
(* The API: a page is the rows of the listing it has at that moment.       *)
Page(p) ==
    LET start == (p - 1) * query.rows
        end   == start + query.rows
    IN  SubSeq(listing, start + 1, IF end < Len(listing) THEN end ELSE Len(listing))

Publish ==
    /\ pc = "pages" /\ news < MaxNews
    /\ news' = news + 1
    /\ \E k \in IndexKey, d \in 0..MaxDate :
          LET item == [id |-> Len(listing) + 1, key |-> k, date |-> d] IN
          listing' = IF query.newestFirst THEN <<item>> \o listing ELSE Append(listing, item)
    /\ UNCHANGED <<query, pc, totalPages, from, read, failedPages, latest, first, seen>>

-----------------------------------------------------------------------------
TotalPagesRoundedDown(count) == count \div query.rows  \* mutant of TotalPages
TotalPages(count) == (count + query.rows - 1) \div query.rows

(* An item without a date gives way to one with a date, and on equal dates *)
(* the later one in the listing is kept.                                   *)
SelectUnlessBlank(exist, incoming) ==                  \* mutant of SelectLatest
    IF incoming.date = NoDate \/ exist.date = NoDate THEN exist
    ELSE IF exist.date > incoming.date THEN exist ELSE incoming

SelectLatest(exist, incoming) ==
    IF exist.date = NoDate
      THEN IF incoming.date = NoDate THEN exist ELSE incoming
      ELSE IF incoming.date = NoDate \/ exist.date > incoming.date THEN exist ELSE incoming

Keep(map, item) ==          \* Map.merge
    [map EXCEPT ![item.key] = IF @ = NoItem THEN item ELSE SelectLatest(@, item)]
Merge(map, items) == FoldLeft(Keep, map, items)

Nothing == [k \in IndexKey |-> NoItem]
Batch   == {p \in from..totalPages : p < from + FetchBatchSize}

Init ==
    /\ query \in Query
    /\ \E n \in 0..MaxListed : \E keys \in [1..n -> IndexKey], dates \in [1..n -> 0..MaxDate] :
          listing = [i \in 1..n |-> [id |-> i, key |-> keys[i], date |-> dates[i]]]
    /\ pc = "first"
    /\ totalPages = 0 /\ from = 1
    /\ read = <<>> /\ failedPages = {}
    /\ latest = Nothing
    /\ first = <<>> /\ seen = {}
    /\ news = 0

(* The first page tells how many there are; an error in it, or a response  *)
(* without page information, ends the fetch.                               *)
FirstPage ==
    /\ pc = "first"
    /\ first' = listing
    /\ \/ /\ totalPages' = TotalPages(Len(listing))
          /\ latest' = IF query.kind = "infos" THEN Merge(Nothing, Page(1)) ELSE latest
          /\ seen' = ToSet(Page(1))
          /\ from' = 2
          /\ pc' = IF from' <= totalPages' THEN "pages" ELSE "returned"
       \/ /\ pc' = "failed"
          /\ UNCHANGED <<totalPages, latest, seen, from>>
    /\ UNCHANGED <<query, listing, read, failedPages, news>>

(* fetchTarget: page after page; an error loses what was read.             *)
NextPageBeforeLast ==                                  \* mutant of NextPage
    /\ pc = "pages" /\ query.kind = "data"
    /\ seen' = seen \cup ToSet(Page(from))
    /\ from' = from + 1
    /\ pc' = IF from' < totalPages THEN "pages" ELSE "returned"
    /\ UNCHANGED <<query, listing, totalPages, read, failedPages, latest, first, news>>

NextPage ==
    /\ pc = "pages" /\ query.kind = "data"
    /\ \/ /\ seen' = seen \cup ToSet(Page(from))
          /\ from' = from + 1
          /\ pc' = IF from' <= totalPages THEN "pages" ELSE "returned"
       \/ /\ pc' = "failed"
          /\ UNCHANGED <<seen, from>>
    /\ UNCHANGED <<query, listing, totalPages, read, failedPages, latest, first, news>>

(* fetchPagesAsync: the pages of a batch in any order, some of them fail   *)
(* or are rejected; joined, they are merged in the order of the pages.     *)
ReadPage(p) ==
    /\ pc = "pages" /\ query.kind = "infos"
    /\ p \in Batch \ DOMAIN read
    /\ \/ /\ read' = [q \in DOMAIN read \cup {p} |-> IF q = p THEN Page(p) ELSE read[q]]
          /\ UNCHANGED failedPages
       \/ /\ read' = [q \in DOMAIN read \cup {p} |-> IF q = p THEN <<>> ELSE read[q]]
          /\ failedPages' = failedPages \cup {p}
    /\ UNCHANGED <<query, listing, pc, totalPages, from, latest, first, seen, news>>

JoinKeepsPages ==                                      \* mutant of Join
    /\ pc = "pages" /\ query.kind = "infos"
    /\ DOMAIN read = Batch
    /\ latest' = FoldLeft(Merge, latest, [i \in 1..Cardinality(Batch) |-> read[from + i - 1]])
    /\ seen' = seen \cup UNION {ToSet(read[p]) : p \in Batch}
    /\ from' = from + FetchBatchSize
    /\ pc' = IF from' <= totalPages THEN "pages" ELSE "returned"
    /\ UNCHANGED <<query, listing, totalPages, read, failedPages, first, news>>

Join ==
    /\ pc = "pages" /\ query.kind = "infos"
    /\ DOMAIN read = Batch
    /\ latest' = FoldLeft(Merge, latest, [i \in 1..Cardinality(Batch) |-> read[from + i - 1]])
    /\ seen' = seen \cup UNION {ToSet(read[p]) : p \in Batch}
    /\ read' = <<>>
    /\ from' = from + FetchBatchSize
    /\ pc' = IF from' <= totalPages THEN "pages" ELSE "returned"
    /\ UNCHANGED <<query, listing, totalPages, failedPages, first, news>>

Over == pc \in {"returned", "failed"} /\ UNCHANGED vars

Next ==
    \/ Publish
    \/ FirstPage \/ NextPage \/ Join
    \/ \E p \in Batch : ReadPage(p)
    \/ Over

Spec == Init /\ [][Next]_vars

-----------------------------------------------------------------------------
(* The types; only pages of the current batch wait to be merged, and a     *)
(* data fetch has no batch.                                                *)
TypeOK ==
    /\ query \in Query
    /\ listing \in Seq(Item) /\ first \in Seq(Item)
    /\ pc \in {"first", "pages", "returned", "failed"}
    /\ totalPages \in Nat /\ from \in Nat \ {0}
    /\ DOMAIN read \subseteq Batch /\ (query.kind = "data" => DOMAIN read = {})
    /\ \A p \in DOMAIN read : read[p] \in Seq(Item) /\ Len(read[p]) <= query.rows
    /\ failedPages \subseteq 2..totalPages
    /\ seen \subseteq Item
    /\ news \in 0..MaxNews

(* map holds an item of each index, none of the read ones being newer.      *)
Newest(map, items) ==
    /\ map \in [IndexKey -> Item \cup {NoItem}]
    /\ \A k \in IndexKey :
          LET ofKey == {item \in items : item.key = k} IN
          IF ofKey = {} THEN map[k] = NoItem
          ELSE map[k] \in ofKey /\ \A item \in ofKey : item.date <= map[k].date

(* An index-info run keeps of every index an item that was read, and none  *)
(* that was read is newer, in whichever order pages and items come and     *)
(* wherever an item has no date; of an index nobody read it keeps nothing. *)
LatestIsNewest == query.kind = "infos" => Newest(latest, seen)

(* Every item listed at first is read, whatever the numbers of rows and    *)
(* items, if no page failed and the API published nothing meanwhile or     *)
(* lists new items at the end.                                             *)
NoneMissed ==
    pc = "returned" /\ failedPages = {} /\ (news = 0 \/ ~query.newestFirst)
        => ToSet(first) \subseteq seen

(* Where new items come first they push the others to later pages: read    *)
(* one after the other, the pages miss none but the last of the listing,   *)
(* one for each item published.                                            *)
OnlyTheLastMissed ==
    pc = "returned" /\ query.kind = "data" =>
        \A i \in DOMAIN first : first[i] \notin seen => i > Len(first) - news

-----------------------------------------------------------------------------
(* Why: an item listed at first stands as many places further back as were *)
(* published before it.                                                    *)
Shift == IF query.newestFirst THEN news ELSE 0

FirstStays ==
    IF pc = "first" THEN news = 0 /\ Len(listing) <= MaxListed
    ELSE /\ Len(listing) = Len(first) + news /\ Len(first) <= MaxListed
         /\ \A i \in DOMAIN first : listing[i + Shift] = first[i]

(* The pages counted hold the whole first listing, and a fetch that        *)
(* returned has read the last of them.                                     *)
CountedPages ==
    /\ pc = "first" => from = 1 /\ totalPages = 0
    /\ pc \in {"pages", "returned"} => Len(first) <= totalPages * query.rows /\ from >= 2
    /\ pc = "returned" => from > totalPages

(* Whatever stands before the next page has been read: by a data fetch     *)
(* always, by an info run if no page failed and nothing moved.             *)
Passed ==
    pc \in {"pages", "returned"} /\ (query.kind = "data" \/ (failedPages = {} /\ Shift = 0)) =>
        /\ \A i \in DOMAIN first : i + Shift <= (from - 1) * query.rows => first[i] \in seen
        /\ \A p \in DOMAIN read : \A i \in DOMAIN first :
              (p - 1) * query.rows < i /\ i <= p * query.rows => first[i] \in ToSet(read[p])

IInv == TypeOK /\ FirstStays /\ CountedPages /\ Passed

=============================================================================
