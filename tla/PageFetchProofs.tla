-------------------------- MODULE PageFetchProofs --------------------------
(* IInv is inductive for listings and pages of every size, either order    *)
(* and any number of items published meanwhile.  From it: what a fetch may *)
(* miss.  And a fold over items keeps of each index the newest one, by     *)
(* induction on the items, stated as the least place where it would fail.  *)
EXTENDS PageFetch, SequenceTheorems, FiniteSetTheorems, WellFoundedInduction, TLAPS

-----------------------------------------------------------------------------
(* Page arithmetic.                                                        *)

(* A product with the rows of a page grows with its first factor.          *)
LEMMA Product ==
    ASSUME NEW a \in Int, NEW b \in Int, NEW r \in Nat, a <= b
    PROVE  a * r \in Int /\ b * r \in Int /\ a * r <= b * r
BY SMT

(* The page after p begins where p ends.                                   *)
LEMMA NextProduct ==
    ASSUME NEW a \in Int, NEW r \in Nat
    PROVE  (a - 1) * r + r = a * r /\ (a + 1 - 1) * r = a * r
BY SMT

(* The pages counted hold every item.                                      *)
LEMMA PagesHold ==
    ASSUME NEW n \in Nat, query.rows \in Nat \ {0}
    PROVE  TotalPages(n) \in Nat /\ n <= TotalPages(n) * query.rows
<1> DEFINE r == query.rows
<1>1. \A k \in Nat : k \div r \in Nat /\ k < (k \div r) * r + r
  BY SMT
<1>2. n + r - 1 \in Nat
  OBVIOUS
<1>3. (n + r - 1) \div r \in Nat /\ n + r - 1 < ((n + r - 1) \div r) * r + r
  BY <1>1, <1>2
<1>4. QED
  BY <1>3 DEF TotalPages

(* Every place is on a page.                                               *)
LEMMA OnSomePage ==
    ASSUME NEW i \in Nat, NEW r \in Nat \ {0}, i >= 1
    PROVE  \E p \in Nat : (p - 1) * r < i /\ i <= p * r
<1>1. (i - 1) \div r \in Nat /\ ((i - 1) \div r) * r <= i - 1 /\ i - 1 < ((i - 1) \div r) * r + r
  BY SMT
<1> DEFINE p == (i - 1) \div r + 1
<1>2. p \in Nat /\ (p - 1) * r = ((i - 1) \div r) * r /\ p * r = ((i - 1) \div r) * r + r
  BY <1>1, SMT
<1>3. QED
  BY <1>1, <1>2

(* A page is what stands at its places.                                    *)
LEMMA PageIs ==
    ASSUME listing \in Seq(Item), query.rows \in Nat \ {0}, NEW p \in Nat, p >= 1
    PROVE  /\ Page(p) \in Seq(Item) /\ Len(Page(p)) <= query.rows
           /\ ToSet(Page(p)) \subseteq Item
           /\ \A j \in 1..Len(listing) :
                 (p - 1) * query.rows < j /\ j <= p * query.rows => listing[j] \in ToSet(Page(p))
<1> DEFINE start == (p - 1) * query.rows
           end   == start + query.rows
           last  == IF end < Len(listing) THEN end ELSE Len(listing)
<1>1. start \in Nat /\ end \in Nat /\ end = p * query.rows
  <2>1. 0 * query.rows <= start /\ start \in Int
    BY Product
  <2>2. QED
    BY <2>1, NextProduct
<1>2. Len(listing) \in Nat /\ \A j \in 1..Len(listing) : listing[j] \in Item
  BY LenProperties, ElementOfSeq
<1>3. last \in Int /\ last <= Len(listing) /\ last <= end
  BY <1>1, <1>2
<1> HIDE DEF start, end, last
<1>4. \A j \in start + 1 .. last : listing[j] \in Item
  BY <1>1, <1>2, <1>3
<1>5. Page(p) = SubSeq(listing, start + 1, last)
  BY DEF Page, start, end, last
<1>6. /\ SubSeq(listing, start + 1, last) \in Seq(Item)
      /\ Len(SubSeq(listing, start + 1, last)) = IF start + 1 <= last THEN last - (start + 1) + 1 ELSE 0
      /\ \A j \in 1 .. last - (start + 1) + 1 : SubSeq(listing, start + 1, last)[j] = listing[start + 1 + j - 1]
  BY <1>1, <1>3, <1>4, SubSeqProperties
<1>7. Page(p) \in Seq(Item)
  BY <1>5, <1>6
<1>8. Len(Page(p)) <= query.rows
  BY <1>1, <1>3, <1>5, <1>6 DEF end
<1>9. ToSet(Page(p)) \subseteq Item
  BY <1>7, LenProperties, ElementOfSeq DEF ToSet
<1>10. ASSUME NEW j \in 1..Len(listing), (p - 1) * query.rows < j, j <= p * query.rows
       PROVE  listing[j] \in ToSet(Page(p))
  <2>1. start < j /\ j <= end
    BY <1>1, <1>10 DEF start
  <2>2. j <= last
    BY <1>1, <1>2, <2>1 DEF last
  <2>3. j - start \in 1 .. last - (start + 1) + 1
    BY <1>1, <1>3, <2>1, <2>2
  <2>4. Page(p)[j - start] = listing[j]
    BY <1>1, <1>5, <1>6, <2>1, <2>3
  <2>5. j - start \in DOMAIN Page(p)
    BY <1>1, <1>3, <1>5, <1>6, <1>7, <2>3, LenProperties
  <2>6. QED
    BY <2>4, <2>5 DEF ToSet
<1>11. QED
  BY <1>7, <1>8, <1>9, <1>10
-----------------------------------------------------------------------------
(* One step at a time.                                                     *)

(* What the types say of the numbers and lengths.                          *)
LEMMA Sizes ==
    ASSUME TypeOK
    PROVE  /\ query.rows \in Nat \ {0} /\ query.kind \in {"infos", "data"}
           /\ query.newestFirst \in BOOLEAN
           /\ Len(listing) \in Nat /\ DOMAIN listing = 1..Len(listing)
           /\ Len(first) \in Nat /\ DOMAIN first = 1..Len(first)
           /\ \A i \in 1..Len(first) : first[i] \in Item
           /\ from \in Nat /\ from >= 1 /\ totalPages \in Nat
           /\ news \in Nat /\ news <= MaxNews /\ MaxNews \in Nat /\ MaxListed \in Nat
           /\ FetchBatchSize \in Nat /\ FetchBatchSize >= 1
           /\ Shift \in Nat /\ Shift <= news
<1>1. query.rows \in Nat \ {0} /\ query.kind \in {"infos", "data"} /\ query.newestFirst \in BOOLEAN
  BY BoundAssumption DEF TypeOK, Query
<1>2. /\ Len(listing) \in Nat /\ DOMAIN listing = 1..Len(listing)
      /\ Len(first) \in Nat /\ DOMAIN first = 1..Len(first)
      /\ \A i \in 1..Len(first) : first[i] \in Item
  BY LenProperties, ElementOfSeq DEF TypeOK
<1>3. /\ from \in Nat /\ from >= 1 /\ totalPages \in Nat
      /\ news \in Nat /\ news <= MaxNews /\ MaxNews \in Nat /\ MaxListed \in Nat
      /\ FetchBatchSize \in Nat /\ FetchBatchSize >= 1
  BY BoundAssumption DEF TypeOK
<1>4. QED
  BY <1>1, <1>2, <1>3 DEF Shift

(* The listing of the start is a sequence of items.                        *)
LEMMA InitHolds == Init => IInv
<1> SUFFICES ASSUME Init PROVE IInv
  OBVIOUS
<1>1. PICK n \in 0..MaxListed : \E keys \in [1..n -> IndexKey], dates \in [1..n -> 0..MaxDate] :
          listing = [i \in 1..n |-> [id |-> i, key |-> keys[i], date |-> dates[i]]]
  BY DEF Init
<1>2. PICK keys \in [1..n -> IndexKey], dates \in [1..n -> 0..MaxDate] :
          listing = [i \in 1..n |-> [id |-> i, key |-> keys[i], date |-> dates[i]]]
  BY <1>1
<1>3. n \in Nat /\ n <= MaxListed /\ {MaxListed, MaxNews, MaxDate} \subseteq Nat
  BY BoundAssumption
<1>4. \A i \in 1..n : [id |-> i, key |-> keys[i], date |-> dates[i]] \in Item
  <2>1. SUFFICES ASSUME NEW i \in 1..n PROVE [id |-> i, key |-> keys[i], date |-> dates[i]] \in Item
    OBVIOUS
  <2>2. i \in 1..(MaxListed + MaxNews) /\ keys[i] \in IndexKey /\ dates[i] \in 0..MaxDate
    BY <1>3
  <2>3. QED
    BY <2>2 DEF Item
<1>5. listing \in Seq(Item) /\ Len(listing) = n
  BY <1>2, <1>3, <1>4
<1>6. TypeOK
  <2>1. query \in Query /\ first = << >> /\ pc = "first" /\ totalPages = 0 /\ from = 1 /\ read = << >>
        /\ failedPages = {} /\ seen = {} /\ news = 0
    BY DEF Init
  <2>2. first \in Seq(Item) /\ DOMAIN read = {} /\ news \in 0..MaxNews
    BY <1>3, <2>1
  <2>3. QED
    BY <1>5, <2>1, <2>2 DEF TypeOK
<1>7. FirstStays
  BY <1>3, <1>5 DEF FirstStays, Init
<1>8. CountedPages /\ Passed
  BY DEF CountedPages, Passed, Init
<1>9. QED
  BY <1>6, <1>7, <1>8 DEF IInv

(* An item published at the front moves the others one place back, one at  *)
(* the end leaves them.                                                    *)
LEMMA PublishHolds ==
    ASSUME IInv, Publish
    PROVE  IInv'
<1> USE DEF IInv
<1>1. PICK k \in IndexKey, d \in 0..MaxDate :
          listing' = IF query.newestFirst
                       THEN << [id |-> Len(listing) + 1, key |-> k, date |-> d] >> \o listing
                       ELSE Append(listing, [id |-> Len(listing) + 1, key |-> k, date |-> d])
  BY DEF Publish
<1> DEFINE item == [id |-> Len(listing) + 1, key |-> k, date |-> d]
<1>2. /\ pc = "pages" /\ news < MaxNews /\ news' = news + 1
      /\ UNCHANGED <<query, pc, totalPages, from, read, failedPages, latest, first, seen>>
  BY DEF Publish
<1>3. Len(listing) = Len(first) + news /\ Len(first) <= MaxListed
      /\ \A i \in DOMAIN first : listing[i + Shift] = first[i]
  BY <1>2 DEF FirstStays
<1>4. item \in Item
  <2>1. Len(listing) + 1 \in 1..(MaxListed + MaxNews)
    BY Sizes, <1>2, <1>3
  <2>2. QED
    BY <2>1 DEF Item
<1>5. /\ listing' \in Seq(Item) /\ Len(listing') = Len(listing) + 1
      /\ \A j \in 1..Len(listing) : listing'[j + (IF query.newestFirst THEN 1 ELSE 0)] = listing[j]
  <2>1. listing \in Seq(Item) /\ <<item>> \in Seq(Item) /\ Len(<<item>>) = 1 /\ Len(listing) \in Nat
    BY <1>4, Sizes DEF TypeOK
  <2> HIDE DEF item
  <2>2. CASE query.newestFirst
    <3>1. listing' = <<item>> \o listing
      BY <1>1, <2>2 DEF item
    <3>2. /\ <<item>> \o listing \in Seq(Item) /\ Len(<<item>> \o listing) = 1 + Len(listing)
          /\ \A i \in 1 .. 1 + Len(listing) :
                (<<item>> \o listing)[i] = IF i <= 1 THEN <<item>>[i] ELSE listing[i - 1]
      BY <2>1, ConcatProperties
    <3>3. QED
      BY <2>1, <2>2, <3>1, <3>2
  <2>3. CASE ~query.newestFirst
    <3>1. listing' = Append(listing, item)
      BY <1>1, <2>3 DEF item
    <3>2. QED
      BY <1>4, <2>1, <2>3, <3>1 DEF item
  <2>4. QED
    BY <2>2, <2>3
<1>6. Shift' = Shift + (IF query.newestFirst THEN 1 ELSE 0)
  BY <1>2, Sizes DEF Shift
<1>7. TypeOK'
  BY <1>2, <1>5, Sizes DEF TypeOK, Batch
<1>8. FirstStays'
  <2>1. ASSUME NEW i \in DOMAIN first PROVE listing'[i + Shift'] = first[i]
    <3>1. i + Shift \in 1..Len(listing)
      BY <1>3, Sizes
    <3>2. listing'[i + Shift + (IF query.newestFirst THEN 1 ELSE 0)] = listing[i + Shift]
      BY <1>5, <3>1
    <3>3. i + Shift' = i + Shift + (IF query.newestFirst THEN 1 ELSE 0)
      BY <1>6, Sizes
    <3>4. QED
      BY <1>3, <3>2, <3>3
  <2>2. QED
    BY <1>2, <1>3, <1>5, <2>1, Sizes DEF FirstStays
<1>9. CountedPages'
  BY <1>2 DEF CountedPages
<1>10. Passed'
  <2>1. SUFFICES ASSUME query.kind = "data" \/ (failedPages = {} /\ Shift' = 0)
                 PROVE  /\ \A i \in DOMAIN first : i + Shift' <= (from - 1) * query.rows => first[i] \in seen
                        /\ \A p \in DOMAIN read : \A i \in DOMAIN first :
                             (p - 1) * query.rows < i /\ i <= p * query.rows => first[i] \in ToSet(read[p])
    BY <1>2 DEF Passed
  <2>2. Shift <= Shift' /\ Shift' \in Nat /\ Shift \in Nat
    BY <1>6, Sizes
  <2>3. query.kind = "data" \/ (failedPages = {} /\ Shift = 0)
    BY <2>1, <2>2
  <2>4. \A i \in DOMAIN first : i + Shift <= (from - 1) * query.rows => first[i] \in seen
    BY <1>2, <2>3 DEF Passed
  <2>5. \A p \in DOMAIN read : \A i \in DOMAIN first :
          (p - 1) * query.rows < i /\ i <= p * query.rows => first[i] \in ToSet(read[p])
    BY <1>2, <2>3 DEF Passed
  <2>6. (from - 1) * query.rows \in Int
    BY Sizes, Product
  <2>7. ASSUME NEW i \in DOMAIN first, i + Shift' <= (from - 1) * query.rows PROVE first[i] \in seen
    BY <2>2, <2>4, <2>6, <2>7, Sizes
  <2>8. QED
    BY <2>5, <2>7
<1>11. QED
  BY <1>7, <1>8, <1>9, <1>10

(* The first page counts the pages and holds the first rows.               *)
LEMMA FirstPageHolds ==
    ASSUME IInv, FirstPage
    PROVE  IInv'
<1> USE DEF IInv
<1>1. /\ pc = "first" /\ first' = listing
      /\ UNCHANGED <<query, listing, read, failedPages, news>>
  BY DEF FirstPage
<1>2. news = 0 /\ Len(listing) <= MaxListed
  BY <1>1 DEF FirstStays
<1>3. FirstStays'
  <2>1. Shift' = 0 /\ news' = 0 /\ pc' # "first"
    BY <1>1, <1>2 DEF Shift, FirstPage
  <2>2. \A i \in DOMAIN listing : i + 0 = i
    BY Sizes
  <2>3. QED
    BY <1>1, <1>2, <2>1, <2>2, Sizes DEF FirstStays
<1>4. from = 1 /\ totalPages = 0 /\ DOMAIN read = {} /\ failedPages = {}
  <2>1. from = 1 /\ totalPages = 0
    BY <1>1 DEF CountedPages
  <2>2. Batch = {} /\ 2..totalPages = {}
    BY <2>1 DEF Batch
  <2>3. DOMAIN read \subseteq Batch /\ failedPages \subseteq 2..totalPages
    BY DEF TypeOK
  <2>4. QED
    BY <2>1, <2>2, <2>3
<1>5. CASE pc' = "failed" /\ UNCHANGED <<totalPages, latest, seen, from>>
  <2>1. TypeOK'
    BY <1>1, <1>5 DEF TypeOK, Batch
  <2>2. QED
    BY <1>3, <1>5, <2>1 DEF CountedPages, Passed
<1>6. CASE /\ totalPages' = TotalPages(Len(listing))
           /\ seen' = ToSet(Page(1))
           /\ from' = 2
           /\ pc' = IF from' <= totalPages' THEN "pages" ELSE "returned"
  <2>1. totalPages' \in Nat /\ Len(listing) <= totalPages' * query.rows
    BY <1>6, Sizes, PagesHold
  <2>2. TypeOK'
    <3>1. seen' \subseteq Item
      BY <1>6, Sizes, PageIs DEF TypeOK
    <3>2. DOMAIN read' \subseteq Batch' /\ failedPages' \subseteq 2..totalPages'
      BY <1>1, <1>4
    <3>3. QED
      BY <1>1, <1>4, <1>6, <2>1, <3>1, <3>2 DEF TypeOK
  <2>3. CountedPages'
    BY <1>1, <1>6, <2>1 DEF CountedPages
  <2>4. Passed'
    <3>1. ASSUME NEW i \in DOMAIN listing, i + Shift' <= (2 - 1) * query.rows
          PROVE  listing[i] \in ToSet(Page(1))
      <4>1. Shift' = 0
        BY <1>1, <1>2 DEF Shift
      <4>2. i \in 1..Len(listing) /\ (1 - 1) * query.rows < i /\ i <= 1 * query.rows
        BY <3>1, <4>1, Sizes
      <4>3. QED
        BY <4>2, Sizes, PageIs DEF TypeOK
    <3>2. QED
      BY <1>1, <1>4, <1>6, <3>1 DEF Passed
  <2>5. QED
    BY <1>3, <2>2, <2>3, <2>4
<1>7. QED
  BY <1>5, <1>6 DEF FirstPage

(* An item stands at its shifted place, so a page read now has it if that  *)
(* place is on it.                                                         *)
LEMMA PageHasIt ==
    ASSUME IInv, pc # "first", NEW p \in Nat, p >= 1, NEW i \in DOMAIN first,
           (p - 1) * query.rows < i + Shift, i + Shift <= p * query.rows
    PROVE  first[i] \in ToSet(Page(p))
<1>1. listing[i + Shift] = first[i] /\ Len(listing) = Len(first) + news
  BY DEF IInv, FirstStays
<1>2. i + Shift \in 1..Len(listing)
  BY <1>1, Sizes DEF IInv
<1>3. QED
  BY <1>1, <1>2, PageIs, Sizes DEF IInv, TypeOK

(* A data fetch passes one page more, which holds what stands on it.       *)
LEMMA NextPageHolds ==
    ASSUME IInv, NextPage
    PROVE  IInv'
<1> USE DEF IInv
<1>1. /\ pc = "pages" /\ query.kind = "data"
      /\ UNCHANGED <<query, listing, totalPages, read, failedPages, latest, first, news>>
  BY DEF NextPage
<1>2. DOMAIN read = {} /\ Shift' = Shift
  BY <1>1 DEF TypeOK, Shift
<1>3. CASE pc' = "failed" /\ UNCHANGED <<seen, from>>
  <2>1. TypeOK'
    BY <1>1, <1>3 DEF TypeOK, Batch
  <2>2. QED
    BY <1>1, <1>2, <1>3, <2>1 DEF FirstStays, CountedPages, Passed
<1>4. CASE /\ seen' = seen \cup ToSet(Page(from))
           /\ from' = from + 1
           /\ pc' = IF from' <= totalPages THEN "pages" ELSE "returned"
  <2>1. TypeOK'
    <3>1. seen' \subseteq Item
      BY <1>4, Sizes, PageIs DEF TypeOK
    <3>2. QED
      BY <1>1, <1>2, <1>4, <3>1, Sizes DEF TypeOK
  <2>2. FirstStays'
    BY <1>1, <1>2, <1>4 DEF FirstStays
  <2>3. CountedPages'
    BY <1>1, <1>4, Sizes DEF CountedPages
  <2>4. Passed'
    <3>1. ASSUME NEW i \in DOMAIN first, i + Shift <= (from + 1 - 1) * query.rows
          PROVE  first[i] \in seen \cup ToSet(Page(from))
      <4>1. (from - 1) * query.rows \in Int /\ i + Shift <= from * query.rows /\ i + Shift \in Int
        BY <3>1, Product, NextProduct, Sizes
      <4>2. CASE i + Shift <= (from - 1) * query.rows
        BY <1>1, <4>2 DEF Passed
      <4>3. CASE (from - 1) * query.rows < i + Shift
        BY <1>1, <4>1, <4>3, PageHasIt, Sizes
      <4>4. QED
        BY <4>1, <4>2, <4>3
    <3>2. \A i \in DOMAIN first' : i + Shift' <= (from' - 1) * query'.rows => first'[i] \in seen'
      <4>1. first' = first /\ query' = query /\ from' = from + 1
        BY <1>1, <1>4
      <4>2. QED
        <5>1. from' - 1 = from + 1 - 1
          BY <4>1, Sizes
        <5>2. (from' - 1) * query'.rows = (from + 1 - 1) * query.rows
          BY <4>1, <5>1
        <5>3. QED
          BY <1>2, <1>4, <3>1, <4>1, <5>2
    <3>3. DOMAIN read' = {}
      BY <1>1, <1>2
    <3>4. QED
      BY <3>2, <3>3 DEF Passed
  <2>5. QED
    BY <2>1, <2>2, <2>3, <2>4
<1>5. QED
  BY <1>3, <1>4 DEF NextPage

(* A page of the batch holds what stands on it, or counts as failed.       *)
LEMMA ReadPageHolds ==
    ASSUME IInv, NEW p \in Batch, ReadPage(p)
    PROVE  IInv'
<1> USE DEF IInv
<1>1. /\ pc = "pages" /\ query.kind = "infos" /\ p \notin DOMAIN read
      /\ UNCHANGED <<query, listing, pc, totalPages, from, latest, first, seen, news>>
  BY DEF ReadPage
<1>2. p \in from..totalPages /\ p \in Nat /\ p >= 2 /\ Shift' = Shift
  BY <1>1, Sizes DEF Batch, CountedPages, Shift
<1>3. CountedPages' /\ FirstStays'
  BY <1>1, <1>2 DEF CountedPages, FirstStays
<1>4. PICK items \in {Page(p), << >>} :
          /\ read' = [q \in DOMAIN read \cup {p} |-> IF q = p THEN items ELSE read[q]]
          /\ \/ items = Page(p) /\ failedPages' = failedPages
             \/ failedPages' = failedPages \cup {p}
  BY DEF ReadPage
<1>5. DOMAIN read' = DOMAIN read \cup {p} /\ read'[p] = items /\ \A q \in DOMAIN read : read'[q] = read[q]
  BY <1>1, <1>4
<1>6. TypeOK'
  <2>1. items \in Seq(Item) /\ Len(items) <= query.rows
    <3>1. Page(p) \in Seq(Item) /\ Len(Page(p)) <= query.rows
      BY <1>2, Sizes, PageIs DEF TypeOK
    <3>2. << >> \in Seq(Item) /\ Len(<< >>) = 0
      BY EmptySeq
    <3>3. CASE items = Page(p)
      BY <3>1, <3>3
    <3>4. CASE items = << >>
      BY <3>2, <3>4, Sizes
    <3>5. QED
      BY <3>3, <3>4
  <2>2. \A q \in DOMAIN read' : read'[q] \in Seq(Item) /\ Len(read'[q]) <= query.rows
    BY <1>5, <2>1 DEF TypeOK
  <2>3. failedPages' \subseteq 2..totalPages
    <3>1. failedPages \subseteq 2..totalPages /\ totalPages \in Nat /\ from \in Nat
      BY DEF TypeOK
    <3>2. p \in 2..totalPages
      BY <1>2, <3>1
    <3>3. QED
      BY <1>4, <3>1, <3>2
  <2>4. DOMAIN read' \subseteq Batch
    BY <1>5 DEF TypeOK
  <2>5. QED
    BY <1>1, <2>2, <2>3, <2>4 DEF TypeOK, Batch
<1>7. Passed'
  <2>1. SUFFICES ASSUME failedPages' = {}, Shift = 0
                 PROVE  /\ \A i \in DOMAIN first : i + Shift <= (from - 1) * query.rows => first[i] \in seen
                        /\ \A q \in DOMAIN read' : \A i \in DOMAIN first :
                             (q - 1) * query.rows < i /\ i <= q * query.rows => first[i] \in ToSet(read'[q])
    BY <1>1, <1>2 DEF Passed
  <2>2. failedPages = {} /\ items = Page(p)
    BY <1>4, <2>1
  <2>3. /\ \A i \in DOMAIN first : i + Shift <= (from - 1) * query.rows => first[i] \in seen
        /\ \A q \in DOMAIN read : \A i \in DOMAIN first :
             (q - 1) * query.rows < i /\ i <= q * query.rows => first[i] \in ToSet(read[q])
    BY <1>1, <2>1, <2>2 DEF Passed
  <2>4. ASSUME NEW i \in DOMAIN first, (p - 1) * query.rows < i, i <= p * query.rows
        PROVE  first[i] \in ToSet(Page(p))
    <3>1. i + Shift = i
      BY <2>1, Sizes
    <3>2. QED
      BY <1>1, <1>2, <2>4, <3>1, PageHasIt
  <2>5. QED
    BY <1>5, <2>2, <2>3, <2>4
<1>8. QED
  BY <1>3, <1>6, <1>7

(* What a batch adds: the places of its pages.                             *)
LEMMA JoinReads ==
    ASSUME IInv, Join, failedPages = {}, Shift = 0,
           NEW i \in DOMAIN first, i <= (from + FetchBatchSize - 1) * query.rows
    PROVE  first[i] \in seen'
<1> USE DEF IInv
<1>1. /\ pc = "pages" /\ query.kind = "infos" /\ DOMAIN read = Batch
      /\ seen' = seen \cup UNION {ToSet(read[p]) : p \in Batch}
  BY DEF Join
<1>2. i \in Nat /\ i >= 1 /\ i <= Len(first)
  BY Sizes
<1>3. /\ \A j \in DOMAIN first : j + Shift <= (from - 1) * query.rows => first[j] \in seen
      /\ \A p \in DOMAIN read : \A j \in DOMAIN first :
           (p - 1) * query.rows < j /\ j <= p * query.rows => first[j] \in ToSet(read[p])
  BY <1>1 DEF Passed
<1>4. /\ Len(first) \in Nat /\ query.rows \in Nat /\ totalPages \in Int /\ from - 1 \in Int
      /\ from + FetchBatchSize - 1 \in Int
  BY Sizes
<1>5. CASE i <= (from - 1) * query.rows
  BY <1>1, <1>2, <1>3, <1>5
<1>6. CASE (from - 1) * query.rows < i
  <2>1. PICK p \in Nat : (p - 1) * query.rows < i /\ i <= p * query.rows
    BY <1>2, OnSomePage, Sizes
  <2>2. from <= p
    <3>1. SUFFICES ASSUME p <= from - 1 PROVE FALSE
      BY Sizes
    <3>2. p * query.rows <= (from - 1) * query.rows /\ p * query.rows \in Int /\ (from - 1) * query.rows \in Int
      BY <1>4, <3>1, Product
    <3>3. QED
      BY <1>2, <1>6, <2>1, <3>2
  <2>3. p <= totalPages
    <3>1. SUFFICES ASSUME totalPages <= p - 1 PROVE FALSE
      BY Sizes
    <3>2. /\ totalPages * query.rows <= (p - 1) * query.rows
          /\ totalPages * query.rows \in Int /\ (p - 1) * query.rows \in Int
      BY <1>4, <3>1, Product
    <3>3. Len(first) <= totalPages * query.rows
      BY <1>1 DEF CountedPages
    <3>4. QED
      BY <1>2, <1>4, <2>1, <3>2, <3>3
  <2>4. p < from + FetchBatchSize
    <3>1. SUFFICES ASSUME from + FetchBatchSize - 1 <= p - 1 PROVE FALSE
      BY Sizes
    <3>2. /\ (from + FetchBatchSize - 1) * query.rows <= (p - 1) * query.rows
          /\ (from + FetchBatchSize - 1) * query.rows \in Int /\ (p - 1) * query.rows \in Int
      BY <1>4, <3>1, Product
    <3>3. QED
      BY <1>2, <2>1, <3>2
  <2>5. p \in Batch
    BY <2>2, <2>3, <2>4, Sizes DEF Batch
  <2>6. first[i] \in ToSet(read[p])
    BY <1>1, <1>3, <2>1, <2>5
  <2>7. QED
    BY <1>1, <2>5, <2>6
<1>7. QED
  <2>1. (from - 1) * query.rows \in Int
    BY Product, Sizes
  <2>2. QED
    BY <1>2, <1>5, <1>6, <2>1

(* A joined batch has passed all its pages.                                *)
LEMMA JoinHolds ==
    ASSUME IInv, Join
    PROVE  IInv'
<1> USE DEF IInv
<1>1. /\ pc = "pages" /\ query.kind = "infos" /\ DOMAIN read = Batch
      /\ seen' = seen \cup UNION {ToSet(read[p]) : p \in Batch}
      /\ read' = << >> /\ from' = from + FetchBatchSize
      /\ pc' = IF from' <= totalPages THEN "pages" ELSE "returned"
      /\ UNCHANGED <<query, listing, totalPages, failedPages, first, news>>
  BY DEF Join
<1>2. DOMAIN read' = {} /\ Shift' = Shift /\ from' \in Nat /\ from' >= 1
  BY <1>1, Sizes DEF Shift
<1>3. TypeOK'
  <2>1. \A p \in Batch : ToSet(read[p]) \subseteq Item
    <3>1. SUFFICES ASSUME NEW p \in Batch PROVE ToSet(read[p]) \subseteq Item
      OBVIOUS
    <3>2. read[p] \in Seq(Item)
      BY <1>1 DEF TypeOK
    <3>3. QED
      BY <3>2, LenProperties, ElementOfSeq DEF ToSet
  <2>2. seen' \subseteq Item
    BY <1>1, <2>1 DEF TypeOK
  <2>3. QED
    BY <1>1, <1>2, <2>2 DEF TypeOK
<1>4. FirstStays'
  BY <1>1, <1>2 DEF FirstStays
<1>5. CountedPages'
  BY <1>1, <1>2, Sizes DEF CountedPages
<1>6. Passed'
  <2>1. ASSUME failedPages = {}, Shift = 0, NEW i \in DOMAIN first,
               i + Shift <= (from + FetchBatchSize - 1) * query.rows
        PROVE  first[i] \in seen'
    <3>1. i + Shift = i
      BY <2>1, Sizes
    <3>2. QED
      BY <2>1, <3>1, JoinReads
  <2>2. (from' - 1) * query'.rows = (from + FetchBatchSize - 1) * query.rows
    <3>1. from' - 1 = from + FetchBatchSize - 1 /\ query' = query
      BY <1>1, Sizes
    <3>2. QED
      BY <3>1
  <2>3. QED
    BY <1>1, <1>2, <2>1, <2>2 DEF Passed
<1>7. QED
  BY <1>3, <1>4, <1>5, <1>6

-----------------------------------------------------------------------------
(* The invariant: for any listing, rows, batches and publications.         *)
THEOREM Invariant == Spec => []IInv
<1>1. Init => IInv
  BY InitHolds
<1>2. IInv /\ [Next]_vars => IInv'
  <2>1. SUFFICES ASSUME IInv, [Next]_vars PROVE IInv'
    OBVIOUS
  <2>2. CASE UNCHANGED vars
    BY <2>1, <2>2 DEF vars, IInv, TypeOK, FirstStays, CountedPages, Passed, Shift, Batch
  <2>3. CASE Publish
    BY <2>1, <2>3, PublishHolds
  <2>4. CASE FirstPage
    BY <2>1, <2>4, FirstPageHolds
  <2>5. CASE NextPage
    BY <2>1, <2>5, NextPageHolds
  <2>6. CASE Join
    BY <2>1, <2>6, JoinHolds
  <2>7. CASE \E p \in Batch : ReadPage(p)
    BY <2>1, <2>7, ReadPageHolds
  <2>8. CASE Over
    BY <2>2, <2>8 DEF Over
  <2>9. QED
    BY <2>1, <2>2, <2>3, <2>4, <2>5, <2>6, <2>7, <2>8 DEF Next
<1>3. QED
  BY <1>1, <1>2, PTL DEF Spec

(* What a returned fetch has not read stood, when it returned, beyond the  *)
(* pages counted at the beginning.                                         *)
LEMMA Unread ==
    ASSUME IInv, pc = "returned", query.kind = "data" \/ (failedPages = {} /\ Shift = 0),
           NEW i \in DOMAIN first, first[i] \notin seen
    PROVE  i + Shift > Len(first)
<1> USE DEF IInv
<1>1. Len(first) <= totalPages * query.rows /\ totalPages <= from - 1
  BY Sizes DEF CountedPages
<1>2. /\ totalPages * query.rows <= (from - 1) * query.rows
      /\ totalPages * query.rows \in Int /\ (from - 1) * query.rows \in Int
  <2>1. totalPages \in Int /\ from - 1 \in Int /\ query.rows \in Nat
    BY Sizes
  <2>2. QED
    BY <1>1, <2>1, Product
<1>3. ~(i + Shift <= (from - 1) * query.rows)
  BY DEF Passed
<1>4. Len(first) \in Nat /\ i + Shift \in Nat
  BY Sizes
<1>5. QED
  BY <1>1, <1>2, <1>3, <1>4

(* Without failed pages and with a listing that only grows at its end,     *)
(* every item listed at first is read (fetchPagesAsync,                    *)
(* fetchStockMarketIndexes).                                               *)
THEOREM AllRead == Spec => []NoneMissed
<1>1. IInv => NoneMissed
  <2>1. SUFFICES ASSUME IInv, pc = "returned", failedPages = {}, news = 0 \/ ~query.newestFirst,
                        NEW i \in DOMAIN first, first[i] \notin seen
                 PROVE  FALSE
    BY DEF NoneMissed, ToSet
  <2>2. Shift = 0
    BY <2>1 DEF Shift
  <2>3. i + 0 > Len(first)
    BY <2>1, <2>2, Unread
  <2>4. QED
    BY <2>1, <2>3, Sizes DEF IInv
<1>2. QED
  BY <1>1, Invariant, PTL

(* Read one after the other, shifting pages lose at most as many of the    *)
(* last items as were published (fetchStockMarketIndexes).                 *)
THEOREM LastOnlyMissed == Spec => []OnlyTheLastMissed
<1>1. IInv => OnlyTheLastMissed
  <2>1. SUFFICES ASSUME IInv, pc = "returned", query.kind = "data",
                        NEW i \in DOMAIN first, first[i] \notin seen
                 PROVE  i > Len(first) - news
    BY DEF OnlyTheLastMissed
  <2>2. i + Shift > Len(first)
    BY <2>1, Unread
  <2>3. QED
    BY <2>1, <2>2, Sizes DEF IInv
<1>2. QED
  BY <1>1, Invariant, PTL

-----------------------------------------------------------------------------
(* Folds from the left.  FoldLeft recurs on the set of places still to be  *)
(* folded; it has a value for each, and the least place a property fails   *)
(* at is one the step before it refutes.                                   *)

(* Numbers have a least one.                                               *)
LEMMA Least ==
    ASSUME NEW S \in SUBSET Nat, S # {}
    PROVE  \E m \in S : \A k \in S : m <= k
<1>1. PICK m \in S : \A k \in S : ~(<<k, m>> \in OpToRel(<, Nat))
  BY NatLessThanWellFounded, WFMin
<1>2. \A k \in S : m <= k
  <2>1. SUFFICES ASSUME NEW k \in S, k < m PROVE FALSE
    OBVIOUS
  <2>2. <<k, m>> \in Nat \X Nat
    OBVIOUS
  <2>3. QED
    BY <1>1, <2>1, <2>2 DEF OpToRel
<1>3. QED
  BY <1>2

(* The largest place of a set is the one above which it has none.          *)
LEMMA MaxIs ==
    ASSUME NEW m \in Nat, NEW s \in SUBSET (1..m), m \in s
    PROVE  Max(s) = m
<1>1. \A y \in s : m >= y /\ y \in Nat
  OBVIOUS
<1>2. \A x \in s : (\A y \in s : x >= y) => x = m
  BY <1>1
<1>3. QED
  BY <1>1, <1>2 DEF Max

(* A fold from the left has a value for every set of places: the function  *)
(* FoldLeft recurs on exists.                                              *)
Folded(V, n, base, step) ==
    {f \in [SUBSET (1..n) -> V] : \A s \in SUBSET (1..n) :
        f[s] = IF s = {} THEN base ELSE step[<<Max(s), f[s \ {Max(s)}]>>]}

LEMMA FoldExists ==
    ASSUME NEW V, NEW n \in Nat, NEW base \in V, NEW step \in [(1..n) \X V -> V]
    PROVE  Folded(V, n, base, step) # {}
<1> DEFINE Folds(m, f) == \A s \in SUBSET (1..m) :
                             f[s] = IF s = {} THEN base ELSE step[<<Max(s), f[s \ {Max(s)}]>>]
           bad == {m \in 0..n : ~\E f \in [SUBSET (1..m) -> V] : Folds(m, f)}
<1>1. SUFFICES bad = {}
  <2>1. n \in 0..n
    OBVIOUS
  <2>2. QED
    BY <2>1 DEF Folded
<1>2. 0 \notin bad
  <2> DEFINE f == [s \in SUBSET (1..0) |-> base]
  <2>1. 1..0 = {}
    OBVIOUS
  <2>2. f \in [SUBSET (1..0) -> V] /\ Folds(0, f)
    BY <2>1
  <2> HIDE DEF f, Folds
  <2>3. QED
    BY <2>2
<1>3. ASSUME NEW m \in bad, \A k \in bad : m <= k
      PROVE  FALSE
  <2>0. m \in 0..n
    OBVIOUS
  <2>1. m \in 1..n /\ m - 1 \in 0..n /\ m - 1 \notin bad
    <3> HIDE DEF bad
    <3>1. QED
      BY <1>2, <1>3, <2>0
  <2>2. PICK g \in [SUBSET (1..(m - 1)) -> V] : Folds(m - 1, g)
    BY <2>1
  <2> DEFINE f == [s \in SUBSET (1..m) |-> IF m \in s THEN step[<<m, g[s \ {m}]>>] ELSE g[s]]
  <2>3. \A s \in SUBSET (1..m) : s \ {m} \in SUBSET (1..(m - 1))
    BY <2>1
  <2>4. f \in [SUBSET (1..m) -> V]
    <3>1. SUFFICES ASSUME NEW s \in SUBSET (1..m)
                   PROVE  (IF m \in s THEN step[<<m, g[s \ {m}]>>] ELSE g[s]) \in V
      OBVIOUS
    <3>2. CASE m \in s
      BY <2>1, <2>3, <3>2
    <3>3. CASE m \notin s
      <4>1. s = s \ {m}
        BY <3>3
      <4>2. QED
        BY <2>3, <3>3, <4>1
    <3>4. QED
      BY <3>2, <3>3
  <2>5. ASSUME NEW s \in SUBSET (1..m)
        PROVE  f[s] = IF s = {} THEN base ELSE step[<<Max(s), f[s \ {Max(s)}]>>]
    <3>1. CASE m \in s
      <4>1. Max(s) = m
        BY <2>1, <3>1, MaxIs
      <4>2. f[s] = step[<<m, g[s \ {m}]>>]
        BY <3>1
      <4>3. s \ {m} \in SUBSET (1..m) /\ m \notin s \ {m}
        OBVIOUS
      <4>4. f[s \ {m}] = g[s \ {m}]
        BY <4>3
      <4> HIDE DEF f
      <4>5. QED
        BY <3>1, <4>1, <4>2, <4>4
    <3>2. CASE m \notin s
      <4>1. s \in SUBSET (1..(m - 1))
        BY <2>3, <3>2
      <4>2. f[s] = g[s]
        BY <3>2
      <4>3. g[s] = IF s = {} THEN base ELSE step[<<Max(s), g[s \ {Max(s)}]>>]
        BY <2>2, <4>1
      <4>4. s \ {Max(s)} \in SUBSET (1..m) /\ m \notin s \ {Max(s)}
        BY <3>2
      <4>5. f[s \ {Max(s)}] = g[s \ {Max(s)}]
        BY <4>4
      <4> HIDE DEF f
      <4>6. QED
        BY <4>2, <4>3, <4>5
    <3>3. QED
      BY <3>1, <3>2
  <2>6. Folds(m, f)
    BY <2>5
  <2> HIDE DEF f, Folds
  <2>7. QED
    BY <2>4, <2>6
<1>4. bad \in SUBSET Nat
  OBVIOUS
<1> HIDE DEF bad
<1>5. QED
  BY <1>3, <1>4, Least

(* What the map of the newest items may hold.                              *)
KeptItems == [IndexKey -> Item \cup {NoItem}]

LEMMA KeepType ==
    ASSUME NEW map \in KeptItems, NEW item \in Item
    PROVE  Keep(map, item) \in KeptItems
<1>1. item.key \in IndexKey /\ map[item.key] \in Item \cup {NoItem}
  BY DEF Item, KeptItems
<1>2. SelectLatest(map[item.key], item) \in {map[item.key], item}
  BY DEF SelectLatest
<1>3. QED
  BY <1>1, <1>2 DEF Keep, KeptItems


(* A set of places has its largest place.                                  *)
LEMMA MaxIn ==
    ASSUME NEW n \in Nat, NEW s \in SUBSET (1..n), s # {}
    PROVE  Max(s) \in s
<1> DEFINE S == {n - k : k \in s}
<1>0. \A k \in s : k \in Nat /\ n - k \in Nat
  OBVIOUS
<1>1. S \in SUBSET Nat /\ S # {}
  BY <1>0
<1>2. PICK m \in S : \A k \in S : m <= k
  BY <1>1, Least
<1>3. PICK x \in s : m = n - x
  OBVIOUS
<1>4. \A y \in s : x >= y
  <2>1. SUFFICES ASSUME NEW y \in s PROVE x >= y
    OBVIOUS
  <2>2. n - y \in S
    OBVIOUS
  <2>3. m <= n - y
    BY <1>2, <2>2
  <2>4. QED
    BY <1>0, <1>3, <2>3
<1>5. QED
  BY <1>4 DEF Max

(* Merging a page is keeping its items one after the other.                *)
LEMMA MergeGrows ==
    ASSUME NEW map \in KeptItems, NEW items \in Seq(Item)
    PROVE  \E g : /\ g[0] = map /\ g[Len(items)] = Merge(map, items)
                  /\ \A m \in 1..Len(items) : g[m] = Keep(g[m - 1], items[m])
<1> DEFINE n == Len(items)
           D == SUBSET (1..n)
           Folds(f) == f = [s \in D |-> IF s = {} THEN map ELSE Keep(f[s \ {Max(s)}], items[Max(s)])]
<1>1. n \in Nat /\ DOMAIN items = 1..n /\ \A i \in 1..n : items[i] \in Item
  BY LenProperties, ElementOfSeq
<1>2. Merge(map, items) = (CHOOSE f : Folds(f))[1..n]
  BY <1>1 DEF Merge, FoldLeft, MapThenFoldSet
<1> HIDE DEF n
<1>3. \E f : Folds(f)
  <2> DEFINE step == [c \in (1..n) \X KeptItems |-> Keep(c[2], items[c[1]])]
  <2>1. step \in [(1..n) \X KeptItems -> KeptItems]
    BY <1>1, KeepType
  <2>2. \A i \in 1..n, v \in KeptItems : step[<<i, v>>] = Keep(v, items[i])
    OBVIOUS
  <2> HIDE DEF step
  <2>3. PICK f \in [D -> KeptItems] : \A s \in D :
                f[s] = IF s = {} THEN map ELSE step[<<Max(s), f[s \ {Max(s)}]>>]
    <3>1. Folded(KeptItems, n, map, step) # {}
      BY <1>1, <2>1, FoldExists
    <3>2. QED
      BY <3>1 DEF Folded
  <2>4. ASSUME NEW s \in D, s # {}
        PROVE  f[s] = Keep(f[s \ {Max(s)}], items[Max(s)])
    <3>1. Max(s) \in 1..n
      BY <1>1, <2>4, MaxIn
    <3>2. f[s \ {Max(s)}] \in KeptItems
      BY <2>3
    <3>3. QED
      BY <2>2, <2>3, <2>4, <3>1, <3>2
  <2>5. Folds(f)
    BY <2>3, <2>4
  <2>6. QED
    BY <2>5
<1> DEFINE f == CHOOSE h : Folds(h)
           g == [m \in 0..n |-> f[1..m]]
<1>4. Folds(f)
  BY <1>3
<1> HIDE DEF f
<1>5. g[0] = map
  <2>1. 1..0 = {} /\ 0 \in 0..n /\ {} \in D
    BY <1>1
  <2>2. QED
    BY <1>4, <2>1
<1>6. ASSUME NEW m \in 1..n
      PROVE  g[m] = Keep(g[m - 1], items[m])
  <2>1. m \in Nat /\ m \in 0..n /\ m - 1 \in 0..n /\ 1..m \in D /\ m \in 1..m
    BY <1>1
  <2>2. (1..m) \ {m} = 1..(m - 1)
    BY <2>1
  <2>3. Max(1..m) = m
    BY <2>1, MaxIs
  <2>4. f[1..m] = Keep(f[(1..m) \ {Max(1..m)}], items[Max(1..m)])
    BY <1>4, <2>1
  <2>5. QED
    BY <2>1, <2>2, <2>3, <2>4
<1>7. g[n] = Merge(map, items)
  BY <1>1, <1>2 DEF f
<1> HIDE DEF g
<1>8. QED
  BY <1>5, <1>6, <1>7 DEF n

(* One more item: the newest of its index is kept.                         *)
LEMMA KeepNewest ==
    ASSUME NEW map, NEW S \in SUBSET Item, Newest(map, S), NEW item \in Item
    PROVE  Newest(Keep(map, item), S \cup {item})
<1> DEFINE key == item.key
           kept == IF map[key] = NoItem THEN item ELSE SelectLatest(map[key], item)
<1>1. map \in KeptItems /\ key \in IndexKey /\ item.date \in Nat
  BY BoundAssumption DEF Newest, KeptItems, Item
<1>2. Keep(map, item) = [map EXCEPT ![key] = kept]
  BY DEF Keep
<1>3. NoItem \notin Item
  BY BoundAssumption
<1>4. /\ kept \in {i \in S \cup {item} : i.key = key}
      /\ \A i \in S \cup {item} : i.key = key => i.date <= kept.date
  <2>1. CASE map[key] = NoItem
    <3>1. {i \in S : i.key = key} = {}
      BY <1>1, <1>3, <2>1 DEF Newest
    <3>2. kept = item
      BY <2>1
    <3>3. QED
      BY <1>1, <3>1, <3>2
  <2>2. CASE map[key] # NoItem
    <3>1. /\ map[key] \in S /\ map[key].key = key
          /\ \A i \in S : i.key = key => i.date <= map[key].date
      BY <1>1, <2>2 DEF Newest
    <3>2. /\ \A i \in S : i.date \in Nat
          /\ kept = SelectLatest(map[key], item)
      BY <2>2, BoundAssumption DEF Item
    <3> DEFINE old == map[key]
    <3>3. old.date \in Nat /\ \A i \in S : i.key = key => i.date <= old.date
      BY <3>1, <3>2
    <3>4. \/ kept = old /\ item.date <= old.date
          \/ kept = item /\ old.date <= item.date
      BY <1>1, <3>2, <3>3 DEF SelectLatest, NoDate
    <3> HIDE DEF old, kept
    <3>5. \A i \in S : i.key = key => i.date <= kept.date
      BY <1>1, <3>2, <3>3, <3>4
    <3>6. QED
      BY <1>1, <3>1, <3>4, <3>5, <3>3 DEF old
  <2>3. QED
    BY <2>1, <2>2
<1> HIDE DEF kept
<1>5. kept \in Item
  BY <1>4
<1>6. Keep(map, item) \in KeptItems /\ Keep(map, item)[key] = kept
      /\ \A k \in IndexKey \ {key} : Keep(map, item)[k] = map[k]
  BY <1>1, <1>2, <1>5 DEF KeptItems
<1>7. ASSUME NEW k \in IndexKey
      PROVE  LET ofKey == {i \in S \cup {item} : i.key = k} IN
             IF ofKey = {} THEN Keep(map, item)[k] = NoItem
             ELSE /\ Keep(map, item)[k] \in ofKey
                  /\ \A i \in ofKey : i.date <= Keep(map, item)[k].date
  <2>1. CASE k = key
    BY <1>4, <1>6, <2>1
  <2>2. CASE k # key
    <3>1. {i \in S \cup {item} : i.key = k} = {i \in S : i.key = k}
      BY <2>2
    <3>2. QED
      BY <1>6, <2>2, <3>1 DEF Newest
  <2>3. QED
    BY <2>1, <2>2
<1>8. QED
  BY <1>6, <1>7 DEF Newest, KeptItems

(* The items of a page, merged one after the other.                        *)
LEMMA MergeNewest ==
    ASSUME NEW map, NEW S \in SUBSET Item, Newest(map, S), NEW items \in Seq(Item)
    PROVE  Newest(Merge(map, items), S \cup ToSet(items))
<1> DEFINE n == Len(items)
           upTo(m) == S \cup {items[i] : i \in 1..m}
<1>1. n \in Nat /\ DOMAIN items = 1..n /\ \A i \in 1..n : items[i] \in Item
  BY LenProperties, ElementOfSeq
<1>2. PICK g : /\ g[0] = map /\ g[n] = Merge(map, items)
               /\ \A m \in 1..n : g[m] = Keep(g[m - 1], items[m])
  <2>1. map \in KeptItems
    BY DEF Newest, KeptItems
  <2>2. QED
    BY <2>1, MergeGrows
<1> HIDE DEF n
<1> DEFINE bad == {m \in 0..n : ~Newest(g[m], upTo(m))}
<1>3. 0 \notin bad
  <2>1. upTo(0) = S
    OBVIOUS
  <2>2. QED
    BY <1>2, <2>1
<1>4. ASSUME NEW m \in bad, \A k \in bad : m <= k
      PROVE  FALSE
  <2>1. m \in 0..n /\ ~Newest(g[m], upTo(m))
    OBVIOUS
  <2>2. m \in 1..n /\ m - 1 \in 0..n /\ m - 1 \notin bad
    <3> HIDE DEF bad
    <3>1. QED
      BY <1>1, <1>3, <1>4, <2>1
  <2>3. Newest(g[m - 1], upTo(m - 1))
    BY <2>2
  <2>4. upTo(m - 1) \in SUBSET Item /\ items[m] \in Item
    BY <1>1, <2>2
  <2>5. upTo(m) = upTo(m - 1) \cup {items[m]}
    <3>1. 1..m = (1..(m - 1)) \cup {m}
      BY <2>2
    <3>2. QED
      BY <3>1
  <2> HIDE DEF upTo
  <2>6. Newest(Keep(g[m - 1], items[m]), upTo(m))
    BY <2>3, <2>4, <2>5, KeepNewest
  <2>7. QED
    BY <1>2, <2>1, <2>2, <2>6
<1>5. bad = {}
  <2>1. bad \in SUBSET Nat
    BY <1>1
  <2> HIDE DEF bad
  <2>2. QED
    BY <1>4, <2>1, Least
<1>6. Newest(g[n], upTo(n))
  <2>1. n \in 0..n /\ n \notin bad
    <3> HIDE DEF bad
    <3>1. QED
      BY <1>1, <1>5
  <2> HIDE DEF upTo
  <2>2. QED
    BY <2>1
<1>7. upTo(n) = S \cup ToSet(items)
  BY <1>1 DEF ToSet
<1>8. QED
  BY <1>2, <1>6, <1>7

(* A merged page leaves a map of items.                                    *)
LEMMA MergeType ==
    ASSUME NEW map \in KeptItems, NEW items \in Seq(Item)
    PROVE  Merge(map, items) \in KeptItems
<1> DEFINE n == Len(items)
<1>1. n \in Nat /\ \A i \in 1..n : items[i] \in Item
  BY LenProperties, ElementOfSeq
<1>2. PICK g : /\ g[0] = map /\ g[n] = Merge(map, items)
               /\ \A m \in 1..n : g[m] = Keep(g[m - 1], items[m])
  BY MergeGrows
<1> HIDE DEF n
<1> DEFINE bad == {m \in 0..n : g[m] \notin KeptItems}
<1>3. 0 \notin bad
  BY <1>2
<1>4. ASSUME NEW m \in bad, \A k \in bad : m <= k
      PROVE  FALSE
  <2>1. m \in 0..n /\ g[m] \notin KeptItems
    OBVIOUS
  <2>2. m \in 1..n /\ m - 1 \in 0..n /\ m - 1 \notin bad
    <3> HIDE DEF bad
    <3>1. QED
      BY <1>1, <1>3, <1>4, <2>1
  <2>3. g[m - 1] \in KeptItems /\ items[m] \in Item
    BY <1>1, <2>2
  <2>4. QED
    BY <1>2, <2>1, <2>2, <2>3, KeepType
<1>5. bad = {}
  <2>1. bad \in SUBSET Nat
    BY <1>1
  <2> HIDE DEF bad
  <2>2. QED
    BY <1>4, <2>1, Least
<1>6. QED
  BY <1>1, <1>2, <1>5

(* The fold of a batch's pages, likewise.                                  *)
LEMMA JoinGrows ==
    ASSUME NEW map \in KeptItems, NEW pages \in Seq(Seq(Item))
    PROVE  \E g : /\ g[0] = map /\ g[Len(pages)] = FoldLeft(Merge, map, pages)
                  /\ \A m \in 1..Len(pages) : g[m] = Merge(g[m - 1], pages[m])
<1> DEFINE n == Len(pages)
           D == SUBSET (1..n)
           Folds(f) == f = [s \in D |-> IF s = {} THEN map ELSE Merge(f[s \ {Max(s)}], pages[Max(s)])]
<1>1. n \in Nat /\ DOMAIN pages = 1..n /\ \A i \in 1..n : pages[i] \in Seq(Item)
  BY LenProperties, ElementOfSeq
<1>2. FoldLeft(Merge, map, pages) = (CHOOSE f : Folds(f))[1..n]
  BY <1>1 DEF FoldLeft, MapThenFoldSet
<1> HIDE DEF n
<1>3. \E f : Folds(f)
  <2> DEFINE step == [c \in (1..n) \X KeptItems |-> Merge(c[2], pages[c[1]])]
  <2>1. step \in [(1..n) \X KeptItems -> KeptItems]
    BY <1>1, MergeType
  <2>2. \A i \in 1..n, v \in KeptItems : step[<<i, v>>] = Merge(v, pages[i])
    OBVIOUS
  <2> HIDE DEF step
  <2>3. PICK f \in [D -> KeptItems] : \A s \in D :
                f[s] = IF s = {} THEN map ELSE step[<<Max(s), f[s \ {Max(s)}]>>]
    <3>1. Folded(KeptItems, n, map, step) # {}
      BY <1>1, <2>1, FoldExists
    <3>2. QED
      BY <3>1 DEF Folded
  <2>4. ASSUME NEW s \in D, s # {}
        PROVE  f[s] = Merge(f[s \ {Max(s)}], pages[Max(s)])
    <3>1. Max(s) \in 1..n
      BY <1>1, <2>4, MaxIn
    <3>2. f[s \ {Max(s)}] \in KeptItems
      BY <2>3
    <3>3. QED
      BY <2>2, <2>3, <2>4, <3>1, <3>2
  <2>5. Folds(f)
    BY <2>3, <2>4
  <2>6. QED
    BY <2>5
<1> DEFINE f == CHOOSE h : Folds(h)
           g == [m \in 0..n |-> f[1..m]]
<1>4. Folds(f)
  BY <1>3
<1> HIDE DEF f
<1>5. g[0] = map
  <2>1. 1..0 = {} /\ 0 \in 0..n /\ {} \in D
    BY <1>1
  <2>2. QED
    BY <1>4, <2>1
<1>6. ASSUME NEW m \in 1..n
      PROVE  g[m] = Merge(g[m - 1], pages[m])
  <2>1. m \in Nat /\ m \in 0..n /\ m - 1 \in 0..n /\ 1..m \in D /\ m \in 1..m
    BY <1>1
  <2>2. (1..m) \ {m} = 1..(m - 1)
    BY <2>1
  <2>3. Max(1..m) = m
    BY <2>1, MaxIs
  <2>4. f[1..m] = Merge(f[(1..m) \ {Max(1..m)}], pages[Max(1..m)])
    BY <1>4, <2>1
  <2>5. QED
    BY <2>1, <2>2, <2>3, <2>4
<1>7. g[n] = FoldLeft(Merge, map, pages)
  BY <1>1, <1>2 DEF f
<1> HIDE DEF g
<1>8. QED
  BY <1>5, <1>6, <1>7 DEF n

(* The pages of a batch, merged one after the other.                       *)
LEMMA JoinNewest ==
    ASSUME NEW map, NEW S \in SUBSET Item, Newest(map, S), NEW pages \in Seq(Seq(Item))
    PROVE  Newest(FoldLeft(Merge, map, pages), S \cup UNION {ToSet(pages[i]) : i \in DOMAIN pages})
<1> DEFINE n == Len(pages)
           upTo(m) == S \cup UNION {ToSet(pages[i]) : i \in 1..m}
<1>1. /\ n \in Nat /\ DOMAIN pages = 1..n
      /\ \A i \in 1..n : pages[i] \in Seq(Item) /\ ToSet(pages[i]) \subseteq Item
  <2>1. n \in Nat /\ DOMAIN pages = 1..n /\ \A i \in 1..n : pages[i] \in Seq(Item)
    BY LenProperties, ElementOfSeq
  <2>2. \A items \in Seq(Item) : ToSet(items) \subseteq Item
    BY LenProperties, ElementOfSeq DEF ToSet
  <2>3. QED
    BY <2>1, <2>2
<1>2. PICK g : /\ g[0] = map /\ g[n] = FoldLeft(Merge, map, pages)
               /\ \A m \in 1..n : g[m] = Merge(g[m - 1], pages[m])
  <2>1. map \in KeptItems
    BY DEF Newest, KeptItems
  <2>2. QED
    BY <2>1, JoinGrows
<1> HIDE DEF n
<1> DEFINE bad == {m \in 0..n : ~Newest(g[m], upTo(m))}
<1>3. 0 \notin bad
  <2>1. upTo(0) = S
    OBVIOUS
  <2>2. QED
    BY <1>2, <2>1
<1>4. ASSUME NEW m \in bad, \A k \in bad : m <= k
      PROVE  FALSE
  <2>1. m \in 0..n /\ ~Newest(g[m], upTo(m))
    OBVIOUS
  <2>2. m \in 1..n /\ m - 1 \in 0..n /\ m - 1 \notin bad
    <3> HIDE DEF bad
    <3>1. QED
      BY <1>1, <1>3, <1>4, <2>1
  <2>3. Newest(g[m - 1], upTo(m - 1))
    BY <2>2
  <2>4. upTo(m - 1) \in SUBSET Item /\ pages[m] \in Seq(Item)
    BY <1>1, <2>2
  <2>5. upTo(m) = upTo(m - 1) \cup ToSet(pages[m])
    <3>1. 1..m = (1..(m - 1)) \cup {m}
      BY <2>2
    <3>2. QED
      BY <3>1
  <2> HIDE DEF upTo
  <2>6. Newest(Merge(g[m - 1], pages[m]), upTo(m))
    BY <2>3, <2>4, <2>5, MergeNewest
  <2>7. QED
    BY <1>2, <2>1, <2>2, <2>6
<1>5. bad = {}
  <2>1. bad \in SUBSET Nat
    BY <1>1
  <2> HIDE DEF bad
  <2>2. QED
    BY <1>4, <2>1, Least
<1>6. Newest(g[n], upTo(n))
  <2>1. n \in 0..n /\ n \notin bad
    <3> HIDE DEF bad
    <3>1. QED
      BY <1>1, <1>5
  <2> HIDE DEF upTo
  <2>2. QED
    BY <2>1
<1>7. QED
  BY <1>1, <1>2, <1>6

-----------------------------------------------------------------------------
(* What an index-info run keeps.                                           *)

(* The first page is merged into an empty map.                             *)
LEMMA FirstPageKeeps ==
    ASSUME IInv, FirstPage, LatestIsNewest
    PROVE  LatestIsNewest'
<1>1. UNCHANGED query
  BY DEF FirstPage
<1>2. CASE UNCHANGED <<latest, seen>>
  BY <1>1, <1>2 DEF LatestIsNewest, Newest
<1>3. CASE /\ latest' = IF query.kind = "infos" THEN Merge(Nothing, Page(1)) ELSE latest
           /\ seen' = ToSet(Page(1))
  <2>1. Page(1) \in Seq(Item)
    BY PageIs, Sizes DEF IInv, TypeOK
  <2>2. Newest(Nothing, {})
    BY DEF Newest, Nothing
  <2>3. Newest(Merge(Nothing, Page(1)), {} \cup ToSet(Page(1)))
    BY <2>1, <2>2, MergeNewest
  <2>4. {} \cup ToSet(Page(1)) = ToSet(Page(1))
    OBVIOUS
  <2>5. QED
    BY <1>1, <1>3, <2>3, <2>4 DEF LatestIsNewest, Newest
<1>4. QED
  BY <1>2, <1>3 DEF FirstPage

(* The places of a batch are its pages, in their order.                    *)
LEMMA JoinKeeps ==
    ASSUME IInv, Join, LatestIsNewest
    PROVE  LatestIsNewest'
<1> DEFINE pages == [i \in 1..Cardinality(Batch) |-> read[from + i - 1]]
<1>1. /\ pc = "pages" /\ query.kind = "infos" /\ DOMAIN read = Batch /\ UNCHANGED query
      /\ latest' = FoldLeft(Merge, latest, pages)
      /\ seen' = seen \cup UNION {ToSet(read[p]) : p \in Batch}
  BY DEF Join
<1>2. /\ Cardinality(Batch) \in Nat
      /\ \A i \in 1..Cardinality(Batch) : from + i - 1 \in Batch
      /\ \A p \in Batch : p - from + 1 \in 1..Cardinality(Batch) /\ from + (p - from + 1) - 1 = p
  <2> DEFINE last == IF totalPages < from + FetchBatchSize - 1 THEN totalPages ELSE from + FetchBatchSize - 1
  <2>1. from \in Nat /\ totalPages \in Nat /\ last \in Int /\ FetchBatchSize \in Nat
    BY Sizes DEF IInv
  <2>2. Batch = from..last
    BY <2>1 DEF Batch
  <2>3. Cardinality(from..last) = IF from > last THEN 0 ELSE last - from + 1
    BY <2>1, FS_Interval
  <2> HIDE DEF last
  <2>4. QED
    BY <2>1, <2>2, <2>3
<1>3. pages \in Seq(Seq(Item)) /\ DOMAIN pages = 1..Cardinality(Batch)
  <2>1. \A i \in 1..Cardinality(Batch) : read[from + i - 1] \in Seq(Item)
    BY <1>1, <1>2 DEF IInv, TypeOK
  <2>2. pages \in [1..Cardinality(Batch) -> Seq(Item)]
    BY <2>1
  <2>3. QED
    BY <1>2, <2>2, IsASeq
<1>4. UNION {ToSet(pages[i]) : i \in DOMAIN pages} = UNION {ToSet(read[p]) : p \in Batch}
  <2>1. \A i \in DOMAIN pages : from + i - 1 \in Batch /\ pages[i] = read[from + i - 1]
    BY <1>2, <1>3
  <2>2. \A p \in Batch : p - from + 1 \in DOMAIN pages /\ pages[p - from + 1] = read[p]
    BY <1>2, <1>3
  <2> HIDE DEF pages
  <2>3. QED
    BY <2>1, <2>2
<1>5. Newest(latest, seen) /\ seen \in SUBSET Item
  BY <1>1 DEF LatestIsNewest, IInv, TypeOK
<1> HIDE DEF pages
<1>6. Newest(FoldLeft(Merge, latest, pages), seen \cup UNION {ToSet(pages[i]) : i \in DOMAIN pages})
  BY <1>3, <1>5, JoinNewest
<1>7. Newest(latest', seen')
  BY <1>1, <1>4, <1>6
<1>8. QED
  BY <1>1, <1>7 DEF LatestIsNewest, Newest

(* Whatever the order of pages and items and the dates they lack, an info  *)
(* run keeps of every index it read the newest item (the merge of          *)
(* fetchPagesAsync, selectLatest).                                         *)
THEOREM NewestKept == Spec => []LatestIsNewest
<1>1. Init => LatestIsNewest
  BY DEF Init, LatestIsNewest, Newest, Nothing
<1>2. IInv /\ LatestIsNewest /\ [Next]_vars => LatestIsNewest'
  <2>1. SUFFICES ASSUME IInv, LatestIsNewest, [Next]_vars PROVE LatestIsNewest'
    OBVIOUS
  <2>2. CASE UNCHANGED <<query, latest, seen>>
    BY <2>1, <2>2 DEF LatestIsNewest, Newest
  <2>3. CASE FirstPage
    BY <2>1, <2>3, FirstPageKeeps
  <2>4. CASE NextPage
    BY <2>4 DEF NextPage, LatestIsNewest
  <2>5. CASE Join
    BY <2>1, <2>5, JoinKeeps
  <2>6. CASE UNCHANGED vars \/ Publish \/ Over \/ \E p \in Batch : ReadPage(p)
    BY <2>2, <2>6 DEF vars, Publish, Over, ReadPage
  <2>7. QED
    BY <2>1, <2>3, <2>4, <2>5, <2>6 DEF Next
<1>3. QED
  BY <1>1, <1>2, Invariant, PTL DEF Spec

=============================================================================
