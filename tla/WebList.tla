------------------------------ MODULE WebList ------------------------------
(***************************************************************************)
(* A list page of the web client (the bundle served from static/assets):   *)
(* index data, index infos, auto-sync configs or sync jobs.                *)
(*                                                                         *)
(* Each page has a store that outlives it.  fetch loads the first page of  *)
(* rows for the filters of the store, fetchNext the page after the cursor; *)
(* both return early while a load is in flight.  Nothing is ever cancelled *)
(* and nothing asks again for what such an early return has skipped.  What *)
(* the user changes on the server is followed by a fetch.                  *)
(*                                                                         *)
(* The effects of a page run in the task that caused them (React flushes   *)
(* the passive effects of a synchronous render at once), so setting the    *)
(* filters and the fetch that answers it are one step.  The server answers *)
(* a search from the rows it has at that moment (CursorSearch).            *)
(*                                                                         *)
(* The index data and the index info page sort by columns their edit form  *)
(* changes, so an edit can move a row past the cursor.                     *)
(***************************************************************************)
EXTENDS Naturals, FiniteSets, SequencesExt

CONSTANTS
    Kind,           \* the pages modelled, of "data", "infos", "configs", "jobs"
    Row,            \* rows; of two with the same sort key the lesser comes first
    Key,            \* values of the column the rows are sorted by
    Tag,            \* what a filter can tell apart: on or off
    Gone,           \* no such row
    Table0,         \* the tables to begin with
    Input,          \* bound: what the user fills into a form
    Filter,         \* [want |-> tags, desc |-> BOOLEAN]
    Default,        \* the filters of a fresh store
    PageSize,
    MaxActions,     \* bound: what the user does
    MaxCalls,       \* bound: requests of the user under way at once
    MaxFailures,    \* bound: requests that fail
    NoLoad, NoAnswer

Content  == [key : Key, tag : Tag]      \* what the server has of a row
Place    == [key : Key, row : Row]      \* in a listing: the sort key, then the row
NoCursor == [key |-> 0, row |-> 0]

ASSUME ListAssumption ==
    /\ Kind \subseteq {"data", "infos", "configs", "jobs"}
    /\ Row \subseteq Nat \ {0} /\ IsFiniteSet(Row)
    /\ Key \subseteq Nat /\ IsFiniteSet(Key)
    /\ Input \subseteq Content
    /\ Gone \notin Content /\ Table0 \subseteq [Row -> Content \cup {Gone}]
    /\ Filter \subseteq [want : SUBSET Tag, desc : BOOLEAN] /\ Default \in Filter
    /\ PageSize \in Nat \ {0}
    /\ {MaxActions, MaxCalls, MaxFailures} \subseteq Nat

Entry  == [place : Place, tag : Tag]
Answer == [content : Seq(Entry), cursor : Place \cup {NoCursor}, hasNext : BOOLEAN, total : Nat]
Store  == [items : Seq(Entry), isLoading : BOOLEAN, error : BOOLEAN, hasNext : BOOLEAN,
           cursor : Place \cup {NoCursor}, total : Nat, filters : Filter]
Load   == [first : BOOLEAN, filters : Filter, cursor : Place \cup {NoCursor},
           before : Seq(Entry), answer : Answer \cup {NoAnswer}]
Call   == [id : 1..MaxCalls, row : Row, old : Content \cup {Gone}, new : Content \cup {Gone},
           status : {"sent", "applied", "refused"}]

ASSUME NullAssumption == NoAnswer \notin Answer /\ NoLoad \notin Load

VARIABLES
    kind,           \* which page
    table,          \* the server: row -> what it has of it
    mounted,        \* the page is on the screen
    list,           \* the store
    load,           \* the GET in flight
    calls,          \* the POST, PATCH and DELETE requests in flight
    origin,         \* ghost: the filters of the pages the items come from
    missed,         \* ghost: a refresh was skipped or failed, or an undo restored what the server no longer has
    actions, failures

vars   == <<kind, table, mounted, list, load, calls, origin, missed, actions, failures>>
budget == <<actions, failures>>

-----------------------------------------------------------------------------
(* The server: where the rows that match are, in the order of the filters.  *)
Before(p, q) == p.key < q.key \/ (p.key = q.key /\ p.row < q.row)
After(f, cursor, p) == cursor = NoCursor \/ IF f.desc THEN Before(p, cursor) ELSE Before(cursor, p)
Found(f, cursor) ==
    {p \in Place : /\ table[p.row] # Gone /\ table[p.row].key = p.key
                   /\ table[p.row].tag \in f.want /\ After(f, cursor, p)}
InOrder(f, P) == CHOOSE s \in [1..Cardinality(P) -> P] :
                    \A i, j \in DOMAIN s : i < j => After(f, s[i], s[j])
Entries(f, cursor) ==
    LET places == InOrder(f, Found(f, cursor))
    IN  [i \in DOMAIN places |-> [place |-> places[i], tag |-> table[places[i].row].tag]]

Search(f, cursor) ==
    LET all  == Entries(f, cursor)
        more == Len(all) > PageSize
    IN  [content |-> IF more THEN SubSeq(all, 1, PageSize) ELSE all,
         cursor  |-> IF more THEN all[PageSize].place ELSE NoCursor,
         hasNext |-> more,
         total   |-> Cardinality(Found(f, NoCursor))]

-----------------------------------------------------------------------------
EmptyList == [items |-> << >>, isLoading |-> FALSE, error |-> FALSE, hasNext |-> FALSE,
              cursor |-> NoCursor, total |-> 0, filters |-> Default]

Init ==
    /\ kind \in Kind /\ table \in Table0
    /\ mounted = FALSE
    /\ list = EmptyList /\ load = NoLoad
    /\ calls = {}
    /\ origin = {} /\ missed = FALSE
    /\ actions = 0 /\ failures = 0

Acts  == actions < MaxActions /\ actions' = actions + 1 /\ UNCHANGED failures
Fails == failures < MaxFailures /\ failures' = failures + 1 /\ UNCHANGED actions

FirstPage(f) == [first |-> TRUE, filters |-> f, cursor |-> NoCursor, before |-> << >>, answer |-> NoAnswer]

(* fetch of a store l: it does nothing while a load is in flight.  That is  *)
(* harmless only if the load is of the same filters and, after a request of *)
(* the user (wrote), a first page the server has not looked up yet.         *)
Fetch(l, wrote) ==
    IF l.isLoading
      THEN /\ list' = l
           /\ missed' = \/ missed \/ load.filters # l.filters
                        \/ wrote /\ ~(load.first /\ load.answer = NoAnswer)
           /\ UNCHANGED load
      ELSE /\ list' = [l EXCEPT !.isLoading = TRUE, !.error = FALSE]
           /\ load' = FirstPage(l.filters)
           /\ missed' = FALSE

(* What a change of the filters sets off: the page is rendered at once, and *)
(* the effect that depends on the filters fetches.                          *)
RunEffects(l) == Fetch(l, FALSE)

(* The effects of a page that has been opened, in the order they run.  The  *)
(* index data and the sync job page reset the filters and fetch; the index  *)
(* info page keeps them; the auto-sync page fetches with those of its last  *)
(* visit and resets them afterwards, whose own fetch comes too late.        *)
OpenPage ==
    /\ ~mounted /\ Acts
    /\ mounted' = TRUE
    /\ CASE kind \in {"data", "jobs"} -> RunEffects([list EXCEPT !.filters = Default])
         [] kind = "infos" -> RunEffects(list)
         [] kind = "configs" ->
              IF list.isLoading THEN RunEffects([list EXCEPT !.filters = Default])
              ELSE /\ list' = [list EXCEPT !.filters = Default, !.isLoading = TRUE, !.error = FALSE]
                   /\ load' = FirstPage(list.filters)
                   /\ missed' = (list.filters # Default)
    /\ UNCHANGED <<kind, table, calls, origin>>

LeavePage ==
    /\ mounted /\ Acts
    /\ mounted' = FALSE
    /\ UNCHANGED <<kind, table, list, load, calls, origin, missed>>

SetFilters(f) ==
    /\ mounted /\ Acts
    /\ RunEffects([list EXCEPT !.filters = f])
    /\ UNCHANGED <<kind, table, mounted, calls, origin>>

FetchNextFromStart ==    \* mutant of FetchNext: the cursor is not sent
    /\ mounted
    /\ ~list.isLoading /\ list.hasNext
    /\ list' = [list EXCEPT !.isLoading = TRUE, !.error = FALSE]
    /\ load' = [FirstPage(list.filters) EXCEPT !.first = FALSE, !.before = list.items]
    /\ UNCHANGED <<kind, table, mounted, calls, origin, missed, budget>>

FetchNextUnlessError ==  \* mutant of FetchNext: no second try
    /\ mounted
    /\ ~list.isLoading /\ list.hasNext /\ ~list.error
    /\ list' = [list EXCEPT !.isLoading = TRUE]
    /\ load' = [first |-> FALSE, filters |-> list.filters, cursor |-> list.cursor,
                before |-> list.items, answer |-> NoAnswer]
    /\ UNCHANGED <<kind, table, mounted, calls, origin, missed, budget>>

(* The sentinel below the last row comes into view.                         *)
FetchNext ==
    /\ mounted
    /\ ~list.isLoading /\ list.hasNext
    /\ list' = [list EXCEPT !.isLoading = TRUE, !.error = FALSE]
    /\ load' = [first |-> FALSE, filters |-> list.filters, cursor |-> list.cursor,
                before |-> list.items, answer |-> NoAnswer]
    /\ UNCHANGED <<kind, table, mounted, calls, origin, missed, budget>>

-----------------------------------------------------------------------------
(* The life of a GET: the server searches, then the answer arrives, or the  *)
(* request fails on either way (no client timeout is set).                  *)
Serve ==
    /\ load # NoLoad /\ load.answer = NoAnswer
    /\ load' = [load EXCEPT !.answer = Search(load.filters, load.cursor)]
    /\ UNCHANGED <<kind, table, mounted, list, calls, origin, missed, budget>>

DeliverIfCurrent ==      \* mutant of Deliver: an answer for other filters is ignored
    /\ load # NoLoad /\ load.answer # NoAnswer /\ load.filters = list.filters
    /\ LET a == load.answer IN
       list' = [list EXCEPT !.items = load.before \o a.content, !.isLoading = FALSE,
                            !.hasNext = a.hasNext, !.cursor = a.cursor,
                            !.total = IF load.first THEN a.total ELSE @]
    /\ origin' = {load.filters} \cup IF load.first THEN {} ELSE origin
    /\ load' = NoLoad
    /\ UNCHANGED <<kind, table, mounted, calls, missed, budget>>

Deliver ==
    /\ load # NoLoad /\ load.answer # NoAnswer
    /\ LET a == load.answer IN
       list' = [list EXCEPT !.items = load.before \o a.content, !.isLoading = FALSE,
                            !.hasNext = a.hasNext, !.cursor = a.cursor,
                            !.total = IF load.first THEN a.total ELSE @]
    /\ origin' = {load.filters} \cup IF load.first THEN {} ELSE origin
    /\ load' = NoLoad
    /\ UNCHANGED <<kind, table, mounted, calls, missed, budget>>

LoadFailsLoading ==      \* mutant of LoadFails: isLoading is not taken back
    /\ load # NoLoad /\ load.answer = NoAnswer /\ Fails
    /\ list' = [list EXCEPT !.error = TRUE]
    /\ missed' = (missed \/ load.first)
    /\ load' = NoLoad
    /\ UNCHANGED <<kind, table, mounted, calls, origin>>

LoadFails ==
    /\ load # NoLoad /\ load.answer = NoAnswer /\ Fails
    /\ list' = [list EXCEPT !.isLoading = FALSE, !.error = TRUE]
    /\ missed' = (missed \/ load.first)
    /\ load' = NoLoad
    /\ UNCHANGED <<kind, table, mounted, calls, origin>>

-----------------------------------------------------------------------------
(* What the user changes: create, edit or delete a row, or switch a config, *)
(* which shows at once (updateItemEnabled).                                 *)
ContentOf(e) == [key |-> e.place.key, tag |-> e.tag]

Relabel(items, r, tag) ==
    [i \in DOMAIN items |->
        IF items[i].place.row = r THEN [items[i] EXCEPT !.tag = tag] ELSE items[i]]

Send(r, old, new) ==
    /\ mounted /\ Acts
    /\ LET free == 1..MaxCalls \ {c.id : c \in calls} IN
       /\ free # {}
       /\ calls' = calls \cup {[id |-> Min(free), row |-> r, old |-> old, new |-> new, status |-> "sent"]}

SendCreate(r, content) ==
    /\ kind \in {"data", "infos"} /\ \A e \in ToSet(list.items) : e.place.row # r
    /\ Send(r, Gone, content)
    /\ UNCHANGED <<kind, table, mounted, list, load, origin, missed>>

(* An edit may change the sort key, the tag or both; Gone is a delete.      *)
SendChange(e, content) ==
    /\ kind \in {"data", "infos"} /\ content # ContentOf(e)
    /\ Send(e.place.row, ContentOf(e), content)
    /\ UNCHANGED <<kind, table, mounted, list, load, origin, missed>>

SendToggle(e, tag) ==
    /\ kind = "configs" /\ tag # e.tag
    /\ Send(e.place.row, ContentOf(e), [ContentOf(e) EXCEPT !.tag = tag])
    /\ list' = [list EXCEPT !.items = Relabel(@, e.place.row, tag)]
    /\ UNCHANGED <<kind, table, mounted, load, origin, missed>>

Apply(c) ==
    /\ c.status = "sent"
    /\ LET ok == (table[c.row] = Gone) = (c.old = Gone)  \* else 404, or a key taken
       IN  /\ table' = IF ok THEN [table EXCEPT ![c.row] = c.new] ELSE table
           /\ calls' = (calls \ {c}) \cup {[c EXCEPT !.status = IF ok THEN "applied" ELSE "refused"]}
    /\ UNCHANGED <<kind, mounted, list, load, origin, missed, budget>>

Done(c) ==
    /\ c.status = "applied"
    /\ Fetch(list, TRUE)
    /\ calls' = calls \ {c}
    /\ UNCHANGED <<kind, table, mounted, origin, budget>>

UndoNothing(c) ==        \* mutant of Undo: a failed switch is left as it is
    /\ missed' = (missed \/ table[c.row] # c.old)
    /\ calls' = calls \ {c}
    /\ UNCHANGED <<kind, table, mounted, list, load, origin>>

(* A switch is put back to what it showed before; the others only tell.     *)
Undo(c) ==
    /\ list' = IF kind = "configs" THEN [list EXCEPT !.items = Relabel(@, c.row, c.old.tag)] ELSE list
    /\ missed' = \/ missed \/ table[c.row] # c.old
                 \/ /\ kind = "configs" /\ load # NoLoad
                    /\ \E e \in ToSet(load.before) : e.place.row = c.row /\ e.tag = c.new.tag
    /\ calls' = calls \ {c}
    /\ UNCHANGED <<kind, table, mounted, load, origin>>

Refused(c) == c.status = "refused" /\ Undo(c) /\ UNCHANGED budget
CallFails(c) == Fails /\ Undo(c)

Next ==
    \/ OpenPage \/ LeavePage \/ \E f \in Filter : SetFilters(f)
    \/ FetchNext \/ Serve \/ Deliver \/ LoadFails
    \/ \E r \in Row, content \in Input : SendCreate(r, content)
    \/ \E e \in ToSet(list.items) :
          \/ \E content \in Input \cup {Gone} : SendChange(e, content)
          \/ \E tag \in Tag : SendToggle(e, tag)
    \/ \E c \in calls : Apply(c) \/ Done(c) \/ Refused(c) \/ CallFails(c)

Spec == Init /\ [][Next]_vars

(* The browser ends every request, and the sentinel stays in view, so that  *)
(* the observer fires.  Users have to do nothing.                           *)
FairSpec ==
    /\ Spec
    /\ WF_vars(FetchNext) /\ WF_vars(Serve) /\ WF_vars(Deliver)
    /\ WF_vars(\E c \in calls : Apply(c)) /\ WF_vars(\E c \in calls : Done(c) \/ Refused(c))

-----------------------------------------------------------------------------
CallsOK  == /\ calls \subseteq Call /\ IsFiniteSet(calls)
            /\ kind = "configs" => \A c \in calls : c.old \in Content /\ c.new \in Content
BudgetOK == actions \in 0..MaxActions /\ failures \in 0..MaxFailures

(* A load is in flight exactly while the store says so, and a switch can be *)
(* put back.                                                                *)
TypeOK ==
    /\ kind \in Kind /\ table \in [Row -> Content \cup {Gone}]
    /\ mounted \in BOOLEAN /\ missed \in BOOLEAN
    /\ list \in Store
    /\ load \in Load \cup {NoLoad}
    /\ CallsOK /\ BudgetOK
    /\ origin \subseteq Filter
    /\ list.isLoading <=> (load # NoLoad)

Settled == ~list.isLoading /\ calls = {}

(* Once nothing is in flight, a list whose last refresh was neither skipped *)
(* nor failed shows what the server has for its filters, everything the     *)
(* user changed included: the first rows, and the rest when they are asked  *)
(* for (fetch, fetchNext, the undo of a switch).                            *)
ShownIsCurrent ==
    Settled /\ ~missed /\ origin # {} =>
        LET all == Entries(list.filters, NoCursor) IN
        /\ origin = {list.filters}
        /\ IsPrefix(list.items, all)
        /\ list.hasNext <=> (Len(list.items) < Len(all))
        /\ list.total = Len(all)

Rising(f, items) == \A i, j \in DOMAIN items : i < j => After(f, items[i].place, items[j].place)
EndsAt(items, c) == items # << >> /\ c = items[Len(items)].place

(* While all pages of a list are of the same filters, the rows are shown in *)
(* strict order of the sort keys shown, whatever is skipped, fails, is lost *)
(* or changes, and the next page is asked for after the last row shown.  So *)
(* a row shown twice shows two sort keys: an edit has moved it past the     *)
(* cursor between two pages.                                                *)
OneListing ==
    \A f \in Filter : origin = {f} =>
        /\ Rising(f, list.items)
        /\ list.hasNext => EndsAt(list.items, list.cursor)

(* A list that has loaded without an error shows rows of its filters only   *)
(* ("sort and filter search with cursor pagination", README.md:45).         *)
ListMatchesFilters == Settled /\ ~list.error => origin \subseteq {list.filters}

(* Every request of a page ends, and the store stops loading.               *)
LoadsEnd == list.isLoading ~> ~list.isLoading

(* As long as the page stays open, the rows of the list are all loaded in   *)
(* the end: a page that failed is asked for again.                          *)
AllRowsCome == (mounted /\ list.hasNext) ~> (~mounted \/ (~list.isLoading /\ ~list.hasNext))

-----------------------------------------------------------------------------
(* Why: a next page goes on where the rows it will be put behind end, and   *)
(* an answer has what comes after the cursor it was asked with.             *)
GoesOn ==
    /\ list.hasNext => origin # {}
    /\ load # NoLoad =>
         IF load.first THEN load.before = << >> /\ load.cursor = NoCursor
         ELSE /\ origin # {}
              /\ \A f \in Filter : origin = {f} =>
                    Rising(f, load.before) /\ EndsAt(load.before, load.cursor)

Continues(a, f, cursor) ==
    /\ Rising(f, a.content)
    /\ \A i \in DOMAIN a.content : After(f, cursor, a.content[i].place)
    /\ a.hasNext => EndsAt(a.content, a.cursor)

AnswerFits ==
    load # NoLoad /\ load.answer # NoAnswer => Continues(load.answer, load.filters, load.cursor)

ListInv == TypeOK /\ OneListing /\ GoesOn /\ AnswerFits

-----------------------------------------------------------------------------
(* Why what is shown is current.  The request that changed the server last  *)
(* is still to be followed by a fetch, or the rows shown and the answer on  *)
(* its way are what the server has now; only a switch that is under way may *)
(* show what it asks for.                                                   *)
CallsDiffer == \A c \in calls : c.old # c.new

ToBeFetched == \E c \in calls : c.status = "applied" /\ table[c.row] = c.new

Switched(e) == kind = "configs" /\ \E c \in calls : c.row = e.place.row /\ c.new.tag = e.tag

Shows(items, f) ==
    LET all == Entries(f, NoCursor) IN
    /\ Len(items) <= Len(all)
    /\ \A i \in DOMAIN items : /\ items[i].place = all[i].place
                               /\ items[i].tag = all[i].tag \/ Switched(items[i])

LoadIsCurrent ==
    load # NoLoad =>
        /\ load.filters = list.filters
        /\ load.answer # NoAnswer => load.answer = Search(load.filters, load.cursor)
        /\ ~load.first => Shows(load.before, list.filters)

RowsAreCurrent ==
    origin # {} /\ (load = NoLoad \/ ~load.first) =>
        LET all == Entries(list.filters, NoCursor) IN
        /\ origin = {list.filters}
        /\ Shows(list.items, list.filters)
        /\ list.hasNext <=> (Len(list.items) < Len(all))
        /\ list.total = Len(all)

Current == ~missed => ToBeFetched \/ (LoadIsCurrent /\ RowsAreCurrent)

IInv == ListInv /\ CallsDiffer /\ Current

=============================================================================
