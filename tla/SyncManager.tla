---------------------------- MODULE SyncManager ----------------------------
(***************************************************************************)
(* SyncJobManager: how one synchronisation run fetches from the external   *)
(* API on the shared externalApiExecutor, joins, and saves.                *)
(*                                                                         *)
(* A run is one call of syncIndexDataList (units are the index infos it    *)
(* fetches) or of syncIndexInfos (units are the pages, the first of them   *)
(* unit 0).  Units are numbered in submission order.  The items of a unit  *)
(* are abstracted to whether there are any; what saving them does to the   *)
(* tables is IndexStore's subject, here it is which units were committed   *)
(* and which have their sync_job rows, and what that takes of the pool of  *)
(* database connections.                                                   *)
(***************************************************************************)
EXTENDS Integers, Sequences, FiniteSets

CONSTANTS
    Run,                \* calls of the manager, each on a thread of its own
    Kind,               \* Run -> {"data", "infos"}
    Sizes,              \* numbers of fetch targets, or of pages after the first, to consider
    ConfiguredBatch,    \* findex.external-api.fetch-batch-size
    PoolSize,           \* core-pool-size = max-pool-size
    Deployments,        \* queue-capacity and size of the database pool, as pairs to consider
    FetchEnds,          \* what a fetch on the executor can come to
    MaxCrashes          \* bound: process crashes

MaxFetchBatchSize == 50

ASSUME RunAssumption ==
    /\ IsFiniteSet(Run)
    /\ Kind \in [Run -> {"data", "infos"}]
    /\ Sizes \subseteq Nat
ASSUME ConfigAssumption ==
    /\ ConfiguredBatch \in Int
    /\ PoolSize \in Nat \ {0}
    /\ Deployments \subseteq [queue : Nat \ {0}, connections : Nat \ {0}]
    /\ FetchEnds \subseteq {"items", "empty", "failed"}
    /\ MaxCrashes \in Nat

VARIABLES
    pc,         \* Run -> where the calling thread is
    from,       \* Run -> units before the current batch
    outcome,    \* Run -> unit -> what its fetch came to
    saving,     \* Run -> units of the save in progress that are not committed yet
    saved,      \* Run -> units whose rows are committed
    recorded,   \* Run -> units whose sync_job rows are committed
    open,       \* runs whose outer transaction is open and has a connection
    queue,      \* executor: submitted, waiting
    busy,       \* executor: being fetched
    threads,    \* executor: worker threads created so far
    capacity,   \* the queue-capacity the executor was configured with
    connections,\* the size of the database pool
    units,      \* Run -> how many units it has, known when it begins
    crashes

given == <<capacity, connections, units>>
executor == <<queue, busy, threads>>
vars == <<pc, from, outcome, saving, saved, recorded, open, executor, crashes, given>>

AnyUnit == UNION {0..n : n \in Sizes}
Page(r) == IF Kind[r] = "infos" THEN {0} ELSE {}        \* the caller fetches it itself
Unit(r) == Page(r) \cup 1..units[r]
Task    == {t \in Run \X AnyUnit : t[2] \in Unit(t[1])}
Decided == {"items", "empty", "failed", "rejected"}    \* FetchOutcome, PageFetchOutcome
Active  == {"fetching", "saving"}
Ended   == {"returned", "failed", "starved"}           \* starved: no connection in time

(* resolveFetchBatchSize *)
FetchBatchSize ==
    IF ConfiguredBatch <= 0 \/ ConfiguredBatch > MaxFetchBatchSize
      THEN MaxFetchBatchSize
      ELSE ConfiguredBatch

BatchOneMore(r) ==                                     \* mutant of Batch
    {u \in Unit(r) : from[r] < u /\ u <= from[r] + FetchBatchSize + 1}

Batch(r) == {u \in Unit(r) : from[r] < u /\ u <= from[r] + FetchBatchSize}
BatchAt(r, u) ==            \* the units fetched in one batch with u
    {v \in Unit(r) : (v - 1) \div FetchBatchSize = (u - 1) \div FetchBatchSize}

Queued  == {queue[i] : i \in DOMAIN queue}
Fetched(r, B) == {u \in B : outcome[r][u] = "items"}
Smallest(S) == CHOOSE u \in S : \A v \in S : u <= v

SetOutcome(r, u, o) == outcome' = [outcome EXCEPT ![r] = [@ EXCEPT ![u] = o]]

-----------------------------------------------------------------------------
Init ==
    /\ \E d \in Deployments : capacity = d.queue /\ connections = d.connections
    /\ units \in [Run -> Sizes]
    /\ pc = [r \in Run |-> "idle"]
    /\ from = [r \in Run |-> 0]
    /\ outcome = [r \in Run |-> [u \in Unit(r) |-> "none"]]
    /\ saving = [r \in Run |-> {}]
    /\ saved = [r \in Run |-> {}]
    /\ recorded = [r \in Run |-> {}]
    /\ open = {}
    /\ queue = <<>> /\ busy = {} /\ threads = 0
    /\ crashes = 0

-----------------------------------------------------------------------------
(* syncIndexDataList: without a single info nothing is run.                *)
StartData(r) ==
    /\ pc[r] = "idle" /\ Kind[r] = "data"
    /\ pc' = [pc EXCEPT ![r] = IF units[r] = 0 THEN "returned" ELSE "fetching"]
    /\ UNCHANGED <<from, outcome, saving, saved, recorded, open, executor, crashes, given>>

(* syncIndexInfos: the first page is fetched by the caller; it tells the   *)
(* number of pages, and an error in it ends the call.  A run that found    *)
(* nothing returns without saving.                                         *)
SaveAllPages(r, fetched) ==
    /\ pc' = [pc EXCEPT ![r] = IF fetched = {} THEN "returned" ELSE "saving"]
    /\ saving' = [saving EXCEPT ![r] = fetched]

StartInfos(r) ==
    /\ pc[r] = "idle" /\ Kind[r] = "infos"
    /\ \E o \in {"items", "empty", "failed"} :
          /\ SetOutcome(r, 0, o)
          /\ CASE o = "failed" -> pc' = [pc EXCEPT ![r] = "failed"] /\ UNCHANGED saving
               [] o # "failed" /\ units[r] = 0 -> SaveAllPages(r, IF o = "items" THEN {0} ELSE {})
               [] o # "failed" /\ units[r] # 0 -> pc' = [pc EXCEPT ![r] = "fetching"] /\ UNCHANGED saving
    /\ UNCHANGED <<from, saved, recorded, open, executor, crashes, given>>

(* fetchAsync, fetchPageAsync: the executor starts a thread until it has   *)
(* its core size, then queues, and when the queue is full rejects; the     *)
(* rejection is an outcome like a failed fetch.                            *)
StartThread(r, u) ==
    /\ threads < PoolSize
    /\ threads' = threads + 1
    /\ busy' = busy \cup {<<r, u>>}
    /\ SetOutcome(r, u, "pending")
    /\ UNCHANGED queue

Enqueue(r, u) ==
    /\ threads = PoolSize /\ Len(queue) < capacity
    /\ queue' = Append(queue, <<r, u>>)
    /\ SetOutcome(r, u, "pending")
    /\ UNCHANGED <<busy, threads>>

DiscardSilently(r, u) ==                               \* mutant of Reject
    /\ threads = PoolSize /\ Len(queue) = capacity
    /\ SetOutcome(r, u, "pending")
    /\ UNCHANGED executor

Reject(r, u) ==
    /\ threads = PoolSize /\ Len(queue) = capacity
    /\ SetOutcome(r, u, "rejected")
    /\ UNCHANGED executor

Submit(r) ==
    LET rest == {u \in Batch(r) : outcome[r][u] = "none"}
        u    == Smallest(rest)
    IN
    /\ pc[r] = "fetching"
    /\ rest # {}
    /\ StartThread(r, u) \/ Enqueue(r, u) \/ Reject(r, u)
    /\ UNCHANGED <<pc, from, saving, saved, recorded, open, crashes, given>>

Take ==                     \* an idle worker polls the queue
    /\ Cardinality(busy) < threads
    /\ queue # <<>>
    /\ busy' = busy \cup {Head(queue)}
    /\ queue' = Tail(queue)
    /\ UNCHANGED <<pc, from, outcome, saving, saved, recorded, open, threads, crashes, given>>

(* fetchTarget, fetchPage: the worker has read every page of the unit, or  *)
(* met an error code, a timeout or an unreadable response on one of them.  *)
Finish(r, u) ==
    /\ <<r, u>> \in busy
    /\ busy' = busy \ {<<r, u>>}
    /\ \E o \in FetchEnds : SetOutcome(r, u, o)
    /\ UNCHANGED <<pc, from, saving, saved, recorded, open, queue, threads, crashes, given>>

JoinEarly(r) ==                                        \* mutant of Join
    /\ pc[r] = "fetching"
    /\ \A u \in Batch(r) : outcome[r][u] # "none"
    /\ IF Kind[r] = "data"
         THEN /\ pc' = [pc EXCEPT ![r] = "saving"]
              /\ saving' = [saving EXCEPT ![r] = Fetched(r, Batch(r))]
              /\ UNCHANGED from
         ELSE /\ from' = [from EXCEPT ![r] = @ + FetchBatchSize]
              /\ IF from'[r] < units[r]
                   THEN UNCHANGED <<pc, saving>>
                   ELSE SaveAllPages(r, Fetched(r, Unit(r)))
    /\ UNCHANGED <<outcome, saved, recorded, open, executor, crashes, given>>

(* CompletableFuture.allOf(..).join(): a data run saves its batch, an info *)
(* run goes on with the next pages and saves once, at the end.             *)
Join(r) ==
    /\ pc[r] = "fetching"
    /\ \A u \in Batch(r) : outcome[r][u] \in Decided
    /\ IF Kind[r] = "data"
         THEN /\ pc' = [pc EXCEPT ![r] = "saving"]
              /\ saving' = [saving EXCEPT ![r] = Fetched(r, Batch(r))]
              /\ UNCHANGED from
         ELSE /\ from' = [from EXCEPT ![r] = @ + FetchBatchSize]
              /\ IF from'[r] < units[r]
                   THEN UNCHANGED <<pc, saving>>
                   ELSE SaveAllPages(r, Fetched(r, Unit(r)))
    /\ UNCHANGED <<outcome, saved, recorded, open, executor, crashes, given>>

-----------------------------------------------------------------------------
(* indexDataSaveAll, indexInfoSaveAll: the outer transaction keeps its     *)
(* connection to the end, and each command commits in a REQUIRES_NEW       *)
(* transaction that takes another one and gives it back: data in the order *)
(* of the targets, infos in the order of a hash map.                       *)
TwoAreFree == Cardinality(open) + 1 < connections      \* mutant of OneIsFree
OneIsFree  == Cardinality(open) < connections

BeginSave(r) ==
    /\ pc[r] = "saving" /\ r \notin open
    /\ OneIsFree
    /\ open' = open \cup {r}
    /\ UNCHANGED <<pc, from, outcome, saving, saved, recorded, executor, crashes, given>>

SaveOne(r) ==
    /\ r \in open
    /\ OneIsFree
    /\ \E u \in saving[r] :
          /\ Kind[r] = "data" => u = Smallest(saving[r])
          /\ saved' = [saved EXCEPT ![r] = @ \cup {u}]
          /\ saving' = [saving EXCEPT ![r] = @ \ {u}]
    /\ UNCHANGED <<pc, from, outcome, recorded, open, executor, crashes, given>>

(* An exception leaves the manager, through all its batches.               *)
Leave(r, how) ==
    /\ pc' = [pc EXCEPT ![r] = how]
    /\ open' = open \ {r}
    /\ UNCHANGED <<from, outcome, saving, saved, recorded, executor, crashes, given>>

SaveFails(r) == r \in open /\ Leave(r, "failed")

(* The pool refuses who has waited too long: for the connection of the     *)
(* outer transaction, or for that of a command while keeping the outer.    *)
ConnectionTimeout(r) ==
    /\ pc[r] = "saving"
    /\ ~OneIsFree
    /\ r \in open => saving[r] # {}
    /\ Leave(r, "starved")

RecordBeforeSaved(r) ==                                \* mutant of Record
    /\ r \in open
    /\ recorded[r] \cap Fetched(r, Batch(r)) # Fetched(r, Batch(r))
    /\ recorded' = [recorded EXCEPT ![r] = @ \cup Fetched(r, Batch(r))]
    /\ UNCHANGED <<pc, from, outcome, saving, saved, open, executor, crashes, given>>

RecordStopsEarly(r) ==                                 \* mutant of Record
    /\ r \in open
    /\ saving[r] = {}
    /\ recorded' = [recorded EXCEPT ![r] = @ \cup Fetched(r, Batch(r))]
    /\ from' = [from EXCEPT ![r] = @ + FetchBatchSize]
    /\ pc' = [pc EXCEPT ![r] = IF from'[r] + FetchBatchSize < units[r]
                                 THEN "fetching" ELSE "returned"]
    /\ open' = open \ {r}
    /\ UNCHANGED <<outcome, saving, saved, executor, crashes, given>>

RecordEarly(r) ==                                      \* mutant of Record
    /\ r \in open
    /\ recorded' = [recorded EXCEPT ![r] = @ \cup saved[r]]
    /\ UNCHANGED <<pc, from, outcome, saving, saved, open, executor, crashes, given>>

(* saveDataAll, saveInfoAll and the commit, then the loop of fetchInBatches *)
(* (fromIndex <= size: one more, empty batch when the last one was full).  *)
Record(r) ==
    /\ r \in open
    /\ saving[r] = {}
    /\ IF Kind[r] = "data"
         THEN /\ recorded' = [recorded EXCEPT ![r] = @ \cup Fetched(r, Batch(r))]
              /\ from' = [from EXCEPT ![r] = @ + FetchBatchSize]
              /\ pc' = [pc EXCEPT ![r] = IF from'[r] <= units[r]
                                           THEN "fetching" ELSE "returned"]
         ELSE /\ recorded' = [recorded EXCEPT ![r] = Fetched(r, Unit(r))]
              /\ pc' = [pc EXCEPT ![r] = "returned"]
              /\ UNCHANGED from
    /\ open' = open \ {r}
    /\ UNCHANGED <<outcome, saving, saved, executor, crashes, given>>

(* The process dies; a restart has an empty executor and resumes no run.   *)
Crash ==
    /\ crashes < MaxCrashes
    /\ crashes' = crashes + 1
    /\ pc' = [r \in Run |-> IF pc[r] \in Active THEN "failed" ELSE pc[r]]
    /\ queue' = <<>> /\ busy' = {} /\ threads' = 0
    /\ open' = {}
    /\ UNCHANGED <<from, outcome, saving, saved, recorded, given>>

Over ==
    /\ \A r \in Run : pc[r] \in Ended
    /\ UNCHANGED vars

Start(r) == StartData(r) \/ StartInfos(r)
Call(r)  ==
    \/ Submit(r) \/ Join(r)
    \/ BeginSave(r) \/ SaveOne(r) \/ SaveFails(r) \/ ConnectionTimeout(r) \/ Record(r)

Next ==
    \/ \E r \in Run : Start(r) \/ Call(r)
    \/ Take
    \/ \E r \in Run : \E u \in Unit(r) : Finish(r, u)
    \/ Crash
    \/ Over

Spec == Init /\ [][Next]_vars

(* The calling thread and the workers are scheduled, and a fetch ends: the *)
(* HTTP client has a connect and a read timeout (RestClientConfig).  The   *)
(* pool of connections has a timeout as well.                              *)
FairSpec ==
    /\ Spec
    /\ \A r \in Run : WF_vars(Call(r)) /\ \A u \in AnyUnit : WF_vars(Finish(r, u))
    /\ WF_vars(Take)

-----------------------------------------------------------------------------
TypeOK ==
    /\ pc \in [Run -> {"idle"} \cup Active \cup Ended]
    /\ from \in [Run -> Nat]
    /\ DOMAIN outcome = Run
    /\ \A r \in Run : /\ outcome[r] \in [Unit(r) -> {"none", "pending"} \cup Decided]
                      /\ saving[r] \subseteq Unit(r)
                      /\ saved[r] \subseteq Unit(r)
                      /\ recorded[r] \subseteq Unit(r)
    /\ DOMAIN saving = Run /\ DOMAIN saved = Run /\ DOMAIN recorded = Run
    /\ queue \in Seq(Task)
    /\ busy \subseteq Task
    /\ threads \in 0..PoolSize
    /\ open \subseteq {r \in Run : pc[r] = "saving"}
    /\ [queue |-> capacity, connections |-> connections] \in Deployments
    /\ units \in [Run -> Sizes]
    /\ crashes \in 0..MaxCrashes

(* The executor holds, once each, exactly the units a run is waiting for:  *)
(* none runs on after its run has gone to save, none is waited for that    *)
(* nobody will run.                                                        *)
PendingInExecutor ==
    /\ \A r \in Run : \A u \in Unit(r) :
          <<r, u>> \in Queued \cup busy <=>
             pc[r] = "fetching" /\ u \in Batch(r) /\ outcome[r][u] = "pending"
    /\ \A i, j \in DOMAIN queue : queue[i] = queue[j] => i = j
    /\ Queued \cap busy = {}

(* A run never has more than a batch of its units in the executor, and the *)
(* executor stays within its pool and its queue (application.yaml), which  *)
(* is used only once the pool has all its threads.                         *)
SubmittedAtOnce(r) == {t \in Queued \cup busy : t[1] = r}
ExecutorBounded ==
    /\ \A r \in Run : Cardinality(SubmittedAtOnce(r)) <= FetchBatchSize
    /\ Cardinality(busy) <= threads
    /\ Len(queue) <= capacity
    /\ queue # <<>> => threads = PoolSize

(* As long as the batches of all runs fit into the queue together, no unit *)
(* is dropped by a rejection; room in the pool does not help, since a pool *)
(* that has its core size queues first.                                    *)
NoRejection ==
    Cardinality(Run) * FetchBatchSize <= capacity =>
        \A r \in Run : \A u \in Unit(r) : outcome[r][u] # "rejected"

(* A run that returns has tried every unit and has recorded each one that  *)
(* brought items, whatever its size and the batch size.                    *)
ReturnedIsComplete ==
    \A r \in Run : pc[r] = "returned" =>
        \A u \in Unit(r) : /\ outcome[r][u] \in Decided
                           /\ outcome[r][u] = "items" => u \in saved[r] \cap recorded[r]

(* The history of a run has no hole: where a unit is recorded, so is every *)
(* unit with items of its batch and of the batches before, all committed.  *)
HistoryHasNoHole ==
    \A r \in Run : \A u \in recorded[r] :
        /\ u \in saved[r]
        /\ \A v \in Unit(r) : (v < u \/ v \in BatchAt(r, u)) /\ outcome[r][v] = "items"
              => v \in recorded[r]

(* As long as the pool has a connection more than there are runs, none is  *)
(* refused one: the outer transactions never hold them all, so that each   *)
(* waits for the inner connection of its next command.                     *)
NoStarvation ==
    Cardinality(Run) < connections => \A r \in Run : pc[r] # "starved"

(* No run waits in join() for what nobody works on: a unit is being        *)
(* fetched, or an idle worker has one to take (fetchBatch).                *)
Waiting(r) == pc[r] = "fetching" /\ \E u \in Batch(r) : outcome[r][u] = "pending"
NoneWaitsInVain ==
    (\E r \in Run : Waiting(r)) => busy # {} \/ (queue # <<>> /\ Cardinality(busy) < threads)

(* Every run that starts returns or fails: waiting for fetches on a shared *)
(* executor and for two connections of a shared pool comes to an end.      *)
RunsEnd == \A r \in Run : pc[r] \in Active ~> pc[r] \in Ended

(* A call keeps what SyncLog promises: history only of what is committed,  *)
(* catching up in one step, and nothing committed behind the back of the   *)
(* history when a call returns (SyncJobManager, SyncJobServiceImpl).       *)
Status ==
    [r \in Run |-> IF pc[r] \in Active THEN "running"
                   ELSE IF pc[r] = "starved" THEN "failed" ELSE pc[r]]
Log == INSTANCE SyncLog WITH Part <- AnyUnit, status <- Status
Promise == Log!Spec

(* What the above rests on: the history of a data run is that of the       *)
(* batches behind it, an info run has none until it returns, and what is   *)
(* saved beyond the history belongs to the save in progress.               *)
Tried(r)   == {u \in Unit(r) : u <= from[r]}
Current(r) == IF Kind[r] = "data" THEN Batch(r) ELSE Unit(r)    \* what Join saves

HistoryBehind(r) ==
    /\ Kind[r] = "data" => recorded[r] = Fetched(r, Tried(r))
    /\ Kind[r] = "infos" => recorded[r] = IF pc[r] = "returned" THEN Fetched(r, Unit(r)) ELSE {}
SavedBeyond(r) ==
    /\ recorded[r] \subseteq saved[r]
    /\ pc[r] \in {"idle", "fetching", "returned"} => saved[r] = recorded[r]
    /\ pc[r] = "saving" => saved[r] \cup saving[r] = recorded[r] \cup Fetched(r, Current(r))
DecidedSoFar(r) ==
    /\ pc[r] = "idle" => from[r] = 0 /\ \A u \in Unit(r) : outcome[r][u] = "none"
    /\ pc[r] \in {"fetching", "saving", "returned"} => \A u \in Tried(r) : outcome[r][u] \in Decided
    /\ pc[r] = "saving" => \A u \in Current(r) : outcome[r][u] \in Decided
    /\ pc[r] \in Active => \A u \in Unit(r) : outcome[r][u] = "pending" => u \in Batch(r)
    /\ pc[r] = "returned" \/ (pc[r] = "saving" /\ Kind[r] = "infos") => units[r] <= from[r]

Kept(r) == HistoryBehind(r) /\ SavedBeyond(r) /\ DecidedSoFar(r)

IInv ==
    /\ TypeOK
    /\ PendingInExecutor
    /\ \A r \in Run : Kept(r)

(* The success or the failure of each sync task is kept as a SyncJob.      *)
FailuresRecorded ==
    \A r \in Run : pc[r] = "returned" =>
        \A u \in Unit(r) : outcome[r][u] \in {"failed", "rejected"} => u \in recorded[r]

=============================================================================
