----------------------------- MODULE IndexStore -----------------------------
(***************************************************************************)
(* The four tables of Findex and the service transactions that write them. *)
(*                                                                         *)
(* Tables: index_info, auto_sync_config (keyed by the info it belongs to), *)
(* index_data and sync_job.  A table is a function from ids to rows, NoRow *)
(* where no committed row has the id; sync_job is a set of records.  The   *)
(* tables hold COMMITTED rows only.                                        *)
(*                                                                         *)
(* Each process is a request thread inside one service call.  tx[p] is     *)
(* what its open transaction has read and written so far, so that a value  *)
(* read by one step and used by a later one can be stale (PostgreSQL READ  *)
(* COMMITTED, entities without @Version).  A write that is not yet         *)
(* committed is kept in tx[p] and shows in two ways: the row or key is     *)
(* locked for the other processes, and it reaches the table at the commit. *)
(* A statement followed at once by the commit is one step with it.  A run  *)
(* over index data is one call, its batches are transactions of it.        *)
(*                                                                         *)
(* Row figures are abstracted to who supplied them; audit columns, worker  *)
(* and job time are left out.                                              *)
(***************************************************************************)
EXTENDS Integers, FiniteSets

CONSTANTS
    Proc,         \* request threads
    RawName,      \* (classification, name) pairs as a request or the API spells them
    Name,         \* the stripped spellings, the only ones stored
    Strip,        \* String.strip() of both parts: RawName -> Name
    Date,         \* base dates
    NoDate,       \* target_date of an INDEX_INFO job: NULL
    NoRow,        \* no row has this id
    MaxInfo,      \* bound: index_info ids handed out
    MaxData,      \* bound: index_data ids handed out
    MaxRequests,  \* bound: service calls started
    MaxAborts     \* bound: transactions lost to a crash or a dead connection

InfoId == 1..MaxInfo
DataId == 1..MaxData
NoInfo == 0       \* NULL in sync_job.index_info_id

Source  == {"USER", "OPEN_API"}
Enabled == {"ON", "OFF"}
Key     == InfoId \X Date

InfoRow == [name : Name, source : Source, figures : Source]
DataRow == [info : InfoId, date : Date, type : Source]
JobRow  == [exec : Nat, info : InfoId \cup {NoInfo}, name : RawName,
            date : Date \cup {NoDate}, result : {"SUCCESS", "FAILED"}]

ASSUME StripAssumption ==
    /\ Name \subseteq RawName
    /\ Strip \in [RawName -> Name]
    /\ \A n \in Name : Strip[n] = n

ASSUME BoundAssumption ==
    {MaxInfo, MaxData, MaxRequests, MaxAborts} \subseteq Nat

ASSUME NullAssumption ==
    /\ NoRow \notin InfoRow \cup DataRow \cup Enabled
    /\ NoDate \notin Date

VARIABLES
    info,       \* index_info:       InfoId -> row
    config,     \* auto_sync_config: InfoId -> enabled flag
    data,       \* index_data:       DataId -> row
    job,        \* sync_job
    nextInfo,   \* BIGSERIAL sequences: an id is never handed out twice
    nextData,
    requests,   \* service calls started, also the execution id of a sync run
    aborts,     \* transactions lost so far
    tx          \* what the open transaction of a process has done

vars == <<info, config, data, job, nextInfo, nextData, requests, aborts, tx>>

LiveInfo == {i \in InfoId : info[i] # NoRow}
LiveData == {r \in DataId : data[r] # NoRow}
RowsOf(i)  == {r \in LiveData : data[r].info = i}
RowsAt(k)  == {r \in LiveData : data[r].info = k[1] /\ data[r].date = k[2]}
Named(n)   == {i \in LiveInfo : info[i].name = n}

Idle == [pc |-> "idle"]

InfoSync == {"syncInfos", "upserted", "infoJobs"}
DataSync == {"syncData", "found", "missing", "dataJobs", "fetching"}
Syncing  == InfoSync \cup DataSync
Writing  == {"infoJobs", "dataJobs"}   \* history entries inserted, not committed
Deleting == {"dropLoad", "dropFlush", "dropInfo"}   \* index_data rows already deleted

Tx == {Idle}
      \cup [pc : {"createInfo"}, name : Name]
      \cup [pc : {"updateInfo"}, info : InfoId, copy : InfoRow]
      \cup [pc : {"dropRows"} \cup Deleting, info : InfoId, victims : SUBSET DataId]
      \cup [pc : {"createData"}, info : InfoId, date : Date]
      \cup [pc : {"syncInfos"}, exec : Nat, batch : SUBSET RawName, left : SUBSET RawName]
      \cup [pc : {"upserted"}, exec : Nat, batch : SUBSET RawName, left : SUBSET RawName,
            name : RawName, info : InfoId \cup {NoInfo}]
      \cup [pc : {"infoJobs"}, exec : Nat, batch : SUBSET RawName, left : SUBSET RawName,
            jobs : SUBSET JobRow]
      \cup [pc : {"syncData"}, exec : Nat, later : SUBSET InfoId,
            batch : SUBSET Key, left : SUBSET Key]
      \cup [pc : {"missing"}, exec : Nat, later : SUBSET InfoId,
            batch : SUBSET Key, left : SUBSET Key, key : Key]
      \cup [pc : {"found"}, exec : Nat, later : SUBSET InfoId,
            batch : SUBSET Key, left : SUBSET Key, key : Key, row : DataId]
      \cup [pc : {"dataJobs"}, exec : Nat, later : SUBSET InfoId,
            batch : SUBSET Key, left : SUBSET Key, jobs : SUBSET JobRow]
      \cup [pc : {"fetching"}, exec : Nat, later : SUBSET InfoId]

At(p, label) == tx[p].pc = label
Begin(p, t) ==                \* the service call takes a thread and opens a transaction
    /\ tx[p] = Idle
    /\ requests < MaxRequests
    /\ requests' = requests + 1
    /\ tx' = [tx EXCEPT ![p] = t]
Goto(p, t)  == tx' = [tx EXCEPT ![p] = t]
End(p)      == Goto(p, Idle)  \* commit, or roll back what tx[p] alone held

-----------------------------------------------------------------------------
(* Locks: what another open transaction has written and not committed.     *)

UpsertTakesNoLock(n, p) == FALSE                       \* mutant of NameLocked

NameLocked(n, p) ==           \* index_info row, or its unique key, of an upsert
    \E q \in Proc \ {p} : At(q, "upserted") /\ Strip[tx[q].name] = n

ConfigLocked(i, p) ==         \* auto_sync_config row deleted by the flush of delete
    \E q \in Proc \ {p} : At(q, "dropInfo") /\ tx[q].info = i

RowLocked(r, p) ==            \* index_data row deleted by the bulk statement of delete
    \E q \in Proc \ {p} : tx[q].pc \in Deleting /\ r \in tx[q].victims

KeyLocked(k, p) == \E r \in RowsAt(k) : RowLocked(r, p)

InfoShared(i, p) ==           \* index_info row under the foreign key of a new sync_job
    \E q \in Proc \ {p} : tx[q].pc \in Writing /\ \E j \in tx[q].jobs : j.info = i

-----------------------------------------------------------------------------
Init ==
    /\ info   = [i \in InfoId |-> NoRow]
    /\ config = [i \in InfoId |-> NoRow]
    /\ data   = [r \in DataId |-> NoRow]
    /\ job = {}
    /\ nextInfo = 1 /\ nextData = 1
    /\ requests = 0 /\ aborts = 0
    /\ tx = [p \in Proc |-> Idle]

-----------------------------------------------------------------------------
(* IndexInfoServiceImpl.create: exists?, then INSERT index_info and its    *)
(* disabled auto_sync_config in one transaction.                           *)

CreateInfoBegin(p, raw) ==
    /\ Named(Strip[raw]) = {}
    /\ Begin(p, [pc |-> "createInfo", name |-> Strip[raw]])
    /\ UNCHANGED <<info, config, data, job, nextInfo, nextData, aborts>>

AddInfo(n, source) ==
    /\ nextInfo \in InfoId
    /\ info' = [info EXCEPT ![nextInfo] = [name |-> n, source |-> source, figures |-> source]]
    /\ config' = [config EXCEPT ![nextInfo] = "OFF"]
    /\ nextInfo' = nextInfo + 1

CreateInfoInsert(p) ==
    /\ At(p, "createInfo")
    /\ ~NameLocked(tx[p].name, p)
    /\ IF Named(tx[p].name) = {}
         THEN AddInfo(tx[p].name, "USER")
         ELSE UNCHANGED <<info, config, nextInfo>>      \* unique constraint
    /\ End(p)
    /\ UNCHANGED <<data, job, nextData, requests, aborts>>

(* IndexInfoServiceImpl.update: the entity is read, changed in memory and  *)
(* flushed with every column.  A PATCH may leave the figures out.          *)

UpdateInfoBegin(p, i) ==
    /\ i \in LiveInfo
    /\ \E copy \in {info[i], [info[i] EXCEPT !.figures = "USER"]} :
          Begin(p, [pc |-> "updateInfo", info |-> i, copy |-> copy])
    /\ UNCHANGED <<info, config, data, job, nextInfo, nextData, aborts>>

UpdateInfoFlush(p) ==
    /\ At(p, "updateInfo")
    /\ ~NameLocked(tx[p].copy.name, p)
    /\ info' = IF tx[p].info \in LiveInfo
                 THEN [info EXCEPT ![tx[p].info] = tx[p].copy]
                 ELSE info                              \* 0 rows: StaleObjectState
    /\ End(p)
    /\ UNCHANGED <<config, data, job, nextInfo, nextData, requests, aborts>>

-----------------------------------------------------------------------------
(* IndexInfoServiceImpl.delete.  The bulk DELETE of index_data runs at     *)
(* once and clears the session; auto_sync_config and index_info are loaded *)
(* again and deleted, in that order, by the flush at the commit.           *)

DeleteInfoBegin(p, i) ==
    /\ i \in LiveInfo
    /\ Begin(p, [pc |-> "dropRows", info |-> i, victims |-> {}])
    /\ UNCHANGED <<info, config, data, job, nextInfo, nextData, aborts>>

DeleteInfoRows(p) ==
    /\ At(p, "dropRows")
    /\ \A r \in RowsOf(tx[p].info) : ~RowLocked(r, p)
    /\ Goto(p, [tx[p] EXCEPT !.pc = "dropLoad", !.victims = RowsOf(tx[p].info)])
    /\ UNCHANGED <<info, config, data, job, nextInfo, nextData, requests, aborts>>

DeleteInfoLoad(p) ==
    /\ At(p, "dropLoad")
    /\ IF info[tx[p].info] = NoRow /\ config[tx[p].info] = NoRow
         THEN End(p)                                    \* both gone: nothing to flush
         ELSE Goto(p, [tx[p] EXCEPT !.pc = "dropFlush"])
    /\ UNCHANGED <<info, config, data, job, nextInfo, nextData, requests, aborts>>

DeleteInfoFlush(p) ==
    /\ At(p, "dropFlush")
    /\ ~ConfigLocked(tx[p].info, p)
    /\ IF config[tx[p].info] = NoRow
         THEN End(p)                                    \* 0 rows: StaleObjectState
         ELSE Goto(p, [tx[p] EXCEPT !.pc = "dropInfo"])
    /\ UNCHANGED <<info, config, data, job, nextInfo, nextData, requests, aborts>>

KeepReferences(i) == job' = job                         \* mutant of DetachJobs

DetachJobs(i) ==     \* detachIndexInfo, and ON DELETE SET NULL for jobs added since
    job' = {IF j.info = i THEN [j EXCEPT !.info = NoInfo] ELSE j : j \in job}

DeleteInfoCommit(p) ==
    LET i == tx[p].info IN
    /\ At(p, "dropInfo")
    /\ ~NameLocked(info[i].name, p)
    /\ ~InfoShared(i, p)
    /\ IF RowsOf(i) \subseteq tx[p].victims
         THEN /\ data' = [r \in DataId |-> IF r \in tx[p].victims THEN NoRow ELSE data[r]]
              /\ config' = [config EXCEPT ![i] = NoRow]
              /\ info' = [info EXCEPT ![i] = NoRow]
              /\ DetachJobs(i)
         ELSE UNCHANGED <<info, config, data, job>>     \* foreign key of a newer row
    /\ End(p)
    /\ UNCHANGED <<nextInfo, nextData, requests, aborts>>

-----------------------------------------------------------------------------
(* AutoSyncConfigService.update and IndexDataServiceImpl.updateIndexData,  *)
(* deleteIndexData: what they flush does not depend on what they read, and *)
(* a row that vanished meanwhile fails the call as a missing one does, so  *)
(* each is a single step.                                                  *)

UpdateConfig(p, i, enabled) ==
    /\ tx[p] = Idle /\ requests < MaxRequests
    /\ config[i] # NoRow
    /\ ~ConfigLocked(i, p)
    /\ config' = [config EXCEPT ![i] = enabled]
    /\ requests' = requests + 1
    /\ UNCHANGED <<info, data, job, nextInfo, nextData, aborts, tx>>

UpdateIndexData(p, r) ==
    /\ tx[p] = Idle /\ requests < MaxRequests
    /\ r \in LiveData
    /\ ~RowLocked(r, p)
    /\ data' = [data EXCEPT ![r].type = "USER"]
    /\ requests' = requests + 1
    /\ UNCHANGED <<info, config, job, nextInfo, nextData, aborts, tx>>

DeleteIndexData(p, r) ==
    /\ tx[p] = Idle /\ requests < MaxRequests
    /\ r \in LiveData
    /\ ~RowLocked(r, p)
    /\ data' = [data EXCEPT ![r] = NoRow]
    /\ requests' = requests + 1
    /\ UNCHANGED <<info, config, job, nextInfo, nextData, aborts, tx>>

(* IndexDataServiceImpl.createIndexData: info?, exists?, then INSERT.      *)

CreateIndexDataBegin(p, i, d) ==
    /\ i \in LiveInfo
    /\ RowsAt(<<i, d>>) = {}
    /\ Begin(p, [pc |-> "createData", info |-> i, date |-> d])
    /\ UNCHANGED <<info, config, data, job, nextInfo, nextData, aborts>>

InfoExists(k) == k[1] \in LiveInfo                      \* mutants of Insertable
KeyIsFree(k)  == RowsAt(k) = {}

Insertable(k) == k[1] \in LiveInfo /\ RowsAt(k) = {}    \* foreign key, unique key

AddData(k, type) ==
    /\ nextData \in DataId
    /\ data' = [data EXCEPT ![nextData] = [info |-> k[1], date |-> k[2], type |-> type]]
    /\ nextData' = nextData + 1

CreateIndexDataInsert(p) ==
    LET k == <<tx[p].info, tx[p].date>> IN
    /\ At(p, "createData")
    /\ ~KeyLocked(k, p)
    /\ IF Insertable(k) THEN AddData(k, "USER") ELSE UNCHANGED <<data, nextData>>
    /\ End(p)
    /\ UNCHANGED <<info, config, job, nextInfo, requests, aborts>>

-----------------------------------------------------------------------------
(* SyncJobServiceImpl.indexInfoSaveAll: saveOrUpdateOpenApiInfo in a       *)
(* transaction of its own for each command; then saveInfoAll inserts one   *)
(* sync_job per command, each by a statement with a snapshot of its own,   *)
(* all in the transaction that commits at the end.                         *)

SyncInfosBegin(p, batch) ==
    /\ Begin(p, [pc |-> "syncInfos", exec |-> requests + 1, batch |-> batch, left |-> batch])
    /\ UNCHANGED <<info, config, data, job, nextInfo, nextData, aborts>>

UpsertInfo(p) ==     \* INSERT .. ON CONFLICT DO UPDATE: row or key locked until commit
    /\ At(p, "syncInfos")
    /\ \E n \in tx[p].left :
          /\ ~NameLocked(Strip[n], p)
          /\ \E i \in IF Named(Strip[n]) = {} THEN {NoInfo} ELSE Named(Strip[n]) :
                Goto(p, [pc |-> "upserted", exec |-> tx[p].exec, batch |-> tx[p].batch,
                         left |-> tx[p].left \ {n}, name |-> n, info |-> i])
    /\ UNCHANGED <<info, config, data, job, nextInfo, nextData, requests, aborts>>

RefreshAnyInfo(i) ==                                    \* mutant of RefreshInfo
    info' = [info EXCEPT ![i].figures = "OPEN_API"]

RefreshInfo(i) ==    \* .. WHERE index_info.source_type = OPEN_API
    info' = IF info[i].source = "OPEN_API"
              THEN [info EXCEPT ![i].figures = "OPEN_API"]
              ELSE info

CreateOrReset(i) == config' = [config EXCEPT ![i] = "OFF"]   \* mutant of CreateIfAbsent

CreateIfAbsent(i) == \* INSERT .. ON CONFLICT DO NOTHING
    config' = IF config[i] = NoRow THEN [config EXCEPT ![i] = "OFF"] ELSE config

SyncInfoNoConfig(p) ==                                  \* mutant of SyncInfoCommit
    LET t == tx[p] IN
    /\ At(p, "upserted")
    /\ IF t.info = NoInfo
         THEN /\ info' = [info EXCEPT ![nextInfo] =
                     [name |-> Strip[t.name], source |-> "OPEN_API", figures |-> "OPEN_API"]]
              /\ nextInfo' = nextInfo + 1
         ELSE RefreshInfo(t.info) /\ UNCHANGED nextInfo
    /\ Goto(p, [pc |-> "syncInfos", exec |-> t.exec, batch |-> t.batch, left |-> t.left])
    /\ UNCHANGED <<config, data, job, nextData, requests, aborts>>

SyncInfoCommit(p) ==
    LET t == tx[p] IN
    /\ At(p, "upserted")
    /\ ~ConfigLocked(t.info, p)
    /\ IF t.info = NoInfo
         THEN AddInfo(Strip[t.name], "OPEN_API")
         ELSE RefreshInfo(t.info) /\ CreateIfAbsent(t.info) /\ UNCHANGED nextInfo
    /\ Goto(p, [pc |-> "syncInfos", exec |-> t.exec, batch |-> t.batch, left |-> t.left])
    /\ UNCHANGED <<data, job, nextData, requests, aborts>>

InfoJob(e, n) ==     \* joined on the name as the API spells it
    LET match == Named(n) IN
    [exec |-> e, name |-> n, date |-> NoDate,
     info   |-> IF match = {} THEN NoInfo ELSE CHOOSE i \in match : TRUE,
     result |-> IF match = {} THEN "FAILED" ELSE "SUCCESS"]

SaveInfoJobs(p) ==
    /\ At(p, "syncInfos")
    /\ tx[p].left = {}
    /\ Goto(p, [pc |-> "infoJobs", exec |-> tx[p].exec, batch |-> tx[p].batch,
                left |-> tx[p].batch, jobs |-> {}])
    /\ UNCHANGED <<info, config, data, job, nextInfo, nextData, requests, aborts>>

WriteInfoJob(p) ==
    LET t == tx[p] IN
    /\ At(p, "infoJobs")
    /\ \E n \in t.left :
          Goto(p, [pc |-> "infoJobs", exec |-> t.exec, batch |-> t.batch,
                   left |-> t.left \ {n}, jobs |-> t.jobs \cup {InfoJob(t.exec, n)}])
    /\ UNCHANGED <<info, config, data, job, nextInfo, nextData, requests, aborts>>

CommitInfoJobs(p) ==
    /\ At(p, "infoJobs")
    /\ tx[p].left = {}
    /\ job' = job \cup tx[p].jobs
    /\ End(p)
    /\ UNCHANGED <<info, config, data, nextInfo, nextData, requests, aborts>>

-----------------------------------------------------------------------------
(* SyncJobManager.executeSync loads the targets, draws the execution id    *)
(* of the run, and fetchInBatches calls SyncJobServiceImpl.indexDataSaveAll*)
(* once per batch: saveOrUpdateOpenApiData in a transaction of its own for *)
(* each command, then one sync_job per command, inserted as in             *)
(* indexInfoSaveAll.  An exception of any of them ends the run; its batch  *)
(* leaves no sync_job, and what its earlier commands and the earlier       *)
(* batches saved stays.                                                    *)

InfosOf(batch) == {k[1] : k \in batch}

SyncDataBegin(p, batch, later) ==    \* later: the targets of the batches to come
    /\ InfosOf(batch) \cup later \subseteq LiveInfo
    /\ InfosOf(batch) \cap later = {}
    /\ Begin(p, [pc |-> "syncData", exec |-> requests + 1, later |-> later,
                 batch |-> batch, left |-> batch])
    /\ UNCHANGED <<info, config, data, job, nextInfo, nextData, aborts>>

ReadRow(p, k) ==     \* findByIndexInfo_IdAndBaseDate
    LET t == tx[p] IN
    \/ /\ RowsAt(k) = {}
       /\ Goto(p, [pc |-> "missing", exec |-> t.exec, later |-> t.later, batch |-> t.batch,
                   left |-> t.left \ {k}, key |-> k])
    \/ \E r \in RowsAt(k) :
          /\ data[r].type = "OPEN_API"
          /\ Goto(p, [pc |-> "found", exec |-> t.exec, later |-> t.later, batch |-> t.batch,
                      left |-> t.left \ {k}, key |-> k, row |-> r])
    \/ /\ RowsAt(k) # {}    \* a USER row, or figures equal to the stored ones: no UPDATE
       /\ Goto(p, [t EXCEPT !.left = @ \ {k}])

SyncDataRead(p) ==
    /\ At(p, "syncData")
    /\ \E k \in tx[p].left : ReadRow(p, k)
    /\ UNCHANGED <<info, config, data, job, nextInfo, nextData, requests, aborts>>

NextCommand(p) ==
    Goto(p, [pc |-> "syncData", exec |-> tx[p].exec, later |-> tx[p].later,
             batch |-> tx[p].batch, left |-> tx[p].left])

SyncDataMerge(p) ==                                     \* mutant of SyncDataUpdate
    /\ At(p, "found")
    /\ ~RowLocked(tx[p].row, p)
    /\ data' = [data EXCEPT ![tx[p].row] =
          [info |-> tx[p].key[1], date |-> tx[p].key[2], type |-> "OPEN_API"]]
    /\ NextCommand(p)
    /\ UNCHANGED <<info, config, job, nextInfo, nextData, requests, aborts>>

SyncDataUpdate(p) ==  \* the flush writes every column, index_type included
    /\ At(p, "found")
    /\ ~RowLocked(tx[p].row, p)
    /\ IF tx[p].row \in LiveData
         THEN data' = [data EXCEPT ![tx[p].row].type = "OPEN_API"] /\ NextCommand(p)
         ELSE UNCHANGED data /\ End(p)                  \* 0 rows: StaleObjectState
    /\ UNCHANGED <<info, config, job, nextInfo, nextData, requests, aborts>>

SyncDataInsert(p) ==
    /\ At(p, "missing")
    /\ ~KeyLocked(tx[p].key, p)
    /\ IF Insertable(tx[p].key)
         THEN AddData(tx[p].key, "OPEN_API") /\ NextCommand(p)
         ELSE UNCHANGED <<data, nextData>> /\ End(p)
    /\ UNCHANGED <<info, config, job, nextInfo, requests, aborts>>

DataJobUnjoined(e, k) ==                                \* mutant of DataJob
    [exec |-> e, name |-> info[k[1]].name, date |-> k[2], info |-> k[1], result |-> "SUCCESS"]

DataJob(e, k) ==
    [exec |-> e, name |-> info[k[1]].name, date |-> k[2], info |-> k[1],
     result |-> IF RowsAt(k) = {} THEN "FAILED" ELSE "SUCCESS"]

SaveDataJobs(p) ==
    /\ At(p, "syncData")
    /\ tx[p].left = {}
    /\ Goto(p, [pc |-> "dataJobs", exec |-> tx[p].exec, later |-> tx[p].later,
                batch |-> tx[p].batch, left |-> tx[p].batch, jobs |-> {}])
    /\ UNCHANGED <<info, config, data, job, nextInfo, nextData, requests, aborts>>

WriteDataJob(p) ==
    LET t == tx[p] IN
    /\ At(p, "dataJobs")
    /\ \E k \in t.left :
          IF k[1] \in LiveInfo
            THEN Goto(p, [pc |-> "dataJobs", exec |-> t.exec, later |-> t.later,
                          batch |-> t.batch, left |-> t.left \ {k},
                          jobs |-> t.jobs \cup {DataJob(t.exec, k)}])
            ELSE End(p)                                 \* foreign key of a deleted info
    /\ UNCHANGED <<info, config, data, job, nextInfo, nextData, requests, aborts>>

CommitDataJobsEach(p) ==                                \* mutant of CommitDataJobs
    LET t == tx[p] IN
    /\ At(p, "dataJobs")
    /\ job' = job \cup t.jobs
    /\ IF t.left = {} THEN End(p) ELSE UNCHANGED tx
    /\ UNCHANGED <<info, config, data, nextInfo, nextData, requests, aborts>>

CommitDataJobs(p) ==
    LET t == tx[p] IN
    /\ At(p, "dataJobs")
    /\ t.left = {}
    /\ job' = job \cup t.jobs
    /\ IF t.later = {}
         THEN End(p)
         ELSE Goto(p, [pc |-> "fetching", exec |-> t.exec, later |-> t.later])
    /\ UNCHANGED <<info, config, data, nextInfo, nextData, requests, aborts>>

NextBatch(p) ==      \* .. what the API returned of it may be nothing at all
    LET t == tx[p] IN
    /\ At(p, "fetching")
    /\ \/ \E batch \in SUBSET (t.later \X Date) \ {{}} :
             Goto(p, [pc |-> "syncData", exec |-> t.exec,
                      later |-> t.later \ InfosOf(batch), batch |-> batch, left |-> batch])
       \/ End(p)
    /\ UNCHANGED <<info, config, data, job, nextInfo, nextData, requests, aborts>>

-----------------------------------------------------------------------------
(* The database and the process around the code.                           *)

WaitsFor(p, q) ==    \* the two locks that delete and an upsert take in opposite orders
    \/ At(p, "dropInfo") /\ At(q, "upserted") /\ tx[q].info = tx[p].info
    \/ At(p, "upserted") /\ At(q, "dropInfo") /\ tx[q].info = tx[p].info

NoDetector(p) == FALSE /\ UNCHANGED vars                \* mutant of DeadlockVictim

DeadlockVictim(p) == \* deadlock_timeout: one of the two is rolled back
    /\ \E q \in Proc : WaitsFor(p, q) /\ WaitsFor(q, p)
    /\ End(p)
    /\ UNCHANGED <<info, config, data, job, nextInfo, nextData, requests, aborts>>

Abort(p) ==          \* crash, lost connection, statement error
    /\ tx[p] # Idle
    /\ aborts < MaxAborts
    /\ aborts' = aborts + 1
    /\ End(p)
    /\ UNCHANGED <<info, config, data, job, nextInfo, nextData, requests>>

Quiescent ==         \* every call the bound allows has ended
    /\ requests = MaxRequests
    /\ \A p \in Proc : tx[p] = Idle
    /\ UNCHANGED vars

Request(p) ==
    \/ \E raw \in RawName : CreateInfoBegin(p, raw)
    \/ \E i \in InfoId : UpdateInfoBegin(p, i) \/ DeleteInfoBegin(p, i)
    \/ \E i \in InfoId, e \in Enabled : UpdateConfig(p, i, e)
    \/ \E i \in InfoId, d \in Date : CreateIndexDataBegin(p, i, d)
    \/ \E r \in DataId : UpdateIndexData(p, r) \/ DeleteIndexData(p, r)
    \/ \E batch \in SUBSET RawName \ {{}} : SyncInfosBegin(p, batch)
    \/ \E batch \in SUBSET (LiveInfo \X Date) \ {{}}, later \in SUBSET LiveInfo :
          SyncDataBegin(p, batch, later)

Step(p) ==
    \/ CreateInfoInsert(p) \/ UpdateInfoFlush(p)
    \/ DeleteInfoRows(p) \/ DeleteInfoLoad(p) \/ DeleteInfoFlush(p) \/ DeleteInfoCommit(p)
    \/ CreateIndexDataInsert(p)
    \/ UpsertInfo(p) \/ SyncInfoCommit(p)
    \/ SaveInfoJobs(p) \/ WriteInfoJob(p) \/ CommitInfoJobs(p)
    \/ SyncDataRead(p) \/ SyncDataUpdate(p) \/ SyncDataInsert(p)
    \/ SaveDataJobs(p) \/ WriteDataJob(p) \/ CommitDataJobs(p) \/ NextBatch(p)
    \/ DeadlockVictim(p)

Next ==
    \/ \E p \in Proc : Request(p) \/ Step(p) \/ Abort(p)
    \/ Quiescent

Spec == Init /\ [][Next]_vars

(* A started call keeps running: its thread is scheduled, a lock it waits  *)
(* for is granted once free, and PostgreSQL runs its deadlock detector.    *)
(* No request has to come, and nothing has to abort.                       *)
FairSpec == Spec /\ \A p \in Proc : WF_vars(Step(p))

-----------------------------------------------------------------------------
TypeOK ==
    /\ info \in [InfoId -> InfoRow \cup {NoRow}]
    /\ config \in [InfoId -> Enabled \cup {NoRow}]
    /\ data \in [DataId -> DataRow \cup {NoRow}]
    /\ job \subseteq JobRow
    /\ nextInfo \in 1..(MaxInfo + 1)
    /\ nextData \in 1..(MaxData + 1)
    /\ requests \in 0..MaxRequests
    /\ aborts \in 0..MaxAborts
    /\ tx \in [Proc -> Tx]

(* Two IndexInfo never share a name, however exists-then-insert of create  *)
(* interleaves with the upsert of a sync.                                  *)
UniqueNames == \A i, j \in LiveInfo : info[i].name = info[j].name => i = j

(* An info has one IndexData per date at most, however exists-then-insert  *)
(* of a request interleaves with find-then-save of a sync.                 *)
UniqueKeys ==
    \A r, s \in LiveData :
        data[r].info = data[s].info /\ data[r].date = data[s].date => r = s

(* No IndexData outlives its IndexInfo, whatever is inserted while delete  *)
(* runs its separate statements.                                           *)
DataHasInfo == \A r \in LiveData : data[r].info \in LiveInfo

(* An IndexInfo has its auto-sync config exactly as long as it exists:     *)
(* creation, upsert and delete never leave one without the other.          *)
ConfigIffInfo == \A i \in InfoId : config[i] # NoRow <=> info[i] # NoRow

(* A sync_job refers to an IndexInfo that exists or to none.               *)
JobReferencesLive == \A j \in job : j.info \in LiveInfo \cup {NoInfo}

(* The row an upsert inserted, refreshed or left to its USER owner cannot  *)
(* go away before createIfAbsent has used it: the not-found branch of      *)
(* saveOrUpdateOpenApiInfo is never taken.                                 *)
UpsertedInfoStays ==
    \A p \in Proc : At(p, "upserted") =>
        Named(Strip[tx[p].name]) = IF tx[p].info = NoInfo THEN {} ELSE {tx[p].info}

(* The figures of an IndexInfo a user registered come from a user: no sync *)
(* refreshes it, even one that races its creation or its PATCH.            *)
UserInfoUntouched ==
    \A i \in LiveInfo : info[i].source = "USER" => info[i].figures = "USER"

(* What the above rests on: ids beyond the sequences are unused, two open  *)
(* upserts never hold the same name, a stale copy is of the same row, and  *)
(* an info the history entries of an open transaction refer to stays.      *)
IdsUnused ==
    /\ \A i \in InfoId : i >= nextInfo => info[i] = NoRow
    /\ \A r \in DataId : r >= nextData => data[r] = NoRow

OneUpsertPerName ==
    \A p, q \in Proc :
        At(p, "upserted") /\ At(q, "upserted") /\ p # q
            => Strip[tx[p].name] # Strip[tx[q].name]

CopyOfSameRow ==
    \A p \in Proc : At(p, "updateInfo") =>
        LET i == tx[p].info  copy == tx[p].copy IN
        /\ i < nextInfo
        /\ copy.source = "USER" => copy.figures = "USER"
        /\ i \in LiveInfo => copy.name = info[i].name /\ copy.source = info[i].source

NotedInfoStays ==
    \A p \in Proc : tx[p].pc \in Writing =>
        \A j \in tx[p].jobs : j.info \in LiveInfo \cup {NoInfo}

IInv ==
    /\ TypeOK
    /\ IdsUnused
    /\ UniqueNames
    /\ UniqueKeys
    /\ DataHasInfo
    /\ ConfigIffInfo
    /\ JobReferencesLive
    /\ UpsertedInfoStays
    /\ UserInfoUntouched
    /\ OneUpsertPerName
    /\ CopyOfSameRow
    /\ NotedInfoStays

(* The sync history of an execution only grows, none of its entries is     *)
(* lost or changed, by deletes of the info either; it grows by the run     *)
(* that has the execution alone, and by a batch at a time: the entries of  *)
(* all commands of the batch, or none of them.                             *)
Entries(e) == {<<j.name, j.date, j.result>> : j \in {h \in job : h.exec = e}}
Command(j) == IF j.date = NoDate THEN j.name ELSE <<j.info, j.date>>
HistorySealed ==
    [][\A e \in 1..MaxRequests : Entries(e)' # Entries(e) =>
          /\ Entries(e) \subseteq Entries(e)'
          /\ \E p \in Proc : /\ tx[p].pc \in Writing /\ tx[p].exec = e
                             /\ {Command(j) : j \in job' \ job} = tx[p].batch]_vars

(* Only the PATCH of a user switches auto-sync on or off: a sync that      *)
(* meets an existing config leaves it as it is.                            *)
EnabledOnlyByUser ==
    [][\A i \in InfoId :
          config[i] # NoRow /\ config'[i] \notin {config[i], NoRow}
              => requests' # requests]_vars

(* A deleted row stays deleted: no stale copy held by a PATCH or a sync is *)
(* written back under its id.                                              *)
NoResurrection ==
    [][/\ \A r \in DataId : r < nextData /\ data[r] = NoRow => data'[r] = NoRow
       /\ \A i \in InfoId : i < nextInfo /\ info[i] = NoRow => info'[i] = NoRow]_vars

(* Whoever reads the tables sees each change at once and whole: a new info *)
(* with its config, a deleted one with all its data and no job left that   *)
(* refers to it.  A history entry was true when it was noted, it appears   *)
(* with the others of its batch, and its info is there until then.  See    *)
(* AtomicStore.                                                            *)
RunOf(p)   == IF tx[p].pc \in Syncing THEN {tx[p].exec} ELSE {}
NotesOf(p) == IF tx[p].pc \in Writing THEN tx[p].jobs ELSE {}
OpenRuns == UNION {RunOf(p) : p \in Proc}
Noted    == UNION {NotesOf(p) : p \in Proc}
Tables == INSTANCE AtomicStore WITH
    spentInfo <- 1..(nextInfo - 1), spentData <- 1..(nextData - 1),
    open <- OpenRuns, noted <- Noted
EachCommitIsWhole == Tables!Spec

(* Every call that starts ends: no lock wait, the crossed locks of delete  *)
(* and upsert included, lasts for ever.                                    *)
CallsEnd == \A p \in Proc : tx[p] # Idle ~> tx[p] = Idle

(* Why: as long as a call is open, one of them waits for no lock, or two   *)
(* wait for each other and the detector sees them.  It sees no others: the *)
(* victims it picks could not have gone on.                                *)
Blocked(p) ==
    \/ At(p, "createInfo") /\ NameLocked(tx[p].name, p)
    \/ At(p, "updateInfo") /\ NameLocked(tx[p].copy.name, p)
    \/ At(p, "dropRows")   /\ \E r \in RowsOf(tx[p].info) : RowLocked(r, p)
    \/ At(p, "dropFlush")  /\ ConfigLocked(tx[p].info, p)
    \/ At(p, "dropInfo")   /\ NameLocked(info[tx[p].info].name, p)
    \/ At(p, "dropInfo")   /\ InfoShared(tx[p].info, p)
    \/ At(p, "createData") /\ KeyLocked(<<tx[p].info, tx[p].date>>, p)
    \/ At(p, "syncInfos")  /\ \E n \in tx[p].left : NameLocked(Strip[n], p)
    \/ At(p, "upserted")   /\ ConfigLocked(tx[p].info, p)
    \/ At(p, "found")      /\ RowLocked(tx[p].row, p)
    \/ At(p, "missing")    /\ KeyLocked(tx[p].key, p)

Crossed(p, q) == WaitsFor(p, q) /\ WaitsFor(q, p)

NoWaitForEver ==
    /\ (\E p \in Proc : tx[p] # Idle) =>
          \E p \in Proc : tx[p] # Idle /\ (~Blocked(p) \/ \E q \in Proc : Crossed(p, q))
    /\ \A p, q \in Proc : Crossed(p, q) => Blocked(p) /\ Blocked(q)

(* A row a user has modified is no longer changed by a sync.               *)
UserDataKept ==
    [][\A r \in LiveData :
          data[r].type = "USER" => data'[r] = NoRow \/ data'[r].type = "USER"]_vars

(* What the code does keep: a row a user has modified falls only to a sync *)
(* that had read it as OPEN_API before that change, never to one that      *)
(* comes to it later; as long as none has, it stays the user's.            *)
ReadByASync(r) == \E p \in Proc : At(p, "found") /\ tx[p].row = r
UserDataSafe ==
    [][\A r \in LiveData :
          data[r].type = "USER" /\ ~ReadByASync(r)
              => data'[r] = NoRow \/ (data'[r].type = "USER" /\ ~ReadByASync(r)')]_vars

=============================================================================
