-------------------------- MODULE IndexCommitProofs --------------------------
(* IndexStore implements AtomicStore, and what follows for single steps:   *)
(* nothing deleted comes back, the history of an execution grows by whole  *)
(* batches, only users switch auto-sync, and what users change falls to    *)
(* stale reads only.                                                       *)
EXTENDS IndexStoreProofs

USE DEF InfoId, DataId, NoInfo, Source, Enabled, Key

(* The rows a delete holds for deletion were rows of its info, and are     *)
(* still, or gone.                                                         *)
VictimsOfInfo ==
    \A p \in Proc : tx[p].pc \in Deleting =>
        \A r \in tx[p].victims :
            r < nextData /\ (data[r] # NoRow => data[r].info = tx[p].info)

(* The info of a delete that has flushed its config is there, and no other *)
(* delete is as far with it.                                               *)
DropsAlone ==
    \A p \in Proc : At(p, "dropInfo") =>
        /\ tx[p].info \in LiveInfo
        /\ \A q \in Proc : At(q, "dropInfo") /\ tx[q].info = tx[p].info => q = p

(* An open sync has an execution of its own, and no later one has begun.   *)
ExecutionsDiffer ==
    /\ \A j \in job : j.exec <= requests
    /\ \A p \in Proc : tx[p].pc \in Syncing =>
          /\ tx[p].exec <= requests
          /\ \A q \in Proc : tx[q].pc \in Syncing /\ tx[q].exec = tx[p].exec => q = p

(* The infos whose entries a run has yet to commit: those of this batch    *)
(* and of the batches to come.                                             *)
Coming(t) == IF t.pc = "fetching" THEN t.later ELSE t.later \cup InfosOf(t.batch)

(* What the history says of the execution of an open sync is about earlier *)
(* batches; what the sync has noted of this one is what its commands were. *)
Ahead(t) ==
    /\ t.pc \in InfoSync => \A j \in job : j.exec # t.exec
    /\ t.pc \in DataSync => \A j \in job : j.exec = t.exec => j.info \notin Coming(t)
    /\ t.pc \in DataSync \ {"fetching"} => t.later \cap InfosOf(t.batch) = {}
    /\ t.pc \in Writing =>
          /\ t.left \subseteq t.batch
          /\ \A j \in t.jobs : j.exec = t.exec
          /\ {Command(j) : j \in t.jobs} = t.batch \ t.left
    /\ t.pc = "dataJobs" => \A j \in t.jobs : j.date # NoDate

EntriesAhead == \A p \in Proc : Ahead(tx[p])

CInv == IInv /\ VictimsOfInfo /\ DropsAlone /\ ExecutionsDiffer /\ EntriesAhead

-----------------------------------------------------------------------------
(* What a step of one thread does to the open transactions.                *)
Effect(p) ==
    /\ \A q \in Proc \ {p} : tx'[q] = tx[q]
    /\ tx'[p].pc \in Deleting =>
          /\ tx'[p].info = tx[p].info /\ UNCHANGED <<info, config, data, nextData>>
          /\ \/ tx[p].pc \in Deleting /\ tx'[p].victims = tx[p].victims
             \/ tx'[p].victims = RowsOf(tx[p].info)
    /\ tx'[p].pc = "dropInfo" =>
          At(p, "dropFlush") /\ ~ConfigLocked(tx[p].info, p) /\ config[tx[p].info] # NoRow
    /\ tx'[p].pc \in Syncing =>
          \/ tx[p].pc \in Syncing /\ tx'[p].exec = tx[p].exec
          \/ tx'[p].exec = requests + 1 /\ requests' = requests + 1

LEMMA Elsewhere ==
    ASSUME TypeOK, NEW p \in Proc, NEW t, Goto(p, t) \/ Begin(p, t), t.pc \notin Deleting,
           t.pc \in Syncing =>
              \/ tx[p].pc \in Syncing /\ t.exec = tx[p].exec
              \/ t.exec = requests + 1 /\ requests' = requests + 1
    PROVE  Effect(p)
<1>1. tx'[p] = t /\ \A q \in Proc \ {p} : tx'[q] = tx[q]
  BY DEF TypeOK, Goto, Begin
<1>2. t.pc # "dropInfo"
  BY DEF Deleting
<1>3. QED
  BY <1>1, <1>2 DEF Effect

LEMMA RequestEffect ==
    ASSUME TypeOK, NEW p \in Proc, Request(p)
    PROVE  Effect(p) \/ UNCHANGED tx
<1> USE DEF Deleting, Syncing, InfoSync, DataSync
<1>1. ASSUME NEW raw \in RawName, CreateInfoBegin(p, raw) PROVE Effect(p)
  BY <1>1, Elsewhere DEF CreateInfoBegin
<1>2. ASSUME NEW i \in InfoId, UpdateInfoBegin(p, i) PROVE Effect(p)
  BY <1>2, Elsewhere DEF UpdateInfoBegin
<1>3. ASSUME NEW i \in InfoId, DeleteInfoBegin(p, i) PROVE Effect(p)
  BY <1>3, Elsewhere DEF DeleteInfoBegin
<1>4. ASSUME NEW i \in InfoId, NEW d \in Date, CreateIndexDataBegin(p, i, d) PROVE Effect(p)
  BY <1>4, Elsewhere DEF CreateIndexDataBegin
<1>5. ASSUME NEW batch, SyncInfosBegin(p, batch) PROVE Effect(p)
  <2>1. PICK t : Begin(p, t) /\ t.pc = "syncInfos" /\ t.exec = requests + 1
    BY <1>5 DEF SyncInfosBegin
  <2>2. requests' = requests + 1
    BY <1>5 DEF SyncInfosBegin, Begin
  <2>3. QED
    BY <2>1, <2>2, Elsewhere
<1>6. ASSUME NEW batch, NEW later, SyncDataBegin(p, batch, later) PROVE Effect(p)
  <2>1. PICK t : Begin(p, t) /\ t.pc = "syncData" /\ t.exec = requests + 1
    BY <1>6 DEF SyncDataBegin
  <2>2. requests' = requests + 1
    BY <1>6 DEF SyncDataBegin, Begin
  <2>3. QED
    BY <2>1, <2>2, Elsewhere
<1>7. QED
  BY <1>1, <1>2, <1>3, <1>4, <1>5, <1>6 DEF Request, UpdateConfig, UpdateIndexData, DeleteIndexData

LEMMA IdleEffect ==
    ASSUME TypeOK, NEW p \in Proc, End(p)
    PROVE  Effect(p)
<1>1. Idle.pc \notin Deleting \cup Syncing
  BY DEF Idle, Deleting, Syncing, InfoSync, DataSync
<1>2. QED
  BY <1>1, Elsewhere DEF End

LEMMA DeleteEffect ==
    ASSUME TypeOK, NEW p \in Proc, DeleteInfoRows(p) \/ DeleteInfoLoad(p) \/ DeleteInfoFlush(p)
    PROVE  Effect(p)
<1>1. tx[p] \in [pc : {"dropRows"} \cup Deleting, info : InfoId, victims : SUBSET DataId]
  BY DEF TypeOK, DeleteInfoRows, DeleteInfoLoad, DeleteInfoFlush, At, Tx, Idle, Deleting
<1>2. UNCHANGED <<info, config, data, nextData>>
  BY DEF DeleteInfoRows, DeleteInfoLoad, DeleteInfoFlush
<1>3. \A t : Goto(p, t) => tx'[p] = t /\ \A q \in Proc \ {p} : tx'[q] = tx[q]
  BY DEF TypeOK, Goto
<1>4. CASE DeleteInfoRows(p)
  <2> DEFINE t == [tx[p] EXCEPT !.pc = "dropLoad", !.victims = RowsOf(tx[p].info)]
  <2>1. tx'[p] = t /\ \A q \in Proc \ {p} : tx'[q] = tx[q]
    BY <1>3, <1>4 DEF DeleteInfoRows
  <2>2. t.pc = "dropLoad" /\ t.victims = RowsOf(tx[p].info) /\ t.info = tx[p].info
    BY <1>1
  <2>3. QED
    BY <1>2, <2>1, <2>2 DEF Effect, Syncing, InfoSync, DataSync
<1>5. CASE DeleteInfoLoad(p)
  <2> DEFINE t == [tx[p] EXCEPT !.pc = "dropFlush"]
  <2>1. CASE End(p)
    BY <2>1, IdleEffect
  <2>2. CASE Goto(p, t)
    <3>1. tx'[p] = t /\ \A q \in Proc \ {p} : tx'[q] = tx[q]
      BY <1>3, <2>2
    <3>2. t.pc = "dropFlush" /\ t.victims = tx[p].victims /\ t.info = tx[p].info /\ tx[p].pc \in Deleting
      BY <1>1, <1>5 DEF DeleteInfoLoad, At, Deleting
    <3>3. QED
      BY <1>2, <3>1, <3>2 DEF Effect, Syncing, InfoSync, DataSync
  <2>3. QED
    BY <1>5, <2>1, <2>2 DEF DeleteInfoLoad
<1>6. CASE DeleteInfoFlush(p)
  <2> DEFINE t == [tx[p] EXCEPT !.pc = "dropInfo"]
  <2>1. CASE End(p)
    BY <2>1, IdleEffect
  <2>2. CASE config[tx[p].info] # NoRow /\ Goto(p, t)
    <3>1. tx'[p] = t /\ \A q \in Proc \ {p} : tx'[q] = tx[q]
      BY <1>3, <2>2
    <3>2. t.pc = "dropInfo" /\ t.victims = tx[p].victims /\ t.info = tx[p].info /\ tx[p].pc \in Deleting
      BY <1>1, <1>6 DEF DeleteInfoFlush, At, Deleting
    <3>3. ~ConfigLocked(tx[p].info, p) /\ At(p, "dropFlush")
      BY <1>6 DEF DeleteInfoFlush
    <3>4. QED
      BY <1>2, <2>2, <3>1, <3>2, <3>3 DEF Effect, Syncing, InfoSync, DataSync
  <2>3. QED
    BY <1>6, <2>1, <2>2 DEF DeleteInfoFlush
<1>7. QED
  BY <1>4, <1>5, <1>6

LEMMA ReadMove ==
    ASSUME TypeOK, NEW p \in Proc, SyncDataRead(p)
    PROVE  /\ tx[p].pc = "syncData"
           /\ \E t : /\ Goto(p, t) /\ t.pc \in {"syncData", "missing", "found"}
                    /\ t.exec = tx[p].exec /\ t.later = tx[p].later /\ t.batch = tx[p].batch
<1>1. tx[p] \in [pc : {"syncData"}, exec : Nat, later : SUBSET InfoId,
                 batch : SUBSET Key, left : SUBSET Key]
  BY DEF TypeOK, SyncDataRead, At, Tx, Idle, Deleting
<1>2. PICK k \in tx[p].left : ReadRow(p, k)
  BY DEF SyncDataRead
<1> DEFINE rest == tx[p].left \ {k}
           u == [tx[p] EXCEPT !.left = @ \ {k}]
           gone == [pc |-> "missing", exec |-> tx[p].exec, later |-> tx[p].later,
                    batch |-> tx[p].batch, left |-> rest, key |-> k]
           there(r) == [pc |-> "found", exec |-> tx[p].exec, later |-> tx[p].later,
                        batch |-> tx[p].batch, left |-> rest, key |-> k, row |-> r]
<1>3. Goto(p, gone) \/ Goto(p, u) \/ \E r \in RowsAt(k) : Goto(p, there(r))
  BY <1>2 DEF ReadRow
<1>4. u.pc = "syncData" /\ u.exec = tx[p].exec /\ u.later = tx[p].later /\ u.batch = tx[p].batch
  BY <1>1
<1>5. gone.pc = "missing" /\ gone.exec = tx[p].exec /\ gone.later = tx[p].later
      /\ gone.batch = tx[p].batch
  OBVIOUS
<1>6. \A r : /\ there(r).pc = "found" /\ there(r).exec = tx[p].exec
             /\ there(r).later = tx[p].later /\ there(r).batch = tx[p].batch
  OBVIOUS
<1> HIDE DEF u, gone, there
<1>7. QED
  BY <1>1, <1>3, <1>4, <1>5, <1>6

LEMMA BatchMove ==
    ASSUME NEW p \in Proc, NextBatch(p), ~End(p)
    PROVE  \E batch \in SUBSET (tx[p].later \X Date) : \E t :
              /\ Goto(p, t) /\ t.pc = "syncData" /\ t.exec = tx[p].exec
              /\ t.later = tx[p].later \ InfosOf(batch) /\ t.batch = batch
<1>1. PICK batch \in SUBSET (tx[p].later \X Date) :
         Goto(p, [pc |-> "syncData", exec |-> tx[p].exec,
                  later |-> tx[p].later \ InfosOf(batch), batch |-> batch, left |-> batch])
  BY DEF NextBatch
<1> DEFINE t == [pc |-> "syncData", exec |-> tx[p].exec,
                 later |-> tx[p].later \ InfosOf(batch), batch |-> batch, left |-> batch]
<1>2. t.pc = "syncData" /\ t.exec = tx[p].exec
      /\ t.later = tx[p].later \ InfosOf(batch) /\ t.batch = batch
  OBVIOUS
<1> HIDE DEF t
<1>3. QED
  BY <1>1, <1>2 DEF t

LEMMA StepEffect ==
    ASSUME TypeOK, NEW p \in Proc, Step(p) \/ Abort(p)
    PROVE  Effect(p)
<1> USE DEF Deleting, Syncing, InfoSync, DataSync
<1>1. CASE End(p)
  BY <1>1, IdleEffect
<1>2. CASE UpsertInfo(p)
  <2>1. PICK t : Goto(p, t) /\ t.pc = "upserted" /\ t.exec = tx[p].exec
    BY <1>2 DEF UpsertInfo
  <2>2. tx[p].pc = "syncInfos"
    BY <1>2 DEF UpsertInfo, At
  <2>3. QED
    BY <2>1, <2>2, Elsewhere
<1>3. CASE SyncInfoCommit(p)
  <2>1. PICK t : Goto(p, t) /\ t.pc = "syncInfos" /\ t.exec = tx[p].exec
    BY <1>3 DEF SyncInfoCommit
  <2>2. tx[p].pc = "upserted"
    BY <1>3 DEF SyncInfoCommit, At
  <2>3. QED
    BY <2>1, <2>2, Elsewhere
<1>4. CASE SyncDataRead(p)
  BY <1>4, ReadMove, Elsewhere
<1>5. CASE NextCommand(p) /\ tx[p].pc \in DataSync
  <2>1. PICK t : Goto(p, t) /\ t.pc = "syncData" /\ t.exec = tx[p].exec
    BY <1>5 DEF NextCommand
  <2>2. QED
    BY <1>5, <2>1, Elsewhere
<1>6. CASE SyncDataUpdate(p) \/ SyncDataInsert(p)
  BY <1>1, <1>5, <1>6 DEF SyncDataUpdate, SyncDataInsert, At
<1>7. CASE SaveInfoJobs(p) \/ WriteInfoJob(p)
  <2>1. PICK t : Goto(p, t) /\ t.pc = "infoJobs" /\ t.exec = tx[p].exec
    <3>1. CASE SaveInfoJobs(p)
      BY <3>1 DEF SaveInfoJobs
    <3>2. CASE WriteInfoJob(p)
      BY <3>2 DEF WriteInfoJob
    <3>3. QED
      BY <1>7, <3>1, <3>2
  <2>2. tx[p].pc \in InfoSync
    BY <1>7 DEF SaveInfoJobs, WriteInfoJob, At
  <2>3. QED
    BY <2>1, <2>2, Elsewhere
<1>8. CASE SaveDataJobs(p) \/ WriteDataJob(p) \/ CommitDataJobs(p) \/ NextBatch(p)
  <2>1. tx[p].pc \in DataSync
    BY <1>8 DEF SaveDataJobs, WriteDataJob, CommitDataJobs, NextBatch, At
  <2>2. End(p) \/ \E t : Goto(p, t) /\ t.pc \in {"dataJobs", "fetching", "syncData"}
                               /\ t.exec = tx[p].exec
    <3>1. CASE SaveDataJobs(p)
      BY <3>1 DEF SaveDataJobs
    <3>2. CASE WriteDataJob(p)
      BY <3>2 DEF WriteDataJob
    <3>3. CASE CommitDataJobs(p)
      BY <3>3 DEF CommitDataJobs
    <3>4. CASE NextBatch(p)
      BY <3>4, BatchMove
    <3>5. QED
      BY <1>8, <3>1, <3>2, <3>3, <3>4
  <2>3. QED
    BY <1>1, <2>1, <2>2, Elsewhere
<1>9. QED
  BY <1>1, <1>2, <1>3, <1>4, <1>6, <1>7, <1>8, DeleteEffect
     DEF Step, Abort, CreateInfoInsert, UpdateInfoFlush, DeleteInfoCommit, CreateIndexDataInsert,
         CommitInfoJobs, DeadlockVictim

-----------------------------------------------------------------------------
(* What a step of one thread does to the tables and to the history that is *)
(* being written: one operation of AtomicStore, or nothing.                *)
Committed(p) ==
    /\ requests' \in {requests, requests + 1}
    /\ \/ UNCHANGED <<info, config, data, job, nextInfo, nextData, OpenRuns, Noted>>
       \/ \E n \in Name, s \in Source : Tables!Register(n, s)
       \/ \E i \in InfoId, s \in Source : Tables!Revise(i, s)
       \/ \E i \in InfoId, e \in Enabled : Tables!Switch(i, e) /\ requests' # requests
       \/ /\ At(p, "dropInfo") /\ tx[p].info \in InfoId /\ tx'[p].pc = "idle"
          /\ Tables!Deregister(tx[p].info)
       \/ \E i \in InfoId, d \in Date, s \in Source : Tables!Store(i, d, s)
       \/ \E r \in DataId, s \in Source : Tables!Overwrite(r, s)
       \/ \E r \in DataId : Tables!Drop(r)
       \/ Tables!Start(requests + 1)
       \/ \E j \in JobRow : Tables!Note(j)
       \/ /\ tx[p].pc \in Writing /\ tx[p].left = {} /\ job' = job \cup tx[p].jobs
          /\ Tables!Record(tx[p].exec)
       \/ Tables!Finish(tx[p].exec)

(* The open runs, and what they have noted, without those of one thread.   *)
RunsBut(p)  == UNION {RunOf(q) : q \in Proc \ {p}}
NotesBut(p) == UNION {NotesOf(q) : q \in Proc \ {p}}

LEMMA OthersRun ==
    ASSUME TypeOK, NEW p \in Proc, NEW t, Goto(p, t) \/ Begin(p, t)
    PROVE  /\ OpenRuns = RunsBut(p) \cup RunOf(p)
           /\ Noted = NotesBut(p) \cup NotesOf(p)
           /\ OpenRuns' = RunsBut(p) \cup IF t.pc \in Syncing THEN {t.exec} ELSE {}
           /\ Noted' = NotesBut(p) \cup IF t.pc \in Writing THEN t.jobs ELSE {}
<1>1. tx'[p] = t /\ \A q \in Proc \ {p} : tx'[q] = tx[q]
  BY DEF TypeOK, Goto, Begin
<1>2. OpenRuns = RunsBut(p) \cup RunOf(p) /\ Noted = NotesBut(p) \cup NotesOf(p)
  BY DEF OpenRuns, Noted, RunsBut, NotesBut
<1>3. \A q \in Proc \ {p} : RunOf(q)' = RunOf(q) /\ NotesOf(q)' = NotesOf(q)
  BY <1>1 DEF RunOf, NotesOf
<1>4. /\ RunOf(p)' = IF t.pc \in Syncing THEN {t.exec} ELSE {}
      /\ NotesOf(p)' = IF t.pc \in Writing THEN t.jobs ELSE {}
  BY <1>1 DEF RunOf, NotesOf
<1>5. OpenRuns' = RunsBut(p) \cup RunOf(p)'
  BY <1>3 DEF OpenRuns, RunsBut
<1>6. Noted' = NotesBut(p) \cup NotesOf(p)'
  BY <1>3 DEF Noted, NotesBut
<1>7. QED
  BY <1>2, <1>4, <1>5, <1>6

(* No other thread has the execution of an open sync.                      *)
LEMMA OthersDiffer ==
    ASSUME CInv, NEW p \in Proc
    PROVE  /\ \A e \in RunsBut(p) : e \in Nat /\ e <= requests
           /\ tx[p].pc \in Syncing =>
                 tx[p].exec \notin RunsBut(p) /\ \A j \in NotesBut(p) : j.exec # tx[p].exec
<1>1. ASSUME NEW e \in RunsBut(p)
      PROVE  \E q \in Proc \ {p} : tx[q].pc \in Syncing /\ e = tx[q].exec
  BY <1>1 DEF RunsBut, RunOf
<1>2. ASSUME NEW j \in NotesBut(p)
      PROVE  \E q \in Proc \ {p} : tx[q].pc \in Syncing /\ j.exec = tx[q].exec
  <2>1. PICK q \in Proc \ {p} : tx[q].pc \in Writing /\ j \in tx[q].jobs
    BY <1>2 DEF NotesBut, NotesOf
  <2>2. j.exec = tx[q].exec
    BY <2>1 DEF CInv, EntriesAhead, Ahead
  <2>3. QED
    BY <2>1, <2>2 DEF Writing, Syncing, InfoSync, DataSync
<1>3. \A q \in Proc : tx[q].pc \in Syncing => tx[q].exec \in Nat /\ tx[q].exec <= requests
  <2>1. \A q \in Proc : tx[q].pc \in Syncing => tx[q].exec \in Nat
    BY TxFields DEF CInv, IInv, TypeOK, Syncing
  <2>2. QED
    BY <2>1 DEF CInv, ExecutionsDiffer
<1>4. QED
  BY <1>1, <1>2, <1>3 DEF CInv, ExecutionsDiffer

(* A step that neither begins nor ends a run and notes nothing.            *)
LEMMA Aside ==
    ASSUME TypeOK, NEW p \in Proc, NEW t, Goto(p, t) \/ Begin(p, t),
           tx[p].pc \notin Writing, t.pc \in Writing => t.jobs = {},
           t.pc \in Syncing <=> tx[p].pc \in Syncing,
           t.pc \in Syncing => t.exec = tx[p].exec
    PROVE  UNCHANGED <<OpenRuns, Noted>>
<1>1. RunOf(p) = IF t.pc \in Syncing THEN {t.exec} ELSE {}
  BY DEF RunOf
<1>2. NotesOf(p) = {}
  BY DEF NotesOf
<1>3. Noted = NotesBut(p) /\ Noted' = NotesBut(p)
  BY <1>2, OthersRun
<1>4. OpenRuns' = OpenRuns
  BY <1>1, OthersRun
<1>5. QED
  BY <1>3, <1>4

LEMMA IdleAside ==
    ASSUME TypeOK, NEW p \in Proc, End(p), tx[p].pc \notin Syncing
    PROVE  UNCHANGED <<OpenRuns, Noted>>
BY IdleInTx, Aside DEF End, Syncing, InfoSync, DataSync, Writing

LEMMA NextCommandAside ==
    ASSUME TypeOK, NEW p \in Proc, NextCommand(p), tx[p].pc \in {"missing", "found"}
    PROVE  UNCHANGED <<OpenRuns, Noted>>
<1>1. PICK t : Goto(p, t) /\ t.pc = "syncData" /\ t.exec = tx[p].exec
  BY DEF NextCommand
<1>2. QED
  BY <1>1, Aside DEF Syncing, InfoSync, DataSync, Writing

(* A call that ends without a word: with it the run it was, if any.        *)
LEMMA EndCommit ==
    ASSUME CInv, NEW p \in Proc, End(p),
           UNCHANGED <<info, config, data, job, nextInfo, nextData, requests>>
    PROVE  Committed(p)
<1>0. TypeOK /\ Goto(p, Idle) /\ Idle.pc \notin Syncing \cup Writing
  BY IdleInTx DEF CInv, IInv, End, Syncing, InfoSync, DataSync, Writing
<1>1. CASE tx[p].pc \notin Syncing
  BY <1>0, <1>1, IdleAside DEF Committed
<1>2. CASE tx[p].pc \in Syncing
  <2>1. OpenRuns = RunsBut(p) \cup {tx[p].exec} /\ OpenRuns' = RunsBut(p)
    BY <1>0, <1>2, OthersRun DEF RunOf
  <2>2. Noted = NotesBut(p) \cup NotesOf(p) /\ Noted' = NotesBut(p)
    BY <1>0, OthersRun
  <2>3. \A j \in NotesOf(p) : j.exec = tx[p].exec
    BY DEF NotesOf, CInv, EntriesAhead, Ahead
  <2>4. Tables!Finish(tx[p].exec)
    BY <1>2, <2>1, <2>2, <2>3, OthersDiffer DEF Tables!Finish
  <2>5. QED
    BY <2>4 DEF Committed
<1>3. QED
  BY <1>1, <1>2

LEMMA RegisterCommit ==
    ASSUME IInv, NEW n \in Name, NEW s \in Source, Named(n) = {}, AddInfo(n, s),
           UNCHANGED <<data, job, nextData, OpenRuns, Noted>>
    PROVE  Tables!Register(n, s)
<1>1. nextInfo \in Nat /\ nextInfo > 0 /\ nextInfo' = nextInfo + 1 /\ nextInfo \in InfoId
  BY DEF IInv, TypeOK, AddInfo
<1>2. 1..(nextInfo' - 1) = (1..(nextInfo - 1)) \cup {nextInfo} /\ nextInfo \notin 1..(nextInfo - 1)
  BY <1>1
<1>3. \A i \in Tables!Live(info) : info[i].name # n
  BY DEF Tables!Live, IInv, TypeOK, Named, LiveInfo
<1>4. 1..(nextData' - 1) = 1..(nextData - 1)
  OBVIOUS
<1>5. QED
  BY <1>1, <1>2, <1>3, <1>4 DEF Tables!Register, AddInfo

LEMMA ReviseCommit ==
    ASSUME IInv, NEW i \in LiveInfo, NEW s \in Source, info[i].source = "USER" => s = "USER",
           info' = [info EXCEPT ![i].figures = s],
           UNCHANGED <<config, data, job, nextInfo, nextData, OpenRuns, Noted>>
    PROVE  Tables!Revise(i, s)
BY DEF Tables!Revise, Tables!Live, LiveInfo, IInv, TypeOK

LEMMA StoreCommit ==
    ASSUME IInv, NEW k \in Key, NEW s \in Source, Insertable(k), AddData(k, s),
           UNCHANGED <<info, config, job, nextInfo, OpenRuns, Noted>>
    PROVE  Tables!Store(k[1], k[2], s)
<1>1. nextData \in Nat /\ nextData > 0 /\ nextData' = nextData + 1 /\ nextData \in DataId
  BY DEF IInv, TypeOK, AddData
<1>2. 1..(nextData' - 1) = (1..(nextData - 1)) \cup {nextData} /\ nextData \notin 1..(nextData - 1)
  BY <1>1
<1>3. k[1] \in Tables!Live(info) /\ Tables!RowsAt(k[1], k[2]) = {}
  BY DEF Tables!Live, Tables!RowsAt, IInv, TypeOK, RowsAt, LiveInfo, LiveData, Insertable
<1>4. 1..(nextInfo' - 1) = 1..(nextInfo - 1)
  OBVIOUS
<1>5. QED
  BY <1>1, <1>2, <1>3, <1>4 DEF Tables!Store, AddData

LEMMA OverwriteCommit ==
    ASSUME IInv, NEW r \in LiveData, NEW s \in Source,
           data' = [data EXCEPT ![r].type = s],
           UNCHANGED <<info, config, job, nextInfo, nextData, OpenRuns, Noted>>
    PROVE  Tables!Overwrite(r, s)
BY DEF Tables!Overwrite, Tables!Live, LiveData, IInv, TypeOK

LEMMA CreateInfoInsertCommit ==
    ASSUME CInv, NEW p \in Proc, CreateInfoInsert(p)
    PROVE  Committed(p)
<1>1. tx[p].name \in Name
  BY TxFields DEF CInv, IInv, TypeOK, CreateInfoInsert, At
<1>2. UNCHANGED <<OpenRuns, Noted>>
  BY IdleAside DEF CInv, IInv, CreateInfoInsert, At, Syncing, InfoSync, DataSync
<1>3. QED
  BY <1>1, <1>2, RegisterCommit DEF CInv, CreateInfoInsert, Committed

LEMMA UpdateInfoFlushCommit ==
    ASSUME CInv, NEW p \in Proc, UpdateInfoFlush(p)
    PROVE  Committed(p)
<1> DEFINE i == tx[p].info  copy == tx[p].copy
<1>1. i \in InfoId /\ copy \in InfoRow
  BY TxFields DEF CInv, IInv, TypeOK, UpdateInfoFlush, At
<1>0. UNCHANGED <<OpenRuns, Noted>>
  BY IdleAside DEF CInv, IInv, UpdateInfoFlush, At, Syncing, InfoSync, DataSync
<1>2. CASE i \in LiveInfo
  <2>1. copy.name = info[i].name /\ copy.source = info[i].source
    BY <1>2 DEF CInv, IInv, CopyOfSameRow, UpdateInfoFlush
  <2>2. copy.source = "USER" => copy.figures = "USER"
    BY DEF CInv, IInv, CopyOfSameRow, UpdateInfoFlush
  <2>3. info[i] \in InfoRow
    BY <1>1, <1>2 DEF CInv, IInv, TypeOK, LiveInfo
  <2>4. copy = [info[i] EXCEPT !.figures = copy.figures] /\ copy.figures \in Source
    BY <1>1, <2>1, <2>3 DEF InfoRow
  <2>5. info' = [info EXCEPT ![i].figures = copy.figures]
    BY <1>2, <2>4 DEF UpdateInfoFlush
  <2>6. Tables!Revise(i, copy.figures)
    BY <1>0, <1>2, <2>1, <2>2, <2>4, <2>5, ReviseCommit DEF CInv, UpdateInfoFlush
  <2>7. QED
    BY <1>1, <2>4, <2>6 DEF Committed, UpdateInfoFlush
<1>3. CASE i \notin LiveInfo
  BY <1>0, <1>3 DEF UpdateInfoFlush, Committed
<1>4. QED
  BY <1>2, <1>3

LEMMA SyncInfoCommitCommit ==
    ASSUME CInv, NEW p \in Proc, SyncInfoCommit(p)
    PROVE  Committed(p)
<1> DEFINE i == tx[p].info  n == Strip[tx[p].name]
<1>1. i \in InfoId \cup {NoInfo} /\ n \in Name
  BY TxFields, StripAssumption DEF CInv, IInv, TypeOK, SyncInfoCommit, At
<1>2. Named(n) = IF i = NoInfo THEN {} ELSE {i}
  BY DEF CInv, IInv, UpsertedInfoStays, SyncInfoCommit
<1>0. UNCHANGED <<OpenRuns, Noted>>
  <2>1. PICK t : Goto(p, t) /\ t.pc = "syncInfos" /\ t.exec = tx[p].exec
    BY DEF SyncInfoCommit
  <2>2. TypeOK /\ tx[p].pc = "upserted"
    BY DEF CInv, IInv, SyncInfoCommit, At
  <2>3. QED
    BY <2>1, <2>2, Aside DEF Syncing, InfoSync, DataSync, Writing
<1>3. CASE i = NoInfo
  <2>1. Tables!Register(n, "OPEN_API")
    BY <1>0, <1>1, <1>2, <1>3, RegisterCommit DEF SyncInfoCommit, CInv
  <2>2. QED
    BY <1>1, <2>1 DEF Committed, SyncInfoCommit
<1>4. CASE i # NoInfo
  <2>1. i \in LiveInfo /\ config[i] # NoRow
    BY <1>1, <1>2, <1>4 DEF Named, LiveInfo, CInv, IInv, ConfigIffInfo
  <2>2. RefreshInfo(i) /\ UNCHANGED <<config, data, job, nextInfo, nextData, requests>>
    BY <1>4, <2>1 DEF SyncInfoCommit, CreateIfAbsent
  <2>3. CASE info[i].source = "OPEN_API"
    <3>1. Tables!Revise(i, "OPEN_API")
      BY <1>0, <2>1, <2>2, <2>3, ReviseCommit DEF RefreshInfo, CInv
    <3>2. QED
      BY <1>1, <1>4, <2>2, <3>1 DEF Committed
  <2>4. CASE info[i].source # "OPEN_API"
    BY <1>0, <2>2, <2>4 DEF RefreshInfo, Committed
  <2>5. QED
    BY <2>3, <2>4
<1>5. QED
  BY <1>3, <1>4

LEMMA DeleteInfoCommitCommit ==
    ASSUME CInv, NEW p \in Proc, DeleteInfoCommit(p)
    PROVE  Committed(p)
<1> DEFINE i == tx[p].info  victims == tx[p].victims
<1>1. i \in InfoId /\ victims \subseteq DataId /\ At(p, "dropInfo") /\ tx[p].pc \in Deleting
  BY TxFields DEF CInv, IInv, TypeOK, DeleteInfoCommit, At, Deleting
<1>0. UNCHANGED <<OpenRuns, Noted>>
  BY <1>1, IdleAside DEF CInv, IInv, DeleteInfoCommit, At, Syncing, InfoSync, DataSync
<1>2. CASE RowsOf(i) \subseteq victims
  <2>0. \A j \in Noted : j.info # i
    <3>1. \A q \in Proc : q # p /\ tx[q].pc \in Writing => \A j \in tx[q].jobs : j.info # i
      BY DEF DeleteInfoCommit, InfoShared
    <3>2. tx[p].pc \notin Writing
      BY <1>1 DEF At, Writing
    <3>3. QED
      BY <3>1, <3>2 DEF Noted, NotesOf
  <2>1. i \in LiveInfo
    BY <1>1 DEF CInv, DropsAlone
  <2>2. \A r \in DataId : r \in victims => data[r] = NoRow \/ data[r].info = i
    BY <1>1 DEF CInv, VictimsOfInfo
  <2>3. data' = [r \in DataId |-> IF r \in victims THEN NoRow ELSE data[r]]
    BY <1>2 DEF DeleteInfoCommit
  <2>4. Tables!Live(data) = LiveData /\ Tables!Live(info) = LiveInfo
    BY DEF Tables!Live, LiveData, LiveInfo, CInv, IInv, TypeOK
  <2>5. data' = [r \in DataId |-> IF r \in LiveData /\ data[r].info = i THEN NoRow ELSE data[r]]
    BY <1>2, <2>2, <2>3 DEF RowsOf, LiveData
  <2>6. Tables!Deregister(i)
    BY <1>0, <1>2, <2>0, <2>1, <2>4, <2>5 DEF Tables!Deregister, DeleteInfoCommit, DetachJobs
  <2>7. tx'[p].pc = "idle"
    BY IdleInTx DEF DeleteInfoCommit, End, Goto, CInv, IInv, TypeOK
  <2>8. QED
    BY <1>1, <2>6, <2>7 DEF Committed, DeleteInfoCommit
<1>3. CASE ~(RowsOf(i) \subseteq victims)
  BY <1>0, <1>3 DEF DeleteInfoCommit, Committed
<1>4. QED
  BY <1>2, <1>3

LEMMA DataCommit ==
    ASSUME CInv, NEW p \in Proc,
           CreateIndexDataInsert(p) \/ SyncDataInsert(p) \/ SyncDataUpdate(p)
    PROVE  Committed(p)
<1>0. TypeOK
  BY DEF CInv, IInv
<1>1. CASE CreateIndexDataInsert(p)
  <2> DEFINE k == <<tx[p].info, tx[p].date>>
  <2>1. k \in Key
    BY <1>1, TxFields DEF CInv, IInv, TypeOK, CreateIndexDataInsert, At
  <2>2. UNCHANGED <<OpenRuns, Noted>>
    BY <1>0, <1>1, IdleAside DEF CreateIndexDataInsert, At, Syncing, InfoSync, DataSync
  <2>3. CASE Insertable(k)
    <3>1. Tables!Store(k[1], k[2], "USER")
      BY <1>1, <2>1, <2>2, <2>3, StoreCommit DEF CInv, CreateIndexDataInsert
    <3>2. QED
      BY <1>1, <2>1, <3>1 DEF Committed, CreateIndexDataInsert
  <2>4. QED
    BY <1>1, <2>2, <2>3 DEF Committed, CreateIndexDataInsert
<1>2. CASE SyncDataInsert(p)
  <2> DEFINE k == tx[p].key
  <2>1. k \in Key
    BY <1>2, TxFields DEF CInv, IInv, TypeOK, SyncDataInsert, At
  <2>2. CASE Insertable(k)
    <3>1. UNCHANGED <<OpenRuns, Noted>>
      BY <1>0, <1>2, <2>2, NextCommandAside DEF SyncDataInsert, At
    <3>2. Tables!Store(k[1], k[2], "OPEN_API")
      BY <1>2, <2>1, <2>2, <3>1, StoreCommit DEF CInv, SyncDataInsert
    <3>3. QED
      BY <1>2, <2>1, <3>2 DEF Committed, SyncDataInsert
  <2>3. QED
    BY <1>2, <2>2, EndCommit DEF SyncDataInsert
<1>3. CASE SyncDataUpdate(p)
  <2>1. CASE tx[p].row \in LiveData
    <3>1. UNCHANGED <<OpenRuns, Noted>>
      BY <1>0, <1>3, <2>1, NextCommandAside DEF SyncDataUpdate, At
    <3>2. Tables!Overwrite(tx[p].row, "OPEN_API") /\ tx[p].row \in DataId
      BY <1>3, <2>1, <3>1, OverwriteCommit DEF CInv, SyncDataUpdate, LiveData
    <3>3. QED
      BY <1>3, <3>2 DEF Committed, SyncDataUpdate
  <2>2. QED
    BY <1>3, <2>1, EndCommit DEF SyncDataUpdate
<1>4. QED
  BY <1>1, <1>2, <1>3

LEMMA UserWriteCommit ==
    ASSUME CInv, NEW p \in Proc
    PROVE  /\ \A i \in InfoId, e \in Enabled : UpdateConfig(p, i, e) => Committed(p)
           /\ \A r \in DataId : UpdateIndexData(p, r) \/ DeleteIndexData(p, r) => Committed(p)
<1>1. Tables!Live(data) = LiveData /\ requests \in Nat
      /\ \A i \in InfoId : config[i] # NoRow => i \in Tables!Live(config)
  BY BoundAssumption DEF Tables!Live, LiveData, CInv, IInv, TypeOK
<1>0. UNCHANGED tx => UNCHANGED <<OpenRuns, Noted>>
  BY DEF OpenRuns, Noted, RunOf, NotesOf
<1>2. ASSUME NEW i \in InfoId, NEW e \in Enabled, UpdateConfig(p, i, e) PROVE Committed(p)
  <2>1. Tables!Switch(i, e) /\ requests' = requests + 1
    BY <1>0, <1>1, <1>2 DEF UpdateConfig, Tables!Switch
  <2>2. QED
    BY <1>1, <2>1 DEF Committed
<1>3. ASSUME NEW r \in DataId, UpdateIndexData(p, r) PROVE Committed(p)
  <2>1. Tables!Overwrite(r, "USER") /\ requests' = requests + 1
    BY <1>0, <1>3, OverwriteCommit DEF UpdateIndexData, CInv
  <2>2. QED
    BY <2>1 DEF Committed
<1>4. ASSUME NEW r \in DataId, DeleteIndexData(p, r) PROVE Committed(p)
  <2>1. Tables!Drop(r) /\ requests' = requests + 1
    BY <1>0, <1>1, <1>4 DEF DeleteIndexData, Tables!Drop
  <2>2. QED
    BY <2>1 DEF Committed
<1>5. QED
  BY <1>2, <1>3, <1>4

LEMMA TablesLive ==
    ASSUME IInv
    PROVE  /\ Tables!Live(data) = LiveData /\ Tables!Live(info) = LiveInfo
           /\ \A i, d : Tables!RowsAt(i, d) = RowsAt(<<i, d>>)
<1>1. Tables!Live(data) = LiveData /\ Tables!Live(info) = LiveInfo
  BY DEF Tables!Live, LiveData, LiveInfo, IInv, TypeOK
<1>2. QED
  BY <1>1 DEF Tables!RowsAt, RowsAt

(* A run begins, with an execution that nobody has seen.                   *)
LEMMA StartCommit ==
    ASSUME CInv, NEW p \in Proc, NEW t, Begin(p, t), t.pc \in {"syncInfos", "syncData"},
           t.exec = requests + 1,
           UNCHANGED <<info, config, data, job, nextInfo, nextData>>
    PROVE  Committed(p)
<1>1. TypeOK /\ requests \in Nat /\ requests' = requests + 1
  BY BoundAssumption DEF CInv, IInv, TypeOK, Begin
<1>2. tx[p].pc = "idle" /\ t.pc \in Syncing /\ t.pc \notin Writing
  BY IdleInTx DEF Begin, Syncing, InfoSync, DataSync, Writing
<1>3. RunOf(p) = {} /\ NotesOf(p) = {}
  BY <1>2 DEF RunOf, NotesOf, Syncing, InfoSync, DataSync, Writing
<1>4. OpenRuns' = OpenRuns \cup {requests + 1} /\ Noted' = Noted /\ OpenRuns = RunsBut(p)
  BY <1>1, <1>2, <1>3, OthersRun
<1>5. requests + 1 \notin OpenRuns
  BY <1>1, <1>4, OthersDiffer
<1>6. \A j \in job : j.exec # requests + 1
  <2>1. \A j \in job : j.exec \in Nat /\ j.exec <= requests
    BY DEF CInv, IInv, TypeOK, JobRow, ExecutionsDiffer
  <2>2. QED
    BY <1>1, <2>1
<1>7. Tables!Start(requests + 1)
  BY <1>4, <1>5, <1>6 DEF Tables!Start
<1>8. QED
  BY <1>1, <1>7 DEF Committed

(* An entry is noted that is true of the tables.                           *)
LEMMA NoteCommit ==
    ASSUME CInv, NEW p \in Proc, tx[p].pc \in Writing, NEW j \in JobRow,
           NEW t, Goto(p, t), t.pc \in Writing, t.exec = tx[p].exec,
           t.jobs = tx[p].jobs \cup {j}, j.exec = tx[p].exec, Tables!Tells(j),
           UNCHANGED <<info, config, data, job, nextInfo, nextData, requests>>
    PROVE  Committed(p)
<1>1. TypeOK /\ tx[p].pc \in Syncing /\ t.pc \in Syncing
  BY DEF CInv, IInv, Syncing, InfoSync, DataSync, Writing
<1>0. RunOf(p) = {tx[p].exec} /\ NotesOf(p) = tx[p].jobs
  BY <1>1 DEF RunOf, NotesOf
<1>2. /\ OpenRuns = RunsBut(p) \cup {tx[p].exec} /\ OpenRuns' = OpenRuns
      /\ Noted = NotesBut(p) \cup tx[p].jobs /\ Noted' = NotesBut(p) \cup t.jobs
  BY <1>0, <1>1, OthersRun
<1>3. Noted' = Noted \cup {j} /\ j.exec \in OpenRuns
  BY <1>2
<1>4. Tables!Note(j)
  BY <1>2, <1>3 DEF Tables!Note
<1>5. QED
  BY <1>4 DEF Committed

LEMMA WriteInfoJobCommit ==
    ASSUME CInv, NEW p \in Proc, WriteInfoJob(p)
    PROVE  Committed(p)
<1>1. /\ tx[p].pc = "infoJobs" /\ tx[p].exec \in Nat /\ tx[p].left \subseteq RawName
      /\ UNCHANGED <<info, config, data, job, nextInfo, nextData, requests>>
  BY TxFields DEF CInv, IInv, TypeOK, WriteInfoJob, At, InfoSync
<1>2. PICK n \in tx[p].left :
         Goto(p, [pc |-> "infoJobs", exec |-> tx[p].exec, batch |-> tx[p].batch,
                  left |-> tx[p].left \ {n},
                  jobs |-> tx[p].jobs \cup {InfoJob(tx[p].exec, n)}])
  BY DEF WriteInfoJob
<1> DEFINE j == InfoJob(tx[p].exec, n)
<1>3. j \in JobRow /\ j.exec = tx[p].exec /\ j.date = NoDate
  BY <1>1, <1>2, InfoJobFits DEF InfoJob
<1>4. Tables!Tells(j)
  <2>1. Named(n) # {} => (CHOOSE i \in Named(n) : TRUE) \in Named(n)
    OBVIOUS
  <2>2. j.result = "SUCCESS" => j.info \in Named(n) /\ j.name = n
    BY <2>1 DEF InfoJob
  <2>3. j.result # "SUCCESS" => j.info = NoInfo
    BY DEF InfoJob
  <2>4. QED
    BY <1>3, <2>2, <2>3, TablesLive DEF Tables!Tells, Named, CInv
<1>5. PICK t : /\ Goto(p, t) /\ t.pc = "infoJobs" /\ t.exec = tx[p].exec
               /\ t.jobs = tx[p].jobs \cup {j}
  BY <1>2
<1> HIDE DEF j
<1>6. QED
  BY <1>1, <1>3, <1>4, <1>5, NoteCommit DEF Writing

LEMMA WriteDataJobCommit ==
    ASSUME CInv, NEW p \in Proc, WriteDataJob(p)
    PROVE  Committed(p)
<1>1. /\ tx[p].pc = "dataJobs" /\ tx[p].exec \in Nat /\ tx[p].left \subseteq Key
      /\ UNCHANGED <<info, config, data, job, nextInfo, nextData, requests>>
  BY TxFields DEF CInv, IInv, TypeOK, WriteDataJob, At, DataSync
<1>2. CASE End(p)
  BY <1>1, <1>2, EndCommit
<1>3. CASE ~End(p)
  <2>1. PICK k \in tx[p].left :
           /\ k[1] \in LiveInfo
           /\ Goto(p, [pc |-> "dataJobs", exec |-> tx[p].exec, later |-> tx[p].later,
                       batch |-> tx[p].batch, left |-> tx[p].left \ {k},
                       jobs |-> tx[p].jobs \cup {DataJob(tx[p].exec, k)}])
    BY <1>3 DEF WriteDataJob
  <2> DEFINE j == DataJob(tx[p].exec, k)
  <2>2. /\ j \in JobRow /\ j.exec = tx[p].exec /\ j.info = k[1] /\ j.date = k[2]
        /\ j.result = "SUCCESS" <=> RowsAt(k) # {}
    BY <1>1, <2>1, DataJobFits DEF DataJob, CInv
  <2>3. k = <<j.info, j.date>> /\ j.date # NoDate
    BY <1>1, <2>1, <2>2, NullAssumption
  <2>4. Tables!Tells(j)
    BY <2>1, <2>2, <2>3, TablesLive DEF Tables!Tells, CInv
  <2>5. PICK t : /\ Goto(p, t) /\ t.pc = "dataJobs" /\ t.exec = tx[p].exec
                 /\ t.jobs = tx[p].jobs \cup {j}
    BY <2>1
  <2> HIDE DEF j
  <2>6. QED
    BY <1>1, <2>2, <2>4, <2>5, NoteCommit DEF Writing
<1>4. QED
  BY <1>2, <1>3

(* The entries of a batch are recorded.                                    *)
LEMMA RecordCommit ==
    ASSUME CInv, NEW p \in Proc, CommitInfoJobs(p) \/ CommitDataJobs(p)
    PROVE  Committed(p)
<1>1. /\ tx[p].pc \in Writing /\ tx[p].left = {} /\ job' = job \cup tx[p].jobs
      /\ UNCHANGED <<info, config, data, nextInfo, nextData, requests>>
  BY DEF CommitInfoJobs, CommitDataJobs, At, Writing
<1>2. TypeOK /\ tx[p].pc \in Syncing
  BY <1>1 DEF CInv, IInv, Syncing, InfoSync, DataSync, Writing
<1>3. PICK t : /\ Goto(p, t) /\ t.pc \notin Writing
               /\ t.pc \in Syncing => t.exec = tx[p].exec
  <2>1. CASE End(p)
    BY <2>1, IdleInTx DEF End, Syncing, InfoSync, DataSync, Writing
  <2>2. CASE ~End(p)
    BY <2>2 DEF CommitInfoJobs, CommitDataJobs, Writing
  <2>3. QED
    BY <2>1, <2>2
<1>0. RunOf(p) = {tx[p].exec} /\ NotesOf(p) = tx[p].jobs
  BY <1>1, <1>2 DEF RunOf, NotesOf
<1>4. /\ OpenRuns = RunsBut(p) \cup {tx[p].exec}
      /\ OpenRuns' = OpenRuns \/ OpenRuns' = RunsBut(p)
      /\ Noted = NotesBut(p) \cup tx[p].jobs /\ Noted' = NotesBut(p)
  <2>1. /\ OpenRuns = RunsBut(p) \cup {tx[p].exec}
        /\ Noted = NotesBut(p) \cup tx[p].jobs /\ Noted' = NotesBut(p)
    BY <1>0, <1>2, <1>3, OthersRun
  <2>2. CASE t.pc \in Syncing
    BY <1>0, <1>2, <1>3, <2>2, OthersRun
  <2>3. CASE t.pc \notin Syncing
    BY <1>2, <1>3, <2>3, OthersRun
  <2>4. QED
    BY <2>1, <2>2, <2>3
<1>5. /\ \A j \in tx[p].jobs : j.exec = tx[p].exec /\ j.info \in LiveInfo \cup {NoInfo}
      /\ \A j \in NotesBut(p) : j.exec # tx[p].exec
      /\ tx[p].exec \notin RunsBut(p)
  BY <1>1, <1>2, OthersDiffer DEF CInv, IInv, NotedInfoStays, EntriesAhead, Ahead
<1>6. {j \in Noted : j.exec = tx[p].exec} = tx[p].jobs /\ Noted' = Noted \ tx[p].jobs
  BY <1>4, <1>5
<1>7. OpenRuns' = OpenRuns \/ OpenRuns' = OpenRuns \ {tx[p].exec}
  BY <1>4, <1>5
<1>8. Tables!Live(info) = LiveInfo
  BY TablesLive DEF CInv
<1>9. Tables!Record(tx[p].exec)
  BY <1>1, <1>4, <1>5, <1>6, <1>7, <1>8 DEF Tables!Record
<1>10. QED
  BY <1>1, <1>9 DEF Committed

LEMMA RequestCommit ==
    ASSUME CInv, NEW p \in Proc, Request(p)
    PROVE  Committed(p)
<1>1. requests \in Nat /\ TypeOK
  BY BoundAssumption DEF CInv, IInv, TypeOK
<1>2. ASSUME NEW t, Begin(p, t), t.pc \notin Syncing \cup Writing,
             UNCHANGED <<info, config, data, job, nextInfo, nextData>>
      PROVE  Committed(p)
  <2>1. tx[p].pc \notin Syncing \cup Writing /\ requests' = requests + 1
    BY <1>2, IdleInTx DEF Begin, Syncing, InfoSync, DataSync, Writing
  <2>2. UNCHANGED <<OpenRuns, Noted>>
    BY <1>1, <1>2, <2>1, Aside
  <2>3. QED
    BY <1>2, <2>1, <2>2 DEF Committed
<1> USE DEF Syncing, InfoSync, DataSync, Writing
<1>3. ASSUME NEW raw \in RawName, CreateInfoBegin(p, raw) PROVE Committed(p)
  BY <1>2, <1>3 DEF CreateInfoBegin
<1>4. ASSUME NEW i \in InfoId, UpdateInfoBegin(p, i) PROVE Committed(p)
  BY <1>2, <1>4 DEF UpdateInfoBegin
<1>5. ASSUME NEW i \in InfoId, DeleteInfoBegin(p, i) PROVE Committed(p)
  BY <1>2, <1>5 DEF DeleteInfoBegin
<1>6. ASSUME NEW i \in InfoId, NEW d \in Date, CreateIndexDataBegin(p, i, d)
      PROVE  Committed(p)
  BY <1>2, <1>6 DEF CreateIndexDataBegin
<1>7. ASSUME NEW batch, SyncInfosBegin(p, batch) PROVE Committed(p)
  <2>1. PICK t : Begin(p, t) /\ t.pc = "syncInfos" /\ t.exec = requests + 1
    BY <1>7 DEF SyncInfosBegin
  <2>2. QED
    BY <1>7, <2>1, StartCommit DEF SyncInfosBegin
<1>8. ASSUME NEW batch, NEW later, SyncDataBegin(p, batch, later) PROVE Committed(p)
  <2>1. PICK t : Begin(p, t) /\ t.pc = "syncData" /\ t.exec = requests + 1
    BY <1>8 DEF SyncDataBegin
  <2>2. QED
    BY <1>8, <2>1, StartCommit DEF SyncDataBegin
<1>9. QED
  BY <1>3, <1>4, <1>5, <1>6, <1>7, <1>8, UserWriteCommit DEF Request

(* The steps that change neither a table nor the history of a run.         *)
LEMMA MoveCommit ==
    ASSUME CInv, NEW p \in Proc,
           \/ DeleteInfoRows(p) \/ DeleteInfoLoad(p) \/ DeleteInfoFlush(p)
           \/ UpsertInfo(p) \/ SaveInfoJobs(p)
           \/ SyncDataRead(p) \/ SaveDataJobs(p) \/ NextBatch(p)
    PROVE  Committed(p)
<1>1. TypeOK /\ tx[p] \in Tx
  BY DEF CInv, IInv, TypeOK
<1>2. UNCHANGED <<info, config, data, job, nextInfo, nextData, requests>>
  BY DEF DeleteInfoRows, DeleteInfoLoad, DeleteInfoFlush, UpsertInfo, SaveInfoJobs,
         SyncDataRead, SaveDataJobs, NextBatch
<1> DEFINE moves(t) == /\ tx[p].pc \notin Writing
                       /\ t.pc \in Writing => t.jobs = {}
                       /\ t.pc \in Syncing <=> tx[p].pc \in Syncing
                       /\ t.pc \in Syncing => t.exec = tx[p].exec
<1>3. End(p) \/ \E t : Goto(p, t) /\ moves(t)
  <2> USE DEF Syncing, InfoSync, DataSync, Writing, At
  <2>1. CASE DeleteInfoRows(p) \/ DeleteInfoLoad(p) \/ DeleteInfoFlush(p)
    <3>1. tx[p] \in [pc : {"dropRows"} \cup Deleting, info : InfoId, victims : SUBSET DataId]
      BY <1>1, <2>1 DEF DeleteInfoRows, DeleteInfoLoad, DeleteInfoFlush, Tx, Idle, Deleting
    <3> DEFINE a == [tx[p] EXCEPT !.pc = "dropLoad", !.victims = RowsOf(tx[p].info)]
               b == [tx[p] EXCEPT !.pc = "dropFlush"]
               c == [tx[p] EXCEPT !.pc = "dropInfo"]
    <3>2. a.pc = "dropLoad" /\ b.pc = "dropFlush" /\ c.pc = "dropInfo"
          /\ tx[p].pc \in {"dropRows"} \cup Deleting
      BY <3>1
    <3>3. moves(a) /\ moves(b) /\ moves(c)
      BY <3>2 DEF Deleting
    <3>4. End(p) \/ Goto(p, a) \/ Goto(p, b) \/ Goto(p, c)
      BY <2>1 DEF DeleteInfoRows, DeleteInfoLoad, DeleteInfoFlush
    <3> HIDE DEF a, b, c, moves
    <3>5. QED
      BY <3>3, <3>4
  <2>2. CASE UpsertInfo(p)
    BY <2>2 DEF UpsertInfo
  <2>3. CASE SaveInfoJobs(p)
    BY <2>3 DEF SaveInfoJobs
  <2>4. CASE SyncDataRead(p)
    BY <1>1, <2>4, ReadMove
  <2>5. CASE SaveDataJobs(p)
    BY <2>5 DEF SaveDataJobs
  <2>6. CASE NextBatch(p)
    <3>1. tx[p].pc = "fetching"
      BY <2>6 DEF NextBatch
    <3>2. QED
      BY <2>6, <3>1, BatchMove
  <2>7. QED
    BY <2>1, <2>2, <2>3, <2>4, <2>5, <2>6
<1>4. CASE End(p)
  BY <1>2, <1>4, EndCommit
<1>5. ASSUME NEW t, Goto(p, t), moves(t) PROVE Committed(p)
  <2>1. UNCHANGED <<OpenRuns, Noted>>
    BY <1>1, <1>5, Aside
  <2>2. QED
    BY <1>2, <2>1 DEF Committed
<1>6. QED
  BY <1>3, <1>4, <1>5

LEMMA StepCommit ==
    ASSUME CInv, NEW p \in Proc, Step(p) \/ Abort(p)
    PROVE  Committed(p)
BY CreateInfoInsertCommit, UpdateInfoFlushCommit, SyncInfoCommitCommit,
   DeleteInfoCommitCommit, DataCommit, WriteInfoJobCommit, WriteDataJobCommit,
   RecordCommit, MoveCommit, EndCommit
   DEF Step, Abort, DeadlockVictim

-----------------------------------------------------------------------------
(* Rows that no operation brings back or moves.                            *)
Steady ==
    /\ nextData' \in Nat /\ nextData' >= nextData
    /\ \A r \in DataId : r < nextData /\ data'[r] # NoRow =>
          data[r] # NoRow /\ data'[r].info = data[r].info

LEMMA Longer ==
    ASSUME NEW a \in Nat, NEW b \in Nat, a >= 1, b >= 1, 1..(a - 1) \subseteq 1..(b - 1)
    PROVE  b >= a
<1>1. CASE a > 1
  <2>1. a - 1 \in 1..(b - 1)
    BY <1>1
  <2>2. QED
    BY <2>1
<1>2. QED
  BY <1>1

LEMMA DataSteady ==
    ASSUME CInv, IInv', NEW p \in Proc, Committed(p)
    PROVE  Steady
<1> DEFINE spent == 1..(nextData - 1)
<1>1. /\ nextData \in Nat /\ nextData >= 1 /\ nextData' \in Nat /\ nextData' >= 1
      /\ data \in [DataId -> DataRow \cup {NoRow}]
      /\ Tables!Live(data) = LiveData
  BY BoundAssumption DEF CInv, IInv, TypeOK, Tables!Live, LiveData
<1>2. /\ spent \subseteq spent'
      /\ \A r \in DataId : r \in spent /\ data'[r] # NoRow =>
            data[r] # NoRow /\ data'[r].info = data[r].info
  <2>1. CASE UNCHANGED <<data, nextData>>
    BY <2>1
  <2>2. CASE data' = data /\ spent' = spent
    BY <2>2
  <2>3. ASSUME NEW i \in InfoId, Tables!Deregister(i) PROVE <1>2!:
    BY <1>1, <2>3 DEF Tables!Deregister
  <2>4. ASSUME NEW i \in InfoId, NEW d \in Date, NEW s \in Source, Tables!Store(i, d, s)
        PROVE <1>2!:
    <3>1. PICK r \in DataId \ spent :
             /\ data' = [data EXCEPT ![r] = [info |-> i, date |-> d, type |-> s]]
             /\ spent' = spent \cup {r}
      BY <2>4 DEF Tables!Store
    <3>2. QED
      BY <1>1, <3>1
  <2>5. ASSUME NEW r \in DataId, NEW s \in Source, Tables!Overwrite(r, s) PROVE <1>2!:
    <3>1. r \in LiveData /\ data' = [data EXCEPT ![r].type = s] /\ spent' = spent
      BY <1>1, <2>5 DEF Tables!Overwrite
    <3>2. data[r] \in DataRow
      BY <1>1, <3>1 DEF LiveData
    <3>3. QED
      BY <1>1, <3>1, <3>2 DEF LiveData, DataRow
  <2>6. ASSUME NEW r \in DataId, Tables!Drop(r) PROVE <1>2!:
    BY <1>1, <2>6 DEF Tables!Drop
  <2>7. QED
    BY <2>1, <2>2, <2>3, <2>4, <2>5, <2>6
       DEF Committed, Tables!Register, Tables!Revise, Tables!Switch, Tables!Record,
           Tables!Start, Tables!Note, Tables!Finish
<1>3. nextData' >= nextData
  BY <1>1, <1>2, Longer
<1>4. \A r \in DataId : r < nextData => r \in spent
  BY <1>1
<1>5. QED
  BY <1>1, <1>2, <1>3, <1>4 DEF Steady

-----------------------------------------------------------------------------
(* The additional conjuncts are inductive.                                 *)

LEMMA CInvInit == Init => CInv
<1> SUFFICES ASSUME Init PROVE CInv
  OBVIOUS
<1>1. \A p \in Proc : tx[p].pc = "idle"
  BY IdleInTx DEF Init
<1>2. VictimsOfInfo /\ DropsAlone /\ ExecutionsDiffer
  BY <1>1 DEF Init, VictimsOfInfo, DropsAlone, ExecutionsDiffer, At, Deleting, Syncing,
     InfoSync, DataSync
<1>3. EntriesAhead
  BY <1>1 DEF EntriesAhead, Ahead, InfoSync, DataSync, Writing
<1>4. QED
  BY <1>2, <1>3, InitInv DEF CInv

LEMMA VictimsNext ==
    ASSUME CInv, Steady, NEW p \in Proc, Effect(p) \/ UNCHANGED tx
    PROVE  VictimsOfInfo'
<1> SUFFICES ASSUME NEW q \in Proc, tx'[q].pc \in Deleting, NEW r \in tx'[q].victims
             PROVE  r < nextData' /\ (data'[r] # NoRow => data'[r].info = tx'[q].info)
  BY DEF VictimsOfInfo, Deleting
<1>1. nextData \in Nat /\ nextData' \in Nat /\ nextData' >= nextData
  BY BoundAssumption DEF CInv, IInv, TypeOK, Steady
<1>2. CASE tx'[q] = tx[q]
  <2>1. r < nextData /\ (data[r] # NoRow => data[r].info = tx[q].info)
    BY <1>2 DEF CInv, VictimsOfInfo
  <2>2. tx[q] \in Tx
    BY DEF CInv, IInv, TypeOK
  <2>3. r \in DataId
    BY <1>2, <2>2, TxFields
  <2>4. r < nextData'
    BY <1>1, <2>1, <2>3
  <2>5. QED
    BY <1>2, <2>1, <2>3, <2>4 DEF Steady
<1>3. CASE Effect(p) /\ q = p
  <2>1. tx'[p].info = tx[p].info /\ UNCHANGED <<data, nextData>>
    BY <1>3 DEF Effect
  <2>2. CASE tx[p].pc \in Deleting /\ tx'[p].victims = tx[p].victims
    BY <1>3, <2>1, <2>2 DEF CInv, VictimsOfInfo
  <2>3. CASE tx'[p].victims = RowsOf(tx[p].info)
    <3>1. r \in DataId /\ data[r] # NoRow /\ data[r].info = tx[p].info
      BY <1>3, <2>3 DEF RowsOf, LiveData
    <3>2. r < nextData
      BY <1>1, <3>1 DEF CInv, IInv, IdsUnused
    <3>3. QED
      BY <1>3, <2>1, <3>1, <3>2
  <2>4. QED
    BY <1>3, <2>2, <2>3 DEF Effect
<1>4. QED
  BY <1>2, <1>3 DEF Effect

LEMMA DropsNext ==
    ASSUME CInv, NEW p \in Proc, Effect(p) \/ UNCHANGED tx, Committed(p)
    PROVE  DropsAlone'
<1>1. \A q \in Proc : At(q, "dropInfo") => tx[q].info \in InfoId /\ tx[q].pc \in Deleting
  BY TxFields DEF CInv, IInv, TypeOK, At, Deleting
<1>2. \A i \in LiveInfo :
         i \in LiveInfo' \/ (At(p, "dropInfo") /\ tx'[p].pc = "idle" /\ i = tx[p].info)
  <2> SUFFICES ASSUME NEW i \in LiveInfo
               PROVE  \/ i \in LiveInfo'
                      \/ At(p, "dropInfo") /\ tx'[p].pc = "idle" /\ i = tx[p].info
    OBVIOUS
  <2>1. i \in InfoId /\ info[i] \in InfoRow /\ info \in [InfoId -> InfoRow \cup {NoRow}]
    BY DEF LiveInfo, CInv, IInv, TypeOK
  <2>2. CASE UNCHANGED info
    BY <2>2 DEF LiveInfo
  <2>3. ASSUME NEW n \in Name, NEW s \in Source, Tables!Register(n, s) PROVE i \in LiveInfo'
    <3>1. \A u : u = [name |-> n, source |-> s, figures |-> s] => u # NoRow
      BY NullAssumption DEF InfoRow
    <3>2. PICK k \in InfoId : info' = [info EXCEPT ![k] = [name |-> n, source |-> s, figures |-> s]]
      BY <2>3 DEF Tables!Register
    <3>3. QED
      BY <2>1, <3>1, <3>2 DEF LiveInfo
  <2>4. ASSUME NEW k \in InfoId, NEW s \in Source, Tables!Revise(k, s) PROVE i \in LiveInfo'
    <3>1. info' = [info EXCEPT ![k].figures = s] /\ info[k] # NoRow
      BY <2>4 DEF Tables!Revise, Tables!Live
    <3>2. info[k] \in InfoRow
      BY <2>1, <3>1
    <3>3. [info[k] EXCEPT !.figures = s] \in InfoRow
      BY <3>2 DEF InfoRow
    <3>4. info'[i] \in InfoRow
      BY <2>1, <3>1, <3>3
    <3>5. QED
      BY <2>1, <3>4, NullAssumption DEF LiveInfo
  <2>5. CASE At(p, "dropInfo") /\ tx'[p].pc = "idle" /\ Tables!Deregister(tx[p].info)
    BY <2>1, <2>5 DEF Tables!Deregister, LiveInfo
  <2>6. QED
    BY <2>2, <2>3, <2>4, <2>5
       DEF Committed, Tables!Switch, Tables!Store, Tables!Overwrite, Tables!Drop,
           Tables!Record, Tables!Start, Tables!Note, Tables!Finish
<1>3. ASSUME NEW q \in Proc, tx'[q].pc = "dropInfo"
      PROVE  tx'[q].info \in LiveInfo'
  <2>1. CASE tx'[q] = tx[q]
    <3>1. At(q, "dropInfo") /\ tx[q].info \in LiveInfo
      BY <1>3, <2>1 DEF CInv, DropsAlone, At
    <3>2. ~(At(p, "dropInfo") /\ tx'[p].pc = "idle" /\ tx[q].info = tx[p].info)
      BY <1>3, <3>1 DEF CInv, DropsAlone
    <3>3. QED
      BY <1>2, <2>1, <3>1, <3>2
  <2>2. CASE q = p /\ Effect(p)
    <3>1. tx'[p].info = tx[p].info /\ config[tx[p].info] # NoRow /\ UNCHANGED info
          /\ At(p, "dropFlush")
      BY <1>3, <2>2 DEF Effect, Deleting
    <3>2. tx[p].info \in InfoId
      BY <3>1, TxFields DEF Deleting, At, CInv, IInv, TypeOK
    <3>3. QED
      BY <2>2, <3>1, <3>2 DEF CInv, IInv, ConfigIffInfo, LiveInfo
  <2>3. QED
    BY <2>1, <2>2 DEF Effect
<1>4. ASSUME NEW q \in Proc, NEW o \in Proc, tx'[q].pc = "dropInfo", tx'[o].pc = "dropInfo",
             tx'[q].info = tx'[o].info, q # o
      PROVE  FALSE
  <2>1. ASSUME NEW x \in Proc, x # p, Effect(p), tx'[x].pc = "dropInfo",
               tx'[p].pc = "dropInfo", tx'[x].info = tx'[p].info
        PROVE  FALSE
    <3>1. tx'[x] = tx[x] /\ tx'[p].info = tx[p].info /\ ~ConfigLocked(tx[p].info, p)
      BY <2>1 DEF Effect, Deleting
    <3>2. QED
      BY <2>1, <3>1 DEF ConfigLocked, At
  <2>2. CASE tx'[q] = tx[q] /\ tx'[o] = tx[o]
    BY <1>4, <2>2 DEF CInv, DropsAlone, At
  <2>3. QED
    BY <1>4, <2>1, <2>2 DEF Effect
<1>5. QED
  BY <1>3, <1>4 DEF DropsAlone, At

(* An entry keeps its execution and, until the delete of its info, the     *)
(* info; a new one is one that its run had noted.                          *)
LEMMA HistoryGrows ==
    ASSUME CInv, NEW p \in Proc, Committed(p), NEW j \in job'
    PROVE  \/ \E h \in job : j.exec = h.exec /\ j.info \in {h.info, NoInfo}
           \/ tx[p].pc \in Writing /\ j \in tx[p].jobs
<1>1. job \subseteq JobRow
  BY DEF CInv, IInv, TypeOK
<1>2. CASE UNCHANGED job
  BY <1>2
<1>3. CASE Tables!Deregister(tx[p].info)
  <2>1. \A h \in JobRow : LET g == [h EXCEPT !.info = NoInfo]
                          IN  g.exec = h.exec /\ g.info = NoInfo
    BY DEF JobRow
  <2>2. PICK h \in job : j = IF h.info = tx[p].info THEN [h EXCEPT !.info = NoInfo] ELSE h
    BY <1>3 DEF Tables!Deregister
  <2>3. j.exec = h.exec /\ j.info \in {h.info, NoInfo}
    BY <1>1, <2>1, <2>2
  <2>4. QED
    BY <2>3
<1>4. CASE tx[p].pc \in Writing /\ job' = job \cup tx[p].jobs
  BY <1>4
<1>5. QED
  BY <1>2, <1>3, <1>4
     DEF Committed, Tables!Register, Tables!Revise, Tables!Switch, Tables!Store,
         Tables!Overwrite, Tables!Drop, Tables!Start, Tables!Note, Tables!Finish

LEMMA ExecutionsNext ==
    ASSUME CInv, NEW p \in Proc, Effect(p) \/ UNCHANGED tx, Committed(p)
    PROVE  ExecutionsDiffer'
<1>1. requests \in Nat /\ requests' \in {requests, requests + 1}
      /\ \A j \in job : j.exec \in Nat /\ j.exec <= requests
  BY BoundAssumption DEF CInv, IInv, TypeOK, Committed, JobRow, ExecutionsDiffer
<1>2. \A q \in Proc : tx[q].pc \in Syncing => tx[q].exec \in Nat /\ tx[q].exec <= requests
  <2>1. \A q \in Proc : tx[q].pc \in Syncing => tx[q].exec \in Nat
    BY TxFields DEF CInv, IInv, TypeOK, Syncing
  <2>2. QED
    BY <2>1 DEF CInv, ExecutionsDiffer
<1>3. \A j \in job' : j.exec \in Nat /\ j.exec <= requests
  <2>1. tx[p].pc \in Writing =>
           tx[p].pc \in Syncing /\ \A j \in tx[p].jobs : j.exec = tx[p].exec
    BY DEF CInv, EntriesAhead, Ahead, Writing, Syncing, InfoSync, DataSync
  <2>2. QED
    BY <1>1, <1>2, <2>1, HistoryGrows
<1>4. ASSUME NEW q \in Proc, tx'[q].pc \in Syncing
      PROVE  \/ tx[q].pc \in Syncing /\ tx'[q].exec = tx[q].exec
             \/ q = p /\ tx'[q].exec = requests + 1 /\ requests' = requests + 1
  BY <1>4 DEF Effect
<1>5. ASSUME NEW q \in Proc, tx'[q].pc \in Syncing
      PROVE  tx'[q].exec <= requests'
  BY <1>1, <1>2, <1>4, <1>5
<1>6. ASSUME NEW q \in Proc, NEW o \in Proc, tx'[q].pc \in Syncing, tx'[o].pc \in Syncing,
             tx'[q].exec = tx'[o].exec
      PROVE  q = o
  <2>1. CASE tx[q].pc \in Syncing /\ tx'[q].exec = tx[q].exec
              /\ tx[o].pc \in Syncing /\ tx'[o].exec = tx[o].exec
    BY <1>6, <2>1 DEF CInv, ExecutionsDiffer
  <2>2. QED
    BY <1>1, <1>2, <1>4, <1>6, <2>1
<1>7. \A j \in job' : j.exec <= requests'
  BY <1>1, <1>3
<1>8. QED
  BY <1>5, <1>6, <1>7 DEF ExecutionsDiffer, Syncing, InfoSync, DataSync

(* A run whose thread does nothing stays ahead of its history: what others *)
(* record is of other executions.                                          *)
LEMMA OthersAhead ==
    ASSUME CInv, NEW p \in Proc, Committed(p), NEW q \in Proc \ {p}, tx'[q] = tx[q]
    PROVE  Ahead(tx[q])'
<1>0. PICK t : t = tx[q] /\ tx'[q] = t
  OBVIOUS
<1>1. Ahead(t)
  BY <1>0 DEF CInv, EntriesAhead
<1>2. t.pc \in DataSync => NoInfo \notin Coming(t)
  <2>1. t \in Tx
    BY <1>0 DEF CInv, IInv, TypeOK
  <2>2. t.pc \in DataSync => t.later \subseteq InfoId
    BY <2>1, TxFields
  <2>3. t.pc \in DataSync \ {"fetching"} => InfosOf(t.batch) \subseteq InfoId
    BY <2>1, TxFields DEF InfosOf
  <2>4. QED
    BY <2>2, <2>3 DEF Coming
<1>3. ASSUME NEW j \in job', t.pc \in Syncing, j.exec = t.exec
      PROVE  \E h \in job : h.exec = t.exec /\ j.info \in {h.info, NoInfo}
  <2>1. ASSUME tx[p].pc \in Writing, j \in tx[p].jobs PROVE FALSE
    <3>1. j.exec = tx[p].exec /\ tx[p].pc \in Syncing
      BY <2>1 DEF CInv, EntriesAhead, Ahead, Writing, Syncing, InfoSync, DataSync
    <3>2. QED
      BY <1>0, <1>3, <3>1 DEF CInv, ExecutionsDiffer
  <2>2. QED
    BY <1>3, <2>1, HistoryGrows
<1>4. t.pc \in InfoSync => \A j \in job' : j.exec # t.exec
  BY <1>1, <1>3 DEF Ahead, Syncing
<1>5. t.pc \in DataSync => \A j \in job' : j.exec = t.exec => j.info \notin Coming(t)
  BY <1>1, <1>2, <1>3 DEF Ahead, Syncing
<1>6. Ahead(t)'
  BY <1>1, <1>4, <1>5 DEF Ahead, Coming, InfosOf, Command
<1>7. QED
  BY <1>0, <1>6

(* A run goes on with the same execution, over no more than it had to come.*)
LEMMA InfoAhead ==
    ASSUME CInv, NEW p \in Proc, tx[p].pc \in InfoSync, UNCHANGED job,
           NEW t, Goto(p, t), t.pc \in InfoSync, t.exec = tx[p].exec,
           t.pc \in Writing =>
              /\ t.left \subseteq t.batch
              /\ \A j \in t.jobs : j.exec = t.exec
              /\ {Command(j) : j \in t.jobs} = t.batch \ t.left
    PROVE  Ahead(tx[p])'
<1>1. tx'[p] = t
  BY DEF Goto, CInv, IInv, TypeOK
<1>2. \A j \in job' : j.exec # t.exec
  BY DEF CInv, EntriesAhead, Ahead
<1>3. Ahead(t)'
  BY <1>2 DEF Ahead, InfoSync, DataSync
<1>4. QED
  BY <1>1, <1>3

LEMMA DataAhead ==
    ASSUME CInv, NEW p \in Proc, tx[p].pc \in DataSync, UNCHANGED job,
           NEW t, Goto(p, t), t.pc \in DataSync \ {"fetching"}, t.exec = tx[p].exec,
           Coming(t) \subseteq Coming(tx[p]), t.later \cap InfosOf(t.batch) = {},
           t.pc = "dataJobs" =>
              /\ t.left \subseteq t.batch
              /\ \A j \in t.jobs : j.exec = t.exec /\ j.date # NoDate
              /\ {Command(j) : j \in t.jobs} = t.batch \ t.left
    PROVE  Ahead(tx[p])'
<1>1. tx'[p] = t
  BY DEF Goto, CInv, IInv, TypeOK
<1>2. \A j \in job' : j.exec = t.exec => j.info \notin Coming(t)
  BY DEF CInv, EntriesAhead, Ahead
<1>3. t.pc \in Writing => t.pc = "dataJobs"
  BY DEF Writing, DataSync
<1>4. Ahead(t)'
  BY <1>2, <1>3 DEF Ahead, InfoSync, DataSync
<1>5. QED
  BY <1>1, <1>4

LEMMA NotAhead ==
    ASSUME TypeOK, NEW p \in Proc, NEW t, Goto(p, t) \/ Begin(p, t), t.pc \notin Syncing
    PROVE  Ahead(tx[p])'
<1>1. tx'[p] = t
  BY DEF Goto, Begin, TypeOK
<1>2. QED
  BY <1>1 DEF Ahead, Syncing, InfoSync, DataSync, Writing

LEMMA RequestAhead ==
    ASSUME CInv, NEW p \in Proc, Request(p)
    PROVE  Ahead(tx[p])' \/ UNCHANGED <<tx, job>>
<1>1. TypeOK /\ requests \in Nat /\ \A j \in job : j.exec \in Nat /\ j.exec <= requests
  BY BoundAssumption DEF CInv, IInv, TypeOK, JobRow, ExecutionsDiffer
<1> USE DEF Syncing, InfoSync, DataSync
<1>2. ASSUME NEW raw, CreateInfoBegin(p, raw) PROVE Ahead(tx[p])'
  BY <1>1, <1>2, NotAhead DEF CreateInfoBegin
<1>3. ASSUME NEW i \in InfoId, UpdateInfoBegin(p, i) PROVE Ahead(tx[p])'
  BY <1>1, <1>3, NotAhead DEF UpdateInfoBegin
<1>4. ASSUME NEW i \in InfoId, DeleteInfoBegin(p, i) PROVE Ahead(tx[p])'
  BY <1>1, <1>4, NotAhead DEF DeleteInfoBegin
<1>5. ASSUME NEW i \in InfoId, NEW d \in Date, CreateIndexDataBegin(p, i, d)
      PROVE  Ahead(tx[p])'
  BY <1>1, <1>5, NotAhead DEF CreateIndexDataBegin
<1>6. ASSUME NEW t, Begin(p, t), t.pc \in {"syncInfos", "syncData"}, t.exec = requests + 1,
             t.pc = "syncData" => t.later \cap InfosOf(t.batch) = {}, UNCHANGED job
      PROVE  Ahead(tx[p])'
  <2>1. tx'[p] = t
    BY <1>1, <1>6 DEF Begin, TypeOK
  <2>2. \A j \in job' : j.exec # t.exec
    BY <1>1, <1>6
  <2>3. Ahead(t)'
    BY <1>6, <2>2 DEF Ahead, Writing
  <2>4. QED
    BY <2>1, <2>3
<1>7. ASSUME NEW batch, SyncInfosBegin(p, batch) PROVE Ahead(tx[p])'
  BY <1>6, <1>7 DEF SyncInfosBegin
<1>8. ASSUME NEW batch, NEW later, SyncDataBegin(p, batch, later) PROVE Ahead(tx[p])'
  <2>1. PICK t : /\ Begin(p, t) /\ t.pc = "syncData" /\ t.exec = requests + 1
                 /\ t.later = later /\ t.batch = batch
    BY <1>8 DEF SyncDataBegin
  <2>2. t.later \cap InfosOf(t.batch) = {} /\ UNCHANGED job
    BY <1>8, <2>1 DEF SyncDataBegin
  <2>3. QED
    BY <1>6, <2>1, <2>2
<1>9. QED
  BY <1>2, <1>3, <1>4, <1>5, <1>7, <1>8
     DEF Request, UpdateConfig, UpdateIndexData, DeleteIndexData

LEMMA InfoSyncAhead ==
    ASSUME CInv, NEW p \in Proc,
           UpsertInfo(p) \/ SyncInfoCommit(p) \/ SaveInfoJobs(p) \/ WriteInfoJob(p)
    PROVE  Ahead(tx[p])'
<1>1. tx[p].pc \in InfoSync /\ UNCHANGED job
  BY DEF UpsertInfo, SyncInfoCommit, SaveInfoJobs, WriteInfoJob, At, InfoSync
<1>2. CASE UpsertInfo(p) \/ SyncInfoCommit(p)
  <2>1. PICK t : Goto(p, t) /\ t.pc \in {"upserted", "syncInfos"} /\ t.exec = tx[p].exec
    <3>1. CASE UpsertInfo(p)
      BY <3>1 DEF UpsertInfo
    <3>2. CASE SyncInfoCommit(p)
      BY <3>2 DEF SyncInfoCommit
    <3>3. QED
      BY <1>2, <3>1, <3>2
  <2>2. t.pc \in InfoSync /\ t.pc \notin Writing
    BY <2>1 DEF InfoSync, Writing
  <2>3. QED
    BY <1>1, <2>1, <2>2, InfoAhead
<1>3. CASE SaveInfoJobs(p)
  <2>1. PICK t : /\ Goto(p, t) /\ t.pc = "infoJobs" /\ t.exec = tx[p].exec
                 /\ t.left = t.batch /\ t.jobs = {}
    BY <1>3 DEF SaveInfoJobs
  <2>2. t.pc \in InfoSync
    BY <2>1 DEF InfoSync
  <2>3. QED
    BY <1>1, <2>1, <2>2, InfoAhead
<1>4. CASE WriteInfoJob(p)
  <2>1. /\ tx[p].left \subseteq tx[p].batch
        /\ \A j \in tx[p].jobs : j.exec = tx[p].exec
        /\ {Command(j) : j \in tx[p].jobs} = tx[p].batch \ tx[p].left
    BY <1>4 DEF CInv, EntriesAhead, Ahead, Writing, WriteInfoJob, At
  <2>2. PICK n \in tx[p].left :
           Goto(p, [pc |-> "infoJobs", exec |-> tx[p].exec, batch |-> tx[p].batch,
                    left |-> tx[p].left \ {n},
                    jobs |-> tx[p].jobs \cup {InfoJob(tx[p].exec, n)}])
    BY <1>4 DEF WriteInfoJob
  <2> DEFINE x == InfoJob(tx[p].exec, n)
  <2>3. x.exec = tx[p].exec /\ Command(x) = n
    BY DEF InfoJob, Command
  <2>4. PICK t : /\ Goto(p, t) /\ t.pc = "infoJobs" /\ t.exec = tx[p].exec
                 /\ t.batch = tx[p].batch /\ t.left = tx[p].left \ {n}
                 /\ t.jobs = tx[p].jobs \cup {x}
    BY <2>2
  <2> HIDE DEF x
  <2>5. {Command(j) : j \in t.jobs} = {Command(j) : j \in tx[p].jobs} \cup {n}
    BY <2>3, <2>4
  <2>6. {Command(j) : j \in t.jobs} = t.batch \ t.left
    BY <2>1, <2>2, <2>4, <2>5
  <2>7. t.pc \in InfoSync
    BY <2>4 DEF InfoSync
  <2>8. QED
    BY <1>1, <2>1, <2>3, <2>4, <2>6, <2>7, InfoAhead
<1>5. QED
  BY <1>2, <1>3, <1>4

LEMMA DataSyncAhead ==
    ASSUME CInv, NEW p \in Proc,
           \/ SyncDataRead(p) \/ SyncDataUpdate(p) \/ SyncDataInsert(p)
           \/ SaveDataJobs(p) \/ WriteDataJob(p) \/ NextBatch(p)
    PROVE  Ahead(tx[p])'
<1>0. TypeOK /\ (End(p) => Ahead(tx[p])')
  BY NotAhead, IdleInTx DEF CInv, IInv, End, Syncing, InfoSync, DataSync
<1>1. tx[p].pc \in DataSync /\ UNCHANGED job
  BY DEF SyncDataRead, SyncDataUpdate, SyncDataInsert, SaveDataJobs, WriteDataJob, NextBatch,
         At, DataSync
<1>2. tx[p].pc # "fetching" => tx[p].later \cap InfosOf(tx[p].batch) = {}
  BY <1>1 DEF CInv, EntriesAhead, Ahead
<1>3. ASSUME NEW t, Goto(p, t), t.pc \in {"syncData", "missing", "found"},
             t.exec = tx[p].exec, t.later = tx[p].later, t.batch = tx[p].batch,
             tx[p].pc # "fetching"
      PROVE  Ahead(tx[p])'
  <2>1. t.pc \in DataSync \ {"fetching"} /\ t.pc # "dataJobs" /\ Coming(t) = Coming(tx[p])
    BY <1>3 DEF DataSync, Coming
  <2>2. QED
    BY <1>1, <1>2, <1>3, <2>1, DataAhead
<1>4. CASE SyncDataRead(p)
  <2>1. tx[p].pc # "fetching"
    BY <1>4 DEF SyncDataRead, At
  <2>2. QED
    BY <1>0, <1>3, <1>4, <2>1, ReadMove
<1>5. CASE SyncDataUpdate(p) \/ SyncDataInsert(p)
  <2>1. tx[p].pc # "fetching" /\ (End(p) \/ NextCommand(p))
    BY <1>5 DEF SyncDataUpdate, SyncDataInsert, At
  <2>2. NextCommand(p) =>
           \E t : /\ Goto(p, t) /\ t.pc = "syncData" /\ t.exec = tx[p].exec
                  /\ t.later = tx[p].later /\ t.batch = tx[p].batch
    BY DEF NextCommand
  <2>3. QED
    BY <1>0, <1>3, <2>1, <2>2
<1>6. CASE SaveDataJobs(p)
  <2>1. PICK t : /\ Goto(p, t) /\ t.pc = "dataJobs" /\ t.exec = tx[p].exec
                 /\ t.later = tx[p].later /\ t.batch = tx[p].batch
                 /\ t.left = t.batch /\ t.jobs = {}
    BY <1>6 DEF SaveDataJobs
  <2>2. tx[p].pc # "fetching"
    BY <1>6 DEF SaveDataJobs, At
  <2>3. t.pc \in DataSync \ {"fetching"} /\ Coming(t) = Coming(tx[p])
    BY <2>1, <2>2 DEF DataSync, Coming
  <2>4. QED
    BY <1>1, <1>2, <2>1, <2>2, <2>3, DataAhead
<1>7. CASE WriteDataJob(p) /\ ~End(p)
  <2>1. /\ tx[p].pc = "dataJobs" /\ tx[p].left \subseteq tx[p].batch
        /\ \A j \in tx[p].jobs : j.exec = tx[p].exec /\ j.date # NoDate
        /\ {Command(j) : j \in tx[p].jobs} = tx[p].batch \ tx[p].left
    BY <1>7 DEF CInv, EntriesAhead, Ahead, Writing, WriteDataJob, At
  <2>2. PICK k \in tx[p].left :
           Goto(p, [pc |-> "dataJobs", exec |-> tx[p].exec, later |-> tx[p].later,
                    batch |-> tx[p].batch, left |-> tx[p].left \ {k},
                    jobs |-> tx[p].jobs \cup {DataJob(tx[p].exec, k)}])
    BY <1>7 DEF WriteDataJob
  <2> DEFINE x == DataJob(tx[p].exec, k)
  <2>3. k \in Key
    BY <1>1, <2>1, <2>2, TxFields DEF CInv, IInv, TypeOK
  <2>4. x.exec = tx[p].exec /\ x.date # NoDate /\ Command(x) = k
    BY <2>3, NullAssumption DEF DataJob, Command
  <2>5. PICK t : /\ Goto(p, t) /\ t.pc = "dataJobs" /\ t.exec = tx[p].exec
                 /\ t.later = tx[p].later /\ t.batch = tx[p].batch
                 /\ t.left = tx[p].left \ {k} /\ t.jobs = tx[p].jobs \cup {x}
    BY <2>2
  <2> HIDE DEF x
  <2>6. {Command(j) : j \in t.jobs} = {Command(j) : j \in tx[p].jobs} \cup {k}
    BY <2>4, <2>5
  <2>7. {Command(j) : j \in t.jobs} = t.batch \ t.left
    BY <2>1, <2>2, <2>5, <2>6
  <2>8. t.pc \in DataSync \ {"fetching"} /\ Coming(t) = Coming(tx[p])
    BY <2>1, <2>5 DEF DataSync, Coming
  <2>9. \A j \in t.jobs : j.exec = t.exec /\ j.date # NoDate
    BY <2>1, <2>4, <2>5
  <2>10. t.left \subseteq t.batch /\ t.later \cap InfosOf(t.batch) = {}
    BY <1>2, <2>1, <2>5
  <2>11. QED
    BY <1>1, <2>5, <2>7, <2>8, <2>9, <2>10, DataAhead
<1>8. CASE NextBatch(p) /\ ~End(p)
  <2>0. PICK batch \in SUBSET (tx[p].later \X Date) : \E t :
           /\ Goto(p, t) /\ t.pc = "syncData" /\ t.exec = tx[p].exec
           /\ t.later = tx[p].later \ InfosOf(batch) /\ t.batch = batch
    BY <1>8, BatchMove
  <2>1. PICK t : /\ Goto(p, t) /\ t.pc = "syncData" /\ t.exec = tx[p].exec
                 /\ t.later = tx[p].later \ InfosOf(batch) /\ t.batch = batch
    BY <2>0
  <2>2. tx[p].pc = "fetching"
    BY <1>8 DEF NextBatch, At
  <2>3. InfosOf(batch) \subseteq tx[p].later
    BY <2>1 DEF InfosOf
  <2>4. t.pc \in DataSync \ {"fetching"} /\ Coming(t) \subseteq Coming(tx[p])
    BY <2>1, <2>2, <2>3 DEF DataSync, Coming
  <2>5. t.later \cap InfosOf(t.batch) = {}
    BY <2>1
  <2>6. QED
    BY <1>1, <2>1, <2>4, <2>5, DataAhead
<1>9. QED
  BY <1>0, <1>4, <1>5, <1>6, <1>7, <1>8

(* With the entries of its batch recorded, only the later targets come.    *)
LEMMA RecordAhead ==
    ASSUME CInv, NEW p \in Proc, CommitInfoJobs(p) \/ CommitDataJobs(p)
    PROVE  Ahead(tx[p])'
<1>0. TypeOK /\ (End(p) => Ahead(tx[p])')
  BY NotAhead, IdleInTx DEF CInv, IInv, End, Syncing, InfoSync, DataSync
<1>1. CASE ~End(p)
  <2>1. /\ tx[p].pc = "dataJobs" /\ tx[p].left = {} /\ job' = job \cup tx[p].jobs
        /\ Goto(p, [pc |-> "fetching", exec |-> tx[p].exec, later |-> tx[p].later])
    BY <1>1 DEF CommitInfoJobs, CommitDataJobs, At
  <2>2. PICK t : /\ Goto(p, t) /\ t.pc = "fetching" /\ t.exec = tx[p].exec
                 /\ t.later = tx[p].later
    BY <2>1
  <2>3. Ahead(tx[p])
    BY DEF CInv, EntriesAhead
  <2>4. ASSUME NEW j \in job PROVE j.exec = t.exec => j.info \notin t.later
    BY <2>1, <2>2, <2>3 DEF Ahead, Coming, DataSync
  <2>5. ASSUME NEW j \in tx[p].jobs PROVE j.info \notin t.later
    <3>1. Command(j) \in tx[p].batch /\ j.date # NoDate
      BY <2>1, <2>3 DEF Ahead, Writing
    <3>2. j.info \in InfosOf(tx[p].batch)
      BY <3>1 DEF InfosOf, Command
    <3>3. QED
      BY <2>1, <2>2, <2>3, <3>2 DEF Ahead, DataSync
  <2>6. Ahead(t)'
    BY <2>1, <2>2, <2>4, <2>5 DEF Ahead, Coming, InfoSync, DataSync, Writing
  <2>7. tx'[p] = t
    BY <1>0, <2>2 DEF Goto, TypeOK
  <2>8. QED
    BY <2>6, <2>7
<1>2. QED
  BY <1>0, <1>1

LEMMA StepAhead ==
    ASSUME CInv, NEW p \in Proc, Step(p) \/ Abort(p)
    PROVE  Ahead(tx[p])'
<1>1. TypeOK /\ (End(p) => Ahead(tx[p])')
  BY NotAhead, IdleInTx DEF CInv, IInv, End, Syncing, InfoSync, DataSync
<1>2. CASE DeleteInfoRows(p) \/ DeleteInfoLoad(p) \/ DeleteInfoFlush(p)
  <2>1. tx[p] \in [pc : {"dropRows"} \cup Deleting, info : InfoId, victims : SUBSET DataId]
    BY <1>1, <1>2 DEF TypeOK, DeleteInfoRows, DeleteInfoLoad, DeleteInfoFlush, At, Tx, Idle,
                      Deleting
  <2>2. tx'[p].pc \in {"idle", "dropLoad", "dropFlush", "dropInfo"}
    BY <1>1, <1>2, <2>1, IdleInTx
       DEF TypeOK, DeleteInfoRows, DeleteInfoLoad, DeleteInfoFlush, End, Goto
  <2>3. QED
    BY <2>2 DEF Ahead, Syncing, InfoSync, DataSync, Writing
<1>3. QED
  BY <1>1, <1>2, InfoSyncAhead, DataSyncAhead, RecordAhead
     DEF Step, Abort, CreateInfoInsert, UpdateInfoFlush, DeleteInfoCommit,
         CreateIndexDataInsert, DeadlockVictim

LEMMA EntriesNext ==
    ASSUME CInv, NEW p \in Proc, Request(p) \/ Step(p) \/ Abort(p),
           Effect(p) \/ UNCHANGED tx, Committed(p)
    PROVE  EntriesAhead'
<1>1. Ahead(tx[p])' \/ UNCHANGED <<tx, job>>
  BY RequestAhead, StepAhead
<1>2. \A q \in Proc \ {p} : tx'[q] = tx[q]
  BY DEF Effect
<1>3. \A q \in Proc \ {p} : Ahead(tx[q])'
  BY <1>2, OthersAhead
<1>4. UNCHANGED <<tx, job>> => Ahead(tx[p])'
  BY DEF CInv, EntriesAhead, Ahead, Coming, InfosOf, Command, InfoSync, DataSync, Writing
<1>5. QED
  BY <1>1, <1>3, <1>4 DEF EntriesAhead

LEMMA CInvNext == CInv /\ [Next]_vars => CInv'
<1> SUFFICES ASSUME CInv, [Next]_vars PROVE CInv'
  OBVIOUS
<1>1. IInv'
  BY NextInv DEF CInv
<1>2. ASSUME NEW p \in Proc, Request(p) \/ Step(p) \/ Abort(p) PROVE CInv'
  <2>1. Effect(p) \/ UNCHANGED tx
    BY <1>2, RequestEffect, StepEffect DEF CInv, IInv
  <2>2. Committed(p)
    BY <1>2, RequestCommit, StepCommit
  <2>3. Steady
    BY <1>1, <2>2, DataSteady
  <2>4. EntriesAhead'
    BY <1>2, <2>1, <2>2, EntriesNext
  <2>5. QED
    BY <1>1, <2>1, <2>2, <2>3, <2>4, VictimsNext, DropsNext, ExecutionsNext DEF CInv
<1>3. CASE UNCHANGED vars
  <2>1. VictimsOfInfo' /\ DropsAlone' /\ ExecutionsDiffer'
    BY <1>3 DEF vars, CInv, VictimsOfInfo, DropsAlone, ExecutionsDiffer, LiveInfo, At,
       Deleting, Syncing, InfoSync, DataSync
  <2>2. EntriesAhead'
    BY <1>3 DEF vars, CInv, EntriesAhead, Ahead, Coming, InfosOf, Command, InfoSync,
       DataSync, Writing
  <2>3. QED
    BY <1>1, <2>1, <2>2 DEF CInv
<1>4. QED
  BY <1>2, <1>3 DEF Next, Quiescent

-----------------------------------------------------------------------------
(* The inductive invariant of this module: what deletes and syncs hold in  *)
(* their open transactions stays true of the tables.                       *)
THEOREM CommitInvariant == Spec => []CInv
BY CInvInit, CInvNext, PTL DEF Spec

LEMMA StepIsCommit ==
    ASSUME CInv, [Next]_vars, ~UNCHANGED vars
    PROVE  \E p \in Proc : Committed(p)
<1>1. \E p \in Proc : Request(p) \/ Step(p) \/ Abort(p)
  BY DEF Next, Quiescent
<1>2. QED
  BY <1>1, RequestCommit, StepCommit

(* Every interleaving of requests, syncs, deletes and lost transactions    *)
(* looks, to a reader of the tables, like AtomicStore: one whole operation *)
(* after the other.  The history a run writes is of infos that are there   *)
(* until it is committed, and was true when each of its lines was written. *)
THEOREM Atomic == Spec => EachCommitIsWhole
<1>1. Init => Tables!Init
  <2> SUFFICES ASSUME Init PROVE Tables!Init
    OBVIOUS
  <2>1. \A p \in Proc : RunOf(p) = {} /\ NotesOf(p) = {}
    BY IdleInTx DEF Init, RunOf, NotesOf, Syncing, InfoSync, DataSync, Writing
  <2>2. OpenRuns = {} /\ Noted = {}
    BY <2>1 DEF OpenRuns, Noted
  <2>3. QED
    BY <2>2 DEF Init, Tables!Init
<1>2. ASSUME CInv, [Next]_vars PROVE [Tables!Next]_(Tables!tables)
  <2>1. CASE UNCHANGED vars
    <3>1. UNCHANGED <<OpenRuns, Noted>>
      BY <2>1 DEF vars, OpenRuns, Noted, RunOf, NotesOf
    <3>2. QED
      BY <2>1, <3>1 DEF vars, Tables!tables
  <2>2. ASSUME NEW p \in Proc, Committed(p) PROVE [Tables!Next]_(Tables!tables)
    <3>1. CASE UNCHANGED <<info, config, data, job, nextInfo, nextData, OpenRuns, Noted>>
      BY <3>1 DEF Tables!tables
    <3>2. CASE Tables!Record(tx[p].exec) \/ Tables!Finish(tx[p].exec)
      <4>1. tx[p].exec \in OpenRuns
        BY <3>2 DEF Tables!Record, Tables!Finish
      <4>2. QED
        BY <3>2, <4>1 DEF Tables!Next
    <3>3. CASE Tables!Start(requests + 1)
      <4>1. requests + 1 \in OpenRuns'
        BY <3>3 DEF Tables!Start
      <4>2. QED
        BY <3>3, <4>1 DEF Tables!Next
    <3>4. ASSUME NEW j \in JobRow, Tables!Note(j) PROVE [Tables!Next]_(Tables!tables)
      <4>1. j \in Noted'
        BY <3>4 DEF Tables!Note
      <4>2. QED
        BY <3>4, <4>1 DEF Tables!Next
    <3>5. QED
      BY <2>2, <3>1, <3>2, <3>3, <3>4 DEF Committed, Tables!Next, Tables!Source
  <2>3. QED
    BY <1>2, <2>1, <2>2, StepIsCommit
<1>3. QED
  BY <1>1, <1>2, CommitInvariant, PTL DEF Spec, EachCommitIsWhole, Tables!Spec

(* A deleted row stays deleted: no PATCH, sync or delete that held it in   *)
(* its session writes it back.                                             *)
THEOREM NothingComesBack == Spec => NoResurrection
<1> DEFINE A == /\ \A r \in DataId : r < nextData /\ data[r] = NoRow => data'[r] = NoRow
                /\ \A i \in InfoId : i < nextInfo /\ info[i] = NoRow => info'[i] = NoRow
<1>1. ASSUME CInv, [Next]_vars PROVE [A]_vars
  <2> SUFFICES ASSUME ~UNCHANGED vars PROVE A
    OBVIOUS
  <2>1. PICK p \in Proc : Committed(p)
    BY <1>1, StepIsCommit
  <2>2. \A r \in DataId : r < nextData /\ data[r] = NoRow => data'[r] = NoRow
    BY <1>1, <2>1, DataSteady, NextInv DEF CInv, Steady
  <2>3. ASSUME NEW i \in InfoId, i < nextInfo, info[i] = NoRow PROVE info'[i] = NoRow
    <3>1. /\ i \in 1..(nextInfo - 1) /\ info \in [InfoId -> InfoRow \cup {NoRow}]
          /\ Tables!Live(info) = LiveInfo
      BY <1>1, <2>3 DEF CInv, IInv, TypeOK, Tables!Live, LiveInfo
    <3>2. ASSUME NEW n \in Name, NEW s \in Source, Tables!Register(n, s) PROVE info'[i] = NoRow
      BY <2>3, <3>1, <3>2 DEF Tables!Register
    <3>3. ASSUME NEW k \in InfoId, NEW s \in Source, Tables!Revise(k, s) PROVE info'[i] = NoRow
      BY <2>3, <3>1, <3>3 DEF Tables!Revise, LiveInfo
    <3>4. ASSUME NEW k \in InfoId, Tables!Deregister(k) PROVE info'[i] = NoRow
      BY <2>3, <3>1, <3>4 DEF Tables!Deregister
    <3>5. QED
      BY <2>1, <2>3, <3>2, <3>3, <3>4
         DEF Committed, Tables!Switch, Tables!Store, Tables!Overwrite, Tables!Drop,
             Tables!Record, Tables!Start, Tables!Note, Tables!Finish
  <2>4. QED
    BY <2>2, <2>3
<1>2. QED
  BY <1>1, CommitInvariant, PTL DEF Spec, NoResurrection

(* The history of an execution grows only by the run that has it, and by   *)
(* whole batches: no entry is lost or changed, a delete of its info takes  *)
(* the reference only, and the entries a commit adds are one for each      *)
(* command of the batch, none of which the history had.                    *)
THEOREM Sealed == Spec => HistorySealed
<1> DEFINE A == \A e \in 1..MaxRequests : Entries(e)' # Entries(e) =>
                   /\ Entries(e) \subseteq Entries(e)'
                   /\ \E p \in Proc :
                         /\ tx[p].pc \in Writing /\ tx[p].exec = e
                         /\ {Command(j) : j \in job' \ job} = tx[p].batch
<1>1. ASSUME CInv, [Next]_vars PROVE [A]_vars
  <2> SUFFICES ASSUME ~UNCHANGED vars, NEW e \in 1..MaxRequests, Entries(e)' # Entries(e)
               PROVE  /\ Entries(e) \subseteq Entries(e)'
                      /\ \E p \in Proc :
                            /\ tx[p].pc \in Writing /\ tx[p].exec = e
                            /\ {Command(j) : j \in job' \ job} = tx[p].batch
    OBVIOUS
  <2>1. PICK p \in Proc : Committed(p)
    BY <1>1, StepIsCommit
  <2>2. CASE UNCHANGED job
    BY <2>2 DEF Entries
  <2>3. ASSUME NEW i, Tables!Deregister(i) PROVE FALSE
    <3> DEFINE without(j) == IF j.info = i THEN [j EXCEPT !.info = NoInfo] ELSE j
    <3>1. \A j \in JobRow : /\ without(j).exec = j.exec /\ without(j).name = j.name
                            /\ without(j).date = j.date /\ without(j).result = j.result
      BY DEF JobRow
    <3>2. job \subseteq JobRow /\ job' = {without(j) : j \in job}
      BY <1>1, <2>3 DEF CInv, IInv, TypeOK, Tables!Deregister
    <3> HIDE DEF without
    <3>3. QED
      BY <3>1, <3>2 DEF Entries
  <2>4. CASE tx[p].pc \in Writing /\ tx[p].left = {} /\ job' = job \cup tx[p].jobs
    <3>1. Ahead(tx[p])
      BY <1>1 DEF CInv, EntriesAhead
    <3>2. /\ \A j \in tx[p].jobs : j.exec = tx[p].exec
          /\ {Command(j) : j \in tx[p].jobs} = tx[p].batch
      BY <2>4, <3>1 DEF Ahead
    <3>3. ASSUME NEW j \in tx[p].jobs, j \in job PROVE FALSE
      <4>1. CASE tx[p].pc = "infoJobs"
        BY <3>1, <3>2, <3>3, <4>1 DEF Ahead, InfoSync
      <4>2. CASE tx[p].pc = "dataJobs"
        <5>1. j.info \in InfosOf(tx[p].batch)
          <6>1. j.date # NoDate /\ Command(j) \in tx[p].batch
            BY <3>1, <3>2, <4>2 DEF Ahead
          <6>2. QED
            BY <6>1 DEF InfosOf, Command
        <5>2. QED
          BY <3>1, <3>2, <3>3, <4>2, <5>1 DEF Ahead, Coming, DataSync
      <4>3. QED
        BY <2>4, <4>1, <4>2 DEF Writing
    <3>4. job' \ job = tx[p].jobs
      BY <2>4, <3>3
    <3>5. Entries(e) \subseteq Entries(e)'
      BY <2>4 DEF Entries
    <3>6. tx[p].exec = e
      BY <2>4, <3>2 DEF Entries
    <3>7. QED
      BY <2>4, <3>2, <3>4, <3>5, <3>6
  <2>5. QED
    BY <2>1, <2>2, <2>3, <2>4
       DEF Committed, Tables!Register, Tables!Revise, Tables!Switch, Tables!Store,
           Tables!Overwrite, Tables!Drop, Tables!Start, Tables!Note, Tables!Finish
<1>2. QED
  BY <1>1, CommitInvariant, PTL DEF Spec, HistorySealed

(* No sync switches the auto-sync of an info that has a config already,    *)
(* also when it meets a config that another transaction has just added.    *)
THEOREM UsersSwitch == Spec => EnabledOnlyByUser
<1> DEFINE A == \A i \in InfoId : config[i] # NoRow /\ config'[i] \notin {config[i], NoRow}
                                     => requests' # requests
<1>1. ASSUME CInv, [Next]_vars PROVE [A]_vars
  <2> SUFFICES ASSUME ~UNCHANGED vars, NEW i \in InfoId, config[i] # NoRow,
                      config'[i] \notin {config[i], NoRow}
               PROVE  requests' # requests
    OBVIOUS
  <2>1. PICK p \in Proc : Committed(p)
    BY <1>1, StepIsCommit
  <2>2. config \in [InfoId -> Enabled \cup {NoRow}] /\ i \in LiveInfo
    BY <1>1 DEF CInv, IInv, TypeOK, ConfigIffInfo, LiveInfo
  <2>3. i \in 1..(nextInfo - 1)
    BY <1>1, <2>2 DEF CInv, IInv, TypeOK, IdsUnused, LiveInfo
  <2>4. ASSUME NEW n \in Name, NEW s \in Source, Tables!Register(n, s) PROVE FALSE
    BY <2>2, <2>3, <2>4 DEF Tables!Register
  <2>5. ASSUME NEW k \in InfoId, Tables!Deregister(k) PROVE FALSE
    BY <2>2, <2>5 DEF Tables!Deregister
  <2>6. QED
    BY <2>1, <2>4, <2>5
       DEF Committed, Tables!Revise, Tables!Store, Tables!Overwrite, Tables!Drop,
           Tables!Record, Tables!Start, Tables!Note, Tables!Finish
<1>2. QED
  BY <1>1, CommitInvariant, PTL DEF Spec, EnabledOnlyByUser

-----------------------------------------------------------------------------
(* Only a sync that reads a row as OPEN_API comes to hold it, and only the *)
(* flush of a sync that holds it turns a row into OPEN_API data.           *)
Reads(p) ==
    tx'[p].pc = "found" =>
        UNCHANGED data /\ tx'[p].row \in LiveData /\ data[tx'[p].row].type = "OPEN_API"

Retypes(p) ==
    \A r \in LiveData :
        \/ data'[r] \in {data[r], NoRow}
        \/ data'[r].type = "USER"
        \/ At(p, "found") /\ tx[p].row = r

LEMMA FindsNothing ==
    ASSUME TypeOK, NEW p \in Proc, NEW t, Goto(p, t) \/ Begin(p, t), t.pc # "found"
    PROVE  Reads(p)
BY DEF TypeOK, Goto, Begin, Reads

LEMMA IdleReads ==
    ASSUME TypeOK, NEW p \in Proc, End(p)
    PROVE  Reads(p)
BY FindsNothing, IdleInTx DEF End

LEMMA RequestReads ==
    ASSUME IInv, NEW p \in Proc, Request(p)
    PROVE  (Reads(p) \/ UNCHANGED tx) /\ Retypes(p)
<1>1. TypeOK /\ data \in [DataId -> DataRow \cup {NoRow}]
  BY DEF IInv, TypeOK
<1>2. CASE UNCHANGED data /\ \E t : Begin(p, t) /\ t.pc # "found"
  BY <1>1, <1>2, FindsNothing DEF Retypes
<1>3. CASE UNCHANGED <<data, tx>>
  BY <1>3 DEF Retypes
<1>4. ASSUME NEW r \in DataId, UpdateIndexData(p, r) PROVE Retypes(p) /\ UNCHANGED tx
  <2>1. data[r] \in DataRow
    BY <1>1, <1>4 DEF UpdateIndexData, LiveData
  <2>2. QED
    BY <1>1, <1>4, <2>1 DEF UpdateIndexData, Retypes, LiveData, DataRow
<1>5. ASSUME NEW r \in DataId, DeleteIndexData(p, r) PROVE Retypes(p) /\ UNCHANGED tx
  BY <1>1, <1>5 DEF DeleteIndexData, Retypes, LiveData
<1>6. ASSUME NEW i \in InfoId, UpdateInfoBegin(p, i)
      PROVE  UNCHANGED data /\ \E t : Begin(p, t) /\ t.pc # "found"
  BY <1>6 DEF UpdateInfoBegin
<1>7. ASSUME NEW batch, SyncInfosBegin(p, batch) \/ \E later : SyncDataBegin(p, batch, later)
      PROVE  UNCHANGED data /\ \E t : Begin(p, t) /\ t.pc # "found"
  <2>1. CASE SyncInfosBegin(p, batch)
    BY <2>1 DEF SyncInfosBegin
  <2>2. ASSUME NEW later, SyncDataBegin(p, batch, later)
        PROVE  UNCHANGED data /\ \E t : Begin(p, t) /\ t.pc # "found"
    BY <2>2 DEF SyncDataBegin
  <2>3. QED
    BY <1>7, <2>1, <2>2
<1>8. ASSUME NEW raw, CreateInfoBegin(p, raw)
      PROVE  UNCHANGED data /\ \E t : Begin(p, t) /\ t.pc # "found"
  BY <1>8 DEF CreateInfoBegin
<1>9. ASSUME NEW i, DeleteInfoBegin(p, i)
      PROVE  UNCHANGED data /\ \E t : Begin(p, t) /\ t.pc # "found"
  BY <1>9 DEF DeleteInfoBegin
<1>10. ASSUME NEW i, NEW d, CreateIndexDataBegin(p, i, d)
       PROVE  UNCHANGED data /\ \E t : Begin(p, t) /\ t.pc # "found"
  BY <1>10 DEF CreateIndexDataBegin
<1>11. QED
  BY <1>2, <1>3, <1>4, <1>5, <1>6, <1>7, <1>8, <1>9, <1>10 DEF Request, UpdateConfig

LEMMA SyncReads ==
    ASSUME IInv, NEW p \in Proc,
           SyncDataRead(p) \/ SyncDataUpdate(p) \/ SyncDataInsert(p)
    PROVE  Reads(p) /\ Retypes(p)
<1>1. TypeOK /\ data \in [DataId -> DataRow \cup {NoRow}]
  BY DEF IInv, TypeOK
<1>2. NextCommand(p) => Reads(p)
  BY <1>1, FindsNothing DEF NextCommand
<1>3. CASE SyncDataRead(p)
  <2>1. tx[p] \in [pc : {"syncData"}, exec : Nat, later : SUBSET InfoId,
                   batch : SUBSET Key, left : SUBSET Key]
    BY <1>1, <1>3 DEF TypeOK, SyncDataRead, At, Tx, Idle, Deleting
  <2>2. UNCHANGED data
    BY <1>3 DEF SyncDataRead
  <2>3. PICK k \in tx[p].left : ReadRow(p, k)
    BY <1>3 DEF SyncDataRead
  <2> DEFINE u == [tx[p] EXCEPT !.left = @ \ {k}]
             gone == [pc |-> "missing", exec |-> tx[p].exec, later |-> tx[p].later,
                      batch |-> tx[p].batch, left |-> tx[p].left \ {k}, key |-> k]
             there(r) == [pc |-> "found", exec |-> tx[p].exec, later |-> tx[p].later,
                          batch |-> tx[p].batch, left |-> tx[p].left \ {k}, key |-> k, row |-> r]
  <2>4. CASE Goto(p, u)
    <3>1. u.pc = "syncData"
      BY <2>1
    <3> HIDE DEF u
    <3>2. QED
      BY <1>1, <2>2, <2>4, <3>1, FindsNothing DEF Retypes
  <2>5. CASE Goto(p, gone)
    BY <1>1, <2>2, <2>5, FindsNothing DEF Retypes
  <2>6. ASSUME NEW r \in RowsAt(k), data[r].type = "OPEN_API", Goto(p, there(r))
        PROVE  Reads(p) /\ Retypes(p)
    <3>1. tx'[p].row = r
      BY <1>1, <2>6 DEF TypeOK, Goto
    <3>2. QED
      BY <2>2, <2>6, <3>1 DEF Reads, Retypes, RowsAt
  <2>7. \/ Goto(p, gone) \/ Goto(p, u)
        \/ \E r \in RowsAt(k) : data[r].type = "OPEN_API" /\ Goto(p, there(r))
    BY <2>3 DEF ReadRow
  <2>8. QED
    BY <2>4, <2>5, <2>6, <2>7
<1>4. CASE SyncDataUpdate(p)
  <2>1. Reads(p)
    BY <1>1, <1>2, <1>4, IdleReads DEF SyncDataUpdate
  <2>2. At(p, "found") /\ \A r \in LiveData : r = tx[p].row \/ data'[r] = data[r]
    BY <1>1, <1>4 DEF SyncDataUpdate, LiveData
  <2>3. Retypes(p)
    BY <2>2 DEF Retypes
  <2>4. QED
    BY <2>1, <2>3
<1>5. CASE SyncDataInsert(p)
  <2>1. Reads(p)
    BY <1>1, <1>2, <1>5, IdleReads DEF SyncDataInsert
  <2>2. \A r \in LiveData : r # nextData
    BY DEF IInv, TypeOK, IdsUnused, LiveData
  <2>3. Retypes(p)
    BY <1>1, <1>5, <2>2 DEF SyncDataInsert, AddData, Retypes, LiveData
  <2>4. QED
    BY <2>1, <2>3
<1>6. QED
  BY <1>3, <1>4, <1>5

LEMMA StepReads ==
    ASSUME IInv, NEW p \in Proc, Step(p) \/ Abort(p)
    PROVE  Reads(p) /\ Retypes(p)
<1>1. TypeOK /\ data \in [DataId -> DataRow \cup {NoRow}]
  BY DEF IInv, TypeOK
<1>2. CASE UNCHANGED data /\ End(p)
  BY <1>1, <1>2, IdleReads DEF Retypes
<1>3. CASE UpsertInfo(p) \/ SyncInfoCommit(p)
  <2>1. UNCHANGED data /\ \E t : Goto(p, t) /\ t.pc # "found"
    <3>1. CASE UpsertInfo(p)
      BY <3>1 DEF UpsertInfo
    <3>2. CASE SyncInfoCommit(p)
      BY <3>2 DEF SyncInfoCommit
    <3>3. QED
      BY <1>3, <3>1, <3>2
  <2>2. QED
    BY <1>1, <2>1, FindsNothing DEF Retypes
<1>4. CASE DeleteInfoRows(p) \/ DeleteInfoLoad(p) \/ DeleteInfoFlush(p)
  <2>1. UNCHANGED data
    BY <1>4 DEF DeleteInfoRows, DeleteInfoLoad, DeleteInfoFlush
  <2>2. tx[p] \in [pc : {"dropRows"} \cup Deleting, info : InfoId, victims : SUBSET DataId]
    BY <1>1, <1>4
       DEF TypeOK, DeleteInfoRows, DeleteInfoLoad, DeleteInfoFlush, At, Tx, Idle, Deleting
  <2>3. tx'[p].pc # "found"
    BY <1>1, <1>4, <2>2, IdleInTx
       DEF TypeOK, DeleteInfoRows, DeleteInfoLoad, DeleteInfoFlush, End, Goto
  <2>4. QED
    BY <2>1, <2>3 DEF Reads, Retypes
<1>5. CASE DeleteInfoCommit(p)
  <2>1. Reads(p)
    BY <1>1, <1>5, IdleReads DEF DeleteInfoCommit
  <2>2. Retypes(p)
    BY <1>1, <1>5 DEF DeleteInfoCommit, Retypes, LiveData
  <2>3. QED
    BY <2>1, <2>2
<1>6. CASE CreateIndexDataInsert(p)
  <2>1. Reads(p)
    BY <1>1, <1>6, IdleReads DEF CreateIndexDataInsert
  <2>2. \A r \in LiveData : r # nextData
    BY DEF IInv, TypeOK, IdsUnused, LiveData
  <2>3. Retypes(p)
    BY <1>1, <1>6, <2>2 DEF CreateIndexDataInsert, AddData, Retypes, LiveData
  <2>4. QED
    BY <2>1, <2>3
<1>7. CASE \/ SaveInfoJobs(p) \/ WriteInfoJob(p) \/ CommitInfoJobs(p)
           \/ SaveDataJobs(p) \/ WriteDataJob(p) \/ CommitDataJobs(p) \/ NextBatch(p)
  <2>1. UNCHANGED data
    BY <1>7 DEF SaveInfoJobs, WriteInfoJob, CommitInfoJobs, SaveDataJobs, WriteDataJob,
                CommitDataJobs, NextBatch
  <2>2. End(p) \/ \E t : Goto(p, t) /\ t.pc # "found"
    <3>1. CASE SaveInfoJobs(p)
      BY <3>1 DEF SaveInfoJobs
    <3>2. CASE WriteInfoJob(p)
      BY <3>2 DEF WriteInfoJob
    <3>3. CASE SaveDataJobs(p)
      BY <3>3 DEF SaveDataJobs
    <3>4. CASE WriteDataJob(p)
      BY <3>4 DEF WriteDataJob
    <3>5. CASE CommitInfoJobs(p) \/ CommitDataJobs(p)
      BY <3>5 DEF CommitInfoJobs, CommitDataJobs
    <3>6. CASE NextBatch(p)
      BY <3>6, BatchMove
    <3>7. QED
      BY <1>7, <3>1, <3>2, <3>3, <3>4, <3>5, <3>6
  <2>3. Reads(p)
    BY <1>1, <2>2, IdleReads, FindsNothing
  <2>4. QED
    BY <2>1, <2>3 DEF Retypes
<1>8. QED
  BY <1>2, <1>3, <1>4, <1>5, <1>6, <1>7, SyncReads
     DEF Step, Abort, CreateInfoInsert, UpdateInfoFlush, DeadlockVictim

(* A user's change to a row is lost only to a sync that had read the row   *)
(* before it: whatever reads the row afterwards leaves it to the user.     *)
THEOREM UserDataStays == Spec => UserDataSafe
<1> DEFINE A == \A r \in LiveData :
                   data[r].type = "USER" /\ ~ReadByASync(r)
                       => data'[r] = NoRow \/ (data'[r].type = "USER" /\ ~ReadByASync(r)')
<1>1. ASSUME IInv, [Next]_vars PROVE [A]_vars
  <2> SUFFICES ASSUME ~UNCHANGED vars, NEW r \in LiveData, data[r].type = "USER",
                      ~ReadByASync(r), data'[r] # NoRow
               PROVE  data'[r].type = "USER" /\ ~ReadByASync(r)'
    OBVIOUS
  <2>1. PICK p \in Proc : Request(p) \/ Step(p) \/ Abort(p)
    BY <1>1 DEF Next, Quiescent
  <2>2. /\ Reads(p) \/ UNCHANGED tx
        /\ Retypes(p)
        /\ Effect(p) \/ UNCHANGED tx
    BY <1>1, <2>1, RequestReads, StepReads, RequestEffect, StepEffect DEF IInv
  <2>3. data'[r].type = "USER"
    BY <2>2 DEF Retypes, ReadByASync
  <2>4. ASSUME NEW q \in Proc, tx'[q].pc = "found", tx'[q].row = r PROVE FALSE
    <3>1. CASE tx'[q] = tx[q]
      BY <2>4, <3>1 DEF ReadByASync, At
    <3>2. CASE q = p /\ Reads(p)
      BY <2>4, <3>2 DEF Reads
    <3>3. QED
      BY <2>2, <3>1, <3>2 DEF Effect
  <2>5. QED
    BY <2>3, <2>4 DEF ReadByASync, At
<1>2. QED
  BY <1>1, Invariant, PTL DEF Spec, UserDataSafe

=============================================================================
