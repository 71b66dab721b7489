-------------------------- MODULE IndexStoreProofs --------------------------
(* IInv is inductive for every set of threads, names and dates and every   *)
(* bound, so its conjuncts hold in every reachable state of IndexStore; by *)
(* it no call waits for a lock for want of somebody to free it.            *)
EXTENDS IndexStore, TLAPS

(* Where an open transaction holds something the tables have to agree with.*)
Lasting == {"upserted", "updateInfo"} \cup Writing

USE DEF InfoId, DataId, NoInfo, Source, Enabled, Key, Lasting, Writing

-----------------------------------------------------------------------------
(* Facts about open transactions.                                          *)

LEMMA IdleInTx == Idle \in Tx /\ Idle.pc = "idle"
BY DEF Idle, Tx

LEMMA TxFields ==
    ASSUME NEW t \in Tx
    PROVE  /\ t.pc = "createInfo" => t.name \in Name
           /\ t.pc = "updateInfo" => t.info \in InfoId /\ t.copy \in InfoRow
           /\ t.pc \in {"dropRows"} \cup Deleting =>
                 t.info \in InfoId /\ t.victims \subseteq DataId
           /\ t.pc = "createData" => t.info \in InfoId /\ t.date \in Date
           /\ t.pc \in InfoSync =>
                 t.exec \in Nat /\ t.batch \subseteq RawName /\ t.left \subseteq RawName
           /\ t.pc = "upserted" => t.name \in RawName /\ t.info \in InfoId \cup {NoInfo}
           /\ t.pc \in DataSync => t.exec \in Nat /\ t.later \subseteq InfoId
           /\ t.pc \in DataSync \ {"fetching"} => t.batch \subseteq Key /\ t.left \subseteq Key
           /\ t.pc \in {"missing", "found"} => t.key \in Key
           /\ t.pc = "found" => t.row \in DataId
           /\ t.pc \in Writing => t.jobs \subseteq JobRow
BY DEF Tx, Idle, Deleting, InfoSync, DataSync

(* A thread that leaves an upsert, a PATCH or the writing of history, or   *)
(* was in none, leaves those of the other threads as they are.             *)
LEMMA QuietTx ==
    ASSUME TypeOK, NEW p \in Proc, NEW t \in Tx, t.pc \notin Lasting,
           Goto(p, t)
    PROVE  /\ tx' \in [Proc -> Tx]
           /\ \A q \in Proc : tx'[q].pc \in Lasting =>
                                 q # p /\ tx'[q] = tx[q]
BY DEF TypeOK, Goto

(* A step that touches no table and opens nothing that lasts.              *)
LEMMA QuietStep ==
    ASSUME IInv, NEW p \in Proc, NEW t \in Tx, t.pc \notin Lasting,
           Goto(p, t), requests' \in 0..MaxRequests, aborts' \in 0..MaxAborts,
           UNCHANGED <<info, config, data, job, nextInfo, nextData>>
    PROVE  IInv'
<1>1. /\ tx' \in [Proc -> Tx]
      /\ \A q \in Proc : tx'[q].pc \in Lasting => q # p /\ tx'[q] = tx[q]
  BY QuietTx DEF IInv
<1>2. TypeOK'
  BY <1>1 DEF IInv, TypeOK
<1>3. (IdsUnused /\ UniqueNames /\ UniqueKeys /\ DataHasInfo /\ ConfigIffInfo
         /\ JobReferencesLive /\ UserInfoUntouched)'
  BY DEF IInv, IdsUnused, UniqueNames, UniqueKeys, DataHasInfo, ConfigIffInfo,
         JobReferencesLive, UserInfoUntouched, LiveInfo, LiveData
<1>4. (UpsertedInfoStays /\ OneUpsertPerName /\ CopyOfSameRow /\ NotedInfoStays)'
  BY <1>1 DEF IInv, UpsertedInfoStays, OneUpsertPerName, CopyOfSameRow, NotedInfoStays, At,
              Named, LiveInfo
<1>5. QED
  BY <1>2, <1>3, <1>4 DEF IInv

(* The steps that only move a thread along.                                *)
LEMMA BeginRequest ==
    ASSUME IInv, NEW p \in Proc, NEW t \in Tx, t.pc \notin Lasting,
           Begin(p, t),
           UNCHANGED <<info, config, data, job, nextInfo, nextData, aborts>>
    PROVE  IInv'
<1>1. requests' \in 0..MaxRequests /\ aborts' \in 0..MaxAborts /\ Goto(p, t)
  BY BoundAssumption DEF Begin, Goto, IInv, TypeOK
<1>2. QED
  BY <1>1, QuietStep

LEMMA MoveOn ==
    ASSUME IInv, NEW p \in Proc, NEW t \in Tx, t.pc \notin Lasting,
           Goto(p, t),
           UNCHANGED <<info, config, data, job, nextInfo, nextData, requests, aborts>>
    PROVE  IInv'
<1>1. requests' \in 0..MaxRequests /\ aborts' \in 0..MaxAborts
  BY DEF IInv, TypeOK
<1>2. QED
  BY <1>1, QuietStep

LEMMA CreateInfoBeginInv ==
    ASSUME IInv, NEW p \in Proc, NEW raw \in RawName, CreateInfoBegin(p, raw)
    PROVE  IInv'
<1> DEFINE t == [pc |-> "createInfo", name |-> Strip[raw]]
<1>1. t \in Tx /\ t.pc \notin Lasting
  BY StripAssumption DEF Tx
<1>2. QED
  BY <1>1, BeginRequest DEF CreateInfoBegin

LEMMA DeleteInfoBeginInv ==
    ASSUME IInv, NEW p \in Proc, NEW i \in InfoId, DeleteInfoBegin(p, i)
    PROVE  IInv'
<1> DEFINE t == [pc |-> "dropRows", info |-> i, victims |-> {}]
<1>1. t \in Tx /\ t.pc \notin Lasting
  BY DEF Tx
<1>2. QED
  BY <1>1, BeginRequest DEF DeleteInfoBegin

LEMMA CreateIndexDataBeginInv ==
    ASSUME IInv, NEW p \in Proc, NEW i \in InfoId, NEW d \in Date,
           CreateIndexDataBegin(p, i, d)
    PROVE  IInv'
<1> DEFINE t == [pc |-> "createData", info |-> i, date |-> d]
<1>1. t \in Tx /\ t.pc \notin Lasting
  BY DEF Tx
<1>2. QED
  BY <1>1, BeginRequest DEF CreateIndexDataBegin

LEMMA SyncInfosBeginInv ==
    ASSUME IInv, NEW p \in Proc, NEW batch \in SUBSET RawName, SyncInfosBegin(p, batch)
    PROVE  IInv'
<1> DEFINE t == [pc |-> "syncInfos", exec |-> requests + 1, batch |-> batch, left |-> batch]
<1>1. requests + 1 \in Nat
  BY BoundAssumption DEF IInv, TypeOK
<1>2. t \in Tx /\ t.pc \notin Lasting
  BY <1>1 DEF Tx
<1>3. QED
  BY <1>2, BeginRequest DEF SyncInfosBegin

LEMMA SyncDataBeginInv ==
    ASSUME IInv, NEW p \in Proc, NEW batch \in SUBSET Key, NEW later \in SUBSET InfoId,
           SyncDataBegin(p, batch, later)
    PROVE  IInv'
<1> DEFINE t == [pc |-> "syncData", exec |-> requests + 1, later |-> later,
                 batch |-> batch, left |-> batch]
<1>1. requests + 1 \in Nat
  BY BoundAssumption DEF IInv, TypeOK
<1>2. t \in Tx /\ t.pc \notin Lasting
  BY <1>1 DEF Tx
<1>3. QED
  BY <1>2, BeginRequest DEF SyncDataBegin

LEMMA DeleteInfoStepsInv ==
    ASSUME IInv, NEW p \in Proc,
           DeleteInfoRows(p) \/ DeleteInfoLoad(p) \/ DeleteInfoFlush(p)
    PROVE  IInv'
<1>0. tx[p] \in Tx
  BY DEF IInv, TypeOK
<1>1. CASE DeleteInfoRows(p)
  <2> DEFINE t == [tx[p] EXCEPT !.pc = "dropLoad", !.victims = RowsOf(tx[p].info)]
  <2>1. RowsOf(tx[p].info) \subseteq DataId
    BY DEF RowsOf, LiveData
  <2>2. tx[p] \in [pc : {"dropRows"} \cup Deleting, info : InfoId, victims : SUBSET DataId]
    BY <1>0, <1>1 DEF DeleteInfoRows, At, Tx, Idle, Deleting
  <2>3. t \in Tx /\ t.pc \notin Lasting
    BY <2>1, <2>2 DEF Tx, Deleting
  <2>4. QED
    BY <1>1, <2>3, MoveOn DEF DeleteInfoRows
<1>2. CASE DeleteInfoLoad(p)
  <2> DEFINE t == [tx[p] EXCEPT !.pc = "dropFlush"]
  <2>1. tx[p] \in [pc : {"dropRows"} \cup Deleting, info : InfoId, victims : SUBSET DataId]
    BY <1>0, <1>2 DEF DeleteInfoLoad, At, Tx, Idle, Deleting
  <2>2. t \in Tx /\ t.pc \notin Lasting
    BY <2>1 DEF Tx, Deleting
  <2>3. QED
    BY <1>2, <2>2, IdleInTx, MoveOn DEF DeleteInfoLoad, End
<1>3. CASE DeleteInfoFlush(p)
  <2> DEFINE t == [tx[p] EXCEPT !.pc = "dropInfo"]
  <2>1. tx[p] \in [pc : {"dropRows"} \cup Deleting, info : InfoId, victims : SUBSET DataId]
    BY <1>0, <1>3 DEF DeleteInfoFlush, At, Tx, Idle, Deleting
  <2>2. t \in Tx /\ t.pc \notin Lasting
    BY <2>1 DEF Tx, Deleting
  <2>3. QED
    BY <1>3, <2>2, IdleInTx, MoveOn DEF DeleteInfoFlush, End
<1>4. QED
  BY <1>1, <1>2, <1>3

LEMMA SyncDataReadInv ==
    ASSUME IInv, NEW p \in Proc, SyncDataRead(p)
    PROVE  IInv'
<1>0. tx[p] \in [pc : {"syncData"}, exec : Nat, later : SUBSET InfoId,
                 batch : SUBSET Key, left : SUBSET Key]
  BY DEF IInv, TypeOK, SyncDataRead, At, Tx, Idle, Deleting
<1>1. PICK k \in tx[p].left : ReadRow(p, k)
  BY DEF SyncDataRead
<1>2. k \in Key
  BY <1>0, <1>1
<1> DEFINE gone == [pc |-> "missing", exec |-> tx[p].exec, later |-> tx[p].later,
                    batch |-> tx[p].batch, left |-> tx[p].left \ {k}, key |-> k]
           there(r) == [pc |-> "found", exec |-> tx[p].exec, later |-> tx[p].later,
                        batch |-> tx[p].batch, left |-> tx[p].left \ {k}, key |-> k,
                        row |-> r]
           kept == [tx[p] EXCEPT !.left = @ \ {k}]
<1>3. gone \in Tx /\ gone.pc \notin Lasting
  BY <1>0, <1>2 DEF Tx
<1>4. \A r \in DataId : there(r) \in Tx /\ there(r).pc \notin Lasting
  BY <1>0, <1>2 DEF Tx
<1>5. kept \in Tx /\ kept.pc \notin Lasting
  BY <1>0 DEF Tx
<1>6. Goto(p, gone) \/ Goto(p, kept) \/ \E r \in DataId : Goto(p, there(r))
  BY <1>1 DEF ReadRow, RowsAt, LiveData
<1>7. UNCHANGED <<info, config, data, job, nextInfo, nextData, requests, aborts>>
  BY DEF SyncDataRead
<1>8. QED
  BY <1>3, <1>4, <1>5, <1>6, <1>7, MoveOn

LEMMA LostTransactionInv ==
    ASSUME IInv, NEW p \in Proc, DeadlockVictim(p) \/ Abort(p)
    PROVE  IInv'
<1>1. Goto(p, Idle)
  BY DEF DeadlockVictim, Abort, End
<1>2. requests' \in 0..MaxRequests /\ aborts' \in 0..MaxAborts
  BY BoundAssumption DEF IInv, TypeOK, DeadlockVictim, Abort
<1>3. UNCHANGED <<info, config, data, job, nextInfo, nextData>>
  BY DEF DeadlockVictim, Abort
<1>4. QED
  BY <1>1, <1>2, <1>3, IdleInTx, QuietStep


-----------------------------------------------------------------------------
(* Steps that open a PATCH or an upsert.                                   *)

LEMMA UpdateInfoBeginInv ==
    ASSUME IInv, NEW p \in Proc, NEW i \in InfoId, UpdateInfoBegin(p, i)
    PROVE  IInv'
<1>1. i \in LiveInfo /\ info[i] \in InfoRow /\ i < nextInfo
  BY BoundAssumption DEF UpdateInfoBegin, IInv, TypeOK, LiveInfo, IdsUnused
<1>2. PICK copy \in {info[i], [info[i] EXCEPT !.figures = "USER"]} :
         Begin(p, [pc |-> "updateInfo", info |-> i, copy |-> copy])
  BY DEF UpdateInfoBegin
<1>3. /\ copy \in InfoRow
      /\ copy.name = info[i].name /\ copy.source = info[i].source
      /\ copy.source = "USER" => copy.figures = "USER"
  BY <1>1, <1>2 DEF InfoRow, IInv, UserInfoUntouched
<1> DEFINE t == [pc |-> "updateInfo", info |-> i, copy |-> copy]
<1>4. t \in Tx
  BY <1>3 DEF Tx
<1>5. /\ requests' \in 0..MaxRequests /\ tx' = [tx EXCEPT ![p] = t]
      /\ UNCHANGED <<info, config, data, job, nextInfo, nextData, aborts>>
  <2>1. tx' = [tx EXCEPT ![p] = t]
    BY <1>2 DEF Begin
  <2>2. requests < MaxRequests /\ requests' = requests + 1
    BY <1>2 DEF Begin
  <2>3. requests' \in 0..MaxRequests
    BY <2>2, BoundAssumption DEF IInv, TypeOK
  <2>4. QED
    BY <2>1, <2>3 DEF UpdateInfoBegin
<1>6. TypeOK'
  BY <1>4, <1>5 DEF IInv, TypeOK
<1>7. (IdsUnused /\ UniqueNames /\ UniqueKeys /\ DataHasInfo /\ ConfigIffInfo
         /\ JobReferencesLive /\ UserInfoUntouched)'
  BY <1>5 DEF IInv, IdsUnused, UniqueNames, UniqueKeys, DataHasInfo, ConfigIffInfo,
              JobReferencesLive, UserInfoUntouched, LiveInfo, LiveData
<1>8. \A q \in Proc : tx'[q] = IF q = p THEN t ELSE tx[q]
  BY <1>5 DEF IInv, TypeOK
<1>9. (UpsertedInfoStays /\ OneUpsertPerName /\ NotedInfoStays)'
  BY <1>5, <1>8 DEF IInv, UpsertedInfoStays, OneUpsertPerName, NotedInfoStays, At, Named,
                    LiveInfo
<1>10. CopyOfSameRow'
  BY <1>1, <1>3, <1>5, <1>8 DEF IInv, CopyOfSameRow, At, LiveInfo
<1>11. QED
  BY <1>6, <1>7, <1>9, <1>10 DEF IInv

LEMMA UpsertInfoInv ==
    ASSUME IInv, NEW p \in Proc, UpsertInfo(p)
    PROVE  IInv'
<1>0. tx[p] \in [pc : {"syncInfos"}, exec : Nat, batch : SUBSET RawName,
                 left : SUBSET RawName]
  BY DEF IInv, TypeOK, UpsertInfo, At, Tx, Idle, Deleting
<1>1. PICK n \in tx[p].left :
         /\ ~NameLocked(Strip[n], p)
         /\ \E i \in IF Named(Strip[n]) = {} THEN {NoInfo} ELSE Named(Strip[n]) :
               Goto(p, [pc |-> "upserted", exec |-> tx[p].exec, batch |-> tx[p].batch,
                        left |-> tx[p].left \ {n}, name |-> n, info |-> i])
  BY DEF UpsertInfo
<1>2. PICK i \in IF Named(Strip[n]) = {} THEN {NoInfo} ELSE Named(Strip[n]) :
         Goto(p, [pc |-> "upserted", exec |-> tx[p].exec, batch |-> tx[p].batch,
                  left |-> tx[p].left \ {n}, name |-> n, info |-> i])
  BY <1>1
<1>3. n \in RawName /\ Strip[n] \in Name
  BY <1>0, StripAssumption
<1>4. /\ i \in InfoId \cup {NoInfo}
      /\ Named(Strip[n]) = IF i = NoInfo THEN {} ELSE {i}
  BY <1>2, <1>3, BoundAssumption DEF Named, LiveInfo, IInv, UniqueNames
<1> DEFINE t == [pc |-> "upserted", exec |-> tx[p].exec, batch |-> tx[p].batch,
                 left |-> tx[p].left \ {n}, name |-> n, info |-> i]
<1>5. t \in Tx
  BY <1>0, <1>3, <1>4 DEF Tx
<1>6. /\ tx' = [tx EXCEPT ![p] = t]
      /\ UNCHANGED <<info, config, data, job, nextInfo, nextData, requests, aborts>>
  BY <1>2 DEF Goto, UpsertInfo
<1>7. TypeOK'
  BY <1>5, <1>6 DEF IInv, TypeOK
<1>8. (IdsUnused /\ UniqueNames /\ UniqueKeys /\ DataHasInfo /\ ConfigIffInfo
         /\ JobReferencesLive /\ UserInfoUntouched)'
  BY <1>6 DEF IInv, IdsUnused, UniqueNames, UniqueKeys, DataHasInfo, ConfigIffInfo,
              JobReferencesLive, UserInfoUntouched, LiveInfo, LiveData
<1>9. \A q \in Proc : tx'[q] = IF q = p THEN t ELSE tx[q]
  BY <1>6 DEF IInv, TypeOK
<1>10. UpsertedInfoStays'
  BY <1>4, <1>6, <1>9 DEF IInv, UpsertedInfoStays, At, Named, LiveInfo
<1>11. OneUpsertPerName'
  <2>1. \A q \in Proc \ {p} : tx[q].pc = "upserted" => Strip[tx[q].name] # Strip[n]
    BY <1>1 DEF NameLocked, At
  <2>2. QED
    BY <2>1, <1>9 DEF IInv, OneUpsertPerName, At
<1>12. (CopyOfSameRow /\ NotedInfoStays)'
  BY <1>6, <1>9 DEF IInv, CopyOfSameRow, NotedInfoStays, At, LiveInfo
<1>13. QED
  BY <1>7, <1>8, <1>10, <1>11, <1>12 DEF IInv

-----------------------------------------------------------------------------
(* A new index_info row with its config, under a name nobody else uses.    *)
LEMMA AddInfoInv ==
    ASSUME IInv, NEW n \in Name, NEW source \in Source, AddInfo(n, source), Named(n) = {},
           NEW p \in Proc, ~NameLocked(n, p),
           NEW t \in Tx, t.pc \notin Lasting, Goto(p, t),
           UNCHANGED <<data, job, nextData, requests, aborts>>
    PROVE  IInv'
<1> DEFINE row == [name |-> n, source |-> source, figures |-> source]
<1>1. /\ row \in InfoRow /\ row # NoRow /\ "OFF" # NoRow
      /\ nextInfo \in InfoId /\ info[nextInfo] = NoRow
  BY NullAssumption DEF InfoRow, AddInfo, IInv, IdsUnused
<1>2. /\ info' = [info EXCEPT ![nextInfo] = row]
      /\ config' = [config EXCEPT ![nextInfo] = "OFF"]
      /\ nextInfo' = nextInfo + 1
  BY DEF AddInfo
<1>3. /\ tx' \in [Proc -> Tx]
      /\ \A q \in Proc : tx'[q].pc \in Lasting => q # p /\ tx'[q] = tx[q]
  BY QuietTx DEF IInv
<1>4. TypeOK'
  BY <1>1, <1>2, <1>3, BoundAssumption DEF IInv, TypeOK
<1>5. /\ \A i \in InfoId : info'[i] = IF i = nextInfo THEN row ELSE info[i]
      /\ \A i \in InfoId : config'[i] = IF i = nextInfo THEN "OFF" ELSE config[i]
      /\ LiveInfo' = LiveInfo \cup {nextInfo}
  BY <1>1, <1>2 DEF IInv, TypeOK, LiveInfo
<1>6. (IdsUnused /\ ConfigIffInfo /\ UserInfoUntouched)'
  BY <1>1, <1>2, <1>5, BoundAssumption
     DEF IInv, TypeOK, IdsUnused, ConfigIffInfo, UserInfoUntouched
<1>7. UniqueNames'
  BY <1>1, <1>5 DEF IInv, UniqueNames, Named, LiveInfo
<1>8. (UniqueKeys /\ DataHasInfo /\ JobReferencesLive)'
  BY <1>5 DEF IInv, UniqueKeys, DataHasInfo, JobReferencesLive, LiveData
<1>9. \A m : m # n => Named(m)' = Named(m)
  BY <1>1, <1>5 DEF Named, LiveInfo
<1>10. \A q \in Proc \ {p} : tx[q].pc = "upserted" => Strip[tx[q].name] # n
  BY DEF NameLocked, At
<1>11. (UpsertedInfoStays /\ OneUpsertPerName)'
  <2>1. \A q \in Proc : tx'[q].pc = "upserted" => q # p /\ tx'[q] = tx[q]
    BY <1>3
  <2>2. UpsertedInfoStays'
    BY <1>9, <1>10, <2>1 DEF IInv, UpsertedInfoStays, At
  <2>3. OneUpsertPerName'
    BY <2>1 DEF IInv, OneUpsertPerName, At
  <2>4. QED
    BY <2>2, <2>3
<1>12. CopyOfSameRow'
  <2> SUFFICES ASSUME NEW q \in Proc, tx'[q].pc = "updateInfo"
               PROVE  /\ tx[q].info < nextInfo'
                      /\ tx[q].copy.source = "USER" => tx[q].copy.figures = "USER"
                      /\ tx[q].info \in LiveInfo' =>
                           /\ tx[q].copy.name = info'[tx[q].info].name
                           /\ tx[q].copy.source = info'[tx[q].info].source
    BY <1>3 DEF CopyOfSameRow, At
  <2>1. tx'[q] = tx[q]
    BY <1>3
  <2>2. /\ tx[q].info \in InfoId /\ tx[q].info < nextInfo
        /\ tx[q].copy.source = "USER" => tx[q].copy.figures = "USER"
        /\ tx[q].info \in LiveInfo =>
              /\ tx[q].copy.name = info[tx[q].info].name
              /\ tx[q].copy.source = info[tx[q].info].source
    BY <2>1, TxFields DEF IInv, TypeOK, CopyOfSameRow, At
  <2>3. QED
    BY <2>2, <1>1, <1>2, <1>5
<1>13. NotedInfoStays'
  BY <1>3, <1>5 DEF IInv, NotedInfoStays
<1>14. QED
  BY <1>4, <1>6, <1>7, <1>8, <1>11, <1>12, <1>13 DEF IInv

LEMMA CreateInfoInsertInv ==
    ASSUME IInv, NEW p \in Proc, CreateInfoInsert(p)
    PROVE  IInv'
<1>1. tx[p].name \in Name
  BY TxFields DEF IInv, TypeOK, CreateInfoInsert, At
<1>2. Goto(p, Idle)
  BY DEF CreateInfoInsert, End
<1>3. CASE Named(tx[p].name) = {}
  BY <1>1, <1>2, <1>3, IdleInTx, AddInfoInv DEF CreateInfoInsert
<1>4. CASE Named(tx[p].name) # {}
  BY <1>2, <1>4, IdleInTx, MoveOn DEF CreateInfoInsert
<1>5. QED
  BY <1>3, <1>4

(* A write to live index_info rows that keeps their names and sources.     *)
LEMMA RewriteInfo ==
    ASSUME IInv, NEW p \in Proc,
           NEW t \in Tx, t.pc \notin Lasting, Goto(p, t),
           info' \in [InfoId -> InfoRow \cup {NoRow}],
           LiveInfo' = LiveInfo,
           \A i \in LiveInfo : /\ info'[i].name = info[i].name
                               /\ info'[i].source = info[i].source
                               /\ info'[i].source = "USER" => info'[i].figures = "USER",
           UNCHANGED <<config, data, job, nextInfo, nextData, requests, aborts>>
    PROVE  IInv'
<1>1. /\ tx' \in [Proc -> Tx]
      /\ \A q \in Proc : tx'[q].pc \in Lasting => q # p /\ tx'[q] = tx[q]
  BY QuietTx DEF IInv
<1>2. TypeOK'
  BY <1>1 DEF IInv, TypeOK
<1>3. \A i \in InfoId : info'[i] = NoRow <=> info[i] = NoRow
  BY DEF LiveInfo
<1>4. (IdsUnused /\ UniqueNames /\ UniqueKeys /\ DataHasInfo /\ ConfigIffInfo
         /\ JobReferencesLive /\ UserInfoUntouched)'
  BY <1>3 DEF IInv, IdsUnused, UniqueNames, UniqueKeys, DataHasInfo, ConfigIffInfo,
              JobReferencesLive, UserInfoUntouched, LiveData
<1>5. \A m : Named(m)' = Named(m)
  BY DEF Named
<1>6. (UpsertedInfoStays /\ OneUpsertPerName)'
  <2>1. \A q \in Proc : tx'[q].pc = "upserted" => tx'[q] = tx[q]
    BY <1>1
  <2>2. UpsertedInfoStays'
    BY <1>5, <2>1 DEF IInv, UpsertedInfoStays, At
  <2>3. OneUpsertPerName'
    BY <2>1 DEF IInv, OneUpsertPerName, At
  <2>4. QED
    BY <2>2, <2>3
<1>7. (CopyOfSameRow /\ NotedInfoStays)'
  BY <1>1 DEF IInv, CopyOfSameRow, NotedInfoStays, At
<1>8. QED
  BY <1>2, <1>4, <1>6, <1>7 DEF IInv

LEMMA UpdateInfoFlushInv ==
    ASSUME IInv, NEW p \in Proc, UpdateInfoFlush(p)
    PROVE  IInv'
<1>1. tx[p].info \in InfoId /\ tx[p].copy \in InfoRow /\ tx[p].pc = "updateInfo"
  BY TxFields DEF IInv, TypeOK, UpdateInfoFlush, At
<1>2. /\ tx[p].copy.source = "USER" => tx[p].copy.figures = "USER"
      /\ tx[p].info \in LiveInfo => /\ tx[p].copy.name = info[tx[p].info].name
                                    /\ tx[p].copy.source = info[tx[p].info].source
  BY <1>1 DEF IInv, CopyOfSameRow, At
<1>3. info' = IF tx[p].info \in LiveInfo
                THEN [info EXCEPT ![tx[p].info] = tx[p].copy] ELSE info
  BY DEF UpdateInfoFlush
<1>4. tx[p].copy # NoRow
  BY <1>1, NullAssumption
<1>5. info' \in [InfoId -> InfoRow \cup {NoRow}]
  BY <1>1, <1>3 DEF IInv, TypeOK
<1>6. LiveInfo' = LiveInfo
  BY <1>1, <1>3, <1>4 DEF IInv, TypeOK, LiveInfo
<1>7. \A i \in LiveInfo : /\ info'[i].name = info[i].name
                          /\ info'[i].source = info[i].source
                          /\ info'[i].source = "USER" => info'[i].figures = "USER"
  BY <1>1, <1>2, <1>3 DEF IInv, TypeOK, LiveInfo, UserInfoUntouched
<1>8. Goto(p, Idle) /\ UNCHANGED <<config, data, job, nextInfo, nextData, requests, aborts>>
  BY DEF UpdateInfoFlush, End
<1>9. QED
  BY <1>5, <1>6, <1>7, <1>8, IdleInTx, RewriteInfo

LEMMA SyncInfoCommitInv ==
    ASSUME IInv, NEW p \in Proc, SyncInfoCommit(p)
    PROVE  IInv'
<1> DEFINE u == [pc |-> "syncInfos", exec |-> tx[p].exec, batch |-> tx[p].batch,
                 left |-> tx[p].left]
           i == tx[p].info
<1>1. /\ tx[p].pc = "upserted" /\ tx[p].exec \in Nat /\ tx[p].batch \subseteq RawName
      /\ tx[p].left \subseteq RawName /\ tx[p].name \in RawName
      /\ i \in InfoId \cup {NoInfo}
  BY TxFields DEF IInv, TypeOK, SyncInfoCommit, At, InfoSync
<1>2. Strip[tx[p].name] \in Name
  BY <1>1, StripAssumption
<1>3. u \in Tx /\ u.pc \notin Lasting
  BY <1>1 DEF Tx
<1>4. Named(Strip[tx[p].name]) = IF i = NoInfo THEN {} ELSE {i}
  BY <1>1 DEF IInv, UpsertedInfoStays, At
<1>5. Goto(p, u) /\ UNCHANGED <<data, job, nextData, requests, aborts>>
  BY DEF SyncInfoCommit
<1>6. CASE i = NoInfo
  <2>1. ~NameLocked(Strip[tx[p].name], p)
    BY <1>1 DEF NameLocked, At, IInv, OneUpsertPerName
  <2>2. AddInfo(Strip[tx[p].name], "OPEN_API")
    BY <1>6 DEF SyncInfoCommit
  <2>3. QED
    BY <1>2, <1>3, <1>4, <1>5, <1>6, <2>1, <2>2, AddInfoInv
<1>7. CASE i # NoInfo
  <2>1. RefreshInfo(i) /\ CreateIfAbsent(i) /\ nextInfo' = nextInfo
    BY <1>7 DEF SyncInfoCommit
  <2>2. i \in LiveInfo /\ info[i] \in InfoRow
    BY <1>4, <1>7 DEF Named, LiveInfo, IInv, TypeOK
  <2>3. config' = config
    BY <2>1, <2>2 DEF CreateIfAbsent, IInv, ConfigIffInfo, LiveInfo
  <2>4. info' \in [InfoId -> InfoRow \cup {NoRow}]
    BY <2>1, <2>2 DEF RefreshInfo, IInv, TypeOK, InfoRow
  <2>5. LiveInfo' = LiveInfo
    <3>1. [info[i] EXCEPT !.figures = "OPEN_API"] \in InfoRow
      BY <2>2 DEF InfoRow
    <3>2. [info[i] EXCEPT !.figures = "OPEN_API"] # NoRow
      BY <3>1, NullAssumption
    <3>3. QED
      BY <2>1, <2>2, <3>2 DEF RefreshInfo, IInv, TypeOK, LiveInfo
  <2>6. \A h \in LiveInfo : /\ info'[h].name = info[h].name
                            /\ info'[h].source = info[h].source
                            /\ info'[h].source = "USER" => info'[h].figures = "USER"
    BY <2>1, <2>2 DEF RefreshInfo, IInv, TypeOK, LiveInfo, UserInfoUntouched, InfoRow
  <2>7. QED
    BY <1>3, <1>5, <2>1, <2>3, <2>4, <2>5, <2>6, RewriteInfo
<1>8. QED
  BY <1>6, <1>7


-----------------------------------------------------------------------------
(* Deletion: the rows of index_data, the config and the info go together.  *)
LEMMA DeleteInfoCommitInv ==
    ASSUME IInv, NEW p \in Proc, DeleteInfoCommit(p)
    PROVE  IInv'
<1> DEFINE i == tx[p].info
           V == tx[p].victims
<1>1. i \in InfoId /\ V \subseteq DataId
  BY TxFields DEF IInv, TypeOK, DeleteInfoCommit, At, Deleting
<1>2. Goto(p, Idle) /\ UNCHANGED <<nextInfo, nextData, requests, aborts>>
  BY DEF DeleteInfoCommit, End
<1>3. CASE ~(RowsOf(i) \subseteq V)
  BY <1>2, <1>3, IdleInTx, MoveOn DEF DeleteInfoCommit
<1>4. CASE RowsOf(i) \subseteq V
  <2>1. /\ data' = [r \in DataId |-> IF r \in V THEN NoRow ELSE data[r]]
        /\ config' = [config EXCEPT ![i] = NoRow]
        /\ info' = [info EXCEPT ![i] = NoRow]
        /\ DetachJobs(i)
        /\ ~NameLocked(info[i].name, p) /\ ~InfoShared(i, p)
    BY <1>4 DEF DeleteInfoCommit
  <2>2. /\ tx' \in [Proc -> Tx]
        /\ \A q \in Proc : tx'[q].pc \in Lasting => q # p /\ tx'[q] = tx[q]
    BY <1>2, IdleInTx, QuietTx DEF IInv
  <2>3. \A j \in job : [j EXCEPT !.info = NoInfo] \in JobRow
    BY DEF IInv, TypeOK, JobRow
  <2>4. TypeOK'
    <3>1. job' \subseteq JobRow
      BY <2>1, <2>3 DEF DetachJobs, IInv, TypeOK
    <3>2. data' \in [DataId -> DataRow \cup {NoRow}]
      BY <2>1 DEF IInv, TypeOK
    <3>3. QED
      BY <1>1, <1>2, <2>1, <2>2, <3>1, <3>2 DEF IInv, TypeOK
  <2>5. /\ LiveInfo' = LiveInfo \ {i}
        /\ \A h \in LiveInfo' : info'[h] = info[h] /\ h # i
        /\ \A h \in InfoId : config'[h] = IF h = i THEN NoRow ELSE config[h]
        /\ \A h \in InfoId : info'[h] = IF h = i THEN NoRow ELSE info[h]
    BY <1>1, <2>1 DEF IInv, TypeOK, LiveInfo
  <2>6. /\ LiveData' = LiveData \ V
        /\ \A r \in LiveData' : data'[r] = data[r] /\ r \in LiveData
        /\ \A r \in DataId : data'[r] = data[r] \/ data'[r] = NoRow
    BY <1>1, <2>1 DEF IInv, TypeOK, LiveData
  <2>7. (IdsUnused /\ ConfigIffInfo /\ UserInfoUntouched /\ UniqueNames)'
    BY <1>2, <2>5, <2>6 DEF IInv, IdsUnused, ConfigIffInfo, UserInfoUntouched, UniqueNames
  <2>8. UniqueKeys'
    BY <2>6 DEF IInv, UniqueKeys
  <2>9. DataHasInfo'
    BY <1>4, <2>5, <2>6 DEF IInv, DataHasInfo, RowsOf
  <2>10. JobReferencesLive'
    <3>1. \A j \in job' : j.info # i /\ j.info \in LiveInfo \cup {NoInfo}
      <4> SUFFICES ASSUME NEW h \in job
                   PROVE  LET k == IF h.info = i THEN [h EXCEPT !.info = NoInfo] ELSE h
                          IN  k.info # i /\ k.info \in LiveInfo \cup {NoInfo}
        BY <2>1 DEF DetachJobs
      <4>1. h \in JobRow /\ h.info \in LiveInfo \cup {NoInfo}
        BY DEF IInv, TypeOK, JobReferencesLive
      <4>2. [h EXCEPT !.info = NoInfo].info = NoInfo
        BY <4>1 DEF JobRow
      <4>3. QED
        BY <1>1, <4>1, <4>2
    <3>2. QED
      BY <2>5, <3>1 DEF JobReferencesLive
  <2>11. \A q \in Proc \ {p} : tx[q].pc = "upserted" => Strip[tx[q].name] # info[i].name
    BY <2>1 DEF NameLocked, At
  <2>12. \A m : m # info[i].name => Named(m)' = Named(m)
    BY <2>5 DEF Named, LiveInfo
  <2>13. (UpsertedInfoStays /\ OneUpsertPerName)'
    BY <2>2, <2>11, <2>12 DEF IInv, UpsertedInfoStays, OneUpsertPerName, At
  <2>14. CopyOfSameRow'
    BY <1>2, <2>2, <2>5 DEF IInv, CopyOfSameRow, At
  <2>15. NotedInfoStays'
    BY <2>1, <2>2, <2>5 DEF IInv, NotedInfoStays, InfoShared
  <2>16. QED
    BY <2>4, <2>7, <2>8, <2>9, <2>10, <2>13, <2>14, <2>15 DEF IInv
<1>5. QED
  BY <1>3, <1>4

-----------------------------------------------------------------------------
(* Steps on index_data and sync_job leave index_info alone.                *)
LEMMA KeepInfo ==
    ASSUME IInv, NEW p \in Proc,
           NEW t \in Tx, t.pc \notin Lasting, Goto(p, t),
           requests' \in 0..MaxRequests,
           data' \in [DataId -> DataRow \cup {NoRow}], nextData' \in 1..(MaxData + 1),
           job' \subseteq JobRow,
           \A r \in DataId : r >= nextData' => data'[r] = NoRow,
           UniqueKeys', DataHasInfo', JobReferencesLive',
           UNCHANGED <<info, config, nextInfo, aborts>>
    PROVE  IInv'
<1>1. /\ tx' \in [Proc -> Tx]
      /\ \A q \in Proc : tx'[q].pc \in Lasting => q # p /\ tx'[q] = tx[q]
  BY QuietTx DEF IInv
<1>2. TypeOK'
  BY <1>1 DEF IInv, TypeOK
<1>3. (IdsUnused /\ UniqueNames /\ ConfigIffInfo /\ UserInfoUntouched)'
  BY DEF IInv, IdsUnused, UniqueNames, ConfigIffInfo, UserInfoUntouched, LiveInfo
<1>4. (UpsertedInfoStays /\ OneUpsertPerName /\ CopyOfSameRow /\ NotedInfoStays)'
  BY <1>1 DEF IInv, UpsertedInfoStays, OneUpsertPerName, CopyOfSameRow, NotedInfoStays, At,
              Named, LiveInfo
<1>5. QED
  BY <1>2, <1>3, <1>4 DEF IInv

(* A write to index_data that moves no row to another key and adds none.   *)
LEMMA RewriteData ==
    ASSUME IInv, NEW p \in Proc,
           NEW t \in Tx, t.pc \notin Lasting, Goto(p, t),
           requests' \in 0..MaxRequests,
           data' \in [DataId -> DataRow \cup {NoRow}],
           LiveData' \subseteq LiveData,
           \A r \in LiveData' : data'[r].info = data[r].info /\ data'[r].date = data[r].date,
           UNCHANGED <<info, config, job, nextInfo, nextData, aborts>>
    PROVE  IInv'
<1>1. UniqueKeys'
  BY DEF IInv, UniqueKeys
<1>2. DataHasInfo' /\ JobReferencesLive'
  BY DEF IInv, DataHasInfo, JobReferencesLive, LiveInfo
<1>3. \A r \in DataId : r >= nextData' => data'[r] = NoRow
  BY DEF IInv, IdsUnused, LiveData
<1>4. nextData' \in 1..(MaxData + 1) /\ job' \subseteq JobRow
  BY DEF IInv, TypeOK
<1>5. QED
  BY <1>1, <1>2, <1>3, <1>4, KeepInfo

LEMMA TypeRewritten ==
    ASSUME IInv, NEW r \in LiveData, NEW type \in Source,
           data' = [data EXCEPT ![r].type = type]
    PROVE  /\ data' \in [DataId -> DataRow \cup {NoRow}]
           /\ LiveData' \subseteq LiveData
           /\ \A s \in LiveData' : data'[s].info = data[s].info /\ data'[s].date = data[s].date
<1>1. r \in DataId /\ data[r] \in DataRow
  BY DEF LiveData, IInv, TypeOK
<1>2. /\ [data[r] EXCEPT !.type = type] \in DataRow
      /\ [data[r] EXCEPT !.type = type].info = data[r].info
      /\ [data[r] EXCEPT !.type = type].date = data[r].date
  BY <1>1 DEF DataRow
<1>3. data' = [data EXCEPT ![r] = [data[r] EXCEPT !.type = type]]
  OBVIOUS
<1>4. data' \in [DataId -> DataRow \cup {NoRow}]
  BY <1>1, <1>2, <1>3 DEF IInv, TypeOK
<1>5. \A s \in DataId : data'[s] = IF s = r THEN [data[r] EXCEPT !.type = type] ELSE data[s]
  BY <1>1, <1>3 DEF IInv, TypeOK
<1>6. QED
  BY <1>2, <1>4, <1>5 DEF LiveData

LEMMA UserWriteInv ==
    ASSUME IInv, NEW p \in Proc, NEW r \in DataId,
           UpdateIndexData(p, r) \/ DeleteIndexData(p, r)
    PROVE  IInv'
<1>1. Goto(p, Idle)
  BY DEF UpdateIndexData, DeleteIndexData, Goto, IInv, TypeOK
<1>2. requests' \in 0..MaxRequests
  BY BoundAssumption DEF UpdateIndexData, DeleteIndexData, IInv, TypeOK
<1>3. r \in LiveData /\ UNCHANGED <<info, config, job, nextInfo, nextData, aborts>>
  BY DEF UpdateIndexData, DeleteIndexData
<1>4. CASE UpdateIndexData(p, r)
  <2>1. data' = [data EXCEPT ![r].type = "USER"]
    BY <1>4 DEF UpdateIndexData
  <2>2. /\ data' \in [DataId -> DataRow \cup {NoRow}]
        /\ LiveData' \subseteq LiveData
        /\ \A s \in LiveData' : data'[s].info = data[s].info /\ data'[s].date = data[s].date
    BY <1>3, <2>1, TypeRewritten
  <2>3. QED
    BY <1>1, <1>2, <1>3, <2>2, IdleInTx, RewriteData
<1>5. CASE DeleteIndexData(p, r)
  <2>1. data' = [data EXCEPT ![r] = NoRow]
    BY <1>5 DEF DeleteIndexData
  <2>2. /\ data' \in [DataId -> DataRow \cup {NoRow}]
        /\ LiveData' \subseteq LiveData
        /\ \A s \in LiveData' : data'[s].info = data[s].info /\ data'[s].date = data[s].date
    BY <2>1 DEF IInv, TypeOK, LiveData
  <2>3. QED
    BY <1>1, <1>2, <1>3, <2>2, IdleInTx, RewriteData
<1>6. QED
  BY <1>4, <1>5

LEMMA UpdateConfigInv ==
    ASSUME IInv, NEW p \in Proc, NEW i \in InfoId, NEW e \in Enabled, UpdateConfig(p, i, e)
    PROVE  IInv'
<1>1. /\ tx' = tx /\ requests' \in 0..MaxRequests
      /\ config' = [config EXCEPT ![i] = e] /\ config[i] # NoRow /\ e # NoRow
      /\ UNCHANGED <<info, data, job, nextInfo, nextData, aborts>>
  BY BoundAssumption, NullAssumption DEF UpdateConfig, IInv, TypeOK
<1>2. TypeOK'
  BY <1>1 DEF IInv, TypeOK
<1>3. ConfigIffInfo'
  BY <1>1 DEF IInv, TypeOK, ConfigIffInfo
<1>4. (IdsUnused /\ UniqueNames /\ UniqueKeys /\ DataHasInfo
         /\ JobReferencesLive /\ UserInfoUntouched)'
  BY <1>1 DEF IInv, IdsUnused, UniqueNames, UniqueKeys, DataHasInfo,
              JobReferencesLive, UserInfoUntouched, LiveInfo, LiveData
<1>5. (UpsertedInfoStays /\ OneUpsertPerName /\ CopyOfSameRow /\ NotedInfoStays)'
  BY <1>1 DEF IInv, UpsertedInfoStays, OneUpsertPerName, CopyOfSameRow, NotedInfoStays, At,
              Named, LiveInfo
<1>6. QED
  BY <1>2, <1>3, <1>4, <1>5 DEF IInv

(* A new row, under a key that is free and an info that exists.            *)
LEMMA AddDataInv ==
    ASSUME IInv, NEW k \in Key, NEW type \in Source, Insertable(k), AddData(k, type),
           NEW p \in Proc, NEW t \in Tx, t.pc \notin Lasting, Goto(p, t),
           UNCHANGED <<info, config, job, nextInfo, requests, aborts>>
    PROVE  IInv'
<1> DEFINE row == [info |-> k[1], date |-> k[2], type |-> type]
<1>1. /\ row \in DataRow /\ row # NoRow /\ row.info = k[1] /\ row.date = k[2]
      /\ nextData \in DataId
  BY NullAssumption DEF DataRow, AddData
<1>2. data' = [data EXCEPT ![nextData] = row] /\ nextData' = nextData + 1
  BY DEF AddData
<1>3. \A r \in DataId : data'[r] = IF r = nextData THEN row ELSE data[r]
  BY <1>1, <1>2 DEF IInv, TypeOK
<1>4. data' \in [DataId -> DataRow \cup {NoRow}] /\ nextData' \in 1..(MaxData + 1)
  BY <1>1, <1>2, BoundAssumption DEF IInv, TypeOK
<1>5. LiveData' = LiveData \cup {nextData}
  BY <1>1, <1>3 DEF LiveData
<1>6. UniqueKeys'
  BY <1>1, <1>3, <1>5 DEF IInv, UniqueKeys, Insertable, RowsAt, LiveData
<1>7. DataHasInfo'
  BY <1>1, <1>3, <1>5 DEF IInv, DataHasInfo, Insertable, LiveInfo, LiveData
<1>8. \A r \in DataId : r >= nextData' => data'[r] = NoRow
  BY <1>1, <1>2, <1>3, BoundAssumption DEF IInv, IdsUnused, TypeOK
<1>9. JobReferencesLive' /\ job' \subseteq JobRow /\ requests' \in 0..MaxRequests
  BY DEF IInv, TypeOK, JobReferencesLive, LiveInfo
<1>10. QED
  BY <1>4, <1>6, <1>7, <1>8, <1>9, KeepInfo

LEMMA CreateIndexDataInsertInv ==
    ASSUME IInv, NEW p \in Proc, CreateIndexDataInsert(p)
    PROVE  IInv'
<1> DEFINE k == <<tx[p].info, tx[p].date>>
<1>1. k \in Key
  BY TxFields DEF IInv, TypeOK, CreateIndexDataInsert, At
<1>2. Goto(p, Idle) /\ UNCHANGED <<info, config, job, nextInfo, requests, aborts>>
  BY DEF CreateIndexDataInsert, End
<1>3. CASE Insertable(k)
  BY <1>1, <1>2, <1>3, IdleInTx, AddDataInv DEF CreateIndexDataInsert
<1>4. CASE ~Insertable(k)
  BY <1>2, <1>4, IdleInTx, MoveOn DEF CreateIndexDataInsert
<1>5. QED
  BY <1>3, <1>4

LEMMA SyncDataInsertInv ==
    ASSUME IInv, NEW p \in Proc, SyncDataInsert(p)
    PROVE  IInv'
<1> DEFINE u == [pc |-> "syncData", exec |-> tx[p].exec, later |-> tx[p].later,
                 batch |-> tx[p].batch, left |-> tx[p].left]
<1>1. /\ tx[p].key \in Key /\ tx[p].exec \in Nat /\ tx[p].later \subseteq InfoId
      /\ tx[p].batch \subseteq Key /\ tx[p].left \subseteq Key
  BY TxFields DEF IInv, TypeOK, SyncDataInsert, At, DataSync
<1>2. u \in Tx /\ u.pc \notin Lasting
  BY <1>1 DEF Tx
<1>3. UNCHANGED <<info, config, job, nextInfo, requests, aborts>>
  BY DEF SyncDataInsert
<1>4. CASE Insertable(tx[p].key)
  BY <1>1, <1>2, <1>3, <1>4, AddDataInv DEF SyncDataInsert, NextCommand
<1>5. CASE ~Insertable(tx[p].key)
  BY <1>3, <1>5, IdleInTx, MoveOn DEF SyncDataInsert, End
<1>6. QED
  BY <1>4, <1>5

LEMMA SyncDataUpdateInv ==
    ASSUME IInv, NEW p \in Proc, SyncDataUpdate(p)
    PROVE  IInv'
<1> DEFINE u == [pc |-> "syncData", exec |-> tx[p].exec, later |-> tx[p].later,
                 batch |-> tx[p].batch, left |-> tx[p].left]
           r == tx[p].row
<1>1. /\ tx[p].exec \in Nat /\ tx[p].later \subseteq InfoId
      /\ tx[p].batch \subseteq Key /\ tx[p].left \subseteq Key
  BY TxFields DEF IInv, TypeOK, SyncDataUpdate, At, DataSync
<1>2. u \in Tx /\ u.pc \notin Lasting
  BY <1>1 DEF Tx
<1>3. /\ UNCHANGED <<info, config, job, nextInfo, nextData, requests, aborts>>
      /\ requests' \in 0..MaxRequests
  BY DEF SyncDataUpdate, IInv, TypeOK
<1>4. CASE r \in LiveData
  <2>1. data' = [data EXCEPT ![r].type = "OPEN_API"] /\ Goto(p, u)
    BY <1>4 DEF SyncDataUpdate, NextCommand
  <2>2. /\ data' \in [DataId -> DataRow \cup {NoRow}]
        /\ LiveData' \subseteq LiveData
        /\ \A s \in LiveData' : data'[s].info = data[s].info /\ data'[s].date = data[s].date
    BY <1>4, <2>1, TypeRewritten
  <2>3. QED
    BY <1>2, <1>3, <2>1, <2>2, RewriteData
<1>5. CASE r \notin LiveData
  BY <1>3, <1>5, IdleInTx, MoveOn DEF SyncDataUpdate, End
<1>6. QED
  BY <1>4, <1>5

(* An open transaction that goes on to write history, of infos that are    *)
(* there.                                                                  *)
LEMMA WriteOn ==
    ASSUME IInv, NEW p \in Proc, NEW t \in Tx, t.pc \in Writing, Goto(p, t),
           \A j \in t.jobs : j.info \in LiveInfo \cup {NoInfo},
           UNCHANGED <<info, config, data, job, nextInfo, nextData, requests, aborts>>
    PROVE  IInv'
<1>1. \A q \in Proc : tx'[q] = IF q = p THEN t ELSE tx[q]
  BY DEF IInv, TypeOK, Goto
<1>2. TypeOK'
  BY DEF IInv, TypeOK, Goto
<1>3. (IdsUnused /\ UniqueNames /\ UniqueKeys /\ DataHasInfo /\ ConfigIffInfo
         /\ JobReferencesLive /\ UserInfoUntouched)'
  BY DEF IInv, IdsUnused, UniqueNames, UniqueKeys, DataHasInfo, ConfigIffInfo,
         JobReferencesLive, UserInfoUntouched, LiveInfo, LiveData
<1>4. (UpsertedInfoStays /\ OneUpsertPerName /\ CopyOfSameRow)'
  BY <1>1 DEF IInv, UpsertedInfoStays, OneUpsertPerName, CopyOfSameRow, At, Named, LiveInfo
<1>5. NotedInfoStays'
  BY <1>1 DEF IInv, NotedInfoStays, LiveInfo
<1>6. QED
  BY <1>2, <1>3, <1>4, <1>5 DEF IInv

LEMMA InfoJobFits ==
    ASSUME NEW e \in Nat, NEW n \in RawName
    PROVE  InfoJob(e, n) \in JobRow /\ InfoJob(e, n).info \in LiveInfo \cup {NoInfo}
<1>1. Named(n) # {} => (CHOOSE i \in Named(n) : TRUE) \in LiveInfo
  BY DEF Named
<1>2. LiveInfo \subseteq InfoId
  BY DEF LiveInfo
<1>3. QED
  BY <1>1, <1>2 DEF InfoJob, JobRow

LEMMA DataJobFits ==
    ASSUME IInv, NEW e \in Nat, NEW k \in Key, k[1] \in LiveInfo
    PROVE  DataJob(e, k) \in JobRow /\ DataJob(e, k).info \in LiveInfo
BY StripAssumption DEF DataJob, JobRow, LiveInfo, IInv, TypeOK, InfoRow

LEMMA SaveJobsInv ==
    ASSUME IInv, NEW p \in Proc, SaveInfoJobs(p) \/ SaveDataJobs(p)
    PROVE  IInv'
<1>1. tx[p] \in Tx
  BY DEF IInv, TypeOK
<1>2. CASE SaveInfoJobs(p)
  <2> DEFINE t == [pc |-> "infoJobs", exec |-> tx[p].exec, batch |-> tx[p].batch,
                   left |-> tx[p].batch, jobs |-> {}]
  <2>1. tx[p].exec \in Nat /\ tx[p].batch \subseteq RawName
    BY <1>1, <1>2, TxFields DEF SaveInfoJobs, At, InfoSync
  <2>2. t \in Tx /\ t.pc \in Writing /\ t.jobs = {}
    BY <2>1 DEF Tx
  <2>3. QED
    BY <1>2, <2>2, WriteOn DEF SaveInfoJobs
<1>3. CASE SaveDataJobs(p)
  <2> DEFINE t == [pc |-> "dataJobs", exec |-> tx[p].exec, later |-> tx[p].later,
                   batch |-> tx[p].batch, left |-> tx[p].batch, jobs |-> {}]
  <2>1. tx[p].exec \in Nat /\ tx[p].later \subseteq InfoId /\ tx[p].batch \subseteq Key
    BY <1>1, <1>3, TxFields DEF SaveDataJobs, At, DataSync
  <2>2. t \in Tx /\ t.pc \in Writing /\ t.jobs = {}
    BY <2>1 DEF Tx
  <2>3. QED
    BY <1>3, <2>2, WriteOn DEF SaveDataJobs
<1>4. QED
  BY <1>2, <1>3

LEMMA WriteInfoJobInv ==
    ASSUME IInv, NEW p \in Proc, WriteInfoJob(p)
    PROVE  IInv'
<1>1. /\ tx[p].exec \in Nat /\ tx[p].batch \subseteq RawName /\ tx[p].left \subseteq RawName
      /\ tx[p].jobs \subseteq JobRow
      /\ \A j \in tx[p].jobs : j.info \in LiveInfo \cup {NoInfo}
  BY TxFields DEF IInv, TypeOK, NotedInfoStays, WriteInfoJob, At, InfoSync
<1>2. PICK n \in tx[p].left :
         Goto(p, [pc |-> "infoJobs", exec |-> tx[p].exec, batch |-> tx[p].batch,
                  left |-> tx[p].left \ {n},
                  jobs |-> tx[p].jobs \cup {InfoJob(tx[p].exec, n)}])
  BY DEF WriteInfoJob
<1> DEFINE j == InfoJob(tx[p].exec, n)
           t == [pc |-> "infoJobs", exec |-> tx[p].exec, batch |-> tx[p].batch,
                 left |-> tx[p].left \ {n}, jobs |-> tx[p].jobs \cup {j}]
<1>3. j \in JobRow /\ j.info \in LiveInfo \cup {NoInfo}
  BY <1>1, <1>2, InfoJobFits
<1> HIDE DEF j
<1>4. t \in Tx /\ t.pc \in Writing /\ t.jobs = tx[p].jobs \cup {j}
  BY <1>1, <1>3 DEF Tx
<1>5. Goto(p, t)
  BY <1>2 DEF j
<1> HIDE DEF t
<1>6. QED
  BY <1>1, <1>3, <1>4, <1>5, WriteOn DEF WriteInfoJob

LEMMA WriteDataJobInv ==
    ASSUME IInv, NEW p \in Proc, WriteDataJob(p)
    PROVE  IInv'
<1>1. /\ tx[p].exec \in Nat /\ tx[p].later \subseteq InfoId
      /\ tx[p].batch \subseteq Key /\ tx[p].left \subseteq Key
      /\ tx[p].jobs \subseteq JobRow
      /\ \A j \in tx[p].jobs : j.info \in LiveInfo \cup {NoInfo}
  BY TxFields DEF IInv, TypeOK, NotedInfoStays, WriteDataJob, At, DataSync
<1> DEFINE noted(k) ==
             [pc |-> "dataJobs", exec |-> tx[p].exec, later |-> tx[p].later,
              batch |-> tx[p].batch, left |-> tx[p].left \ {k},
              jobs |-> tx[p].jobs \cup {DataJob(tx[p].exec, k)}]
<1>2. PICK k \in tx[p].left : IF k[1] \in LiveInfo THEN Goto(p, noted(k)) ELSE End(p)
  BY DEF WriteDataJob
<1>3. CASE k[1] \in LiveInfo
  <2> DEFINE j == DataJob(tx[p].exec, k)
             t == [pc |-> "dataJobs", exec |-> tx[p].exec, later |-> tx[p].later,
                   batch |-> tx[p].batch, left |-> tx[p].left \ {k},
                   jobs |-> tx[p].jobs \cup {j}]
  <2>1. j \in JobRow /\ j.info \in LiveInfo
    BY <1>1, <1>2, <1>3, DataJobFits
  <2> HIDE DEF j
  <2>2. t \in Tx /\ t.pc \in Writing /\ t.jobs = tx[p].jobs \cup {j}
    BY <1>1, <2>1 DEF Tx
  <2>3. Goto(p, t)
    BY <1>2, <1>3 DEF j
  <2> HIDE DEF t
  <2>4. QED
    BY <1>1, <2>1, <2>2, <2>3, WriteOn DEF WriteDataJob
<1>4. CASE k[1] \notin LiveInfo
  BY <1>2, <1>4, IdleInTx, MoveOn DEF WriteDataJob, End
<1>5. QED
  BY <1>3, <1>4

(* The history entries of an open transaction reach sync_job.              *)
LEMMA CommitJobsInv ==
    ASSUME IInv, NEW p \in Proc, CommitInfoJobs(p) \/ CommitDataJobs(p)
    PROVE  IInv'
<1>1. tx[p] \in Tx /\ tx[p].pc \in Writing
  BY DEF IInv, TypeOK, CommitInfoJobs, CommitDataJobs, At
<1>2. /\ tx[p].jobs \subseteq JobRow
      /\ \A j \in tx[p].jobs : j.info \in LiveInfo \cup {NoInfo}
  BY <1>1, TxFields DEF IInv, NotedInfoStays
<1> DEFINE u == [pc |-> "fetching", exec |-> tx[p].exec, later |-> tx[p].later]
<1>3. PICK t \in Tx : t.pc \notin Lasting /\ Goto(p, t)
  <2>1. CASE End(p)
    BY <2>1, IdleInTx DEF End
  <2>2. CASE At(p, "dataJobs") /\ Goto(p, u)
    <3>1. tx[p].exec \in Nat /\ tx[p].later \subseteq InfoId
      BY <1>1, <2>2, TxFields DEF At, DataSync
    <3>2. u \in Tx /\ u.pc \notin Lasting
      BY <3>1 DEF Tx
    <3>3. QED
      BY <2>2, <3>2
  <2>3. QED
    BY <2>1, <2>2 DEF CommitInfoJobs, CommitDataJobs
<1>4. job' = job \cup tx[p].jobs
      /\ UNCHANGED <<info, config, data, nextInfo, nextData, requests, aborts>>
  BY DEF CommitInfoJobs, CommitDataJobs
<1>5. JobReferencesLive' /\ job' \subseteq JobRow
  BY <1>2, <1>4 DEF IInv, TypeOK, JobReferencesLive, LiveInfo
<1>6. UniqueKeys' /\ DataHasInfo'
  BY <1>4 DEF IInv, UniqueKeys, DataHasInfo, LiveInfo, LiveData
<1>7. /\ data' \in [DataId -> DataRow \cup {NoRow}] /\ nextData' \in 1..(MaxData + 1)
      /\ \A r \in DataId : r >= nextData' => data'[r] = NoRow
      /\ requests' \in 0..MaxRequests
  BY <1>4 DEF IInv, TypeOK, IdsUnused
<1>8. QED
  BY <1>3, <1>4, <1>5, <1>6, <1>7, KeepInfo

LEMMA NextBatchInv ==
    ASSUME IInv, NEW p \in Proc, NextBatch(p)
    PROVE  IInv'
<1>1. tx[p].exec \in Nat /\ tx[p].later \subseteq InfoId
  BY TxFields DEF IInv, TypeOK, NextBatch, At, DataSync
<1> DEFINE t(batch) == [pc |-> "syncData", exec |-> tx[p].exec,
                        later |-> tx[p].later \ InfosOf(batch),
                        batch |-> batch, left |-> batch]
<1>2. \A batch \in SUBSET (tx[p].later \X Date) :
         t(batch) \in Tx /\ t(batch).pc \notin Lasting
  BY <1>1 DEF Tx
<1>3. End(p) \/ \E batch \in SUBSET (tx[p].later \X Date) : Goto(p, t(batch))
  BY DEF NextBatch
<1>4. UNCHANGED <<info, config, data, job, nextInfo, nextData, requests, aborts>>
  BY DEF NextBatch
<1>5. QED
  BY <1>2, <1>3, <1>4, IdleInTx, MoveOn DEF End

-----------------------------------------------------------------------------
LEMMA InitInv == Init => IInv
<1> SUFFICES ASSUME Init PROVE IInv
  OBVIOUS
<1> USE DEF Init
<1>1. TypeOK
  BY IdleInTx, BoundAssumption DEF TypeOK
<1>2. LiveInfo = {} /\ LiveData = {}
  BY DEF LiveInfo, LiveData
<1>3. \A p \in Proc : tx[p].pc = "idle"
  BY IdleInTx
<1>4. QED
  BY <1>1, <1>2, <1>3 DEF IInv, IdsUnused, UniqueNames, UniqueKeys, DataHasInfo,
     ConfigIffInfo, JobReferencesLive, UpsertedInfoStays, UserInfoUntouched,
     OneUpsertPerName, CopyOfSameRow, NotedInfoStays, At

LEMMA StutterInv == IInv /\ UNCHANGED vars => IInv'
BY DEF vars, IInv, TypeOK, IdsUnused, UniqueNames, UniqueKeys, DataHasInfo,
   ConfigIffInfo, JobReferencesLive, UpsertedInfoStays, UserInfoUntouched,
   OneUpsertPerName, CopyOfSameRow, NotedInfoStays, At, Named, LiveInfo, LiveData

LEMMA NextInv == IInv /\ [Next]_vars => IInv'
<1> SUFFICES ASSUME IInv, [Next]_vars PROVE IInv'
  OBVIOUS
<1>0. LiveInfo \subseteq InfoId
  BY DEF LiveInfo
<1>1. ASSUME NEW p \in Proc, Request(p) PROVE IInv'
  BY <1>0, <1>1, CreateInfoBeginInv, UpdateInfoBeginInv, DeleteInfoBeginInv, UpdateConfigInv,
     CreateIndexDataBeginInv, UserWriteInv, SyncInfosBeginInv, SyncDataBeginInv DEF Request
<1>2. ASSUME NEW p \in Proc, Step(p) PROVE IInv'
  BY <1>2, CreateInfoInsertInv, UpdateInfoFlushInv, DeleteInfoStepsInv, DeleteInfoCommitInv,
     CreateIndexDataInsertInv, UpsertInfoInv, SyncInfoCommitInv, SaveJobsInv,
     WriteInfoJobInv, SyncDataReadInv, SyncDataUpdateInv, SyncDataInsertInv,
     WriteDataJobInv, CommitJobsInv, NextBatchInv, LostTransactionInv DEF Step
<1>3. ASSUME NEW p \in Proc, Abort(p) PROVE IInv'
  BY <1>3, LostTransactionInv
<1>4. CASE Quiescent
  BY <1>4, StutterInv DEF Quiescent
<1>5. CASE UNCHANGED vars
  BY <1>5, StutterInv
<1>6. QED
  BY <1>1, <1>2, <1>3, <1>4, <1>5 DEF Next

(* The inductive invariant of the tables and the open transactions holds   *)
(* in every reachable state: whatever the requests, syncs and deletes that *)
(* run side by side, and wherever one of them is cut off.                  *)
THEOREM Invariant == Spec => []IInv
BY InitInv, NextInv, PTL DEF Spec

(* Every variable keeps its type, an open transaction the fields that its  *)
(* next statement uses.                                                    *)
THEOREM TypeCorrect == Spec => []TypeOK
<1>1. IInv => TypeOK
  BY DEF IInv
<1>2. QED
  BY Invariant, <1>1, PTL

(* No two IndexInfo of one name, although create checks for a duplicate in *)
(* another statement than the insert, and a sync does not check at all.    *)
THEOREM NamesUnique == Spec => []UniqueNames
<1>1. IInv => UniqueNames
  BY DEF IInv
<1>2. QED
  BY Invariant, <1>1, PTL

(* No two IndexData of one info and date, although create and sync both    *)
(* look for the row before the insert and in another statement.            *)
THEOREM KeysUnique == Spec => []UniqueKeys
<1>1. IInv => UniqueKeys
  BY DEF IInv
<1>2. QED
  BY Invariant, <1>1, PTL

(* Data never outlives its info, across delete and sync.                   *)
THEOREM DataOwned == Spec => []DataHasInfo
<1>1. IInv => DataHasInfo
  BY DEF IInv
<1>2. QED
  BY Invariant, <1>1, PTL

(* An info has its auto-sync config exactly as long as it exists.          *)
THEOREM ConfigsMatch == Spec => []ConfigIffInfo
<1>1. IInv => ConfigIffInfo
  BY DEF IInv
<1>2. QED
  BY Invariant, <1>1, PTL

(* A sync_job refers to a live info or to none, across delete and sync.    *)
THEOREM ReferencesIntact == Spec => []JobReferencesLive
<1>1. IInv => JobReferencesLive
  BY DEF IInv
<1>2. QED
  BY Invariant, <1>1, PTL

(* The row an upsert has locked is there when createIfAbsent uses it.      *)
THEOREM UpsertFindsItsRow == Spec => []UpsertedInfoStays
<1>1. IInv => UpsertedInfoStays
  BY DEF IInv
<1>2. QED
  BY Invariant, <1>1, PTL

(* No sync ever changes the figures of an IndexInfo a user registered.     *)
THEOREM UserInfoSafe == Spec => []UserInfoUntouched
<1>1. IInv => UserInfoUntouched
  BY DEF IInv
<1>2. QED
  BY Invariant, <1>1, PTL

-----------------------------------------------------------------------------
(* Waits for locks.                                                        *)

(* The row an upsert holds is the one the crossed delete is about to       *)
(* delete, so each of two crossed calls waits for the other.               *)
LEMMA CrossedAreBlocked ==
    ASSUME IInv, NEW p \in Proc, NEW q \in Proc, At(p, "upserted"), At(q, "dropInfo"),
           tx[p].info = tx[q].info
    PROVE  Blocked(p) /\ Blocked(q)
<1>1. p # q
  BY DEF At
<1>2. tx[q].info \in InfoId
  BY TxFields DEF IInv, TypeOK, At, Deleting
<1>3. ConfigLocked(tx[p].info, p)
  BY <1>1 DEF ConfigLocked
<1>4. Named(Strip[tx[p].name]) = {tx[p].info}
  <2>1. tx[p].info # 0
    BY <1>2, BoundAssumption
  <2>2. QED
    BY <2>1 DEF IInv, UpsertedInfoStays
<1>5. info[tx[q].info].name = Strip[tx[p].name]
  BY <1>4 DEF Named
<1>6. NameLocked(info[tx[q].info].name, q)
  BY <1>1, <1>5 DEF NameLocked
<1>7. QED
  BY <1>3, <1>6 DEF Blocked

(* An upsert waits for a delete that waits for it, or for nobody.          *)
LEMMA UpsertsGoOn ==
    ASSUME IInv, NEW p \in Proc, At(p, "upserted"), Blocked(p)
    PROVE  \E q \in Proc : Crossed(p, q)
<1>1. ConfigLocked(tx[p].info, p)
  BY DEF Blocked, At
<1>2. PICK q \in Proc \ {p} : At(q, "dropInfo") /\ tx[q].info = tx[p].info
  BY <1>1 DEF ConfigLocked
<1>3. QED
  BY <1>2 DEF Crossed, WaitsFor

(* No lock wait lasts for ever for want of somebody to end it: names are   *)
(* held by upserts, configs by deletes at their end, rows by deletes, and  *)
(* none of the three waits for anything but the one before it; whoever     *)
(* writes history, and has deletes wait for it, waits for nothing.         *)
THEOREM SomebodyGoesOn == Spec => []NoWaitForEver
<1>1. ASSUME IInv PROVE NoWaitForEver
  <2>1. ASSUME NEW p \in Proc, NEW q \in Proc, Crossed(p, q)
        PROVE  Blocked(p) /\ Blocked(q)
    BY <1>1, <2>1, CrossedAreBlocked DEF Crossed, WaitsFor
  <2>2. ASSUME NEW o \in Proc, tx[o] # Idle,
               \A p \in Proc : tx[p] # Idle =>
                   Blocked(p) /\ ~\E q \in Proc : Crossed(p, q)
        PROVE  FALSE
    <3>1. \A p \in Proc : ~At(p, "idle") => Blocked(p) /\ ~\E q \in Proc : Crossed(p, q)
      BY <2>2, IdleInTx DEF At
    <3>2. \A p \in Proc : ~At(p, "upserted")
      BY <1>1, <3>1, UpsertsGoOn DEF At
    <3>3. \A p \in Proc : \A n : ~NameLocked(n, p)
      BY <3>2 DEF NameLocked
    <3>0. \A p \in Proc : \A i : ~InfoShared(i, p)
      BY <3>1 DEF Blocked, At, InfoShared
    <3>4. \A p \in Proc : ~At(p, "dropInfo")
      BY <3>0, <3>1, <3>3 DEF Blocked, At
    <3>5. \A p \in Proc : \A i : ~ConfigLocked(i, p)
      BY <3>4 DEF ConfigLocked
    <3>6. \A p \in Proc : tx[p].pc \notin Deleting
      BY <3>1, <3>4, <3>5 DEF Blocked, At, Deleting
    <3>7. \A p \in Proc : \A r, k : ~RowLocked(r, p) /\ ~KeyLocked(k, p)
      BY <3>6 DEF RowLocked, KeyLocked
    <3>8. \A p \in Proc : ~Blocked(p)
      BY <3>0, <3>3, <3>5, <3>7 DEF Blocked
    <3>9. At(o, "idle")
      BY <3>1, <3>8
    <3>10. tx[o] = Idle
      BY <1>1, <3>9 DEF IInv, TypeOK, At, Tx, Deleting
    <3>11. QED
      BY <2>2, <3>10
  <2>3. QED
    BY <2>1, <2>2 DEF NoWaitForEver
<1>2. QED
  BY <1>1, Invariant, PTL DEF Spec

=============================================================================
