------------------------------ MODULE AutoSync ------------------------------
(***************************************************************************)
(* Which base dates a synchronisation asks the Open API for, and what is   *)
(* left out of index_data when it stops half-way.                          *)
(*                                                                         *)
(* AutoSyncScheduler resumes every enabled index at the newest base date   *)
(* stored for it, whoever stored it; SyncJobController takes a start date  *)
(* from the user.  Both call SyncJobManager.syncIndexDataList, which       *)
(* fetches each target whole or not at all and then commits the items one  *)
(* by one, in the order of the response.  Fetching on the pool and the     *)
(* batches are SyncManager's subject: here a run has one batch.  A row of  *)
(* index_data is reduced to its base date.                                 *)
(*                                                                         *)
(* The API is external: it publishes the dates of an index in order, none  *)
(* before its day has come, and lists them oldest first or newest first    *)
(* (the request names no order).                                           *)
(***************************************************************************)
EXTENDS Integers

CONSTANTS
    Info,           \* index infos
    Timer,          \* the scheduler's thread: one run at a time
    Manual,         \* request threads that start a manual sync
    Horizon,        \* bound: days
    OldestFirst,    \* the infos whose dates the API lists oldest first
    MaxEdits,       \* bound: user calls
    MaxFailures     \* bound: failed fetches, failed saves and crashes

Date == 1..Horizon
NoDate == 0
Run  == Manual \cup {Timer}
Phase == {"idle", "fetching", "saving"}

ASSUME BoundAssumption == {Horizon, MaxEdits, MaxFailures} \subseteq Nat
ASSUME OrderAssumption == OldestFirst \subseteq Info
ASSUME ThreadAssumption == Timer \notin Manual

VARIABLES
    today,
    published,  \* Info -> dates the API has
    stored,     \* Info -> dates with an index_data row
    enabled,    \* infos with auto_sync_config.enabled
    phase,      \* Run -> where the run is
    upTo,       \* Run -> baseDateTo of its commands, NoDate while idle
    waiting,    \* Run -> infos whose fetch has not ended
    asked,      \* Run -> Info -> dates the request of such an info matches
    left,       \* Run -> Info -> fetched dates not committed yet
    edits, failures,
    excused,    \* ghost: Info -> dates a user deleted, or stored a later one than
    lost        \* ghost: Info -> fetched dates that a stopped run left uncommitted

runVars == <<phase, upTo, asked, waiting, left>>
ghosts  == <<excused, lost>>
vars == <<today, published, stored, enabled, runVars, edits, failures, ghosts>>

Nothing == [i \in Info |-> {}]

Init ==
    /\ today \in Date
    /\ published = Nothing /\ stored = Nothing
    /\ enabled \in SUBSET Info
    /\ phase = [r \in Run |-> "idle"]
    /\ upTo = [r \in Run |-> NoDate]
    /\ asked = [r \in Run |-> Nothing]
    /\ waiting = [r \in Run |-> {}]
    /\ left = [r \in Run |-> Nothing]
    /\ edits = 0 /\ failures = 0
    /\ excused = Nothing /\ lost = Nothing

-----------------------------------------------------------------------------
(* The calendar and the API.                                               *)
Midnight ==
    /\ today < Horizon
    /\ today' = today + 1
    /\ UNCHANGED <<published, stored, enabled, runVars, edits, failures, ghosts>>

Publish(i, d) ==
    /\ d <= today
    /\ \A e \in published[i] : e < d
    /\ published' = [published EXCEPT ![i] = @ \cup {d}]
    /\ UNCHANGED <<today, stored, enabled, runVars, edits, failures, ghosts>>

-----------------------------------------------------------------------------
(* Users: IndexDataServiceImpl.create and delete, and the PATCH of a config. *)
Edit == edits < MaxEdits /\ edits' = edits + 1

MissingBefore(i, d) == {e \in Date : e < d} \ stored[i]

UserCreates(i, d) ==        \* no check that the date has come
    /\ Edit
    /\ d \notin stored[i]
    /\ stored' = [stored EXCEPT ![i] = @ \cup {d}]
    /\ excused' = [excused EXCEPT ![i] = @ \cup MissingBefore(i, d)]
    /\ UNCHANGED <<today, published, enabled, runVars, failures, lost>>

UserDeletes(i, d) ==
    /\ Edit
    /\ d \in stored[i]
    /\ stored' = [stored EXCEPT ![i] = @ \ {d}]
    /\ excused' = [excused EXCEPT ![i] = @ \cup {d}]
    /\ UNCHANGED <<today, published, enabled, runVars, failures, lost>>

Toggle(i) ==
    /\ Edit
    /\ enabled' = (enabled \cup {i}) \ (enabled \cap {i})
    /\ UNCHANGED <<today, published, stored, runVars, failures, ghosts>>

-----------------------------------------------------------------------------
(* findEnabledTargetsWithLatestBaseDate: the newest stored date of an info *)
(* is null when there is none.                                             *)
LatestBefore(i, d) == \A e \in stored[i] : e < d     \* null, or before d
LatestUpTo(i, d)   == \A e \in stored[i] : e <= d    \* null, or not after d

DueUnlessAnyIsUpToDate ==                              \* mutant of Due
    IF \E i \in enabled : ~LatestBefore(i, today)
      THEN {} ELSE {i \in enabled : LatestBefore(i, today)}

(* isAllTargetsUpToDate and the filter: nothing is done when this is empty. *)
Due == {i \in enabled : LatestBefore(i, today)}

ResumeAtNewestOfAll(i) ==                              \* mutant of ResumeDates
    {d \in Date : \A j \in enabled : LatestUpTo(j, d)}

(* createSyncCommand: beginBasDt = the newest stored date, or absent.      *)
ResumeDates(i) == {d \in Date : LatestUpTo(i, d)}

(* The request that goes out has a beginBasDt and no endBasDt.             *)
Begin(r, I, dates, to) ==
    /\ phase[r] = "idle"
    /\ I # {}
    /\ phase' = [phase EXCEPT ![r] = "fetching"]
    /\ upTo' = [upTo EXCEPT ![r] = to]
    /\ waiting' = [waiting EXCEPT ![r] = I]
    /\ asked' = [asked EXCEPT ![r] = [i \in Info |-> IF i \in I THEN dates[i] ELSE {}]]
    /\ UNCHANGED left

StartNightly ==
    /\ Begin(Timer, Due, [i \in Info |-> ResumeDates(i)], today)
    /\ UNCHANGED <<today, published, stored, enabled, edits, failures, ghosts>>

NothingDue ==               \* the scheduler returns at once
    /\ phase[Timer] = "idle"
    /\ Due = {}
    /\ UNCHANGED vars

StartManual(r, I, start, to) ==
    /\ Edit
    /\ start <= to                                     \* isValidDateRange
    /\ Begin(r, I, [i \in Info |-> {d \in Date : start <= d}], to)
    /\ excused' = [i \in Info |-> IF i \in I THEN excused[i] \cup MissingBefore(i, start)
                                             ELSE excused[i]]
    /\ UNCHANGED <<today, published, stored, enabled, failures, lost>>

-----------------------------------------------------------------------------
FetchKeepsPages(r, i) ==                               \* mutant of Fetch
    /\ i \in waiting[r]
    /\ waiting' = [waiting EXCEPT ![r] = @ \ {i}]
    /\ asked' = [asked EXCEPT ![r] = [@ EXCEPT ![i] = {}]]
    /\ \E b \in Date :      \* the pages read before one failed
          left' = [left EXCEPT ![r] = [@ EXCEPT ![i] =
                      {d \in asked[r][i] \cap published[i] : IF i \in OldestFirst THEN d <= b ELSE b <= d}]]
    /\ UNCHANGED <<today, published, stored, enabled, phase, upTo, edits, failures, ghosts>>

(* fetchTarget: all pages, or none when one of them fails.                 *)
Fetch(r, i) ==
    /\ i \in waiting[r]
    /\ waiting' = [waiting EXCEPT ![r] = @ \ {i}]
    /\ asked' = [asked EXCEPT ![r] = [@ EXCEPT ![i] = {}]]
    /\ \/ /\ left' = [left EXCEPT ![r] = [@ EXCEPT ![i] = asked[r][i] \cap published[i]]]
          /\ UNCHANGED failures
       \/ /\ failures < MaxFailures
          /\ failures' = failures + 1
          /\ UNCHANGED left
    /\ UNCHANGED <<today, published, stored, enabled, phase, upTo, edits, ghosts>>

Join(r) ==
    /\ phase[r] = "fetching"
    /\ waiting[r] = {}
    /\ phase' = [phase EXCEPT ![r] = "saving"]
    /\ UNCHANGED <<today, published, stored, enabled, upTo, asked, waiting, left, edits, failures, ghosts>>

(* saveOrUpdateOpenApiData commits one item; the items of an info come in  *)
(* the order of the response, the infos in an order no query fixes.        *)
First(i, S) == {d \in S : \A e \in S : IF i \in OldestFirst THEN d <= e ELSE e <= d}

SaveOne(r, i) ==
    /\ phase[r] = "saving"
    /\ \E d \in First(i, left[r][i]) :
          /\ stored' = [stored EXCEPT ![i] = @ \cup {d}]
          /\ left' = [left EXCEPT ![r] = [@ EXCEPT ![i] = left[r][i] \ {d}]]
    /\ UNCHANGED <<today, published, enabled, phase, upTo, asked, waiting, edits, failures, ghosts>>

Finish(r) ==
    /\ phase[r] = "saving"
    /\ left[r] = Nothing
    /\ phase' = [phase EXCEPT ![r] = "idle"]
    /\ upTo' = [upTo EXCEPT ![r] = NoDate]
    /\ UNCHANGED <<today, published, stored, enabled, asked, waiting, left, edits, failures, ghosts>>

(* A save throws, which ends the run, or the process dies: what the run    *)
(* had fetched is gone.                                                    *)
Stop(r) ==
    /\ phase[r] # "idle"
    /\ failures < MaxFailures
    /\ failures' = failures + 1
    /\ phase' = [phase EXCEPT ![r] = "idle"]
    /\ upTo' = [upTo EXCEPT ![r] = NoDate]
    /\ waiting' = [waiting EXCEPT ![r] = {}]
    /\ asked' = [asked EXCEPT ![r] = Nothing]
    /\ left' = [left EXCEPT ![r] = Nothing]
    /\ lost' = [i \in Info |-> lost[i] \cup left[r][i]]
    /\ UNCHANGED <<today, published, stored, enabled, edits, excused>>

Step(r) ==
    \/ \E i \in Info : Fetch(r, i) \/ SaveOne(r, i)
    \/ Join(r) \/ Finish(r)

Next ==
    \/ Midnight
    \/ \E i \in Info : Toggle(i)
    \/ \E i \in Info, d \in Date : Publish(i, d) \/ UserCreates(i, d) \/ UserDeletes(i, d)
    \/ StartNightly \/ NothingDue
    \/ \E r \in Manual, I \in SUBSET Info, start, to \in Date : StartManual(r, I, start, to)
    \/ \E r \in Run : Step(r) \/ Stop(r)

Spec == Init /\ [][Next]_vars

(* The cron expression fires every night; a run that has begun goes on.    *)
FairSpec == Spec /\ WF_vars(StartNightly) /\ \A r \in Run : WF_vars(Step(r))

-----------------------------------------------------------------------------
(* The types, that a run which is not running holds nothing, that one that *)
(* saves waits for no fetch, and that what is waited for brought nothing.  *)
TypeOK ==
    /\ today \in Date
    /\ {published, stored, excused, lost} \subseteq [Info -> SUBSET Date]
    /\ enabled \subseteq Info
    /\ phase \in [Run -> Phase]
    /\ upTo \in [Run -> Date \cup {NoDate}]
    /\ asked \in [Run -> [Info -> SUBSET Date]]
    /\ left \in [Run -> [Info -> SUBSET Date]]
    /\ waiting \in [Run -> SUBSET Info]
    /\ \A r \in Run : phase[r] # "fetching" => waiting[r] = {}
    /\ \A r \in Run : phase[r] = "idle" => left[r] = Nothing
    /\ \A r \in Run : \A i \in waiting[r] : left[r][i] = {}
    /\ edits \in 0..MaxEdits /\ failures \in 0..MaxFailures

(* What an API that lists newest first adds to the gaps: dates that wait   *)
(* in a run behind newer ones, and dates a stopped run never committed.    *)
Overtaken(i) ==
    IF i \in OldestFirst THEN {} ELSE lost[i] \cup UNION {left[r][i] : r \in Run}

(* Resuming at the newest stored date leaves no gap below it, whatever     *)
(* fetches fail, runs stop or overlap, unless a user made it (deleted the  *)
(* date, stored or synced a later one first) or the API lists newest       *)
(* first and the date came behind a newer one (AutoSyncScheduler).         *)
GapFree ==
    \A i \in Info : \A d \in published[i] : \A e \in stored[i] :
        d < e => d \in stored[i] \cup excused[i] \cup Overtaken(i)

(* A published date newer than everything stored for an enabled index is   *)
(* stored by some night, or the index is disabled, or something newer is   *)
(* stored first: no index starves behind others that are up to date, none  *)
(* is dropped after a failed night.                                        *)
Newer(i, d) == i \in enabled /\ d \in published[i] /\ LatestBefore(i, d)
CatchUp ==
    \A i \in Info, d \in Date :
        Newer(i, d) ~> (i \notin enabled \/ ~LatestBefore(i, d))

(* Why: a night takes up every such date, and does not end before that or  *)
(* something newer is stored, whatever other runs and users do meanwhile,  *)
(* unless a fetch fails or the run stops (createSyncCommand, fetchTarget). *)
Held(i, d) == d \in asked[Timer][i] \cup left[Timer][i]
NightHoldsOn ==
    [][failures' = failures =>
          \A i \in Info, d \in Date : Newer(i, d) /\ Newer(i, d)' =>
              /\ phase[Timer] = "idle" /\ phase'[Timer] # "idle" => Held(i, d)'
              /\ Held(i, d) => Held(i, d)' /\ phase'[Timer] # "idle"]_vars

(* The commands of a run have a baseDateFrom and a baseDateTo, both        *)
(* required of the user: what it saves lies between them.                  *)
RangeKept ==
    \A r \in Run, i \in Info : \A d \in left[r][i] : d <= upTo[r]

-----------------------------------------------------------------------------
(* The inductive invariant behind GapFree.                                 *)
NeverPublished(i, d) == d \notin published[i] /\ \E e \in published[i] : d < e
Covered(i, d) ==
    d \in stored[i] \cup excused[i] \cup Overtaken(i) \/ NeverPublished(i, d)

StoredHasNoGap ==
    \A i \in Info : \A d \in Date, e \in stored[i] : d < e => Covered(i, d)
AskedHasNoGap ==        \* below what a running request asks for
    \A r \in Run, i \in Info : \A d \in Date, e \in asked[r][i] :
        d < e => d \in asked[r][i] \/ Covered(i, d)
LeftHasNoGap ==         \* below what a run is about to save
    \A r \in Run, i \in Info : \A d \in Date, e \in left[r][i] :
        d < e => d \in left[r][i] \/ Covered(i, d)
LeftIsPublished == \A r \in Run, i \in Info : left[r][i] \subseteq published[i]

GapInv ==
    /\ TypeOK
    /\ StoredHasNoGap
    /\ AskedHasNoGap
    /\ LeftHasNoGap
    /\ LeftIsPublished

(* And behind NightHoldsOn.                                                *)
PublishedHasCome == \A i \in Info : \A d \in published[i] : d <= today
AskedIsWaited    == \A r \in Run, i \in Info : asked[r][i] # {} => i \in waiting[r]

IInv == GapInv /\ PublishedHasCome /\ AskedIsWaited

=============================================================================
