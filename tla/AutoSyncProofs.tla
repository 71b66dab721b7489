--------------------------- MODULE AutoSyncProofs ---------------------------
(* GapInv is inductive for every set of indices and request threads, every   *)
(* number of days and both orders of the API, so GapFree always holds.     *)
EXTENDS AutoSync, TLAPS

USE DEF Date, NoDate

LEMMA UpdateOne ==
    ASSUME NEW f \in [Run -> [Info -> SUBSET Date]], NEW r \in Run, NEW i \in Info,
           NEW S \in SUBSET Date, NEW g, g = [f EXCEPT ![r] = [@ EXCEPT ![i] = S]]
    PROVE  /\ g \in [Run -> [Info -> SUBSET Date]]
           /\ \A q \in Run : q # r => g[q] = f[q]
           /\ \A q \in Run, j \in Info : g[q][j] = IF q = r /\ j = i THEN S ELSE f[q][j]
<1> DEFINE row == [f[r] EXCEPT ![i] = S]
<1>1. row \in [Info -> SUBSET Date] /\ \A j \in Info : row[j] = IF j = i THEN S ELSE f[r][j]
  OBVIOUS
<1>2. g = [f EXCEPT ![r] = row]
  OBVIOUS
<1> HIDE DEF row
<1>3. QED
  BY <1>1, <1>2

(* A date once covered stays so, while published only grows at its end.    *)
LEMMA CoverGrows ==
    ASSUME TypeOK, TypeOK', NEW i \in Info, NEW d \in Date, Covered(i, d),
           published[i] \subseteq published'[i],
           \A e \in published'[i] \ published[i] : \A f \in published[i] : f < e,
           stored[i] \cup excused[i] \cup Overtaken(i)
              \subseteq stored'[i] \cup excused'[i] \cup Overtaken(i)'
    PROVE  Covered(i, d)'
<1>1. CASE d \in stored[i] \cup excused[i] \cup Overtaken(i)
  BY <1>1 DEF Covered
<1>2. CASE NeverPublished(i, d)
  <2>1. PICK e \in published[i] : d \notin published[i] /\ d < e
    BY <1>2 DEF NeverPublished
  <2>2. d \in Int /\ e \in Int
    BY <2>1 DEF TypeOK
  <2>3. d \notin published'[i]
    BY <2>1, <2>2
  <2>4. QED
    BY <2>1, <2>3 DEF Covered, NeverPublished
<1>3. QED
  BY <1>1, <1>2 DEF Covered

(* The coverage of all dates after a step that publishes nothing.          *)
LEMMA CoverStays ==
    ASSUME TypeOK, TypeOK', UNCHANGED published,
           \A i \in Info : stored[i] \cup excused[i] \cup Overtaken(i)
              \subseteq stored'[i] \cup excused'[i] \cup Overtaken(i)'
    PROVE  \A i \in Info, d \in Date : Covered(i, d) => Covered(i, d)'
BY CoverGrows

(* Steps that change no row and no request.                                *)
LEMMA QuietStep ==
    ASSUME GapInv, TypeOK',
           UNCHANGED <<published, stored, asked, left, excused, lost>>
    PROVE  GapInv'
<1>1. \A i \in Info : Overtaken(i)' = Overtaken(i)
  BY DEF Overtaken
<1>2. \A i \in Info, d \in Date : Covered(i, d) => Covered(i, d)'
  BY <1>1 DEF Covered, NeverPublished
<1>3. QED
  BY <1>2 DEF GapInv, StoredHasNoGap, AskedHasNoGap, LeftHasNoGap, LeftIsPublished

-----------------------------------------------------------------------------
(* TypeOK is preserved by every step.                                      *)
LEMMA TypeStep ==
    ASSUME TypeOK, [Next]_vars
    PROVE  TypeOK'
<1> USE BoundAssumption DEF TypeOK, runVars, ghosts, Nothing
<1>1. CASE Midnight
  BY <1>1 DEF Midnight
<1>2. ASSUME NEW i \in Info, Toggle(i) PROVE TypeOK'
  BY <1>2 DEF Toggle, Edit
<1>3. ASSUME NEW i \in Info, NEW d \in Date, Publish(i, d) PROVE TypeOK'
  BY <1>3 DEF Publish
<1>4. ASSUME NEW i \in Info, NEW d \in Date, UserCreates(i, d) PROVE TypeOK'
  BY <1>4 DEF UserCreates, Edit, MissingBefore
<1>5. ASSUME NEW i \in Info, NEW d \in Date, UserDeletes(i, d) PROVE TypeOK'
  BY <1>5 DEF UserDeletes, Edit
<1>6. CASE StartNightly
  <2>1. Timer \in Run /\ Due \subseteq Info
    BY DEF Run, Due
  <2>2. [i \in Info |-> ResumeDates(i)] \in [Info -> SUBSET Date]
    BY DEF ResumeDates
  <2>3. QED
    BY <1>6, <2>1, <2>2 DEF StartNightly, Begin, Phase
<1>7. CASE NothingDue
  BY <1>7 DEF NothingDue, vars
<1>8. ASSUME NEW r \in Manual, NEW I \in SUBSET Info, NEW start \in Date, NEW to \in Date,
             StartManual(r, I, start, to)
      PROVE  TypeOK'
  <2>1. r \in Run
    BY DEF Run
  <2>2. excused' \in [Info -> SUBSET Date]
    BY <1>8 DEF StartManual, MissingBefore
  <2>3. QED
    BY <1>8, <2>1, <2>2 DEF StartManual, Begin, Phase, Edit
<1>9. ASSUME NEW r \in Run, NEW i \in Info, Fetch(r, i) PROVE TypeOK'
  <2>1. /\ UNCHANGED <<today, published, stored, enabled, phase, upTo, edits, excused, lost>>
        /\ failures' \in 0..MaxFailures
    BY <1>9 DEF Fetch
  <2>2. /\ waiting' \in [Run -> SUBSET Info]
        /\ \A q \in Run : waiting'[q] = IF q = r THEN waiting[r] \ {i} ELSE waiting[q]
    BY <1>9 DEF Fetch
  <2>3. asked' \in [Run -> [Info -> SUBSET Date]]
    BY <1>9 DEF Fetch
  <2>4. /\ left' \in [Run -> [Info -> SUBSET Date]]
        /\ \A q \in Run : q # r => left'[q] = left[q]
        /\ \A j \in Info : j # i => left'[r][j] = left[r][j]
    <3>1. CASE UNCHANGED left
      BY <3>1
    <3>2. CASE left' = [left EXCEPT ![r] = [@ EXCEPT ![i] = asked[r][i] \cap published[i]]]
      <4>1. asked[r][i] \cap published[i] \in SUBSET Date
        OBVIOUS
      <4>2. QED
        BY <3>2, <4>1, UpdateOne
    <3>3. QED
      BY <1>9, <3>1, <3>2 DEF Fetch
  <2>5. phase[r] = "fetching"
    BY <1>9 DEF Fetch
  <2>6. /\ \A q \in Run : phase'[q] # "fetching" => waiting'[q] = {}
        /\ \A q \in Run : phase'[q] = "idle" => left'[q] = Nothing
        /\ \A q \in Run : \A j \in waiting'[q] : left'[q][j] = {}
    BY <2>1, <2>2, <2>4, <2>5
  <2>7. QED
    BY <2>1, <2>2, <2>3, <2>4, <2>6
<1>10. ASSUME NEW r \in Run, NEW i \in Info, SaveOne(r, i) PROVE TypeOK'
  <2>1. /\ UNCHANGED <<today, published, enabled, phase, upTo, asked, waiting, edits, failures,
                       excused, lost>>
        /\ phase[r] = "saving"
    BY <1>10 DEF SaveOne
  <2>2. PICK d \in First(i, left[r][i]) :
           /\ stored' = [stored EXCEPT ![i] = @ \cup {d}]
           /\ left' = [left EXCEPT ![r] = [@ EXCEPT ![i] = left[r][i] \ {d}]]
    BY <1>10 DEF SaveOne
  <2>3. d \in Date
    BY DEF First
  <2>4. stored' \in [Info -> SUBSET Date]
    BY <2>2, <2>3
  <2>5. /\ left' \in [Run -> [Info -> SUBSET Date]]
        /\ \A q \in Run : q # r => left'[q] = left[q]
    <3>1. left[r][i] \ {d} \in SUBSET Date
      OBVIOUS
    <3>2. QED
      BY <2>2, <3>1, UpdateOne
  <2>6. /\ \A q \in Run : phase'[q] = "idle" => left'[q] = Nothing
        /\ \A q \in Run : \A j \in waiting'[q] : left'[q][j] = {}
    BY <2>1, <2>5
  <2>7. QED
    BY <2>1, <2>4, <2>5, <2>6
<1>11. ASSUME NEW r \in Run, Join(r) PROVE TypeOK'
  BY <1>11 DEF Join, Phase
<1>12. ASSUME NEW r \in Run, Finish(r) PROVE TypeOK'
  BY <1>12 DEF Finish, Phase
<1>13. ASSUME NEW r \in Run, Stop(r) PROVE TypeOK'
  <2>1. UNCHANGED <<today, published, stored, enabled, edits, excused>>
    BY <1>13 DEF Stop
  <2>2. lost' \in [Info -> SUBSET Date]
    BY <1>13 DEF Stop
  <2>3. failures' \in 0..MaxFailures
    BY <1>13 DEF Stop
  <2>4. /\ phase' \in [Run -> Phase] /\ upTo' \in [Run -> Date \cup {NoDate}]
        /\ waiting' \in [Run -> SUBSET Info]
        /\ asked' \in [Run -> [Info -> SUBSET Date]] /\ left' \in [Run -> [Info -> SUBSET Date]]
    BY <1>13 DEF Stop, Phase
  <2>5. /\ \A q \in Run : phase'[q] # "fetching" => waiting'[q] = {}
        /\ \A q \in Run : phase'[q] = "idle" => left'[q] = Nothing
        /\ \A q \in Run : \A j \in waiting'[q] : left'[q][j] = {}
    BY <1>13 DEF Stop
  <2>6. QED
    BY <2>1, <2>2, <2>3, <2>4, <2>5
<1>14. CASE UNCHANGED vars
  BY <1>14 DEF vars
<1>15. QED
  BY <1>1, <1>2, <1>3, <1>4, <1>5, <1>6, <1>7, <1>8, <1>9, <1>10, <1>11, <1>12, <1>13,
     <1>14 DEF Next, Step

-----------------------------------------------------------------------------
(* The steps that change rows or requests.                                 *)
LEMMA PublishInv ==
    ASSUME GapInv, TypeOK', NEW i \in Info, NEW d \in Date, Publish(i, d)
    PROVE  GapInv'
<1>1. UNCHANGED <<stored, asked, left, excused, lost>>
  BY DEF Publish, runVars, ghosts
<1>2. \A j \in Info : /\ published[j] \subseteq published'[j]
                      /\ \A e \in published'[j] \ published[j] : \A f \in published[j] : f < e
  BY DEF Publish, GapInv, TypeOK
<1>3. \A j \in Info : Overtaken(j)' = Overtaken(j)
  BY <1>1 DEF Overtaken
<1>4. \A j \in Info, c \in Date : Covered(j, c) => Covered(j, c)'
  BY <1>1, <1>2, <1>3, CoverGrows DEF GapInv
<1>5. QED
  BY <1>1, <1>2, <1>4 DEF GapInv, StoredHasNoGap, AskedHasNoGap, LeftHasNoGap, LeftIsPublished

LEMMA UserCreatesInv ==
    ASSUME GapInv, TypeOK', NEW i \in Info, NEW d \in Date, UserCreates(i, d)
    PROVE  GapInv'
<1>1. UNCHANGED <<published, asked, left, lost>>
  BY DEF UserCreates, runVars
<1>2. /\ stored' = [stored EXCEPT ![i] = @ \cup {d}]
      /\ excused' = [excused EXCEPT ![i] = @ \cup MissingBefore(i, d)]
  BY DEF UserCreates
<1>3. \A j \in Info : Overtaken(j)' = Overtaken(j)
  BY <1>1 DEF Overtaken
<1>4. \A j \in Info : stored[j] \cup excused[j] \subseteq stored'[j] \cup excused'[j]
  BY <1>2 DEF GapInv, TypeOK
<1>5. \A j \in Info, c \in Date : Covered(j, c) => Covered(j, c)'
  BY <1>1, <1>3, <1>4, CoverStays DEF GapInv
<1>6. StoredHasNoGap'
  <2> SUFFICES ASSUME NEW j \in Info, NEW c \in Date, NEW e \in stored'[j], c < e
               PROVE  Covered(j, c)'
    BY DEF StoredHasNoGap
  <2>1. CASE e \in stored[j]
    BY <2>1, <1>5 DEF GapInv, StoredHasNoGap
  <2>2. CASE e \notin stored[j]
    <3>1. j = i /\ e = d
      BY <2>2, <1>2 DEF GapInv, TypeOK
    <3>2. c \in stored[i] \/ c \in MissingBefore(i, d)
      BY <3>1 DEF MissingBefore
    <3>3. c \in stored'[i] \cup excused'[i]
      BY <3>2, <1>2 DEF GapInv, TypeOK
    <3>4. QED
      BY <3>1, <3>3 DEF Covered
  <2>3. QED
    BY <2>1, <2>2
<1>7. QED
  BY <1>1, <1>5, <1>6 DEF GapInv, AskedHasNoGap, LeftHasNoGap, LeftIsPublished

LEMMA UserDeletesInv ==
    ASSUME GapInv, TypeOK', NEW i \in Info, NEW d \in Date, UserDeletes(i, d)
    PROVE  GapInv'
<1>1. UNCHANGED <<published, asked, left, lost>>
  BY DEF UserDeletes, runVars
<1>2. \A j \in Info : /\ stored'[j] \subseteq stored[j]
                      /\ stored[j] \cup excused[j] \subseteq stored'[j] \cup excused'[j]
  BY DEF UserDeletes, GapInv, TypeOK
<1>3. \A j \in Info : Overtaken(j)' = Overtaken(j)
  BY <1>1 DEF Overtaken
<1>4. \A j \in Info, c \in Date : Covered(j, c) => Covered(j, c)'
  BY <1>1, <1>2, <1>3, CoverStays DEF GapInv
<1>5. QED
  BY <1>1, <1>2, <1>4 DEF GapInv, StoredHasNoGap, AskedHasNoGap, LeftHasNoGap, LeftIsPublished

(* Below the newest stored date nothing is asked for, nor is it missing.   *)
LEMMA StartNightlyInv ==
    ASSUME GapInv, TypeOK', StartNightly
    PROVE  GapInv'
<1>1. UNCHANGED <<published, stored, left, excused, lost>>
  BY DEF StartNightly, Begin, ghosts
<1>2. \A i \in Info : Overtaken(i)' = Overtaken(i)
  BY <1>1 DEF Overtaken
<1>3. \A i \in Info, d \in Date : Covered(i, d) => Covered(i, d)'
  BY <1>1, <1>2 DEF Covered, NeverPublished
<1>4. \A r \in Run, i \in Info : \/ asked'[r][i] = asked[r][i]
                                 \/ asked'[r][i] = {}
                                 \/ asked'[r][i] = ResumeDates(i)
  BY DEF StartNightly, Begin, GapInv, TypeOK
<1>5. AskedHasNoGap'
  <2> SUFFICES ASSUME NEW r \in Run, NEW i \in Info, NEW d \in Date, NEW e \in asked'[r][i], d < e,
                      d \notin asked'[r][i]
               PROVE  Covered(i, d)'
    BY DEF AskedHasNoGap
  <2>1. CASE asked'[r][i] = asked[r][i]
    BY <2>1, <1>3 DEF GapInv, AskedHasNoGap
  <2>2. CASE asked'[r][i] = ResumeDates(i)
    <3>1. PICK s \in stored[i] : ~(s <= d)
      BY <2>2 DEF ResumeDates, LatestUpTo
    <3>2. s \in Int /\ d < s
      BY <3>1 DEF GapInv, TypeOK
    <3>3. QED
      BY <3>2, <1>3 DEF GapInv, StoredHasNoGap
  <2>3. QED
    BY <2>1, <2>2, <1>4
<1>6. QED
  BY <1>1, <1>3, <1>5 DEF GapInv, StoredHasNoGap, LeftHasNoGap, LeftIsPublished

LEMMA StartManualInv ==
    ASSUME GapInv, TypeOK', NEW r \in Manual, NEW I \in SUBSET Info, NEW start \in Date,
           NEW to \in Date, StartManual(r, I, start, to)
    PROVE  GapInv'
<1>1. UNCHANGED <<published, stored, left, lost>>
  BY DEF StartManual, Begin
<1>2. \A i \in Info : /\ excused[i] \subseteq excused'[i]
                      /\ i \in I => MissingBefore(i, start) \subseteq excused'[i]
  BY DEF StartManual
<1>3. \A i \in Info : Overtaken(i)' = Overtaken(i)
  BY <1>1 DEF Overtaken
<1>4. \A i \in Info, d \in Date : Covered(i, d) => Covered(i, d)'
  BY <1>1, <1>2, <1>3, CoverStays DEF GapInv
<1>5. \A q \in Run, i \in Info : \/ asked'[q][i] = asked[q][i]
                                 \/ asked'[q][i] = {}
                                 \/ i \in I /\ asked'[q][i] = {d \in Date : start <= d}
  BY DEF StartManual, Begin, GapInv, TypeOK
<1>6. AskedHasNoGap'
  <2> SUFFICES ASSUME NEW q \in Run, NEW i \in Info, NEW d \in Date, NEW e \in asked'[q][i], d < e,
                      d \notin asked'[q][i]
               PROVE  Covered(i, d)'
    BY DEF AskedHasNoGap
  <2>1. CASE asked'[q][i] = asked[q][i]
    BY <2>1, <1>4 DEF GapInv, AskedHasNoGap
  <2>2. CASE i \in I /\ asked'[q][i] = {c \in Date : start <= c}
    <3>1. d \in stored[i] \cup MissingBefore(i, start)
      BY <2>2 DEF MissingBefore
    <3>2. d \in stored'[i] \cup excused'[i]
      BY <3>1, <2>2, <1>1, <1>2
    <3>3. QED
      BY <3>2 DEF Covered
  <2>3. QED
    BY <2>1, <2>2, <1>5
<1>7. QED
  BY <1>1, <1>4, <1>6 DEF GapInv, StoredHasNoGap, LeftHasNoGap, LeftIsPublished

(* A published date below a fetched one was asked for too or is covered;   *)
(* an unpublished one will never be published.                             *)
LEMMA FetchInv ==
    ASSUME GapInv, TypeOK', NEW r \in Run, NEW i \in Info, Fetch(r, i)
    PROVE  GapInv'
<1>1. UNCHANGED <<published, stored, excused, lost>>
  BY DEF Fetch, ghosts
<1>2. \A q \in Run, j \in Info :
         /\ asked'[q][j] = asked[q][j] \/ asked'[q][j] = {}
         /\ \/ left'[q][j] = left[q][j]
            \/ left[q][j] = {} /\ left'[q][j] = asked[q][j] \cap published[j]
  BY DEF Fetch, GapInv, TypeOK
<1>3. \A j \in Info : Overtaken(j) \subseteq Overtaken(j)'
  BY <1>1, <1>2 DEF Overtaken
<1>4. \A j \in Info, d \in Date : Covered(j, d) => Covered(j, d)'
  BY <1>1, <1>3, CoverStays DEF GapInv
<1>5. AskedHasNoGap'
  BY <1>2, <1>4 DEF GapInv, AskedHasNoGap
<1>6. LeftHasNoGap'
  <2> SUFFICES ASSUME NEW q \in Run, NEW j \in Info, NEW d \in Date, NEW e \in left'[q][j],
                      d < e, d \notin left'[q][j]
               PROVE  Covered(j, d)'
    BY DEF LeftHasNoGap
  <2>1. CASE left'[q][j] = left[q][j]
    BY <2>1, <1>4 DEF GapInv, LeftHasNoGap
  <2>2. CASE left'[q][j] = asked[q][j] \cap published[j]
    <3>1. CASE d \in asked[q][j]
      <4>1. d \notin published[j] /\ e \in published[j]
        BY <2>2, <3>1
      <4>2. NeverPublished(j, d)'
        BY <4>1, <1>1 DEF NeverPublished
      <4>3. QED
        BY <4>2 DEF Covered
    <3>2. CASE d \notin asked[q][j]
      BY <2>2, <3>2, <1>4 DEF GapInv, AskedHasNoGap
    <3>3. QED
      BY <3>1, <3>2
  <2>3. QED
    BY <2>1, <2>2, <1>2
<1>7. LeftIsPublished'
  BY <1>1, <1>2 DEF GapInv, LeftIsPublished
<1>8. QED
  BY <1>1, <1>4, <1>5, <1>6, <1>7 DEF GapInv, StoredHasNoGap

(* The item saved is the first that is left: with the oldest first nothing *)
(* is left below it, with the newest first what is left is Overtaken.      *)
LEMMA SaveOneInv ==
    ASSUME GapInv, TypeOK', NEW r \in Run, NEW i \in Info, SaveOne(r, i)
    PROVE  GapInv'
<1>1. PICK c \in First(i, left[r][i]) :
         /\ stored' = [stored EXCEPT ![i] = @ \cup {c}]
         /\ left' = [left EXCEPT ![r] = [@ EXCEPT ![i] = left[r][i] \ {c}]]
  BY DEF SaveOne
<1>2. UNCHANGED <<published, asked, excused, lost>>
  BY DEF SaveOne, ghosts
<1>2a. c \in left[r][i] /\ c \in Date /\ left[r][i] \ {c} \in SUBSET Date
  BY DEF First, GapInv, TypeOK
<1>2b. left \in [Run -> [Info -> SUBSET Date]] /\ stored \in [Info -> SUBSET Date]
  BY DEF GapInv, TypeOK
<1>2c. \A q \in Run, j \in Info : left'[q][j] = IF q = r /\ j = i THEN left[r][i] \ {c}
                                                               ELSE left[q][j]
  BY <1>1, <1>2a, <1>2b, UpdateOne
<1>3. /\ c \in left[r][i] /\ c \in Date
      /\ \A j \in Info : stored'[j] = IF j = i THEN stored[i] \cup {c} ELSE stored[j]
      /\ \A q \in Run, j \in Info : left'[q][j] = IF q = r /\ j = i THEN left[r][i] \ {c}
                                                                   ELSE left[q][j]
  BY <1>1, <1>2a, <1>2b, <1>2c
<1>4. \A j \in Info : Overtaken(j) \subseteq stored'[j] \cup Overtaken(j)'
  BY <1>2, <1>3 DEF Overtaken
<1>5. \A j \in Info : stored[j] \subseteq stored'[j]
  BY <1>3
<1>6. \A j \in Info, d \in Date : Covered(j, d) => Covered(j, d)'
  BY <1>2, <1>4, <1>5, CoverStays DEF GapInv
<1>7. StoredHasNoGap'
  <2> SUFFICES ASSUME NEW j \in Info, NEW d \in Date, NEW e \in stored'[j], d < e
               PROVE  Covered(j, d)'
    BY DEF StoredHasNoGap
  <2>1. CASE e \in stored[j]
    BY <2>1, <1>6 DEF GapInv, StoredHasNoGap
  <2>2. CASE e \notin stored[j]
    <3>1. j = i /\ e = c
      BY <2>2, <1>3
    <3>2. d \in left[r][i] \/ Covered(i, d)
      BY <3>1, <1>3 DEF GapInv, LeftHasNoGap
    <3>3. CASE d \in left[r][i] /\ i \in OldestFirst
      <4>1. c <= d
        BY <3>3, <1>1 DEF First
      <4>2. QED
        BY <4>1, <3>1, <1>3
    <3>4. CASE d \in left[r][i] /\ i \notin OldestFirst
      <4>1. d \in left'[r][i]
        BY <3>4, <3>1, <1>3
      <4>2. d \in Overtaken(i)'
        BY <4>1, <3>4 DEF Overtaken
      <4>3. QED
        BY <4>2, <3>1 DEF Covered
    <3>5. QED
      BY <3>1, <3>2, <3>3, <3>4, <1>6
  <2>3. QED
    BY <2>1, <2>2
<1>8. LeftHasNoGap'
  <2> SUFFICES ASSUME NEW q \in Run, NEW j \in Info, NEW d \in Date, NEW e \in left'[q][j],
                      d < e, d \notin left'[q][j]
               PROVE  Covered(j, d)'
    BY DEF LeftHasNoGap
  <2>1. e \in left[q][j]
    BY <1>3
  <2>2. CASE d \in left[q][j]
    <3>1. j = i /\ d = c
      BY <2>2, <1>3
    <3>2. QED
      BY <3>1, <1>3 DEF Covered
  <2>3. CASE d \notin left[q][j]
    BY <2>1, <2>3, <1>6 DEF GapInv, LeftHasNoGap
  <2>4. QED
    BY <2>2, <2>3
<1>9. LeftIsPublished'
  BY <1>2, <1>3 DEF GapInv, LeftIsPublished
<1>10. QED
  BY <1>2, <1>6, <1>7, <1>8, <1>9 DEF GapInv, AskedHasNoGap

LEMMA StopInv ==
    ASSUME GapInv, TypeOK', NEW r \in Run, Stop(r)
    PROVE  GapInv'
<1>1. UNCHANGED <<published, stored, excused>>
  BY DEF Stop
<1>2. \A q \in Run, j \in Info :
         /\ asked'[q][j] = asked[q][j] \/ asked'[q][j] = {}
         /\ \/ left'[q][j] = left[q][j]
            \/ left'[q][j] = {} /\ left[q][j] \subseteq lost'[j]
         /\ lost[j] \subseteq lost'[j]
  <2>1. \A j \in Info : lost'[j] = lost[j] \cup left[r][j]
    BY DEF Stop
  <2>2. \A q \in Run : asked'[q] = IF q = r THEN Nothing ELSE asked[q]
    BY DEF Stop, GapInv, TypeOK
  <2>3. \A q \in Run : left'[q] = IF q = r THEN Nothing ELSE left[q]
    BY DEF Stop, GapInv, TypeOK
  <2>4. \A j \in Info : Nothing[j] = {}
    BY DEF Nothing
  <2>5. TAKE q \in Run, j \in Info
  <2>6. CASE q = r
    BY <2>1, <2>2, <2>3, <2>4, <2>6
  <2>7. CASE q # r
    <3>1. asked'[q] = asked[q] /\ left'[q] = left[q]
      BY <2>2, <2>3, <2>7
    <3>2. lost[j] \subseteq lost'[j]
      BY <2>1
    <3>3. QED
      BY <3>1, <3>2
  <2>8. QED
    BY <2>6, <2>7
<1>3. \A j \in Info : Overtaken(j) \subseteq Overtaken(j)'
  <2> SUFFICES ASSUME NEW j \in Info, j \notin OldestFirst, NEW d \in Overtaken(j)
               PROVE  d \in Overtaken(j)'
    BY DEF Overtaken
  <2>1. CASE d \in lost[j]
    <3>1. Run # {}
      BY DEF Run
    <3>2. QED
      BY <2>1, <3>1, <1>2 DEF Overtaken
  <2>2. CASE d \notin lost[j]
    <3>1. PICK q \in Run : d \in left[q][j]
      BY <2>2 DEF Overtaken
    <3>2. d \in lost'[j] \/ d \in left'[q][j]
      BY <3>1, <1>2
    <3>3. QED
      BY <3>2 DEF Overtaken
  <2>3. QED
    BY <2>1, <2>2
<1>4. \A j \in Info, d \in Date : Covered(j, d) => Covered(j, d)'
  BY <1>1, <1>3, CoverStays DEF GapInv
<1>5. QED
  BY <1>1, <1>2, <1>4 DEF GapInv, StoredHasNoGap, AskedHasNoGap, LeftHasNoGap, LeftIsPublished

-----------------------------------------------------------------------------
LEMMA InitGap == ASSUME Init PROVE GapInv
<1>1. TypeOK
  BY BoundAssumption DEF Init, TypeOK, Nothing, Phase
<1>2. StoredHasNoGap /\ AskedHasNoGap /\ LeftHasNoGap /\ LeftIsPublished
  BY DEF Init, Nothing, StoredHasNoGap, AskedHasNoGap, LeftHasNoGap, LeftIsPublished
<1>3. QED
  BY <1>1, <1>2 DEF GapInv

LEMMA NextGap == ASSUME GapInv, [Next]_vars PROVE GapInv'
<1>0. TypeOK'
  BY TypeStep DEF GapInv
<1>1. CASE Midnight
  BY <1>0, <1>1, QuietStep DEF Midnight, runVars, ghosts
<1>2. ASSUME NEW i \in Info, Toggle(i) PROVE GapInv'
  BY <1>0, <1>2, QuietStep DEF Toggle, runVars, ghosts
<1>3. ASSUME NEW i \in Info, NEW d \in Date, Publish(i, d) PROVE GapInv'
  BY <1>0, <1>3, PublishInv
<1>4. ASSUME NEW i \in Info, NEW d \in Date, UserCreates(i, d) PROVE GapInv'
  BY <1>0, <1>4, UserCreatesInv
<1>5. ASSUME NEW i \in Info, NEW d \in Date, UserDeletes(i, d) PROVE GapInv'
  BY <1>0, <1>5, UserDeletesInv
<1>6. CASE StartNightly
  BY <1>0, <1>6, StartNightlyInv
<1>7. CASE UNCHANGED vars
  BY <1>0, <1>7, QuietStep DEF vars, runVars, ghosts
<1>8. CASE NothingDue
  BY <1>7, <1>8 DEF NothingDue
<1>9. ASSUME NEW r \in Manual, NEW I \in SUBSET Info, NEW start \in Date, NEW to \in Date,
             StartManual(r, I, start, to)
      PROVE  GapInv'
  BY <1>0, <1>9, StartManualInv
<1>10. ASSUME NEW r \in Run, NEW i \in Info, Fetch(r, i) PROVE GapInv'
  BY <1>0, <1>10, FetchInv
<1>11. ASSUME NEW r \in Run, NEW i \in Info, SaveOne(r, i) PROVE GapInv'
  BY <1>0, <1>11, SaveOneInv
<1>12. ASSUME NEW r \in Run, Join(r) \/ Finish(r) PROVE GapInv'
  BY <1>0, <1>12, QuietStep DEF Join, Finish, ghosts
<1>13. ASSUME NEW r \in Run, Stop(r) PROVE GapInv'
  BY <1>0, <1>13, StopInv
<1>14. QED
  BY <1>1, <1>2, <1>3, <1>4, <1>5, <1>6, <1>7, <1>8, <1>9, <1>10, <1>11, <1>12, <1>13
     DEF Next, Step

(* What a night holds: dates that have come, and those it waits for.       *)
LEMMA NightNext ==
    ASSUME TypeOK, PublishedHasCome, AskedIsWaited, [Next]_vars
    PROVE  PublishedHasCome' /\ AskedIsWaited'
<1> USE DEF TypeOK
<1>1. ASSUME NEW i \in Info, NEW d \in Date, Publish(i, d) PROVE PublishedHasCome' /\ AskedIsWaited'
  BY <1>1 DEF Publish, runVars, PublishedHasCome, AskedIsWaited
<1>2. CASE Midnight
  BY <1>2, BoundAssumption DEF Midnight, runVars, PublishedHasCome, AskedIsWaited
<1>3. ASSUME UNCHANGED <<published, today>> PROVE PublishedHasCome'
  BY <1>3 DEF PublishedHasCome
<1>4. ASSUME UNCHANGED <<asked, waiting>> PROVE AskedIsWaited'
  BY <1>4 DEF AskedIsWaited
<1>5. ASSUME NEW r \in Run, NEW I \in SUBSET Info, NEW dates, NEW to, Begin(r, I, dates, to)
      PROVE  AskedIsWaited'
  <2>1. SUFFICES ASSUME NEW q \in Run, NEW i \in Info, asked'[q][i] # {} PROVE i \in waiting'[q]
    BY DEF AskedIsWaited
  <2>2. CASE q = r
    BY <1>5, <2>1, <2>2 DEF Begin
  <2>3. CASE q # r
    BY <1>5, <2>1, <2>3 DEF Begin, AskedIsWaited
  <2>4. QED
    BY <2>2, <2>3
<1>6. ASSUME NEW r \in Run, NEW i \in Info, Fetch(r, i) PROVE AskedIsWaited'
  <2>1. \A q \in Run, j \in Info : asked'[q][j] = IF q = r /\ j = i THEN {} ELSE asked[q][j]
    BY <1>6, UpdateOne DEF Fetch
  <2>2. \A q \in Run : waiting'[q] = IF q = r THEN waiting[q] \ {i} ELSE waiting[q]
    BY <1>6 DEF Fetch
  <2>3. SUFFICES ASSUME NEW q \in Run, NEW j \in Info, asked'[q][j] # {} PROVE j \in waiting'[q]
    BY DEF AskedIsWaited
  <2>4. asked[q][j] # {} /\ ~(q = r /\ j = i)
    BY <2>1, <2>3
  <2>5. j \in waiting[q]
    BY <2>4 DEF AskedIsWaited
  <2> HIDE DEF TypeOK
  <2>6. QED
    BY <2>2, <2>4, <2>5
<1>7. ASSUME NEW r \in Run, Stop(r) PROVE AskedIsWaited'
  BY <1>7 DEF Stop, Nothing, AskedIsWaited
<1>8. Timer \in Run /\ Manual \subseteq Run
  BY DEF Run
<1>9. QED
  BY <1>1, <1>2, <1>3, <1>4, <1>5, <1>6, <1>7, <1>8
     DEF Next, Step, Toggle, UserCreates, UserDeletes, StartNightly, NothingDue, StartManual, Due,
         Fetch, SaveOne, Join, Finish, Stop, runVars, vars

(* The inductive invariant holds in every reachable state.                 *)
THEOREM Invariant == Spec => []IInv
<1>1. Init => IInv
  BY InitGap DEF IInv, Init, Nothing, PublishedHasCome, AskedIsWaited
<1>2. IInv /\ [Next]_vars => IInv'
  BY NextGap, NightNext DEF IInv, GapInv
<1>3. QED
  BY <1>1, <1>2, PTL DEF Spec

(* The variables have their types, an idle run holds nothing and a saving  *)
(* one waits for no fetch.                                                 *)
THEOREM TypeCorrect == Spec => []TypeOK
<1>1. IInv => TypeOK
  BY DEF IInv, GapInv
<1>2. QED
  BY <1>1, Invariant, PTL

(* Resuming at the newest stored date (AutoSyncScheduler, createSyncCommand) *)
(* leaves no gap below it that neither a user nor the API's order made.      *)
THEOREM NoGap == Spec => []GapFree
<1>1. IInv => GapFree
  <2> SUFFICES ASSUME GapInv, NEW i \in Info, NEW d \in published[i], NEW e \in stored[i], d < e
               PROVE  d \in stored[i] \cup excused[i] \cup Overtaken(i)
    BY DEF GapFree, IInv
  <2>1. d \in Date
    BY DEF GapInv, TypeOK
  <2>2. Covered(i, d)
    BY <2>1 DEF GapInv, StoredHasNoGap
  <2>3. QED
    BY <2>2 DEF Covered, NeverPublished
<1>2. QED
  BY <1>1, Invariant, PTL

-----------------------------------------------------------------------------
(* What is held is held by a run that has begun, and until it is stored.   *)
LEMMA HeldWhileRunning ==
    ASSUME IInv, NEW i \in Info, NEW d \in Date, Held(i, d)
    PROVE  /\ phase[Timer] # "idle"
           /\ phase[Timer] = "saving" => d \in left[Timer][i]
BY DEF IInv, GapInv, TypeOK, AskedIsWaited, Held, Nothing, Run

(* A night asks for all that is newer than what is stored.                 *)
LEMMA NightTakesUp ==
    ASSUME IInv, StartNightly, NEW i \in Info, NEW d \in Date, Newer(i, d)
    PROVE  Held(i, d)' /\ phase'[Timer] = "fetching"
<1>1. /\ i \in enabled /\ d \in published[i] /\ d <= today
      /\ \A e \in stored[i] : e < d
      /\ today \in Int /\ d \in Int /\ \A e \in stored[i] : e \in Int
  BY DEF IInv, GapInv, TypeOK, PublishedHasCome, Newer, LatestBefore
<1>2. i \in Due /\ d \in ResumeDates(i)
  BY <1>1 DEF Due, LatestBefore, ResumeDates, LatestUpTo
<1>3. Timer \in Run
  BY DEF Run
<1>4. phase'[Timer] = "fetching" /\ asked'[Timer][i] = ResumeDates(i)
  BY <1>2, <1>3 DEF StartNightly, Begin, IInv, GapInv, TypeOK
<1>5. QED
  BY <1>2, <1>4 DEF Held

(* No step of the night but a failing one lets go of it.                   *)
LEMMA NightKeeps ==
    ASSUME IInv, NEW i \in Info, NEW d \in Date, Newer(i, d), Newer(i, d)', Held(i, d),
           failures' = failures, Step(Timer) \/ Stop(Timer)
    PROVE  Held(i, d)' /\ phase'[Timer] # "idle"
<1>1. Timer \in Run /\ failures \in Int
  BY BoundAssumption DEF Run, IInv, GapInv, TypeOK
<1>2. phase[Timer] # "idle" /\ (phase[Timer] = "saving" => d \in left[Timer][i])
  BY HeldWhileRunning
<1>3. ASSUME NEW j \in Info, Fetch(Timer, j) PROVE Held(i, d)' /\ phase'[Timer] # "idle"
  <2>1. /\ asked' = [asked EXCEPT ![Timer] = [@ EXCEPT ![j] = {}]]
        /\ left' = [left EXCEPT ![Timer] = [@ EXCEPT ![j] = asked[Timer][j] \cap published[j]]]
        /\ UNCHANGED phase /\ j \in waiting[Timer]
    BY <1>1, <1>3 DEF Fetch
  <2>2. /\ \A k \in Info : asked'[Timer][k] = IF k = j THEN {} ELSE asked[Timer][k]
        /\ \A k \in Info : left'[Timer][k] =
               IF k = j THEN asked[Timer][j] \cap published[j] ELSE left[Timer][k]
    <3>1. {} \in SUBSET Date /\ asked[Timer][j] \cap published[j] \in SUBSET Date
      BY <1>1 DEF IInv, GapInv, TypeOK
    <3>2. asked \in [Run -> [Info -> SUBSET Date]] /\ left \in [Run -> [Info -> SUBSET Date]]
      BY DEF IInv, GapInv, TypeOK
    <3>3. QED
      BY <1>1, <2>1, <3>1, <3>2, UpdateOne
  <2>3. left[Timer][j] = {}
    BY <1>1, <2>1 DEF IInv, GapInv, TypeOK
  <2>4. QED
    BY <1>2, <2>1, <2>2, <2>3 DEF Held, Newer
<1>4. ASSUME NEW j \in Info, SaveOne(Timer, j) PROVE Held(i, d)' /\ phase'[Timer] # "idle"
  <2>1. PICK c \in First(j, left[Timer][j]) :
           /\ stored' = [stored EXCEPT ![j] = @ \cup {c}]
           /\ left' = [left EXCEPT ![Timer] = [@ EXCEPT ![j] = left[Timer][j] \ {c}]]
    BY <1>4 DEF SaveOne
  <2>2. UNCHANGED phase /\ phase[Timer] = "saving"
    BY <1>4 DEF SaveOne
  <2>3. \A k \in Info : left'[Timer][k] = IF k = j THEN left[Timer][j] \ {c} ELSE left[Timer][k]
    <3>1. left[Timer][j] \ {c} \in SUBSET Date
      BY <1>1 DEF IInv, GapInv, TypeOK
    <3>2. left \in [Run -> [Info -> SUBSET Date]]
      BY DEF IInv, GapInv, TypeOK
    <3>3. QED
      BY <1>1, <2>1, <3>1, <3>2, UpdateOne
  <2>4. ~(j = i /\ c = d)
    <3>1. SUFFICES ASSUME j = i, c = d PROVE FALSE
      OBVIOUS
    <3>2. d \in stored'[i]
      BY <2>1, <3>1 DEF IInv, GapInv, TypeOK
    <3>3. QED
      BY <3>2 DEF Newer, LatestBefore
  <2>5. QED
    BY <1>2, <2>2, <2>3, <2>4 DEF Held
<1>5. CASE Join(Timer)
  BY <1>1, <1>5 DEF Join, Held, IInv, GapInv, TypeOK
<1>6. CASE Finish(Timer)
  BY <1>2, <1>6 DEF Finish, Nothing
<1>7. CASE Stop(Timer)
  BY <1>1, <1>7 DEF Stop
<1>8. QED
  BY <1>3, <1>4, <1>5, <1>6, <1>7 DEF Step

(* The other runs, the users and the API leave a night alone.              *)
LEMMA NightUndisturbed ==
    ASSUME IInv, [Next]_vars, ~StartNightly, ~Step(Timer), ~Stop(Timer)
    PROVE  asked'[Timer] = asked[Timer] /\ left'[Timer] = left[Timer] /\ phase'[Timer] = phase[Timer]
<1>1. ASSUME NEW r \in Manual, NEW I \in SUBSET Info, NEW start \in Date, NEW to \in Date,
             StartManual(r, I, start, to), r # Timer
      PROVE  asked'[Timer] = asked[Timer] /\ left'[Timer] = left[Timer] /\ phase'[Timer] = phase[Timer]
  BY <1>1 DEF StartManual, Begin, IInv, GapInv, TypeOK, Run
<1>2. ASSUME NEW r \in Run, Step(r) \/ Stop(r)
      PROVE  asked'[Timer] = asked[Timer] /\ left'[Timer] = left[Timer] /\ phase'[Timer] = phase[Timer]
  <2>1. r # Timer /\ Timer \in Run
    BY <1>2 DEF Run
  <2>2. QED
    BY <1>2, <2>1 DEF Step, Fetch, SaveOne, Join, Finish, Stop, IInv, GapInv, TypeOK
<1>3. QED
  BY <1>1, <1>2, ThreadAssumption
     DEF Next, Midnight, Publish, Toggle, UserCreates, UserDeletes, NothingDue, runVars, vars

(* Whatever is newer than what is stored for an enabled index is held by   *)
(* the night that begins, and no night that meets no failure ends before   *)
(* it is stored or overtaken (AutoSyncScheduler, createSyncCommand).       *)
THEOREM HeldUntilStored == Spec => NightHoldsOn
<1> DEFINE A == failures' = failures =>
                  \A i \in Info, d \in Date : Newer(i, d) /\ Newer(i, d)' =>
                      /\ phase[Timer] = "idle" /\ phase'[Timer] # "idle" => Held(i, d)'
                      /\ Held(i, d) => Held(i, d)' /\ phase'[Timer] # "idle"
<1>1. ASSUME IInv, [Next]_vars PROVE [A]_vars
  <2>1. SUFFICES ASSUME failures' = failures, NEW i \in Info, NEW d \in Date,
                        Newer(i, d), Newer(i, d)'
                 PROVE  /\ phase[Timer] = "idle" /\ phase'[Timer] # "idle" => Held(i, d)'
                        /\ Held(i, d) => Held(i, d)' /\ phase'[Timer] # "idle"
    OBVIOUS
  <2>2. CASE StartNightly
    BY <1>1, <2>1, <2>2, NightTakesUp
  <2>3. CASE Step(Timer) \/ Stop(Timer)
    <3>1. Held(i, d) => Held(i, d)' /\ phase'[Timer] # "idle"
      BY <1>1, <2>1, <2>3, NightKeeps
    <3>2. phase[Timer] # "idle" \/ phase'[Timer] = "idle"
      <4>1. Timer \in Run /\ phase \in [Run -> Phase]
        BY <1>1 DEF Run, IInv, GapInv, TypeOK
      <4>2. \A j \in waiting[Timer] : phase[Timer] = "fetching"
        BY <1>1, <4>1 DEF IInv, GapInv, TypeOK
      <4>3. QED
        BY <2>3, <4>1, <4>2 DEF Step, Fetch, SaveOne, Join, Finish, Stop
    <3>3. QED
      BY <3>1, <3>2
  <2>4. CASE ~StartNightly /\ ~Step(Timer) /\ ~Stop(Timer)
    <3>1. asked'[Timer] = asked[Timer] /\ left'[Timer] = left[Timer] /\ phase'[Timer] = phase[Timer]
      BY <1>1, <2>4, NightUndisturbed
    <3>2. Held(i, d) => phase[Timer] # "idle"
      BY <1>1, HeldWhileRunning
    <3>3. QED
      BY <3>1, <3>2 DEF Held
  <2>5. QED
    BY <2>2, <2>3, <2>4
<1>2. QED
  BY <1>1, Invariant, PTL DEF Spec, NightHoldsOn

=============================================================================
