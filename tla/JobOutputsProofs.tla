--------------------------- MODULE JobOutputsProofs ---------------------------
(***************************************************************************)
(* Proofs about JobOutputs: the sets of a run are whole when they appear   *)
(* and of their own job, a client misses one only behind another job's, the *)
(* status of a job is that of its last run, and a job that is marked as     *)
(* resolved has had errors.                                                 *)
(*                                                                         *)
(* What carries them is what S3 holds for a job: the keys that its runs    *)
(* have produced and uploaded, no more and no less, whichever run they are *)
(* of (StoreHolds).                                                        *)
(***************************************************************************)
EXTENDS JobOutputs, FiniteSetTheorems, TLAPS

IsLast(r) == \A q \in RunsOf(job[r]) : q <= r

(* Runs are created one after the other.  One that is under way is the     *)
(* last of its job; one that has succeeded has uploaded and dealt with     *)
(* everything.                                                             *)
RunHolds(r) ==
  /\ (job[r] = None) = (status[r] = None)
  /\ job[r] = None =>
       /\ plan[r] = {} /\ left[r] = {} /\ outputFile[r] = None
       /\ \A d \in Dirs : fileSet[r][d] = None
  /\ job[r] # None => \A q \in Runs : q < r => job[q] # None
  /\ status[r] = "running" => IsLast(r) /\ outputFile[r] = None
  /\ status[r] = "success" => left[r] = {} /\ toReport[r] = {}
  /\ left[r] \subseteq plan[r]
RunsHold == \A r \in Runs : RunHolds(r)

StoreHolds ==
  \A j \in Jobs, k \in Keys :
    (k \in stored[j]) = (\E q \in RunsOf(j) : k \in plan[q] \ left[q])

(* A directory still to be dealt with has no set yet; one that was dealt   *)
(* with has one, if the run produced anything for it and its report has    *)
(* not failed.                                                             *)
ReportsHold ==
  \A r \in Runs, d \in Dirs :
    /\ d \in toReport[r] => fileSet[r][d] = None
    /\ KeysOf(plan[r], d) # {} => d \in toReport[r] \/ fileSet[r][d] # None \/ <<r, d>> \in unsaved

(* The files saved for a successful run hold all that it produced; those   *)
(* of the last run hold nothing but that and what earlier runs have left.  *)
FilesHold ==
  \A r \in Runs : FilesSaved(r) =>
    /\ status[r] = "success" => plan[r] \subseteq outputFile[r]
    /\ IsLast(r) => outputFile[r] \subseteq plan[r] \cup LeftBefore(job[r], r)

(* A job that is resolved, or about to be, has had errors.                 *)
ResolvesHold ==
  /\ ResolvedJobsHadErrors
  /\ \A q \in Requests : resolving[q] # None => HasHadErrors(resolving[q].job)

(* The sets of a job are stamped in the order of its runs.                 *)
StampsInOrder ==
  /\ \A r \in Runs, d \in Dirs : fileSet[r][d] # None => fileSet[r][d].createdOn <= clock
  /\ \A q, r \in Runs, d, e \in Dirs :
       fileSet[q][d] # None /\ fileSet[r][e] # None /\ job[q] = job[r] /\ q < r =>
         fileSet[q][d].createdOn < fileSet[r][e].createdOn

(* A client has got what is listed only, and its cursor is the stamp of    *)
(* one of these sets.                                                      *)
PollsHold ==
  /\ polled \subseteq Listed
  /\ cursor = 0 \/ \E s \in polled : CreatedOn(s) = cursor

(* The clock has ticked once for each set.                                 *)
AllSets == {s \in Runs \X Dirs : fileSet[s[1]][s[2]] # None}
ClockCounts == clock = Cardinality(AllSets)

JobOutInv ==
  /\ TypeOK /\ RunsHold /\ StoreHolds /\ ReportsHold /\ SetsAreComplete
  /\ SetsAreOfTheirJob /\ FilesHold /\ ResolvesHold /\ ClockCounts
  /\ StampsInOrder /\ PollsHold /\ MissedBehindOthersOnly

-----------------------------------------------------------------------------
(* The largest number of a set of numbers.                                  *)

LEMMA LargestExists ==
  ASSUME NEW n \in Nat, NEW S, S \subseteq 0..n, S # {}
  PROVE  \E m \in S : \A x \in S : x <= m
<1> DEFINE T == {n - x : x \in S}
<1>1. \A x \in S : x \in Nat /\ x <= n /\ n - x \in Nat  OBVIOUS
<1>2. T \subseteq Nat  BY <1>1, Zenon
<1>2a. T # {}  OBVIOUS
<1>3. PICK t \in T : \A y \in T : ~(<<y, t>> \in OpToRel(<, Nat))
  BY <1>2, <1>2a, NatLessThanWellFounded, WFMin
<1>4. \A y \in T : ~(y < t)  BY <1>2, <1>3 DEF OpToRel
<1>5. PICK m \in S : t = n - m  OBVIOUS
<1>6. \A x \in S : ~(n - x < n - m)  BY <1>4, <1>5
<1>7. \A x, y \in Nat : ~(n - x < n - y) => x <= y  OBVIOUS
<1>8. \A x \in S : x <= m  BY <1>1, <1>6, <1>7
<1>9. QED  BY <1>8

LEMMA LargestIs ==
  ASSUME NEW n \in Nat, NEW S, S \subseteq 0..n, S # {}
  PROVE  Max(S) \in S /\ \A x \in S : x <= Max(S)
<1>0. PICK m \in S : \A x \in S : x <= m  BY LargestExists
<1>1. \E y \in S : \A x \in S : y >= x  BY <1>0, SMT
<1>2. Max(S) \in S /\ \A x \in S : Max(S) >= x  BY <1>1, Zenon DEF Max
<1>3. \A x \in S : x \in Nat  OBVIOUS
<1>4. QED  BY <1>2, <1>3

(* The last run of a job is one of its runs, and none is later; a run that *)
(* none of the job's runs is later than is its last.                       *)
LEMMA LastOfRuns ==
  ASSUME NEW S, S \subseteq Runs, S # {}
  PROVE  /\ Max(S) \in S /\ \A x \in S : x <= Max(S)
         /\ \A r \in S : (\A x \in S : x <= r) => Max(S) = r
<1>1. S \subseteq 0..MaxRuns /\ MaxRuns \in Nat  BY MaxRunsOK DEF Runs
<1>2. Max(S) \in S /\ \A x \in S : x <= Max(S)  BY <1>1, LargestIs
<1>3. \A x \in S : x \in Nat  BY <1>1
<1>4. ASSUME NEW r \in S, \A x \in S : x <= r PROVE Max(S) = r
  <2>1. Max(S) <= r /\ r <= Max(S)  BY <1>2, <1>4
  <2>2. Max(S) \in Nat /\ r \in Nat  BY <1>2, <1>3
  <2>3. QED  BY <2>1, <2>2
<1>5. QED  BY <1>2, <1>4

LEMMA KeyParts ==
  \A k \in Keys : /\ k = Key(k.dir, k.file)
                  /\ k.dir \in Dirs => k.file \in Files /\ k # Unmatched
                  /\ k # Unmatched => k.dir \in Dirs
<1>1. ASSUME NEW k \in Keys
      PROVE  /\ k = Key(k.dir, k.file)
             /\ k.dir \in Dirs => k.file \in Files /\ k # Unmatched
             /\ k # Unmatched => k.dir \in Dirs
  <2>1. CASE k = Unmatched  BY <2>1 DEF Unmatched, Key, Dirs
  <2>2. CASE k # Unmatched
    <3>1. PICK d \in Dirs, f \in Files : k = Key(d, f)  BY <1>1, <2>2 DEF Keys
    <3>2. k.dir = d /\ k.file = f  BY <3>1 DEF Key
    <3>3. QED  BY <3>1, <3>2, <2>2
  <2>3. QED  BY <2>1, <2>2
<1>2. QED  BY <1>1

-----------------------------------------------------------------------------
(* The sets are counted by the clock, so it never passes its bound.         *)

LEMMA SetsAreFinite ==
  /\ IsFiniteSet(Runs \X Dirs) /\ Cardinality(Runs \X Dirs) = 2 * MaxRuns
<1>1. IsFiniteSet(Runs) /\ Cardinality(Runs) = MaxRuns
  <2>1. MaxRuns \in Nat /\ MaxRuns \in Int /\ 1 \in Int  BY MaxRunsOK
  <2>2. /\ IsFiniteSet(1..MaxRuns)
        /\ Cardinality(1..MaxRuns) = IF 1 > MaxRuns THEN 0 ELSE MaxRuns - 1 + 1
    BY <2>1, FS_Interval
  <2>3. QED  BY <2>1, <2>2 DEF Runs
<1>2. IsFiniteSet(Dirs) /\ Cardinality(Dirs) = 2
  <2>1. IsFiniteSet({"ods"}) /\ Cardinality({"ods"}) = 1  BY FS_Singleton
  <2>2. "non-ods" \notin {"ods"} /\ Dirs = {"ods"} \cup {"non-ods"}  BY DEF Dirs
  <2>3. IsFiniteSet(Dirs) /\ Cardinality(Dirs) = Cardinality({"ods"}) + 1
    BY <2>1, <2>2, FS_AddElement
  <2>4. QED  BY <2>1, <2>3
<1>3. IsFiniteSet(Runs \X Dirs) /\ Cardinality(Runs \X Dirs) = Cardinality(Runs) * Cardinality(Dirs)
  BY <1>1, <1>2, FS_Product
<1>4. MaxRuns * 2 = 2 * MaxRuns  BY MaxRunsOK
<1>5. QED  BY <1>1, <1>2, <1>3, <1>4

LEMMA NewSetFits ==
  ASSUME ClockCounts, clock \in Nat, NEW r \in Runs, NEW d \in Dirs, fileSet[r][d] = None
  PROVE  clock + 1 \in 1..(2 * MaxRuns)
<1> DEFINE P == Runs \X Dirs
           s == <<r, d>>
<1>1. s \in P /\ s[1] = r /\ s[2] = d  OBVIOUS
<1>2. AllSets \subseteq P \ {s}  BY <1>1 DEF AllSets
<1>3. IsFiniteSet(P \ {s}) /\ Cardinality(P \ {s}) = Cardinality(P) - 1
  BY <1>1, SetsAreFinite, FS_RemoveElement
<1>4. Cardinality(AllSets) <= Cardinality(P \ {s})  BY <1>2, <1>3, FS_Subset
<1>5. clock <= 2 * MaxRuns - 1  BY <1>3, <1>4, SetsAreFinite DEF ClockCounts
<1>6. QED  BY <1>5, MaxRunsOK

LEMMA ReportStep ==
  ASSUME JobOutInv, NEW r \in Runs, NEW d \in Dirs, ReportOutputFiles(r, d), SaveFileSet(r, d)
  PROVE  /\ clock' = clock + 1 /\ clock' \in 1..(2 * MaxRuns) /\ unsaved' = unsaved
         /\ job[r] \in Jobs
         /\ fileSet[r][d] = None
         /\ fileSet'[r][d] = [files |-> ListFilesAtPath(job[r], d), createdOn |-> clock']
         /\ fileSet'[r][d] \in FileSets /\ fileSet'[r][d] # None
         /\ fileSet' \in [Runs -> [Dirs -> FileSets \cup {None}]]
         /\ \A q \in Runs, e \in Dirs : <<q, e>> # <<r, d>> => fileSet'[q][e] = fileSet[q][e]
<1>1. TypeOK /\ RunsHold /\ ReportsHold /\ ClockCounts  BY DEF JobOutInv
<1>2. clock' = clock + 1 /\ unsaved' = unsaved
  BY DEF SaveFileSet
<1>3. fileSet' = [fileSet EXCEPT ![r][d] = [files |-> ListFilesAtPath(job[r], d), createdOn |-> clock']]
  BY DEF SaveFileSet
<1>4. fileSet[r][d] = None
  BY <1>1 DEF ReportOutputFiles, ReportsHold
<1>5. clock' \in 1..(2 * MaxRuns)
  <2>1. clock \in Nat  BY <1>1, MaxRunsOK DEF TypeOK
  <2>2. QED  BY <1>1, <1>2, <1>4, <2>1, NewSetFits
<1>6. job[r] \in Jobs
  <2>1. status[r] # None  BY NoneOK DEF ReportOutputFiles
  <2>2. job[r] # None  BY <1>1, <2>1 DEF RunsHold, RunHolds
  <2>3. QED  BY <1>1, <2>2 DEF TypeOK
<1>7. ListFilesAtPath(job[r], d) \subseteq Files
  <2>1. stored[job[r]] \subseteq Keys  BY <1>1, <1>6 DEF TypeOK
  <2>2. ASSUME NEW k \in KeysOf(stored[job[r]], d) PROVE k.file \in Files
    <3>1. k \in Keys /\ k.dir = d  BY <2>1, <2>2 DEF KeysOf
    <3>2. QED  BY <3>1, KeyParts
  <2>3. QED  BY <2>2 DEF ListFilesAtPath
<1>8. [files |-> ListFilesAtPath(job[r], d), createdOn |-> clock'] \in FileSets
  BY <1>5, <1>7 DEF FileSets
<1>9. fileSet \in [Runs -> [Dirs -> FileSets \cup {None}]]  BY <1>1 DEF TypeOK
<1>10. fileSet' \in [Runs -> [Dirs -> FileSets \cup {None}]]  BY <1>3, <1>8, <1>9
<1>11. fileSet'[r][d] = [files |-> ListFilesAtPath(job[r], d), createdOn |-> clock']
  BY <1>3, <1>9
<1>12. \A q \in Runs, e \in Dirs : <<q, e>> # <<r, d>> => fileSet'[q][e] = fileSet[q][e]
  BY <1>3, <1>9
<1>13. fileSet'[r][d] # None  BY <1>8, <1>11, NoneOK
<1>14. QED  BY <1>2, <1>4, <1>5, <1>6, <1>8, <1>10, <1>11, <1>12, <1>13

(* One set more, one tick more.                                             *)
LEMMA ClockReport ==
  ASSUME JobOutInv, NEW r \in Runs, NEW d \in Dirs, ReportOutputFiles(r, d)
  PROVE  ClockCounts'
<1>1. ClockCounts  BY DEF JobOutInv
<1>2. CASE UNCHANGED <<fileSet, clock>>
  BY <1>1, <1>2 DEF ClockCounts, AllSets
<1>3. CASE SaveFileSet(r, d)
  <2> DEFINE s == <<r, d>>
  <2>1. /\ clock' = clock + 1 /\ fileSet[r][d] = None /\ fileSet'[r][d] # None
        /\ \A q \in Runs, e \in Dirs : <<q, e>> # <<r, d>> => fileSet'[q][e] = fileSet[q][e]
    BY <1>3, ReportStep
  <2>2. s \in Runs \X Dirs /\ s[1] = r /\ s[2] = d  OBVIOUS
  <2>3. s \notin AllSets  BY <2>1, <2>2 DEF AllSets
  <2>4. AllSets' = AllSets \cup {s}
    <3>1. ASSUME NEW t \in Runs \X Dirs
          PROVE  (fileSet'[t[1]][t[2]] # None) = (fileSet[t[1]][t[2]] # None \/ t = s)
      <4>1. PICK q \in Runs, e \in Dirs : t = <<q, e>>  OBVIOUS
      <4>2. t[1] = q /\ t[2] = e  BY <4>1
      <4>3. QED  BY <2>1, <4>1, <4>2
    <3>2. AllSets' = {t \in Runs \X Dirs : fileSet'[t[1]][t[2]] # None}  BY DEF AllSets
    <3>3. QED  BY <2>2, <3>1, <3>2 DEF AllSets
  <2>5. IsFiniteSet(AllSets)  BY SetsAreFinite, FS_Subset DEF AllSets
  <2>6. Cardinality(AllSets \cup {s}) = Cardinality(AllSets) + 1
    BY <2>3, <2>5, FS_AddElement
  <2>7. QED  BY <1>1, <2>1, <2>4, <2>6 DEF ClockCounts
<1>4. QED  BY <1>2, <1>3 DEF ReportOutputFiles

-----------------------------------------------------------------------------
(* Types.                                                                   *)

LEMMA TypeStep == JobOutInv /\ [Next]_vars => TypeOK'
<1> SUFFICES ASSUME JobOutInv, [Next]_vars PROVE TypeOK'
  OBVIOUS
<1>1. TypeOK /\ RunsHold  BY DEF JobOutInv
<1>2. ASSUME NEW j \in Jobs, NEW r \in Runs, Start(j, r) PROVE TypeOK'
  <2>1. PICK dirs \in SUBSET Dirs, keys \in SUBSET Keys :
          /\ plan' = [plan EXCEPT ![r] = keys]
          /\ left' = [left EXCEPT ![r] = keys]
          /\ toReport' = [toReport EXCEPT ![r] = dirs]
    BY <1>2 DEF Start
  <2>2. /\ job' = [job EXCEPT ![r] = j]
        /\ status' = [status EXCEPT ![r] = "running"]
        /\ UNCHANGED <<stored, fileSet, unsaved, outputFile, clock, resolved, resolving, cursor,
                       polled>>
    BY <1>2 DEF Start, rowVars, userVars, clientVars
  <2>3. job' \in [Runs -> Jobs \cup {None}]  BY <1>1, <2>2 DEF TypeOK
  <2>4. status' \in [Runs -> {None, "running", "success", "error"}]  BY <1>1, <2>2 DEF TypeOK
  <2>5. plan' \in [Runs -> SUBSET Keys] /\ left' \in [Runs -> SUBSET Keys]
    BY <1>1, <2>1 DEF TypeOK
  <2>6. toReport' \in [Runs -> SUBSET Dirs]  BY <1>1, <2>1 DEF TypeOK
  <2>7. QED  BY <1>1, <2>2, <2>3, <2>4, <2>5, <2>6 DEF TypeOK
<1>3. ASSUME NEW r \in Runs, RunStep(r) PROVE TypeOK'
  <2>1. ASSUME NEW k \in Keys, Upload(r, k) PROVE TypeOK'
    <3>1. /\ left' = [left EXCEPT ![r] = @ \ {k}]
          /\ stored' = [stored EXCEPT ![job[r]] = @ \cup {k}]
          /\ UNCHANGED <<job, status, plan, toReport, fileSet, unsaved, outputFile, clock, resolved,
                         resolving, cursor, polled>>
      BY <2>1 DEF Upload, rowVars, userVars, clientVars
    <3>2. left' \in [Runs -> SUBSET Keys]  BY <1>1, <3>1 DEF TypeOK
    <3>3. stored' \in [Jobs -> SUBSET Keys]  BY <1>1, <3>1 DEF TypeOK
    <3>4. QED  BY <1>1, <3>1, <3>2, <3>3 DEF TypeOK
  <2>2. ASSUME NEW d \in Dirs, ReportOutputFiles(r, d) PROVE TypeOK'
    <3>1. /\ toReport' = [toReport EXCEPT ![r] = @ \ {d}]
          /\ UNCHANGED <<job, status, plan, left, stored, outputFile, resolved, resolving,
                         cursor, polled>>
      BY <2>2 DEF ReportOutputFiles, userVars, clientVars
    <3>2. toReport' \in [Runs -> SUBSET Dirs]  BY <1>1, <3>1 DEF TypeOK
    <3>3. /\ fileSet' \in [Runs -> [Dirs -> FileSets \cup {None}]]
          /\ clock' \in 0..(2 * MaxRuns) /\ unsaved' \subseteq Runs \X Dirs
      <4>1. CASE UNCHANGED <<fileSet, clock>>
        <5>1. unsaved' = unsaved \/ unsaved' = unsaved \cup {<<r, d>>}
          BY <2>2 DEF ReportOutputFiles, SaveFileSet
        <5>2. QED  BY <1>1, <4>1, <5>1 DEF TypeOK
      <4>2. CASE SaveFileSet(r, d)
        <5>1. /\ fileSet' \in [Runs -> [Dirs -> FileSets \cup {None}]]
              /\ clock' \in 1..(2 * MaxRuns) /\ unsaved' = unsaved
          BY <2>2, <4>2, ReportStep
        <5>2. clock' \in 0..(2 * MaxRuns)  BY <5>1, MaxRunsOK
        <5>3. QED  BY <1>1, <5>1, <5>2 DEF TypeOK
      <4>3. QED  BY <2>2, <4>1, <4>2 DEF ReportOutputFiles
    <3>4. QED  BY <1>1, <3>1, <3>2, <3>3 DEF TypeOK
  <2>3. ASSUME SetTerminalStatus(r) PROVE TypeOK'
    <3>1. /\ status' \in {[status EXCEPT ![r] = s] : s \in {"success", "error"}}
          /\ UNCHANGED <<job, plan, left, toReport, stored, fileSet, unsaved, outputFile, clock,
                         resolved, resolving, cursor, polled>>
      BY <2>3 DEF SetTerminalStatus, rowVars, userVars, clientVars
    <3>2. status' \in [Runs -> {None, "running", "success", "error"}]  BY <1>1, <3>1 DEF TypeOK
    <3>3. QED  BY <1>1, <3>1, <3>2 DEF TypeOK
  <2>4. ASSUME SaveOutputFiles(r) PROVE TypeOK'
    <3>1. PICK f \in {FilesToSave(r), Unlisted} :
            /\ outputFile' = [outputFile EXCEPT ![r] = f]
            /\ UNCHANGED <<job, status, plan, left, toReport, stored, fileSet, unsaved, clock,
                           resolved, resolving, cursor, polled>>
      BY <2>4 DEF SaveOutputFiles, runVars, userVars, clientVars
    <3>2. job[r] \in Jobs
      <4>1. status[r] # None  BY <2>4, NoneOK DEF SaveOutputFiles
      <4>2. job[r] # None  BY <1>1, <4>1 DEF RunsHold, RunHolds
      <4>3. QED  BY <1>1, <4>2 DEF TypeOK
    <3>3. f \in (SUBSET Keys) \cup {None, Unlisted}  BY <1>1, <3>2 DEF TypeOK, FilesToSave
    <3>4. outputFile' \in [Runs -> (SUBSET Keys) \cup {None, Unlisted}]
      BY <1>1, <3>1, <3>3 DEF TypeOK
    <3>5. QED  BY <1>1, <3>1, <3>4 DEF TypeOK
  <2>5. QED  BY <1>3, <2>1, <2>2, <2>3, <2>4 DEF RunStep
<1>4. ASSUME NEW q \in Requests, NEW j \in Jobs, CheckResolve(q, j) PROVE TypeOK'
  <2>1. PICK value \in BOOLEAN :
          /\ resolving' = [resolving EXCEPT ![q] = [job |-> j, value |-> value]]
          /\ UNCHANGED <<runVars, stored, rowVars, resolved, clientVars>>
    BY <1>4 DEF CheckResolve
  <2>2. resolving' \in [Requests -> [job : Jobs, value : BOOLEAN] \cup {None}]
    BY <1>1, <2>1 DEF TypeOK
  <2>3. UNCHANGED <<job, status, plan, left, toReport, stored, fileSet, unsaved, outputFile, clock,
                    resolved, cursor, polled>>
    BY <2>1 DEF runVars, rowVars, clientVars
  <2>4. QED  BY <1>1, <2>2, <2>3 DEF TypeOK
<1>5. ASSUME NEW q \in Requests, Resolve(q) PROVE TypeOK'
  <2>1. /\ resolved' = [resolved EXCEPT ![resolving[q].job] = resolving[q].value]
        /\ resolving' = [resolving EXCEPT ![q] = None]
        /\ UNCHANGED <<job, status, plan, left, toReport, stored, fileSet, unsaved, outputFile,
                       clock, cursor, polled>>
    BY <1>5 DEF Resolve, runVars, rowVars, clientVars
  <2>2. resolving[q] \in [job : Jobs, value : BOOLEAN]  BY <1>1, <1>5 DEF TypeOK, Resolve
  <2>3. resolving[q].value \in BOOLEAN  BY <2>2
  <2>4. resolved' \in [Jobs -> BOOLEAN]  BY <1>1, <2>1, <2>3 DEF TypeOK
  <2>5. resolving' \in [Requests -> [job : Jobs, value : BOOLEAN] \cup {None}]
    BY <1>1, <2>1 DEF TypeOK
  <2>6. QED  BY <1>1, <2>1, <2>4, <2>5 DEF TypeOK
<1>6. ASSUME Poll PROVE TypeOK'
  <2> DEFINE new == {s \in Listed : CreatedOn(s) > cursor}
             times == {CreatedOn(s) : s \in new}
  <2>1. /\ new # {} /\ polled' = polled \cup new /\ cursor' = Max(times)
        /\ UNCHANGED <<job, status, plan, left, toReport, stored, fileSet, unsaved, outputFile,
                       clock, resolved, resolving>>
    BY <1>6 DEF Poll, runVars, rowVars, userVars
  <2>2. ASSUME NEW s \in Listed
        PROVE  s \in Runs \X Dirs /\ CreatedOn(s) \in 0..(2 * MaxRuns)
    <3>1. PICK r \in Runs : s \in SetsOf(r)  BY <2>2 DEF Listed
    <3>2. PICK d \in Dirs : s = <<r, d>> /\ fileSet[r][d] # None  BY <3>1 DEF SetsOf
    <3>3. fileSet[r][d] \in FileSets  BY <1>1, <3>2 DEF TypeOK
    <3>4. fileSet[r][d].createdOn \in 1..(2 * MaxRuns)  BY <3>3 DEF FileSets
    <3>5. CreatedOn(s) = fileSet[r][d].createdOn  BY <3>2 DEF CreatedOn
    <3>6. QED  BY <3>2, <3>4, <3>5, MaxRunsOK
  <2>3. times \subseteq 0..(2 * MaxRuns) /\ times # {}  BY <2>1, <2>2
  <2>4. 2 * MaxRuns \in Nat  BY MaxRunsOK
  <2>5. Max(times) \in times  BY <2>3, <2>4, LargestIs
  <2>6. cursor' \in 0..(2 * MaxRuns)  BY <2>1, <2>3, <2>5
  <2>7. polled' \subseteq Runs \X Dirs  BY <1>1, <2>1, <2>2 DEF TypeOK
  <2>8. QED  BY <1>1, <2>1, <2>6, <2>7 DEF TypeOK
<1>7. CASE UNCHANGED vars
  BY <1>1, <1>7 DEF TypeOK, vars, runVars, rowVars, userVars, clientVars
<1>8. QED  BY <1>2, <1>3, <1>4, <1>5, <1>6, <1>7 DEF Next

-----------------------------------------------------------------------------
(* What each action does, run by run.                                       *)

(* A run that has a status belongs to a job.                                *)
LEMMA Started ==
  ASSUME JobOutInv, NEW r \in Runs, status[r] # None
  PROVE  job[r] \in Jobs /\ job[r] # None /\ r \in RunsOf(job[r])
<1>1. job[r] # None  BY DEF JobOutInv, RunsHold, RunHolds
<1>2. job[r] \in Jobs  BY <1>1 DEF JobOutInv, TypeOK
<1>3. QED  BY <1>1, <1>2 DEF RunsOf

LEMMA StartStep ==
  ASSUME JobOutInv, NEW j \in Jobs, NEW r \in Runs, Start(j, r)
  PROVE  /\ j # None /\ job[r] = None /\ \A q \in Runs : q < r => job[q] # None
         /\ \A q \in Runs : job[q] = j => status[q] # "running" /\ q # r
         /\ \A q \in Runs : job[q] # None => q < r
         /\ job'[r] = j /\ status'[r] = "running"
         /\ \A q \in Runs \ {r} :
              /\ job'[q] = job[q] /\ status'[q] = status[q] /\ plan'[q] = plan[q]
              /\ left'[q] = left[q] /\ toReport'[q] = toReport[q]
         /\ left'[r] = plan'[r] /\ plan'[r] \subseteq Keys
         /\ \A k \in plan'[r] : k.dir \in toReport'[r] \cup {"output"}
         /\ plan[r] = {} /\ left[r] = {} /\ outputFile[r] = None
         /\ \A d \in Dirs : fileSet[r][d] = None
         /\ UNCHANGED <<stored, fileSet, unsaved, outputFile, clock, resolved, resolving>>
<1>1. TypeOK /\ RunsHold  BY DEF JobOutInv
<1>2. /\ job \in [Runs -> Jobs \cup {None}]
      /\ status \in [Runs -> {None, "running", "success", "error"}]
      /\ plan \in [Runs -> SUBSET Keys] /\ left \in [Runs -> SUBSET Keys]
      /\ toReport \in [Runs -> SUBSET Dirs]
  BY <1>1 DEF TypeOK
<1>3. j # None /\ job[r] = None /\ \A q \in Runs : q < r => job[q] # None
  BY NoneOK DEF Start
<1>4. /\ plan[r] = {} /\ left[r] = {} /\ outputFile[r] = None
      /\ \A d \in Dirs : fileSet[r][d] = None
  BY <1>1, <1>3 DEF RunsHold, RunHolds
<1>5. /\ job' = [job EXCEPT ![r] = j] /\ status' = [status EXCEPT ![r] = "running"]
      /\ UNCHANGED <<stored, fileSet, unsaved, outputFile, clock, resolved, resolving>>
  BY DEF Start, rowVars, userVars
<1>6. PICK dirs \in SUBSET Dirs, keys \in SUBSET Keys :
        /\ \A k \in keys : k.dir \in dirs \cup {"output"}
        /\ plan' = [plan EXCEPT ![r] = keys]
        /\ left' = [left EXCEPT ![r] = keys]
        /\ toReport' = [toReport EXCEPT ![r] = dirs]
  BY DEF Start
<1>7. job'[r] = j /\ status'[r] = "running"  BY <1>2, <1>5
<1>8. plan'[r] = keys /\ left'[r] = keys /\ toReport'[r] = dirs  BY <1>2, <1>6
<1>9. \A q \in Runs \ {r} : job'[q] = job[q] /\ status'[q] = status[q]  BY <1>2, <1>5
<1>10. \A q \in Runs \ {r} : plan'[q] = plan[q] /\ left'[q] = left[q] /\ toReport'[q] = toReport[q]
  BY <1>2, <1>6
<1>11. \A q \in Runs : job[q] = j => status[q] # "running" /\ q # r
  BY <1>3 DEF Start, MayStart, RunsOf
<1>12. ASSUME NEW q \in Runs, job[q] # None PROVE q < r
  <2>1. q # r /\ ~(r < q)  BY <1>1, <1>3, <1>12 DEF RunsHold, RunHolds
  <2>2. q \in Nat /\ r \in Nat  BY MaxRunsOK DEF Runs
  <2>3. QED  BY <2>1, <2>2
<1>13. left'[r] = plan'[r] /\ plan'[r] \subseteq Keys  BY <1>8
<1>14. \A k \in plan'[r] : k.dir \in toReport'[r] \cup {"output"}  BY <1>6, <1>8
<1>15. QED  BY <1>3, <1>4, <1>5, <1>7, <1>9, <1>10, <1>11, <1>12, <1>13, <1>14

LEMMA UploadStep ==
  ASSUME JobOutInv, NEW r \in Runs, NEW k \in Keys, Upload(r, k)
  PROVE  /\ status[r] = "running" /\ k \in left[r] /\ k \in plan[r] /\ job[r] \in Jobs
         /\ left'[r] = left[r] \ {k}
         /\ \A q \in Runs \ {r} : left'[q] = left[q]
         /\ stored'[job[r]] = stored[job[r]] \cup {k}
         /\ \A i \in Jobs \ {job[r]} : stored'[i] = stored[i]
         /\ UNCHANGED <<job, status, plan, toReport, fileSet, unsaved, outputFile, clock, resolved,
                        resolving>>
<1>1. TypeOK /\ RunsHold  BY DEF JobOutInv
<1>2. status[r] = "running" /\ k \in left[r]  BY DEF Upload
<1>3. job[r] \in Jobs  BY <1>2, Started, NoneOK
<1>4. k \in plan[r]  BY <1>1, <1>2 DEF RunsHold, RunHolds
<1>5. left' = [left EXCEPT ![r] = @ \ {k}] /\ stored' = [stored EXCEPT ![job[r]] = @ \cup {k}]
  BY DEF Upload
<1>6. left \in [Runs -> SUBSET Keys] /\ stored \in [Jobs -> SUBSET Keys]  BY <1>1 DEF TypeOK
<1>7. left'[r] = left[r] \ {k} /\ \A q \in Runs \ {r} : left'[q] = left[q]  BY <1>5, <1>6
<1>8. stored'[job[r]] = stored[job[r]] \cup {k} /\ \A i \in Jobs \ {job[r]} : stored'[i] = stored[i]
  BY <1>3, <1>5, <1>6
<1>9. UNCHANGED <<job, status, plan, toReport, fileSet, unsaved, outputFile, clock, resolved,
                  resolving>>
  BY DEF Upload, rowVars, userVars
<1>10. QED  BY <1>2, <1>3, <1>4, <1>7, <1>8, <1>9

LEMMA TerminalStep ==
  ASSUME JobOutInv, NEW r \in Runs, SetTerminalStatus(r)
  PROVE  /\ status[r] = "running" /\ outputFile[r] = None
         /\ status'[r] \in {"success", "error"}
         /\ status'[r] = "success" => left[r] = {} /\ toReport[r] = {}
         /\ \A q \in Runs \ {r} : status'[q] = status[q]
         /\ UNCHANGED <<job, plan, left, toReport, stored, fileSet, unsaved, outputFile, clock,
                        resolved, resolving>>
<1>1. TypeOK /\ RunsHold  BY DEF JobOutInv
<1>2. status[r] = "running"  BY DEF SetTerminalStatus
<1>3. outputFile[r] = None  BY <1>1, <1>2 DEF RunsHold, RunHolds
<1>4. \/ AllReported(r) /\ status' = [status EXCEPT ![r] = "success"]
      \/ status' = [status EXCEPT ![r] = "error"]
  BY DEF SetTerminalStatus
<1>5. status \in [Runs -> {None, "running", "success", "error"}]  BY <1>1 DEF TypeOK
<1>6. \A q \in Runs \ {r} : status'[q] = status[q]  BY <1>4, <1>5
<1>7. status'[r] \in {"success", "error"} /\ (status'[r] = "success" => left[r] = {} /\ toReport[r] = {})
  BY <1>4, <1>5 DEF AllReported
<1>8. UNCHANGED <<job, plan, left, toReport, stored, fileSet, unsaved, outputFile, clock, resolved,
                  resolving>>
  BY DEF SetTerminalStatus, rowVars, userVars
<1>9. QED  BY <1>2, <1>3, <1>6, <1>7, <1>8

LEMMA SaveStep ==
  ASSUME JobOutInv, NEW r \in Runs, SaveOutputFiles(r)
  PROVE  /\ status[r] \in {"success", "error"} /\ outputFile[r] = None /\ job[r] \in Jobs
         /\ outputFile'[r] \in {stored[job[r]], Unlisted}
         /\ \A q \in Runs \ {r} : outputFile'[q] = outputFile[q]
         /\ UNCHANGED <<job, status, plan, left, toReport, stored, fileSet, unsaved, clock,
                        resolved, resolving>>
<1>1. TypeOK  BY DEF JobOutInv
<1>2. status[r] \in {"success", "error"} /\ outputFile[r] = None  BY DEF SaveOutputFiles
<1>3. job[r] \in Jobs  BY <1>2, Started, NoneOK
<1>4. PICK f \in {FilesToSave(r), Unlisted} : outputFile' = [outputFile EXCEPT ![r] = f]
  BY DEF SaveOutputFiles
<1>5. outputFile \in [Runs -> (SUBSET Keys) \cup {None, Unlisted}]  BY <1>1 DEF TypeOK
<1>6. outputFile'[r] = f /\ \A q \in Runs \ {r} : outputFile'[q] = outputFile[q]  BY <1>4, <1>5
<1>7. outputFile'[r] \in {stored[job[r]], Unlisted}  BY <1>4, <1>6 DEF FilesToSave
<1>8. UNCHANGED <<job, status, plan, left, toReport, stored, fileSet, unsaved, clock, resolved,
                  resolving>>
  BY DEF SaveOutputFiles, runVars, userVars
<1>9. QED  BY <1>2, <1>3, <1>6, <1>7, <1>8

(* A directory is dealt with once all that the run produced for it is there. *)
LEMMA ReportedStep ==
  ASSUME JobOutInv, NEW r \in Runs, NEW d \in Dirs, ReportOutputFiles(r, d)
  PROVE  /\ status[r] = "running" /\ job[r] \in Jobs /\ d \in toReport[r]
         /\ \A k \in plan[r] : k.dir = d => k \notin left[r]
         /\ toReport'[r] = toReport[r] \ {d}
         /\ \A q \in Runs \ {r} : toReport'[q] = toReport[q]
         /\ \A q \in Runs, e \in Dirs : <<q, e>> # <<r, d>> => fileSet'[q][e] = fileSet[q][e]
         /\ fileSet[r][d] = None
         /\ unsaved \subseteq unsaved'
         /\ \/ /\ fileSet'[r][d] = None /\ UNCHANGED <<fileSet, clock>>
               /\ KeysOf(plan[r], d) = {} \/ <<r, d>> \in unsaved'
            \/ /\ fileSet'[r][d] # None /\ clock' = clock + 1
               /\ fileSet'[r][d].createdOn = clock'
               /\ fileSet'[r][d].files = {k.file : k \in KeysOf(stored[job[r]], d)}
         /\ UNCHANGED <<job, status, plan, left, stored, outputFile, resolved, resolving>>
<1>1. TypeOK /\ ReportsHold  BY DEF JobOutInv
<1>2. status[r] = "running" /\ d \in toReport[r] /\ SetUploaded(r, d)  BY DEF ReportOutputFiles
<1>3. job[r] \in Jobs  BY <1>2, Started, NoneOK
<1>4. \A k \in plan[r] : k.dir = d => k \notin left[r]  BY <1>2 DEF SetUploaded, KeysOf
<1>5. toReport' = [toReport EXCEPT ![r] = @ \ {d}]  BY DEF ReportOutputFiles
<1>6. toReport \in [Runs -> SUBSET Dirs]  BY <1>1 DEF TypeOK
<1>7. toReport'[r] = toReport[r] \ {d} /\ \A q \in Runs \ {r} : toReport'[q] = toReport[q]
  BY <1>5, <1>6
<1>8. fileSet[r][d] = None  BY <1>1, <1>2 DEF ReportsHold
<1>9. UNCHANGED <<job, status, plan, left, stored, outputFile, resolved, resolving>>
  BY DEF ReportOutputFiles, userVars
<1>10. CASE KeysOf(plan[r], d) = {} /\ UNCHANGED <<fileSet, unsaved, clock>>
  BY <1>2, <1>3, <1>4, <1>7, <1>8, <1>9, <1>10
<1>11. CASE unsaved' = unsaved \cup {<<r, d>>} /\ UNCHANGED <<fileSet, clock>>
  BY <1>2, <1>3, <1>4, <1>7, <1>8, <1>9, <1>11
<1>12. CASE SaveFileSet(r, d)
  <2>1. /\ fileSet'[r][d] = [files |-> ListFilesAtPath(job[r], d), createdOn |-> clock']
        /\ fileSet'[r][d] # None /\ clock' = clock + 1 /\ unsaved' = unsaved
        /\ \A q \in Runs, e \in Dirs : <<q, e>> # <<r, d>> => fileSet'[q][e] = fileSet[q][e]
    BY <1>12, ReportStep
  <2>2. fileSet'[r][d].files = ListFilesAtPath(job[r], d) /\ fileSet'[r][d].createdOn = clock'
    BY <2>1
  <2>3. fileSet'[r][d].files = {k.file : k \in KeysOf(stored[job[r]], d)}
    BY <2>2 DEF ListFilesAtPath
  <2>4. QED  BY <1>2, <1>3, <1>4, <1>7, <1>8, <1>9, <2>1, <2>2, <2>3
<1>13. QED  BY <1>10, <1>11, <1>12 DEF ReportOutputFiles

-----------------------------------------------------------------------------
(* Each part of the invariant, step by step.  What does not touch the runs *)
(* and the rows leaves all parts but types and requests as they are.       *)

RunParts ==
  /\ RunsHold /\ StoreHolds /\ ReportsHold /\ SetsAreComplete /\ SetsAreOfTheirJob
  /\ FilesHold /\ ClockCounts /\ StampsInOrder

LEMMA UntouchedStep ==
  ASSUME JobOutInv, UNCHANGED <<runVars, stored, rowVars>>
  PROVE  RunParts'
<1>1. /\ RunsHold /\ StoreHolds /\ ReportsHold /\ SetsAreComplete /\ SetsAreOfTheirJob
      /\ FilesHold /\ ClockCounts /\ StampsInOrder
  BY DEF JobOutInv
<1>2. UNCHANGED <<job, status, plan, left, toReport, stored, fileSet, unsaved, outputFile, clock>>
  BY DEF runVars, rowVars
<1>3. RunsHold'  BY <1>1, <1>2 DEF RunsHold, RunHolds, IsLast, RunsOf
<1>4. StoreHolds'
  <2>1. ASSUME NEW j \in Jobs, NEW k \in Keys
        PROVE  (k \in stored'[j]) = (\E q \in RunsOf(j)' : k \in plan'[q] \ left'[q])
    <3>1. RunsOf(j)' = RunsOf(j)  BY <1>2 DEF RunsOf
    <3>2. (k \in stored[j]) = (\E q \in RunsOf(j) : k \in plan[q] \ left[q])
      BY <1>1 DEF StoreHolds
    <3>3. QED  BY <1>2, <3>1, <3>2
  <2>2. QED  BY <2>1 DEF StoreHolds
<1>5. ReportsHold'  BY <1>1, <1>2 DEF ReportsHold, KeysOf
<1>6. SetsAreComplete'  BY <1>1, <1>2 DEF SetsAreComplete, KeysOf
<1>7. SetsAreOfTheirJob'  BY <1>1, <1>2 DEF SetsAreOfTheirJob, LeftBefore, RunsOf
<1>8. FilesHold'  BY <1>1, <1>2 DEF FilesHold, FilesSaved, IsLast, LeftBefore, RunsOf
<1>9. ClockCounts'  BY <1>1, <1>2 DEF ClockCounts, AllSets
<1>10. StampsInOrder'  BY <1>1, <1>2 DEF StampsInOrder
<1>11. QED  BY <1>3, <1>4, <1>5, <1>6, <1>7, <1>8, <1>9, <1>10 DEF RunParts

LEMMA RunsHoldStep ==
  ASSUME JobOutInv, NEW r \in Runs, (\E j \in Jobs : Start(j, r)) \/ RunStep(r)
  PROVE  RunsHold'
<1>1. TypeOK /\ RunsHold  BY DEF JobOutInv
<1>2. ASSUME NEW j \in Jobs, Start(j, r) PROVE RunsHold'
  <2>1. /\ j # None /\ \A q \in Runs : q < r => job[q] # None
        /\ \A q \in Runs : job[q] = j => status[q] # "running" /\ q # r
        /\ \A q \in Runs : job[q] # None => q < r
        /\ job'[r] = j /\ status'[r] = "running"
        /\ \A q \in Runs \ {r} :
             /\ job'[q] = job[q] /\ status'[q] = status[q] /\ plan'[q] = plan[q]
             /\ left'[q] = left[q] /\ toReport'[q] = toReport[q]
        /\ left'[r] = plan'[r] /\ outputFile[r] = None
        /\ UNCHANGED <<fileSet, outputFile>>
    BY <1>2, StartStep
  <2>2. \A q \in Runs : q \in Nat  BY MaxRunsOK DEF Runs
  <2>3. RunHolds(r)'
    <3>1. IsLast(r)'
      <4>1. ASSUME NEW q \in Runs, job'[q] = job'[r] PROVE q <= r
        <5>1. CASE q = r  BY <2>2, <5>1
        <5>2. CASE q # r
          <6>1. job[q] # None  BY <2>1, <4>1, <5>2
          <6>2. QED  BY <2>1, <2>2, <6>1
        <5>3. QED  BY <5>1, <5>2
      <4>2. QED  BY <4>1 DEF IsLast, RunsOf
    <3>2. \A q \in Runs : q < r => job'[q] # None
      <4>1. \A q \in Runs : q < r => q # r  BY <2>2
      <4>2. QED  BY <2>1, <4>1
    <3>3. job'[r] # None /\ status'[r] # None /\ status'[r] # "success"  BY <2>1, NoneOK
    <3>4. QED  BY <2>1, <3>1, <3>2, <3>3 DEF RunHolds
  <2>4. ASSUME NEW q \in Runs, q # r PROVE RunHolds(q)'
    <3>1. RunHolds(q)  BY <1>1 DEF RunsHold
    <3>2. status[q] = "running" => IsLast(q)'
      <4>1. ASSUME status[q] = "running", NEW p \in Runs, job'[p] = job'[q] PROVE p <= q
        <5>1. job[q] # j  BY <2>1, <4>1
        <5>2. p # r  BY <2>1, <2>4, <4>1, <5>1
        <5>3. job[p] = job[q]  BY <2>1, <2>4, <4>1, <5>2
        <5>4. QED  BY <3>1, <4>1, <5>3 DEF RunHolds, IsLast, RunsOf
      <4>2. QED  BY <4>1 DEF IsLast, RunsOf
    <3>3. job[q] # None => \A p \in Runs : p < q => job'[p] # None
      BY <2>1, <3>1 DEF RunHolds
    <3>4. QED  BY <2>1, <2>4, <3>1, <3>2, <3>3 DEF RunHolds
  <2>5. QED  BY <2>3, <2>4 DEF RunsHold
<1>3. ASSUME NEW k \in Keys, Upload(r, k) PROVE RunsHold'
  <2>1. /\ status[r] = "running" /\ left'[r] = left[r] \ {k}
        /\ \A q \in Runs \ {r} : left'[q] = left[q]
        /\ UNCHANGED <<job, status, plan, toReport, fileSet, outputFile>>
    BY <1>3, UploadStep
  <2>2. ASSUME NEW q \in Runs PROVE RunHolds(q)'
    <3>1. RunHolds(q)  BY <1>1 DEF RunsHold
    <3>2. IsLast(q)' = IsLast(q)  BY <2>1 DEF IsLast, RunsOf
    <3>3. left'[q] \subseteq left[q] /\ (left[q] = {} => left'[q] = {})  BY <2>1
    <3>4. left'[q] \subseteq plan'[q]  BY <2>1, <3>1, <3>3 DEF RunHolds
    <3>5. QED  BY <2>1, <3>1, <3>2, <3>3, <3>4 DEF RunHolds
  <2>3. QED  BY <2>2 DEF RunsHold
<1>4. ASSUME NEW d \in Dirs, ReportOutputFiles(r, d) PROVE RunsHold'
  <2>1. /\ status[r] = "running" /\ job[r] \in Jobs
        /\ toReport'[r] = toReport[r] \ {d}
        /\ \A q \in Runs \ {r} : toReport'[q] = toReport[q]
        /\ \A q \in Runs, e \in Dirs : <<q, e>> # <<r, d>> => fileSet'[q][e] = fileSet[q][e]
        /\ UNCHANGED <<job, status, plan, left, outputFile>>
    BY <1>4, ReportedStep
  <2>2. ASSUME NEW q \in Runs PROVE RunHolds(q)'
    <3>1. RunHolds(q)  BY <1>1 DEF RunsHold
    <3>2. IsLast(q)' = IsLast(q)  BY <2>1 DEF IsLast, RunsOf
    <3>3. toReport[q] = {} => toReport'[q] = {}  BY <2>1
    <3>4. job[q] = None => q # r  BY <2>1, NoneOK
    <3>5. job[q] = None => \A e \in Dirs : fileSet'[q][e] = None
      BY <2>1, <3>1, <3>4 DEF RunHolds
    <3>6. QED  BY <2>1, <3>1, <3>2, <3>3, <3>5 DEF RunHolds
  <2>3. QED  BY <2>2 DEF RunsHold
<1>5. ASSUME SetTerminalStatus(r) PROVE RunsHold'
  <2>1. /\ status[r] = "running" /\ status'[r] \in {"success", "error"}
        /\ status'[r] = "success" => left[r] = {} /\ toReport[r] = {}
        /\ \A q \in Runs \ {r} : status'[q] = status[q]
        /\ UNCHANGED <<job, plan, left, toReport, fileSet, outputFile>>
    BY <1>5, TerminalStep
  <2>2. ASSUME NEW q \in Runs PROVE RunHolds(q)'
    <3>1. RunHolds(q)  BY <1>1 DEF RunsHold
    <3>2. IsLast(q)' = IsLast(q)  BY <2>1 DEF IsLast, RunsOf
    <3>3. CASE q = r  BY <2>1, <3>1, <3>2, <3>3, NoneOK DEF RunHolds
    <3>4. CASE q # r  BY <2>1, <3>1, <3>2, <3>4 DEF RunHolds
    <3>5. QED  BY <3>3, <3>4
  <2>3. QED  BY <2>2 DEF RunsHold
<1>6. ASSUME SaveOutputFiles(r) PROVE RunsHold'
  <2>1. /\ status[r] \in {"success", "error"} /\ job[r] # None
        /\ \A q \in Runs \ {r} : outputFile'[q] = outputFile[q]
        /\ UNCHANGED <<job, status, plan, left, toReport, fileSet>>
    BY <1>6, SaveStep, NoneOK
  <2>2. ASSUME NEW q \in Runs PROVE RunHolds(q)'
    <3>1. RunHolds(q)  BY <1>1 DEF RunsHold
    <3>2. IsLast(q)' = IsLast(q)  BY <2>1 DEF IsLast, RunsOf
    <3>3. q = r => status[q] # "running" /\ job[q] # None  BY <2>1
    <3>4. q # r => outputFile'[q] = outputFile[q]  BY <2>1
    <3>5. QED  BY <2>1, <3>1, <3>2, <3>3, <3>4 DEF RunHolds
  <2>3. QED  BY <2>2 DEF RunsHold
<1>7. QED  BY <1>2, <1>3, <1>4, <1>5, <1>6 DEF RunStep

(* S3 holds for a job what its runs have produced and uploaded.             *)
LEMMA StoreHoldsStep ==
  ASSUME JobOutInv, NEW r \in Runs, (\E j \in Jobs : Start(j, r)) \/ RunStep(r)
  PROVE  StoreHolds'
<1>1. TypeOK /\ RunsHold /\ StoreHolds  BY DEF JobOutInv
<1> SUFFICES ASSUME NEW i \in Jobs, NEW c \in Keys
             PROVE  (c \in stored'[i]) = (\E q \in RunsOf(i)' : c \in plan'[q] \ left'[q])
  BY DEF StoreHolds
<1>2. (c \in stored[i]) = (\E q \in RunsOf(i) : c \in plan[q] \ left[q])
  BY <1>1 DEF StoreHolds
<1>3. ASSUME NEW j \in Jobs, Start(j, r)
      PROVE  (c \in stored'[i]) = (\E q \in RunsOf(i)' : c \in plan'[q] \ left'[q])
  <2>1. /\ job'[r] = j /\ left'[r] = plan'[r] /\ job[r] = None /\ stored' = stored
        /\ \A q \in Runs \ {r} : job'[q] = job[q] /\ plan'[q] = plan[q] /\ left'[q] = left[q]
    BY <1>3, StartStep
  <2>2. ASSUME NEW q \in RunsOf(i), c \in plan[q] \ left[q]
        PROVE  q \in RunsOf(i)' /\ c \in plan'[q] \ left'[q]
    <3>1. q \in Runs /\ job[q] = i  BY DEF RunsOf
    <3>2. q # r  BY <2>1, <3>1, NoneOK
    <3>3. QED  BY <2>1, <2>2, <3>1, <3>2 DEF RunsOf
  <2>3. ASSUME NEW q \in RunsOf(i)', c \in plan'[q] \ left'[q]
        PROVE  q \in RunsOf(i) /\ c \in plan[q] \ left[q]
    <3>1. q \in Runs /\ job'[q] = i  BY DEF RunsOf
    <3>2. q # r  BY <2>1, <2>3
    <3>3. QED  BY <2>1, <2>3, <3>1, <3>2 DEF RunsOf
  <2>4. (\E q \in RunsOf(i) : c \in plan[q] \ left[q]) => (\E q \in RunsOf(i)' : c \in plan'[q] \ left'[q])
    BY <2>2
  <2>5. (\E q \in RunsOf(i)' : c \in plan'[q] \ left'[q]) => (\E q \in RunsOf(i) : c \in plan[q] \ left[q])
    BY <2>3
  <2>6. QED  BY <1>2, <2>1, <2>4, <2>5
<1>4. ASSUME NEW k \in Keys, Upload(r, k)
      PROVE  (c \in stored'[i]) = (\E q \in RunsOf(i)' : c \in plan'[q] \ left'[q])
  <2>1. /\ k \in plan[r] /\ job[r] \in Jobs
        /\ left'[r] = left[r] \ {k} /\ \A q \in Runs \ {r} : left'[q] = left[q]
        /\ stored'[job[r]] = stored[job[r]] \cup {k}
        /\ \A x \in Jobs \ {job[r]} : stored'[x] = stored[x]
        /\ UNCHANGED <<job, plan>>
    BY <1>4, UploadStep
  <2>2. RunsOf(i)' = RunsOf(i)  BY <2>1 DEF RunsOf
  <2>3. CASE c # k
    <3>1. \A q \in Runs : (c \in plan'[q] \ left'[q]) = (c \in plan[q] \ left[q])  BY <2>1, <2>3
    <3>2. (c \in stored'[i]) = (c \in stored[i])  BY <2>1, <2>3
    <3>3. RunsOf(i) \subseteq Runs  BY DEF RunsOf
    <3>4. QED  BY <1>2, <2>2, <3>1, <3>2, <3>3
  <2>4. CASE c = k /\ i = job[r]
    <3>1. c \in stored'[i]  BY <2>1, <2>4
    <3>2. r \in RunsOf(i) /\ c \in plan'[r] \ left'[r]  BY <2>1, <2>4 DEF RunsOf
    <3>3. QED  BY <2>2, <3>1, <3>2
  <2>5. CASE i # job[r]
    <3>1. \A q \in RunsOf(i) : (c \in plan'[q] \ left'[q]) = (c \in plan[q] \ left[q])
      BY <2>1, <2>5 DEF RunsOf
    <3>2. stored'[i] = stored[i]  BY <2>1, <2>5
    <3>3. QED  BY <1>2, <2>2, <3>1, <3>2
  <2>6. QED  BY <2>3, <2>4, <2>5
<1>5. CASE UNCHANGED <<job, plan, left, stored>>
  <2>1. RunsOf(i)' = RunsOf(i)  BY <1>5 DEF RunsOf
  <2>2. QED  BY <1>2, <1>5, <2>1
<1>6. \A d \in Dirs : ReportOutputFiles(r, d) => UNCHANGED <<job, plan, left, stored>>
  BY ReportedStep
<1>7. SetTerminalStatus(r) => UNCHANGED <<job, plan, left, stored>>  BY TerminalStep
<1>8. SaveOutputFiles(r) => UNCHANGED <<job, plan, left, stored>>  BY SaveStep
<1>9. QED  BY <1>3, <1>4, <1>5, <1>6, <1>7, <1>8 DEF RunStep

LEMMA ReportsHoldStep ==
  ASSUME JobOutInv, NEW r \in Runs, (\E j \in Jobs : Start(j, r)) \/ RunStep(r)
  PROVE  ReportsHold'
<1>1. ReportsHold  BY DEF JobOutInv
<1> SUFFICES ASSUME NEW q \in Runs, NEW e \in Dirs
             PROVE  /\ e \in toReport'[q] => fileSet'[q][e] = None
                    /\ KeysOf(plan'[q], e) # {} => e \in toReport'[q] \/ fileSet'[q][e] # None \/ <<q, e>> \in unsaved'
  BY DEF ReportsHold, KeysOf
<1>2. /\ e \in toReport[q] => fileSet[q][e] = None
      /\ KeysOf(plan[q], e) # {} => e \in toReport[q] \/ fileSet[q][e] # None \/ <<q, e>> \in unsaved
  BY <1>1 DEF ReportsHold
<1>3. ASSUME NEW j \in Jobs, Start(j, r)
      PROVE  /\ e \in toReport'[q] => fileSet'[q][e] = None
             /\ KeysOf(plan'[q], e) # {} => e \in toReport'[q] \/ fileSet'[q][e] # None \/ <<q, e>> \in unsaved'
  <2>1. /\ \A k \in plan'[r] : k.dir \in toReport'[r] \cup {"output"}
        /\ \A p \in Runs \ {r} : plan'[p] = plan[p] /\ toReport'[p] = toReport[p]
        /\ \A d \in Dirs : fileSet[r][d] = None
        /\ fileSet' = fileSet /\ unsaved' = unsaved
    BY <1>3, StartStep
  <2>2. CASE q = r
    <3>1. e # "output"  BY DEF Dirs
    <3>2. KeysOf(plan'[q], e) # {} => e \in toReport'[q]  BY <2>1, <2>2, <3>1 DEF KeysOf
    <3>3. QED  BY <2>1, <2>2, <3>2
  <2>3. CASE q # r  BY <1>2, <2>1, <2>3
  <2>4. QED  BY <2>2, <2>3
<1>4. ASSUME NEW d \in Dirs, ReportOutputFiles(r, d)
      PROVE  /\ e \in toReport'[q] => fileSet'[q][e] = None
             /\ KeysOf(plan'[q], e) # {} => e \in toReport'[q] \/ fileSet'[q][e] # None \/ <<q, e>> \in unsaved'
  <2>1. /\ toReport'[r] = toReport[r] \ {d}
        /\ \A p \in Runs \ {r} : toReport'[p] = toReport[p]
        /\ \A p \in Runs, x \in Dirs : <<p, x>> # <<r, d>> => fileSet'[p][x] = fileSet[p][x]
        /\ KeysOf(plan[r], d) # {} => fileSet'[r][d] # None \/ <<r, d>> \in unsaved'
        /\ unsaved \subseteq unsaved'
        /\ plan' = plan
    BY <1>4, ReportedStep
  <2>2. CASE q = r /\ e = d  BY <2>1, <2>2
  <2>3. CASE ~(q = r /\ e = d)
    <3>1. <<q, e>> # <<r, d>>  BY <2>3
    <3>2. fileSet'[q][e] = fileSet[q][e]  BY <2>1, <3>1
    <3>3. (e \in toReport'[q]) = (e \in toReport[q])  BY <2>1, <2>3
    <3>4. QED  BY <1>2, <2>1, <3>2, <3>3
  <2>4. QED  BY <2>2, <2>3
<1>5. UNCHANGED <<plan, toReport, fileSet, unsaved>> =>
        /\ e \in toReport'[q] => fileSet'[q][e] = None
        /\ KeysOf(plan'[q], e) # {} => e \in toReport'[q] \/ fileSet'[q][e] # None \/ <<q, e>> \in unsaved'
  BY <1>2
<1>6. \A k \in Keys : Upload(r, k) => UNCHANGED <<plan, toReport, fileSet, unsaved>>  BY UploadStep
<1>7. SetTerminalStatus(r) => UNCHANGED <<plan, toReport, fileSet, unsaved>>  BY TerminalStep
<1>8. SaveOutputFiles(r) => UNCHANGED <<plan, toReport, fileSet, unsaved>>  BY SaveStep
<1>9. QED  BY <1>3, <1>4, <1>5, <1>6, <1>7, <1>8 DEF RunStep

(* A set that was written for a run lists all that it produced for it.      *)
LEMMA SetsAreCompleteStep ==
  ASSUME JobOutInv, NEW r \in Runs, (\E j \in Jobs : Start(j, r)) \/ RunStep(r)
  PROVE  SetsAreComplete'
<1>1. SetsAreComplete /\ StoreHolds /\ TypeOK  BY DEF JobOutInv
<1> SUFFICES ASSUME NEW q \in Runs, NEW e \in Dirs, fileSet'[q][e] # None
             PROVE  {k.file : k \in KeysOf(plan'[q], e)} \subseteq fileSet'[q][e].files
  BY DEF SetsAreComplete, KeysOf
<1>2. fileSet[q][e] # None => {k.file : k \in KeysOf(plan[q], e)} \subseteq fileSet[q][e].files
  BY <1>1 DEF SetsAreComplete
<1>3. ASSUME plan'[q] = plan[q], fileSet'[q][e] = fileSet[q][e]
      PROVE  {k.file : k \in KeysOf(plan'[q], e)} \subseteq fileSet'[q][e].files
  BY <1>2, <1>3
<1>4. ASSUME NEW j \in Jobs, Start(j, r)
      PROVE  plan'[q] = plan[q] /\ fileSet'[q][e] = fileSet[q][e]
  <2>1. /\ \A d \in Dirs : fileSet[r][d] = None
        /\ \A p \in Runs \ {r} : plan'[p] = plan[p]
        /\ fileSet' = fileSet
    BY <1>4, StartStep
  <2>2. q # r  BY <2>1
  <2>3. QED  BY <2>1, <2>2
<1>5. ASSUME NEW d \in Dirs, ReportOutputFiles(r, d)
      PROVE  {k.file : k \in KeysOf(plan'[q], e)} \subseteq fileSet'[q][e].files
  <2>1. /\ job[r] \in Jobs /\ plan' = plan
        /\ \A k \in plan[r] : k.dir = d => k \notin left[r]
        /\ \A p \in Runs, x \in Dirs : <<p, x>> # <<r, d>> => fileSet'[p][x] = fileSet[p][x]
        /\ fileSet'[r][d] # None =>
             fileSet'[r][d].files = {k.file : k \in KeysOf(stored[job[r]], d)}
    BY <1>5, ReportedStep
  <2>2. CASE <<q, e>> = <<r, d>>
    <3>1. q = r /\ e = d  BY <2>2
    <3>2. ASSUME NEW k \in KeysOf(plan[r], d) PROVE k \in KeysOf(stored[job[r]], d)
      <4>1. k \in plan[r] /\ k.dir = d /\ k \notin left[r]  BY <2>1, <3>2 DEF KeysOf
      <4>2. k \in Keys  BY <1>1, <4>1 DEF TypeOK
      <4>3. r \in RunsOf(job[r])  BY DEF RunsOf
      <4>4. k \in stored[job[r]]  BY <1>1, <2>1, <4>1, <4>2, <4>3 DEF StoreHolds
      <4>5. QED  BY <4>1, <4>4 DEF KeysOf
    <3>3. fileSet'[r][d].files = {k.file : k \in KeysOf(stored[job[r]], d)}  BY <2>1, <3>1
    <3>4. QED  BY <2>1, <3>1, <3>2, <3>3
  <2>3. CASE <<q, e>> # <<r, d>>  BY <1>3, <2>1, <2>3
  <2>4. QED  BY <2>2, <2>3
<1>6. \A k \in Keys : Upload(r, k) => UNCHANGED <<plan, fileSet>>  BY UploadStep
<1>7. SetTerminalStatus(r) => UNCHANGED <<plan, fileSet>>  BY TerminalStep
<1>8. SaveOutputFiles(r) => UNCHANGED <<plan, fileSet>>  BY SaveStep
<1>9. QED  BY <1>3, <1>4, <1>5, <1>6, <1>7, <1>8 DEF RunStep

(* What the runs of a job have left in S3 stays there, so what a run may   *)
(* find there as its own or as left by earlier runs stays that.             *)
Own(q, c) == c \in plan[q] \cup LeftBefore(job[q], q)

LEMMA LeftStays ==
  ASSUME JobOutInv, NEW r \in Runs, (\E j \in Jobs : Start(j, r)) \/ RunStep(r),
         NEW p \in Runs, job[p] # None
  PROVE  job'[p] = job[p] /\ plan'[p] = plan[p] /\ left'[p] \subseteq left[p]
<1>1. ASSUME NEW j \in Jobs, Start(j, r)
      PROVE  job'[p] = job[p] /\ plan'[p] = plan[p] /\ left'[p] \subseteq left[p]
  <2>1. /\ job[r] = None
        /\ \A x \in Runs \ {r} : job'[x] = job[x] /\ plan'[x] = plan[x] /\ left'[x] = left[x]
    BY <1>1, StartStep
  <2>2. p # r  BY <2>1
  <2>3. QED  BY <2>1, <2>2
<1>2. ASSUME NEW k \in Keys, Upload(r, k)
      PROVE  job'[p] = job[p] /\ plan'[p] = plan[p] /\ left'[p] \subseteq left[p]
  <2>1. /\ left'[r] = left[r] \ {k} /\ \A x \in Runs \ {r} : left'[x] = left[x]
        /\ UNCHANGED <<job, plan>>
    BY <1>2, UploadStep
  <2>2. QED  BY <2>1
<1>3. \A d \in Dirs : ReportOutputFiles(r, d) => UNCHANGED <<job, plan, left>>  BY ReportedStep
<1>4. SetTerminalStatus(r) => UNCHANGED <<job, plan, left>>  BY TerminalStep
<1>5. SaveOutputFiles(r) => UNCHANGED <<job, plan, left>>  BY SaveStep
<1>6. QED  BY <1>1, <1>2, <1>3, <1>4, <1>5 DEF RunStep

LEMMA OwnStays ==
  ASSUME JobOutInv, NEW r \in Runs, (\E j \in Jobs : Start(j, r)) \/ RunStep(r),
         NEW q \in Runs, job[q] # None, NEW c, Own(q, c)
  PROVE  Own(q, c)'
<1>1. job'[q] = job[q] /\ plan'[q] = plan[q]  BY LeftStays
<1>2. CASE c \in plan[q]  BY <1>1, <1>2 DEF Own
<1>3. CASE c \notin plan[q]
  <2>1. PICK p \in Runs : job[p] = job[q] /\ p < q /\ c \in plan[p] \ left[p]
    BY <1>3 DEF Own, LeftBefore, RunsOf
  <2>2. job'[p] = job[p] /\ plan'[p] = plan[p] /\ left'[p] \subseteq left[p]
    BY <2>1, LeftStays
  <2>3. job'[p] = job'[q] /\ p < q /\ c \in plan'[p] \ left'[p]  BY <1>1, <2>1, <2>2
  <2>4. QED  BY <2>3 DEF Own, LeftBefore, RunsOf
<1>4. QED  BY <1>2, <1>3

(* For the last run of a job, S3 holds what it has produced and what the   *)
(* job's earlier runs have left.                                            *)
LEMMA StoreOfLast ==
  ASSUME JobOutInv, NEW r \in Runs, job[r] \in Jobs, IsLast(r), NEW k \in stored[job[r]]
  PROVE  Own(r, k)
<1>1. k \in Keys  BY DEF JobOutInv, TypeOK
<1>2. PICK q \in RunsOf(job[r]) : k \in plan[q] \ left[q]
  BY <1>1 DEF JobOutInv, StoreHolds
<1>3. q \in Runs /\ q <= r  BY DEF IsLast, RunsOf
<1>4. q \in Nat /\ r \in Nat  BY <1>3, MaxRunsOK DEF Runs
<1>5. CASE q = r  BY <1>2, <1>5 DEF Own
<1>6. CASE q # r
  <2>1. q < r  BY <1>3, <1>4, <1>6
  <2>2. QED  BY <1>2, <2>1 DEF Own, LeftBefore
<1>7. QED  BY <1>5, <1>6

LEMMA SetsOfTheirJobStep ==
  ASSUME JobOutInv, NEW r \in Runs, (\E j \in Jobs : Start(j, r)) \/ RunStep(r)
  PROVE  SetsAreOfTheirJob'
<1>1. SetsAreOfTheirJob /\ TypeOK /\ RunsHold  BY DEF JobOutInv
<1> SUFFICES ASSUME NEW q \in Runs, NEW e \in Dirs, fileSet'[q][e] # None,
                    NEW f \in fileSet'[q][e].files, NEW c, c = Key(e, f)
             PROVE  Own(q, c)'
  BY DEF SetsAreOfTheirJob, Own, Key
<1>2. ASSUME fileSet'[q][e] = fileSet[q][e] PROVE Own(q, c)'
  <2>1. Own(q, c)  BY <1>1, <1>2 DEF SetsAreOfTheirJob, Own
  <2>2. job[q] # None  BY <1>1, <1>2 DEF RunsHold, RunHolds
  <2>3. QED  BY <2>1, <2>2, OwnStays
<1>3. ASSUME NEW d \in Dirs, ReportOutputFiles(r, d) PROVE Own(q, c)'
  <2>1. /\ job[r] \in Jobs /\ status[r] = "running"
        /\ \A p \in Runs, x \in Dirs : <<p, x>> # <<r, d>> => fileSet'[p][x] = fileSet[p][x]
        /\ fileSet'[r][d] # None =>
             fileSet'[r][d].files = {k.file : k \in KeysOf(stored[job[r]], d)}
    BY <1>3, ReportedStep
  <2>2. CASE <<q, e>> = <<r, d>>
    <3>1. q = r /\ e = d  BY <2>2
    <3>2. PICK k \in KeysOf(stored[job[r]], d) : f = k.file  BY <2>1, <3>1
    <3>3. k \in stored[job[r]] /\ k.dir = d  BY DEF KeysOf
    <3>4. k \in Keys  BY <1>1, <2>1, <3>3 DEF TypeOK
    <3>5. k = c  BY <3>1, <3>2, <3>3, <3>4, KeyParts
    <3>6. IsLast(r)  BY <1>1, <2>1 DEF RunsHold, RunHolds
    <3>7. Own(r, k)  BY <2>1, <3>3, <3>6, StoreOfLast
    <3>8. job[q] # None  BY <2>1, <3>1, NoneOK
    <3>9. QED  BY <3>1, <3>5, <3>7, <3>8, OwnStays
  <2>3. CASE <<q, e>> # <<r, d>>  BY <1>2, <2>1, <2>3
  <2>4. QED  BY <2>2, <2>3
<1>4. \A j \in Jobs : Start(j, r) => fileSet' = fileSet  BY StartStep
<1>5. \A k \in Keys : Upload(r, k) => fileSet' = fileSet  BY UploadStep
<1>6. SetTerminalStatus(r) => fileSet' = fileSet  BY TerminalStep
<1>7. SaveOutputFiles(r) => fileSet' = fileSet  BY SaveStep
<1>8. QED  BY <1>2, <1>3, <1>4, <1>5, <1>6, <1>7 DEF RunStep

(* The files saved for a run.                                               *)
LEMMA FilesHoldStep ==
  ASSUME JobOutInv, NEW r \in Runs, (\E j \in Jobs : Start(j, r)) \/ RunStep(r)
  PROVE  FilesHold'
<1>1. FilesHold /\ TypeOK /\ RunsHold /\ StoreHolds  BY DEF JobOutInv
<1> SUFFICES ASSUME NEW q \in Runs, FilesSaved(q)'
             PROVE  /\ status'[q] = "success" => plan'[q] \subseteq outputFile'[q]
                    /\ IsLast(q)' => \A c \in outputFile'[q] : Own(q, c)'
  <2>1. ASSUME NEW q \in Runs, FilesSaved(q)', IsLast(q)', \A c \in outputFile'[q] : Own(q, c)'
        PROVE  (outputFile[q] \subseteq plan[q] \cup LeftBefore(job[q], q))'
    BY <2>1 DEF Own
  <2>2. QED  BY <2>1 DEF FilesHold
<1>2. ASSUME outputFile'[q] = outputFile[q], status'[q] = "success" => status[q] = "success"
      PROVE  /\ status'[q] = "success" => plan'[q] \subseteq outputFile'[q]
             /\ IsLast(q)' => \A c \in outputFile'[q] : Own(q, c)'
  <2>1. FilesSaved(q)  BY <1>2 DEF FilesSaved
  <2>2. /\ status[q] = "success" => plan[q] \subseteq outputFile[q]
        /\ IsLast(q) => outputFile[q] \subseteq plan[q] \cup LeftBefore(job[q], q)
    BY <1>1, <2>1 DEF FilesHold
  <2>3. job[q] # None  BY <1>1, <2>1 DEF RunsHold, RunHolds, FilesSaved
  <2>4. plan'[q] = plan[q] /\ job'[q] = job[q]  BY <2>3, LeftStays
  <2>5. IsLast(q)' => IsLast(q)
    <3>1. ASSUME IsLast(q)', NEW p \in Runs, job[p] = job[q] PROVE p <= q
      <4>1. job'[p] = job[p]  BY <2>3, <3>1, LeftStays
      <4>2. QED  BY <2>4, <3>1, <4>1 DEF IsLast, RunsOf
    <3>2. QED  BY <3>1 DEF IsLast, RunsOf
  <2>6. ASSUME IsLast(q)', NEW c \in outputFile'[q] PROVE Own(q, c)'
    <3>1. Own(q, c)  BY <1>2, <2>2, <2>5, <2>6 DEF Own
    <3>2. QED  BY <2>3, <3>1, OwnStays
  <2>7. QED  BY <1>2, <2>2, <2>4, <2>6
<1>3. ASSUME NEW j \in Jobs, Start(j, r)
      PROVE  outputFile'[q] = outputFile[q] /\ (status'[q] = "success" => status[q] = "success")
  <2>1. /\ outputFile' = outputFile /\ status'[r] = "running"
        /\ \A p \in Runs \ {r} : status'[p] = status[p]
    BY <1>3, StartStep
  <2>2. QED  BY <2>1
<1>4. ASSUME SetTerminalStatus(r)
      PROVE  outputFile'[q] = outputFile[q] /\ (status'[q] = "success" => status[q] = "success")
  <2>1. /\ outputFile' = outputFile /\ outputFile[r] = None
        /\ \A p \in Runs \ {r} : status'[p] = status[p]
    BY <1>4, TerminalStep
  <2>2. q # r  BY <2>1 DEF FilesSaved
  <2>3. QED  BY <2>1, <2>2
<1>5. ASSUME SaveOutputFiles(r)
      PROVE  /\ status'[q] = "success" => plan'[q] \subseteq outputFile'[q]
             /\ IsLast(q)' => \A c \in outputFile'[q] : Own(q, c)'
  <2>1. /\ job[r] \in Jobs /\ outputFile'[r] \in {stored[job[r]], Unlisted}
        /\ \A p \in Runs \ {r} : outputFile'[p] = outputFile[p]
        /\ UNCHANGED <<job, status, plan, left>>
    BY <1>5, SaveStep
  <2>2. CASE q # r  BY <1>2, <2>1, <2>2
  <2>3. CASE q = r
    <3>1. outputFile'[r] = stored[job[r]]  BY <2>1, <2>3 DEF FilesSaved
    <3>2. ASSUME status[r] = "success", NEW c \in plan[r] PROVE c \in stored[job[r]]
      <4>1. c \in Keys /\ c \notin left[r]  BY <1>1, <3>2 DEF TypeOK, RunsHold, RunHolds
      <4>2. r \in RunsOf(job[r])  BY DEF RunsOf
      <4>3. QED  BY <1>1, <2>1, <3>2, <4>1, <4>2 DEF StoreHolds
    <3>3. ASSUME IsLast(r)', NEW c \in stored[job[r]] PROVE Own(r, c)'
      <4>1. IsLast(r)  BY <2>1, <3>3 DEF IsLast, RunsOf
      <4>2. Own(r, c)  BY <2>1, <4>1, StoreOfLast
      <4>3. job[r] # None  BY <2>1, NoneOK
      <4>4. QED  BY <4>2, <4>3, OwnStays
    <3>4. QED  BY <2>1, <2>3, <3>1, <3>2, <3>3
  <2>4. QED  BY <2>2, <2>3
<1>6. \A k \in Keys : Upload(r, k) => UNCHANGED <<outputFile, status>>  BY UploadStep
<1>7. \A d \in Dirs : ReportOutputFiles(r, d) => UNCHANGED <<outputFile, status>>
  BY ReportedStep
<1>8. QED  BY <1>2, <1>3, <1>4, <1>5, <1>6, <1>7 DEF RunStep

-----------------------------------------------------------------------------
(* The order of the stamps, and what a client has got.                      *)

LEMMA StampsInOrderStep ==
  ASSUME JobOutInv, NEW r \in Runs, (\E j \in Jobs : Start(j, r)) \/ RunStep(r)
  PROVE  StampsInOrder'
<1>1. StampsInOrder /\ RunsHold /\ TypeOK  BY DEF JobOutInv
<1>2. ASSUME NEW j \in Jobs, Start(j, r) PROVE StampsInOrder'
  <2>1. /\ \A d \in Dirs : fileSet[r][d] = None
        /\ \A q \in Runs \ {r} : job'[q] = job[q]
        /\ UNCHANGED <<fileSet, clock>>
    BY <1>2, StartStep
  <2>2. QED  BY <1>1, <2>1 DEF StampsInOrder
<1>3. ASSUME NEW d \in Dirs, ReportOutputFiles(r, d) PROVE StampsInOrder'
  <2>1. job' = job /\ status[r] = "running"  BY <1>3, ReportedStep
  <2>2. CASE UNCHANGED <<fileSet, clock>>  BY <1>1, <2>1, <2>2 DEF StampsInOrder
  <2>3. CASE clock' = clock + 1 /\ fileSet'[r][d].createdOn = clock'
    <3>1. \A q \in Runs, e \in Dirs : <<q, e>> # <<r, d>> => fileSet'[q][e] = fileSet[q][e]
      BY <1>3, ReportedStep
    <3>2. clock \in Nat /\ \A q \in Runs : q \in Nat  BY <1>1, MaxRunsOK DEF TypeOK, Runs
    <3>3. \A q \in Runs : job[q] = job[r] => q <= r
      BY <1>1, <2>1 DEF RunsHold, RunHolds, IsLast, RunsOf
    <3>4. ASSUME NEW q \in Runs, NEW e \in Dirs, fileSet'[q][e] # None, <<q, e>> # <<r, d>>
          PROVE  fileSet'[q][e].createdOn <= clock /\ fileSet'[q][e].createdOn \in Nat
      <4>1. fileSet[q][e] \in FileSets  BY <1>1, <3>1, <3>4 DEF TypeOK
      <4>2. fileSet[q][e].createdOn \in Nat  BY <4>1, MaxRunsOK DEF FileSets
      <4>3. QED  BY <1>1, <3>1, <3>4, <4>2 DEF StampsInOrder
    <3>5. ASSUME NEW q \in Runs, NEW e \in Dirs, fileSet'[q][e] # None
          PROVE  fileSet'[q][e].createdOn <= clock'
      BY <2>3, <3>2, <3>4, <3>5
    <3>6. ASSUME NEW q \in Runs, NEW p \in Runs, NEW e \in Dirs, NEW g \in Dirs,
                 fileSet'[q][e] # None, fileSet'[p][g] # None, job'[q] = job'[p], q < p
          PROVE  fileSet'[q][e].createdOn < fileSet'[p][g].createdOn
      <4>1. CASE <<p, g>> = <<r, d>>
        <5>1. q # r  BY <3>2, <3>6, <4>1
        <5>2. fileSet'[q][e].createdOn <= clock /\ fileSet'[q][e].createdOn \in Nat
          BY <3>4, <3>6, <5>1
        <5>3. fileSet'[p][g].createdOn = clock + 1  BY <2>3, <4>1
        <5>4. QED  BY <3>2, <5>2, <5>3
      <4>2. CASE <<p, g>> # <<r, d>>
        <5>1. q # r
          <6>1. q = r => p <= r /\ r < p  BY <2>1, <3>3, <3>6
          <6>2. QED  BY <3>2, <6>1
        <5>2. fileSet'[q][e] = fileSet[q][e] /\ fileSet'[p][g] = fileSet[p][g]
          BY <3>1, <4>2, <5>1
        <5>3. QED  BY <1>1, <2>1, <3>6, <5>2 DEF StampsInOrder
      <4>3. QED  BY <4>1, <4>2
    <3>7. QED  BY <3>5, <3>6 DEF StampsInOrder
  <2>4. QED  BY <1>3, <2>2, <2>3, ReportedStep
<1>4. UNCHANGED <<job, fileSet, clock>> => StampsInOrder'  BY <1>1 DEF StampsInOrder
<1>5. \A k \in Keys : Upload(r, k) => UNCHANGED <<job, fileSet, clock>>  BY UploadStep
<1>6. SetTerminalStatus(r) => UNCHANGED <<job, fileSet, clock>>  BY TerminalStep
<1>7. SaveOutputFiles(r) => UNCHANGED <<job, fileSet, clock>>  BY SaveStep
<1>8. QED  BY <1>2, <1>3, <1>4, <1>5, <1>6, <1>7 DEF RunStep

(* What is listed, said of runs and directories.                            *)
LEMMA ListedIs ==
  ASSUME NEW s
  PROVE  s \in Listed <=> \E r \in Runs, d \in Dirs :
           s = <<r, d>> /\ fileSet[r][d] # None /\ status[r] = "success"
<1>1. s \in Listed <=> \E r \in Runs : status[r] = "success" /\ s \in SetsOf(r)
  BY DEF Listed
<1>2. \A r \in Runs : s \in SetsOf(r) <=> \E d \in Dirs : s = <<r, d>> /\ fileSet[r][d] # None
  BY DEF SetsOf
<1>3. QED  BY <1>1, <1>2

(* A set that is listed stays so, with its stamp and its job; one that a    *)
(* step makes listed is of the run that has just succeeded.                *)
LEMMA ListedStays ==
  ASSUME JobOutInv, NEW r \in Runs, (\E j \in Jobs : Start(j, r)) \/ RunStep(r),
         NEW q \in Runs, NEW e \in Dirs
  PROVE  /\ fileSet[q][e] # None /\ status[q] = "success" =>
              /\ fileSet'[q][e] = fileSet[q][e] /\ status'[q] = "success" /\ job'[q] = job[q]
         /\ fileSet'[q][e] # None /\ status'[q] = "success" =>
              \/ fileSet[q][e] # None /\ status[q] = "success"
              \/ q = r /\ status[r] = "running" /\ fileSet' = fileSet /\ job' = job
<1> DEFINE Stays == fileSet[q][e] # None /\ status[q] = "success" =>
                      /\ fileSet'[q][e] = fileSet[q][e] /\ status'[q] = "success"
                      /\ job'[q] = job[q]
           Came == fileSet'[q][e] # None /\ status'[q] = "success" =>
                     \/ fileSet[q][e] # None /\ status[q] = "success"
                     \/ q = r /\ status[r] = "running" /\ fileSet' = fileSet /\ job' = job
<1>1. ASSUME NEW j \in Jobs, Start(j, r) PROVE Stays /\ Came
  <2>1. /\ \A d \in Dirs : fileSet[r][d] = None
        /\ \A p \in Runs \ {r} : job'[p] = job[p] /\ status'[p] = status[p]
        /\ fileSet' = fileSet
    BY <1>1, StartStep
  <2>2. QED  BY <2>1
<1>2. ASSUME NEW d \in Dirs, ReportOutputFiles(r, d) PROVE Stays /\ Came
  <2>1. /\ status[r] = "running" /\ UNCHANGED <<job, status>>
        /\ \A p \in Runs, x \in Dirs : <<p, x>> # <<r, d>> => fileSet'[p][x] = fileSet[p][x]
    BY <1>2, ReportedStep
  <2>2. CASE q = r  BY <2>1, <2>2
  <2>3. CASE q # r
    <3>1. fileSet'[q][e] = fileSet[q][e]  BY <2>1, <2>3
    <3>2. QED  BY <2>1, <3>1
  <2>4. QED  BY <2>2, <2>3
<1>3. ASSUME SetTerminalStatus(r) PROVE Stays /\ Came
  <2>1. /\ status[r] = "running" /\ UNCHANGED <<job, fileSet>>
        /\ \A p \in Runs \ {r} : status'[p] = status[p]
    BY <1>3, TerminalStep
  <2>2. QED  BY <2>1
<1>4. UNCHANGED <<job, status, fileSet>> => Stays /\ Came  OBVIOUS
<1>5. \A k \in Keys : Upload(r, k) => UNCHANGED <<job, status, fileSet>>  BY UploadStep
<1>6. SaveOutputFiles(r) => UNCHANGED <<job, status, fileSet>>  BY SaveStep
<1>7. QED  BY <1>1, <1>2, <1>3, <1>4, <1>5, <1>6 DEF RunStep

LEMMA PollsHoldStep == JobOutInv /\ [Next]_vars => PollsHold' /\ MissedBehindOthersOnly'
<1> SUFFICES ASSUME JobOutInv, [Next]_vars PROVE PollsHold' /\ MissedBehindOthersOnly'
  OBVIOUS
<1>1. TypeOK /\ RunsHold /\ StampsInOrder /\ PollsHold /\ MissedBehindOthersOnly  BY DEF JobOutInv
<1>2. ASSUME NEW r \in Runs, (\E j \in Jobs : Start(j, r)) \/ RunStep(r)
      PROVE  PollsHold' /\ MissedBehindOthersOnly'
  <2>1. UNCHANGED <<cursor, polled>>
    BY <1>2 DEF Start, RunStep, Upload, ReportOutputFiles, SetTerminalStatus, SaveOutputFiles,
                clientVars
  <2>2. ASSUME NEW s \in Listed
        PROVE  s \in Listed' /\ CreatedOn(s)' = CreatedOn(s) /\ job'[s[1]] = job[s[1]]
    <3>1. PICK q \in Runs, e \in Dirs : s = <<q, e>> /\ fileSet[q][e] # None /\ status[q] = "success"
      BY ListedIs
    <3>2. fileSet'[q][e] = fileSet[q][e] /\ status'[q] = "success" /\ job'[q] = job[q]
      BY <1>2, <3>1, ListedStays
    <3>3. <<q, e>> \in SetsOf(q)'  BY <3>1, <3>2 DEF SetsOf
    <3>4. s \in Listed'  BY <3>1, <3>2, <3>3 DEF Listed
    <3>5. s[1] = q /\ s[2] = e  BY <3>1
    <3>6. QED  BY <3>2, <3>4, <3>5 DEF CreatedOn
  <2>3. PollsHold'
    <3>1. polled' \subseteq Listed'  BY <1>1, <2>1, <2>2 DEF PollsHold
    <3>2. ASSUME NEW t \in polled, CreatedOn(t) = cursor PROVE t \in polled' /\ CreatedOn(t)' = cursor'
      BY <1>1, <2>1, <2>2, <3>2 DEF PollsHold
    <3>3. QED  BY <1>1, <2>1, <3>1, <3>2 DEF PollsHold
  <2>4. ASSUME NEW s \in Listed', s \notin polled', CreatedOn(s)' <= cursor'
        PROVE  \E t \in polled' : job'[t[1]] # job'[s[1]] /\ CreatedOn(s)' <= CreatedOn(t)'
    <3>1. PICK q \in Runs, e \in Dirs :
            s = <<q, e>> /\ fileSet'[q][e] # None /\ status'[q] = "success"
      BY DEF Listed, SetsOf
    <3>2. s[1] = q /\ s[2] = e  BY <3>1
    <3>3. CASE fileSet[q][e] # None /\ status[q] = "success"
      <4>1. s \in Listed  BY <3>1, <3>3, ListedIs
      <4>2. s \notin polled /\ CreatedOn(s) <= cursor  BY <2>1, <2>2, <2>4, <4>1
      <4>3. PICK t \in polled : job[t[1]] # job[s[1]] /\ CreatedOn(s) <= CreatedOn(t)
        BY <1>1, <4>1, <4>2 DEF MissedBehindOthersOnly
      <4>4. t \in Listed /\ t \in polled'  BY <1>1, <2>1 DEF PollsHold
      <4>5. QED  BY <2>2, <4>1, <4>3, <4>4
    <3>4. CASE ~(fileSet[q][e] # None /\ status[q] = "success")
      <4>1. q = r /\ status[r] = "running" /\ fileSet' = fileSet /\ job' = job
        BY <1>2, <3>1, <3>4, ListedStays
      <4>2. CreatedOn(s)' = fileSet[q][e].createdOn /\ fileSet[q][e] # None
        BY <3>1, <3>2, <4>1 DEF CreatedOn
      <4>3. fileSet[q][e].createdOn \in 1..(2 * MaxRuns)
        <5>1. fileSet[q][e] \in FileSets  BY <1>1, <4>2 DEF TypeOK
        <5>2. QED  BY <5>1 DEF FileSets
      <4>4. cursor # 0
        <5>1. fileSet[q][e].createdOn >= 1  BY <4>3, MaxRunsOK
        <5>2. fileSet[q][e].createdOn <= cursor /\ cursor \in 0..(2 * MaxRuns)
          BY <1>1, <2>1, <2>4, <4>2 DEF TypeOK
        <5>3. QED  BY <4>3, <5>1, <5>2, MaxRunsOK
      <4>5. PICK t \in polled : CreatedOn(t) = cursor  BY <1>1, <4>4 DEF PollsHold
      <4>6. t \in Listed  BY <1>1 DEF PollsHold
      <4>7. PICK p \in Runs, g \in Dirs : t = <<p, g>> /\ fileSet[p][g] # None /\ status[p] = "success"
        BY <4>6, ListedIs
      <4>8. t[1] = p /\ t[2] = g  BY <4>7
      <4>9. CreatedOn(t)' = CreatedOn(t) /\ t \in polled'  BY <2>1, <2>2, <4>6
      <4>10. CreatedOn(s)' <= CreatedOn(t)'  BY <2>1, <2>4, <4>5, <4>9
      <4>11. job[p] # job[r]
        <5>1. SUFFICES ASSUME job[p] = job[r] PROVE FALSE  OBVIOUS
        <5>2. p \in Nat /\ r \in Nat  BY MaxRunsOK DEF Runs
        <5>3. p # r  BY <4>1, <4>7
        <5>4. p <= r  BY <1>1, <4>1, <5>1 DEF RunsHold, RunHolds, IsLast, RunsOf
        <5>5. p < r  BY <5>2, <5>3, <5>4
        <5>6. fileSet[p][g].createdOn < fileSet[q][e].createdOn
          BY <1>1, <4>1, <4>2, <4>7, <5>1, <5>5 DEF StampsInOrder
        <5>7. fileSet[p][g].createdOn = cursor  BY <4>5, <4>8 DEF CreatedOn
        <5>8. fileSet[q][e].createdOn <= cursor  BY <2>1, <2>4, <4>2
        <5>9. cursor \in Nat /\ fileSet[q][e].createdOn \in Nat  BY <1>1, <4>3, MaxRunsOK DEF TypeOK
        <5>10. QED  BY <5>6, <5>7, <5>8, <5>9
      <4>12. QED  BY <3>2, <4>1, <4>8, <4>9, <4>10, <4>11
    <3>5. QED  BY <3>3, <3>4
  <2>5. MissedBehindOthersOnly'  BY <2>4 DEF MissedBehindOthersOnly, CreatedOn
  <2>6. QED  BY <2>3, <2>5
<1>3. ASSUME UNCHANGED <<job, status, fileSet>>
      PROVE  Listed' = Listed /\ \A s : CreatedOn(s)' = CreatedOn(s)
  BY <1>3 DEF Listed, SetsOf, CreatedOn
<1>4. ASSUME UNCHANGED <<job, status, fileSet, cursor, polled>>
      PROVE  PollsHold' /\ MissedBehindOthersOnly'
  <2>1. Listed' = Listed /\ \A s : CreatedOn(s)' = CreatedOn(s)  BY <1>3, <1>4
  <2>2. QED  BY <1>1, <1>4, <2>1 DEF PollsHold, MissedBehindOthersOnly
<1>5. \A q \in Requests : Resolve(q) \/ (\E j \in Jobs : CheckResolve(q, j)) =>
        UNCHANGED <<job, status, fileSet, cursor, polled>>
  BY DEF Resolve, CheckResolve, runVars, rowVars, clientVars
<1>6. ASSUME Poll PROVE PollsHold' /\ MissedBehindOthersOnly'
  <2> DEFINE new == {s \in Listed : CreatedOn(s) > cursor}
             times == {CreatedOn(s) : s \in new}
  <2>1. /\ new # {} /\ polled' = polled \cup new /\ cursor' = Max(times)
        /\ UNCHANGED <<job, status, fileSet>>
    BY <1>6 DEF Poll, runVars, rowVars
  <2>2. Listed' = Listed /\ \A s : CreatedOn(s)' = CreatedOn(s)  BY <1>3, <2>1
  <2>3. ASSUME NEW s \in Listed PROVE CreatedOn(s) \in 0..(2 * MaxRuns)
    <3>1. PICK q \in Runs, e \in Dirs : s = <<q, e>> /\ fileSet[q][e] # None
      BY ListedIs
    <3>2. fileSet[q][e] \in FileSets  BY <1>1, <3>1 DEF TypeOK
    <3>3. fileSet[q][e].createdOn \in 1..(2 * MaxRuns)  BY <3>2 DEF FileSets
    <3>4. CreatedOn(s) = fileSet[q][e].createdOn  BY <3>1 DEF CreatedOn
    <3>5. QED  BY <3>3, <3>4, MaxRunsOK
  <2>4. times \subseteq 0..(2 * MaxRuns) /\ times # {}  BY <2>1, <2>3
  <2>5. 2 * MaxRuns \in Nat  BY MaxRunsOK
  <2>6. Max(times) \in times  BY <2>4, <2>5, LargestIs
  <2>7. PICK t \in new : CreatedOn(t) = cursor'  BY <2>1, <2>6
  <2>8. PollsHold'  BY <1>1, <2>1, <2>2, <2>7 DEF PollsHold
  <2>9. ASSUME NEW s \in Listed', s \notin polled', CreatedOn(s)' <= cursor'
        PROVE  \E u \in polled' : job'[u[1]] # job'[s[1]] /\ CreatedOn(s)' <= CreatedOn(u)'
    <3>1. s \in Listed /\ s \notin polled /\ s \notin new  BY <2>1, <2>2, <2>9
    <3>2. CreatedOn(s) <= cursor
      <4>1. CreatedOn(s) \in Nat /\ cursor \in Nat  BY <1>1, <2>3, <3>1, MaxRunsOK DEF TypeOK
      <4>2. QED  BY <3>1, <4>1
    <3>3. PICK u \in polled : job[u[1]] # job[s[1]] /\ CreatedOn(s) <= CreatedOn(u)
      BY <1>1, <3>1, <3>2 DEF MissedBehindOthersOnly
    <3>4. QED  BY <2>1, <2>2, <3>3
  <2>10. MissedBehindOthersOnly'  BY <2>9 DEF MissedBehindOthersOnly, CreatedOn
  <2>11. QED  BY <2>8, <2>10
<1>7. UNCHANGED vars => UNCHANGED <<job, status, fileSet, cursor, polled>>
  BY DEF vars, runVars, rowVars, clientVars
<1>8. QED  BY <1>2, <1>4, <1>5, <1>6, <1>7 DEF Next

-----------------------------------------------------------------------------
(* Requests to resolve.                                                     *)

(* A run that was complete with errors stays so, and its job's.             *)
LEMMA ErrorsStay ==
  ASSUME JobOutInv, NEW r \in Runs, (\E j \in Jobs : Start(j, r)) \/ RunStep(r),
         NEW j \in Jobs, HasHadErrors(j)
  PROVE  HasHadErrors(j)'
<1>1. PICK l \in Runs : job[l] = j /\ status[l] = "success" /\ HasUnmatchedFile(l)
  BY DEF HasHadErrors, RunsOf
<1>2. job[l] # None  BY <1>1, NoneOK
<1>3. job'[l] = j  BY <1>1, <1>2, LeftStays
<1>4. status'[l] = status[l] /\ outputFile'[l] = outputFile[l]
  <2>1. ASSUME NEW i \in Jobs, Start(i, r)
        PROVE  status'[l] = status[l] /\ outputFile'[l] = outputFile[l]
    <3>1. /\ job[r] = None /\ outputFile' = outputFile
          /\ \A q \in Runs \ {r} : status'[q] = status[q]
      BY <2>1, StartStep
    <3>2. l # r  BY <1>2, <3>1
    <3>3. QED  BY <3>1, <3>2
  <2>2. ASSUME SetTerminalStatus(r)
        PROVE  status'[l] = status[l] /\ outputFile'[l] = outputFile[l]
    <3>1. /\ status[r] = "running" /\ outputFile' = outputFile
          /\ \A q \in Runs \ {r} : status'[q] = status[q]
      BY <2>2, TerminalStep
    <3>2. l # r  BY <1>1, <3>1
    <3>3. QED  BY <3>1, <3>2
  <2>3. ASSUME SaveOutputFiles(r)
        PROVE  status'[l] = status[l] /\ outputFile'[l] = outputFile[l]
    <3>1. /\ outputFile[r] = None /\ status' = status
          /\ \A q \in Runs \ {r} : outputFile'[q] = outputFile[q]
      BY <2>3, SaveStep
    <3>2. l # r  BY <1>1, <3>1 DEF HasUnmatchedFile, FilesSaved
    <3>3. QED  BY <3>1, <3>2
  <2>4. \A k \in Keys : Upload(r, k) => UNCHANGED <<status, outputFile>>  BY UploadStep
  <2>5. \A d \in Dirs : ReportOutputFiles(r, d) => UNCHANGED <<status, outputFile>>
    BY ReportedStep
  <2>6. QED  BY <2>1, <2>2, <2>3, <2>4, <2>5 DEF RunStep
<1>5. status'[l] = "success" /\ HasUnmatchedFile(l)'
  BY <1>1, <1>4 DEF HasUnmatchedFile, FilesSaved
<1>6. l \in RunsOf(j)'  BY <1>3 DEF RunsOf
<1>7. QED  BY <1>5, <1>6 DEF HasHadErrors

(* A job that may be resolved is so already or has just had errors.         *)
LEMMA ChangeableHadErrors ==
  ASSUME JobOutInv, NEW j \in Jobs, IsStatusChangeable(j)
  PROVE  HasHadErrors(j)
<1>1. CASE resolved[j]  BY <1>1 DEF JobOutInv, ResolvesHold, ResolvedJobsHadErrors
<1>2. CASE OriginalStatus(j) = "complete with errors"
  <2>1. RunsOf(j) # {}  BY <1>2, NoneOK DEF OriginalStatus
  <2>2. RunsOf(j) \subseteq Runs  BY DEF RunsOf
  <2>3. LastRun(j) \in RunsOf(j)  BY <2>1, <2>2, LastOfRuns DEF LastRun
  <2>4. status[LastRun(j)] # "complete with errors"
    <3>1. status[LastRun(j)] \in {None, "running", "success", "error"}
      BY <2>2, <2>3 DEF JobOutInv, TypeOK
    <3>2. QED  BY <3>1, NoneOK
  <2>5. status[LastRun(j)] = "success" /\ HasUnmatchedFile(LastRun(j))
    BY <1>2, <2>1, <2>4 DEF OriginalStatus
  <2>6. QED  BY <2>3, <2>5 DEF HasHadErrors
<1>3. QED  BY <1>1, <1>2 DEF IsStatusChangeable

LEMMA ResolvesHoldStep == JobOutInv /\ [Next]_vars => ResolvesHold'
<1> SUFFICES ASSUME JobOutInv, [Next]_vars PROVE ResolvesHold'
  OBVIOUS
<1>1. TypeOK /\ ResolvesHold  BY DEF JobOutInv
<1>2. /\ \A j \in Jobs : resolved[j] => HasHadErrors(j)
      /\ \A q \in Requests : resolving[q] # None => HasHadErrors(resolving[q].job)
      /\ \A q \in Requests : resolving[q] # None => resolving[q].job \in Jobs
  BY <1>1 DEF ResolvesHold, ResolvedJobsHadErrors, TypeOK
<1>3. ASSUME NEW r \in Runs, (\E j \in Jobs : Start(j, r)) \/ RunStep(r) PROVE ResolvesHold'
  <2>1. UNCHANGED <<resolved, resolving>>
    BY <1>3 DEF Start, RunStep, Upload, ReportOutputFiles, SetTerminalStatus, SaveOutputFiles,
                userVars
  <2>2. \A j \in Jobs : HasHadErrors(j) => HasHadErrors(j)'  BY <1>3, ErrorsStay
  <2>3. QED  BY <1>2, <2>1, <2>2 DEF ResolvesHold, ResolvedJobsHadErrors, HasHadErrors
<1>4. ASSUME UNCHANGED <<runVars, rowVars>>, NEW j \in Jobs PROVE HasHadErrors(j)' = HasHadErrors(j)
  <2>1. UNCHANGED <<job, status, outputFile>>  BY <1>4 DEF runVars, rowVars
  <2>2. RunsOf(j)' = RunsOf(j)  BY <2>1 DEF RunsOf
  <2>3. QED  BY <2>1, <2>2 DEF HasHadErrors, HasUnmatchedFile, FilesSaved
<1>5. ASSUME NEW q \in Requests, NEW j \in Jobs, CheckResolve(q, j) PROVE ResolvesHold'
  <2>1. /\ UNCHANGED <<runVars, rowVars>> /\ resolved' = resolved /\ IsStatusChangeable(j)
    BY <1>5 DEF CheckResolve, MayResolve
  <2>2. PICK value \in BOOLEAN : resolving' = [resolving EXCEPT ![q] = [job |-> j, value |-> value]]
    BY <1>5 DEF CheckResolve
  <2>3. resolving \in [Requests -> [job : Jobs, value : BOOLEAN] \cup {None}]  BY <1>1 DEF TypeOK
  <2>4. ASSUME NEW p \in Requests, resolving'[p] # None
        PROVE  resolving'[p].job \in Jobs /\ HasHadErrors(resolving'[p].job)
    <3>1. CASE p = q
      <4>1. resolving'[p].job = j  BY <2>2, <2>3, <3>1
      <4>2. QED  BY <2>1, <4>1, ChangeableHadErrors
    <3>2. CASE p # q
      <4>1. resolving'[p] = resolving[p]  BY <2>2, <2>3, <3>2
      <4>2. QED  BY <1>2, <2>4, <4>1
    <3>3. QED  BY <3>1, <3>2
  <2>5. QED  BY <1>2, <1>4, <2>1, <2>4 DEF ResolvesHold, ResolvedJobsHadErrors, HasHadErrors
<1>6. ASSUME NEW q \in Requests, Resolve(q) PROVE ResolvesHold'
  <2>1. /\ UNCHANGED <<runVars, rowVars>> /\ resolving[q] # None
        /\ resolved' = [resolved EXCEPT ![resolving[q].job] = resolving[q].value]
        /\ resolving' = [resolving EXCEPT ![q] = None]
    BY <1>6 DEF Resolve
  <2>2. /\ resolving \in [Requests -> [job : Jobs, value : BOOLEAN] \cup {None}]
        /\ resolved \in [Jobs -> BOOLEAN]
    BY <1>1 DEF TypeOK
  <2>3. \A j \in Jobs : resolved'[j] => HasHadErrors(j)
    <3>1. \A j \in Jobs : j # resolving[q].job => resolved'[j] = resolved[j]  BY <2>1, <2>2
    <3>2. HasHadErrors(resolving[q].job)  BY <1>2, <2>1
    <3>3. QED  BY <1>2, <3>1, <3>2
  <2>4. \A p \in Requests : resolving'[p] # None => resolving'[p] = resolving[p]
    BY <2>1, <2>2
  <2>5. \A p \in Requests : resolving'[p] # None =>
          resolving'[p].job \in Jobs /\ HasHadErrors(resolving'[p].job)
    BY <1>2, <2>4
  <2>6. QED  BY <1>4, <2>1, <2>3, <2>5 DEF ResolvesHold, ResolvedJobsHadErrors, HasHadErrors
<1>7. ASSUME UNCHANGED <<runVars, rowVars, resolved, resolving>> PROVE ResolvesHold'
  <2>1. UNCHANGED <<runVars, rowVars>> /\ UNCHANGED <<resolved, resolving>>  BY <1>7
  <2>2. \A j \in Jobs : HasHadErrors(j)' = HasHadErrors(j)  BY <1>4, <2>1
  <2>3. QED  BY <1>2, <2>1, <2>2 DEF ResolvesHold, ResolvedJobsHadErrors, HasHadErrors
<1>8. CASE Poll  BY <1>7, <1>8 DEF Poll, userVars
<1>9. CASE UNCHANGED vars  BY <1>7, <1>9 DEF vars, userVars
<1>10. QED  BY <1>3, <1>5, <1>6, <1>8, <1>9 DEF Next

-----------------------------------------------------------------------------
(* The invariant.                                                           *)

LEMMA JobOutInit == Init => JobOutInv
<1> SUFFICES ASSUME Init PROVE JobOutInv
  OBVIOUS
<1> USE DEF Init
<1>1. TypeOK
  <2>1. 0 \in 0..(2 * MaxRuns)  BY MaxRunsOK
  <2>2. QED  BY <2>1 DEF TypeOK
<1>2. RunsHold  BY NoneOK DEF RunsHold, RunHolds
<1>3. StoreHolds
  <2>1. \A q \in Runs : plan[q] = {}  OBVIOUS
  <2>2. \A j \in Jobs : stored[j] = {}  OBVIOUS
  <2>3. \A j \in Jobs : RunsOf(j) \subseteq Runs  BY DEF RunsOf
  <2>4. ASSUME NEW j \in Jobs, NEW k \in Keys
        PROVE  (k \in stored[j]) = (\E q \in RunsOf(j) : k \in plan[q] \ left[q])
    <3>1. (k \in stored[j]) = FALSE  BY <2>2
    <3>2. (\E q \in RunsOf(j) : k \in plan[q] \ left[q]) = FALSE  BY <2>1, <2>3
    <3>3. QED  BY <3>1, <3>2, Zenon
  <2>5. QED  BY <2>4, Zenon DEF StoreHolds
<1>4. ReportsHold  BY DEF ReportsHold, KeysOf
<1>5. SetsAreComplete /\ SetsAreOfTheirJob  BY DEF SetsAreComplete, SetsAreOfTheirJob
<1>6. FilesHold  BY DEF FilesHold, FilesSaved
<1>7. ResolvesHold  BY DEF ResolvesHold, ResolvedJobsHadErrors
<1>8. ClockCounts
  <2>1. AllSets = {}  BY DEF AllSets
  <2>2. QED  BY <2>1, FS_EmptySet DEF ClockCounts
<1>9. StampsInOrder /\ PollsHold  BY DEF StampsInOrder, PollsHold
<1>10. MissedBehindOthersOnly
  <2>1. \A r \in Runs : SetsOf(r) = {}  BY DEF SetsOf
  <2>2. Listed = {}  BY <2>1 DEF Listed
  <2>3. QED  BY <2>2 DEF MissedBehindOthersOnly
<1>11. QED  BY <1>1, <1>2, <1>3, <1>4, <1>5, <1>6, <1>7, <1>8, <1>9, <1>10 DEF JobOutInv

LEMMA JobOutStep == JobOutInv /\ [Next]_vars => JobOutInv'
<1> SUFFICES ASSUME JobOutInv, [Next]_vars PROVE JobOutInv'
  OBVIOUS
<1>1. TypeOK'  BY TypeStep
<1>2. ResolvesHold'  BY ResolvesHoldStep
<1>3. RunParts'
  <2>1. ASSUME NEW r \in Runs, (\E j \in Jobs : Start(j, r)) \/ RunStep(r) PROVE RunParts'
    <3>1. RunsHold'  BY <2>1, RunsHoldStep
    <3>2. StoreHolds'  BY <2>1, StoreHoldsStep
    <3>3. ReportsHold'  BY <2>1, ReportsHoldStep
    <3>4. SetsAreComplete'  BY <2>1, SetsAreCompleteStep
    <3>5. SetsAreOfTheirJob'  BY <2>1, SetsOfTheirJobStep
    <3>6. FilesHold'  BY <2>1, FilesHoldStep
    <3>7. ClockCounts'
      <4>1. ClockCounts  BY DEF JobOutInv
      <4>2. UNCHANGED <<fileSet, clock>> => ClockCounts'  BY <4>1 DEF ClockCounts, AllSets
      <4>3. \A j \in Jobs : Start(j, r) => UNCHANGED <<fileSet, clock>>  BY StartStep
      <4>4. \A k \in Keys : Upload(r, k) => UNCHANGED <<fileSet, clock>>  BY UploadStep
      <4>5. \A d \in Dirs : ReportOutputFiles(r, d) => ClockCounts'  BY ClockReport
      <4>6. SetTerminalStatus(r) => UNCHANGED <<fileSet, clock>>  BY TerminalStep
      <4>7. SaveOutputFiles(r) => UNCHANGED <<fileSet, clock>>  BY SaveStep
      <4>8. QED  BY <2>1, <4>2, <4>3, <4>4, <4>5, <4>6, <4>7 DEF RunStep
    <3>8. StampsInOrder'  BY <2>1, StampsInOrderStep
    <3>9. QED  BY <3>1, <3>2, <3>3, <3>4, <3>5, <3>6, <3>7, <3>8 DEF RunParts
  <2>2. ASSUME NEW q \in Requests, Resolve(q) \/ \E j \in Jobs : CheckResolve(q, j) PROVE RunParts'
    BY <2>2, UntouchedStep DEF CheckResolve, Resolve
  <2>3. CASE Poll  BY <2>3, UntouchedStep DEF Poll
  <2>4. CASE UNCHANGED vars  BY <2>4, UntouchedStep DEF vars
  <2>5. QED  BY <2>1, <2>2, <2>3, <2>4 DEF Next
<1>4. PollsHold' /\ MissedBehindOthersOnly'  BY PollsHoldStep
<1>5. QED  BY <1>1, <1>2, <1>3, <1>4 DEF JobOutInv, RunParts

(* The invariant of the outputs of jobs: what S3 holds for each job is what *)
(* its runs have produced and uploaded, and sets and saved files follow it. *)
THEOREM JobOutputsInvariant == Spec => []JobOutInv
<1>1. Init => JobOutInv  BY JobOutInit
<1>2. JobOutInv /\ [Next]_vars => JobOutInv'  BY JobOutStep
<1>3. QED  BY <1>1, <1>2, PTL DEF Spec

-----------------------------------------------------------------------------
(* What follows from it.                                                    *)

(* The sets of a run appear together, once it has succeeded, with all that *)
(* it produced in them, but for sets whose report has failed; they hold no *)
(* file but its own and what earlier runs of its job have left in the      *)
(* directory; and a client that continues from the newest set it has got   *)
(* misses one only behind a set of another job.                            *)
THEOREM SetsAreSoundAlways == Spec => []SetsAreSound
<1>1. JobOutInv => SetsAreSound
  <2> SUFFICES ASSUME JobOutInv PROVE RunsAppearWhole
    BY DEF JobOutInv, SetsAreSound
  <2>1. TypeOK /\ RunsHold /\ ReportsHold /\ SetsAreComplete  BY DEF JobOutInv
  <2> SUFFICES ASSUME NEW r \in Runs, NEW d \in Dirs, <<r, d>> \in Listed,
                      NEW k \in plan[r] \ {Unmatched}
               PROVE  \/ <<r, k.dir>> \in unsaved
                      \/ <<r, k.dir>> \in Listed /\ k.file \in fileSet[r][k.dir].files
    BY DEF RunsAppearWhole
  <2>2. status[r] = "success"
    <3>1. PICK q \in Runs : status[q] = "success" /\ <<r, d>> \in SetsOf(q)  BY DEF Listed
    <3>2. q = r  BY <3>1 DEF SetsOf
    <3>3. QED  BY <3>1, <3>2
  <2>3. toReport[r] = {}  BY <2>1, <2>2 DEF RunsHold, RunHolds
  <2>4. k \in Keys /\ k # Unmatched  BY <2>1 DEF TypeOK
  <2>5. PICK e \in Dirs : e = k.dir  BY <2>4, KeyParts
  <2>6. k \in KeysOf(plan[r], e)  BY <2>5 DEF KeysOf
  <2>7. fileSet[r][e] # None \/ <<r, e>> \in unsaved  BY <2>1, <2>3, <2>6 DEF ReportsHold
  <2>8. ASSUME fileSet[r][e] # None PROVE <<r, e>> \in Listed /\ k.file \in fileSet[r][e].files
    <3>1. <<r, e>> \in SetsOf(r)  BY <2>8 DEF SetsOf
    <3>2. <<r, e>> \in Listed  BY <2>2, <3>1 DEF Listed
    <3>3. k.file \in fileSet[r][e].files  BY <2>1, <2>6, <2>8 DEF SetsAreComplete
    <3>4. QED  BY <3>2, <3>3
  <2>9. QED  BY <2>5, <2>7, <2>8
<1>2. QED  BY <1>1, JobOutputsInvariant, PTL

(* A job is "complete with errors" exactly if its last run has succeeded   *)
(* and left students unmatched, unless an earlier run has left a file of   *)
(* unmatched students behind, which the last run then inherits.            *)
THEOREM StatusIsOfLastRunAlways == Spec => []StatusIsOfLastRun
<1>1. JobOutInv => StatusIsOfLastRun
  <2> SUFFICES ASSUME JobOutInv, NEW j \in Jobs, RunsOf(j) # {}, FilesSaved(LastRun(j)),
                      NEW r, r = LastRun(j), Unmatched \notin LeftBefore(j, r)
               PROVE  (OriginalStatus(j) = "complete with errors")
                        = (status[r] = "success" /\ Unmatched \in plan[r])
    BY DEF StatusIsOfLastRun
  <2>1. RunsOf(j) \subseteq Runs  BY DEF RunsOf
  <2>2. r \in RunsOf(j) /\ \A q \in RunsOf(j) : q <= r  BY <2>1, LastOfRuns DEF LastRun
  <2>3. r \in Runs /\ job[r] = j /\ IsLast(r)  BY <2>2 DEF RunsOf, IsLast
  <2>4. /\ status[r] = "success" => plan[r] \subseteq outputFile[r]
        /\ outputFile[r] \subseteq plan[r] \cup LeftBefore(j, r)
    BY <2>3 DEF JobOutInv, FilesHold
  <2>5. status[r] = "success" => (Unmatched \in outputFile[r]) = (Unmatched \in plan[r])
    BY <2>4
  <2>6. status[r] # "complete with errors"
    <3>1. status[r] \in {None, "running", "success", "error"}  BY <2>3 DEF JobOutInv, TypeOK
    <3>2. QED  BY <3>1, NoneOK
  <2>7. (OriginalStatus(j) = "complete with errors")
          = (status[r] = "success" /\ Unmatched \in outputFile[r])
    BY <2>6 DEF OriginalStatus, HasUnmatchedFile
  <2>8. QED  BY <2>5, <2>7
<1>2. QED  BY <1>1, JobOutputsInvariant, PTL

(* A job that is marked as resolved has had errors to resolve, however many *)
(* requests were at it and whatever was started since they looked.         *)
THEOREM ResolvedHadErrors == Spec => []ResolvedJobsHadErrors
<1>1. JobOutInv => ResolvedJobsHadErrors  BY DEF JobOutInv, ResolvesHold
<1>2. QED  BY <1>1, JobOutputsInvariant, PTL

=============================================================================
