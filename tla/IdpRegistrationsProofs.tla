------------------------ MODULE IdpRegistrationsProofs ------------------------
(***************************************************************************)
(* Theorems about IdpRegistrations, for every set of providers, number of  *)
(* retries and number of changes and failures.                             *)
(*                                                                         *)
(* Any number of refreshes may be under way, each with its own copy of the *)
(* rows and its own tasks; the registrations are shared.  The invariant    *)
(* says how far each refresh is by its tasks, and that no refresh is ahead *)
(* of the current one; the notifications to come bound how many more can   *)
(* be started.                                                             *)
(***************************************************************************)
EXTENDS IdpRegistrations, TLAPS

(* A refresh by its tasks.                                                  *)
TasksFollow(k) ==
  /\ k > current => pc[k] = "ahead"
  /\ \A i \in Idps :
       /\ pc[k] \in {"ahead", "read", "failed"} => task[k][i] = "none"
       /\ task[k][i] = "first" => pc[k] = "discover"
       /\ task[k][i] = "late" => pc[k] = "over"
       /\ pc[k] \in {"discover", "over"} /\ task[k][i] = "none" => saw[k][i] = Absent

RefreshesFollow == \A k \in Refreshes : TasksFollow(k)

(* Every refresh but the first owes to a change.                            *)
NotesAreOfChanges == current + notes <= changes + 1

IdpInv == RegistrationsAreSound /\ RefreshesFollow /\ NotesAreOfChanges

-----------------------------------------------------------------------------
(* Types, and who changes what.                                             *)

Pcs == {"ahead", "read", "discover", "over", "failed"}

LEMMA TypeFacts ==
  ASSUME TypeOK
  PROVE  /\ pc \in [Refreshes -> Pcs] /\ saw \in [Refreshes -> Rows]
         /\ task \in [Refreshes -> [Idps -> Tasks]] /\ tries \in [Refreshes -> [Idps -> 0..MaxRetries]]
         /\ registered \in Rows /\ config \in Rows /\ current \in Refreshes
         /\ current \in Nat /\ notes \in Nat /\ changes \in Nat /\ MaxChanges \in Nat /\ failures \in Nat
         /\ changes <= MaxChanges /\ Refreshes \subseteq Nat
BY ConstantsOK DEF TypeOK, Pcs, Refreshes

LEMMA FailureCounts == TypeOK /\ Failure => failures' \in 0..MaxFailures
BY ConstantsOK DEF TypeOK, Failure

LEMMA Going ==
  ASSUME TypeOK, NEW k \in Refreshes, NEW from, NEW to \in Pcs, RefreshGoes(k, from, to)
  PROVE  /\ pc[k] = from /\ pc'[k] = to /\ pc' \in [Refreshes -> Pcs]
         /\ \A m \in Refreshes : m # k => pc'[m] = pc[m]
BY TypeFacts DEF RefreshGoes

LEMMA TaskGoing ==
  ASSUME TypeOK, NEW k \in Refreshes, NEW i \in Idps, NEW from, NEW to \in Tasks, TaskGoes(k, i, from, to)
  PROVE  /\ task[k][i] = from /\ task'[k][i] = to /\ task' \in [Refreshes -> [Idps -> Tasks]]
         /\ \A m \in Refreshes : m # k => task'[m] = task[m]
         /\ \A j \in Idps : j # i => task'[k][j] = task[k][j]
<1>1. task \in [Refreshes -> [Idps -> Tasks]]
  BY TypeFacts
<1>2. [task[k] EXCEPT ![i] = to] \in [Idps -> Tasks]
  BY <1>1
<1> QED
  BY <1>1, <1>2 DEF TaskGoes

LEMMA Registering ==
  ASSUME TypeOK, NEW k \in Refreshes, NEW i \in Idps, ApplyRegistration(k, i)
  PROVE  /\ registered' \in Rows /\ registered'[i] = saw[k][i]
         /\ \A j \in Idps : j # i => registered'[j] = registered[j]
<1>1. registered \in Rows /\ saw[k][i] \in Configs \cup {Absent}
  BY TypeFacts DEF Rows
<1> QED
  BY <1>1 DEF ApplyRegistration, Rows

(* One task of a refresh, as it goes.                                       *)
LEMMA TaskSteps ==
  ASSUME IdpInv, NEW k \in Refreshes, NEW i \in Idps, TaskStep(k, i)
  PROVE  /\ UNCHANGED <<config, changes, listening, notes, unheard, current, pc, saw>>
         /\ task' \in [Refreshes -> [Idps -> Tasks]]
         /\ tries' \in [Refreshes -> [Idps -> 0..MaxRetries]]
         /\ failures' \in 0..MaxFailures
         /\ \A m \in Refreshes : m # k => task'[m] = task[m]
         /\ \A j \in Idps : j # i => task'[k][j] = task[k][j]
         /\ task[k][i] \in {"first", "retrying"}
         /\ \/ task'[k][i] = "void" /\ registered' = registered
               /\ (task[k][i] = "first" => k # current)
            \/ task'[k][i] = "retrying" /\ registered' = registered /\ k = current
            \/ k = current /\ ApplyRegistration(k, i)
               /\ \/ task'[k][i] = "valid"
                  \/ task'[k][i] = "late" /\ pc[k] = "over"
                  \/ task'[k][i] = "early" /\ pc[k] # "over"
<1>0. TypeOK /\ failures \in 0..MaxFailures /\ tries \in [Refreshes -> [Idps -> 0..MaxRetries]]
  BY DEF IdpInv, RegistrationsAreSound, TypeOK
<1> USE DEF rowVars, listenVars, Aborted
<1>1. CASE RegisterOidcIdp(k, i)
  <2>1. CASE Aborted(k) /\ TaskGoes(k, i, "first", "void") /\ UNCHANGED <<registered, failures>>
    BY <1>0, <1>1, <2>1, TaskGoing DEF RegisterOidcIdp, Tasks
  <2>2. CASE ~Aborted(k) /\ TaskGoes(k, i, "first", "valid") /\ ApplyRegistration(k, i) /\ UNCHANGED failures
    BY <1>0, <1>1, <2>2, TaskGoing DEF RegisterOidcIdp, Tasks
  <2>3. CASE ~Aborted(k) /\ TaskGoes(k, i, "first", "retrying") /\ Failure /\ UNCHANGED registered
    BY <1>0, <1>1, <2>3, TaskGoing, FailureCounts DEF RegisterOidcIdp, Tasks
  <2> QED
    BY <1>1, <2>1, <2>2, <2>3 DEF RegisterOidcIdp
<1>2. CASE RetryRegistration(k, i)
  <2>1. CASE Aborted(k) /\ TaskGoes(k, i, "retrying", "void") /\ UNCHANGED <<tries, registered, failures>>
    BY <1>0, <1>2, <2>1, TaskGoing DEF RetryRegistration, Tasks
  <2>2. CASE /\ ~Aborted(k) /\ TaskGoes(k, i, "retrying", IF pc[k] = "over" THEN "late" ELSE "early")
             /\ ApplyRegistration(k, i) /\ UNCHANGED <<tries, failures>>
    <3>1. PICK to \in {"late", "early"} : to = IF pc[k] = "over" THEN "late" ELSE "early"
      OBVIOUS
    <3>2. TaskGoes(k, i, "retrying", to) /\ to \in Tasks
      BY <2>2, <3>1 DEF Tasks
    <3> QED
      BY <1>0, <1>2, <2>2, <3>1, <3>2, TaskGoing DEF RetryRegistration
  <2>3. CASE /\ ~Aborted(k) /\ TaskGoes(k, i, "retrying", "retrying")
             /\ tries' = [tries EXCEPT ![k][i] = @ + 1] /\ Failure /\ UNCHANGED registered
    <3>1. tries' \in [Refreshes -> [Idps -> 0..MaxRetries]]
      <4>1. tries[k][i] \in 0..MaxRetries /\ tries[k][i] < MaxRetries
        BY <1>0, <1>2 DEF RetryRegistration, MayRetry
      <4>2. tries[k][i] + 1 \in 0..MaxRetries
        BY <4>1, ConstantsOK
      <4>3. [tries[k] EXCEPT ![i] = tries[k][i] + 1] \in [Idps -> 0..MaxRetries]
        BY <1>0, <4>2
      <4> QED
        BY <1>0, <2>3, <4>3
    <3> QED
      BY <1>0, <1>2, <2>3, <3>1, TaskGoing, FailureCounts DEF RetryRegistration, Tasks
  <2> QED
    BY <1>2, <2>1, <2>2, <2>3 DEF RetryRegistration
<1>3. CASE RetriesExhausted(k, i)
  BY <1>0, <1>3, TaskGoing DEF RetriesExhausted, Tasks
<1> QED
  BY <1>1, <1>2, <1>3 DEF TaskStep

-----------------------------------------------------------------------------
(* The invariant is kept.                                                   *)

LEMMA TasksKeep ==
  ASSUME IdpInv, NEW k \in Refreshes, NEW i \in Idps, TaskStep(k, i)
  PROVE  IdpInv'
<1>0. TypeOK /\ LatestRefreshWins /\ FailsClosed /\ RefreshesFollow /\ NotesAreOfChanges
  BY DEF IdpInv, RegistrationsAreSound
<1>1. /\ UNCHANGED <<config, changes, listening, notes, unheard, current, pc, saw>>
      /\ task' \in [Refreshes -> [Idps -> Tasks]] /\ tries' \in [Refreshes -> [Idps -> 0..MaxRetries]]
      /\ failures' \in 0..MaxFailures
      /\ \A m \in Refreshes : m # k => task'[m] = task[m]
      /\ \A j \in Idps : j # i => task'[k][j] = task[k][j]
      /\ task[k][i] \in {"first", "retrying"} /\ current \in Refreshes
  BY <1>0, TaskSteps, TypeFacts
<1>2. \/ task'[k][i] = "void" /\ registered' = registered /\ (task[k][i] = "first" => k # current)
      \/ task'[k][i] = "retrying" /\ registered' = registered /\ k = current
      \/ k = current /\ ApplyRegistration(k, i)
         /\ \/ task'[k][i] = "valid"
            \/ task'[k][i] = "late" /\ pc[k] = "over"
            \/ task'[k][i] = "early" /\ pc[k] # "over"
  BY TaskSteps
<1>3. task'[k][i] \in {"void", "retrying", "valid", "late", "early"} /\ pc[k] \notin {"ahead", "read", "failed"}
      /\ (task'[k][i] = "late" => pc[k] = "over")
  BY <1>0, <1>1, <1>2 DEF RefreshesFollow, TasksFollow
<1>4. registered' \in Rows /\ \A j \in Idps : j # i => registered'[j] = registered[j]
  BY <1>0, <1>2, Registering, TypeFacts
<1>5. TypeOK'
  BY <1>0, <1>1, <1>4 DEF TypeOK
<1>6. RefreshesFollow'
  <2> SUFFICES ASSUME NEW m \in Refreshes PROVE TasksFollow(m)'
    BY DEF RefreshesFollow
  <2>1. TasksFollow(m)
    BY <1>0 DEF RefreshesFollow
  <2>2. CASE m # k
    BY <1>1, <2>1, <2>2 DEF TasksFollow
  <2>3. CASE m = k
    <3>1. pc[k] = "ahead" \/ ~(k > current)
      BY <2>1, <2>3 DEF TasksFollow
    <3> QED
      BY <1>1, <1>3, <2>1, <2>3, <3>1 DEF TasksFollow
  <2> QED
    BY <2>2, <2>3
<1>7. LatestRefreshWins'
  <2> SUFFICES ASSUME NEW j \in Idps
               PROVE  \/ registered'[j] = saw[current][j]
                      \/ registered'[j] = Absent /\ task'[current][j] # "valid"
                      \/ /\ pc[current] \in {"read", "discover", "failed"}
                         /\ task'[current][j] \notin {"valid", "late", "early"}
    BY <1>1 DEF LatestRefreshWins
  <2>1. CASE k = current /\ j = i
    <3>1. CASE ApplyRegistration(k, i)
      BY <1>0, <2>1, <3>1, Registering
    <3>2. CASE registered' = registered /\ task'[k][i] \in {"void", "retrying"}
      BY <1>0, <2>1, <3>2 DEF LatestRefreshWins
    <3> QED
      BY <1>2, <3>1, <3>2
  <2>2. CASE ~(k = current /\ j = i)
    <3>1. task'[current][j] = task[current][j] /\ registered'[j] = registered[j]
      BY <1>1, <1>2, <1>4, <2>2
    <3> QED
      BY <1>0, <3>1 DEF LatestRefreshWins
  <2> QED
    BY <2>1, <2>2
<1>8. FailsClosed'
  <2> SUFFICES ASSUME pc[current] = "over", NEW j \in Idps, registered'[j] # Absent
               PROVE  task'[current][j] \in {"valid", "late"}
    BY <1>1 DEF FailsClosed
  <2>1. CASE k = current /\ j = i
    <3>1. task[k][i] = "retrying"
      BY <1>0, <1>1, <2>1 DEF RefreshesFollow, TasksFollow
    <3>2. registered[i] = Absent
      BY <1>0, <2>1, <3>1 DEF FailsClosed
    <3> QED
      BY <1>2, <2>1, <3>2
  <2>2. CASE ~(k = current /\ j = i)
    <3>1. task'[current][j] = task[current][j] /\ registered'[j] = registered[j]
      BY <1>1, <1>2, <1>4, <2>2
    <3> QED
      BY <1>0, <3>1 DEF FailsClosed
  <2> QED
    BY <2>1, <2>2
<1>9. NotesAreOfChanges'
  BY <1>0, <1>1 DEF NotesAreOfChanges
<1> QED
  BY <1>5, <1>6, <1>7, <1>8, <1>9 DEF IdpInv, RegistrationsAreSound

LEMMA ReadKeeps ==
  ASSUME IdpInv, NEW k \in Refreshes, ReadIdps(k)
  PROVE  IdpInv'
<1>0. TypeOK /\ LatestRefreshWins /\ FailsClosed /\ RefreshesFollow /\ NotesAreOfChanges
  BY DEF IdpInv, RegistrationsAreSound
<1>1. /\ UNCHANGED <<config, changes, listening, notes, current, tries, registered, failures>>
      /\ unheard' = FALSE
  BY DEF ReadIdps, rowVars
<1>2. /\ pc[k] = "read" /\ pc'[k] = "discover" /\ pc' \in [Refreshes -> Pcs]
      /\ \A m \in Refreshes : m # k => pc'[m] = pc[m]
  BY <1>0, Going DEF ReadIdps, Pcs
<1>3. /\ saw' \in [Refreshes -> Rows] /\ saw'[k] = config /\ current \in Refreshes
      /\ \A m \in Refreshes : m # k => saw'[m] = saw[m]
  BY <1>0, TypeFacts DEF ReadIdps
<1>4. /\ task' \in [Refreshes -> [Idps -> Tasks]]
      /\ \A i \in Idps : task'[k][i] = IF config[i] = Absent THEN "none" ELSE "first"
      /\ \A m \in Refreshes : m # k => task'[m] = task[m]
  <2>1. task \in [Refreshes -> [Idps -> Tasks]]
    BY <1>0, TypeFacts
  <2>2. [i \in Idps |-> IF config[i] = Absent THEN "none" ELSE "first"] \in [Idps -> Tasks]
    BY DEF Tasks
  <2> QED
    BY <2>1, <2>2 DEF ReadIdps
<1>5. TypeOK'
  BY <1>0, <1>1, <1>2, <1>3, <1>4 DEF TypeOK, Pcs
<1>6. RefreshesFollow'
  <2> SUFFICES ASSUME NEW m \in Refreshes PROVE TasksFollow(m)'
    BY DEF RefreshesFollow
  <2>1. TasksFollow(m)
    BY <1>0 DEF RefreshesFollow
  <2>2. CASE m # k
    BY <1>1, <1>2, <1>3, <1>4, <2>1, <2>2 DEF TasksFollow
  <2>3. CASE m = k
    BY <1>1, <1>2, <1>3, <1>4, <2>1, <2>3 DEF TasksFollow
  <2> QED
    BY <2>2, <2>3
<1>7. LatestRefreshWins' /\ FailsClosed'
  <2>1. CASE k = current
    BY <1>1, <1>2, <1>4, <2>1 DEF LatestRefreshWins, FailsClosed
  <2>2. CASE k # current
    BY <1>0, <1>1, <1>2, <1>3, <1>4, <2>2 DEF LatestRefreshWins, FailsClosed
  <2> QED
    BY <2>1, <2>2
<1>8. NotesAreOfChanges'
  BY <1>0, <1>1 DEF NotesAreOfChanges
<1> QED
  BY <1>5, <1>6, <1>7, <1>8 DEF IdpInv, RegistrationsAreSound

(* What prune leaves of the registrations, and what of it is confirmed.    *)
LEMMA Pruning ==
  ASSUME IdpInv, NEW k \in Refreshes, Prune(k)
  PROVE  /\ pc[k] = "discover" /\ pc'[k] = "over" /\ pc' \in [Refreshes -> Pcs] /\ registered' \in Rows
         /\ \A m \in Refreshes : m # k => pc'[m] = pc[m]
         /\ \A i \in Idps : task[k][i] # "first"
         /\ k # current => registered' = registered
         /\ k = current => \A i \in Idps :
              IF task[k][i] = "valid" THEN registered'[i] = registered[i] /\ registered[i] = saw[k][i]
                                      ELSE registered'[i] = Absent
<1>0. TypeOK /\ LatestRefreshWins /\ registered \in Rows
  BY TypeFacts DEF IdpInv, RegistrationsAreSound
<1>1. /\ pc[k] = "discover" /\ pc'[k] = "over" /\ pc' \in [Refreshes -> Pcs]
      /\ \A m \in Refreshes : m # k => pc'[m] = pc[m]
  BY <1>0, Going DEF Prune, Pcs
<1>2. \A i \in Idps : registered'[i] = IF i \in Kept(k) THEN registered[i] ELSE Absent
  BY DEF Prune
<1>3. registered' \in Rows
  BY <1>0 DEF Prune, Rows
<1>4. k # current => registered' = registered
  <2> SUFFICES ASSUME k # current PROVE registered' = registered
    OBVIOUS
  <2>1. Kept(k) = Idps
    BY DEF Kept, Aborted
  <2> QED
    BY <1>0, <1>2, <1>3, <2>1 DEF Rows
<1>5. ASSUME k = current, NEW i \in Idps
      PROVE  IF task[k][i] = "valid" THEN registered'[i] = registered[i] /\ registered[i] = saw[k][i]
                                     ELSE registered'[i] = Absent
  <2>1. i \in Kept(k) <=> task[k][i] = "valid"
    BY <1>5 DEF Kept, Aborted
  <2> QED
    BY <1>0, <1>2, <1>5, <2>1 DEF LatestRefreshWins
<1>6. \A i \in Idps : task[k][i] # "first"
  BY DEF Prune, PruneIsDue
<1> QED
  BY <1>1, <1>3, <1>4, <1>5, <1>6

LEMMA PruneKeeps ==
  ASSUME IdpInv, NEW k \in Refreshes, Prune(k)
  PROVE  IdpInv'
<1>0. TypeOK /\ LatestRefreshWins /\ FailsClosed /\ RefreshesFollow /\ NotesAreOfChanges
  BY DEF IdpInv, RegistrationsAreSound
<1>1. /\ UNCHANGED <<config, changes, listening, notes, unheard, current, saw, task, tries, failures>>
      /\ current \in Refreshes
  BY <1>0, TypeFacts DEF Prune, rowVars, listenVars
<1>2. /\ pc[k] = "discover" /\ pc'[k] = "over" /\ pc' \in [Refreshes -> Pcs] /\ registered' \in Rows
      /\ \A m \in Refreshes : m # k => pc'[m] = pc[m]
      /\ \A i \in Idps : task[k][i] # "first"
  BY Pruning
<1>3. TypeOK'
  BY <1>0, <1>1, <1>2 DEF TypeOK, Pcs
<1>4. RefreshesFollow'
  <2> SUFFICES ASSUME NEW m \in Refreshes PROVE TasksFollow(m)'
    BY DEF RefreshesFollow
  <2>1. TasksFollow(m)
    BY <1>0 DEF RefreshesFollow
  <2>2. CASE m # k
    BY <1>1, <1>2, <2>1, <2>2 DEF TasksFollow
  <2>3. CASE m = k
    BY <1>1, <1>2, <2>1, <2>3 DEF TasksFollow
  <2> QED
    BY <2>2, <2>3
<1>5. LatestRefreshWins' /\ FailsClosed'
  <2>1. CASE k = current
    <3>1. \A i \in Idps : \/ task[k][i] = "valid" /\ registered'[i] = saw[k][i]
                          \/ task[k][i] # "valid" /\ registered'[i] = Absent
      BY <2>1, Pruning
    <3> QED
      BY <1>1, <1>2, <2>1, <3>1 DEF LatestRefreshWins, FailsClosed
  <2>2. CASE k # current
    <3>1. registered' = registered
      BY <2>2, Pruning
    <3> QED
      BY <1>0, <1>1, <1>2, <2>2, <3>1 DEF LatestRefreshWins, FailsClosed
  <2> QED
    BY <2>1, <2>2
<1>6. NotesAreOfChanges'
  BY <1>0, <1>1 DEF NotesAreOfChanges
<1> QED
  BY <1>3, <1>4, <1>5, <1>6 DEF IdpInv, RegistrationsAreSound

LEMMA ReadFailsKeeps ==
  ASSUME IdpInv, NEW k \in Refreshes, ReadFails(k)
  PROVE  IdpInv'
<1>0. TypeOK /\ LatestRefreshWins /\ FailsClosed /\ RefreshesFollow /\ NotesAreOfChanges
  BY DEF IdpInv, RegistrationsAreSound
<1>1. /\ UNCHANGED <<config, changes, listening, notes, unheard, current, saw, task, tries, registered>>
      /\ failures' \in 0..MaxFailures /\ current \in Refreshes
  BY <1>0, FailureCounts, TypeFacts DEF ReadFails, rowVars, listenVars
<1>2. /\ pc[k] = "read" /\ pc'[k] = "failed" /\ pc' \in [Refreshes -> Pcs]
      /\ \A m \in Refreshes : m # k => pc'[m] = pc[m]
  BY <1>0, Going DEF ReadFails, Pcs
<1>3. TypeOK'
  BY <1>0, <1>1, <1>2 DEF TypeOK, Pcs
<1>4. RefreshesFollow'
  <2> SUFFICES ASSUME NEW m \in Refreshes PROVE TasksFollow(m)'
    BY DEF RefreshesFollow
  <2>1. TasksFollow(m)
    BY <1>0 DEF RefreshesFollow
  <2>2. CASE m # k
    BY <1>1, <1>2, <2>1, <2>2 DEF TasksFollow
  <2>3. CASE m = k
    BY <1>1, <1>2, <2>1, <2>3 DEF TasksFollow
  <2> QED
    BY <2>2, <2>3
<1>5. LatestRefreshWins' /\ FailsClosed'
  BY <1>0, <1>1, <1>2 DEF LatestRefreshWins, FailsClosed
<1>6. NotesAreOfChanges'
  BY <1>0, <1>1 DEF NotesAreOfChanges
<1> QED
  BY <1>3, <1>4, <1>5, <1>6 DEF IdpInv, RegistrationsAreSound

(* A notification owes to a change, so there is a refresh left for it.     *)
LEMMA NotificationKeeps ==
  ASSUME IdpInv, OnNotification
  PROVE  IdpInv'
<1>0. TypeOK /\ LatestRefreshWins /\ FailsClosed /\ RefreshesFollow /\ NotesAreOfChanges
  BY DEF IdpInv, RegistrationsAreSound
<1>1. /\ UNCHANGED <<config, changes, listening, unheard, saw, task, tries, registered, failures>>
      /\ notes > 0 /\ notes' = notes - 1 /\ current' = current + 1
      /\ pc' = [pc EXCEPT ![current + 1] = "read"]
  BY DEF OnNotification, StartsRefresh, rowVars
<1>2. current \in Refreshes /\ current \in Nat /\ notes \in Nat /\ changes \in Nat /\ MaxChanges \in Nat
      /\ changes <= MaxChanges /\ Refreshes \subseteq Nat /\ notes \in 0..MaxChanges
  BY <1>0, TypeFacts DEF TypeOK
<1>3. current' \in Nat /\ current' <= MaxChanges + 1 /\ 1 <= current'
  BY <1>0, <1>1, <1>2 DEF NotesAreOfChanges
<1>4. current' \in Refreshes
  BY <1>3 DEF Refreshes
<1>5. /\ pc' \in [Refreshes -> Pcs] /\ pc'[current'] = "read"
      /\ \A m \in Refreshes : m # current' => pc'[m] = pc[m]
  BY <1>0, <1>1, <1>4, TypeFacts DEF Pcs
<1>6. TypeOK'
  <2>1. notes' \in 0..MaxChanges
    BY <1>1, <1>2
  <2> QED
    BY <1>0, <1>1, <1>4, <1>5, <2>1 DEF TypeOK, Pcs
<1>7. pc[current'] = "ahead"
  BY <1>0, <1>1, <1>2, <1>4 DEF RefreshesFollow, TasksFollow
<1>8. \A i \in Idps : task'[current'][i] = "none"
  BY <1>0, <1>1, <1>4, <1>7 DEF RefreshesFollow, TasksFollow
<1>9. RefreshesFollow'
  <2> SUFFICES ASSUME NEW m \in Refreshes PROVE TasksFollow(m)'
    BY DEF RefreshesFollow
  <2>0. m \in Nat
    BY <1>2
  <2>1. TasksFollow(m)
    BY <1>0 DEF RefreshesFollow
  <2>2. CASE m # current'
    <3>1. m > current' => m > current
      BY <1>1, <1>2, <2>0
    <3> QED
      BY <1>1, <1>5, <2>1, <2>2, <3>1 DEF TasksFollow
  <2>3. CASE m = current'
    <3>1. ~(m > current')
      BY <1>3, <2>3
    <3> QED
      BY <1>5, <1>8, <2>3, <3>1 DEF TasksFollow
  <2> QED
    BY <2>2, <2>3
<1>10. LatestRefreshWins' /\ FailsClosed'
  BY <1>5, <1>8 DEF LatestRefreshWins, FailsClosed
<1>11. NotesAreOfChanges'
  BY <1>0, <1>1, <1>2 DEF NotesAreOfChanges
<1> QED
  BY <1>6, <1>9, <1>10, <1>11 DEF IdpInv, RegistrationsAreSound

(* The connection, the rows, or nothing.                                    *)
LEMMA SurroundingsKeep ==
  ASSUME IdpInv,
         \/ Connect \/ LoseConnection \/ UNCHANGED vars
         \/ \E i \in Idps, c \in Configs \cup {Absent} : ChangeConfig(i, c)
  PROVE  IdpInv'
<1>0. /\ TypeOK /\ LatestRefreshWins /\ FailsClosed /\ RefreshesFollow /\ NotesAreOfChanges
      /\ notes \in Nat /\ changes \in Nat /\ current \in Nat /\ MaxChanges \in Nat /\ changes <= MaxChanges
      /\ notes \in 0..MaxChanges /\ 1 <= current
  BY TypeFacts DEF IdpInv, RegistrationsAreSound, TypeOK, Refreshes
<1>1. UNCHANGED <<current, pc, saw, task, tries, registered>>
  BY DEF Connect, LoseConnection, ChangeConfig, vars, refreshVars
<1>2. /\ changes' \in Nat /\ changes' <= MaxChanges /\ notes' \in Nat
      /\ notes' = 0 \/ notes' = notes
         \/ (notes' = notes + 1 /\ changes' = changes + 1)
      /\ changes <= changes'
  BY <1>0 DEF Connect, LoseConnection, ChangeConfig, vars, rowVars, listenVars
<1>3. NotesAreOfChanges'
  <2>1. current + notes <= changes + 1 /\ notes \in Nat /\ changes \in Nat /\ current \in Nat
    BY <1>0 DEF NotesAreOfChanges
  <2>2. changes' \in Nat /\ changes <= changes' /\ notes' \in Nat
        /\ (notes' = 0 \/ notes' = notes \/ (notes' = notes + 1 /\ changes' = changes + 1))
    BY <1>2
  <2>3. \A a, n, c, m, d \in Nat :
          a + n <= c + 1 /\ c <= d /\ (m = 0 \/ m = n \/ (m = n + 1 /\ d = c + 1)) => a + m <= d + 1
    OBVIOUS
  <2>4. current + notes' <= changes' + 1
    BY <2>1, <2>2, <2>3
  <2> QED
    BY <1>1, <2>4 DEF NotesAreOfChanges
<1>4. changes' \in 0..MaxChanges /\ notes' \in 0..MaxChanges
  BY <1>0, <1>1, <1>2, <1>3 DEF NotesAreOfChanges
<1>5. config' \in Rows /\ failures' \in 0..MaxFailures
  <2>1. CASE Connect \/ LoseConnection \/ UNCHANGED vars
    BY <1>0, <2>1, FailureCounts DEF Connect, LoseConnection, vars, rowVars, TypeOK
  <2>2. ASSUME NEW i \in Idps, NEW c \in Configs \cup {Absent}, ChangeConfig(i, c)
        PROVE  config' \in Rows /\ failures' \in 0..MaxFailures
    BY <1>0, <2>2 DEF ChangeConfig, TypeOK, Rows
  <2> QED
    BY <2>1, <2>2
<1>6. listening' \in BOOLEAN /\ unheard' \in BOOLEAN
  BY <1>0 DEF Connect, LoseConnection, ChangeConfig, vars, listenVars, TypeOK
<1>7. TypeOK'
  BY <1>0, <1>1, <1>4, <1>5, <1>6 DEF TypeOK
<1>8. RefreshesFollow' /\ LatestRefreshWins' /\ FailsClosed'
  BY <1>0, <1>1 DEF RefreshesFollow, TasksFollow, LatestRefreshWins, FailsClosed
<1> QED
  BY <1>3, <1>7, <1>8 DEF IdpInv, RegistrationsAreSound

LEMMA IdpInvAtFirst == Init => IdpInv
<1> SUFFICES ASSUME Init PROVE IdpInv
  OBVIOUS
<1>1. 1 \in Refreshes /\ Refreshes \subseteq Nat
  BY ConstantsOK DEF Refreshes
<1>2. NoRows \in Rows
  BY DEF NoRows, Rows
<1>3. notes \in 0..MaxChanges /\ changes \in 0..MaxChanges /\ failures \in 0..MaxFailures
  BY ConstantsOK DEF Init
<1>4. tries \in [Refreshes -> [Idps -> 0..MaxRetries]]
  BY ConstantsOK DEF Init
<1>5. TypeOK
  BY <1>1, <1>2, <1>3, <1>4 DEF Init, TypeOK, Tasks
<1>6. RefreshesFollow
  <2>1. \A k \in Refreshes : k > 1 => k # 1
    BY <1>1
  <2> QED
    BY <2>1 DEF Init, RefreshesFollow, TasksFollow
<1>7. LatestRefreshWins /\ FailsClosed
  BY <1>1 DEF Init, LatestRefreshWins, FailsClosed
<1>8. NotesAreOfChanges
  BY DEF Init, NotesAreOfChanges
<1> QED
  BY <1>5, <1>6, <1>7, <1>8 DEF IdpInv, RegistrationsAreSound

LEMMA IdpInvKept == IdpInv /\ [Next]_vars => IdpInv'
BY TasksKeep, ReadKeeps, PruneKeeps, ReadFailsKeeps, NotificationKeeps, SurroundingsKeep DEF Next, RefreshStep

-----------------------------------------------------------------------------
(* Theorems.                                                                *)

THEOREM IdpInvariant == Spec => []IdpInv
BY IdpInvAtFirst, IdpInvKept, PTL DEF Spec

(* What is registered is typed, is what the latest refresh confirmed or    *)
(* what it has yet to get to, and after it has pruned is of an issuer that *)
(* answered it (identity-provider.service.ts).                             *)
THEOREM RegistrationsAreSoundAlways == Spec => []RegistrationsAreSound
<1>1. IdpInv => RegistrationsAreSound
  BY DEF IdpInv
<1> QED
  BY <1>1, IdpInvariant, PTL

(* A registration goes only for a reason the current refresh has.          *)
LEMMA OutageHasReason ==
  ASSUME IdpInv, [Next]_vars, NEW i \in Idps, registered[i] # Absent, registered'[i] = Absent
  PROVE  saw[current][i] = Absent \/ task[current][i] \in {"retrying", "void", "early"}
<1>0. TypeOK /\ RefreshesFollow /\ current \in Refreshes /\ task \in [Refreshes -> [Idps -> Tasks]]
  BY TypeFacts DEF IdpInv, RegistrationsAreSound
<1>1. ASSUME NEW k \in Refreshes, NEW j \in Idps, TaskStep(k, j)
      PROVE  saw[current][i] = Absent
  <2>1. k = current /\ ApplyRegistration(k, j)
    BY <1>1, TaskSteps
  <2> QED
    BY <1>0, <2>1, Registering
<1>2. ASSUME NEW k \in Refreshes, Prune(k)
      PROVE  saw[current][i] = Absent \/ task[current][i] \in {"retrying", "void", "early"}
  <2>1. k = current /\ task[k][i] \notin {"valid", "first"} /\ pc[k] = "discover"
    BY <1>2, Pruning
  <2>2. task[k][i] \in Tasks /\ task[k][i] # "late"
    BY <1>0, <2>1 DEF RefreshesFollow, TasksFollow
  <2>3. task[k][i] = "none" => saw[k][i] = Absent
    BY <1>0, <2>1 DEF RefreshesFollow, TasksFollow
  <2> QED
    BY <2>1, <2>2, <2>3 DEF Tasks
<1>3. CASE registered' = registered
  BY <1>3
<1> QED
  BY <1>1, <1>2, <1>3 DEF Next, RefreshStep, ReadIdps, ReadFails, Connect, LoseConnection, OnNotification,
                          ChangeConfig, vars

(* No provider is lost because a refresh was cut short.                    *)
THEOREM NoNeedlessOutageEver == Spec => NoNeedlessOutage
<1>1. IdpInv /\ [Next]_vars =>
        \A i \in Idps : registered[i] # Absent /\ registered'[i] = Absent =>
          saw[current][i] = Absent \/ task[current][i] \in {"retrying", "void", "early"}
  BY OutageHasReason
<1> QED
  BY <1>1, IdpInvariant, PTL DEF Spec, NoNeedlessOutage

=============================================================================
