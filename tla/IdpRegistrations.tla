--------------------------- MODULE IdpRegistrations ---------------------------
(***************************************************************************)
(* IdentityProviderService: which identity providers users can log in by.  *)
(*                                                                         *)
(* A refresh reads all providers, tries each one's issuer at the same      *)
(* time, registers those that answer, and once every first attempt has     *)
(* settled removes the registrations it did not confirm.  Issuers that did *)
(* not answer are retried in the background.  The database notifies of     *)
(* every change; a notification aborts the refresh under way, with its     *)
(* retries, and starts another.                                            *)
(*                                                                         *)
(* A provider without OIDC config, without partners, or with several       *)
(* partners and no partner claim is Absent: nobody can log in by it.       *)
(***************************************************************************)
EXTENDS Naturals

CONSTANTS
  Idps,
  Configs,       \* what a provider's rows may say
  Absent,        \* nothing that can be registered
  MaxRetries,    \* MAX_RETRIES, 10 in the code
  MaxChanges,    \* bound on the changes of the configuration
  MaxFailures    \* bound on failed discoveries and reads, and lost connections

ASSUME ConstantsOK ==
  /\ Absent \notin Configs
  /\ MaxRetries \in Nat /\ MaxChanges \in Nat /\ MaxFailures \in Nat

VARIABLES
  config,      \* the rows
  listening,   \* the LISTEN connection is up
  notes,       \* notifications it has not delivered
  unheard,     \* (for the properties) no refresh has read a change that was
               \* made while the listener was not connected
  current,     \* the refresh that refreshAbortController belongs to
  pc,          \* where each refresh is
  saw,         \* the rows it read
  task,        \* its registration of each provider
  tries,       \* the retries made for it
  registered,  \* idpRegistrations, and the passport strategies
  changes, failures

rowVars     == <<config, changes>>
listenVars  == <<listening, notes, unheard>>
refreshVars == <<current, pc, saw, task, tries>>
vars == <<rowVars, listenVars, refreshVars, registered, failures>>

Refreshes == 1..(MaxChanges + 1)
Rows == [Idps -> Configs \cup {Absent}]
NoRows == [i \in Idps |-> Absent]

(* A registration is "first" during the first attempt, which makes it      *)
(* "valid" (it is in validIdpIds) or "retrying"; a retry that succeeds     *)
(* makes it "late", or "early" if other first attempts still run.  One     *)
(* that is aborted or has run out of retries is "void".                    *)
Tasks == {"none", "first", "valid", "retrying", "late", "early", "void"}

TypeOK ==
  /\ config \in Rows
  /\ listening \in BOOLEAN
  /\ notes \in 0..MaxChanges
  /\ unheard \in BOOLEAN
  /\ current \in Refreshes
  /\ pc \in [Refreshes -> {"ahead", "read", "discover", "over", "failed"}]
  /\ saw \in [Refreshes -> Rows]
  /\ task \in [Refreshes -> [Idps -> Tasks]]
  /\ tries \in [Refreshes -> [Idps -> 0..MaxRetries]]
  /\ registered \in Rows
  /\ changes \in 0..MaxChanges
  /\ failures \in 0..MaxFailures

(* onApplicationBootstrap has started the first refresh.                   *)
Init ==
  /\ config \in Rows
  /\ listening = FALSE
  /\ notes = 0
  /\ unheard = FALSE
  /\ current = 1
  /\ pc = [k \in Refreshes |-> IF k = 1 THEN "read" ELSE "ahead"]
  /\ saw = [k \in Refreshes |-> NoRows]
  /\ task = [k \in Refreshes |-> [i \in Idps |-> "none"]]
  /\ tries = [k \in Refreshes |-> [i \in Idps |-> 0]]
  /\ registered = NoRows
  /\ changes = 0
  /\ failures = 0

-----------------------------------------------------------------------------
(* A refresh.                                                               *)

RefreshGoes(k, from, to) == pc[k] = from /\ pc' = [pc EXCEPT ![k] = to]

TaskGoes(k, i, from, to) == task[k][i] = from /\ task' = [task EXCEPT ![k][i] = to]

Failure == failures < MaxFailures /\ failures' = failures + 1

\* Faulty variant: nothing is ever aborted.
Aborted_Never(k) == FALSE

Aborted(k) == k # current

ReadIdps(k) ==
  /\ RefreshGoes(k, "read", "discover")
  /\ saw' = [saw EXCEPT ![k] = config]
  /\ unheard' = FALSE
  /\ task' = [task EXCEPT ![k] =
       [i \in Idps |-> IF config[i] = Absent THEN "none" ELSE "first"]]
  /\ UNCHANGED <<rowVars, listening, notes, current, tries, registered, failures>>

(* onNotification catches it; at boot the app does not come up.            *)
ReadFails(k) ==
  /\ k > 1
  /\ RefreshGoes(k, "read", "failed")
  /\ Failure
  /\ UNCHANGED <<rowVars, listenVars, current, saw, task, tries, registered>>

(* All first attempts have settled, or there were none: prune follows in   *)
(* microtasks, so before any timer fires or any answer or message arrives. *)
PruneIsDue(k) == pc[k] = "discover" /\ \A i \in Idps : task[k][i] # "first"

ApplyRegistration(k, i) == registered' = [registered EXCEPT ![i] = saw[k][i]]

RegisterOidcIdp(k, i) ==
  /\ \/ Aborted(k) /\ TaskGoes(k, i, "first", "void") /\ UNCHANGED <<registered, failures>>
     \/ /\ ~Aborted(k)
        /\ TaskGoes(k, i, "first", "valid")
        /\ ApplyRegistration(k, i)
        /\ UNCHANGED failures
     \/ /\ ~Aborted(k)
        /\ TaskGoes(k, i, "first", "retrying")
        /\ Failure
        /\ UNCHANGED registered
  /\ UNCHANGED <<rowVars, listenVars, current, pc, saw, tries>>

MayRetry(k, i) == tries[k][i] < MaxRetries

RetryRegistration(k, i) ==
  /\ ~PruneIsDue(k)
  /\ MayRetry(k, i)
  /\ \/ Aborted(k) /\ TaskGoes(k, i, "retrying", "void") /\ UNCHANGED <<tries, registered, failures>>
     \/ /\ ~Aborted(k)
        /\ TaskGoes(k, i, "retrying", IF pc[k] = "over" THEN "late" ELSE "early")
        /\ ApplyRegistration(k, i)
        /\ UNCHANGED <<tries, failures>>
     \/ /\ ~Aborted(k)
        /\ TaskGoes(k, i, "retrying", "retrying")
        /\ tries' = [tries EXCEPT ![k][i] = @ + 1]
        /\ Failure
        /\ UNCHANGED registered
  /\ UNCHANGED <<rowVars, listenVars, current, pc, saw>>

RetriesExhausted(k, i) ==
  /\ ~MayRetry(k, i)
  /\ TaskGoes(k, i, "retrying", "void")
  /\ UNCHANGED <<rowVars, listenVars, current, pc, saw, tries, registered, failures>>

\* Faulty variant: a refresh that was aborted removes registrations, too.
Kept_EvenAborted(k) == {i \in Idps : task[k][i] = "valid"}

\* Faulty variant: every provider that was read is kept.
Kept_Read(k) == {i \in Idps : Aborted(k) \/ saw[k][i] # Absent}

Kept(k) == {i \in Idps : Aborted(k) \/ task[k][i] = "valid"}

Prune(k) ==
  /\ PruneIsDue(k)
  /\ RefreshGoes(k, "discover", "over")
  /\ registered' = [i \in Idps |-> IF i \in Kept(k) THEN registered[i] ELSE Absent]
  /\ UNCHANGED <<rowVars, listenVars, current, saw, task, tries, failures>>

-----------------------------------------------------------------------------
(* The listener.                                                            *)

(* scheduleListener, after boot and 5 s after the connection is lost; an   *)
(* attempt that fails is repeated.                                         *)
Connect ==
  /\ ~listening /\ listening' = TRUE
  /\ pc[1] \in {"over", "failed"}
  /\ UNCHANGED <<rowVars, notes, unheard, refreshVars, registered, failures>>

LoseConnection ==
  /\ listening /\ listening' = FALSE
  /\ Failure
  /\ notes' = 0
  /\ unheard' = (unheard \/ notes > 0)
  /\ UNCHANGED <<rowVars, refreshVars, registered>>

\* Faulty variant: a notification during a refresh is ignored.
StartsRefresh_WhenIdle == pc[current] \in {"over", "failed"}

StartsRefresh == TRUE

OnNotification ==
  /\ listening
  /\ ~PruneIsDue(current)
  /\ notes > 0 /\ notes' = notes - 1
  /\ IF StartsRefresh
     THEN current' = current + 1 /\ pc' = [pc EXCEPT ![current + 1] = "read"]
     ELSE UNCHANGED <<current, pc>>
  /\ UNCHANGED <<rowVars, listening, unheard, saw, task, tries, registered, failures>>

(* Triggers on the tables notify whoever listens at the commit.            *)
ChangeConfig(i, c) ==
  /\ changes < MaxChanges /\ changes' = changes + 1
  /\ config[i] # c /\ config' = [config EXCEPT ![i] = c]
  /\ notes' = IF listening THEN notes + 1 ELSE notes
  /\ unheard' = (unheard \/ ~listening)
  /\ UNCHANGED <<listening, refreshVars, registered, failures>>

RefreshStep(k) ==
  \/ ReadIdps(k)
  \/ ReadFails(k)
  \/ Prune(k)

TaskStep(k, i) ==
  \/ RegisterOidcIdp(k, i)
  \/ RetryRegistration(k, i)
  \/ RetriesExhausted(k, i)

Next ==
  \/ \E k \in Refreshes : RefreshStep(k)
  \/ \E k \in Refreshes, i \in Idps : TaskStep(k, i)
  \/ Connect
  \/ LoseConnection
  \/ OnNotification
  \/ \E i \in Idps, c \in Configs \cup {Absent} : ChangeConfig(i, c)

Spec == Init /\ [][Next]_vars

(* Requests are answered or time out, timers fire, and the database        *)
(* delivers its notifications.                                             *)
Fairness ==
  /\ \A k \in Refreshes : WF_vars(RefreshStep(k))
  /\ \A k \in Refreshes, i \in Idps : WF_vars(TaskStep(k, i))
  /\ WF_vars(Connect)
  /\ WF_vars(OnNotification)

FairSpec == Spec /\ Fairness

-----------------------------------------------------------------------------
(* A refresh that a newer one supersedes never undoes the newer one's      *)
(* work: what the current refresh has confirmed stays as it read it, and   *)
(* after it has pruned nothing older is left, however long the discoveries *)
(* and retries of the aborted ones take (identity-provider.service.ts:40). *)
LatestRefreshWins ==
  \A i \in Idps :
    \/ registered[i] = saw[current][i]
    \/ registered[i] = Absent /\ task[current][i] # "valid"
    \/ pc[current] \in {"read", "discover", "failed"} /\ task[current][i] \notin {"valid", "late", "early"}

(* After a refresh, users log in only by providers whose issuer answered   *)
(* during it: one that fails discovery fails closed.                       *)
FailsClosed ==
  pc[current] = "over" =>
    \A i \in Idps : registered[i] # Absent => task[current][i] \in {"valid", "late"}

(* What is registered: typed, the latest refresh's, with an issuer that answered. *)
RegistrationsAreSound == TypeOK /\ LatestRefreshWins /\ FailsClosed

(* No login outage without a reason: a registration is removed only if the *)
(* current refresh read that the provider is gone or could not reach its   *)
(* issuer, never because a refresh was cut short.                          *)
NoNeedlessOutage ==
  [][\A i \in Idps : registered[i] # Absent /\ registered'[i] = Absent =>
       saw[current][i] = Absent \/ task[current][i] \in {"retrying", "void", "early"}]_vars

(* Once the rows stay as they are, the registrations become what they say, *)
(* through notifications that arrive during a refresh, refreshes that cut  *)
(* each other short, and issuers that come back within the retries.  What  *)
(* can keep a provider from it is a change that was not heard, a refresh   *)
(* that could not read, retries that have run out, and a retry that was    *)
(* early (see the next), nothing else (FairSpec).                          *)
EventuallyRegistered ==
  <>[](\A i \in Idps :
         \/ registered[i] = config[i]
         \/ unheard
         \/ pc[current] = "failed"
         \/ task[current][i] \in {"void", "early"})

(* The claim of identity-provider.service.ts:30, which the code does not   *)
(* keep: issuers that cannot be reached at first "will be registered once  *)
(* the retry succeeds".  An early one is pruned.                           *)
RetryIsKept ==
  [][\A i \in Idps : task[current][i] \in {"late", "early"} /\ current' = current =>
       registered'[i] = registered[i]]_vars

=============================================================================
