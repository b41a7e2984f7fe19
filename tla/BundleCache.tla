------------------------------ MODULE BundleCache ------------------------------
(***************************************************************************)
(* The registry of bundles and the copy that the app keeps of it.  A       *)
(* request that finds the copy too old fetches the registry first; several *)
(* requests may do so at the same time, and the last answer stays.  A      *)
(* request whose fetch fails is refused, whatever copy there is.  The app  *)
(* lists the templates of jobs from the copy, and checks new jobs against  *)
(* it; the executor fetches the bundle itself.                             *)
(*                                                                         *)
(* Time is in steps of which the copy lives TTL.  A fetch takes less than  *)
(* Patience steps, which bounds the model, not the code: fetch has no      *)
(* timeout there.                                                          *)
(***************************************************************************)
EXTENDS Naturals

CONSTANTS
  Callers,                 \* requests that need a bundle, one at a time each
  TTL, Patience,
  MaxVersion, MaxTime,     \* bounds
  NoFetch

ASSUME BundleConstantsOK ==
  /\ TTL \in Nat /\ Patience \in Nat /\ MaxVersion \in Nat \ {0} /\ MaxTime \in Nat \ {0}

VARIABLES
  now,
  registry, \* the version on the branch
  ended,    \* when a version was replaced; 0: it was not
  bundles,  \* the copy: its version and when it came (bundlesLastUpdated)
  fetch,    \* fetches under way: since when, and what they have read
  served    \* what a caller got last, and when

bundleVars == <<now, registry, ended, bundles, fetch, served>>

Times == 0..MaxTime
BundleVersions == 1..MaxVersion
Fetch == [since : Times, version : BundleVersions \cup {0}]

BundleTypeOK ==
  /\ now \in Times /\ registry \in BundleVersions
  /\ ended \in [BundleVersions -> Times]
  /\ bundles \in [version : BundleVersions, updated : Times]
  /\ fetch \in [Callers -> Fetch \cup {NoFetch}]
  /\ served \in [Callers -> [version : BundleVersions, at : Times]]

(* onModuleInit has fetched the bundles; without them the app does not     *)
(* start.                                                                  *)
BundleInit ==
  /\ now = 1 /\ registry = 1
  /\ ended = [v \in BundleVersions |-> 0]
  /\ bundles = [version |-> 1, updated |-> 1]
  /\ fetch = [c \in Callers |-> NoFetch]
  /\ served = [c \in Callers |-> [version |-> 1, at |-> 1]]

Tick ==
  /\ now < MaxTime
  /\ \A c \in Callers : fetch[c] # NoFetch => now < fetch[c].since + Patience
  /\ now' = now + 1
  /\ UNCHANGED <<registry, ended, bundles, fetch, served>>

Publish ==
  /\ registry < MaxVersion
  /\ registry' = registry + 1 /\ ended' = [ended EXCEPT ![registry] = now]
  /\ UNCHANGED <<now, bundles, fetch, served>>

\* Faulty variant: the time of the last request counts, not of the last fetch.
BundleCacheExpired_Unused == \A c \in Callers : now - served[c].at > TTL

BundleCacheExpired == now - bundles.updated > TTL

GetBundles(c) ==
  /\ fetch[c] = NoFetch
  /\ IF BundleCacheExpired
     THEN fetch' = [fetch EXCEPT ![c] = [since |-> now, version |-> 0]] /\ UNCHANGED served
     ELSE served' = [served EXCEPT ![c] = [version |-> bundles.version, at |-> now]] /\ UNCHANGED fetch
  /\ UNCHANGED <<now, registry, ended, bundles>>

RegistryAnswers(c) ==
  /\ fetch[c] # NoFetch /\ fetch[c].version = 0
  /\ fetch' = [fetch EXCEPT ![c].version = registry]
  /\ UNCHANGED <<now, registry, ended, bundles, served>>

FetchBundles(c) ==
  /\ fetch[c] # NoFetch /\ fetch[c].version # 0
  /\ bundles' = [version |-> fetch[c].version, updated |-> now]
  /\ served' = [served EXCEPT ![c] = [version |-> fetch[c].version, at |-> now]]
  /\ fetch' = [fetch EXCEPT ![c] = NoFetch]
  /\ UNCHANGED <<now, registry, ended>>

AfterFailedFetch == bundles

FetchFails(c) ==
  /\ fetch[c] # NoFetch
  /\ bundles' = AfterFailedFetch
  /\ fetch' = [fetch EXCEPT ![c] = NoFetch]
  /\ UNCHANGED <<now, registry, ended, served>>

BundlesNext ==
  \/ Tick \/ Publish
  \/ \E c \in Callers : GetBundles(c) \/ RegistryAnswers(c) \/ FetchBundles(c) \/ FetchFails(c)

-----------------------------------------------------------------------------
(* However fetches overlap, a job is checked against a bundle that was     *)
(* current when the last fetch began: no longer ago than the copy lives    *)
(* and a fetch takes.                                                      *)
BundlesAreRecent ==
  \A c \in Callers : LET v == served[c].version IN
    ended[v] # 0 => served[c].at <= ended[v] + TTL + Patience

=============================================================================
