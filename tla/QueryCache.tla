------------------------------- MODULE QueryCache -------------------------------
(***************************************************************************)
(* What the pages show after the user's own changes: which entries of the  *)
(* query cache a change makes the browser read again.                      *)
(*                                                                         *)
(* A behaviour is about one kind of change and one query whose answer it   *)
(* affects: queries do not depend on each other, except that a change may  *)
(* await refetches, and then it goes on at any later time.  Pages come and *)
(* go, fetches and changes take time, fail or lose their answer, and other *)
(* users make changes too.                                                 *)
(***************************************************************************)
EXTENDS QueryEntries, Sequences, SequencesExt

CONSTANTS
  Writes,      \* changes the user may make
  MaxUpdates   \* bound on the changes of anybody

ASSUME QueryConstantsOK == MaxUpdates \in Nat

VARIABLES
  kind,     \* of the changes of this behaviour
  query,    \* the key of the query looked at
  cached,   \* its entry in the cache
  version,  \* of the data at the server
  write     \* [pc, version, todo] of each change

queryVars == <<kind, query, cached, version, write>>

QueryVersions == 0 .. MaxUpdates

-----------------------------------------------------------------------------
(* Keys.  A change is about one job or one ODS configuration, "5".          *)

\* id: "list" for the list, an id, or none for the prefix of both.
QueryKeyNew(name, id) == <<name>> \o id
List == <<"list">>
Detail == <<"detail-5">>
AnyId == <<>>

JobList == QueryKeyNew("jobs", List)
JobDetail == QueryKeyNew("jobs", Detail)
JobNotes == <<"jobs", "5", "notes">>
OdsList == QueryKeyNew("ods-configs", List)
OdsDetail == QueryKeyNew("ods-configs", Detail)
YearConfig == <<"school-year-config">>
TenantYears == <<"school-year-config", "tenant">>
PartnerConfig == <<"partner-config">>

\* Faulty variant: a put invalidates what a post does.
PutStandard_List(name) == QueryKeyNew(name, List)
\* The key the builder gives a put, unless the query names its keys ...
PutStandard(name) == QueryKeyNew(name, AnyId)
\* ... a post, and a delete.
PostStandard(name) == QueryKeyNew(name, List)
DeleteStandard(name) == QueryKeyNew(name, List)

InvalidateOnOdsWrite(standard) == <<standard, YearConfig>>

\* The keys a change invalidates, in order.
KeysToInvalidate ==
  [postJob |-> <<PostStandard("jobs")>>,
   startJob |-> <<JobList>>,
   resolveJob |-> <<JobList, JobDetail>>,
   note |-> <<JobNotes>>,
   putOds |-> InvalidateOnOdsWrite(PutStandard("ods-configs")),
   postOds |-> InvalidateOnOdsWrite(PostStandard("ods-configs")),
   deleteOds |-> InvalidateOnOdsWrite(DeleteStandard("ods-configs")),
   testOds |-> <<OdsList>>,
   partnerConfig |-> <<PartnerConfig, TenantYears>>,
   yearConfig |-> <<YearConfig>>]

\* The queries of the pages, and of the bar beside every page.
JobsPage == {JobList}
JobViewPage == {JobDetail}
NotesOfJob == {JobNotes}
OdsConfigsPage == {OdsList, TenantYears}
OdsConfigConnectionEditForm == {OdsDetail, TenantYears}
OdsConfigConnectionCreateForm == {TenantYears}
SchoolYearConfigSection == {YearConfig}
PartnerConfigSection == {PartnerConfig}
Nav == {TenantYears}

\* The queries of the pages that show what the change changes.  (The form of a
\* deleted ODS configuration can only be reached by its address, and it does
\* not show the tests of its connection.)
Affected ==
  [postJob |-> JobsPage,
   startJob |-> JobsPage,
   resolveJob |-> JobsPage \cup JobViewPage,
   note |-> NotesOfJob,
   putOds |-> OdsConfigsPage \cup OdsConfigConnectionEditForm \cup SchoolYearConfigSection,
   postOds |-> OdsConfigsPage \cup OdsConfigConnectionCreateForm \cup SchoolYearConfigSection,
   deleteOds |-> OdsConfigsPage \cup SchoolYearConfigSection,
   testOds |-> {OdsList},
   partnerConfig |-> PartnerConfigSection \cup Nav,
   yearConfig |-> SchoolYearConfigSection \cup Nav]

Kinds == DOMAIN Affected

\* putJobResolve awaits the refetches of one key before it goes on to the next.
Awaits == {"resolveJob"}

-----------------------------------------------------------------------------

QueryTypeOK ==
  /\ kind \in Kinds
  /\ query \in Affected[kind]
  /\ cached \in Entry(QueryVersions)
  /\ version \in QueryVersions
  /\ \A w \in Writes : /\ write[w].pc \in {"new", "sent", "applied", "answered", "failed"}
                       /\ write[w].version \in QueryVersions

QueryInit ==
  /\ kind \in Kinds
  /\ query \in Affected[kind]
  /\ cached = NewEntry
  /\ version = 0
  /\ write = [w \in Writes |-> [pc |-> "new", version |-> 0, todo |-> <<>>]]

\* A page with the query opens or closes.
Open ==
  /\ ~cached.mounted
  /\ cached' = Mounted(cached)
  /\ UNCHANGED <<kind, query, version, write>>
Close ==
  /\ cached.mounted
  /\ cached' = Unmounted(cached)
  /\ UNCHANGED <<kind, query, version, write>>

Move ==
  /\ cached' \in Moves(cached, version)
  /\ UNCHANGED <<kind, query, version, write>>

\* mutate: several may be under way.
Mutate(w) ==
  /\ write[w].pc = "new"
  /\ write' = [write EXCEPT ![w].pc = "sent"]
  /\ UNCHANGED <<kind, query, cached, version>>

\* The server makes the change.
Apply(w) ==
  /\ write[w].pc = "sent" /\ version < MaxUpdates
  /\ version' = version + 1
  /\ write' = [write EXCEPT ![w].pc = "applied", ![w].version = version + 1]
  /\ UNCHANGED <<kind, query, cached>>

\* It refuses, or the answer is lost: onSuccess is not called.
MutationFails(w) ==
  /\ write[w].pc \in {"sent", "applied"}
  /\ write' = [write EXCEPT ![w].pc = "failed"]
  /\ UNCHANGED <<kind, query, cached, version>>

Invalidate(keys) ==
  cached' = IF \E key \in keys : IsPrefix(key, query) THEN Invalidated(cached) ELSE cached

\* onSuccess: all keys at once, or the first one and then the rest.
MutationSucceeds(w) ==
  /\ write[w].pc = "applied"
  /\ LET keys == KeysToInvalidate[kind]
         first == IF kind \in Awaits THEN 1 ELSE Len(keys)
     IN  /\ Invalidate({keys[i] : i \in 1 .. first})
         /\ write' = [write EXCEPT ![w].pc = "answered",
                                   ![w].todo = SubSeq(keys, first + 1, Len(keys))]
  /\ UNCHANGED <<kind, query, version>>

\* The awaited refetches are over, answered, failed or canceled.
InvalidateNext(w) ==
  /\ write[w].todo # <<>>
  /\ Invalidate({Head(write[w].todo)})
  /\ write' = [write EXCEPT ![w].todo = Tail(@)]
  /\ UNCHANGED <<kind, query, version>>

\* Somebody else's change.
OthersChange ==
  /\ version < MaxUpdates
  /\ version' = version + 1
  /\ UNCHANGED <<kind, query, cached, write>>

QueryNext ==
  \/ Open \/ Close \/ Move
  \/ \E w \in Writes :
       Mutate(w) \/ Apply(w) \/ MutationFails(w) \/ MutationSucceeds(w) \/ InvalidateNext(w)
  \/ OthersChange

-----------------------------------------------------------------------------

(* What a page shows as up to date has the user's own acknowledged changes *)
(* (the keysToInvalidate of the queries, builder.ts 364-390), but for an   *)
(* answer that an invalidation overtook and for keys still to invalidate.  *)
OwnChangesAreShown ==
  Fresh(cached) /\ ~cached.overtaken =>
    \A w \in Writes :
      /\ write[w].pc = "answered"
      /\ \A i \in DOMAIN write[w].todo : ~IsPrefix(write[w].todo[i], query)
      => cached.data >= write[w].version
=============================================================================
