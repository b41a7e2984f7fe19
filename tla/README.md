# TLA+ specifications of Runway

Runway takes assessment files from districts, converts them with Earthmover, matches the students
in them with rosters, and sends the result to an Ed-Fi ODS or hands it out as files. A NestJS app
(`app/api`) keeps partners, tenants, jobs and runs in PostgreSQL; for every run it launches a
container with a Python program, the executor (`executor/`), which talks back to the app over HTTP
and shares an S3 bucket with it. Users log in through OIDC identity providers; API clients use an
external API. Paths below are relative to the repository (`src/` there).

This directory holds TLA+ modules for the parts of Runway that keep state or in which several
processes meet, the TLC configurations that check them, and TLAPS proofs of their safety properties
and refinements for every value of the constants.

    tlc -config RunLifecycle_all.cfg MCRunLifecycle      # any run, see "Runs"
    tlapm RunLifecycleProofs.tla                         # any module of proofs, see "Proofs"

Contents: [1 Inventory](#1-inventory) · [2 Modules](#2-modules) · [3 Runs](#3-runs) ·
[4 Where code and claims differ](#4-where-code-and-claims-differ) · [5 Proofs](#5-proofs) ·
[6 Limits](#6-limits) · [7 Plan](#7-plan)

## 1 Inventory

`PROJECT.json` lists every component with its status, every definition with the lines it stands
for ("map"), and the hazards with the properties that watch them.

| Component | State it keeps | Operations | What is hard, and what makes it correct |
|---|---|---|---|
| **Run lifecycle** `jobs.service.ts`, `earthbeam-api*.ts` | rows `run`, `run_update`, `run_error` | `startJob`, launch, `initRun`, `reportError`, `updateStatus`, `completeRun` | Handlers of different requests interleave at every await, without row locks; requests are resent, answers lost, launches fail late. One unfinished run per job, a token used once, the end recorded truthfully and announced. *Modelled.* |
| **Executor** `executor.py`, `artifacts.py`, `aggregator.py` | its progress, error object, artifacts; rows and objects it writes | some 25 steps, the actions' messages, the SIGALRM handler, the failure branch | The alarm throws anywhere; a POST in the middle of a step throws; two passes share files. Whatever happens: true rows, an error reported, the right data to the ODS, an end. *Modelled: Executor, ExecutorReport.* |
| **Progress tracker** `JobProgressTracker.tsx` | none | shows the stages of a run | Works its stages out of rows that may stop anywhere. What it shows of the end is true. *Modelled in Executor.* |
| **Job outputs and status** `completeRun`, `reportOutputFiles`, `job.dto.ts`, `jobs.controller.ts`, `output-sets.v1.controller.ts` | `run_output_file_set`, `run_output_file`, the job's S3 prefix, `isResolved` | upload, report a set, list files, complete, resolve, poll | S3 prefix shared by all runs of a job, lists taken at different times, reports that fail unnoticed, resolve requests that overlap, clients with cursors. Sets are whole and of their job; the status is that of the last run. *Partly: JobOutputs.* |
| **User Management sync** `um-sync.handler.ts` | `partner`, `tenant`, the UM token | one nightly sync: read, ask, write | The plan is made from an old copy; parallel requests fail one by one; syncs overlap; logins write. Converges, and touches only what it manages. *Modelled: UmSync.* |
| **Identity providers** `identity-provider.service.ts` | registrations, the refresh under way, the LISTEN connection | refresh, retry, abort, prune, notification, verification of claims | Refreshes overlap, retries wait for minutes, notifications get lost. Latest configuration wins; no needless outage; fail closed. *Modelled: IdpRegistrations, and the claims in Access.* |
| **Sessions, users, authorization** `auth.service.ts`, `auth.controller.ts`, guards | `user`, `user_tenant`, `session` | log in, first log in, log out, guard a request | The provider may be reconfigured during a login; one person logs in twice at once; sessions outlive what they were made from. A session has what its claims give; a job is used by its tenant. *Modelled: Access.* |
| **External API tokens** `auth/external-api` | none | check a token and its partners | What a token lets its client do to jobs of any tenant. *Modelled in Access.* |
| **Job intake** `jobs.service.ts`, `jobs.controller.ts`, `jobs.v1.controller.ts`, `JobCreatePage.tsx`, the payload | `job`, `job_file`, the uploaded files | resolve the destination, create, upload, start, build the payload | Year, ODS, partner switch, roster and bundle are read at different moments, and again when the run starts; the job is made in two statements. A job starts whole, and its executor is told what fits it. *Modelled: Intake.* |
| **Bundle registry** `earthbeam-bundles.service.ts` | a cache with its age | fetch | Fetches overlap and fail. The cache is never older than it claims. *Modelled: BundleCache.* |
| **ODS configuration** `ods-config.service.ts` | `ods_config`, `ods_connection` | create, update, test, retire | Connections are tested and replaced by concurrent requests. One configuration per tenant and year; its active connection is good. *Modelled: OdsConfigs, OdsStore.* |
| **School years** `school-year-config.controller.ts`, `SchoolYearConfigSection.tsx` | `school_year_config`, the form's draft | read, edit, confirm, save | Whole-form saves from stale pages. A save writes what its user confirmed. *Modelled: SchoolYears.* |
| **EDU roster and Snowflake pools** `edu-snowflake-pool.service.ts`, `streamRoster` | one pool per partner | get, test, stream, forget | Pool made once for several requests, fails for all; a stream breaks off after its first rows. *Partly: EduPools.* |
| **Partner settings** `partners.controller.ts`, `PartnerConfig.tsx` | cross-year switch | get, update | Read at several moments by intake, payload and roster. A form edits a draft of what may be read again. A save sets what its user confirmed. *Modelled: PartnerForm, EduPools, Intake, QueryCache.* |
| **Query cache of the browser** `api/queries/*.ts` | one entry per query | read, change, invalidate | Changes overlap with fetches on any page. What a page shows as up to date has the user's own changes. *Modelled: QueryEntries, QueryCache.* |
| **Page of a job** `JobViewPage.tsx` | the stage shown, two cache entries | poll, read again at a new stage | Stages are worked out from polls that come between the statements of the app. *Modelled: JobPage.* |
| **Tables and column filters** `dataTable`, `stdTable` | search parameters of the address, drafts | sort, search, filter, turn pages | Setters work on a copy of the last rendering; bounds go through the address. *Partly: Tables, ColumnFilters.* |
| **Job notes and audited writes** `JobNotes`, `jobs.controller.ts`, `database.service.ts`, triggers | `job_note`, the open form and dialog, a setting of each pooled connection | write, edit, delete a note; tell the database who writes | Requests of users and of nobody take turns on connections; notes are read again while one is typed. A row names who wrote it; what is typed stays. *Modelled: JobNotes.* |
| **File service** | none | presigned URLs, list, head | Its lists and their failures are in JobOutputs and Intake. *Partly.* |
| **Schema and migrations** | keys and defaults | run once, in order | Keys and unique indexes are guards in the models that rely on them. *Partly.* |
| **Other pages, pg-boss, event emitter, configuration and encryption, deployment** | none of their own | one call each | Their outcomes are choices in the modules that call them. *Not modelled.* |

How they interact: a start request creates a `run` row and launches a container with an *init token*;
the executor trades it for an access token (`GET /api/earthbeam/auth/:runId/init`), fetches its payload,
streams rosters, reports sets, errors and actions by POST, and last says "done"; `completeRun` then sets
the status, lists the job's S3 output and puts an event on EventBridge. The UI and the external API read
the rows; users mark jobs as resolved. Partners and tenants come from the UM sync and from logins; the
registrations of identity providers follow the database by `LISTEN/NOTIFY`. Before a run there is the
intake: `initialize` resolves year, ODS or roster, checks the files against the bundle, and creates the
job; the client uploads and starts; the payload is built from the settings of the moment the executor
asks. The browser keeps answers in a cache, whose entries each change invalidates by key.

## 2 Modules

    JobRuns  <---refines---  RunLifecycle  ---uses no more than--->  ExecutorReport
                                                                           ^
                                                                        refines
                                                                           |
    JobOutputs      UmSync      IdpRegistrations      Access           Executor

    OdsStore  <---refines---  OdsConfigs        QueryEntries  <---extended by---  QueryCache, JobPage
        ^                         |
     extended by                  +-- in MCApp, one section each: SchoolYears, PartnerForm, EduPools,
        |                             BundleCache, QueryCache, JobPage, Tables, ColumnFilters, JobNotes
     Intake

The theorems about RunLifecycle, Executor, Intake, JobOutputs, UmSync, IdpRegistrations and Access
are in a module with the suffix `Proofs`, those about OdsConfigs and the other sections of MCApp in
`AppProofs`.

`ExecutorReport` is the joint between app and executor: `Executor` is checked to implement it, and
every step of `RunLifecycle` is proved to be a step of it (or none) for each run. So the lifecycle
may treat the executor as a process of five phases without assuming more than the program keeps.
`JobRuns` is what the rest of Runway takes runs to be; `RunLifecycle` implements it while handlers
do not overlap. It has no run of its own: it is checked as the property `ImplementsJobRuns`.

**RunLifecycle** splits each handler where it awaits. A start request is `CheckInProgress` (the
`findMany` of startJob), `CreateRun`, then `LaunchExecutor`, `LaunchThrows` or `LaunchThrowsLate`,
and `RecordLaunchFailure` for the catch. An init request is `SendInit`, `ReadRunForInit` and
`SetRunning` (find, then update, in a transaction at the default isolation), with `ResendInit` for
urllib3's retry and `ReceiveToken` for the answer. The end is `SendError`, `SendDone`
(the `run_update` insert, with its primary key as the guard), `SetTerminalStatus`,
`SaveOutputFiles` and `EmitRunComplete` (whose error branch needs a first error row). `unreported`
names the runs whose executor failed without its error reaching the app: the POST is lost, or an
alarm replaces the error by one without a stack trace, which `send_error` cannot serialise while
`finally` still says "done". What the environment may do beyond that is a set of named *disturbances*:

| Disturbance | The environment may |
|---|---|
| `concurrent_starts` | start a job while another start of it is open (double click, app and API) |
| `late_launch_error` | let `executor.start` throw although the task runs |
| `handler_dies` | end a handler between two awaits (restart, database error) |
| `response_lost`, `overlapping_inits` | lose the answer to init, so that it is resent; resend it while the first is at work |
| `post_lost` | lose an error or done POST |
| `late_alarm` | let SIGALRM go off while the executor cleans up after a failure or reports its end |
| `event_lost` | have EventBridge not take the `run_complete` event |
| `executor_killed`, `slow_boot` | end the container; let the init token expire first |
| `bad_payload` | let the payload fail to be built or unpacked |

**Executor** is `JobExecutor.execute` as one process: `Program` lists the steps of the try block;
`pc` says whether the step is closing the previous action, beginning its own, or working. Failures
go through `LockError`, `UploadRemaining`, `UpdateFailure`, `SendError`, `SendDone`, the except
branch and `finally`. `Alarm` may fire in any of them once; in a request of the session (init, the
payload, a message, a roster) it may instead be `AlarmInRequest`: the TimeoutError is taken for a
connection that timed out, `Retry` goes on, and no second alarm comes. Data is a match rate's three cases,
whether rows are left unmatched, and which artifacts exist, are wanted and are in S3.

**JobOutputs** has the runs of several jobs, one after the other per job, upload keys and report
sets. The report of a set may fail in the app (`unsaved`: the listing or the insert throws), which the
executor does not look at. `OriginalStatus` is `job.dto.ts`'s status, `CheckResolve`/`Resolve` the two
statements of the resolve handler, for any number of requests that overlap, of one job too, and `Poll`
a client of `GET output-sets` that continues from the last `createdAt`.

**UmSync** has one process per overlapping sync: `ReadRows`, `AskPartners`, `AskTenants` (one per
partner, answered in any order), `AllAnswered`, `Write` (the transaction). `PartnersTo...` and
`TenantGoes`/`TenantComes`/`TenantAfter` are the set differences of the handler.

**IdpRegistrations** has one process per refresh and one *task* per refresh and provider: the first
attempt (`RegisterOidcIdp`), the retries, and the `Prune` once all first attempts have settled. It
follows the last of them in microtasks: while `PruneIsDue`, no timer of a retry fires and no
notification comes in. The listener connects, loses its connection, and starts a refresh per
notification, which aborts the one before (`current`).

**OdsStore** is what the rest of Runway takes ODS configurations to be: at most one in force per year,
each with an active connection that is replaced only by ones that never were active before.
**OdsConfigs** is the service, with several administrators whose requests interleave where it awaits:
the test of the credentials (`TestNew`, `TestUpdated`); then, for a new configuration, `Create` with the
unique index in `MayCreate`; for an update `ReadExisting`, outside the transaction, and its three
statements `RetireExisting` (which takes the lock of the row), `InsertConnection` and `ActivateNew`
(with which it commits). Updates that read different connections share no lock before the last
statement, so they may activate in another order than they insert. Testing a connection is `BeginTest`,
`FindTarget` and `UpdateConnectionStatus`, which waits for the lock; `FailOdsRequest` undoes a
transaction at any point. `replaced` remembers what was active before, for the properties only. It is
checked to implement OdsStore, and **Intake** extends OdsStore: whatever intake is shown to do holds
with the real service.

**Intake** has a *client* per submission form or API client, whose `pc` follows one job through
`Submit`/`Initialize`, `ResolveJobDestination`, `CheckRoster`, `CreateJob` and `CreateFiles` (two
statements of `createJob`), `Upload`, `CallStart`, `Start`, and the payload
(`EarthbeamInputForRun`), while `ChangeOds`, `ChangeYear`, `ChangeCrossYear` and `RosterArrives`
change what these read. `Fail` ends a client anywhere: a crash, a failed call, a lost answer.

**Access** takes what is registered and what the identity provider says as inputs of
`LoginCallback`, which verifies the claims (`ClaimsAccepted`, `PartnersOf`, `ExtractAppRoles`);
`FindMembership` and `CreateMembership` are the two queries between which another login of the
person may come. Guards are predicates on a session or token and a job, as they are in the code. `due`
and `admin` remember what the claims meant, for the properties only.

**SchoolYears** has the form (copy, cache, dialog) and the handler (check, then transaction) of several
editors; **PartnerForm** has the page's form and the endpoints of the cross-year switch, other admins
who save too, and credentials that come and go. Both go on when the page is left or the dialog closed
during a save, and when what the form was filled with is read again. **EduPools** has the map of pools,
the streams waiting for and using them, the credentials in AWS, and the switch that needs them.
**BundleCache** has time, so that the copy ages while fetches overlap and fail.

**QueryEntries** is one entry of TanStack Query, a library, as the pages' queries use it: fetches
are shared, an invalidation restarts a fetch except the first, time makes entries stale. **QueryCache**
looks at one kind of change and one query it affects; `KeysToInvalidate` are the keys each change
names in `api/queries`, with the prefixes that `builder.ts` gives them, and `Affected` the queries of the
pages that show what it changes. **JobPage** has the two entries of a job's page, the effect that
reads them again at a new stage, and the polling that stops at the last one. **Tables** has the
address, the last rendering and the copy the setters change: `Render` is a rendering of the address,
`RenderAgain` one with the old parameters while a navigation is under way, which makes the copy anew and
so forgets the changes; **ColumnFilters** is the dialog of a range filter.

**JobNotes** has the page of one user (`AddNote`, `EditNote`, `TypeNote`, `CancelNote`, `SaveNote`, the
dialog `question`), and `ReloadNotes`, which takes away the form and the dialog of a note that is gone.
A request waits for a pooled connection (`BeginRequest`; `OthersRequest` for everybody else): a user's
client sets the person for one transaction (`WithPerson`, `AfterTransaction`), the anonymous client only
writes, and the triggers take `CurrentUser` from the connection. `CreateNote`, `UpdateNote`, `DeleteNote`,
`UpdateJob` and `FailRequest` end a request and its transaction.

The `MC...` modules give the constants values. `MCApp` puts together ten parts that share no
state: a behaviour is about one of them, its `section`, and the others rest. It adds no behaviour
and hides none; it lets one run check them all. Definitions marked *Faulty variant* are not part
of a specification: they are plausible bugs of the definition below them, named in `PROJECT.json`
("mutants"), and each property fails when one of them takes its place. Some properties are
conjunctions, where several statements are about one hazard: `WhatIsToldIsTrue` (the rows and rates
of an execution), `FailureIsTold` (its trail, the tracker, its error, nothing after the timeout),
`SetsAreSound`, `RegistrationsAreSound`, `JobsAreSound`, `EditsAreTheirUsers` (what forms save, what
is being typed, and who is named for it), `EduIsSound`, `PagesAreFresh`, `TablesAreSound`.

## 3 Runs

| Run | Question and bounds |
|---|---|
| `lifecycle_all` | Under *every* disturbance, two concurrent starts of a job, two runs, two init attempts each (998,000 states): `TypeOK`, the end is recorded consistently in both tables (`EndIsRecorded`), a success is earned (`SuccessIsEarned`), a failure has an error row unless its report could not be made (`FailureIsExplained`), and no more is used of the executor than it keeps (`ExecutorsReport`). |
| `lifecycle_orderly` | The same without the disturbances that make handlers overlap: one unfinished run, a token used once, executors one after another, and `ImplementsJobRuns`. |
| `lifecycle_calm` | No disturbances, with fairness: every run ends and every end is announced. |
| `executor_all` | Every payload, every step failing or hanging, the alarm at any moment and one POST that fails (231,000 states): this year's data to the ODS; true rows, no rates of a failed pass, unmatched students accounted for and errors of their step (`WhatIsToldIsTrue`); an honest trail and tracker, the error reported, no work after the timeout unless a request swallowed it (`FailureIsTold`); `ImplementsExecutorReport`, and an end. |
| `outputs_all` | Two jobs, two runs, a file in each of two directories and that of unmatched students; failures, failed reports and failed listings anywhere, two resolve requests and a polling client (523,000 states up to symmetry): `SetsAreSound`, `StatusIsOfLastRun`, `ResolvedJobsHadErrors`. |
| `um_sync_all` | A managed and an unmanaged partner with one tenant code, two overlapping syncs, two changes (of UM or by a login), one mishap (lapsed token, failed request, thrown sync) (1.5 million states). |
| `idp_all` | Two providers, two changes and so three refreshes, one retry each, three failures (discovery, read, lost connection) (1.1 million states). |
| `idp_early_retry` | *Violation*, see section 4. |
| `intake_all` | A page and an API client, one job, two years, two changes of any setting (2.2 million states up to renaming years): `PayloadFitsJob`, `RosterIsThere`, and a job starts with its files, all of them stored (`JobsAreSound`). |
| `access_all` | Two browsers of one person, two partners with two tenant codes, every combination of claims and registration (161,000 states up to symmetry): `SessionsAreSound`, `JobsStayWithTheirTenant`. |
| `app_all` | The ten sections of MCApp (1.49 million states): two administrators of ODS configurations with up to four connections; two editors of a school year and two saves, the form of the partner's settings and other admins, one note with two texts, two requests of two users and of nobody on one connection (`EditsAreTheirUsers`); two streams, three pools, two versions of credentials; three versions of the registry over eight steps of time; each kind of change with each query it affects, two changes of one's own and others'; a run's six points of progress; a table of up to two rows; the three kinds of range filter. |
| `done_page` | *Violation*, see section 4. |

*Why the bounds suffice.* The lifecycle's hazards are races of two handlers on one run or job; two
starts and two init attempts give each pair, and the proofs cover any number. The executor needs no
bound but the failed POSTs: its data are finite. JobOutputs needs a run before and a run after (of the
same job or of another); a set is there or missing, and two directories give a run of which one set is
there and the other not. UmSync's interference is between two syncs and one writer, on one partner; the
other is one that it must leave alone, and the proofs cover any number. For the providers, two suffice
to have one settle while the other has not; two changes give a refresh that is aborted twice;
`MAX_RETRIES` is 10 in the code and 1 here, since retries of a task are alike. Intake's hazard is a
setting that changes between two of its reads; two changes give one that is changed and changed back,
and jobs do not meet. For a login, one person suffices, since persons share tenants only, which the sync
stands for; two browsers race. OdsConfigs needs two updates whose inserts and activations come in
different orders, over a connection that was replaced once, and a test of the connection that is active
between the two activations: four connections and two administrators, one of whom has finished by then.
SchoolYears needs one page that is stale because of the other's save; years are written alike. The
partner's settings are one switch; one form is followed, and what other admins save is a choice. Notes
do not meet, so one stands for all; what a connection keeps of a request shows when the next takes its
turn, for which one connection and two requests do. A version of the registry must be replaced twice
within the life of a copy, and time must go on long enough for the copy to expire twice. An entry has no
memory beyond the answer it holds and the one under way: two own changes and two versions are one more
than those. `FirstRows` in `MCIdpRegistrations` takes the first rows up to renaming. Symmetry is used in
runs without liveness only (`lifecycle_all`, `outputs_all`, `intake_all`, `access_all`), over sets whose
values no definition tells apart.

*Conditional properties.* Where the code guarantees something except in a case it does not handle, the
property says so in its formula, so that the case is visible and everything else is checked:
`RunsAppearWhole` excepts a set whose report the app has answered with an error;
`MissedBehindOthersOnly` a set that the cursor passed with another job's; `FailureIsExplained` a run
whose error was lost or could not be sent; `ErrorIsReported` a POST that failed or an alarm after the
work; `EveryExecutionEnds` and `NoWorkAfterTimeout` an alarm that a request swallowed;
`EventuallyRegistered` unheard changes, failed reads and exhausted retries; `StatusIsOfLastRun`
leftovers of earlier runs; `RosterIsThere` a job accepted because EDU would supply the roster, with the
switch turned off before its payload; `OnlyConfirmedChanges` a save between the check and the
transaction of another, which a comment accepts; `PagesAreFresh` an answer that an invalidation overtook
during the first fetch, and keys a change has still to invalidate; `ChangesAreKept` changes that
together lead back to what was rendered, and those after which the table was rendered again with its old
parameters; `BoxHasTheSearch` a search that was lost so; `HiddenBoundsAreMissing` a bound of 0.

*Deadlock* is not checked where the modelled part may be finished: all requests made, the executor
exited, bounds used up. UmSync never stops, and there it is checked.

*Fairness.* RunLifecycle: a request that was received is worked on, a launched executor goes on
(its alarm bounds it); nobody need start a job. Executor: messages are sent and the armed alarm
rings; the steps themselves get *no* fairness, for they may hang. UmSync: the schedule starts a
sync each night and requests are answered or time out; changes are bounded, so the claim is what
happens after the last. IdpRegistrations: requests settle, timers fire, the database notifies whoever
listens; configuration changes get none. Intake, Access and the sections of MCApp have no fairness:
they wait for users, and their properties are about safety.

## 4 Where code and claims differ

Two disagreements of the code with a comment are runs that TLC refutes ("findings" in
`PROJECT.json`):

1. `idp_early_retry`: a retry that succeeds before slower first attempts have settled is pruned by
   its own refresh, and not tried again.
2. `done_page`: `updateStatus` commits the row "done" before `completeRun` sets the status; a poll
   in between makes the page read the job once more and stop polling, and it keeps showing a running
   job without files (`JobViewPage.tsx:48-58` promises the latest of both).

Others were met while modelling, and no run is devoted to them. Those about state that is modelled
follow from a small change to a configuration, from dropping an exception of a property, or from
stating its opposite; the rest (status codes, encodings, forms) were read in the code. About runs
and their outputs:

- two concurrent starts get past "Job already in progress" and create two runs
  (`jobs.service.ts:394`: the check and the insert are separate statements); `lifecycle_orderly` with
  `concurrent_starts` shows it;
- the file of unmatched students is uploaded before steps that may fail (`executor.py:783`), while
  `artifacts.py:42` wants it in S3 only for an otherwise successful run;
- a rerun that matched everybody inherits the first run's unmatched file and is "complete with
  errors" (`earthbeam-api.service.ts:213`), while `job.dto.ts:130` speaks of the last run;
- a set is stamped when reported and listed when its run succeeds, so a client that polls with the
  last `createdAt` can miss it for good (`output-sets.v1.controller.ts:91`);
- with `overlapping_inits` in `lifecycle_orderly`, a token opens two sessions
  (`earthbeam-api-auth.service.ts` reads and updates the run at the default isolation);
- an alarm during the failure branch replaces the error by one without a stack trace, which
  `send_error` cannot serialise, so nothing is reported;
- an alarm during any request of the session (`executor.py:78-81`: init, the payload, a message, a roster)
  may be taken for a timeout of the connection and retried, and the work goes on without a limit;
- the app may answer the report of a set with an error (`earthbeam-api.controller.ts:269-289`);
  `executor.py:973` does not look at the answer, so a run succeeds and its set is missing for good;
- a set also holds the files that earlier, failed runs of the job left in its directory;
- a start between the check and the update of a resolve request leaves a running job resolved, and
  of two requests that overlap the later wins;
- a tenant that a login creates during the sync that deletes its partner outlives the partner until a
  later sync asks UM for that partner's tenants (`EventuallyInSync` holds because UM then names none);
- a change of providers while the listener is down is not read until the next change;
- the tracker shows a failure of `upload_output`, or one before the first action, at no stage
  (`JobProgressTracker.tsx:56`).

About the EDU warehouse:

- a pool keeps the credentials it was made with (`edu-snowflake-pool.service.ts:83-92`), while
  `app-config.service.ts:155-157` says that no restart is required to pick up new ones;
- `edu-snowflake-pool.service.ts:62-64` has the executor fall back to its first results when the
  roster fails; `executor.py:538` fails the run;
- pools are to be drained on SIGTERM (`edu-snowflake-pool.service.ts:17-21`), but `main.ts` enables
  no shutdown hooks.

About settings and sessions:

- the check of a stale save at `school-year-config.controller.ts:193` compares the time in the query
  cache, which may have been refetched since the form copied the rows: the save undoes another's
  changes, though only ones its dialog lists;
- the result of a connection test is written to the connection that is active by then; overlapping
  updates may activate their connections in another order than they made them, and leave one neither
  active nor retired (`ods-config.service.ts:147-179`);
- a second click on "confirm" sends a save of school years again, and its answer (409) reports one's own
  save as another's (`SchoolYearConfigEditForm.tsx:131`); switches flipped while the save is under way are
  dropped when it succeeds;
- of two first logins of one person the loser fails, and the session its request came with is
  destroyed (`auth.service.ts:30-51`); sessions keep roles and tenant of their login; back-channel
  logout is not implemented, and a failed logout throws inside a callback (`auth.controller.ts:98-104`);
- the anonymous client names `-1` on the one connection that happens to run the statement
  (`database.service.ts:162-166`), while `:30` says that all its queries appear so; the triggers take an
  unset name for nobody too, so the rows do not differ;
- `return new NotFoundException` answers 200 (`jobs.controller.ts:88`, 100, 114).

About the browser:

- a rejected upload leaves the form of a new job saving for ever (`JobCreatePage.tsx:93`);
- the form of a note is closed before the answer (`JobNote.tsx:18-21`, `JobNotes.tsx:46-49`): when
  the save fails the text is lost, and so is what was being typed when somebody else deletes the
  note; of two edits the later overwrites the other without a word; saving an unchanged text
  marks the note as edited;
- the answer of a first fetch that an invalidation overtook counts as fresh for five minutes;
- leaving `PartnerConfig.tsx:48` while a save is pending is not warned about, and after the save
  the page shows the old setting until it is read again; deleting an ODS
  configuration does not invalidate its detail entry;
- while the query of the updates fails, `JobViewPage.tsx:67` reads in a loop without a pause;
- a change of a table that leads back to what was rendered does not cancel the one before it
  (`StdTableProvider.tsx:86-90`); when the table is rendered again before the address has changed (rows
  arrive, or a filter's dialog closes, `StdTableFilters.tsx:206-208`) the copy is made anew (`:85`), and
  the next change drops the one under way, while the search box keeps a search that was dropped; two
  tables of one page overwrite each other's parameters, and filters with characters beyond Latin-1
  cannot be encoded (`dataTable/index.tsx:113-114`);
- the dialog of a column filter takes a bound of 0 for none when it works out its type.

## 5 Proofs

Every invariant, action property and refinement that a passing run checks is also a theorem, for all
values of the constants that the named assumptions of the modules allow. What a run of RunLifecycle
checks without some disturbances is proved without just these. The assumptions say that a bound is a
natural number, that "no such thing" values (`None`, `NoSave`, `Waiting`, ...) are none of the things
they stand beside, and, where the code has two kinds of a thing, that no thing is of both (Intake's
pages and API clients, UmSync's managed and unmanaged partners). The runs evaluate them.

Hardly any of the properties is inductive: a theorem rests on an invariant that adds what a process still
has in hand. Its preservation has one step per action; the theorems combine it with `Init` by PTL.

**RunLifecycleProofs**

| Theorem | Statement | Assuming |
|---|---|---|
| `TypeCorrect` | `[]TypeOK` | - |
| `EndsAreRecorded`, `SuccessesAreEarned` | `[]EndIsRecorded`, `[]SuccessIsEarned` | - |
| `ExecutorsKeepToTheirReport` | `ExecutorsReport` | - |
| `FailuresAreExplained` | `[]FailureIsExplained` | - |
| `RunsInTurn`, `TokensUsedOnce`, `ExecutorsInTurn` | the three exclusion properties | `Orderly` |
| `RunsAreJobRuns` | `ImplementsJobRuns` | `Orderly` |

`EndIsRecorded` says nothing about a handler that still holds an outcome it will write; `EndInv` adds
which process may have what in hand: a run belongs to the start that created it, only an executor that
was granted a token works, only one that is gone has said how it ended, and `outcome` is in `done` rows
before it becomes a status. With `ErrorsExplained` (an executor that is to say "failed" has an error row
or is among `unreported`, and so for an `outcome` in hand) that is enough for part 1, without any
assumption on interleavings. For part 2, `OrderInv` adds that the open start of a job is alone
(`StartsInTurn`), that the last init request of a run is alone and what it read still holds
(`InitsInTurn`), and that the status follows the executor (`StatusFollowsExecutor`): at any time one
process only may change a run's status, which is why the code's unconditional updates are safe.
`Orderly` excludes exactly the disturbances for which that is false.

**ExecutorProofs**

| Theorem | Statement |
|---|---|
| `ExecutorTypeCorrect`, `ExecutorInvariant` | `[]TypeOK`, `[]ExecutorInv` |
| `OdsGetsThisYearAlways` | `[]OdsGetsThisYear` |
| `WhatIsToldIsTrueAlways` | `[]WhatIsToldIsTrue` |
| `FailuresAreTold` | `[]FailureIsTold` |
| `ExecutorImplementsReport` | `ImplementsExecutorReport` |

`ExecutorInv` says what is true by the time the program is at a step: it has entered a step only if the
payload calls for it (`EntryHolds`), the output sets are those of the passes run so far (`SetsHold`), the
ODS has the first pass or nothing (`OdsHolds`), a match rate told is that of a pass that succeeded
(`RatesHold`), and the error is one the step can throw (`ErrorsHold`). Steps are compared by `Rank`, so
that one lemma on `Jump` (to the next step, or over those the payload does not want) serves for all of
them. `TrailHolds` ties the rows to the actions that were begun; it is false after a
lost POST or an alarm, so it is stated of executions without either, and so is the trail itself.

**IntakeProofs**: `PayloadsFitJobs`, `RosterIsThereThen`, `JobsAreSoundAlways` (from
`IntakeInvariant`). `ClientsHold` says, for each `pc`, what a client has read or checked and that it
*still* holds although settings change in between: a configuration keeps its year and its connection is
replaced only by ones that never were active before (this is `OdsStore`, proved of the service below), so
that what was replaced when a job started is never its payload's connection; a roster that arrived
stays, and a job's files are written by the one client that made the job.

**JobOutputsProofs**: `SetsAreSoundAlways`, `StatusIsOfLastRunAlways`, `ResolvedHadErrors` (from
`JobOutputsInvariant`). `StoreHolds` says that S3 has for a job only what its runs produced and
uploaded, `ReportsHold` that a directory has its set once it was dealt with unless its report failed,
`FilesHold` that the files saved for a successful run are all that it produced, and nothing else but
what earlier runs left; `ResolvesHold` that a job a request is about to mark has had errors, which stays
true whatever starts; `StampsInOrder` that the sets of a job are stamped in the order of its runs,
`ClockCounts` that each has a stamp of its own, and `PollsHold` that the cursor is the stamp of a set
the client has got.

**UmSyncProofs**: `UmSyncTypeCorrect`, `UnmanagedStayAlone`, `OneSyncSettles` (from `UmSyncInvariant`).
A sync has answers only about partners that its copy of the rows and the partners UM named gave rise to
(`AnswersAreAsked`), so overlapping syncs, each with an old copy of its own, can neither create nor
remove what is unmanaged; that a tenant has a partner, in each copy as in the rows
(`TenantsHavePartners`), is needed for what one sync leaves behind.

**IdpRegistrationsProofs**: `RegistrationsAreSoundAlways`, `NoNeedlessOutageEver` (from
`IdpInvariant`). `RefreshesFollow` says how far the tasks of a refresh may be when it reads, discovers,
is over or has failed, and that none is ahead of the current one; `NotesAreOfChanges` that there is a
refresh number left for each notification.

**AccessProofs**: `SessionsAreSoundAlways`, `JobsStayWithTheirTenantAlways` (from `AccessInvariant`).
A verdict on the claims goes unchanged from the callback to the session and the membership, whichever
login of the person comes first; `OneTenantDue` shows that claims the callback accepts mean one tenant.

**AppProofs** (`PartsAreApart`: a behaviour of MCApp is one of each of its parts)

| Theorem | Statement | What the invariant adds |
|---|---|---|
| `OdsTypeCorrect`, `ActiveConnectionsAreGood`, `OdsConfigsImplementStore`, `OneConfigurationInForce` | `[]ActiveConnectionIsGood`, `ImplementsOdsStore`, `[]OneInForce` | what was ever active for a configuration is a row of its own (`UsedAreOwn`); what a request has read is one of these, and what it has inserted nobody else has, and nobody sees (`RequestsHold`): so no update retires or activates what another made active |
| `EduIsSoundAlways` | `[]EduIsSound` | how many rows a stream has sent at each point; a pool or a switch there is came from credentials |
| `BundlesAreRecentAlways` | `[]BundlesAreRecent` | what a fetch carries was current after it began, and a fetch lasts no longer than its patience |
| `EditsAreTheirUsersAlways` | `EditsAreTheirUsers` | `YearsInv`: a save whose time of reading is still the stamp of the rows differs from them only in what its dialog listed; `PartnerInv`: so does the draft; `NotesInv`: a connection names the person of its one request while it is in use, and nobody when it is free (`OneCallEach`, `NobodyLeft`) |
| `PagesAreFreshAlways` | `[]PagesAreFresh` | after a change has settled, an entry that counts as fresh was read since; the same of a job's page at each stage |
| `TablesAreSoundAlways` | `[]TablesAreSound` | the copy the setters change is what was asked for (`CopyHasChanges`), and its search is what the box shows (`SearchIsInBox`), but for changes that a rendering with old parameters came after |
| `AppTypeCorrect`, `AppIsSound` | `[]AppTypeOK`; all of the above of `MCSpec` | |

TLC checks the same properties on the small instances; each invariant was checked by TLC before it was
proved.

*Model-checked only* are the five liveness properties `EveryRunEnds`, `EveryEndIsAnnounced`,
`EveryExecutionEnds`, `EventuallyInSync` and `EventuallyRegistered`: fairness needs ENABLED, which the
prover does not reason about. The properties of the two violation runs are false.

## 6 Limits

- A database statement, an S3 request and an HTTP request are atomic; a response may be lost after
  its effect only where a module says so.
- RunLifecycle's executor has its error report and "done" as one message each; the reports of sets
  and actions in between are in Executor and JobOutputs.
- JobOutputs assumes that runs of one job do not overlap (`ExecutorsDoNotOverlap`, hence `Orderly`);
  it leaves out download links and resource errors.
- Executor's tools (earthmover, lightbeam, git, S3) succeed, fail or hang; what they compute is a
  case distinction. A second alarm does not exist: the handler is armed once.
- UmSync takes UM to answer with no tenants for a partner it does not have; UM is not in the repository.
- IdpRegistrations leaves out the connecting/destroyed flags of `scheduleListener`.
- Intake ends where the run begins: a job's further runs and their ends are RunLifecycle's. Its
  settings are those of one tenant; that a client reaches only jobs of its own is Access's.
- Access takes tokens, signatures and OIDC's protocol as given: claims arrive as the provider made
  them. A request's check and its effect are one step, since a job never changes hands.
- JobNotes has one job, and one form open at a time (notes open side by side do not meet); it leaves out
  blank and too long texts.
- SchoolYears and PartnerForm have one save of an editor under way, and no flips during it.
- EduPools leaves out the limit of 20 connections (a stream that gets none fails, as any may) and draining.
- QueryEntries is TanStack Query, modelled from how the pages use it; Snowflake, the ODS, UM, S3 and
  the identity providers are external too and do whatever the modules let them.
- Tables leaves out filters with one value, sorting by several columns, row selection, and a change
  between a navigation back or forward and its rendering; `StdTableProviderServerSide` is used by no page.
- *Not modelled:* pages that only show what the modelled queries return, pg-boss, the event
  emitter, configuration and encryption, deployment: they keep no state that others depend on.

## 7 Plan

The modules were written in the order of their weight for the program: lifecycle, executor, the
joint between them, outputs, the two background processes; then intake with the settings it reads,
access, and the browser. The proofs followed in the same order and cover what the runs check. Left:

1. *Theorems that go further than the runs*: that RunLifecycle composed with the real Executor (not
   with ExecutorReport) keeps `SuccessIsEarned`; that Intake keeps its promises over OdsConfigs
   itself, by way of `OdsConfigsImplementStore`.
2. *Gaps of the models*: `scheduleListener`'s flags, the bound and the draining of pools, filters with
   one value.
