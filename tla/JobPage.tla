--------------------------------- MODULE JobPage ---------------------------------
(***************************************************************************)
(* The page of a job while its run goes on: it polls the updates of the    *)
(* run, works out a stage, and when the stage changes reads the job again. *)
(* The run makes progress through Progress; what is read at a point is     *)
(* what has been committed by then (RunLifecycle has the run itself).      *)
(***************************************************************************)
EXTENDS QueryEntries

VARIABLES
  progress,  \* of the run
  fails,     \* the run is one that fails
  view,      \* [open, stage]
  detail,    \* the entries of the job, which has its status and files,
  updates    \* and of the updates of its run

pageVars == <<progress, fails, view, detail, updates>>

\* Nothing yet; a begin row; a failure row; errors, summaries, unmatched
\* students; the row done; the status of the run; its output files.
Begun == 1
FailureTold == 2
ErrorsTold == 3
DoneTold == 4
RunEnded == 5
FilesSaved == 6
Progress == 0 .. FilesSaved

Stages == {"not started", "in progress", "error", "done"}
NoStage == "undefined"

\* getStageFromUpdates, of updates read at a point; without them as of none.
StageAt(point) ==
  CASE point = Unread -> "not started"
    [] point # Unread /\ point >= DoneTold -> "done"
    [] point # Unread /\ point \in FailureTold .. DoneTold - 1 /\ fails -> "error"
    [] point # Unread /\ point < Begun -> "not started"
    [] OTHER -> "in progress"

\* The first point with the stage.
StageStart(stage) ==
  CASE stage = "done" -> DoneTold [] stage = "error" -> FailureTold
    [] stage = "in progress" -> Begun [] OTHER -> 0

PageTypeOK ==
  /\ progress \in Progress /\ fails \in BOOLEAN
  /\ view \in [open : BOOLEAN, stage : Stages \cup {NoStage}]
  /\ detail \in Entry(Progress) /\ updates \in Entry(Progress)

PageInit ==
  /\ progress = 0 /\ fails \in BOOLEAN
  /\ view = [open |-> FALSE, stage |-> NoStage]
  /\ detail = NewEntry /\ updates = NewEntry

\* The executor's updates and the API's handling of them; done commits its row
\* before completeRun sets the status and saves the files.
RunProceeds ==
  /\ progress < FilesSaved
  /\ progress' = IF progress = Begun /\ ~fails THEN ErrorsTold ELSE progress + 1
  /\ UNCHANGED <<fails, view, detail, updates>>

\* The loader has or gets the job before the page is shown; then its entries
\* are mounted.  A link that is hovered loads the job too.
Preload ==
  /\ ~view.open /\ detail.data = Unread
  /\ detail' = Fetching(detail)
  /\ UNCHANGED <<progress, fails, view, updates>>
OpenPage ==
  /\ ~view.open /\ detail.data # Unread
  /\ view' = [open |-> TRUE, stage |-> NoStage]
  /\ detail' = Mounted(detail) /\ updates' = Mounted(updates)
  /\ UNCHANGED <<progress, fails>>
ClosePage ==
  /\ view.open
  /\ view' = [open |-> FALSE, stage |-> NoStage]
  /\ detail' = Unmounted(detail) /\ updates' = Unmounted(updates)
  /\ UNCHANGED <<progress, fails>>

\* isLoading: no data and a fetch under way.
Loading == updates.data = Unread /\ updates.fetch # Idle
NewStage == IF Loading THEN NoStage ELSE StageAt(updates.data)

\* refetchInterval
Poll ==
  /\ view.open /\ view.stage \notin {NoStage, "done"}
  /\ updates' = Fetching(updates)
  /\ UNCHANGED <<progress, fails, view, detail>>

\* Faulty variant: only the queries below the job's id are invalidated.
InvalidateJobQueries_Id ==
  updates' = Invalidated(updates) /\ detail' = detail
\* Those (updates and errors) and the detail.
InvalidateJobQueries ==
  updates' = Invalidated(updates) /\ detail' = Invalidated(detail)

\* The effect, which runs with the render that has the new stage.
StageEffect ==
  /\ view.open /\ view.stage # NewStage
  /\ InvalidateJobQueries
  /\ view' = [view EXCEPT !.stage = NewStage]
  /\ UNCHANGED <<progress, fails>>

EntryMoves ==
  /\ \/ detail' \in Moves(detail, progress) /\ UNCHANGED updates
     \/ updates' \in Moves(updates, progress) /\ UNCHANGED detail
  /\ UNCHANGED <<progress, fails, view>>

PageNext ==
  \/ RunProceeds \/ Preload \/ OpenPage \/ ClosePage \/ StageEffect \/ Poll \/ EntryMoves

-----------------------------------------------------------------------------

(* A job the page shows as up to date is one read no earlier than the      *)
(* stage the page shows began: the page never has the stage of the run     *)
(* beside the job of an earlier one (JobViewPage.tsx 67-73).               *)
PageIsAsNewAsItsStage ==
  view.open /\ Fresh(detail) /\ ~detail.overtaken => detail.data >= StageStart(view.stage)

(* What the comment at JobViewPage.tsx 48-51 promises: when the page shows *)
(* the stage done, it has the latest status and files of the job.          *)
DonePageShowsTheEnd ==
  view.open /\ view.stage = "done" /\ Fresh(detail) => detail.data >= RunEnded
=============================================================================
