--------------------------------- MODULE MCApp ---------------------------------
(* A small instance of the parts of the app that share no state: a         *)
(* behaviour is about one of them, its section.  The constants are sets of *)
(* values that are as good as each other, but for the years' names.        *)
EXTENDS OdsConfigs, SchoolYears, PartnerForm, EduPools, BundleCache, QueryCache, JobPage,
        Tables, ColumnFilters, JobNotes, TLC

VARIABLE section

Sections ==
  {"ods", "years", "partner", "edu", "bundles", "queries", "page", "table", "filter",
   "notes"}

MCInit ==
  /\ section \in Sections
  /\ OdsInit /\ YearsInit /\ PartnerInit /\ EduInit /\ BundleInit /\ QueryInit /\ PageInit
  /\ TableInit /\ FilterInit /\ NotesInit
  \* where a part that is not looked at starts makes no difference
  /\ section # "queries" => kind = "note"
  /\ section # "page" => ~fails
  /\ section # "filter" => column = "date"

MCVars == <<odsVars, yearVars, partnerVars, eduVars, bundleVars, queryVars, pageVars,
            tableVars, filterVars, notesVars, section>>

\* What the section looked at does; the others rest.
Rest(looked) ==
  /\ section = looked /\ UNCHANGED section
  /\ looked # "ods" => UNCHANGED odsVars
  /\ looked # "years" => UNCHANGED yearVars
  /\ looked # "partner" => UNCHANGED partnerVars
  /\ looked # "edu" => UNCHANGED eduVars
  /\ looked # "bundles" => UNCHANGED bundleVars
  /\ looked # "queries" => UNCHANGED queryVars
  /\ looked # "page" => UNCHANGED pageVars
  /\ looked # "table" => UNCHANGED tableVars
  /\ looked # "filter" => UNCHANGED filterVars
  /\ looked # "notes" => UNCHANGED notesVars

OdsSection == Rest("ods") /\ OdsNext
YearsSection == Rest("years") /\ YearsNext
PartnerSection == Rest("partner") /\ PartnerNext
EduSection == Rest("edu") /\ EduNext
BundlesSection == Rest("bundles") /\ BundlesNext
QueriesSection == Rest("queries") /\ QueryNext
PageSection == Rest("page") /\ PageNext
TableSection == Rest("table") /\ TableNext
FilterSection == Rest("filter") /\ FilterNext
NotesSection == Rest("notes") /\ NotesNext

MCNext ==
  \/ OdsSection \/ YearsSection \/ PartnerSection \/ EduSection \/ BundlesSection
  \/ QueriesSection \/ PageSection \/ TableSection \/ FilterSection \/ NotesSection

MCSpec == MCInit /\ [][MCNext]_MCVars

-----------------------------------------------------------------------------
(* The sections' properties that are about the browser, put together.       *)

(* Every variable has its type.                                             *)
AppTypeOK ==
  /\ OdsTypeOK /\ YearsTypeOK /\ PartnerTypeOK /\ EduTypeOK /\ BundleTypeOK
  /\ QueryTypeOK /\ PageTypeOK /\ TableTypeOK /\ FilterTypeOK /\ NotesTypeOK

(* What the admin's forms save is what their dialogs listed, although what *)
(* the forms were filled with is read again and saved by others meanwhile  *)
(* (SchoolYearConfigEditForm.tsx 60-169, PartnerConfig.tsx 28-142); a note  *)
(* keeps what is being typed, and a row names the user who wrote it        *)
(* (JobNote.tsx 80-156, database.service.ts 82-131).                        *)
EditsAreTheirUsers ==
  OnlyConfirmedChanges /\ SettingIsAsListed /\ TypedNotesAreKept /\ RowsNameTheirWriters

(* What pages show as up to date is: after the user's own changes, and when *)
(* the run of a job gets on (builder.ts 364-390, JobViewPage.tsx 67-73).    *)
PagesAreFresh == OwnChangesAreShown /\ PageIsAsNewAsItsStage

(* A table loses no change but to a rendering with the old parameters, and  *)
(* filters a column by what the dialog shows (StdTableProvider.tsx 78-182,  *)
(* ColumnFilter.tsx 187-248).                                               *)
TablesAreSound == TablesKeepTheirState /\ HiddenBoundsAreMissing

=============================================================================
