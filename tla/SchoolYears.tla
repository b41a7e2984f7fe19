------------------------------ MODULE SchoolYears ------------------------------
(***************************************************************************)
(* The school year configuration of one partner: the admin page and the    *)
(* endpoints behind it.                                                    *)
(*                                                                         *)
(* The page shows the rows that its query cache holds, and with them the   *)
(* time of their last change.  Its form starts from a copy of the rows;    *)
(* the cache may be refetched while the form is open (the window regains   *)
(* focus, a save has invalidated it), and the form goes on with its copy.  *)
(* A save first lists the changes for confirmation, the differences of     *)
(* cache and copy; then it sends all rows of the copy and the time in the  *)
(* cache.  The endpoint compares the time with that of the newest row and, *)
(* later, writes all rows in a transaction.  While the save is under way   *)
(* the dialog can be closed and the page left.                             *)
(*                                                                         *)
(* A page is one admin's; times are told apart, never equal.  An editor    *)
(* has one save under way: a second click on "confirm", which sends the    *)
(* same again, and coming back to the page before the answer are left to   *)
(* the other editors.                                                      *)
(***************************************************************************)
EXTENDS Naturals

CONSTANTS
  SchoolYearIds, Editors,
  MaxSaves,      \* bound on saves
  NoSave

ASSUME SchoolYearConstantsOK == MaxSaves \in Nat

VARIABLES
  row,     \* isEnabled and sendToOds of each year in school_year_config
  stamp,   \* modifiedOn of the rows; 0 if there are none
  clock,   \* the time of the newest transaction
  page,    \* what each editor's page shows
  cache,   \* its query cache
  edit,    \* the copy in its form, which the form sends
  save     \* its request under way

yearVars == <<row, stamp, clock, page, cache, edit, save>>

Switches == SchoolYearIds \X {"isEnabled", "sendToOds"}
Rows == [Switches -> BOOLEAN]
Stamps == 0..MaxSaves
Fetched == [row : Rows, stamp : Stamps]
\* rows: what it sends; since: the time that the request says the page has
\* loaded, and then the time that it was found to equal; at: the time of its
\* transaction.
Save == [pc : {"sent", "checked", "writing"}, rows : Rows,
         since : Stamps, listed : SUBSET Switches, at : Stamps] \cup
        [pc : {"saved", "refused"}]
ASSUME NoSaveOK == NoSave \notin Save
Default == [s \in Switches |-> s[2] = "sendToOds"]
IsPending(e) == save[e] # NoSave
Differences(r, q) == {s \in Switches : r[s] # q[s]}

YearsTypeOK ==
  /\ row \in Rows /\ stamp \in Stamps /\ clock \in Stamps
  /\ page \in [Editors -> {"view", "edit", "confirm"}]
  /\ cache \in [Editors -> Fetched]
  /\ edit \in [Editors -> Rows]
  /\ save \in [Editors -> Save \cup {NoSave}]

(* Years without a row count as disabled.                                  *)
YearsInit ==
  /\ row = Default /\ stamp = 0 /\ clock = 0
  /\ page = [e \in Editors |-> "view"]
  /\ cache = [e \in Editors |-> [row |-> row, stamp |-> stamp]]
  /\ edit = [e \in Editors |-> row]
  /\ save = [e \in Editors |-> NoSave]

-----------------------------------------------------------------------------
(* The page.                                                                *)

(* GET: rows and the time of the newest from one query.                    *)
Refetch(e) ==
  /\ cache[e] # [row |-> row, stamp |-> stamp]
  /\ cache' = [cache EXCEPT ![e] = [row |-> row, stamp |-> stamp]]
  /\ UNCHANGED <<row, stamp, clock, page, edit, save>>

StartEdit(e) ==
  /\ page[e] = "view" /\ ~IsPending(e)
  /\ page' = [page EXCEPT ![e] = "edit"]
  /\ edit' = [edit EXCEPT ![e] = cache[e].row]
  /\ UNCHANGED <<row, stamp, clock, cache, save>>

(* Flips while a save is under way are left out: a success drops them, and *)
(* after an error they can be made again.                                  *)
UpdateRow(e, s) ==
  /\ page[e] = "edit" /\ ~IsPending(e)
  /\ edit' = [edit EXCEPT ![e][s] = ~@]
  /\ UNCHANGED <<row, stamp, clock, page, cache, save>>

Changes(e) == Differences(cache[e].row, edit[e])

HandleSave(e) ==
  /\ page[e] = "edit" /\ Changes(e) # {} /\ ~IsPending(e)
  /\ page' = [page EXCEPT ![e] = "confirm"]
  /\ UNCHANGED <<row, stamp, clock, cache, edit, save>>

(* Closing the dialog, discarding the edits, or leaving the page, after a  *)
(* question if there are changes and no save is under way.                 *)
CloseConfirm(e) ==
  /\ page[e] = "confirm"
  /\ page' = [page EXCEPT ![e] = "edit"]
  /\ UNCHANGED <<row, stamp, clock, cache, edit, save>>

CloseForm(e) ==
  /\ page' = [page EXCEPT ![e] = "view"]
  /\ edit' = [edit EXCEPT ![e] = Default]

Cancel(e) ==
  /\ page[e] = "edit" /\ ~IsPending(e)
  /\ CloseForm(e)
  /\ UNCHANGED <<row, stamp, clock, cache, save>>

Leave(e) ==
  /\ page[e] # "view"
  /\ CloseForm(e)
  /\ UNCHANGED <<row, stamp, clock, cache, save>>

HandleSaveConfirm(e) ==
  /\ page[e] = "confirm" /\ ~IsPending(e)
  /\ save' = [save EXCEPT ![e] =
       [pc |-> "sent", rows |-> edit[e], since |-> cache[e].stamp, listed |-> Changes(e),
        at |-> 0]]
  /\ UNCHANGED <<row, stamp, clock, page, cache, edit>>

(* The answer comes: the form closes, or goes on with an error.  The       *)
(* endpoint may fail, or its answer get lost.                              *)
OnSuccess(e) ==
  /\ IsPending(e) /\ save[e].pc = "saved"
  /\ CloseForm(e)
  /\ save' = [save EXCEPT ![e] = NoSave]
  /\ UNCHANGED <<row, stamp, clock, cache>>

OnError(e) ==
  /\ IsPending(e)
  /\ page' = [page EXCEPT ![e] = IF @ = "confirm" THEN "edit" ELSE @]
  /\ save' = [save EXCEPT ![e] = NoSave]
  /\ UNCHANGED <<row, stamp, clock, cache, edit>>

-----------------------------------------------------------------------------
(* PUT: the check, and the transaction with the upserts.  modified_on is   *)
(* the time at which the transaction begins; the last to commit wins.      *)

At(e, pc) == save[e] # NoSave /\ save[e].pc = pc

\* Faulty variant: a page that has loaded no rows passes.
UpToDate_Loaded(e) == save[e].since \in {0, stamp}

UpToDate(e) == save[e].since = stamp

CheckModified(e) ==
  /\ At(e, "sent")
  /\ save' = [save EXCEPT ![e] = IF UpToDate(e) THEN [@ EXCEPT !.pc = "checked", !.since = stamp]
                                               ELSE [pc |-> "refused"]]
  /\ UNCHANGED <<row, stamp, clock, page, cache, edit>>

BeginUpserts(e) ==
  /\ clock < MaxSaves /\ At(e, "checked")
  /\ clock' = clock + 1
  /\ save' = [save EXCEPT ![e].pc = "writing", ![e].at = clock']
  /\ UNCHANGED <<row, stamp, page, cache, edit>>

CommitUpserts(e) ==
  /\ At(e, "writing")
  /\ save' = [save EXCEPT ![e] = [pc |-> "saved"]]
  /\ row' = save[e].rows
  /\ stamp' = save[e].at
  /\ UNCHANGED <<clock, page, cache, edit>>

Page(e) ==
  \/ Refetch(e) \/ StartEdit(e) \/ HandleSave(e) \/ CloseConfirm(e) \/ Cancel(e) \/ Leave(e)
  \/ \E s \in Switches : UpdateRow(e, s)
  \/ HandleSaveConfirm(e) \/ OnSuccess(e) \/ OnError(e)

UpdateConfig(e) == CheckModified(e) \/ BeginUpserts(e) \/ CommitUpserts(e)

YearsNext == \E e \in Editors : Page(e) \/ UpdateConfig(e)

-----------------------------------------------------------------------------
Commits(e) == At(e, "writing") /\ save'[e] # save[e]

(* A save changes only what its dialog has listed, whatever was saved or   *)
(* refetched while the form was open - unless another save was committed   *)
(* between its check and its transaction, which the comment at             *)
(* school-year-config.controller.ts:190 accepts.                           *)
OnlyConfirmedChanges ==
  [][\A e \in Editors : Commits(e) /\ stamp = save[e].since =>
       Differences(row, row') \subseteq save[e].listed]_yearVars

=============================================================================
