------------------------------ MODULE PartnerForm ------------------------------
(***************************************************************************)
(* The page on which an admin sets the partner's switch for cross-year     *)
(* matching, and the endpoints behind it.                                  *)
(*                                                                         *)
(* As with the school years (SchoolYears) the page shows what its query    *)
(* cache holds, edits a draft, and lists the change for confirmation; the  *)
(* cache may be read again at any time.  Here the endpoint does not look   *)
(* for changes made since: the last save wins.  The switch can be turned   *)
(* on only where EDU can be connected to, as the page last heard and as    *)
(* the endpoint finds (EduPools).  Other admins save too, and credentials  *)
(* come and go.                                                            *)
(*                                                                         *)
(* A second click on "confirm" and coming back before the answer are left  *)
(* out, as there.                                                          *)
(***************************************************************************)

CONSTANTS NoDraft, NoUpdate

VARIABLES
  enabled,     \* the partner's crossYearMatchingEnabled
  connected,   \* canConnect would find credentials
  loaded,      \* the page's query cache
  mode,        \* what the page shows
  draftConfig, \* its draft
  listed,      \* the setting the dialog announced when it was opened, for the property
  update       \* its save under way

partnerVars == <<enabled, connected, loaded, mode, draftConfig, listed, update>>

Loaded == [enabled : BOOLEAN, connected : BOOLEAN]
PartnerUpdate == [pc : {"sent", "checked"}, enabled : BOOLEAN, listed : BOOLEAN] \cup
                 [pc : {"saved", "refused"}]
ASSUME PartnerFormConstantsOK == NoDraft \notin BOOLEAN /\ NoUpdate \notin PartnerUpdate

PartnerTypeOK ==
  /\ enabled \in BOOLEAN /\ connected \in BOOLEAN /\ loaded \in Loaded
  /\ mode \in {"view", "edit", "confirm"}
  /\ draftConfig \in BOOLEAN \cup {NoDraft}
  /\ listed \in BOOLEAN
  /\ update \in PartnerUpdate \cup {NoUpdate}

PartnerInit ==
  /\ enabled = FALSE /\ connected = FALSE
  /\ loaded = [enabled |-> enabled, connected |-> connected]
  /\ mode = "view" /\ draftConfig = NoDraft /\ listed = FALSE
  /\ update = NoUpdate

-----------------------------------------------------------------------------
(* The page.                                                                *)

HasChanges == draftConfig # NoDraft /\ draftConfig # loaded.enabled
UpdateIsPending == update # NoUpdate

\* Faulty variant: the draft follows what is read.
DraftAfterReload_Synced == IF draftConfig = NoDraft THEN NoDraft ELSE enabled

DraftAfterReload == draftConfig

\* GET: the setting, and whether EDU can be connected to.
ReloadPartner ==
  /\ loaded' = [enabled |-> enabled, connected |-> connected]
  /\ draftConfig' = DraftAfterReload
  /\ UNCHANGED <<enabled, connected, mode, listed, update>>

EditPartner ==
  /\ mode = "view" /\ ~UpdateIsPending
  /\ mode' = "edit" /\ draftConfig' = loaded.enabled
  /\ UNCHANGED <<enabled, connected, loaded, listed, update>>

SwitchDisabled == ~loaded.connected /\ ~draftConfig

FlipCrossYear ==
  /\ mode = "edit" /\ ~SwitchDisabled /\ ~UpdateIsPending
  /\ draftConfig' = ~draftConfig
  /\ UNCHANGED <<enabled, connected, loaded, mode, listed, update>>

OpenSave ==
  /\ mode = "edit" /\ HasChanges /\ ~UpdateIsPending
  /\ mode' = "confirm" /\ listed' = draftConfig
  /\ UNCHANGED <<enabled, connected, loaded, draftConfig, update>>

\* Also while the save is under way.
CloseSave ==
  /\ mode = "confirm"
  /\ mode' = "edit"
  /\ UNCHANGED <<enabled, connected, loaded, draftConfig, listed, update>>

DiscardEdits == mode' = "view" /\ draftConfig' = NoDraft

\* "Cancel", and leaving the page: after a question if there are changes and
\* no save is under way.
CancelPartner ==
  /\ mode = "edit" /\ ~UpdateIsPending
  /\ DiscardEdits
  /\ UNCHANGED <<enabled, connected, loaded, listed, update>>

LeavePartner ==
  /\ mode # "view"
  /\ DiscardEdits
  /\ UNCHANGED <<enabled, connected, loaded, listed, update>>

\* Faulty variant: the setting shown is toggled.
SettingSent_Toggled == ~loaded.enabled

SettingSent == draftConfig

ConfirmSave ==
  /\ mode = "confirm" /\ ~UpdateIsPending
  /\ update' = [pc |-> "sent", enabled |-> SettingSent, listed |-> listed]
  /\ UNCHANGED <<enabled, connected, loaded, mode, draftConfig, listed>>

\* The answer, or an error instead of it.
SaveSucceeds ==
  /\ UpdateIsPending /\ update.pc = "saved"
  /\ DiscardEdits
  /\ update' = NoUpdate
  /\ UNCHANGED <<enabled, connected, loaded, listed>>

SaveFails ==
  /\ UpdateIsPending
  /\ mode' = IF mode = "confirm" THEN "edit" ELSE mode
  /\ update' = NoUpdate
  /\ UNCHANGED <<enabled, connected, loaded, draftConfig, listed>>

-----------------------------------------------------------------------------
(* PUT.                                                                     *)

CheckConnection ==
  /\ UpdateIsPending /\ update.pc = "sent"
  /\ update' = IF update.enabled /\ ~connected THEN [pc |-> "refused"]
                                               ELSE [update EXCEPT !.pc = "checked"]
  /\ UNCHANGED <<enabled, connected, loaded, mode, draftConfig, listed>>

WritePartner ==
  /\ UpdateIsPending /\ update.pc = "checked"
  /\ enabled' = update.enabled
  /\ update' = [pc |-> "saved"]
  /\ UNCHANGED <<connected, loaded, mode, draftConfig, listed>>

-----------------------------------------------------------------------------
(* The others.                                                              *)

OthersSave(on) ==
  /\ on => connected
  /\ enabled' = on
  /\ UNCHANGED <<connected, loaded, mode, draftConfig, listed, update>>

CredentialsChange ==
  /\ connected' = ~connected
  /\ UNCHANGED <<enabled, loaded, mode, draftConfig, listed, update>>

PartnerNext ==
  \/ ReloadPartner \/ EditPartner \/ FlipCrossYear
  \/ OpenSave \/ CloseSave \/ CancelPartner \/ LeavePartner
  \/ ConfirmSave \/ SaveSucceeds \/ SaveFails
  \/ CheckConnection \/ WritePartner
  \/ (\E on \in BOOLEAN : OthersSave(on)) \/ CredentialsChange

-----------------------------------------------------------------------------
(* A save makes the setting what its dialog announced when it was opened,  *)
(* whatever is read again or saved by others meanwhile, even when that     *)
(* leaves the dialog with nothing to list (PartnerConfig.tsx 44-47, 75,    *)
(* 106-124).                                                               *)
SettingIsAsListed ==
  [][UpdateIsPending /\ update.pc = "checked" /\ update' = [pc |-> "saved"] =>
       enabled' = update.listed]_partnerVars

=============================================================================
