-------------------------------- MODULE JobNotes --------------------------------
(***************************************************************************)
(* The notes on a job: one user's page, the requests of its user and of    *)
(* others, and how the database learns who writes a row.                   *)
(*                                                                         *)
(* Triggers name the person that a setting of the database connection      *)
(* names.  Connections are pooled: the requests of users, and those of the *)
(* executor and of API clients, which name nobody, take turns on them.     *)
(* The client of a user's request sets the person for one transaction and  *)
(* writes in it; the anonymous client only writes.                         *)
(*                                                                         *)
(* The page has one note open at a time; notes open side by side do not    *)
(* meet.  Texts that are too long, or of blanks (which the page refuses    *)
(* and the endpoints accept), are left out.                                *)
(***************************************************************************)
EXTENDS Naturals

CONSTANTS
  Persons, Me,     \* users, and the one whose page it is
  Nobody,          \* what a row says that no user wrote
  MaxNotes, NoNote, Deleted,
  NoteTexts,       \* those that may be saved
  NoText,          \* the empty one
  PgConnections, Waiting,
  NoteCalls, NoCall,
  NoForm, NoQuestion

NoteIds == 1..MaxNotes
New == 0         \* the note that a form is to make

Writers == Persons \cup {Nobody}
Note == [noteText : NoteTexts, createdBy : Writers, modifiedBy : Writers]
Call ==
  [on : PgConnections \cup {Waiting}, as : Writers,
   op : {"post", "put", "delete", "job"}, note : NoteIds \cup {New}, noteText : NoteTexts \cup {NoText}]   \* "job": its files are uploaded, it is resolved
Setting == [session : Writers, local : Writers]
EditForm == [note : NoteIds \cup {New}, noteText : NoteTexts \cup {NoText}]
Question == {"cancel"} \X {New} \cup {"delete"} \X NoteIds

ASSUME JobNotesConstantsOK ==
  /\ Me \in Persons /\ Nobody \notin Persons
  /\ MaxNotes \in Nat
  /\ NoNote \notin Note /\ Deleted \notin Note /\ NoNote # Deleted /\ NoNote \notin NoteTexts
  /\ NoText \notin NoteTexts
  /\ Waiting \notin PgConnections /\ NoCall \notin Call
  /\ NoForm \notin EditForm /\ NoQuestion \notin Question

VARIABLES
  jobNote,   \* rows of job_note
  jobEditor, \* modifiedById of the job
  appUser,   \* app.current_user_id on each connection: in its session, in its transaction
  call,      \* requests under way
  shownNotes,    \* the texts the page has from its query
  editor,    \* the note open on it
  question   \* the dialog over it

notesVars == <<jobNote, jobEditor, appUser, call, shownNotes, editor, question>>
pageOfNotes == <<shownNotes, editor, question>>
tableOfNotes == <<jobNote, jobEditor>>

NotesTypeOK ==
  /\ jobNote \in [NoteIds -> Note \cup {NoNote, Deleted}]
  /\ jobEditor \in Writers
  /\ appUser \in [PgConnections -> Setting]
  /\ call \in [NoteCalls -> Call \cup {NoCall}]
  /\ shownNotes \in [NoteIds -> NoteTexts \cup {NoNote}]
  /\ editor \in EditForm \cup {NoForm}
  /\ question \in Question \cup {NoQuestion}

\* The anonymous client names "-1" on one connection; on the others nothing is
\* set, or what a transaction leaves of it.  To the triggers it is all nobody.
NotesInit ==
  /\ jobNote = [n \in NoteIds |-> NoNote] /\ jobEditor = Nobody
  /\ appUser = [k \in PgConnections |-> [session |-> Nobody, local |-> Nobody]]
  /\ call = [r \in NoteCalls |-> NoCall]
  /\ shownNotes = [n \in NoteIds |-> NoNote]
  /\ editor = NoForm /\ question = NoQuestion

-----------------------------------------------------------------------------
(* The page.                                                                *)

Send(op, n, t) ==
  \E r \in NoteCalls :
    /\ call[r] = NoCall
    /\ call' = [call EXCEPT ![r] =
         [on |-> Waiting, as |-> Me, op |-> op, note |-> n, noteText |-> t]]

\* The text a form began with, as the page has it now.
TextBefore(n, texts) == IF n = New THEN NoText ELSE texts[n]

AddNote ==
  /\ editor = NoForm /\ question = NoQuestion
  /\ editor' = [note |-> New, noteText |-> NoText]
  /\ UNCHANGED <<tableOfNotes, appUser, call, shownNotes, question>>

EditNote(n) ==
  /\ editor = NoForm /\ question = NoQuestion /\ shownNotes[n] # NoNote
  /\ editor' = [note |-> n, noteText |-> shownNotes[n]]
  /\ UNCHANGED <<tableOfNotes, appUser, call, shownNotes, question>>

TypeNote(t) ==
  /\ editor # NoForm /\ question = NoQuestion
  /\ editor' = [editor EXCEPT !.noteText = t]
  /\ UNCHANGED <<tableOfNotes, appUser, call, shownNotes, question>>

CancelNote ==
  /\ editor # NoForm /\ question = NoQuestion
  /\ IF editor.noteText = TextBefore(editor.note, shownNotes)
     THEN editor' = NoForm /\ UNCHANGED question
     ELSE question' = <<"cancel", New>> /\ UNCHANGED editor
  /\ UNCHANGED <<tableOfNotes, appUser, call, shownNotes>>

\* The form is closed before there is an answer.
SaveNote ==
  /\ editor # NoForm /\ question = NoQuestion /\ editor.noteText # NoText
  /\ Send(IF editor.note = New THEN "post" ELSE "put", editor.note, editor.noteText)
  /\ editor' = NoForm
  /\ UNCHANGED <<tableOfNotes, appUser, shownNotes, question>>

AskToDelete(n) ==
  /\ editor = NoForm /\ question = NoQuestion /\ shownNotes[n] # NoNote
  /\ question' = <<"delete", n>>
  /\ UNCHANGED <<tableOfNotes, appUser, call, shownNotes, editor>>

AnswerYes ==
  /\ question # NoQuestion
  /\ IF question[1] = "cancel"
     THEN editor' = NoForm /\ UNCHANGED call
     ELSE Send("delete", question[2], NoText) /\ UNCHANGED editor
  /\ question' = NoQuestion
  /\ UNCHANGED <<tableOfNotes, appUser, shownNotes>>

AnswerNo ==
  /\ question # NoQuestion
  /\ question' = NoQuestion
  /\ UNCHANGED <<tableOfNotes, appUser, call, shownNotes, editor>>

\* Without a question.
LeaveNotes ==
  /\ editor' = NoForm /\ question' = NoQuestion
  /\ UNCHANGED <<tableOfNotes, appUser, call, shownNotes>>

\* Faulty variant: the form follows what is read.
EditorAfterReload_Synced(texts) ==
  IF editor = NoForm THEN NoForm
  ELSE IF editor.note = New THEN editor
  ELSE IF texts[editor.note] = NoNote THEN NoForm
  ELSE [editor EXCEPT !.noteText = texts[editor.note]]

\* A form keeps its text, but goes with its note.
EditorAfterReload(texts) ==
  IF editor # NoForm /\ TextBefore(editor.note, texts) = NoNote THEN NoForm ELSE editor

\* A dialog goes with its note, or with the changes it asks about.
QuestionAfterReload(texts) ==
  IF \/ question = NoQuestion
     \/ question[1] = "delete" /\ texts[question[2]] = NoNote
     \/ question[1] = "cancel" /\ TextBefore(editor.note, texts) \in {NoNote, editor.noteText}
  THEN NoQuestion ELSE question

NotesNow == [n \in NoteIds |-> IF jobNote[n] \in Note THEN jobNote[n].noteText ELSE NoNote]

ReloadNotes ==
  /\ shownNotes' = NotesNow
  /\ editor' = EditorAfterReload(NotesNow) /\ question' = QuestionAfterReload(NotesNow)
  /\ UNCHANGED <<tableOfNotes, appUser, call>>

-----------------------------------------------------------------------------
(* The app's database clients.                                              *)

IsFree(k) == \A r \in NoteCalls : call[r] # NoCall => call[r].on # k

\* Faulty variant: set_config for the session.
WithPerson_Session(setting, u) == [session |-> u, local |-> u]

\* set_config for the transaction.
WithPerson(setting, u) == [setting EXCEPT !.local = u]
AfterTransaction(setting) == [setting EXCEPT !.local = Nobody]

\* A request gets a connection: that of a user with a transaction for the user,
\* the anonymous client's as it is.
Begin(r, k, c) ==
  /\ IsFree(k)
  /\ call' = [call EXCEPT ![r] = [c EXCEPT !.on = k]]
  /\ appUser' = [appUser EXCEPT ![k] = IF c.as = Nobody THEN @ ELSE WithPerson(@, c.as)]
  /\ UNCHANGED <<tableOfNotes, pageOfNotes>>

BeginRequest(r, k) ==
  /\ call[r] # NoCall /\ call[r].on = Waiting
  /\ Begin(r, k, call[r])

\* Requests of other users, and of those who are nobody to the database.
OthersCalls ==
  LET By(writers, ops, notes, texts) ==
        [on : {Waiting}, as : writers, op : ops, note : notes, noteText : texts]
      others == Persons \ {Me}
  IN  By(others, {"post"}, {New}, NoteTexts) \cup By(others, {"put"}, NoteIds, NoteTexts) \cup
      By(others, {"delete"}, NoteIds, {NoText}) \cup By(Writers, {"job"}, {New}, {NoText})

OthersRequest(r, k, c) ==
  /\ call[r] = NoCall
  /\ Begin(r, k, c)

MayWrite(r) == call[r] # NoCall /\ call[r].on # Waiting

\* create_meta and update_meta: the setting in force.
CurrentUser(setting) == IF setting.local # Nobody THEN setting.local ELSE setting.session

EndRequest(r) ==
  /\ call' = [call EXCEPT ![r] = NoCall]
  /\ appUser' = IF call[r].on = Waiting THEN appUser
                ELSE [appUser EXCEPT ![call[r].on] = AfterTransaction(@)]
  /\ UNCHANGED pageOfNotes

CreateNote(r, n) ==
  /\ MayWrite(r) /\ call[r].op = "post" /\ call[r].noteText # NoText
  /\ jobNote[n] = NoNote /\ \A k \in NoteIds : k < n => jobNote[k] # NoNote
  /\ jobNote' = [jobNote EXCEPT ![n] =
       [noteText |-> call[r].noteText, createdBy |-> CurrentUser(appUser[call[r].on]),
        modifiedBy |-> Nobody]]
  /\ EndRequest(r) /\ UNCHANGED jobEditor

\* Faulty variant: the update's trigger keeps who created the row.
Modified_Creator(note, t, u) == [note EXCEPT !.noteText = t]

Modified(note, t, u) == [note EXCEPT !.noteText = t, !.modifiedBy = u]

UpdateNote(r) ==
  /\ MayWrite(r) /\ call[r].op = "put" /\ call[r].noteText # NoText
  /\ jobNote[call[r].note] \in Note
  /\ jobNote' = [jobNote EXCEPT ![call[r].note] =
       Modified(@, call[r].noteText, CurrentUser(appUser[call[r].on]))]
  /\ EndRequest(r) /\ UNCHANGED jobEditor

DeleteNote(r) ==
  /\ MayWrite(r) /\ call[r].op = "delete"
  /\ jobNote[call[r].note] \in Note
  /\ jobNote' = [jobNote EXCEPT ![call[r].note] = Deleted]
  /\ EndRequest(r) /\ UNCHANGED jobEditor

UpdateJob(r) ==
  /\ MayWrite(r) /\ call[r].op = "job"
  /\ jobEditor' = CurrentUser(appUser[call[r].on])
  /\ EndRequest(r) /\ UNCHANGED jobNote

\* Refused, not found, rolled back or never arrived.
FailRequest(r) ==
  /\ call[r] # NoCall
  /\ EndRequest(r) /\ UNCHANGED tableOfNotes

NotesNext ==
  \/ AddNote \/ (\E n \in NoteIds : EditNote(n) \/ AskToDelete(n))
  \/ (\E t \in NoteTexts \cup {NoText} : TypeNote(t))
  \/ CancelNote \/ SaveNote \/ AnswerYes \/ AnswerNo \/ LeaveNotes \/ ReloadNotes
  \/ \E r \in NoteCalls :
       \/ \E k \in PgConnections : BeginRequest(r, k) \/ \E c \in OthersCalls : OthersRequest(r, k, c)
       \/ \E n \in NoteIds : CreateNote(r, n)
       \/ UpdateNote(r) \/ DeleteNote(r) \/ UpdateJob(r) \/ FailRequest(r)

-----------------------------------------------------------------------------
(* A row names who wrote it, whoever used the connection before: a note's  *)
(* text is of the person its page names for it (JobNote.tsx 38-50), and    *)
(* what the executor or an API client writes is nobody's.                  *)
NamedBy(note) == IF note.modifiedBy # Nobody THEN note.modifiedBy ELSE note.createdBy

RowsNameTheirWriters ==
  [][/\ \A n \in NoteIds : jobNote'[n] # jobNote[n] /\ jobNote'[n] \in Note =>
          \E r \in NoteCalls :
            /\ call[r] # NoCall /\ call'[r] = NoCall
            /\ NamedBy(jobNote'[n]) = call[r].as /\ jobNote'[n].noteText = call[r].noteText
     /\ jobEditor' # jobEditor =>
          \E r \in NoteCalls :
            /\ call[r] # NoCall /\ call'[r] = NoCall
            /\ call[r].op = "job" /\ jobEditor' = call[r].as]_notesVars

(* What is being typed survives the notes' being read again, as long as    *)
(* its note is there (EditJobNote, JobNote.tsx 92).                        *)
TypedNotesAreKept ==
  [][shownNotes' # shownNotes /\ editor # NoForm /\ TextBefore(editor.note, shownNotes') # NoNote =>
       editor' = editor]_notesVars

=============================================================================
