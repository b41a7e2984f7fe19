------------------------------ MODULE QueryEntries ------------------------------
(***************************************************************************)
(* An entry of the browser's query cache (TanStack Query, a library), as   *)
(* far as the pages' queries use it: app.tsx sets five minutes until an    *)
(* entry is stale and no retries.  Data is the version of what the server  *)
(* read.                                                                   *)
(***************************************************************************)
EXTENDS Naturals

CONSTANTS Unread, Idle, Sent

ASSUME EntryConstantsOK ==
  Unread \notin Nat /\ Idle \notin Nat /\ Sent \notin Nat /\ Idle # Sent

\* fetch: Idle, Sent (not yet read by the server), or the version on its way.
\* overtaken: a version was on its way when the entry was invalidated, and the
\* library neither restarts that fetch nor remembers, when the version arrives,
\* that it was invalidated.
Entry(Versions) ==
  [data : Versions \cup {Unread}, stale : BOOLEAN, fetch : Versions \cup {Idle, Sent},
   mounted : BOOLEAN, overtaken : BOOLEAN]

NewEntry == [data |-> Unread, stale |-> FALSE, fetch |-> Idle, mounted |-> FALSE, overtaken |-> FALSE]

\* A fetch; the one under way is shared.
Fetching(e) ==
  IF e.fetch = Idle THEN [e EXCEPT !.fetch = Sent, !.overtaken = FALSE] ELSE e
Restarted(e) == [e EXCEPT !.fetch = Sent, !.overtaken = FALSE]

Outdated(e) == e.data = Unread \/ e.stale
Refreshed(e) == IF e.mounted /\ Outdated(e) THEN Fetching(e) ELSE e  \* also on focus
Mounted(e) == Refreshed([e EXCEPT !.mounted = TRUE])
Unmounted(e) == [e EXCEPT !.mounted = FALSE]

\* Faulty variant: the fetch under way is kept.
Invalidated_Shared(e) ==
  LET s == [e EXCEPT !.stale = TRUE, !.overtaken = @ /\ e.fetch # Idle]
  IN  IF e.mounted THEN Fetching(s) ELSE s
\* Stale; on a page fetched again, restarting the fetch under way unless that
\* is the first.
Invalidated(e) ==
  LET s == [e EXCEPT !.stale = TRUE, !.overtaken = @ \/ e.fetch \notin {Idle, Sent}]
  IN  CASE e.mounted /\ e.data # Unread -> Restarted(s)
        [] e.mounted /\ e.data = Unread -> Fetching(s)
        [] OTHER -> s

Reading(e) == e.fetch = Sent
ReadAt(e, version) == [e EXCEPT !.fetch = version]
Answering(e) == e.fetch \notin {Idle, Sent}
Arrived(e) == [e EXCEPT !.data = e.fetch, !.stale = FALSE, !.fetch = Idle]
Failed(e) == [e EXCEPT !.fetch = Idle]
Expired(e) == [e EXCEPT !.stale = TRUE]
Collectable(e) == ~e.mounted /\ e.fetch = Idle

\* What the page shows counts as up to date.
Fresh(e) == e.mounted /\ e.fetch = Idle /\ ~Outdated(e)

\* Whatever an entry may become without the program's doing: a fetch is read,
\* arrives or fails, time passes, the window gets the focus.
Moves(e, version) ==
  {f \in {ReadAt(e, version)} : Reading(e)} \cup {f \in {Arrived(e)} : Answering(e)}
    \cup {f \in {Failed(e)} : e.fetch # Idle} \cup {f \in {Expired(e)} : e.data # Unread}
    \cup {f \in {NewEntry} : Collectable(e)} \cup {Refreshed(e)}

=============================================================================
