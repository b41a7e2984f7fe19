------------------------------- MODULE EduPools -------------------------------
(***************************************************************************)
(* The connection pool to the EDU data warehouse of one partner, with its  *)
(* two users: the roster stream that executors read, and the partner's     *)
(* switch for cross-year matching, which can be turned on if there are     *)
(* credentials.                                                            *)
(*                                                                         *)
(* A process makes the pool for the first stream that wants it; others     *)
(* that come meanwhile wait for the same one.  Only then are the           *)
(* credentials read, and the pool keeps them.  Credentials are added,      *)
(* rotated and removed in AWS, reading them may fail, processes restart.   *)
(* The connections of a pool come and go (up to 20, closed when idle); a   *)
(* stream that gets none in time fails.                                    *)
(*                                                                         *)
(* What a stopping process does with its pool is left out: main.ts does    *)
(* not enable the shutdown hooks that would call onModuleDestroy.          *)
(***************************************************************************)
EXTENDS Naturals

CONSTANTS
  Streams,            \* requests for the roster
  MaxCreds, MaxPools, \* bounds on versions of the credentials and on pools
  NoValue

ASSUME EduConstantsOK == MaxCreds \in Nat /\ MaxPools \in Nat /\ NoValue \notin Nat

VARIABLES
  creds,     \* version of the secret in AWS, or NoValue
  newest,    \* the newest version there was; 0: none yet
  crossYear, \* the partner's crossYearMatchingEnabled
  entry,     \* the partner's entry in the map of pools
  pool,      \* the pools there have been
  stream     \* requests for the roster

eduVars == <<creds, newest, crossYear, entry, pool, stream>>

Versions == 1..MaxCreds
Pools == 1..MaxPools
Pool == [state : {"creating", "ready", "failed"}, creds : Versions \cup {NoValue}]
Answers == {"conflict", "error", "torn", "complete"}
\* rows: what the executor has received, of a roster in two parts.
Stream == [pc : {"pool", "acquire", "rows"} \cup Answers, pool : Pools \cup {NoValue},
           rows : 0..2]

EduTypeOK ==
  /\ creds \in Versions \cup {NoValue} /\ newest \in 0..MaxCreds
  /\ crossYear \in BOOLEAN
  /\ entry \in Pools \cup {NoValue}
  /\ pool \in [Pools -> Pool \cup {NoValue}]
  /\ stream \in [Streams -> Stream \cup {NoValue}]

EduInit ==
  /\ creds = NoValue /\ newest = 0
  /\ crossYear = FALSE
  /\ entry = NoValue
  /\ pool = [p \in Pools |-> NoValue]
  /\ stream = [s \in Streams |-> NoValue]

-----------------------------------------------------------------------------
(* AWS, and the process.                                                    *)

PutCreds ==
  /\ newest < MaxCreds
  /\ newest' = newest + 1 /\ creds' = newest'
  /\ UNCHANGED <<crossYear, entry, pool, stream>>

RemoveCreds ==
  /\ creds # NoValue /\ creds' = NoValue
  /\ UNCHANGED <<newest, crossYear, entry, pool, stream>>

Unanswered(s) == stream[s] # NoValue /\ stream[s].pc \in {"pool", "acquire", "rows"}

Restart ==
  /\ entry' = NoValue
  /\ pool' = [p \in Pools |-> IF pool[p] = NoValue THEN NoValue ELSE [pool[p] EXCEPT !.state = "failed"]]
  /\ stream' = [s \in Streams |->
       IF Unanswered(s) THEN [stream[s] EXCEPT !.pc = "torn"] ELSE stream[s]]
  /\ UNCHANGED <<creds, newest, crossYear>>

-----------------------------------------------------------------------------
(* The switch.  An entry counts as credentials; failing to read them as no *)
(* credentials.                                                            *)

\* Faulty variant: only a secret that is known not to exist counts as none.
CanConnect_Unknown(readable) == entry # NoValue \/ ~readable \/ creds # NoValue

CanConnect(readable) == entry # NoValue \/ (readable /\ creds # NoValue)

UpdateEduConfig(on) ==
  /\ on # crossYear
  /\ on => \E readable \in BOOLEAN : CanConnect(readable)
  /\ crossYear' = on
  /\ UNCHANGED <<creds, newest, entry, pool, stream>>

-----------------------------------------------------------------------------
(* The roster.                                                              *)

GetOrCreatePool ==
  IF entry # NoValue THEN UNCHANGED <<entry, pool>>
  ELSE \E p \in Pools :
       /\ pool[p] = NoValue /\ \A q \in Pools : q < p => pool[q] # NoValue
       /\ pool' = [pool EXCEPT ![p] = [state |-> "creating", creds |-> NoValue]]
       /\ entry' = p

NewStream(s, pc, p) ==
  stream' = [stream EXCEPT ![s] = [pc |-> pc, pool |-> p, rows |-> 0]]

StreamRoster(s) ==
  /\ stream[s] = NoValue
  /\ \/ ~crossYear /\ NewStream(s, "conflict", NoValue) /\ UNCHANGED <<entry, pool>>
     \/ crossYear /\ GetOrCreatePool /\ NewStream(s, "pool", entry')
  /\ UNCHANGED <<creds, newest, crossYear>>

CreatePool(p) ==
  /\ pool[p] # NoValue /\ pool[p].state = "creating" /\ creds # NoValue
  /\ pool' = [pool EXCEPT ![p].state = "ready", ![p].creds = creds]
  /\ UNCHANGED <<creds, newest, crossYear, entry, stream>>

\* Faulty variant: the entry of a failed pool stays.
EntryAfterFailure_Kept == entry

EntryAfterFailure == NoValue

(* No credentials, or they cannot be read or do not parse.                 *)
CreatePoolFails(p) ==
  /\ pool[p] # NoValue /\ pool[p].state = "creating"
  /\ pool' = [pool EXCEPT ![p].state = "failed"]
  /\ entry' = EntryAfterFailure
  /\ UNCHANGED <<creds, newest, crossYear, stream>>

Goes(s, pc) == stream' = [stream EXCEPT ![s].pc = pc]
StreamAt(s, pc) == stream[s] # NoValue /\ stream[s].pc = pc

AwaitPool(s) ==
  /\ StreamAt(s, "pool") /\ pool[stream[s].pool].state # "creating"
  /\ Goes(s, IF pool[stream[s].pool].state = "ready" THEN "acquire" ELSE "error")
  /\ UNCHANGED <<creds, newest, crossYear, entry, pool>>

Acquire(s) ==
  /\ StreamAt(s, "acquire")
  /\ Goes(s, "rows")
  /\ UNCHANGED <<creds, newest, crossYear, entry, pool>>

SendRows(s) ==
  /\ StreamAt(s, "rows")
  /\ stream' = [stream EXCEPT ![s].rows = @ + 1, ![s].pc = IF stream[s].rows = 1 THEN "complete" ELSE @]
  /\ UNCHANGED <<creds, newest, crossYear, entry, pool>>

\* Faulty variant: the response is ended rather than destroyed.
AnswerOfFailure_Ended(s) == IF stream[s].rows > 0 THEN "complete" ELSE "error"

AnswerOfFailure(s) == IF stream[s].rows > 0 THEN "torn" ELSE "error"

(* No connection in time, the query fails, a row cannot be written.        *)
StreamFails(s) ==
  /\ StreamAt(s, "acquire") \/ StreamAt(s, "rows")
  /\ Goes(s, AnswerOfFailure(s))
  /\ UNCHANGED <<creds, newest, crossYear, entry, pool>>

EduNext ==
  \/ PutCreds \/ RemoveCreds \/ Restart
  \/ \E on \in BOOLEAN : UpdateEduConfig(on)
  \/ \E p \in Pools : CreatePool(p) \/ CreatePoolFails(p)
  \/ \E s \in Streams :
       StreamRoster(s) \/ AwaitPool(s) \/ Acquire(s) \/ SendRows(s) \/ StreamFails(s)

-----------------------------------------------------------------------------
(* The executor takes a roster for complete only if it has all rows; a     *)
(* failed pool is forgotten, so that the next stream tries again; and the  *)
(* switch is on only for a partner who has had credentials, although a     *)
(* pool in the map counts as credentials before they have been read.       *)
RostersAreWhole == \A s \in Streams : StreamAt(s, "complete") => stream[s].rows = 2
FailedPoolsAreForgotten == entry # NoValue => pool[entry].state # "failed"
SwitchHadCredentials == crossYear => newest > 0

(* The roster stream: no half answer passes as a roster, a pool that failed *)
(* is not used again, and the switch is only set with credentials in place. *)
EduIsSound == RostersAreWhole /\ FailedPoolsAreForgotten /\ SwitchHadCredentials

=============================================================================
