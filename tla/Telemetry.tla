----------------------------- MODULE Telemetry -----------------------------
(***************************************************************************)
(* The delivery of usage records to the telemetry server                   *)
(* (src/src/telemetry.rs, driven by src/src/bin/investments/mod.rs).       *)
(*                                                                         *)
(* Every invocation of the program is a process with one SQLite database   *)
(* in common.  It first loads the records left by earlier invocations,     *)
(* hands them to a sender thread, runs the user's command, stores one      *)
(* record of its own, and on exit deletes what the sender managed to       *)
(* deliver before a deadline.  Nothing stops two invocations from          *)
(* overlapping (a cron job and a user), the sender thread races with the   *)
(* command, and a process may be killed or lose a database call anywhere.  *)
(*                                                                         *)
(* A process stores at most one record, so the record of process p is p.   *)
(***************************************************************************)
EXTENDS Integers, FiniteSets

CONSTANTS
  Invocation,  \* invocations of the program (each runs once)
  NoUser,      \* no user id: nothing stored, or nothing configured
  UserIds,     \* user ids that may be written in the configuration file
  Configured,  \* the telemetry.user_id in the configuration of each, or NoUser
  MaxRecords,  \* max_records: the most records a request may carry (100)
  Thresholds,  \* keys of flush_thresholds ({5, 20})
  MaxAlive     \* BOUND: invocations that overlap at one moment

ASSUME TelemetryAssumption ==
  /\ IsFiniteSet(Invocation)
  /\ MaxRecords \in Nat \ {0}
  /\ Thresholds \subseteq Nat \ {0}
  /\ NoUser \notin UserIds
  /\ UserIds \cap Invocation = {}
  /\ NoUser \notin Invocation
  /\ Configured \in [Invocation -> UserIds \cup {NoUser}]
  /\ MaxAlive \in Nat

VARIABLES
  table,     \* the telemetry table: a set of rows [id, payload]
  sequence,  \* the last id given out (AUTOINCREMENT)
  stored,    \* the user id in the settings table, or NoUser
  phase,     \* where each process is
  snapshot,  \* the rows its load() has selected
  result,    \* the sender's Option<Option<i64>>, "none" without a sender
  request,   \* the request on the wire: "idle", "sent" or "accepted"
  sentAs,    \* the user id its request carries
  patient,   \* whether the deadline leaves the sender extra time
  received,  \* history: records the server has stored
  dropped,   \* history: records deleted because there were too many
  calm       \* history: nothing failed so far, no invocations overlapped

tvars == <<table, sequence, stored, phase, snapshot, result, request, sentAs,
         patient, received, dropped, calm>>

Row == [id : Nat \ {0}, payload : Invocation]

Alive == {p \in Invocation : phase[p] \notin {"start", "done"}}

-----------------------------------------------------------------------------
(* What load() keeps of the rows it selected: the newest MaxRecords.        *)

NewerIn(rows, row) == {r \in rows : r.id > row.id}

(* Fault: off by one, a record less is kept. *)
ExcessKeepsLess(rows) ==
  {r \in rows : Cardinality(NewerIn(rows, r)) >= MaxRecords - 1}

Excess(rows) == {r \in rows : Cardinality(NewerIn(rows, r)) >= MaxRecords}

Batch(p) == snapshot[p] \ Excess(snapshot[p])

Payloads(rows) == {r.payload : r \in rows}

(* delete(last_record_id): every row up to the newest of rows.              *)
DeleteUpTo(rows) == {r \in table : \A s \in rows : r.id > s.id}

(* Fault: a plain INTEGER PRIMARY KEY reuses the id of a deleted last row. *)
NextIdReused ==
  CHOOSE n \in 1 .. sequence + 1 :
    /\ \A r \in table : r.id < n
    /\ n > 1 => \E r \in table : r.id = n - 1

(* AUTOINCREMENT never gives out an id twice, even when its row is gone.    *)
NextId == sequence + 1

(* Fault: extra time above a threshold, not at its multiples. *)
ExtraTimeAbove(n) == \E t \in Thresholds : n > t

(* The deadline is extended when the number of records is a multiple of     *)
(* one of the thresholds.                                                   *)
ExtraTime(n) == \E t \in Thresholds : n % t = 0

(* Fault: the stored id is not consulted. *)
ChosenUserForgotten(p) == IF Configured[p] # NoUser THEN Configured[p] ELSE p

(* user_id(): the stored id, unless another one is configured; the one used *)
(* is stored.  A generated UUID is as unique as the process.                *)
ChosenUser(p) ==
  IF Configured[p] # NoUser THEN Configured[p]
  ELSE IF stored # NoUser THEN stored ELSE p

-----------------------------------------------------------------------------
TelemetryInit ==
  /\ table = {}
  /\ sequence = 0
  /\ stored = NoUser
  /\ phase = [p \in Invocation |-> "start"]
  /\ snapshot = [p \in Invocation |-> {}]
  /\ result = [p \in Invocation |-> "none"]
  /\ request = [p \in Invocation |-> "idle"]
  /\ sentAs = [p \in Invocation |-> NoUser]
  /\ patient = [p \in Invocation |-> FALSE]
  /\ received = {}
  /\ dropped = {}
  /\ calm = TRUE

(* Telemetry::new: load() selects the rows, one statement of its own.       *)
Load(p) ==
  /\ phase[p] = "start"
  /\ Cardinality(Alive) < MaxAlive
  /\ snapshot' = [snapshot EXCEPT ![p] = table]
  /\ phase' = [phase EXCEPT ![p] = "loaded"]
  /\ calm' = (calm /\ Alive = {})
  /\ UNCHANGED <<table, sequence, stored, result, request, sentAs, patient,
                 received, dropped>>

(* load() deletes the oldest rows above max_records.                        *)
Trim(p) ==
  /\ phase[p] = "loaded"
  /\ LET excess == Excess(snapshot[p])
     IN  /\ table' = IF excess = {} THEN table ELSE DeleteUpTo(excess)
         /\ dropped' = dropped \cup (Payloads(table \ table') \ received)
  /\ phase' = [phase EXCEPT ![p] = "trimmed"]
  /\ UNCHANGED <<sequence, stored, snapshot, result, request, sentAs, patient,
                 received, calm>>

(* Without records there is nothing to send: no user id, no sender.         *)
StartWithoutSender(p) ==
  /\ phase[p] = "trimmed"
  /\ Batch(p) = {}
  /\ phase' = [phase EXCEPT ![p] = "running"]
  /\ UNCHANGED <<table, sequence, stored, snapshot, result, request, sentAs,
                 patient, received, dropped, calm>>

(* user_id() in one transaction, then the sender thread is spawned.         *)
StartSender(p) ==
  /\ phase[p] = "trimmed"
  /\ Batch(p) # {}
  /\ stored' = ChosenUser(p)
  /\ sentAs' = [sentAs EXCEPT ![p] = ChosenUser(p)]
  /\ patient' = [patient EXCEPT ![p] = ExtraTime(Cardinality(Batch(p)))]
  /\ result' = [result EXCEPT ![p] = "pending"]
  /\ phase' = [phase EXCEPT ![p] = "running"]
  /\ UNCHANGED <<table, sequence, snapshot, request, received, dropped, calm>>

(* The command succeeds and its record is stored.                           *)
Add(p) ==
  /\ phase[p] = "running"
  /\ sequence' = NextId
  /\ table' = table \cup {[id |-> NextId, payload |-> p]}
  /\ phase' = [phase EXCEPT ![p] = "closing"]
  /\ UNCHANGED <<stored, snapshot, result, request, sentAs, patient, received,
                 dropped, calm>>

(* The command or the insert fails: run() returns early, but Telemetry is   *)
(* dropped, hence closed, all the same.                                     *)
CommandFails(p) ==
  /\ phase[p] = "running"
  /\ phase' = [phase EXCEPT ![p] = "closing"]
  /\ UNCHANGED <<table, sequence, stored, snapshot, result, request, sentAs,
                 patient, received, dropped, calm>>

-----------------------------------------------------------------------------
(* The sender thread.  It lives as long as its process.                     *)

Post(p) ==
  /\ p \in Alive
  /\ result[p] = "pending"
  /\ request[p] = "idle"
  /\ request' = [request EXCEPT ![p] = "sent"]
  /\ UNCHANGED <<table, sequence, stored, phase, snapshot, result, sentAs,
                 patient, received, dropped, calm>>

(* The server's side; the request may arrive after the process has ended.   *)
ServerAccepts(p) ==
  /\ request[p] = "sent"
  /\ request' = [request EXCEPT ![p] = "accepted"]
  /\ received' = received \cup Payloads(Batch(p))
  /\ UNCHANGED <<table, sequence, stored, phase, snapshot, result, sentAs,
                 patient, dropped, calm>>

SendSucceeds(p) ==
  /\ p \in Alive
  /\ result[p] = "pending"
  /\ request[p] = "accepted"
  /\ result' = [result EXCEPT ![p] = "delivered"]
  /\ UNCHANGED <<table, sequence, stored, phase, snapshot, request, sentAs,
                 patient, received, dropped, calm>>

(* No connection, an error status, or an answer lost after the request was  *)
(* accepted.                                                                *)
SendFails(p) ==
  /\ p \in Alive
  /\ result[p] = "pending"
  /\ request[p] # "idle"
  /\ result' = [result EXCEPT ![p] = "failed"]
  /\ calm' = FALSE
  /\ UNCHANGED <<table, sequence, stored, phase, snapshot, request, sentAs,
                 patient, received, dropped>>

-----------------------------------------------------------------------------
(* Drop: close_impl() waits for the sender until the deadline.              *)

(* Nothing was sent, the send has failed, or it is still pending at the     *)
(* deadline: no row is deleted.                                             *)
CloseEmptyHanded(p) ==
  /\ phase[p] = "closing"
  /\ result[p] \in {"none", "failed"}
  /\ phase' = [phase EXCEPT ![p] = "done"]
  /\ UNCHANGED <<table, sequence, stored, snapshot, result, request, sentAs,
                 patient, received, dropped, calm>>

(* Fault: the thread is joined, the deadline only ends a silent connection. *)
TimeoutJoining(p) ==
  /\ phase[p] = "closing"
  /\ result[p] = "pending"
  /\ request[p] = "idle"
  /\ phase' = [phase EXCEPT ![p] = "done"]
  /\ calm' = (calm /\ ~patient[p])
  /\ UNCHANGED <<table, sequence, stored, snapshot, result, request, sentAs,
                 patient, received, dropped>>

(* The deadline is now unless the sender was given extra time, which may    *)
(* have run out as well.                                                    *)
Timeout(p) ==
  /\ phase[p] = "closing"
  /\ result[p] = "pending"
  /\ phase' = [phase EXCEPT ![p] = "done"]
  /\ calm' = (calm /\ ~patient[p])
  /\ UNCHANGED <<table, sequence, stored, snapshot, result, request, sentAs,
                 patient, received, dropped>>

CloseDelivered(p) ==
  /\ phase[p] = "closing"
  /\ result[p] = "delivered"
  /\ table' = DeleteUpTo(Batch(p))
  /\ phase' = [phase EXCEPT ![p] = "done"]
  /\ UNCHANGED <<sequence, stored, snapshot, result, request, sentAs, patient,
                 received, dropped, calm>>

(* The process is killed, panics, or fails on a database call: "database is *)
(* locked" is an ordinary outcome when invocations overlap.  A failure of   *)
(* load() or of the last delete ends it in the same way.                    *)
Kill(p) ==
  /\ p \in Alive
  /\ phase' = [phase EXCEPT ![p] = "done"]
  /\ calm' = FALSE
  /\ UNCHANGED <<table, sequence, stored, snapshot, result, request, sentAs,
                 patient, received, dropped>>

Terminated ==
  /\ \A p \in Invocation : phase[p] = "done"
  /\ UNCHANGED tvars

Command(p) ==
  \/ Load(p) \/ Trim(p) \/ StartWithoutSender(p) \/ StartSender(p)
  \/ Add(p) \/ CommandFails(p)
  \/ CloseEmptyHanded(p) \/ Timeout(p) \/ CloseDelivered(p)

Sender(p) == Post(p) \/ SendSucceeds(p) \/ SendFails(p)

TelemetryNext ==
  \/ \E p \in Invocation :
       Command(p) \/ Sender(p) \/ ServerAccepts(p) \/ Kill(p)
  \/ Terminated

TelemetrySpec == TelemetryInit /\ [][TelemetryNext]_tvars

(* The operating system schedules the main thread; nothing is assumed of    *)
(* the sender thread, the network or the server.                            *)
Fairness == \A p \in Invocation : WF_tvars(Command(p))

LiveSpec == TelemetrySpec /\ Fairness

-----------------------------------------------------------------------------
(* Types of the variables.                                                  *)
TelemetryTypeOK ==
  /\ table \subseteq Row
  /\ sequence \in Nat
  /\ stored \in UserIds \cup Invocation \cup {NoUser}
  /\ phase \in [Invocation ->
                {"start", "loaded", "trimmed", "running", "closing", "done"}]
  /\ snapshot \in [Invocation -> SUBSET Row]
  /\ result \in [Invocation -> {"none", "pending", "delivered", "failed"}]
  /\ request \in [Invocation -> {"idle", "sent", "accepted"}]
  /\ sentAs \in [Invocation -> UserIds \cup Invocation \cup {NoUser}]
  /\ patient \in [Invocation -> BOOLEAN]
  /\ received \subseteq Invocation
  /\ dropped \subseteq Invocation
  /\ calm \in BOOLEAN

(* A record leaves the database only once the server has it or because      *)
(* there were too many: whatever invocations overlap, requests fail or      *)
(* processes die (close_impl and load delete by id, and another invocation  *)
(* may have added rows or emptied the table in between).                    *)
NoRecordLost ==
  [][\A r \in table \ table' : r.payload \in received' \cup dropped']_tvars

(* A record is given up unsent only when the max_records newer ones have    *)
(* been stored after it (load drops the oldest records, the documented      *)
(* limit), however stale the list of rows is that load computed it from.    *)
DropsOnlyExcess ==
  [][\A r \in table \ table' :
       r.payload \in dropped' \ dropped => sequence >= r.id + MaxRecords]_tvars

(* When nothing fails and invocations follow one another, the flush         *)
(* thresholds keep what is left between them from growing beyond the        *)
(* smallest threshold.                                                      *)
BacklogFlushed ==
  calm /\ Alive = {} =>
    \A t \in Thresholds : (MaxRecords >= t) => Cardinality(table) <= t

(* An installation whose configuration names no user reports under a single *)
(* id as long as no configured one has been used (user_id reads and stores  *)
(* it in one transaction).                                                  *)
OneAnonymousUser ==
  \A p, q \in Invocation :
    (/\ sentAs[p] # NoUser /\ sentAs[q] # NoUser
     /\ \A r \in Invocation : sentAs[r] # NoUser => Configured[r] = NoUser)
    => sentAs[p] = sentAs[q]

(* "We mustn't delay program execution or shutdown because of telemetry     *)
(* server or network unavailability": a started invocation ends, although   *)
(* nothing is assumed of the server, the network or the sender thread.      *)
EveryCommandEnds ==
  \A p \in Invocation : (phase[p] = "loaded") ~> (phase[p] = "done")

=============================================================================
