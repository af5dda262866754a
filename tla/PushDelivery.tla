---------------------------- MODULE PushDelivery ----------------------------
(***************************************************************************)
(* Delivery of push notifications: the two goroutines of push.Worker       *)
(* (listenPGNotify and cleanupTicker), the admin handlers Send and         *)
(* Schedule, the registration and removal of device tokens, the insert     *)
(* trigger that raises pg_notify, and Expo's push API.                     *)
(*                                                                         *)
(* A step is one SQL statement (each is its own transaction: nothing in    *)
(* this subsystem opens one) or one HTTP exchange with Expo, so that every *)
(* interleaving of the goroutines and requests between statements is a     *)
(* behaviour.                                                              *)
(***************************************************************************)
EXTENDS Naturals, FiniteSets

CONSTANTS
  Jobs,       \* identifiers of push_notifications rows
  NoJob,      \* "no job at hand"
  Tokens,     \* device tokens
  Requests,   \* concurrent admin Send requests
  BatchSize,  \* LIMIT of the worker's query
  ChunkSize,  \* messages per POST to Expo
  MaxTime,    \* bound: the clock runs from 0 to MaxTime
  Faults      \* the faults that may happen: a subset of FaultKinds

FaultKinds == {"crash", "db", "conn", "expo", "cancel"}

Listener == "listener"     \* goroutine listenPGNotify
Ticker   == "ticker"       \* goroutine cleanupTicker
Workers  == {Listener, Ticker}
Procs    == Workers \union Requests

ASSUME PushAssumption ==
  /\ NoJob \notin Jobs
  /\ IsFiniteSet(Tokens)
  /\ Requests \cap Workers = {}
  /\ BatchSize \in Nat \ {0}
  /\ ChunkSize \in Nat \ {0}
  /\ MaxTime \in Nat
  /\ Faults \subseteq FaultKinds

VARIABLES
  \* Tables push_notifications and push_tokens.
  status,       \* "none" while the row does not exist
  scheduledAt,  \* scheduled_at (0 for Send's rows, which have none)
  recipients,   \* recipient_count
  tokenRow,     \* "absent", "active" or "inactive"
  locked,       \* rows a goroutine's SELECT .. FOR UPDATE still holds
  \* The listener's dedicated connection.
  conn,         \* "starting" until LISTEN, then "listening", or "lost"
  notify,       \* payloads raised and not yet received
  \* Goroutines and requests.
  batch,        \* jobs a goroutine has read and not yet taken up
  task,         \* the sendOne or Send each of them is in
  now,          \* the clock
  \* History: what happened, read by no action.
  origin,       \* "none", "direct" (Send) or "scheduled" (Schedule)
  deliveries,   \* deliveries[p][j][t]: p's messages about j accepted for t
  reported      \* tokens Expo has answered DeviceNotRegistered for

rowVars   == <<status, scheduledAt, recipients, origin>>
workVars  == <<locked, batch, task>>
connVars  == <<conn, notify>>
vars == <<status, scheduledAt, recipients, tokenRow, locked, conn, notify,
          batch, task, now, origin, deliveries, reported>>

-----------------------------------------------------------------------------
(* Types.                                                                  *)

StoredStatus == {"scheduled", "sending", "sent", "failed"}
Settled      == {"sent", "failed"}
Stages       == {"loop", "drain", "resolve", "send", "record", "fail", "deactivate"}

Task == [at : Stages,            \* the next statement
         job : Jobs \union {NoJob},
         pending : SUBSET Tokens,   \* resolved, not yet posted
         accepted : SUBSET Tokens,  \* result.Sent
         bad : SUBSET Tokens]       \* result.TokenErrors

Idle == [at |-> "loop", job |-> NoJob, pending |-> {}, accepted |-> {}, bad |-> {}]

TypeOK ==
  /\ status \in [Jobs -> StoredStatus \union {"none"}]
  /\ scheduledAt \in [Jobs -> 0..MaxTime]
  /\ recipients \in [Jobs -> Nat]
  /\ tokenRow \in [Tokens -> {"absent", "active", "inactive"}]
  /\ locked \in [Workers -> SUBSET Jobs]
  /\ conn \in {"starting", "listening", "lost"}
  /\ notify \in SUBSET Jobs
  /\ batch \in [Workers -> SUBSET Jobs]
  /\ task \in [Procs -> Task]
  /\ now \in 0..MaxTime
  /\ origin \in [Jobs -> {"none", "direct", "scheduled"}]
  /\ deliveries \in [Procs -> [Jobs -> [Tokens -> Nat]]]
  /\ reported \in SUBSET Tokens

Init ==
  /\ status = [j \in Jobs |-> "none"]
  /\ scheduledAt = [j \in Jobs |-> 0]
  /\ recipients = [j \in Jobs |-> 0]
  /\ tokenRow = [t \in Tokens |-> "absent"]
  /\ locked = [w \in Workers |-> {}]
  /\ conn = "starting"
  /\ notify = {}
  /\ batch = [w \in Workers |-> {}]
  /\ task = [p \in Procs |-> Idle]
  /\ now = 0
  /\ origin = [j \in Jobs |-> "none"]
  /\ deliveries = [p \in Procs |-> [j \in Jobs |-> [t \in Tokens |-> 0]]]
  /\ reported = {}

-----------------------------------------------------------------------------
(* Helpers.                                                                *)

\* The trigger on push_notifications raises push_scheduled on every insert;
\* only a connection that is listening receives it.
Raise(j) == IF conn = "listening" THEN notify \union {j} ELSE notify

\* A job just claimed, by the worker's UPDATE or by Send's INSERT.
Claimed(j) == [Idle EXCEPT !.at = "resolve", !.job = j]

\* A task that moves on to statement s.
GoTo(p, s) == [task EXCEPT ![p].at = s]

\* The caller's goroutine or request is done with its job.
Leave(p) == [task EXCEPT ![p] = Idle]

\* Mutant: the query forgets scheduled_at <= now().
EligibleAnyTime(w) ==
  {j \in Jobs : status[j] = "scheduled" /\ \A v \in Workers \ {w} : j \notin locked[v]}

\* Mutant: the query also picks up rows left in 'sending', Send's included.
EligibleResumes(w) ==
  {j \in Jobs : /\ status[j] \in {"scheduled", "sending"}
                /\ scheduledAt[j] <= now
                /\ \A v \in Workers \ {w} : j \notin locked[v]}

\* Rows the worker's query may return: due, still scheduled, not locked.
Eligible(w) ==
  {j \in Jobs : /\ status[j] = "scheduled"
                /\ scheduledAt[j] <= now
                /\ \A v \in Workers \ {w} : j \notin locked[v]}

\* ORDER BY scheduled_at LIMIT BatchSize (ties in any order).
FirstOf(E) ==
  {S \in SUBSET E :
     /\ Cardinality(S) = IF Cardinality(E) < BatchSize THEN Cardinality(E) ELSE BatchSize
     /\ \A j \in S, k \in E \ S : scheduledAt[j] <= scheduledAt[k]}

\* chunkMessages: the next ChunkSize messages, the last chunk may be shorter.
NextChunks(P) ==
  {C \in SUBSET P : \/ Cardinality(C) = ChunkSize
                    \/ C = P /\ Cardinality(C) < ChunkSize}

\* The rows a reading loop sees: neither loop looks at rows.Err, so rows that
\* break off midway pass for all of them.
Read(rows) == IF "db" \in Faults THEN SUBSET rows ELSE {rows}

ActiveTokens == {t \in Tokens : tokenRow[t] = "active"}

-----------------------------------------------------------------------------
(* Administrators and devices.                                             *)

\* PushHandler.Schedule: one INSERT, whatever the requested time.
Schedule(j, at) ==
  /\ status[j] = "none"
  /\ status' = [status EXCEPT ![j] = "scheduled"]
  /\ scheduledAt' = [scheduledAt EXCEPT ![j] = at]
  /\ origin' = [origin EXCEPT ![j] = "scheduled"]
  /\ notify' = Raise(j)
  /\ UNCHANGED <<recipients, tokenRow, conn, workVars, now, deliveries, reported>>

\* PushHandler.Send up to its INSERT: the row starts as 'sending'.
SendInsert(r, j) ==
  /\ task[r].at = "loop"
  /\ status[j] = "none"
  /\ status' = [status EXCEPT ![j] = "sending"]
  /\ origin' = [origin EXCEPT ![j] = "direct"]
  /\ notify' = Raise(j)
  /\ task' = [task EXCEPT ![r] = Claimed(j)]
  /\ UNCHANGED <<scheduledAt, recipients, tokenRow, conn, locked, batch, now,
                 deliveries, reported>>

\* PushRegisterHandler.Register: insert, or reactivate the row there is.
Register(t) ==
  /\ tokenRow' = [tokenRow EXCEPT ![t] = "active"]
  /\ UNCHANGED <<rowVars, workVars, connVars, now, deliveries, reported>>

\* AccountHandler.Delete removes the user's push_tokens.
RemoveToken(t) ==
  /\ tokenRow[t] # "absent"
  /\ tokenRow' = [tokenRow EXCEPT ![t] = "absent"]
  /\ UNCHANGED <<rowVars, workVars, connVars, now, deliveries, reported>>

-----------------------------------------------------------------------------
(* push.Worker: waking up and reading the due jobs.                        *)

\* listenPGNotify acquires its connection and executes LISTEN.
Listen ==
  /\ conn = "starting"
  /\ conn' = "listening"
  /\ UNCHANGED <<rowVars, tokenRow, workVars, notify, now, deliveries, reported>>

\* The connection cannot be acquired, or dies later: the goroutine returns,
\* or retries WaitForNotification on the dead connection for ever.
LoseConnection ==
  /\ "conn" \in Faults
  /\ conn # "lost"
  /\ conn' = "lost"
  /\ notify' = {}
  /\ UNCHANGED <<rowVars, tokenRow, workVars, now, deliveries, reported>>

\* processScheduled's SELECT .. FOR UPDATE SKIP LOCKED.  The row locks last
\* until the rows have been read: the statement is its own transaction.
Query(w) ==
  /\ task[w].at = "loop"
  /\ batch[w] = {}
  /\ \E S \in FirstOf(Eligible(w)) : \E R \in Read(S) :
       /\ batch' = [batch EXCEPT ![w] = R]
       /\ locked' = [locked EXCEPT ![w] = S]
       /\ task' = GoTo(w, IF S = {} THEN "loop" ELSE "drain")
  /\ UNCHANGED <<rowVars, tokenRow, conn, now, deliveries, reported>>

\* The SELECT fails: processScheduled returns.
QueryFails(w) ==
  /\ "db" \in Faults
  /\ task[w].at = "loop"
  /\ batch[w] = {}
  /\ UNCHANGED <<rowVars, tokenRow, conn, workVars, now, deliveries, reported>>

\* A notification, whatever its payload, makes the listener query once.
Notified ==
  /\ conn = "listening"
  /\ \E j \in notify : notify' = notify \ {j}
  /\ Query(Listener) \/ QueryFails(Listener)

\* Mutant: cleanupTicker is not started; only notifications wake the worker.
TickedNever == FALSE /\ UNCHANGED vars

\* Every five minutes the ticker queries.
Ticked == UNCHANGED notify /\ (Query(Ticker) \/ QueryFails(Ticker))

\* The rows are read and closed, which ends the transaction of the SELECT.
Drain(w) ==
  /\ task[w].at = "drain"
  /\ locked' = [locked EXCEPT ![w] = {}]
  /\ task' = GoTo(w, "loop")
  /\ UNCHANGED <<rowVars, tokenRow, connVars, batch, now, deliveries, reported>>

-----------------------------------------------------------------------------
(* sendOne and Send: one job, from its claim to its result.                *)

\* The job the worker's loop comes to next.
NextInBatch(w, j) ==
  /\ task[w].at = "loop"
  /\ j \in batch[w]
  /\ \A k \in batch[w] : scheduledAt[j] <= scheduledAt[k]
  \* An UPDATE waits for the row lock of the other goroutine's SELECT.
  /\ \A v \in Workers \ {w} : j \notin locked[v]

\* Mutant: the row is left 'scheduled' until its result is known.
MarkSendingLate(w, j) ==
  /\ NextInBatch(w, j)
  /\ batch' = [batch EXCEPT ![w] = @ \ {j}]
  /\ task' = [task EXCEPT ![w] = Claimed(j)]
  /\ UNCHANGED <<rowVars, tokenRow, connVars, locked, now, deliveries, reported>>

\* UPDATE .. SET status = 'sending' WHERE id = j, whatever the status is now.
MarkSending(w, j) ==
  /\ NextInBatch(w, j)
  /\ batch' = [batch EXCEPT ![w] = @ \ {j}]
  /\ status' = [status EXCEPT ![j] = "sending"]
  /\ task' = [task EXCEPT ![w] = Claimed(j)]
  /\ UNCHANGED <<scheduledAt, recipients, origin, tokenRow, connVars, locked, now,
                 deliveries, reported>>

\* The UPDATE reports an error, executed or not: sendOne returns.
MarkSendingFails(w, j) ==
  /\ "db" \in Faults
  /\ NextInBatch(w, j)
  /\ batch' = [batch EXCEPT ![w] = @ \ {j}]
  /\ \/ UNCHANGED status
     \/ status' = [status EXCEPT ![j] = "sending"]
  /\ UNCHANGED <<scheduledAt, recipients, origin, tokenRow, connVars, locked, task, now,
                 deliveries, reported>>

\* ResolveActiveTokens.  No token means no message: the job is recorded next.
Resolve(p) ==
  /\ task[p].at = "resolve"
  /\ \E R \in Read(ActiveTokens) :
       task' = [task EXCEPT ![p] =
         [task[p] EXCEPT !.pending = R, !.at = IF R = {} THEN "record" ELSE "send"]]
  /\ UNCHANGED <<rowVars, tokenRow, connVars, locked, batch, now, deliveries, reported>>

\* The lookup fails at once: the worker goes on as if there were no tokens, Send
\* marks the notification failed.
ResolveFails(p) ==
  /\ "db" \in Faults
  /\ task[p].at = "resolve"
  /\ task' = GoTo(p, IF p \in Workers THEN "record" ELSE "fail")
  /\ UNCHANGED <<rowVars, tokenRow, connVars, locked, batch, now, deliveries, reported>>

\* Expo takes the messages of p's job for the tokens C.
HandOver(p, C) ==
  deliveries' = [deliveries EXCEPT ![p][task[p].job] =
                   [t \in Tokens |-> IF t \in C THEN @[t] + 1 ELSE @[t]]]

\* The loop over a response's tickets: ok counts, gone is what Expo reports
\* as DeviceNotRegistered and noted what the client takes for it.
Answered(p, C, ok, gone, noted) ==
  /\ HandOver(p, ok)
  /\ reported' = reported \union gone
  /\ task' = [task EXCEPT ![p] =
       [at       |-> IF task[p].pending = C THEN "record" ELSE "send",
        job      |-> task[p].job,
        pending  |-> task[p].pending \ C,
        accepted |-> task[p].accepted \union ok,
        bad      |-> task[p].bad \union noted]]

\* Mutant: every token not taken counts as gone (message not compared).
PostChunkAnyErrorIsGone(p) ==
  /\ task[p].at = "send"
  /\ \E C \in NextChunks(task[p].pending) : \E ok \in SUBSET C : \E gone \in SUBSET (C \ ok) :
       Answered(p, C, ok, gone, C \ ok)
  /\ UNCHANGED <<rowVars, tokenRow, connVars, locked, batch, now>>

\* One POST of SendMessages, answered: Expo takes ok, reports gone as
\* DeviceNotRegistered and refuses the rest of the chunk for other reasons.
PostChunk(p) ==
  /\ task[p].at = "send"
  /\ \E C \in NextChunks(task[p].pending) : \E ok \in SUBSET C : \E gone \in SUBSET (C \ ok) :
       Answered(p, C, ok, gone, gone)
  /\ UNCHANGED <<rowVars, tokenRow, connVars, locked, batch, now>>

\* A POST without a usable answer, taken by Expo in part or not at all: the
\* whole of SendMessages fails and what earlier chunks reported is dropped.
PostFails(p) ==
  /\ "expo" \in Faults
  /\ task[p].at = "send"
  /\ \E C \in NextChunks(task[p].pending) : \E ok \in SUBSET C : HandOver(p, ok)
  /\ task' = GoTo(p, "fail")
  /\ UNCHANGED <<rowVars, tokenRow, connVars, locked, batch, now, reported>>

\* The UPDATE that ends a job; its error is ignored, by the handler too.
\* Only the worker looks at the tokens that were reported gone.
Conclude(p, s, count, more) ==
  /\ \/ /\ status' = [status EXCEPT ![task[p].job] = s]
        /\ recipients' = [recipients EXCEPT ![task[p].job] = count]
     \/ "db" \in Faults /\ UNCHANGED <<status, recipients>>
  /\ task' = IF more THEN GoTo(p, "deactivate") ELSE Leave(p)
  /\ UNCHANGED <<scheduledAt, origin, tokenRow, connVars, locked, batch, now,
                 deliveries, reported>>

\* Mutant: recipient_count is the number of tokens resolved, not taken.
RecordSentAsResolved(p) ==
  /\ task[p].at = "record"
  /\ Conclude(p, "sent", Cardinality(task[p].accepted \union task[p].bad),
              p \in Workers /\ task[p].bad # {})

\* Mutant: the reported tokens are forgotten, as in PushHandler.Send.
RecordSentOnly(p) ==
  /\ task[p].at = "record"
  /\ Conclude(p, "sent", Cardinality(task[p].accepted), FALSE)

\* UPDATE .. SET status = 'sent', recipient_count = result.Sent.
RecordSent(p) ==
  /\ task[p].at = "record"
  /\ Conclude(p, "sent", Cardinality(task[p].accepted), p \in Workers /\ task[p].bad # {})

\* Mutant: a failed notification is put back for another attempt.
RecordFailedRetries(p) ==
  /\ task[p].at = "fail"
  /\ Conclude(p, "scheduled", recipients[task[p].job], FALSE)

\* Mutant: a status the table's CHECK does not know.
RecordFailedAsError(p) ==
  /\ task[p].at = "fail"
  /\ Conclude(p, "error", recipients[task[p].job], FALSE)

\* UPDATE .. SET status = 'failed'.
RecordFailed(p) ==
  /\ task[p].at = "fail"
  /\ Conclude(p, "failed", recipients[task[p].job], FALSE)

\* UPDATE push_tokens SET is_active = false, token by token; an error is
\* logged and the loop goes on.
Deactivate(w) ==
  /\ task[w].at = "deactivate"
  /\ \E t \in task[w].bad :
       /\ \/ tokenRow' = [tokenRow EXCEPT ![t] = IF @ = "absent" THEN @ ELSE "inactive"]
          \/ "db" \in Faults /\ UNCHANGED tokenRow
       /\ task' = IF task[w].bad = {t} THEN Leave(w)
                  ELSE [task EXCEPT ![w].bad = task[w].bad \ {t}]
  /\ UNCHANGED <<rowVars, connVars, locked, batch, now, deliveries, reported>>

-----------------------------------------------------------------------------
(* The environment.                                                        *)

\* Send's request context ends (60 s timeout, client gone): every later
\* statement of the handler fails, the one that would record 'failed' too.
Cancel(r) ==
  /\ "cancel" \in Faults
  /\ task[r].at # "loop"
  /\ task' = Leave(r)
  /\ UNCHANGED <<rowVars, tokenRow, connVars, locked, batch, now, deliveries, reported>>

\* The process dies or is stopped at any point and starts again.
Crash ==
  /\ "crash" \in Faults
  /\ locked' = [w \in Workers |-> {}]
  /\ conn' = "starting"
  /\ notify' = {}
  /\ batch' = [w \in Workers |-> {}]
  /\ task' = [p \in Procs |-> Idle]
  /\ UNCHANGED <<rowVars, tokenRow, now, deliveries, reported>>

Tick ==
  /\ now < MaxTime
  /\ now' = now + 1
  /\ UNCHANGED <<rowVars, tokenRow, connVars, workVars, deliveries, reported>>

-----------------------------------------------------------------------------
Environment ==
  \/ \E j \in Jobs, at \in 0..MaxTime : Schedule(j, at)
  \/ \E r \in Requests, j \in Jobs : SendInsert(r, j)
  \/ \E t \in Tokens : Register(t)
  \/ \E t \in Tokens : RemoveToken(t)
  \/ LoseConnection
  \/ \E r \in Requests : Cancel(r)
  \/ Crash

\* sendOne and Send after the claim.
Deliver(p) ==
  \/ Resolve(p)
  \/ ResolveFails(p)
  \/ PostChunk(p)
  \/ PostFails(p)
  \/ RecordSent(p)
  \/ RecordFailed(p)

WorkerStep(w) ==
  \/ Drain(w)
  \/ \E j \in Jobs : MarkSending(w, j) \/ MarkSendingFails(w, j)
  \/ Deactivate(w)
  \/ Deliver(w)

Next ==
  \/ Environment
  \/ Listen
  \/ Notified
  \/ Ticked
  \/ \E w \in Workers : WorkerStep(w)
  \/ \E r \in Requests : Deliver(r)
  \/ Tick

Spec == Init /\ [][Next]_vars

\* The runtime runs every goroutine whose statement can proceed, the ticker
\* goes on firing, and time passes.  Nothing is assumed of administrators,
\* devices, requests or notifications.
Fairness ==
  /\ WF_vars(Tick)
  /\ WF_vars(Ticked)
  /\ \A w \in Workers : WF_vars(WorkerStep(w))

FairSpec == Spec /\ Fairness

-----------------------------------------------------------------------------
(* Properties.                                                             *)

\* A scheduled notification (worker.go:86-92) never reaches a device before
\* its time, although the insert trigger wakes the worker at once.
NotBeforeDue ==
  \A w \in Workers, j \in Jobs, t \in Tokens :
    deliveries[w][j][t] > 0 => scheduledAt[j] <= now

\* One goroutine, or one Send request, hands a notification to a device at
\* most once, across failures, lost answers and restarts: sendOne marks the
\* row before it posts (worker.go:115) and no statement unmarks it.
AtMostOncePerSender ==
  \A p \in Procs, j \in Jobs, t \in Tokens : deliveries[p][j][t] <= 1

\* Whatever fails, a notification of which a message left the server is not
\* up for another poll (worker.go:89, 115).
DeliveredIsNeverPolled ==
  \A p \in Procs, j \in Jobs, t \in Tokens :
    deliveries[p][j][t] > 0 => status[j] \notin {"none", "scheduled"}

\* A notification that an administrator sends directly wakes the worker too
\* (the trigger fires on every insert), but only the request delivers it.
DirectSendStaysWithItsRequest ==
  \A w \in Workers, j \in Jobs, t \in Tokens :
    deliveries[w][j][t] > 0 => origin[j] = "scheduled"

\* recipient_count, written by whoever finishes last, never exceeds the
\* number of devices that were handed the notification (worker.go:151-153).
Reached(j) == {t \in Tokens : \E p \in Procs : deliveries[p][j][t] > 0}
CountIsHonest == \A j \in Jobs : recipients[j] <= Cardinality(Reached(j))

\* Only a token that Expo reported as DeviceNotRegistered is ever switched
\* off (worker.go:156-158, push.go:104): not one refused for other reasons,
\* nor one whose chunk failed.
OnlyReportedTokensAreOff ==
  \A t \in Tokens : tokenRow[t] = "inactive" => t \in reported

\* The worker implements the ledger: a job is claimed once and for all.
Phase(j) == CASE status[j] = "none" -> "none"
              [] status[j] = "scheduled" -> "waiting"
              [] OTHER -> "claimed"
Ledger == INSTANCE NotificationLedger WITH
            Senders <- Procs,
            phase   <- [j \in Jobs |-> Phase(j)],
            ledger  <- deliveries
ImplementsLedger == Ledger!Spec

\* CONTEXT.md's status tracking, draft, scheduled, sending, sent, failed: a
\* notification never moves to an earlier status of that list.
Rank(s) == CASE s = "none" -> 0 [] s = "scheduled" -> 1 [] s = "sending" -> 2
             [] s = "sent" -> 3 [] s = "failed" -> 4
StatusFollowsTheList == [][\A j \in Jobs : Rank(status[j]) <= Rank(status'[j])]_vars

\* Without a crash or a database fault every scheduled notification is
\* settled for good, though its notification or the whole listening
\* connection may be lost and Expo may fail: the ticker makes up for it.
ScheduledIsSettled ==
  \A j \in Jobs : (status[j] = "scheduled") ~> [](status[j] \in Settled)

\* Once all chunks are through, every token the worker heard to be gone
\* stops being an active row at some point after (worker.go:156-161).  Until
\* then a failing chunk still drops what earlier chunks reported.
BadTokenIsSwitchedOff ==
  \A w \in Workers, t \in Tokens :
    (t \in task[w].bad /\ task[w].at \in {"record", "deactivate"}) ~> (tokenRow[t] # "active")
-----------------------------------------------------------------------------
(* The inductive invariant behind the properties above: what each sender   *)
(* may rely on between two of its statements, whoever else runs.           *)

Taken(j)    == status[j] \notin {"none", "scheduled"}
OnAJob(p)   == task[p].at \in Stages \ {"loop", "drain"}

\* The job a sender works on was claimed, and stays so.
TaskInv ==
  \A p \in Procs : OnAJob(p) => task[p].job \in Jobs /\ Taken(task[p].job)

\* Only Schedule's rows are up for a poll.
RowInv == \A j \in Jobs : status[j] = "scheduled" => origin[j] = "scheduled"

\* Jobs a goroutine has read were due, and it has not delivered them yet,
\* though the other goroutine may have claimed them since.
BatchInv ==
  \A w \in Workers : \A j \in batch[w] :
    /\ status[j] # "none"
    /\ origin[j] = "scheduled"
    /\ scheduledAt[j] <= now
    /\ \A t \in Tokens : deliveries[w][j][t] = 0

\* The job in a goroutine's hands came from its batch.
WorkerInv ==
  \A w \in Workers : OnAJob(w) =>
    /\ task[w].job \notin batch[w]
    /\ origin[task[w].job] = "scheduled"
    /\ scheduledAt[task[w].job] <= now

\* A sender has not yet handed its job to the devices still to be posted.
PendingInv ==
  \A p \in Procs, t \in Tokens :
    \/ task[p].at = "resolve"
    \/ task[p].at = "send" /\ t \in task[p].pending
    => deliveries[p][task[p].job][t] = 0

DeliveryInv ==
  /\ RowInv
  /\ TaskInv
  /\ BatchInv
  /\ WorkerInv
  /\ PendingInv
  /\ NotBeforeDue
  /\ AtMostOncePerSender
  /\ DeliveredIsNeverPolled
  /\ DirectSendStaysWithItsRequest

\* What a sender counts as accepted was handed over, what it counts as gone
\* was reported.
CountInv ==
  /\ CountIsHonest
  /\ \A p \in Procs : OnAJob(p) =>
       \A t \in task[p].accepted : deliveries[p][task[p].job][t] > 0

OffInv ==
  /\ OnlyReportedTokensAreOff
  /\ \A p \in Procs : task[p].bad \subseteq reported
=============================================================================
