------------------------- MODULE PushDeliveryProofs -------------------------
(***************************************************************************)
(* Theorems about PushDelivery, for any number of notifications, tokens    *)
(* and Send requests, any batch and chunk size and any set of faults.      *)
(***************************************************************************)
EXTENDS PushDelivery, FiniteSetTheorems, TLAPS

-----------------------------------------------------------------------------
(* Types.                                                                  *)

LEMMA IdleType == Idle \in Task
BY DEF Idle, Task, Stages

LEMMA ClaimedType == \A j \in Jobs : Claimed(j) \in Task
BY DEF Claimed, Idle, Task, Stages

LEMMA HandOverType ==
  ASSUME TypeOK, NEW p \in Procs, NEW C \in SUBSET Tokens, HandOver(p, C)
  PROVE  deliveries' \in [Procs -> [Jobs -> [Tokens -> Nat]]]
<1> DEFINE new(d) == [t \in Tokens |-> IF t \in C THEN d[t] + 1 ELSE d[t]]
           k == task[p].job
<1>1. deliveries \in [Procs -> [Jobs -> [Tokens -> Nat]]]
  BY DEF TypeOK
<1>2. deliveries' = [deliveries EXCEPT ![p] = [deliveries[p] EXCEPT ![k] = new(deliveries[p][k])]]
  BY <1>1 DEF HandOver
<1>3. \A d \in [Tokens -> Nat] : new(d) \in [Tokens -> Nat]
  OBVIOUS
<1>4. [deliveries[p] EXCEPT ![k] = new(deliveries[p][k])] \in [Jobs -> [Tokens -> Nat]]
  <2>1. CASE k \in Jobs
    BY <1>1, <1>3, <2>1
  <2>2. CASE k \notin Jobs
    BY <1>1, <2>2
  <2> QED BY <2>1, <2>2
<1> QED BY <1>1, <1>2, <1>4

LEMMA ChunkIsSubset ==
  ASSUME NEW P \in SUBSET Tokens, NEW C \in NextChunks(P)
  PROVE  C \in SUBSET Tokens /\ C \subseteq P
BY DEF NextChunks

LEMMA BatchIsSubset ==
  ASSUME NEW w, NEW S \in FirstOf(Eligible(w))
  PROVE  S \subseteq Eligible(w) /\ S \subseteq Jobs
BY DEF FirstOf, Eligible

LEMMA ReadIsSubset == \A rows : \A R \in Read(rows) : R \subseteq rows
BY DEF Read

\* What a query that returns leaves the goroutine with.
LEMMA QueryReads ==
  ASSUME NEW w \in Workers, Query(w)
  PROVE  \E S, R : /\ S \subseteq Eligible(w) /\ S \subseteq Jobs /\ R \subseteq S
                  /\ batch' = [batch EXCEPT ![w] = R]
                  /\ locked' = [locked EXCEPT ![w] = S]
                  /\ task' = GoTo(w, IF S = {} THEN "loop" ELSE "drain")
<1>1. PICK S \in FirstOf(Eligible(w)) : \E R \in Read(S) :
         /\ batch' = [batch EXCEPT ![w] = R]
         /\ locked' = [locked EXCEPT ![w] = S]
         /\ task' = GoTo(w, IF S = {} THEN "loop" ELSE "drain")
  BY DEF Query
<1>2. PICK R \in Read(S) : /\ batch' = [batch EXCEPT ![w] = R]
                           /\ locked' = [locked EXCEPT ![w] = S]
                           /\ task' = GoTo(w, IF S = {} THEN "loop" ELSE "drain")
  BY <1>1
<1> QED BY <1>2, BatchIsSubset, ReadIsSubset

LEMMA GoToType ==
  ASSUME TypeOK, NEW p \in Procs, NEW s \in Stages
  PROVE  GoTo(p, s) \in [Procs -> Task]
BY DEF TypeOK, GoTo, Task

LEMMA LeaveType ==
  ASSUME TypeOK, NEW p \in Procs
  PROVE  Leave(p) \in [Procs -> Task]
BY IdleType DEF TypeOK, Leave

\* An INSERT, a token row, the worker's query and the ends of a job keep the
\* types, action by action.
LEMMA TypeInductive ==
  ASSUME TypeOK, [Next]_vars
  PROVE  TypeOK'
<1> USE PushAssumption
<1> USE DEF TypeOK
<1>1. ASSUME NEW j \in Jobs, NEW at \in 0..MaxTime, Schedule(j, at) PROVE TypeOK'
  BY <1>1 DEF Schedule, Raise, StoredStatus, workVars
<1>2. ASSUME NEW r \in Requests, NEW j \in Jobs, SendInsert(r, j) PROVE TypeOK'
  <2> QED BY <1>2, ClaimedType DEF SendInsert, Raise, StoredStatus, Procs
<1>3. ASSUME NEW t \in Tokens, Register(t) \/ RemoveToken(t) PROVE TypeOK'
  BY <1>3 DEF Register, RemoveToken, rowVars, workVars, connVars
<1>4. CASE Listen \/ LoseConnection
  BY <1>4 DEF Listen, LoseConnection, rowVars, workVars
<1>5. ASSUME NEW w \in Workers, Query(w) \/ QueryFails(w), notify' \in SUBSET Jobs PROVE TypeOK'
  <2>1. CASE QueryFails(w)
    BY <1>5, <2>1 DEF QueryFails, rowVars, workVars
  <2>2. CASE Query(w)
    <3>1. PICK S, R : /\ S \subseteq Jobs /\ R \subseteq S
                      /\ batch' = [batch EXCEPT ![w] = R]
                      /\ locked' = [locked EXCEPT ![w] = S]
                      /\ task' = GoTo(w, IF S = {} THEN "loop" ELSE "drain")
      BY <2>2, QueryReads
    <3>2. task' \in [Procs -> Task]
      BY <3>1, GoToType DEF Procs, Stages
    <3>3. batch' \in [Workers -> SUBSET Jobs] /\ locked' \in [Workers -> SUBSET Jobs]
      BY <3>1
    <3> QED BY <1>5, <2>2, <3>2, <3>3 DEF Query, rowVars
  <2> QED BY <1>5, <2>1, <2>2
<1>6. CASE Notified
  <2>1. notify' \in SUBSET Jobs
    BY <1>6 DEF Notified
  <2> QED BY <1>5, <1>6, <2>1 DEF Notified, Workers
<1>7. CASE Ticked
  <2>1. notify' \in SUBSET Jobs
    BY <1>7 DEF Ticked
  <2> QED BY <1>5, <1>7, <2>1 DEF Ticked, Workers
<1>8. ASSUME NEW w \in Workers, Drain(w) PROVE TypeOK'
  <2>1. task' \in [Procs -> Task]
    BY <1>8, GoToType DEF Drain, Procs, Stages
  <2> QED BY <1>8, <2>1 DEF Drain, rowVars, connVars
<1>9. ASSUME NEW w \in Workers, NEW j \in Jobs, MarkSending(w, j) \/ MarkSendingFails(w, j)
      PROVE TypeOK'
  <2>1. batch' \in [Workers -> SUBSET Jobs]
    <3>1. batch' = [batch EXCEPT ![w] = batch[w] \ {j}]
      BY <1>9 DEF MarkSending, MarkSendingFails
    <3> QED BY <3>1
  <2>2. status' \in [Jobs -> StoredStatus \union {"none"}]
    BY <1>9 DEF MarkSending, MarkSendingFails, StoredStatus
  <2>3. task' \in [Procs -> Task]
    BY <1>9, ClaimedType DEF MarkSending, MarkSendingFails, Procs
  <2> QED BY <1>9, <2>1, <2>2, <2>3 DEF MarkSending, MarkSendingFails, connVars
<1>10. ASSUME NEW p \in Procs, Resolve(p) \/ ResolveFails(p) PROVE TypeOK'
  <2>1. CASE Resolve(p)
    <3>1. \A R \in SUBSET Tokens :
            [task[p] EXCEPT !.pending = R, !.at = IF R = {} THEN "record" ELSE "send"] \in Task
      BY DEF Task, Stages
    <3>2. \A R \in Read(ActiveTokens) : R \in SUBSET Tokens
      BY ReadIsSubset DEF ActiveTokens
    <3>3. PICK R \in Read(ActiveTokens) :
            task' = [task EXCEPT ![p] =
              [task[p] EXCEPT !.pending = R, !.at = IF R = {} THEN "record" ELSE "send"]]
      BY <2>1 DEF Resolve
    <3>4. task' \in [Procs -> Task]
      BY <3>1, <3>2, <3>3
    <3> QED BY <2>1, <3>4 DEF Resolve, rowVars, connVars
  <2>2. CASE ResolveFails(p)
    <3>1. task' \in [Procs -> Task]
      BY <2>2, GoToType DEF ResolveFails, Stages
    <3> QED BY <2>2, <3>1 DEF ResolveFails, rowVars, connVars
  <2> QED BY <1>10, <2>1, <2>2
<1>11. ASSUME NEW p \in Procs, PostChunk(p) PROVE TypeOK'
  <2>1. PICK C, ok, gone : /\ C \in NextChunks(task[p].pending)
                           /\ ok \in SUBSET C /\ gone \in SUBSET (C \ ok)
                           /\ Answered(p, C, ok, gone, gone)
    BY <1>11 DEF PostChunk
  <2>2. task[p] \in Task /\ task[p].pending \in SUBSET Tokens
    BY DEF Task
  <2>3. C \in SUBSET Tokens
    BY <2>1, <2>2, ChunkIsSubset
  <2>4. deliveries' \in [Procs -> [Jobs -> [Tokens -> Nat]]]
    BY <2>1, <2>3, HandOverType DEF Answered
  <2>5. task' \in [Procs -> Task]
    BY <2>1, <2>2, <2>3 DEF Answered, Task, Stages
  <2>6. reported' \in SUBSET Tokens
    BY <2>1, <2>3 DEF Answered
  <2> QED BY <1>11, <2>4, <2>5, <2>6 DEF PostChunk, rowVars, connVars
<1>12. ASSUME NEW p \in Procs, PostFails(p) PROVE TypeOK'
  <2>1. PICK C, ok : /\ C \in NextChunks(task[p].pending)
                     /\ ok \in SUBSET C /\ HandOver(p, ok)
    BY <1>12 DEF PostFails
  <2>2. C \in SUBSET Tokens
    <3>1. task[p].pending \in SUBSET Tokens
      BY DEF Task
    <3> QED BY <2>1, <3>1, ChunkIsSubset
  <2>3. deliveries' \in [Procs -> [Jobs -> [Tokens -> Nat]]]
    BY <2>1, <2>2, HandOverType
  <2>4. task' \in [Procs -> Task]
    BY <1>12, GoToType DEF PostFails, Stages
  <2> QED BY <1>12, <2>3, <2>4 DEF PostFails, rowVars, connVars
<1>13. ASSUME NEW p \in Procs, RecordSent(p) \/ RecordFailed(p) PROVE TypeOK'
  <2> DEFINE n == Cardinality(task[p].accepted)
  <2>1. n \in Nat
    BY FS_CardinalityType, FS_Subset DEF Task
  <2>2. GoTo(p, "deactivate") \in [Procs -> Task] /\ Leave(p) \in [Procs -> Task]
    BY GoToType, LeaveType DEF Stages
  <2>3. task[p].job \in Jobs => recipients[task[p].job] \in Nat
    OBVIOUS
  <2>4. ASSUME NEW s \in StoredStatus, NEW c, NEW m, Conclude(p, s, c, m),
               task[p].job \in Jobs => c \in Nat
        PROVE  TypeOK'
    <3>1. task' \in [Procs -> Task]
      BY <2>2, <2>4 DEF Conclude
    <3>2. status' \in [Jobs -> StoredStatus \union {"none"}]
      BY <2>4 DEF Conclude
    <3>3. recipients' \in [Jobs -> Nat]
      BY <2>4 DEF Conclude
    <3> QED BY <2>4, <3>1, <3>2, <3>3 DEF Conclude, connVars
  <2> QED BY <1>13, <2>1, <2>3, <2>4 DEF RecordSent, RecordFailed, StoredStatus
<1>14. ASSUME NEW w \in Workers, Deactivate(w) PROVE TypeOK'
  <2>1. PICK t \in task[w].bad :
          /\ \/ tokenRow' = [tokenRow EXCEPT ![t] = IF @ = "absent" THEN @ ELSE "inactive"]
             \/ "db" \in Faults /\ UNCHANGED tokenRow
          /\ task' = IF task[w].bad = {t} THEN Leave(w)
                     ELSE [task EXCEPT ![w].bad = task[w].bad \ {t}]
    BY <1>14 DEF Deactivate
  <2>2. [task EXCEPT ![w].bad = task[w].bad \ {t}] \in [Procs -> Task]
    BY DEF Task, Procs
  <2>3. task' \in [Procs -> Task]
    BY <2>1, <2>2, LeaveType DEF Procs
  <2>4. tokenRow' \in [Tokens -> {"absent", "active", "inactive"}]
    BY <2>1
  <2> QED BY <1>14, <2>3, <2>4 DEF Deactivate, rowVars, connVars
<1>15. ASSUME NEW r \in Requests, Cancel(r) PROVE TypeOK'
  BY <1>15, LeaveType DEF Cancel, rowVars, connVars, Procs
<1>16. CASE Crash
  BY <1>16, IdleType DEF Crash, rowVars
<1>17. CASE Tick
  BY <1>17 DEF Tick, rowVars, connVars, workVars
<1>18. CASE UNCHANGED vars
  BY <1>18 DEF vars
<1> QED
  BY <1>1, <1>2, <1>3, <1>4, <1>6, <1>7, <1>8, <1>9, <1>10, <1>11, <1>12, <1>13, <1>14,
     <1>15, <1>16, <1>17, <1>18
  DEF Next, Environment, WorkerStep, Deliver, Procs

\* The model stays in its types: whatever is interleaved or fails, a row has
\* one of the statuses the table allows and a sender one stage of sendOne.
THEOREM TypeCorrect == Spec => []TypeOK
<1>1. Init => TypeOK
  BY IdleType, PushAssumption DEF Init, TypeOK
<1>2. TypeOK /\ [Next]_vars => TypeOK'
  BY TypeInductive
<1> QED BY <1>1, <1>2, PTL DEF Spec
-----------------------------------------------------------------------------
(* The delivery invariant.                                                 *)

\* What handing over does to the ledger, entry by entry.
LEMMA HandOverEffect ==
  ASSUME TypeOK, NEW p \in Procs, task[p].job \in Jobs, NEW C \in SUBSET Tokens, HandOver(p, C)
  PROVE  \A q \in Procs, j \in Jobs, t \in Tokens :
           deliveries'[q][j][t] = IF q = p /\ j = task[p].job /\ t \in C
                                  THEN deliveries[q][j][t] + 1 ELSE deliveries[q][j][t]
<1> DEFINE new(d) == [t \in Tokens |-> IF t \in C THEN d[t] + 1 ELSE d[t]]
           k == task[p].job
<1>1. deliveries \in [Procs -> [Jobs -> [Tokens -> Nat]]]
  BY DEF TypeOK
<1>2. deliveries' = [deliveries EXCEPT ![p] = [deliveries[p] EXCEPT ![k] = new(deliveries[p][k])]]
  BY <1>1 DEF HandOver
<1>3. ASSUME NEW q \in Procs, NEW j \in Jobs, NEW t \in Tokens
      PROVE  deliveries'[q][j][t] = IF q = p /\ j = k /\ t \in C
                                    THEN deliveries[q][j][t] + 1 ELSE deliveries[q][j][t]
  <2>1. CASE q # p
    BY <1>1, <1>2, <2>1
  <2>2. CASE q = p /\ j # k
    BY <1>1, <1>2, <2>2
  <2>3. CASE q = p /\ j = k
    <3>1. deliveries'[q][j] = new(deliveries[p][k])
      BY <1>1, <1>2, <2>3
    <3> QED BY <2>3, <3>1
  <2> QED BY <2>1, <2>2, <2>3
<1> QED BY <1>3

\* Steps that hand nothing over: rows only move forward, batches grow only by
\* due scheduled rows, and a sender's task is kept, narrowed or left.
LEMMA QuietStep ==
  ASSUME TypeOK, TypeOK', DeliveryInv,
         deliveries' = deliveries,
         now <= now',
         RowInv',
         \A j \in Jobs : status[j] # "none" =>
            status'[j] # "none" /\ origin'[j] = origin[j] /\ scheduledAt'[j] = scheduledAt[j],
         \A j \in Jobs : Taken(j) => Taken(j)',
         \A w \in Workers : \A j \in batch'[w] :
            j \in batch[w] \/ (status[j] = "scheduled" /\ scheduledAt[j] <= now),
         \A p \in Procs : OnAJob(p)' =>
            /\ OnAJob(p)
            /\ task'[p].job = task[p].job
            /\ task'[p].at = "resolve" => task[p].at = "resolve"
            /\ task'[p].at = "send" => task[p].at = "resolve" \/ task'[p] = task[p]
            /\ p \in Workers => batch'[p] \subseteq batch[p]
  PROVE  DeliveryInv'
<1> USE DEF DeliveryInv, Procs
<1>1. TaskInv'
  BY DEF TaskInv
<1>2. BatchInv'
  <2> SUFFICES ASSUME NEW w \in Workers, NEW j \in batch'[w]
               PROVE  /\ status'[j] # "none" /\ origin'[j] = "scheduled"
                      /\ scheduledAt'[j] <= now'
                      /\ \A t \in Tokens : deliveries'[w][j][t] = 0
    BY DEF BatchInv
  <2>1. j \in Jobs /\ scheduledAt[j] \in Nat /\ now \in Nat /\ now' \in Nat
    BY PushAssumption DEF TypeOK
  <2>2. CASE j \in batch[w]
    BY <2>1, <2>2 DEF BatchInv
  <2>3. CASE status[j] = "scheduled" /\ scheduledAt[j] <= now
    <3>1. \A t \in Tokens : deliveries[w][j][t] = 0
      BY <2>1, <2>3 DEF DeliveredIsNeverPolled, TypeOK
    <3> QED BY <2>1, <2>3, <3>1 DEF RowInv
  <2> QED BY <2>2, <2>3
<1>3. WorkerInv'
  <2> SUFFICES ASSUME NEW w \in Workers, OnAJob(w)'
               PROVE  /\ task'[w].job \notin batch'[w]
                      /\ origin'[task'[w].job] = "scheduled"
                      /\ scheduledAt'[task'[w].job] <= now'
    BY DEF WorkerInv
  <2>1. OnAJob(w) /\ task'[w].job = task[w].job /\ batch'[w] \subseteq batch[w]
    OBVIOUS
  <2>2. task[w].job \in Jobs /\ Taken(task[w].job)
    BY <2>1 DEF TaskInv
  <2>3. scheduledAt[task[w].job] \in Nat /\ now \in Nat /\ now' \in Nat
    BY <2>2, PushAssumption DEF TypeOK
  <2> QED BY <2>1, <2>2, <2>3 DEF WorkerInv, Taken
<1>4. PendingInv'
  <2> SUFFICES ASSUME NEW p \in Procs, NEW t \in Tokens,
                      \/ task'[p].at = "resolve"
                      \/ task'[p].at = "send" /\ t \in task'[p].pending
               PROVE  deliveries'[p][task'[p].job][t] = 0
    BY DEF PendingInv
  <2>1. OnAJob(p)'
    BY DEF OnAJob, Stages
  <2> QED BY <2>1 DEF PendingInv
<1>5. NotBeforeDue'
  <2> SUFFICES ASSUME NEW w \in Workers, NEW j \in Jobs, NEW t \in Tokens,
                      deliveries'[w][j][t] > 0
               PROVE  scheduledAt'[j] <= now'
    BY DEF NotBeforeDue
  <2>1. scheduledAt[j] \in Nat /\ now \in Nat /\ now' \in Nat
    BY PushAssumption DEF TypeOK
  <2> QED BY <2>1 DEF NotBeforeDue, DeliveredIsNeverPolled
<1>6. AtMostOncePerSender'
  BY DEF AtMostOncePerSender
<1>7. DeliveredIsNeverPolled'
  BY DEF DeliveredIsNeverPolled, Taken
<1>8. DirectSendStaysWithItsRequest'
  BY DEF DirectSendStaysWithItsRequest, DeliveredIsNeverPolled
<1> QED BY <1>1, <1>2, <1>3, <1>4, <1>5, <1>6, <1>7, <1>8

\* A sender that takes up a job nobody has delivered on its behalf: the
\* worker's UPDATE, and the INSERT of Send.
LEMMA ClaimStep ==
  ASSUME TypeOK, TypeOK', DeliveryInv, NEW p \in Procs, NEW k \in Jobs,
         \A t \in Tokens : deliveries[p][k][t] = 0,
         status' = [status EXCEPT ![k] = "sending"],
         task' = [task EXCEPT ![p] = Claimed(k)],
         UNCHANGED <<deliveries, now, scheduledAt>>,
         \A j \in Jobs \ {k} : origin'[j] = origin[j],
         p \in Workers => /\ origin' = origin /\ k \in batch[p]
                          /\ batch' = [batch EXCEPT ![p] = @ \ {k}],
         p \in Requests => batch' = batch /\ status[k] = "none"
  PROVE  DeliveryInv'
<1> USE DEF DeliveryInv, Procs
<1>0. /\ \A q \in Procs \ {p} : task'[q] = task[q]
      /\ task'[p] = Claimed(k) /\ task'[p].job = k /\ task'[p].at = "resolve"
      /\ \A j \in Jobs \ {k} : status'[j] = status[j]
      /\ status'[k] = "sending"
  BY DEF TypeOK, Claimed, Idle
<1>1. TaskInv'
  BY <1>0 DEF TaskInv, Taken, OnAJob
<1>2. RowInv'
  BY <1>0 DEF RowInv
<1>3. BatchInv'
  <2> SUFFICES ASSUME NEW w \in Workers, NEW j \in batch'[w]
               PROVE  /\ status'[j] # "none" /\ origin'[j] = "scheduled"
                      /\ scheduledAt'[j] <= now'
                      /\ \A t \in Tokens : deliveries'[w][j][t] = 0
    BY DEF BatchInv
  <2>1. j \in Jobs /\ j \in batch[w]
    <3>1. batch \in [Workers -> SUBSET Jobs]
      BY DEF TypeOK
    <3>2. CASE p \in Workers
      <4>1. batch' = [batch EXCEPT ![p] = batch[p] \ {k}]
        BY <3>2
      <4> QED BY <3>1, <4>1
    <3>3. CASE p \in Requests
      BY <3>1, <3>3
    <3> QED BY <3>2, <3>3
  <2>2. origin'[j] = origin[j]
    BY <2>1, PushAssumption DEF BatchInv
  <2> QED BY <1>0, <2>1, <2>2 DEF BatchInv
<1>4. WorkerInv'
  <2> SUFFICES ASSUME NEW w \in Workers, OnAJob(w)'
               PROVE  /\ task'[w].job \notin batch'[w]
                      /\ origin'[task'[w].job] = "scheduled"
                      /\ scheduledAt'[task'[w].job] <= now'
    BY DEF WorkerInv
  <2>1. CASE w = p
    BY <1>0, <2>1 DEF BatchInv, TypeOK
  <2>2. CASE w # p
    <3>1. OnAJob(w) /\ task'[w] = task[w] /\ batch'[w] = batch[w]
      BY <1>0, <2>2, PushAssumption DEF OnAJob, TypeOK
    <3>2. task[w].job \in Jobs /\ Taken(task[w].job)
      BY <3>1 DEF TaskInv
    <3>3. origin'[task[w].job] = origin[task[w].job]
      BY <3>2, PushAssumption DEF Taken
    <3> QED BY <3>1, <3>3 DEF WorkerInv
  <2> QED BY <2>1, <2>2
<1>5. PendingInv'
  BY <1>0 DEF PendingInv
<1>6. NotBeforeDue'
  BY DEF NotBeforeDue
<1>7. AtMostOncePerSender'
  BY DEF AtMostOncePerSender
<1>8. DeliveredIsNeverPolled'
  BY <1>0 DEF DeliveredIsNeverPolled
<1>9. DirectSendStaysWithItsRequest'
  <2> SUFFICES ASSUME NEW w \in Workers, NEW j \in Jobs, NEW t \in Tokens,
                      deliveries'[w][j][t] > 0
               PROVE  origin'[j] = "scheduled"
    BY DEF DirectSendStaysWithItsRequest
  <2>1. origin[j] = "scheduled" /\ status[j] # "none"
    BY DEF DirectSendStaysWithItsRequest, DeliveredIsNeverPolled
  <2> QED BY <2>1, PushAssumption
<1> QED BY <1>1, <1>2, <1>3, <1>4, <1>5, <1>6, <1>7, <1>8, <1>9

\* A POST: p hands its job to devices it still had pending.
LEMMA HandOverStep ==
  ASSUME TypeOK, TypeOK', DeliveryInv, NEW p \in Procs, task[p].at = "send",
         NEW C \in SUBSET task[p].pending, NEW ok \in SUBSET C,
         HandOver(p, ok),
         UNCHANGED <<status, scheduledAt, origin, now, batch>>,
         \A q \in Procs \ {p} : task'[q] = task[q],
         task'[p].job = task[p].job,
         task'[p].at \in {"send", "record", "fail"},
         task'[p].at = "send" => task'[p].pending = task[p].pending \ C
  PROVE  DeliveryInv'
<1> USE DEF DeliveryInv, Procs
<1> DEFINE k == task[p].job
<1>0. OnAJob(p) /\ k \in Jobs /\ Taken(k)
  BY DEF TaskInv, OnAJob, Stages
<1>1. ok \in SUBSET Tokens
  BY DEF TypeOK, Task
<1>2. \A q \in Procs, j \in Jobs, t \in Tokens :
        deliveries'[q][j][t] = IF q = p /\ j = k /\ t \in ok
                               THEN deliveries[q][j][t] + 1 ELSE deliveries[q][j][t]
  BY <1>0, <1>1, HandOverEffect
<1>3. \A t \in ok : deliveries[p][k][t] = 0
  BY <1>1 DEF PendingInv
<1>4. TaskInv' /\ RowInv'
  BY <1>0 DEF TaskInv, RowInv, OnAJob, Taken
<1>5. BatchInv'
  <2> SUFFICES ASSUME NEW w \in Workers, NEW j \in batch[w]
               PROVE  \A t \in Tokens : deliveries'[w][j][t] = 0
    BY DEF BatchInv
  <2>1. j \in Jobs
    BY DEF TypeOK
  <2>2. w = p => j # k
    BY <1>0 DEF WorkerInv
  <2> QED BY <1>2, <2>1, <2>2 DEF BatchInv
<1>6. WorkerInv'
  BY <1>0 DEF WorkerInv, OnAJob
<1>7. PendingInv'
  <2> SUFFICES ASSUME NEW q \in Procs, NEW t \in Tokens,
                      \/ task'[q].at = "resolve"
                      \/ task'[q].at = "send" /\ t \in task'[q].pending
               PROVE  deliveries'[q][task'[q].job][t] = 0
    BY DEF PendingInv
  <2>1. CASE q = p
    BY <1>0, <1>2, <2>1 DEF PendingInv
  <2>2. CASE q # p
    <3>1. task[q].job \in Jobs
      BY <2>2 DEF TaskInv, OnAJob, Stages
    <3> QED BY <1>2, <2>2, <3>1 DEF PendingInv
  <2> QED BY <2>1, <2>2
<1>8. NotBeforeDue'
  BY <1>0, <1>2 DEF NotBeforeDue, WorkerInv
<1>9. AtMostOncePerSender'
  BY <1>2, <1>3 DEF AtMostOncePerSender
<1>10. DeliveredIsNeverPolled'
  BY <1>0, <1>2 DEF DeliveredIsNeverPolled, Taken
<1>11. DirectSendStaysWithItsRequest'
  BY <1>0, <1>2 DEF DirectSendStaysWithItsRequest, WorkerInv
<1> QED BY <1>4, <1>5, <1>6, <1>7, <1>8, <1>9, <1>10, <1>11

LEMMA DeliveryInductive ==
  ASSUME TypeOK, DeliveryInv, [Next]_vars
  PROVE  DeliveryInv'
<1>0. TypeOK'
  BY TypeInductive
<1>n. now \in Nat
  BY PushAssumption DEF TypeOK
<1>1. ASSUME NEW j \in Jobs, NEW at \in 0..MaxTime, Schedule(j, at) PROVE DeliveryInv'
  <2>1. RowInv'
    BY <1>1 DEF Schedule, RowInv, DeliveryInv, TypeOK
  <2>2. /\ \A i \in Jobs : status[i] # "none" =>
             status'[i] # "none" /\ origin'[i] = origin[i] /\ scheduledAt'[i] = scheduledAt[i]
        /\ \A i \in Jobs : Taken(i) => Taken(i)'
    BY <1>1 DEF Schedule, TypeOK, Taken
  <2> QED BY <1>0, <1>1, <1>n, <2>1, <2>2, QuietStep DEF Schedule, workVars, OnAJob
<1>2. ASSUME NEW r \in Requests, NEW j \in Jobs, SendInsert(r, j) PROVE DeliveryInv'
  <2>1. \A t \in Tokens : deliveries[r][j][t] = 0
    BY <1>2 DEF SendInsert, DeliveryInv, DeliveredIsNeverPolled, TypeOK, Procs
  <2>2. /\ r \in Procs /\ r \notin Workers
        /\ \A i \in Jobs \ {j} : origin'[i] = origin[i]
    BY <1>2, PushAssumption DEF SendInsert, TypeOK, Procs
  <2> QED BY <1>0, <1>2, <2>1, <2>2, ClaimStep DEF SendInsert
<1>3. ASSUME NEW t \in Tokens, Register(t) \/ RemoveToken(t) PROVE DeliveryInv'
  BY <1>0, <1>3, <1>n, QuietStep
  DEF Register, RemoveToken, rowVars, workVars, OnAJob, Taken, RowInv, DeliveryInv
<1>4. CASE Listen \/ LoseConnection
  BY <1>0, <1>4, <1>n, QuietStep
  DEF Listen, LoseConnection, rowVars, workVars, OnAJob, Taken, RowInv, DeliveryInv
<1>5. ASSUME NEW w \in Workers, Query(w) PROVE DeliveryInv'
  <2>1. PICK S, R : /\ S \subseteq Eligible(w) /\ R \subseteq S
                    /\ batch' = [batch EXCEPT ![w] = R]
                    /\ task' = GoTo(w, IF S = {} THEN "loop" ELSE "drain")
    BY <1>5, QueryReads
  <2>2. \A v \in Workers : \A j \in batch'[v] :
          j \in batch[v] \/ (status[j] = "scheduled" /\ scheduledAt[j] <= now)
    <3>1. \A j \in R : status[j] = "scheduled" /\ scheduledAt[j] <= now
      BY <2>1 DEF Eligible
    <3> QED BY <2>1, <3>1 DEF TypeOK
  <2>3. \A p \in Procs : OnAJob(p)' =>
          /\ OnAJob(p) /\ task'[p] = task[p]
          /\ p \in Workers => batch'[p] \subseteq batch[p]
    BY <2>1 DEF GoTo, OnAJob, TypeOK, Task, Procs
  <2> QED BY <1>0, <1>5, <1>n, <2>2, <2>3, QuietStep
          DEF Query, rowVars, Taken, RowInv, DeliveryInv
<1>6. ASSUME NEW w \in Workers, QueryFails(w) PROVE DeliveryInv'
  BY <1>0, <1>6, <1>n, QuietStep
  DEF QueryFails, rowVars, workVars, OnAJob, Taken, RowInv, DeliveryInv
<1>7. ASSUME NEW w \in Workers, Drain(w) PROVE DeliveryInv'
  <2>1. \A p \in Procs : OnAJob(p)' => OnAJob(p) /\ task'[p] = task[p]
    BY <1>7 DEF Drain, GoTo, OnAJob, TypeOK, Task, Procs
  <2> QED BY <1>0, <1>7, <1>n, <2>1, QuietStep
          DEF Drain, rowVars, Taken, RowInv, DeliveryInv
<1>8. ASSUME NEW w \in Workers, NEW j \in Jobs, MarkSending(w, j) PROVE DeliveryInv'
  <2>1. j \in batch[w] /\ w \notin Requests /\ w \in Procs
    BY <1>8, PushAssumption DEF MarkSending, NextInBatch, Procs
  <2>2. \A t \in Tokens : deliveries[w][j][t] = 0
    BY <2>1 DEF DeliveryInv, BatchInv
  <2> QED BY <1>0, <1>8, <2>1, <2>2, ClaimStep DEF MarkSending
<1>9. ASSUME NEW w \in Workers, NEW j \in Jobs, MarkSendingFails(w, j) PROVE DeliveryInv'
  <2>1. batch' = [batch EXCEPT ![w] = batch[w] \ {j}] /\ j \in batch[w]
    BY <1>9 DEF MarkSendingFails, NextInBatch
  <2>2. \A v \in Workers : batch'[v] \subseteq batch[v]
    BY <2>1 DEF TypeOK
  <2>3. /\ \A i \in Jobs : status[i] # "none" => status'[i] # "none"
        /\ \A i \in Jobs : Taken(i) => Taken(i)'
        /\ RowInv'
    BY <1>9 DEF MarkSendingFails, TypeOK, Taken, RowInv, DeliveryInv
  <2> QED BY <1>0, <1>9, <1>n, <2>2, <2>3, QuietStep DEF MarkSendingFails, OnAJob
<1>10. ASSUME NEW p \in Procs, Resolve(p) \/ ResolveFails(p) PROVE DeliveryInv'
  <2>1. \A q \in Procs : OnAJob(q)' =>
          /\ OnAJob(q) /\ task'[q].job = task[q].job
          /\ task'[q].at = "resolve" => task[q].at = "resolve"
          /\ task'[q].at = "send" => task[q].at = "resolve" \/ task'[q] = task[q]
    <3>1. CASE Resolve(p)
      <4>1. /\ \A q \in Procs \ {p} : task'[q] = task[q]
            /\ task'[p].job = task[p].job /\ task'[p].at \in {"record", "send"}
        BY <3>1 DEF Resolve, TypeOK, Task
      <4> QED BY <3>1, <4>1 DEF Resolve, OnAJob, Stages
    <3>2. CASE ResolveFails(p)
      BY <3>2 DEF ResolveFails, GoTo, OnAJob, Stages, TypeOK, Task
    <3> QED BY <1>10, <3>1, <3>2
  <2>2. UNCHANGED <<status, scheduledAt, origin, batch, now, deliveries>>
    BY <1>10 DEF Resolve, ResolveFails, rowVars
  <2> QED BY <1>0, <1>n, <2>1, <2>2, QuietStep DEF Taken, RowInv, DeliveryInv
<1>11. ASSUME NEW p \in Procs, PostChunk(p) PROVE DeliveryInv'
  <2>1. PICK C, ok, gone : /\ C \in NextChunks(task[p].pending)
                           /\ ok \in SUBSET C
                           /\ Answered(p, C, ok, gone, gone)
    BY <1>11 DEF PostChunk
  <2>2. C \in SUBSET task[p].pending
    BY <2>1 DEF NextChunks
  <2>3. /\ \A q \in Procs \ {p} : task'[q] = task[q]
        /\ task'[p].job = task[p].job
        /\ task'[p].at \in {"send", "record", "fail"}
        /\ task'[p].pending = task[p].pending \ C
    BY <2>1 DEF Answered, TypeOK
  <2> QED BY <1>0, <1>11, <2>1, <2>2, <2>3, HandOverStep DEF PostChunk, Answered, rowVars
<1>12. ASSUME NEW p \in Procs, PostFails(p) PROVE DeliveryInv'
  <2>1. PICK C, ok : /\ C \in NextChunks(task[p].pending)
                     /\ ok \in SUBSET C /\ HandOver(p, ok)
    BY <1>12 DEF PostFails
  <2>2. C \in SUBSET task[p].pending
    BY <2>1 DEF NextChunks
  <2>3. /\ \A q \in Procs \ {p} : task'[q] = task[q]
        /\ task'[p].job = task[p].job
        /\ task'[p].at = "fail"
    BY <1>12 DEF PostFails, GoTo, TypeOK, Task
  <2> QED BY <1>0, <1>12, <2>1, <2>2, <2>3, HandOverStep DEF PostFails, rowVars
<1>13. ASSUME NEW p \in Procs, RecordSent(p) \/ RecordFailed(p) PROVE DeliveryInv'
  <2>1. /\ UNCHANGED status \/ \E s \in Settled : status' = [status EXCEPT ![task[p].job] = s]
        /\ task' = GoTo(p, "deactivate") \/ task' = Leave(p)
        /\ UNCHANGED <<scheduledAt, origin, batch, now, deliveries>>
    BY <1>13 DEF RecordSent, RecordFailed, Conclude, Settled
  <2>2. OnAJob(p)
    BY <1>13 DEF RecordSent, RecordFailed, OnAJob, Stages
  <2>3. task[p].job \in Jobs /\ Taken(task[p].job)
    BY <2>2 DEF DeliveryInv, TaskInv
  <2>4. /\ \A i \in Jobs : status[i] # "none" => status'[i] # "none"
        /\ \A i \in Jobs : Taken(i) => Taken(i)'
        /\ RowInv'
    BY <2>1, <2>3 DEF Settled, TypeOK, Taken, RowInv, DeliveryInv
  <2>5. \A q \in Procs : OnAJob(q)' =>
          /\ OnAJob(q) /\ task'[q].job = task[q].job
          /\ task'[q].at = "resolve" => task[q].at = "resolve"
          /\ task'[q].at = "send" => task'[q] = task[q]
    BY <2>1, <2>2 DEF GoTo, Leave, Idle, OnAJob, Stages, TypeOK, Task
  <2> QED BY <1>0, <1>n, <2>1, <2>4, <2>5, QuietStep
<1>14. ASSUME NEW w \in Workers, Deactivate(w) PROVE DeliveryInv'
  <2>1. w \in Procs /\ task[w].at = "deactivate"
    BY <1>14 DEF Deactivate, Procs
  <2>2. \A q \in Procs : OnAJob(q)' =>
          /\ OnAJob(q) /\ task'[q].job = task[q].job /\ task'[q].at = task[q].at
          /\ task'[q].at = "send" => task'[q] = task[q]
    BY <1>14, <2>1 DEF Deactivate, Leave, Idle, OnAJob, Stages, TypeOK, Task
  <2> QED BY <1>0, <1>14, <1>n, <2>2, QuietStep
          DEF Deactivate, rowVars, Taken, RowInv, DeliveryInv
<1>15. ASSUME NEW r \in Requests, Cancel(r) PROVE DeliveryInv'
  <2>1. \A q \in Procs : OnAJob(q)' => OnAJob(q) /\ task'[q] = task[q]
    BY <1>15 DEF Cancel, Leave, Idle, OnAJob, Stages, TypeOK
  <2> QED BY <1>0, <1>15, <1>n, <2>1, QuietStep
          DEF Cancel, rowVars, Taken, RowInv, DeliveryInv
<1>16. CASE Crash
  <2>1. \A q \in Procs : ~OnAJob(q)'
    BY <1>16 DEF Crash, Idle, OnAJob, Stages
  <2> QED BY <1>0, <1>16, <1>n, <2>1, QuietStep
          DEF Crash, rowVars, Taken, RowInv, DeliveryInv
<1>17. CASE Tick
  BY <1>0, <1>17, <1>n, QuietStep
  DEF Tick, rowVars, workVars, OnAJob, Taken, RowInv, DeliveryInv
<1>18. CASE UNCHANGED vars
  BY <1>0, <1>18, <1>n, QuietStep DEF vars, OnAJob, Taken, RowInv, DeliveryInv
<1> QED
  BY <1>1, <1>2, <1>3, <1>4, <1>5, <1>6, <1>7, <1>8, <1>9, <1>10, <1>11, <1>12, <1>13,
     <1>14, <1>15, <1>16, <1>17, <1>18
  DEF Next, Environment, Notified, Ticked, WorkerStep, Deliver, Workers, Procs

LEMMA DeliveryInvariant == Spec => []DeliveryInv
<1>1. Init => DeliveryInv
  BY DEF Init, DeliveryInv, RowInv, TaskInv, BatchInv, WorkerInv, PendingInv, NotBeforeDue,
         AtMostOncePerSender, DeliveredIsNeverPolled, DirectSendStaysWithItsRequest,
         Idle, OnAJob, Procs
<1>2. TypeOK /\ DeliveryInv /\ [Next]_vars => DeliveryInv'
  BY DeliveryInductive
<1> QED BY <1>1, <1>2, TypeCorrect, PTL DEF Spec

\* One goroutine or request hands a notification to a device at most once,
\* whatever fails in between (worker.go:114-162, admin/push.go:34-98).
THEOREM AtMostOnce == Spec => []AtMostOncePerSender
BY DeliveryInvariant, PTL DEF DeliveryInv

\* No device hears of a scheduled notification before its time, although the
\* insert trigger wakes the worker at once (worker.go:86-92).
THEOREM NeverEarly == Spec => []NotBeforeDue
BY DeliveryInvariant, PTL DEF DeliveryInv

\* A notification that left the server in part is never polled again.
THEOREM NeverPolledAgain == Spec => []DeliveredIsNeverPolled
BY DeliveryInvariant, PTL DEF DeliveryInv

\* The worker never delivers what an administrator sends directly.
THEOREM DirectStaysDirect == Spec => []DirectSendStaysWithItsRequest
BY DeliveryInvariant, PTL DEF DeliveryInv

-----------------------------------------------------------------------------
(* What is counted and what is switched off.                               *)

\* Entries of the ledger only grow.
LEMMA LedgerGrows ==
  ASSUME TypeOK, DeliveryInv, [Next]_vars
  PROVE  \A q \in Procs, j \in Jobs, t \in Tokens : deliveries[q][j][t] <= deliveries'[q][j][t]
<1>n. \A q \in Procs, j \in Jobs, t \in Tokens : deliveries[q][j][t] \in Nat
  BY DEF TypeOK
<1>1. ASSUME NEW p \in Procs, NEW C \in SUBSET Tokens, HandOver(p, C), task[p].job \in Jobs
      PROVE  \A q \in Procs, j \in Jobs, t \in Tokens :
                deliveries[q][j][t] <= deliveries'[q][j][t]
  <2>1. \A q \in Procs, j \in Jobs, t \in Tokens :
          deliveries'[q][j][t] = IF q = p /\ j = task[p].job /\ t \in C
                                 THEN deliveries[q][j][t] + 1 ELSE deliveries[q][j][t]
    BY <1>1, HandOverEffect
  <2> QED BY <2>1, <1>n
<1>2. ASSUME NEW p \in Procs, PostChunk(p) \/ PostFails(p)
      PROVE  \A q \in Procs, j \in Jobs, t \in Tokens :
                deliveries[q][j][t] <= deliveries'[q][j][t]
  <2>1. task[p].job \in Jobs /\ task[p].pending \in SUBSET Tokens
    BY <1>2 DEF PostChunk, PostFails, DeliveryInv, TaskInv, OnAJob, Stages, Task, TypeOK
  <2>2. PICK C, ok : /\ C \in NextChunks(task[p].pending)
                     /\ ok \in SUBSET C /\ HandOver(p, ok)
    BY <1>2 DEF PostChunk, PostFails, Answered
  <2>3. ok \in SUBSET Tokens
    BY <2>1, <2>2 DEF NextChunks
  <2> QED BY <1>1, <2>1, <2>2, <2>3
<1>3. \/ deliveries' = deliveries
      \/ \E p \in Procs : PostChunk(p) \/ PostFails(p)
  BY DEF Next, Environment, WorkerStep, Deliver, Procs, Schedule, SendInsert, Register,
         RemoveToken, Listen, LoseConnection, Notified, Ticked, Query, QueryFails, Drain,
         MarkSending, MarkSendingFails, Resolve, ResolveFails, RecordSent, RecordFailed, Conclude,
         Deactivate, Cancel, Crash, Tick, vars
<1> QED BY <1>2, <1>3, <1>n

\* Only an answered POST adds to what a sender counts or takes for gone.
LEMMA OnlyAnswersAdd ==
  ASSUME TypeOK, [Next]_vars, \A p \in Procs : ~PostChunk(p), NEW q \in Procs
  PROVE  /\ OnAJob(q)' => \/ task'[q].accepted = {}
                          \/ /\ OnAJob(q) /\ task'[q].job = task[q].job
                             /\ task'[q].accepted = task[q].accepted
         /\ task'[q].bad \subseteq task[q].bad
<1> DEFINE Kept == /\ OnAJob(q)' => \/ task'[q].accepted = {}
                                    \/ /\ OnAJob(q) /\ task'[q].job = task[q].job
                                       /\ task'[q].accepted = task[q].accepted
                   /\ task'[q].bad \subseteq task[q].bad
<1>0. task \in [Procs -> Task] /\ Workers \subseteq Procs /\ Requests \subseteq Procs
  BY DEF TypeOK, Procs
<1>1. ASSUME NEW p \in Procs, task' = Leave(p) PROVE Kept
  BY <1>0, <1>1 DEF Leave, Idle, OnAJob, Stages, Task
<1>2. ASSUME NEW p \in Procs, NEW s \in Stages, task' = GoTo(p, s),
             s \in {"loop", "drain"} \/ OnAJob(p)
      PROVE  Kept
  BY <1>0, <1>2 DEF GoTo, OnAJob, Stages, Task
<1>3. ASSUME NEW p \in Procs, NEW j \in Jobs, task' = [task EXCEPT ![p] = Claimed(j)] PROVE Kept
  BY <1>0, <1>3 DEF Claimed, Idle, OnAJob, Stages, Task
<1>4. CASE task' = task
  BY <1>0, <1>4 DEF OnAJob
<1>5. ASSUME NEW p \in Procs, Resolve(p) PROVE Kept
  BY <1>0, <1>5 DEF Resolve, OnAJob, Stages, Task
<1>6. ASSUME NEW w \in Workers, Deactivate(w) PROVE Kept
  <2>1. PICK t \in task[w].bad : task' = IF task[w].bad = {t} THEN Leave(w)
                                         ELSE [task EXCEPT ![w].bad = task[w].bad \ {t}]
    BY <1>6 DEF Deactivate
  <2>2. CASE task' = Leave(w)
    BY <1>0, <1>1, <2>2
  <2>3. CASE task' = [task EXCEPT ![w].bad = task[w].bad \ {t}]
    BY <1>0, <2>3 DEF OnAJob, Stages, Task
  <2> QED BY <2>1, <2>2, <2>3
<1>7. CASE Crash
  BY <1>0, <1>7 DEF Crash, Idle, OnAJob, Stages, Task
<1>8. ASSUME NEW p \in Procs, RecordSent(p) \/ RecordFailed(p) PROVE Kept
  <2>1. OnAJob(p) /\ (task' = GoTo(p, "deactivate") \/ task' = Leave(p))
    BY <1>8 DEF RecordSent, RecordFailed, Conclude, OnAJob, Stages
  <2> QED BY <1>1, <1>2, <2>1 DEF Stages
<1>9. ASSUME NEW p \in Procs, ResolveFails(p) \/ PostFails(p) PROVE Kept
  <2>1. OnAJob(p) /\ (task' = GoTo(p, "record") \/ task' = GoTo(p, "fail"))
    BY <1>9 DEF ResolveFails, PostFails, OnAJob, Stages
  <2> QED BY <1>2, <2>1 DEF Stages
<1>10. ASSUME NEW w \in Workers, Query(w) PROVE Kept
  <2>1. task' = GoTo(w, "loop") \/ task' = GoTo(w, "drain")
    BY <1>10 DEF Query
  <2> QED BY <1>0, <1>2, <2>1 DEF Stages
<1>11. ASSUME NEW w \in Workers, Drain(w) PROVE Kept
  BY <1>0, <1>2, <1>11 DEF Drain, Stages
<1>12. ASSUME NEW w \in Workers, NEW j \in Jobs, MarkSending(w, j) PROVE Kept
  BY <1>0, <1>3, <1>12 DEF MarkSending
<1>13. ASSUME NEW r \in Requests, NEW j \in Jobs, SendInsert(r, j) PROVE Kept
  BY <1>0, <1>3, <1>13 DEF SendInsert
<1>14. ASSUME NEW r \in Requests, Cancel(r) PROVE Kept
  BY <1>0, <1>1, <1>14 DEF Cancel
<1>15. \/ task' = task
       \/ Crash
       \/ \E p \in Procs : \/ Resolve(p) \/ RecordSent(p) \/ RecordFailed(p)
                           \/ ResolveFails(p) \/ PostFails(p)
       \/ \E w \in Workers : \/ Deactivate(w) \/ Query(w) \/ Drain(w)
                             \/ \E j \in Jobs : MarkSending(w, j)
       \/ \E r \in Requests : Cancel(r) \/ \E j \in Jobs : SendInsert(r, j)
  BY DEF Next, Environment, WorkerStep, Deliver, Procs, Workers, workVars, vars, Schedule,
         Register, RemoveToken, Listen, LoseConnection, Notified, Ticked, QueryFails,
         MarkSendingFails, Tick
<1> QED BY <1>4, <1>5, <1>6, <1>7, <1>8, <1>9, <1>10, <1>11, <1>12, <1>13, <1>14, <1>15

\* An answered POST: what it adds was handed over, or reported.
LEMMA AnswerAdds ==
  ASSUME TypeOK, DeliveryInv, NEW p \in Procs, PostChunk(p)
  PROVE  /\ \A q \in Procs \ {p} : task'[q] = task[q]
         /\ OnAJob(p) /\ task'[p].job = task[p].job
         /\ \A t \in task'[p].accepted :
              t \in task[p].accepted \/ deliveries'[p][task[p].job][t] > 0
         /\ reported \subseteq reported'
         /\ task'[p].bad \subseteq task[p].bad \union reported'
<1>1. OnAJob(p) /\ task[p].job \in Jobs /\ task[p].pending \in SUBSET Tokens
  BY DEF PostChunk, DeliveryInv, TaskInv, OnAJob, Stages, Task, TypeOK
<1>2. PICK C, ok, gone : /\ C \in NextChunks(task[p].pending)
                         /\ ok \in SUBSET C /\ gone \in SUBSET (C \ ok)
                         /\ Answered(p, C, ok, gone, gone)
  BY DEF PostChunk
<1>3. ok \in SUBSET Tokens
  BY <1>1, <1>2 DEF NextChunks
<1>4. /\ \A q \in Procs \ {p} : task'[q] = task[q]
      /\ task'[p].job = task[p].job
      /\ task'[p].accepted = task[p].accepted \union ok
      /\ task'[p].bad = task[p].bad \union gone
      /\ reported' = reported \union gone
  BY <1>2 DEF Answered, TypeOK
<1>5. \A t \in ok : deliveries'[p][task[p].job][t] = deliveries[p][task[p].job][t] + 1
  BY <1>1, <1>2, <1>3, HandOverEffect DEF Answered
<1>6. \A t \in ok : deliveries[p][task[p].job][t] \in Nat
  BY <1>1, <1>3 DEF TypeOK
<1>7. \A t \in ok : deliveries'[p][task[p].job][t] > 0
  BY <1>5, <1>6
<1> QED BY <1>1, <1>4, <1>7

\* recipient_count is what the sender that writes it has counted.
LEMMA CountWritten ==
  ASSUME TypeOK, [Next]_vars, NEW j \in Jobs
  PROVE  \/ recipients'[j] = recipients[j]
         \/ \E p \in Procs : /\ OnAJob(p) /\ task[p].job = j
                             /\ recipients'[j] = Cardinality(task[p].accepted)
<1>1. ASSUME NEW p \in Procs, RecordSent(p) \/ RecordFailed(p)
      PROVE  \/ recipients'[j] = recipients[j]
             \/ /\ OnAJob(p) /\ task[p].job = j
                /\ recipients'[j] = Cardinality(task[p].accepted)
  BY <1>1 DEF RecordSent, RecordFailed, Conclude, OnAJob, Stages, TypeOK
<1>2. \/ recipients' = recipients
      \/ \E p \in Procs : RecordSent(p) \/ RecordFailed(p)
  BY DEF Next, Environment, WorkerStep, Deliver, Procs, rowVars, vars, Schedule, SendInsert,
         Register, RemoveToken, Listen, LoseConnection, Notified, Ticked, Query, QueryFails,
         Drain, MarkSending, MarkSendingFails, Resolve, ResolveFails, PostChunk, PostFails,
         Deactivate, Cancel, Crash, Tick
<1> QED BY <1>1, <1>2

LEMMA CountInductive ==
  ASSUME TypeOK, TypeOK', DeliveryInv, CountInv, [Next]_vars
  PROVE  CountInv'
<1>0. /\ \A q \in Procs, j \in Jobs, t \in Tokens : /\ deliveries[q][j][t] \in Nat
                                                    /\ deliveries'[q][j][t] \in Nat
      /\ \A q \in Procs : OnAJob(q) => task[q].job \in Jobs
      /\ \A q \in Procs : task[q].accepted \in SUBSET Tokens /\ task'[q].accepted \in SUBSET Tokens
  BY DEF TypeOK, DeliveryInv, TaskInv, Task
<1>1. \A q \in Procs, j \in Jobs, t \in Tokens : deliveries[q][j][t] <= deliveries'[q][j][t]
  BY LedgerGrows
<1>2. \A q \in Procs : OnAJob(q) =>
        \A t \in task[q].accepted : deliveries'[q][task[q].job][t] > 0
  <2> SUFFICES ASSUME NEW q \in Procs, OnAJob(q), NEW t \in task[q].accepted
               PROVE  deliveries'[q][task[q].job][t] > 0
    OBVIOUS
  <2>1. task[q].job \in Jobs /\ t \in Tokens
    BY <1>0
  <2>2. deliveries[q][task[q].job][t] > 0
    BY DEF CountInv
  <2> QED BY <2>1, <2>2, <1>0, <1>1
<1>3. \A q \in Procs : OnAJob(q)' =>
        \A t \in task'[q].accepted : deliveries'[q][task'[q].job][t] > 0
  <2>1. CASE \E p \in Procs : PostChunk(p)
    <3>1. PICK p \in Procs : PostChunk(p)
      BY <2>1
    <3>2. /\ \A q \in Procs \ {p} : task'[q] = task[q]
          /\ OnAJob(p) /\ task'[p].job = task[p].job
          /\ \A t \in task'[p].accepted :
               t \in task[p].accepted \/ deliveries'[p][task[p].job][t] > 0
      BY <3>1, AnswerAdds
    <3>3. ASSUME NEW q \in Procs, OnAJob(q)', q # p
          PROVE  \A t \in task'[q].accepted : deliveries'[q][task'[q].job][t] > 0
      BY <1>2, <3>2, <3>3 DEF OnAJob
    <3> QED BY <1>2, <3>2, <3>3
  <2>2. CASE \A p \in Procs : ~PostChunk(p)
    BY <1>2, <2>2, OnlyAnswersAdd
  <2> QED BY <2>1, <2>2
<1>4. ASSUME NEW j \in Jobs
      PROVE  /\ IsFiniteSet(Reached(j)') /\ Cardinality(Reached(j)') \in Nat
             /\ IsFiniteSet(Reached(j)) /\ Cardinality(Reached(j)) \in Nat
             /\ Cardinality(Reached(j)) <= Cardinality(Reached(j)')
  <2>1. Reached(j) \subseteq Reached(j)' /\ Reached(j)' \subseteq Tokens
    BY <1>0, <1>1 DEF Reached
  <2>2. IsFiniteSet(Reached(j)')
    BY <2>1, PushAssumption, FS_Subset
  <2>3. IsFiniteSet(Reached(j)) /\ Cardinality(Reached(j)) <= Cardinality(Reached(j)')
    BY <2>1, <2>2, FS_Subset
  <2> QED BY <2>2, <2>3, FS_CardinalityType
<1>5. ASSUME NEW j \in Jobs PROVE recipients'[j] <= Cardinality(Reached(j)')
  <2>1. CASE recipients'[j] = recipients[j]
    <3>1. recipients[j] \in Nat /\ recipients[j] <= Cardinality(Reached(j))
      BY DEF TypeOK, CountInv, CountIsHonest
    <3> QED BY <2>1, <3>1, <1>4
  <2>2. ASSUME NEW p \in Procs, OnAJob(p), task[p].job = j,
               recipients'[j] = Cardinality(task[p].accepted)
        PROVE  recipients'[j] <= Cardinality(Reached(j)')
    <3>1. task[p].accepted \subseteq Reached(j)'
      BY <1>0, <1>2, <2>2 DEF Reached
    <3> QED BY <1>4, <2>2, <3>1, FS_Subset
  <2> QED BY <2>1, <2>2, CountWritten
<1> QED BY <1>3, <1>5 DEF CountInv, CountIsHonest

\* recipient_count never exceeds the number of devices that were handed the
\* notification, whoever writes it last (worker.go:151-154, push.go:88-90).
THEOREM CountHonest == Spec => []CountIsHonest
<1>1. Init => CountInv
  <2> SUFFICES ASSUME Init PROVE CountInv
    OBVIOUS
  <2>1. \A j \in Jobs : Reached(j) \subseteq Tokens
    BY DEF Reached
  <2>2. \A j \in Jobs : Cardinality(Reached(j)) \in Nat
    BY <2>1, PushAssumption, FS_Subset, FS_CardinalityType
  <2>3. \A j \in Jobs : recipients[j] = 0
    BY DEF Init
  <2>4. \A p \in Procs : ~OnAJob(p)
    BY DEF Init, Idle, OnAJob
  <2> QED BY <2>2, <2>3, <2>4 DEF CountInv, CountIsHonest
<1>2. TypeOK /\ TypeOK' /\ DeliveryInv /\ CountInv /\ [Next]_vars => CountInv'
  BY CountInductive
<1>3. CountInv => CountIsHonest
  BY DEF CountInv
<1> QED BY <1>1, <1>2, <1>3, TypeCorrect, DeliveryInvariant, PTL DEF Spec

LEMMA OffInductive ==
  ASSUME TypeOK, DeliveryInv, OffInv, [Next]_vars
  PROVE  OffInv'
<1>1. reported \subseteq reported'
  BY DEF Next, Environment, WorkerStep, Deliver, Schedule, SendInsert, Register, RemoveToken,
         Listen, LoseConnection, Notified, Ticked, Query, QueryFails, Drain, MarkSending,
         MarkSendingFails, Resolve, ResolveFails, PostChunk, Answered, PostFails, RecordSent,
         RecordFailed, Conclude, Deactivate, Cancel, Crash, Tick, vars
<1>2. \A q \in Procs : task'[q].bad \subseteq reported'
  <2>1. CASE \E p \in Procs : PostChunk(p)
    <3>1. PICK p \in Procs : PostChunk(p)
      BY <2>1
    <3>2. /\ \A q \in Procs \ {p} : task'[q] = task[q]
          /\ task'[p].bad \subseteq task[p].bad \union reported'
      BY <3>1, AnswerAdds
    <3> QED BY <1>1, <3>2 DEF OffInv
  <2>2. CASE \A p \in Procs : ~PostChunk(p)
    BY <1>1, <2>2, OnlyAnswersAdd DEF OffInv
  <2> QED BY <2>1, <2>2
<1>3. ASSUME NEW t \in Tokens, tokenRow'[t] = "inactive" PROVE t \in reported'
  <2>1. CASE tokenRow[t] = "inactive"
    BY <1>1, <2>1 DEF OffInv, OnlyReportedTokensAreOff
  <2>2. CASE tokenRow[t] # "inactive"
    <3>1. \/ tokenRow' = tokenRow
          \/ \E u \in Tokens : Register(u) \/ RemoveToken(u)
          \/ \E w \in Workers : Deactivate(w)
      BY DEF Next, Environment, WorkerStep, Deliver, Schedule, SendInsert, Listen,
             LoseConnection, Notified, Ticked, Query, QueryFails, Drain, MarkSending,
             MarkSendingFails, Resolve, ResolveFails, PostChunk, PostFails, RecordSent,
             RecordFailed, Conclude, Cancel, Crash, Tick, vars
    <3>2. ~ \E u \in Tokens : Register(u) \/ RemoveToken(u)
      BY <1>3, <2>2 DEF Register, RemoveToken, TypeOK
    <3>3. PICK w \in Workers : Deactivate(w)
      BY <1>3, <2>2, <3>1, <3>2
    <3>4. t \in task[w].bad
      BY <1>3, <2>2, <3>3 DEF Deactivate, TypeOK
    <3> QED BY <1>1, <3>4 DEF OffInv, Procs
  <2> QED BY <2>1, <2>2
<1> QED BY <1>2, <1>3 DEF OffInv, OnlyReportedTokensAreOff

\* Only tokens Expo reported as DeviceNotRegistered are ever switched off,
\* whatever fails and whoever registers them again (worker.go:156-161).
THEOREM OnlyReportedOff == Spec => []OnlyReportedTokensAreOff
<1>1. Init => OffInv
  BY DEF Init, OffInv, OnlyReportedTokensAreOff, Idle
<1>2. TypeOK /\ DeliveryInv /\ OffInv /\ [Next]_vars => OffInv'
  BY OffInductive
<1>3. OffInv => OnlyReportedTokensAreOff
  BY DEF OffInv
<1> QED BY <1>1, <1>2, <1>3, TypeCorrect, DeliveryInvariant, PTL DEF Spec

-----------------------------------------------------------------------------
(* PushDelivery implements NotificationLedger.                             *)

PhaseMap == [j \in Jobs |-> Phase(j)]

\* A row's status changes alone, when it is stored and when it is claimed or
\* settled.
LEMMA StatusMoves ==
  ASSUME TypeOK, DeliveryInv, [Next]_vars
  PROVE  \/ status' = status
         \/ /\ deliveries' = deliveries
            /\ \E j \in Jobs : \/ /\ status[j] = "none"
                                  /\ status' = [status EXCEPT ![j] = "scheduled"]
                               \/ /\ status' = [status EXCEPT ![j] = "sending"]
                               \/ /\ Taken(j)
                                  /\ \E s \in Settled : status' = [status EXCEPT ![j] = s]
<1>1. ASSUME NEW p \in Procs, RecordSent(p) \/ RecordFailed(p), status' # status
      PROVE  /\ deliveries' = deliveries
             /\ \E j \in Jobs : /\ Taken(j)
                                /\ \E s \in Settled : status' = [status EXCEPT ![j] = s]
  <2>1. task[p].job \in Jobs /\ Taken(task[p].job)
    BY <1>1 DEF RecordSent, RecordFailed, DeliveryInv, TaskInv, OnAJob, Stages
  <2> QED BY <1>1, <2>1 DEF RecordSent, RecordFailed, Conclude, Settled
<1>2. \/ status' = status
      \/ \E p \in Procs : RecordSent(p) \/ RecordFailed(p)
      \/ /\ deliveries' = deliveries
         /\ \E j \in Jobs : \/ /\ status[j] = "none"
                               /\ status' = [status EXCEPT ![j] = "scheduled"]
                            \/ status' = [status EXCEPT ![j] = "sending"]
  BY DEF Next, Environment, WorkerStep, Deliver, Procs, rowVars, vars, Schedule, SendInsert,
         Register, RemoveToken, Listen, LoseConnection, Notified, Ticked, Query, QueryFails,
         Drain, MarkSending, MarkSendingFails, Resolve, ResolveFails, PostChunk, PostFails,
         Deactivate, Cancel, Crash, Tick
<1> QED BY <1>1, <1>2

LEMMA LedgerStep ==
  ASSUME TypeOK, DeliveryInv, [Next]_vars
  PROVE  [Ledger!Next]_(Ledger!ledgerVars)
<1>0. /\ status \in [Jobs -> StoredStatus \union {"none"}]
      /\ deliveries \in [Procs -> [Jobs -> [Tokens -> Nat]]]
  BY DEF TypeOK
<1>1. CASE status' = status /\ deliveries' = deliveries
  BY <1>1 DEF Ledger!ledgerVars, Phase
<1>2. ASSUME NEW j \in Jobs, status[j] = "none", status' = [status EXCEPT ![j] = "scheduled"],
             deliveries' = deliveries
      PROVE  Ledger!Next
  <2>1. Phase(j) = "none"
    BY <1>2 DEF Phase
  <2>2. PhaseMap' = [PhaseMap EXCEPT ![j] = "waiting"]
    BY <1>0, <1>2 DEF PhaseMap, Phase
  <2> QED BY <1>2, <2>1, <2>2 DEF PhaseMap, Ledger!Next, Ledger!Accept
<1>3. ASSUME NEW j \in Jobs, NEW s \in {"sending", "sent", "failed"},
             status' = [status EXCEPT ![j] = s], deliveries' = deliveries
      PROVE  [Ledger!Next]_(Ledger!ledgerVars)
  <2>1. PhaseMap' = [PhaseMap EXCEPT ![j] = "claimed"]
    BY <1>0, <1>3 DEF PhaseMap, Phase
  <2>2. CASE Phase(j) = "claimed"
    <3>1. PhaseMap' = PhaseMap
      BY <2>1, <2>2 DEF PhaseMap
    <3> QED BY <1>3, <3>1 DEF PhaseMap, Ledger!ledgerVars
  <2>3. CASE Phase(j) # "claimed"
    BY <1>3, <2>1, <2>3 DEF PhaseMap, Ledger!Next, Ledger!Claim
  <2> QED BY <2>2, <2>3
<1>4. ASSUME NEW p \in Procs, PostChunk(p) \/ PostFails(p) PROVE Ledger!Next
  <2>1. /\ task[p].job \in Jobs /\ task[p].pending \in SUBSET Tokens
        /\ Taken(task[p].job) /\ task[p].at = "send" /\ status' = status
    BY <1>4 DEF PostChunk, PostFails, DeliveryInv, TaskInv, OnAJob, Stages, Task, TypeOK, rowVars
  <2>2. PICK C, ok : /\ C \in NextChunks(task[p].pending)
                     /\ ok \in SUBSET C /\ HandOver(p, ok)
    BY <1>4 DEF PostChunk, PostFails, Answered
  <2>3. ok \in SUBSET Tokens /\ ok \subseteq task[p].pending
    BY <2>1, <2>2 DEF NextChunks
  <2>4. \A t \in ok : deliveries[p][task[p].job][t] = 0
    BY <2>1, <2>3 DEF DeliveryInv, PendingInv
  <2> DEFINE d == deliveries[p][task[p].job]
             once == [t \in Tokens |-> IF t \in ok THEN 1 ELSE d[t]]
             more == [t \in Tokens |-> IF t \in ok THEN d[t] + 1 ELSE d[t]]
  <2>5. once = more
    BY <2>4
  <2>6. deliveries' = [deliveries EXCEPT ![p] = [deliveries[p] EXCEPT ![task[p].job] = more]]
    BY <1>0, <2>2 DEF HandOver
  <2>7. deliveries' = [deliveries EXCEPT ![p] = [deliveries[p] EXCEPT ![task[p].job] = once]]
    BY <2>5, <2>6
  <2>8. deliveries' = [deliveries EXCEPT ![p][task[p].job] =
                         [t \in Tokens |-> IF t \in ok THEN 1 ELSE @[t]]]
    BY <1>0, <2>7
  <2>9. PhaseMap' = PhaseMap /\ PhaseMap[task[p].job] = "claimed"
    BY <2>1 DEF PhaseMap, Phase, Taken
  <2>10. Ledger!Deliver(p, task[p].job, ok)
    BY <2>4, <2>8, <2>9 DEF PhaseMap, Ledger!Deliver
  <2> QED BY <2>1, <2>3, <2>10 DEF Ledger!Next
<1>5. \/ deliveries' = deliveries
      \/ \E p \in Procs : PostChunk(p) \/ PostFails(p)
  BY DEF Next, Environment, WorkerStep, Deliver, Procs, Schedule, SendInsert, Register,
         RemoveToken, Listen, LoseConnection, Notified, Ticked, Query, QueryFails, Drain,
         MarkSending, MarkSendingFails, Resolve, ResolveFails, RecordSent, RecordFailed, Conclude,
         Deactivate, Cancel, Crash, Tick, vars
<1> QED BY <1>1, <1>2, <1>3, <1>4, <1>5, StatusMoves DEF Settled

\* The subsystem keeps the ledger's promise: a notification is claimed once
\* and for all, and every sender hands it to every device at most once.
THEOREM Implementation == Spec => ImplementsLedger
<1>1. Init => Ledger!Init
  BY DEF Init, Ledger!Init, Phase
<1>2. TypeOK /\ DeliveryInv /\ [Next]_vars => [Ledger!Next]_(Ledger!ledgerVars)
  BY LedgerStep
<1> QED BY <1>1, <1>2, TypeCorrect, DeliveryInvariant, PTL
        DEF Spec, ImplementsLedger, Ledger!Spec
=============================================================================
