------------------------ MODULE PaymentIntents_proofs ------------------------
(* Theorems about PaymentIntents, for any intents, threads, jobs and bounds. *)
EXTENDS PaymentIntents, FiniteSetTheorems, TLAPS

PCs      == AttemptPCs \cup CallerPCs
PollRecs == [batch : SUBSET Jobs, job : Jobs, attempts : Nat]
ConfRecs == [pc : {"idle", "verify", "save"}, intent : Intents, row : Rows]
HookRecs == [pc : {"idle", "load", "save"}, event : Intents \X Kinds, row : Rows]
AdmRecs  == [pc : {"idle", "save", "answered"}, job : Jobs, row : JobRows]

-----------------------------------------------------------------------------
(* Types *)

(* The values that stand where a record has nothing to say. *)
LEMMA AnyTypes == AnyIntent \in Intents /\ AnyJob \in Jobs /\ AnyEvent \in Intents \X Kinds
  BY NotEmpty DEF AnyIntent, AnyJob, AnyEvent

LEMMA EmptyTypes == NoRow \in Rows /\ NoJob \in JobRows /\ NoWork \in PollRecs /\ Ended \in HookRecs
  BY AnyTypes DEF NoRow, NoJob, NoWork, Ended, Rows, Statuses, JobRows, PollRecs, HookRecs

(* A thread that takes a step to a known place keeps the type of pc. *)
LEMMA StepPcType ==
  ASSUME NEW t \in Refunders, NEW from, NEW to \in PCs, pc \in [Refunders -> PCs],
         Step(t, from, to)
  PROVE  pc' \in [Refunders -> PCs]
  BY DEF Step

(* The result of an attempt leads its caller to a known place. *)
LEMMA ResumeType == ASSUME NEW t, NEW result PROVE Resume(t, result) \in PCs
  BY DEF Resume, PCs, CallerPCs

(* An intent's row keeps its type under both forms of write. *)
LEMMA SetStatusType ==
  ASSUME NEW i \in Intents, NEW s \in Statuses, intent \in [Intents -> Rows], SetStatus(i, s)
  PROVE  intent' \in [Intents -> Rows]
  BY DEF SetStatus, Rows

LEMMA SaveType ==
  ASSUME NEW i \in Intents, NEW row \in Rows, intent \in [Intents -> Rows],
         over \in [Intents -> Nat], Save(i, row)
  PROVE  intent' \in [Intents -> Rows] /\ over' \in [Intents -> Nat]
  BY DEF Save

(* Records of the threads and the outbox keep their types when fields change. *)
LEMMA RecordTypes ==
  /\ \A rec \in ConfRecs, row \in Rows : [rec EXCEPT !.pc = "save", !.row = row] \in ConfRecs
  /\ \A rec \in HookRecs, row \in Rows : [rec EXCEPT !.pc = "save", !.row = row] \in HookRecs
  /\ \A rec \in JobRows, s \in Live : [rec EXCEPT !.status = s] \in JobRows
  /\ \A rec \in PollRecs, b \in SUBSET Jobs : [rec EXCEPT !.batch = b] \in PollRecs
  /\ \A rec \in PollRecs, n \in Nat : [rec EXCEPT !.attempts = n] \in PollRecs
<1>1. \A rec \in ConfRecs, row \in Rows : [rec EXCEPT !.pc = "save", !.row = row] \in ConfRecs
  BY DEF ConfRecs
<1>2. \A rec \in HookRecs, row \in Rows : [rec EXCEPT !.pc = "save", !.row = row] \in HookRecs
  BY DEF HookRecs
<1>3. \A rec \in JobRows, s \in Live : [rec EXCEPT !.status = s] \in JobRows
  BY DEF JobRows, Live
<1>4. \A rec \in PollRecs, b \in SUBSET Jobs : [rec EXCEPT !.batch = b] \in PollRecs
  BY DEF PollRecs
<1>5. \A rec \in PollRecs, n \in Nat : [rec EXCEPT !.attempts = n] \in PollRecs
  BY DEF PollRecs
<1> QED
  BY <1>1, <1>2, <1>3, <1>4, <1>5

(* What a webhook makes of a row is a row. *)
LEMMA AppliedType == ASSUME NEW row \in Rows, NEW kind \in Kinds PROVE Applied(row, kind) \in Rows
<1>1. CASE kind \in PaidKinds
  BY <1>1 DEF Applied, Rows, Statuses
<1>2. CASE kind = "failed"
  BY <1>2 DEF Applied, PaidKinds, Rows, Statuses
<1>3. CASE kind = "wrong_amount"
  BY <1>3 DEF Applied, PaidKinds
<1> QED
  BY <1>1, <1>2, <1>3, KindsKnown DEF PaidKinds

(* The initial state is well typed. *)
LEMMA InitType == Init => TypeOK
<1> SUFFICES ASSUME Init PROVE TypeOK
  OBVIOUS
<1>1. intent \in [Intents -> Rows] /\ job \in [Jobs -> JobRows]
  BY EmptyTypes DEF Init
<1>2. poll \in [Pollers -> PollRecs] /\ hook \in [Deliveries -> HookRecs]
  BY EmptyTypes DEF Init, Ended
<1>3. conf \in [Confirms -> ConfRecs] /\ adm \in [Admins -> AdmRecs]
  BY EmptyTypes, AnyTypes DEF Init, ConfRecs, AdmRecs
<1>4. pc \in [Refunders -> PCs] /\ tgt \in [Refunders -> Intents]
  BY AnyTypes DEF Init, PCs, CallerPCs
<1> QED
  BY <1>1, <1>2, <1>3, <1>4 DEF Init, TypeOK, PollRecs, HookRecs, ConfRecs, AdmRecs, PCs

(* The steps of customers, the PSP, confirmations and webhooks keep the types. *)
LEMMA OutsideTypes ==
  ASSUME TypeOK
  PROVE  /\ \A i \in Intents : CreateIntent(i) \/ OpenCheckout(i) \/ PspDeclines(i)
                               \/ PspCaptures(i) \/ UseIntent(i) => TypeOK'
         /\ \A c \in Confirms : ConfirmVerify(c) \/ ConfirmSave(c)
                                \/ (\E i \in Intents : ConfirmRead(c, i)) => TypeOK'
         /\ \A d \in Deliveries : HookLoad(d) \/ HookSave(d) \/ CrashHook(d)
                                  \/ (\E e \in events : HookRecord(d, e)) => TypeOK'
<1> USE DEF TypeOK, intentVars, jobVars, refundVars, readers
<1>1. ASSUME NEW i \in Intents, CreateIntent(i) PROVE TypeOK'
  BY <1>1, SetStatusType DEF CreateIntent, Statuses
<1>2. ASSUME NEW i \in Intents, OpenCheckout(i) PROVE TypeOK'
  BY <1>2, SetStatusType DEF OpenCheckout, Statuses
<1>3. ASSUME NEW i \in Intents, PspDeclines(i) PROVE TypeOK'
  BY <1>3 DEF PspDeclines
<1>4. ASSUME NEW i \in Intents, PspCaptures(i) PROVE TypeOK'
  BY <1>4 DEF PspCaptures
<1>5. ASSUME NEW i \in Intents, UseIntent(i) PROVE TypeOK'
  BY <1>5 DEF UseIntent
<1>6. ASSUME NEW c \in Confirms, NEW i \in Intents, ConfirmRead(c, i) PROVE TypeOK'
  BY <1>6 DEF ConfirmRead
<1>7. ASSUME NEW c \in Confirms, ConfirmVerify(c) PROVE TypeOK'
  <2>1. PICK v \in Verdicts(conf[c].intent), hasRef \in BOOLEAN :
          conf' = [conf EXCEPT ![c].pc = "save",
                               ![c].row = [status |-> v,
                                           ref |-> @.ref \/ (hasRef /\ v # "failed")]]
    BY <1>7 DEF ConfirmVerify
  <2>2. [status |-> v, ref |-> conf[c].row.ref \/ (hasRef /\ v # "failed")] \in Rows
    BY DEF Verdicts, Rows, Statuses
  <2> DEFINE new == [status |-> v, ref |-> conf[c].row.ref \/ (hasRef /\ v # "failed")]
  <2>3. conf \in [Confirms -> ConfRecs]
    BY DEF ConfRecs
  <2>4. conf' = [conf EXCEPT ![c] = [conf[c] EXCEPT !.pc = "save", !.row = new]]
    BY <2>1, <2>3, Zenon
  <2> HIDE DEF new
  <2>5. conf' \in [Confirms -> ConfRecs]
    BY <2>2, <2>3, <2>4, RecordTypes DEF new
  <2> QED
    BY <1>7, <2>5 DEF ConfirmVerify, ConfRecs
<1>8. ASSUME NEW c \in Confirms, ConfirmSave(c) PROVE TypeOK'
  <2>1. intent' \in [Intents -> Rows] /\ over' \in [Intents -> Nat]
    BY <1>8, SaveType DEF ConfirmSave
  <2>2. conf' \in [Confirms -> ConfRecs]
    BY <1>8, EmptyTypes, AnyTypes DEF ConfirmSave, ConfRecs
  <2> QED
    BY <1>8, <2>1, <2>2 DEF ConfirmSave, ConfRecs
<1>9. ASSUME NEW d \in Deliveries, NEW e \in events, HookRecord(d, e) PROVE TypeOK'
  BY <1>9, EmptyTypes DEF HookRecord
<1>10. ASSUME NEW d \in Deliveries, HookLoad(d) PROVE TypeOK'
  <2> DEFINE new == Applied(intent[hook[d].event[1]], hook[d].event[2])
  <2>1. new \in Rows
    BY AppliedType
  <2>2. hook \in [Deliveries -> HookRecs]
    BY DEF HookRecs
  <2>3. [hook[d] EXCEPT !.pc = "save", !.row = new] \in HookRecs
    BY <2>1, <2>2, RecordTypes
  <2>4. hook' \in [Deliveries -> HookRecs]
    BY <1>10, <2>2, <2>3, EmptyTypes DEF HookLoad
  <2> QED
    BY <1>10, <2>4 DEF HookLoad, HookRecs
<1>11. ASSUME NEW d \in Deliveries, HookSave(d) PROVE TypeOK'
  <2>1. intent' \in [Intents -> Rows] /\ over' \in [Intents -> Nat]
    BY <1>11, SaveType DEF HookSave
  <2> QED
    BY <1>11, <2>1, EmptyTypes DEF HookSave, HookRecs
<1>12. ASSUME NEW d \in Deliveries, CrashHook(d) PROVE TypeOK'
  BY <1>12, EmptyTypes DEF CrashHook, HookRecs
<1> QED
  BY <1>1, <1>2, <1>3, <1>4, <1>5, <1>6, <1>7, <1>8, <1>9, <1>10, <1>11, <1>12

(* So do the steps of attemptPspRefund. *)
LEMMA AttemptTypes == ASSUME TypeOK, NEW t \in Refunders, Attempt(t) PROVE TypeOK'
<1> USE DEF TypeOK, intentVars, jobVars, refundVars, readers
<1>1. CASE AttemptRead(t)
  BY <1>1, StepPcType, ResumeType DEF AttemptRead, Return, PCs, AttemptPCs
<1>2. CASE AttemptClaim(t)
  <2>1. intent' \in [Intents -> Rows]
    BY <1>2, SetStatusType DEF AttemptClaim, Statuses
  <2> QED
    BY <1>2, <2>1, StepPcType DEF AttemptClaim, PCs, AttemptPCs
<1>3. CASE AttemptRecheck(t)
  BY <1>3, StepPcType, ResumeType DEF AttemptRecheck, Return, PCs
<1>4. CASE PspRefund(t)
  <2>1. pc' \in [Refunders -> PCs]
    BY <1>4, StepPcType DEF PspRefund, PCs, AttemptPCs
  <2>2. refunds' \in [Intents -> Nat] /\ lost' \in [Intents -> Nat]
    BY <1>4 DEF PspRefund
  <2> QED
    BY <1>4, <2>1, <2>2 DEF PspRefund, PCs
<1>5. CASE AttemptMark(t)
  <2>1. intent' \in [Intents -> Rows] /\ lost' \in [Intents -> Nat]
    BY <1>5, SetStatusType DEF AttemptMark, Statuses
  <2>2. pc' \in [Refunders -> PCs]
    BY <1>5, StepPcType, ResumeType DEF AttemptMark, Return, PCs, AttemptPCs
  <2> QED
    BY <1>5, <2>1, <2>2 DEF AttemptMark, PCs
<1>6. CASE AttemptRevert(t)
  <2>1. intent' \in [Intents -> Rows]
    BY <1>6, SetStatusType DEF AttemptRevert, Statuses
  <2> QED
    BY <1>6, <2>1, StepPcType, ResumeType DEF AttemptRevert, Return, PCs
<1> QED
  BY <1>1, <1>2, <1>3, <1>4, <1>5, <1>6 DEF Attempt

(* So do the requests around it, the outbox and the admin's retry. *)
LEMMA CallerTypes ==
  ASSUME TypeOK
  PROVE  /\ \A r \in Requests : Enqueue(r) \/ (\E i \in Intents : StartRequest(r, i)) => TypeOK'
         /\ \A p \in Pollers : Work(p) => TypeOK'
         /\ \A a \in Admins : RetrySave(a) \/ (\E j \in Jobs : RetryRead(a, j)) => TypeOK'
         /\ \A t \in Refunders : Crash(t) => TypeOK'
<1> USE DEF TypeOK, intentVars, jobVars, refundVars, readers
<1>1. ASSUME NEW r \in Requests, NEW i \in Intents, StartRequest(r, i) PROVE TypeOK'
  BY <1>1, StepPcType DEF StartRequest, Refunders, PCs, AttemptPCs
<1>2. ASSUME NEW r \in Requests, EnqueueFind(r) PROVE TypeOK'
  BY <1>2, StepPcType DEF EnqueueFind, Refunders, PCs, CallerPCs
<1>3. ASSUME NEW r \in Requests, EnqueueInsert(r) PROVE TypeOK'
  <2>1. job' \in [Jobs -> JobRows]
    BY <1>3 DEF EnqueueInsert, JobRows, Refunders
  <2> QED
    BY <1>3, <2>1, StepPcType DEF EnqueueInsert, Refunders, PCs, CallerPCs
<1>4. ASSUME NEW p \in Pollers, PollDue(p) PROVE TypeOK'
  <2>1. poll' \in [Pollers -> PollRecs]
    BY <1>4 DEF PollDue, PollRecs
  <2> QED
    BY <1>4, <2>1, StepPcType DEF PollDue, PollRecs, Refunders, PCs, CallerPCs
<1>5. ASSUME NEW p \in Pollers, JobClaim(p) PROVE TypeOK'
  <2> PICK j \in poll[p].batch :
         \/ /\ job' = [job EXCEPT ![j].status = "processing"]
            /\ poll' = [poll EXCEPT ![p] = [batch |-> poll[p].batch \ {j}, job |-> j, attempts |-> 0]]
         \/ /\ poll' = [poll EXCEPT ![p].batch = poll[p].batch \ {j}]
            /\ UNCHANGED job
    BY <1>5 DEF JobClaim
  <2>1. j \in Jobs /\ [job[j] EXCEPT !.status = "processing"] \in JobRows
    BY RecordTypes DEF Live
  <2>2. job' \in [Jobs -> JobRows]
    BY <2>1
  <2>3. poll \in [Pollers -> PollRecs] /\ poll[p].batch \ {j} \in SUBSET Jobs
    BY DEF PollRecs
  <2>4. /\ [batch |-> poll[p].batch \ {j}, job |-> j, attempts |-> 0] \in PollRecs
        /\ [poll[p] EXCEPT !.batch = poll[p].batch \ {j}] \in PollRecs
    BY <2>1, <2>3, RecordTypes DEF PollRecs
  <2>5. poll' \in [Pollers -> PollRecs]
    BY <2>3, <2>4
  <2>6. pc' \in [Refunders -> PCs]
    BY <1>5, StepPcType DEF JobClaim, AfterJob, Refunders, PCs, CallerPCs
  <2> QED
    BY <1>5, <2>2, <2>5, <2>6 DEF JobClaim, PollRecs, PCs
<1>6. ASSUME NEW p \in Pollers, JobLoad(p) PROVE TypeOK'
  <2>1. job[poll[p].job] \in JobRows
    OBVIOUS
  <2>2. job[poll[p].job].attempts \in Nat /\ job[poll[p].job].intent \in Intents
    BY <2>1 DEF JobRows
  <2>3. poll \in [Pollers -> PollRecs]
    BY DEF PollRecs
  <2>4. poll' \in [Pollers -> PollRecs]
    BY <1>6, <2>2, <2>3, RecordTypes DEF JobLoad
  <2>5. tgt' \in [Refunders -> Intents]
    BY <1>6, <2>2 DEF JobLoad
  <2> QED
    BY <1>6, <2>4, <2>5, StepPcType DEF JobLoad, PollRecs, Refunders, PCs, AttemptPCs
<1>7. ASSUME NEW p \in Pollers, NEW from, NEW s \in {"done", "dead", "pending"},
             JobSave(p, from, s) PROVE TypeOK'
  <2>1. job' \in [Jobs -> JobRows]
    BY <1>7 DEF JobSave, JobRows, Refunders
  <2>2. poll' \in [Pollers -> PollRecs]
    BY <1>7, EmptyTypes DEF JobSave, PollRecs
  <2>3. pc' \in [Refunders -> PCs]
    BY <1>7, StepPcType DEF JobSave, AfterJob, Refunders, PCs, CallerPCs
  <2> QED
    BY <1>7, <2>1, <2>2, <2>3 DEF JobSave, PollRecs, PCs
<1>8. ASSUME NEW a \in Admins, NEW j \in Jobs, RetryRead(a, j) PROVE TypeOK'
  BY <1>8 DEF RetryRead
<1>9. ASSUME NEW a \in Admins, RetrySave(a) PROVE TypeOK'
  <2>1. adm[a].job \in Jobs /\ [adm[a].row EXCEPT !.status = "pending"] \in JobRows
    BY RecordTypes DEF Live
  <2>2. job' \in [Jobs -> JobRows]
    BY <1>9, <2>1 DEF RetrySave
  <2> QED
    BY <1>9, <2>2, EmptyTypes, AnyTypes DEF RetrySave
<1>10. ASSUME NEW t \in Refunders, Crash(t) PROVE TypeOK'
  <2>1. poll' \in [Pollers -> PollRecs]
    BY <1>10, EmptyTypes DEF Crash, PollRecs
  <2>2. pc' \in [Refunders -> PCs] /\ refunds' \in [Intents -> Nat]
    BY <1>10 DEF Crash, PCs, CallerPCs
  <2> QED
    BY <1>10, <2>1, <2>2 DEF Crash, PollRecs, PCs
<1> QED
  BY <1>1, <1>2, <1>3, <1>4, <1>5, <1>6, <1>7, <1>8, <1>9, <1>10
     DEF Enqueue, Work, JobDone, FailAttempt

(* Every step keeps the types. *)
LEMMA NextType == TypeOK /\ [Next]_vars => TypeOK'
<1> SUFFICES ASSUME TypeOK, [Next]_vars PROVE TypeOK'
  OBVIOUS
<1>1. CASE UNCHANGED vars
  BY <1>1 DEF TypeOK, vars, intentVars, jobVars, refundVars, readers
<1>2. CASE Next
  BY <1>2, OutsideTypes, AttemptTypes, CallerTypes DEF Next, Environment
<1> QED
  BY <1>1, <1>2

(* The rows, requests and jobs of the payment side keep their types. *)
THEOREM TypeCorrect == Spec => []TypeOK
<1>1. Init => TypeOK
  BY InitType
<1>2. TypeOK /\ [Next]_vars => TypeOK'
  BY NextType
<1> QED
  BY <1>1, <1>2, PTL DEF Spec

-----------------------------------------------------------------------------
(* What a step does to the refunds *)

\* The places at which a thread holds the claim of its intent.
HeldPCs == {"psp", "mark", "revert"}

\* Steps of requests, the outbox and admins that leave intents and claims alone.
Aside ==
  /\ UNCHANGED <<intentVars, refunds, lost, readers, over, crashes>>
  /\ \A t \in Refunders :
       (pc'[t] # pc[t] \/ tgt'[t] # tgt[t]) => pc[t] \notin HeldPCs /\ pc'[t] \notin HeldPCs

\* Steps of customers, the PSP, confirmations and webhooks: a row that they move
\* in or out of a refund is counted.
Outside ==
  /\ UNCHANGED <<pc, tgt, refunds, lost, jobVars>>
  /\ crashes' \in {crashes, crashes + 1}
  /\ \A i \in Intents :
       \/ over'[i] = over[i] + 1
       \/ /\ over'[i] = over[i]
          /\ \/ intent'[i].status = intent[i].status
             \/ intent[i].status \notin Refunding /\ intent'[i].status \notin Refunding

\* A successful claim.
Claims(t) == AttemptClaim(t) /\ intent[tgt[t]].status = "succeeded"

Refunds(t) == Claims(t) \/ PspRefund(t) \/ AttemptMark(t) \/ AttemptRevert(t) \/ Crash(t)

(* A save counts in over when it moves a row in or out of a refund. *)
LEMMA SaveShape ==
  ASSUME TypeOK, NEW k \in Intents, NEW row \in Rows, Save(k, row)
  PROVE  \A i \in Intents :
           \/ over'[i] = over[i] + 1
           \/ /\ over'[i] = over[i]
              /\ \/ intent'[i].status = intent[i].status
                 \/ intent[i].status \notin Refunding /\ intent'[i].status \notin Refunding
<1>1. CASE Disturbs(k, row)
  BY <1>1 DEF Save, TypeOK
<1>2. CASE ~Disturbs(k, row)
  BY <1>2 DEF Save, Disturbs, TypeOK
<1> QED
  BY <1>1, <1>2

(* Steps of the outside world have that shape. *)
LEMMA OutsideShape ==
  ASSUME TypeOK
  PROVE  /\ \A i \in Intents : CreateIntent(i) \/ OpenCheckout(i) \/ PspDeclines(i)
                               \/ PspCaptures(i) \/ UseIntent(i) => Outside
         /\ \A c \in Confirms : ConfirmVerify(c) \/ ConfirmSave(c)
                                \/ (\E i \in Intents : ConfirmRead(c, i)) => Outside
         /\ \A d \in Deliveries : HookLoad(d) \/ HookSave(d) \/ CrashHook(d)
                                  \/ (\E e \in events : HookRecord(d, e)) => Outside
<1> USE DEF Outside, intentVars, refundVars, readers
<1>1. ASSUME NEW i \in Intents, CreateIntent(i) \/ OpenCheckout(i) PROVE Outside
  BY <1>1 DEF CreateIntent, OpenCheckout, SetStatus, TypeOK, Rows, Refunding
<1>2. ASSUME NEW i \in Intents, PspDeclines(i) \/ PspCaptures(i) \/ UseIntent(i) PROVE Outside
  BY <1>2 DEF PspDeclines, PspCaptures, UseIntent
<1>3. ASSUME NEW c \in Confirms, NEW i \in Intents, ConfirmRead(c, i) PROVE Outside
  BY <1>3 DEF ConfirmRead
<1>4. ASSUME NEW c \in Confirms, ConfirmVerify(c) PROVE Outside
  BY <1>4 DEF ConfirmVerify
<1>5. ASSUME NEW c \in Confirms, ConfirmSave(c) PROVE Outside
  <2>1. conf[c].intent \in Intents /\ conf[c].row \in Rows
    BY DEF TypeOK
  <2> QED
    BY <1>5, <2>1, SaveShape DEF ConfirmSave
<1>6. ASSUME NEW d \in Deliveries, HookLoad(d) PROVE Outside
  BY <1>6 DEF HookLoad
<1>7. ASSUME NEW d \in Deliveries, HookSave(d) PROVE Outside
  <2>1. hook[d].event[1] \in Intents /\ hook[d].row \in Rows
    BY DEF TypeOK
  <2> QED
    BY <1>7, <2>1, SaveShape DEF HookSave
<1>8. ASSUME NEW d \in Deliveries, NEW e \in events, HookRecord(d, e) PROVE Outside
  BY <1>8 DEF HookRecord
<1>9. ASSUME NEW d \in Deliveries, CrashHook(d) PROVE Outside
  BY <1>9 DEF CrashHook
<1> QED
  BY <1>1, <1>2, <1>3, <1>4, <1>5, <1>6, <1>7, <1>8, <1>9

(* A thread that takes a step between two places without a claim is aside. *)
LEMMA StepAside ==
  ASSUME TypeOK, NEW t \in Refunders, NEW from \in PCs \ HeldPCs, NEW to \in PCs \ HeldPCs,
         Step(t, from, to), \A u \in Refunders \ {t} : tgt'[u] = tgt[u],
         UNCHANGED <<intentVars, refunds, lost, readers, over, crashes>>
  PROVE  Aside
  BY DEF Step, Aside, TypeOK

LEMMA ResumeUnheld == ASSUME NEW t, NEW result PROVE Resume(t, result) \in PCs \ HeldPCs
  BY DEF Resume, PCs, CallerPCs, HeldPCs

(* Requests around the attempt, the outbox and the admin have the other shape. *)
LEMMA AsideShape ==
  ASSUME TypeOK
  PROVE  /\ \A r \in Requests : Enqueue(r) \/ (\E i \in Intents : StartRequest(r, i)) => Aside
         /\ \A p \in Pollers : Work(p) => Aside
         /\ \A a \in Admins : RetrySave(a) \/ (\E j \in Jobs : RetryRead(a, j)) => Aside
         /\ \A t \in Refunders : AttemptRead(t) \/ AttemptRecheck(t)
                                 \/ (AttemptClaim(t) /\ ~Claims(t)) => Aside
<1> DEFINE Free == PCs \ HeldPCs
<1>0. {"idle", "find", "insert", "next", "load", "saveDone", "saveFail", "read", "claim", "recheck"}
        \subseteq Free
  BY DEF PCs, AttemptPCs, CallerPCs, HeldPCs
<1> USE DEF intentVars, refundVars, Refunders
<1>1. ASSUME NEW r \in Requests, NEW i \in Intents, StartRequest(r, i) PROVE Aside
  BY <1>1, <1>0, StepAside DEF StartRequest, TypeOK
<1>2. ASSUME NEW r \in Requests, EnqueueFind(r) PROVE Aside
  BY <1>2, <1>0, StepAside DEF EnqueueFind
<1>3. ASSUME NEW r \in Requests, EnqueueInsert(r) PROVE Aside
  BY <1>3, <1>0, StepAside DEF EnqueueInsert
<1>4. ASSUME NEW p \in Pollers, PollDue(p) PROVE Aside
  BY <1>4, <1>0, StepAside DEF PollDue
<1>5. ASSUME NEW p \in Pollers, JobClaim(p) PROVE Aside
  BY <1>5, <1>0, StepAside DEF JobClaim, AfterJob
<1>6. ASSUME NEW p \in Pollers, JobLoad(p) PROVE Aside
  BY <1>6, <1>0, StepAside DEF JobLoad, TypeOK
<1>7. ASSUME NEW p \in Pollers, NEW from \in {"saveDone", "saveFail"}, NEW s, JobSave(p, from, s)
      PROVE  Aside
  BY <1>7, <1>0, StepAside DEF JobSave, AfterJob
<1>8. ASSUME NEW a \in Admins, NEW j \in Jobs, RetryRead(a, j) PROVE Aside
  BY <1>8 DEF RetryRead, Aside
<1>9. ASSUME NEW a \in Admins, RetrySave(a) PROVE Aside
  BY <1>9 DEF RetrySave, Aside
<1>10. ASSUME NEW t \in Refunders, AttemptRead(t) PROVE Aside
  BY <1>10, <1>0, StepAside, ResumeUnheld DEF AttemptRead, Return
<1>11. ASSUME NEW t \in Refunders, AttemptRecheck(t) PROVE Aside
  BY <1>11, <1>0, StepAside, ResumeUnheld DEF AttemptRecheck, Return
<1>12. ASSUME NEW t \in Refunders, AttemptClaim(t), ~Claims(t) PROVE Aside
  BY <1>12, <1>0, StepAside DEF AttemptClaim, Claims
<1> QED
  BY <1>1, <1>2, <1>3, <1>4, <1>5, <1>6, <1>7, <1>8, <1>9, <1>10, <1>11, <1>12
     DEF Enqueue, Work, JobDone, FailAttempt

(* Every step is of one of these kinds. *)
LEMMA StepShape ==
  ASSUME TypeOK, [Next]_vars
  PROVE  Aside \/ Outside \/ \E t \in Refunders : Refunds(t)
<1>1. CASE UNCHANGED vars
  BY <1>1 DEF vars, intentVars, jobVars, refundVars, readers, Aside
<1>2. CASE Next
  BY <1>2, OutsideShape, AsideShape DEF Next, Environment, Attempt, Refunds
<1> QED
  BY <1>1, <1>2

-----------------------------------------------------------------------------
(* Claims: at most one thread at a time, and never none *)

\* OneClaimant, thread by thread.
Sole ==
  \A i \in Intents : over[i] = 0 => \A t \in Claimants(i) :
    intent[i].status = "refund_pending" /\ \A u \in Claimants(i) : u = t

(* The claim stays exclusive, because it tests and sets the status in one step. *)
LEMMA StepSole == TypeOK /\ Sole /\ [Next]_vars => Sole'
<1> SUFFICES ASSUME TypeOK, Sole, [Next]_vars,
                    NEW i \in Intents, over'[i] = 0, NEW t \in Claimants(i)'
             PROVE  intent'[i].status = "refund_pending" /\ \A u \in Claimants(i)' : u = t
  BY DEF Sole
<1> USE DEF Claimants, HeldPCs
<1>1. CASE Aside
  BY <1>1 DEF Aside, Sole, TypeOK, intentVars
<1>2. CASE Outside
  BY <1>2 DEF Outside, Sole, TypeOK, Refunding
<1>3. ASSUME NEW v \in Refunders, Claims(v)
      PROVE  intent'[i].status = "refund_pending" /\ \A u \in Claimants(i)' : u = t
  <2>1. /\ pc' = [pc EXCEPT ![v] = "psp"] /\ tgt' = tgt /\ over' = over
        /\ intent[tgt[v]].status = "succeeded"
        /\ intent' = [intent EXCEPT ![tgt[v]].status = "refund_pending"]
    BY <1>3 DEF Claims, AttemptClaim, Step, SetStatus
  <2>2. CASE tgt[v] = i
    <3>1. Claimants(i) = {}
      BY <2>1, <2>2 DEF Sole
    <3>2. \A u \in Claimants(i)' : u = v
      BY <2>1, <3>1 DEF TypeOK
    <3> QED
      BY <2>1, <2>2, <3>2 DEF TypeOK, Rows
  <2>3. CASE tgt[v] # i
    <3>1. Claimants(i)' = Claimants(i) /\ intent'[i] = intent[i]
      BY <2>1, <2>3 DEF TypeOK
    <3> QED
      BY <2>1, <3>1 DEF Sole
  <2> QED
    BY <2>2, <2>3
<1>4. ASSUME NEW v \in Refunders, PspRefund(v)
      PROVE  intent'[i].status = "refund_pending" /\ \A u \in Claimants(i)' : u = t
  BY <1>4 DEF PspRefund, Step, Sole, TypeOK, intentVars
<1>5. ASSUME NEW v \in Refunders, AttemptMark(v)
      PROVE  intent'[i].status = "refund_pending" /\ \A u \in Claimants(i)' : u = t
  BY <1>5, ResumeUnheld DEF AttemptMark, Return, Step, SetStatus, Sole, TypeOK, Rows
<1>6. ASSUME NEW v \in Refunders, AttemptRevert(v)
      PROVE  intent'[i].status = "refund_pending" /\ \A u \in Claimants(i)' : u = t
  BY <1>6, ResumeUnheld DEF AttemptRevert, Return, Step, SetStatus, Sole, TypeOK, Rows
<1>7. ASSUME NEW v \in Refunders, Crash(v)
      PROVE  intent'[i].status = "refund_pending" /\ \A u \in Claimants(i)' : u = t
  BY <1>7 DEF Crash, Sole, TypeOK, intentVars
<1> QED
  BY <1>1, <1>2, <1>3, <1>4, <1>5, <1>6, <1>7, StepShape DEF Refunds

(* Equal elements make at most one. *)
LEMMA SoleIsOne == TypeOK /\ Sole => OneClaimant
<1> SUFFICES ASSUME TypeOK, Sole, NEW i \in Intents, over[i] = 0
             PROVE  /\ Cardinality(Claimants(i)) <= 1
                    /\ Claimants(i) # {} => intent[i].status = "refund_pending"
  BY DEF OneClaimant
<1>1. CASE Claimants(i) = {}
  BY <1>1, FS_EmptySet
<1>2. ASSUME NEW t \in Claimants(i) PROVE Claimants(i) = {t} /\ intent[i].status = "refund_pending"
  BY DEF Sole
<1>3. ASSUME NEW t \in Claimants(i) PROVE Cardinality(Claimants(i)) = 1
  BY <1>2, FS_Singleton
<1> QED
  BY <1>1, <1>2, <1>3

(* A pending refund keeps a thread that works on it. *)
LEMMA StepOwner == TypeOK /\ PendingRefundHasOwner /\ [Next]_vars => PendingRefundHasOwner'
<1> SUFFICES ASSUME TypeOK, PendingRefundHasOwner, [Next]_vars, NEW i \in Intents,
                    crashes' = 0, over'[i] = 0, intent'[i].status = "refund_pending"
             PROVE  \E t \in Refunders : tgt'[t] = i /\ pc'[t] \in HeldPCs
  BY DEF PendingRefundHasOwner, Claimants, HeldPCs
<1>0. ASSUME crashes = 0, over[i] = 0, intent[i].status = "refund_pending"
      PROVE  \E t \in Refunders : tgt[t] = i /\ pc[t] \in HeldPCs
  BY <1>0 DEF PendingRefundHasOwner, Claimants, HeldPCs
<1>1. CASE Aside
  BY <1>0, <1>1 DEF Aside, intentVars
<1>2. CASE Outside
  BY <1>0, <1>2 DEF Outside, Refunding, TypeOK
<1>3. ASSUME NEW v \in Refunders, Claims(v)
      PROVE  \E t \in Refunders : tgt'[t] = i /\ pc'[t] \in HeldPCs
  <2>1. CASE tgt[v] = i
    BY <1>3, <2>1 DEF Claims, AttemptClaim, Step, TypeOK, HeldPCs
  <2>2. CASE tgt[v] # i
    BY <1>0, <1>3, <2>2 DEF Claims, AttemptClaim, Step, SetStatus, TypeOK, HeldPCs
  <2> QED
    BY <2>1, <2>2
<1>4. ASSUME NEW v \in Refunders, PspRefund(v)
      PROVE  \E t \in Refunders : tgt'[t] = i /\ pc'[t] \in HeldPCs
  BY <1>0, <1>4 DEF PspRefund, Step, TypeOK, intentVars, HeldPCs
<1>5. ASSUME NEW v \in Refunders, AttemptMark(v)
      PROVE  \E t \in Refunders : tgt'[t] = i /\ pc'[t] \in HeldPCs
  BY <1>0, <1>5 DEF AttemptMark, Return, Step, SetStatus, TypeOK, Rows, HeldPCs
<1>6. ASSUME NEW v \in Refunders, AttemptRevert(v)
      PROVE  \E t \in Refunders : tgt'[t] = i /\ pc'[t] \in HeldPCs
  BY <1>0, <1>6 DEF AttemptRevert, Return, Step, SetStatus, TypeOK, Rows, HeldPCs
<1>7. ASSUME NEW v \in Refunders, Crash(v) PROVE FALSE
  BY <1>7 DEF Crash, TypeOK
<1> QED
  BY <1>1, <1>2, <1>3, <1>4, <1>5, <1>6, <1>7, StepShape DEF Refunds

-----------------------------------------------------------------------------
(* The ledger of refunds *)

\* Threads that may still add a refund, or have added one they do not own up to.
Holders(i) == {t \in Refunders : tgt[t] = i /\ pc[t] \in {"psp", "revert"}}

\* Refunds made or still possible are covered by faults, and by the one refund
\* that the row shows while it is pending or done.
Ledger ==
  \A i \in Intents :
    /\ refunds[i] + Cardinality(Holders(i)) <= lost[i] + over[i] + 1
    /\ intent[i].status \notin Refunding =>
         refunds[i] + Cardinality(Holders(i)) <= lost[i] + over[i]

LEMMA HoldersFinite == ASSUME NEW i PROVE IsFiniteSet(Holders(i)) /\ Cardinality(Holders(i)) \in Nat
<1>1. IsFiniteSet(Refunders)
  BY FiniteThreads, FS_Union DEF Refunders
<1> QED
  BY <1>1, FS_Subset, FS_CardinalityType DEF Holders

(* A thread that starts or stops to hold changes the count by one. *)
LEMMA HolderCounts ==
  ASSUME NEW i, NEW t
  PROVE  /\ t \notin Holders(i) /\ Holders(i)' = Holders(i) \cup {t} =>
              Cardinality(Holders(i)') = Cardinality(Holders(i)) + 1
         /\ t \in Holders(i) /\ Holders(i)' = Holders(i) \ {t} =>
              Cardinality(Holders(i)') = Cardinality(Holders(i)) - 1
  BY HoldersFinite, FS_AddElement, FS_RemoveElement

(* How the holders of an intent follow the step of one thread. *)
LEMMA HoldersMove ==
  ASSUME TypeOK, NEW i, NEW t \in Refunders, NEW from \in PCs, NEW to \in PCs,
         Step(t, from, to), tgt' = tgt
  PROVE  /\ tgt[t] # i => Holders(i)' = Holders(i)
         /\ from \in {"psp", "revert"} /\ to \in {"psp", "revert"} => Holders(i)' = Holders(i)
         /\ tgt[t] = i /\ from \notin {"psp", "revert"} /\ to \in {"psp", "revert"} =>
              t \notin Holders(i) /\ Holders(i)' = Holders(i) \cup {t}
         /\ tgt[t] = i /\ from \in {"psp", "revert"} /\ to \notin {"psp", "revert"} =>
              t \in Holders(i) /\ Holders(i)' = Holders(i) \ {t}
         /\ from \notin {"psp", "revert"} /\ to \notin {"psp", "revert"} =>
              Holders(i)' = Holders(i)
  BY DEF Step, Holders, TypeOK

(* Each kind of step keeps the ledger of every intent. *)
LEMMA StepLedger == TypeOK /\ Ledger /\ [Next]_vars => Ledger'
<1> DEFINE Even(i) == /\ refunds[i] + Cardinality(Holders(i)) <= lost[i] + over[i] + 1
                      /\ intent[i].status \notin Refunding =>
                           refunds[i] + Cardinality(Holders(i)) <= lost[i] + over[i]
<1> SUFFICES ASSUME TypeOK, Ledger, [Next]_vars, NEW i \in Intents PROVE Even(i)'
  BY DEF Ledger
<1>0. /\ Even(i)
      /\ refunds[i] \in Nat /\ lost[i] \in Nat /\ over[i] \in Nat
      /\ Cardinality(Holders(i)) \in Nat
  BY HoldersFinite DEF Ledger, TypeOK
<1> DEFINE Same == Holders(i)' = Holders(i)
<1>1. CASE Aside
  <2>1. Same
    BY <1>1 DEF Aside, Holders, HeldPCs
  <2> QED
    BY <1>0, <1>1, <2>1 DEF Aside, intentVars
<1>2. CASE Outside
  <2>1. Same
    BY <1>2 DEF Outside, Holders
  <2> QED
    BY <1>0, <1>2, <2>1 DEF Outside
<1>3. ASSUME NEW t \in Refunders, Claims(t) PROVE Even(i)'
  <2>1. Step(t, "claim", "psp") /\ UNCHANGED <<tgt, refunds, lost, over>>
    BY <1>3 DEF Claims, AttemptClaim
  <2>2. CASE tgt[t] = i
    <3>1. Cardinality(Holders(i)') = Cardinality(Holders(i)) + 1
      BY <2>1, <2>2, HoldersMove, HolderCounts DEF PCs, AttemptPCs
    <3>2. intent[i].status \notin Refunding /\ intent'[i].status \in Refunding
      BY <1>3, <2>2 DEF Claims, AttemptClaim, SetStatus, Refunding, TypeOK, Rows, Step
    <3> QED
      BY <1>0, <2>1, <3>1, <3>2
  <2>3. CASE tgt[t] # i
    <3>1. Same
      BY <2>1, <2>3, HoldersMove DEF PCs, AttemptPCs
    <3>2. intent'[i] = intent[i]
      BY <1>3, <2>3 DEF Claims, AttemptClaim, SetStatus, TypeOK, Step
    <3> QED
      BY <1>0, <2>1, <3>1, <3>2
  <2> QED
    BY <2>2, <2>3
<1>4. ASSUME NEW t \in Refunders, PspRefund(t) PROVE Even(i)'
  <2>1. UNCHANGED <<tgt, intent, over>>
    BY <1>4 DEF PspRefund, intentVars
  <2>2. CASE Step(t, "psp", "revert") /\ UNCHANGED <<refunds, lost>>
    <3>1. Same
      BY <2>1, <2>2, HoldersMove DEF PCs, AttemptPCs
    <3> QED
      BY <1>0, <2>1, <2>2, <3>1
  <2>3. CASE /\ Step(t, "psp", "mark")
             /\ refunds' = [refunds EXCEPT ![tgt[t]] = @ + 1]
             /\ UNCHANGED lost
    <3>1. CASE tgt[t] = i
      <4>1. t \in Holders(i) /\ Holders(i)' = Holders(i) \ {t}
        BY <2>1, <2>3, <3>1, HoldersMove DEF PCs, AttemptPCs
      <4>2. Cardinality(Holders(i)') = Cardinality(Holders(i)) - 1
        BY <4>1, HolderCounts
      <4>3. refunds'[i] = refunds[i] + 1
        BY <2>3, <3>1 DEF TypeOK
      <4> QED
        BY <1>0, <2>1, <2>3, <4>2, <4>3
    <3>2. CASE tgt[t] # i
      <4>1. Same /\ refunds'[i] = refunds[i]
        BY <2>1, <2>3, <3>2, HoldersMove DEF PCs, AttemptPCs, TypeOK
      <4> QED
        BY <1>0, <2>1, <2>3, <4>1
    <3> QED
      BY <3>1, <3>2
  <2>4. CASE /\ Step(t, "psp", "revert")
             /\ refunds' = [refunds EXCEPT ![tgt[t]] = @ + 1]
             /\ lost' = [lost EXCEPT ![tgt[t]] = @ + 1]
    <3>1. Same
      BY <2>1, <2>4, HoldersMove DEF PCs, AttemptPCs
    <3>2. refunds'[i] - lost'[i] = refunds[i] - lost[i]
      BY <2>4 DEF TypeOK
    <3>3. refunds'[i] \in Nat /\ lost'[i] \in Nat
      BY <2>4 DEF TypeOK
    <3> QED
      BY <1>0, <2>1, <3>1, <3>2, <3>3
  <2> QED
    BY <1>4, <2>2, <2>3, <2>4 DEF PspRefund
<1>5. ASSUME NEW t \in Refunders, AttemptMark(t) PROVE Even(i)'
  <2>1. UNCHANGED <<tgt, refunds, over>>
    BY <1>5 DEF AttemptMark
  <2>2. CASE SetStatus(tgt[t], "refunded") /\ Return(t, "mark", "ok") /\ UNCHANGED lost
    <3> DEFINE to == Resume(t, "ok")
    <3>0. Step(t, "mark", to) /\ "mark" \in PCs /\ to \in PCs \ HeldPCs
      BY <2>2, ResumeUnheld DEF Return, PCs, AttemptPCs
    <3> HIDE DEF to
    <3>1. Same
      BY <2>1, <3>0, HoldersMove DEF HeldPCs
    <3>2. intent'[i].status \notin Refunding => intent[i].status \notin Refunding
      BY <2>2 DEF SetStatus, TypeOK, Rows, Refunding
    <3> QED
      BY <1>0, <2>1, <2>2, <3>1, <3>2
  <2>3. CASE /\ Step(t, "mark", "revert")
             /\ lost' = [lost EXCEPT ![tgt[t]] = @ + 1]
             /\ UNCHANGED intent
    <3>1. CASE tgt[t] = i
      <4>1. t \notin Holders(i) /\ Holders(i)' = Holders(i) \cup {t}
        BY <2>1, <2>3, <3>1, HoldersMove DEF PCs, AttemptPCs
      <4>2. Cardinality(Holders(i)') = Cardinality(Holders(i)) + 1
        BY <4>1, HolderCounts
      <4>3. lost'[i] = lost[i] + 1
        BY <2>3, <3>1 DEF TypeOK
      <4> QED
        BY <1>0, <2>1, <2>3, <4>2, <4>3
    <3>2. CASE tgt[t] # i
      <4>1. Same /\ lost'[i] = lost[i]
        BY <2>1, <2>3, <3>2, HoldersMove DEF PCs, AttemptPCs, TypeOK
      <4> QED
        BY <1>0, <2>1, <2>3, <4>1
    <3> QED
      BY <3>1, <3>2
  <2> QED
    BY <1>5, <2>2, <2>3 DEF AttemptMark
<1>6. ASSUME NEW t \in Refunders, AttemptRevert(t) PROVE Even(i)'
  <2>1. UNCHANGED <<tgt, refunds, over, lost>> /\ Return(t, "revert", "error")
    BY <1>6 DEF AttemptRevert
  <2> DEFINE to == Resume(t, "error")
  <2>0. Step(t, "revert", to) /\ "revert" \in PCs /\ to \in PCs \ HeldPCs
    BY <2>1, ResumeUnheld DEF Return, PCs, AttemptPCs
  <2> HIDE DEF to
  <2>2. CASE tgt[t] = i
    <3>1. t \in Holders(i) /\ Holders(i)' = Holders(i) \ {t}
      BY <2>0, <2>1, <2>2, HoldersMove DEF HeldPCs
    <3>2. Cardinality(Holders(i)') = Cardinality(Holders(i)) - 1
      BY <3>1, HolderCounts
    <3> QED
      BY <1>0, <2>1, <3>2
  <2>3. CASE tgt[t] # i
    <3>1. Same
      BY <2>0, <2>1, <2>3, HoldersMove
    <3>2. intent'[i] = intent[i]
      BY <1>6, <2>3 DEF AttemptRevert, SetStatus, TypeOK
    <3> QED
      BY <1>0, <2>1, <3>1, <3>2
  <2> QED
    BY <2>2, <2>3
<1>7. ASSUME NEW t \in Refunders, Crash(t) PROVE Even(i)'
  <2>1. Step(t, pc[t], "idle") /\ UNCHANGED <<tgt, intent, lost, over>>
    BY <1>7 DEF Crash, Step, intentVars
  <2>2. pc[t] \in PCs /\ "idle" \in PCs
    BY DEF TypeOK, PCs, CallerPCs
  <2>3. CASE tgt[t] = i /\ pc[t] \in {"psp", "revert"}
    <3>1. Cardinality(Holders(i)') = Cardinality(Holders(i)) - 1
      BY <2>1, <2>2, <2>3, HoldersMove, HolderCounts
    <3>2. refunds'[i] \in {refunds[i], refunds[i] + 1}
      BY <1>7 DEF Crash, TypeOK
    <3> QED
      BY <1>0, <2>1, <3>1, <3>2
  <2>4. CASE ~(tgt[t] = i /\ pc[t] \in {"psp", "revert"})
    <3>1. Same
      BY <2>1, <2>2, <2>4, HoldersMove
    <3>2. refunds'[i] = refunds[i]
      BY <1>7, <2>4 DEF Crash, TypeOK
    <3> QED
      BY <1>0, <2>1, <3>1, <3>2
  <2> QED
    BY <2>3, <2>4
<1> QED
  BY <1>1, <1>2, <1>3, <1>4, <1>5, <1>6, <1>7, StepShape DEF Refunds

-----------------------------------------------------------------------------
(* Money: what rows and requests say was paid was captured *)

Paid == {"succeeded"} \cup Refunding

\* A row that is about to be saved is as true as the row it was read from.
RowsBacked ==
  /\ \A i \in Intents : intent[i].status \in Paid \/ i \in used => i \in captured
  /\ \A e \in events : e[2] # "failed" => e[1] \in captured
  /\ \A c \in Confirms : conf[c].pc = "save" /\ conf[c].row.status \in Paid
                           => conf[c].intent \in captured
  /\ \A d \in Deliveries : hook[d].pc # "idle" => hook[d].event \in events
  /\ \A d \in Deliveries : hook[d].pc = "save" /\ hook[d].row.status \in Paid
                             => hook[d].event[1] \in captured
  /\ \A t \in Refunders : pc[t] = "mark" => tgt[t] \in captured

(* Every step keeps it. *)
LEMMA StepBacked == TypeOK /\ RowsBacked /\ [Next]_vars => RowsBacked'
<1> SUFFICES ASSUME TypeOK, RowsBacked, [Next]_vars PROVE RowsBacked'
  OBVIOUS
<1> USE DEF RowsBacked, Paid, Refunding, intentVars, jobVars, refundVars, readers
<1>1. CASE Aside
  BY <1>1 DEF Aside, HeldPCs
<1>2. ASSUME NEW i \in Intents, CreateIntent(i) \/ OpenCheckout(i) PROVE RowsBacked'
  <2>1. \A k \in Intents : intent'[k].status \in Paid => intent[k].status \in Paid
    <3>1. \E st \in Statuses \ Paid : intent' = [intent EXCEPT ![i].status = st]
      BY <1>2 DEF CreateIntent, OpenCheckout, SetStatus, Statuses
    <3>2. intent \in [Intents -> Rows]
      BY DEF TypeOK
    <3> QED
      BY <3>1, <3>2 DEF Rows
  <2>2. UNCHANGED <<used, captured, events, conf, hook, pc, tgt>>
    BY <1>2 DEF CreateIntent, OpenCheckout
  <2> QED
    BY <2>1, <2>2
<1>3. ASSUME NEW i \in Intents, PspDeclines(i) PROVE RowsBacked'
  BY <1>3 DEF PspDeclines
<1>4. ASSUME NEW i \in Intents, PspCaptures(i) PROVE RowsBacked'
  BY <1>4 DEF PspCaptures
<1>5. ASSUME NEW i \in Intents, UseIntent(i) PROVE RowsBacked'
  BY <1>5 DEF UseIntent
<1>6. ASSUME NEW c \in Confirms, NEW i \in Intents, ConfirmRead(c, i) PROVE RowsBacked'
  BY <1>6 DEF ConfirmRead, TypeOK
<1>7. ASSUME NEW c \in Confirms, ConfirmVerify(c) PROVE RowsBacked'
  <2>1. \A b \in Confirms : conf'[b].intent = conf[b].intent /\ (b # c => conf'[b] = conf[b])
    BY <1>7 DEF ConfirmVerify, TypeOK
  <2>2. conf'[c].row.status \in Verdicts(conf[c].intent)
    BY <1>7 DEF ConfirmVerify, TypeOK
  <2>3. conf'[c].row.status \in Paid => conf'[c].intent \in captured
    BY <2>1, <2>2 DEF Verdicts
  <2> QED
    BY <1>7, <2>1, <2>3 DEF ConfirmVerify
<1>8. ASSUME NEW c \in Confirms, ConfirmSave(c) PROVE RowsBacked'
  BY <1>8 DEF ConfirmSave, Save, TypeOK
<1>9. ASSUME NEW d \in Deliveries, NEW e \in events, HookRecord(d, e) PROVE RowsBacked'
  BY <1>9 DEF HookRecord, TypeOK
<1>10. ASSUME NEW d \in Deliveries, HookLoad(d) PROVE RowsBacked'
  <2> DEFINE k == hook[d].event[1]
             kind == hook[d].event[2]
             new == Applied(intent[k], kind)
  <2>1. hook[d].event \in events /\ k \in Intents /\ kind \in Kinds /\ intent[k] \in Rows
    BY <1>10 DEF HookLoad, TypeOK
  <2>2. new.status \in Paid => k \in captured
    <3>1. CASE kind = "failed"
      BY <3>1, <2>1 DEF Applied, PaidKinds, Rows
    <3>2. CASE kind # "failed"
      BY <3>2, <2>1
    <3> QED
      BY <3>1, <3>2
  <2> HIDE DEF new
  <2>3. \/ hook' = [hook EXCEPT ![d] = Ended]
        \/ hook' = [hook EXCEPT ![d] = [hook[d] EXCEPT !.pc = "save", !.row = new]]
    BY <1>10 DEF HookLoad, new
  <2>4. CASE hook' = [hook EXCEPT ![d] = Ended]
    <3>1. \A b \in Deliveries : hook'[b] = hook[b] \/ hook'[b].pc = "idle"
      BY <2>4 DEF TypeOK, Ended
    <3>2. UNCHANGED <<intent, used, captured, events, conf, pc, tgt>>
      BY <1>10 DEF HookLoad
    <3> QED
      BY <3>1, <3>2
  <2>5. CASE hook' = [hook EXCEPT ![d] = [hook[d] EXCEPT !.pc = "save", !.row = new]]
    <3>1. hook'[d].event = hook[d].event /\ hook'[d].row = new
      BY <2>5 DEF TypeOK
    <3>2. \A b \in Deliveries \ {d} : hook'[b] = hook[b]
      BY <2>5 DEF TypeOK
    <3> QED
      BY <1>10, <2>1, <2>2, <3>1, <3>2 DEF HookLoad
  <2> QED
    BY <2>3, <2>4, <2>5
<1>11. ASSUME NEW d \in Deliveries, HookSave(d) PROVE RowsBacked'
  BY <1>11 DEF HookSave, Save, TypeOK, Ended
<1>12. ASSUME NEW d \in Deliveries, CrashHook(d) PROVE RowsBacked'
  BY <1>12 DEF CrashHook, TypeOK, Ended
<1>13. ASSUME NEW t \in Refunders, Claims(t) PROVE RowsBacked'
  BY <1>13 DEF Claims, AttemptClaim, SetStatus, Step, TypeOK, Rows
<1>14. ASSUME NEW t \in Refunders, PspRefund(t) PROVE RowsBacked'
  BY <1>14 DEF PspRefund, Step, TypeOK
<1>15. ASSUME NEW t \in Refunders, AttemptMark(t) PROVE RowsBacked'
  <2>1. tgt[t] \in captured
    BY <1>15 DEF AttemptMark, Return, Step
  <2>2. \A k \in Intents : intent'[k].status \in Paid => intent[k].status \in Paid \/ k = tgt[t]
    BY <1>15 DEF AttemptMark, SetStatus, TypeOK, Rows
  <2>3. \A u \in Refunders : pc'[u] = "mark" => pc[u] = "mark"
    BY <1>15, ResumeUnheld DEF AttemptMark, Return, Step, TypeOK, HeldPCs
  <2> QED
    BY <1>15, <2>1, <2>2, <2>3 DEF AttemptMark
<1>16. ASSUME NEW t \in Refunders, AttemptRevert(t) PROVE RowsBacked'
  BY <1>16, ResumeUnheld DEF AttemptRevert, Return, SetStatus, Step, TypeOK, Rows, HeldPCs
<1>17. ASSUME NEW t \in Refunders, Crash(t) PROVE RowsBacked'
  BY <1>17 DEF Crash, TypeOK
<1>18. CASE UNCHANGED vars
  BY <1>18 DEF vars
<1> QED
  BY <1>1, <1>2, <1>3, <1>4, <1>5, <1>6, <1>7, <1>8, <1>9, <1>10, <1>11, <1>12, <1>13, <1>14,
     <1>15, <1>16, <1>17, <1>18, AsideShape DEF Next, Environment, Attempt

-----------------------------------------------------------------------------
(* Refunds that are reported were made *)

\* A refund that a row, a thread or an outbox worker believes in was made.
Made ==
  /\ \A i \in Intents : intent[i].status = "refunded" => refunds[i] >= 1
  /\ \A t \in Refunders : pc[t] \in {"mark", "saveDone"} => refunds[tgt[t]] >= 1
  /\ \A c \in Confirms : conf[c].pc # "idle" => conf[c].row.status # "refunded"
  /\ \A d \in Deliveries : hook[d].pc = "save" /\ hook[d].row.status = "refunded"
                             => refunds[hook[d].event[1]] >= 1

\* The same for the jobs of the outbox.
JobsMade == \A j \in Jobs : job[j].status = "done" => refunds[job[j].intent] >= 1

(* Refunds are never taken back. *)
LEMMA RefundsGrow ==
  ASSUME TypeOK, [Next]_vars PROVE \A i \in Intents : refunds'[i] >= refunds[i]
<1>1. CASE Aside \/ Outside
  BY <1>1 DEF Aside, Outside, TypeOK
<1>2. ASSUME NEW t \in Refunders, Refunds(t) PROVE \A i \in Intents : refunds'[i] >= refunds[i]
  BY <1>2 DEF Refunds, Claims, AttemptClaim, PspRefund, AttemptMark, AttemptRevert, Crash, TypeOK
<1> QED
  BY <1>1, <1>2, StepShape

(* A poller ends up with a refund to record only where one is on record. *)
LEMMA DoneShape ==
  ASSUME TypeOK, [Next]_vars, NEW t \in Refunders, pc'[t] \in {"mark", "saveDone"}
  PROVE  /\ tgt'[t] = tgt[t]
         /\ \/ pc[t] = "mark"
            \/ pc[t] = "saveDone"
            \/ intent[tgt[t]].status = "refunded"
            \/ refunds'[tgt[t]] = refunds[tgt[t]] + 1
<1> DEFINE Goal == /\ tgt'[t] = tgt[t]
                   /\ \/ pc[t] = "mark"
                      \/ pc[t] = "saveDone"
                      \/ intent[tgt[t]].status = "refunded"
                      \/ refunds'[tgt[t]] = refunds[tgt[t]] + 1
<1>1. CASE Outside
  BY <1>1 DEF Outside
<1>2. ASSUME NEW u \in Refunders, AttemptRead(u) PROVE Goal
  BY <1>2 DEF AttemptRead, Return, Resume, Step, TypeOK
<1>3. ASSUME NEW u \in Refunders, AttemptClaim(u) PROVE Goal
  BY <1>3 DEF AttemptClaim, Step, TypeOK
<1>4. ASSUME NEW u \in Refunders, AttemptRecheck(u) PROVE Goal
  BY <1>4 DEF AttemptRecheck, Return, Resume, Step, TypeOK
<1>5. ASSUME NEW u \in Refunders, PspRefund(u) PROVE Goal
  BY <1>5 DEF PspRefund, Step, TypeOK
<1>6. ASSUME NEW u \in Refunders, AttemptMark(u) PROVE Goal
  BY <1>6 DEF AttemptMark, Return, Step, TypeOK
<1>7. ASSUME NEW u \in Refunders, AttemptRevert(u) PROVE Goal
  BY <1>7 DEF AttemptRevert, Return, Resume, Step, TypeOK
<1>8. ASSUME NEW u \in Refunders, Crash(u) PROVE Goal
  BY <1>8 DEF Crash, TypeOK
<1>9. ASSUME NEW r \in Requests, NEW i \in Intents, StartRequest(r, i) PROVE Goal
  BY <1>9 DEF StartRequest, Step, TypeOK, Refunders
<1>10. ASSUME NEW r \in Requests, Enqueue(r) PROVE Goal
  BY <1>10 DEF Enqueue, EnqueueFind, EnqueueInsert, Step, TypeOK, Refunders
<1>11. ASSUME NEW p \in Pollers, PollDue(p) \/ JobClaim(p) \/ JobLoad(p) PROVE Goal
  BY <1>11 DEF PollDue, JobClaim, JobLoad, AfterJob, Step, TypeOK, Refunders
<1>12. ASSUME NEW p \in Pollers, JobDone(p) \/ FailAttempt(p) PROVE Goal
  BY <1>12 DEF JobDone, FailAttempt, JobSave, AfterJob, Step, TypeOK, Refunders
<1>13. ASSUME NEW a \in Admins, RetrySave(a) \/ (\E j \in Jobs : RetryRead(a, j)) PROVE Goal
  BY <1>13 DEF RetrySave, RetryRead, refundVars
<1>14. CASE UNCHANGED vars
  BY <1>14 DEF vars, refundVars
<1> QED
  BY <1>1, <1>2, <1>3, <1>4, <1>5, <1>6, <1>7, <1>8, <1>9, <1>10, <1>11, <1>12, <1>13, <1>14,
     OutsideShape DEF Next, Environment, Attempt, Work

(* Rows and threads keep believing in refunds that were made. *)
LEMMA StepMade == TypeOK /\ Made /\ [Next]_vars => Made'
<1> SUFFICES ASSUME TypeOK, Made, [Next]_vars PROVE Made'
  OBVIOUS
<1>1. \A i \in Intents : refunds[i] \in Nat /\ refunds'[i] \in Nat /\ refunds'[i] >= refunds[i]
  BY RefundsGrow, NextType DEF TypeOK
<1>2. \A t \in Refunders : pc'[t] \in {"mark", "saveDone"} => refunds'[tgt'[t]] >= 1
  BY <1>1, DoneShape DEF Made, TypeOK
<1>3. \A i \in Intents : intent'[i].status = "refunded" =>
        \/ intent[i].status = "refunded"
        \/ \E t \in Refunders : pc[t] = "mark" /\ tgt[t] = i
        \/ \E d \in Deliveries : /\ hook[d].pc = "save" /\ hook[d].row.status = "refunded"
                                 /\ hook[d].event[1] = i
  <2> SUFFICES ASSUME NEW i \in Intents, intent'[i].status = "refunded",
                      intent'[i].status # intent[i].status
               PROVE  \/ \E t \in Refunders : pc[t] = "mark" /\ tgt[t] = i
                      \/ \E d \in Deliveries : /\ hook[d].pc = "save"
                                               /\ hook[d].row.status = "refunded"
                                               /\ hook[d].event[1] = i
    OBVIOUS
  <2> USE DEF intentVars, SetStatus, TypeOK, Rows
  <2>1. CASE Aside
    BY <2>1 DEF Aside
  <2>2. ASSUME NEW t \in Refunders, Refunds(t) PROVE pc[t] = "mark" /\ tgt[t] = i
    BY <2>2 DEF Refunds, Claims, AttemptClaim, PspRefund, AttemptMark, AttemptRevert, Crash,
                Return, Step
  <2>3. ASSUME NEW c \in Confirms, ConfirmSave(c) PROVE FALSE
    BY <2>3 DEF ConfirmSave, Save, Made
  <2>4. ASSUME NEW d \in Deliveries, HookSave(d)
        PROVE  hook[d].pc = "save" /\ hook[d].row.status = "refunded" /\ hook[d].event[1] = i
    BY <2>4 DEF HookSave, Save
  <2>5. ASSUME NEW k \in Intents, CreateIntent(k) \/ OpenCheckout(k) PROVE FALSE
    BY <2>5 DEF CreateIntent, OpenCheckout
  <2>6. ASSUME NEW k \in Intents, PspDeclines(k) \/ PspCaptures(k) \/ UseIntent(k) PROVE FALSE
    BY <2>6 DEF PspDeclines, PspCaptures, UseIntent
  <2>7. ASSUME NEW c \in Confirms, ConfirmVerify(c) \/ (\E k \in Intents : ConfirmRead(c, k))
        PROVE  FALSE
    BY <2>7 DEF ConfirmVerify, ConfirmRead
  <2>8. ASSUME NEW d \in Deliveries, HookLoad(d) \/ CrashHook(d) \/ (\E e \in events : HookRecord(d, e))
        PROVE  FALSE
    BY <2>8 DEF HookLoad, CrashHook, HookRecord
  <2>9. CASE UNCHANGED vars
    BY <2>9 DEF vars
  <2> QED
    BY <2>1, <2>2, <2>3, <2>4, <2>5, <2>6, <2>7, <2>8, <2>9, AsideShape
       DEF Next, Environment, Attempt, Refunds
<1>4. \A i \in Intents : intent'[i].status = "refunded" => refunds'[i] >= 1
  BY <1>1, <1>3 DEF Made
<1> DEFINE ConfFine == \A c \in Confirms : conf'[c].pc # "idle" => conf'[c].row.status # "refunded"
           HookFine == \A d \in Deliveries : hook'[d].pc = "save" /\ hook'[d].row.status = "refunded"
                                               => refunds'[hook'[d].event[1]] >= 1
<1>5. ConfFine
  <2> USE DEF readers, Made
  <2>1. CASE UNCHANGED conf
    BY <2>1
  <2>2. ASSUME NEW c \in Confirms, NEW i \in Intents, ConfirmRead(c, i) PROVE ConfFine
    BY <2>2 DEF ConfirmRead, TypeOK
  <2>3. ASSUME NEW c \in Confirms, ConfirmVerify(c) PROVE ConfFine
    <3>1. \A b \in Confirms \ {c} : conf'[b] = conf[b]
      BY <2>3 DEF ConfirmVerify, TypeOK
    <3>2. conf'[c].row.status \in Verdicts(conf[c].intent)
      BY <2>3 DEF ConfirmVerify, TypeOK
    <3> QED
      BY <3>1, <3>2 DEF Verdicts
  <2>4. ASSUME NEW c \in Confirms, ConfirmSave(c) PROVE ConfFine
    BY <2>4 DEF ConfirmSave, TypeOK
  <2>5. Aside => UNCHANGED conf
    BY DEF Aside
  <2>6. \A t \in Refunders : Refunds(t) => UNCHANGED conf
    BY DEF Refunds, Claims, AttemptClaim, PspRefund, AttemptMark, AttemptRevert, Crash
  <2>7. \A k \in Intents : CreateIntent(k) \/ OpenCheckout(k) \/ PspDeclines(k) \/ PspCaptures(k)
                           \/ UseIntent(k) => UNCHANGED conf
    BY DEF CreateIntent, OpenCheckout, PspDeclines, PspCaptures, UseIntent
  <2>8. \A d \in Deliveries : HookLoad(d) \/ HookSave(d) \/ CrashHook(d)
                              \/ (\E e \in events : HookRecord(d, e)) => UNCHANGED conf
    BY DEF HookLoad, HookSave, CrashHook, HookRecord
  <2>9. UNCHANGED vars => UNCHANGED conf
    BY DEF vars
  <2> QED
    BY <2>1, <2>2, <2>3, <2>4, <2>5, <2>6, <2>7, <2>8, <2>9, AsideShape
       DEF Next, Environment, Attempt, Refunds
<1>6. HookFine
  <2> USE DEF readers
  <2>1. CASE UNCHANGED hook
    BY <1>1, <2>1 DEF Made, TypeOK
  <2>2. ASSUME NEW d \in Deliveries, HookLoad(d) PROVE HookFine
    <3> DEFINE k == hook[d].event[1]
               kind == hook[d].event[2]
               new == Applied(intent[k], kind)
    <3>1. k \in Intents /\ kind \in Kinds /\ intent[k] \in Rows
      BY DEF TypeOK
    <3>2. new.status = "refunded" => intent[k].status = "refunded"
      BY <3>1, KindsKnown DEF Applied, PaidKinds, Rows
    <3> HIDE DEF new
    <3>3. /\ hook'[d].pc = "save" => hook'[d].event[1] = k /\ hook'[d].row = new
          /\ \A b \in Deliveries \ {d} : hook'[b] = hook[b]
      BY <2>2 DEF HookLoad, TypeOK, Ended, new
    <3> QED
      BY <1>1, <3>1, <3>2, <3>3 DEF Made, TypeOK
  <2>3. ASSUME NEW d \in Deliveries, HookSave(d) \/ CrashHook(d) \/ (\E e \in events : HookRecord(d, e))
        PROVE  HookFine
    <3>1. hook'[d].pc # "save" /\ \A b \in Deliveries \ {d} : hook'[b] = hook[b]
      BY <2>3 DEF HookSave, CrashHook, HookRecord, TypeOK, Ended
    <3> QED
      BY <1>1, <3>1 DEF Made, TypeOK
  <2>4. Aside => UNCHANGED hook
    BY DEF Aside
  <2>5. \A t \in Refunders : Refunds(t) => UNCHANGED hook
    BY DEF Refunds, Claims, AttemptClaim, PspRefund, AttemptMark, AttemptRevert, Crash
  <2>6. \A k \in Intents : CreateIntent(k) \/ OpenCheckout(k) \/ PspDeclines(k) \/ PspCaptures(k)
                           \/ UseIntent(k) => UNCHANGED hook
    BY DEF CreateIntent, OpenCheckout, PspDeclines, PspCaptures, UseIntent
  <2>7. \A c \in Confirms : ConfirmVerify(c) \/ ConfirmSave(c)
                            \/ (\E k \in Intents : ConfirmRead(c, k)) => UNCHANGED hook
    BY DEF ConfirmVerify, ConfirmSave, ConfirmRead
  <2>8. UNCHANGED vars => UNCHANGED hook
    BY DEF vars
  <2> QED
    BY <2>1, <2>2, <2>3, <2>4, <2>5, <2>6, <2>7, <2>8, AsideShape
       DEF Next, Environment, Attempt, Refunds
<1> QED
  BY <1>2, <1>4, <1>5, <1>6 DEF Made

-----------------------------------------------------------------------------
(* The outbox *)

\* A poller that works on a job.
Owns(p, j) == poll[p].job = j /\ pc[p] \in AttemptPCs \cup {"load", "saveDone", "saveFail"}

\* The steps that write the outbox.
JobWrite ==
  \/ \E r \in Requests : EnqueueInsert(r)
  \/ \E p \in Pollers : JobClaim(p) \/ JobDone(p) \/ FailAttempt(p)
  \/ \E a \in Admins : RetrySave(a)

LEMMA JobShape == ASSUME [Next]_vars PROVE JobWrite \/ UNCHANGED job
<1> USE DEF jobVars
<1>1. \A t \in Refunders : Attempt(t) \/ Crash(t) => UNCHANGED job
  BY DEF Attempt, AttemptRead, AttemptClaim, AttemptRecheck, PspRefund, AttemptMark,
         AttemptRevert, Crash
<1>2. \A k \in Intents : CreateIntent(k) \/ OpenCheckout(k) \/ PspDeclines(k) \/ PspCaptures(k)
                         \/ UseIntent(k) => UNCHANGED job
  BY DEF CreateIntent, OpenCheckout, PspDeclines, PspCaptures, UseIntent
<1>3. \A c \in Confirms : ConfirmVerify(c) \/ ConfirmSave(c)
                          \/ (\E k \in Intents : ConfirmRead(c, k)) => UNCHANGED job
  BY DEF ConfirmVerify, ConfirmSave, ConfirmRead
<1>4. \A d \in Deliveries : HookLoad(d) \/ HookSave(d) \/ CrashHook(d)
                            \/ (\E e \in events : HookRecord(d, e)) => UNCHANGED job
  BY DEF HookLoad, HookSave, CrashHook, HookRecord
<1>5. \A r \in Requests : EnqueueFind(r) \/ (\E i \in Intents : StartRequest(r, i)) => UNCHANGED job
  BY DEF EnqueueFind, StartRequest
<1>6. \A p \in Pollers : PollDue(p) \/ JobLoad(p) => UNCHANGED job
  BY DEF PollDue, JobLoad
<1>7. \A a \in Admins, j \in Jobs : RetryRead(a, j) => UNCHANGED job
  BY DEF RetryRead
<1>8. UNCHANGED vars => UNCHANGED job
  BY DEF vars
<1> QED
  BY <1>1, <1>2, <1>3, <1>4, <1>5, <1>6, <1>7, <1>8 DEF Next, Environment, Enqueue, Work, JobWrite

(* A job is only ever done when the refund was made. *)
LEMMA StepJobsMade == TypeOK /\ Made /\ JobsMade /\ [Next]_vars => JobsMade'
<1> SUFFICES ASSUME TypeOK, Made, JobsMade, [Next]_vars, NEW j \in Jobs, job'[j].status = "done"
             PROVE  refunds'[job'[j].intent] >= 1
  BY DEF JobsMade
<1>1. \A i \in Intents : refunds[i] \in Nat /\ refunds'[i] \in Nat /\ refunds'[i] >= refunds[i]
  BY RefundsGrow, NextType DEF TypeOK
<1>2. \/ job'[j] = job[j]
      \/ \E p \in Pollers : pc[p] = "saveDone" /\ job'[j].intent = tgt[p]
  <2>1. CASE UNCHANGED job
    BY <2>1
  <2>2. ASSUME NEW r \in Requests, EnqueueInsert(r) PROVE job'[j] = job[j]
    BY <2>2 DEF EnqueueInsert, TypeOK
  <2>3. ASSUME NEW p \in Pollers, JobClaim(p) PROVE job'[j] = job[j]
    BY <2>3 DEF JobClaim, TypeOK, JobRows
  <2>4. ASSUME NEW p \in Pollers, JobDone(p)
        PROVE  job'[j] = job[j] \/ (pc[p] = "saveDone" /\ job'[j].intent = tgt[p])
    BY <2>4 DEF JobDone, JobSave, Step, TypeOK
  <2>5. ASSUME NEW p \in Pollers, FailAttempt(p) PROVE job'[j] = job[j]
    BY <2>5 DEF FailAttempt, JobSave, TypeOK
  <2>6. ASSUME NEW a \in Admins, RetrySave(a) PROVE job'[j] = job[j]
    BY <2>6 DEF RetrySave, TypeOK, JobRows
  <2> QED
    BY <2>1, <2>2, <2>3, <2>4, <2>5, <2>6, JobShape DEF JobWrite
<1>3. CASE job'[j] = job[j]
  BY <1>1, <1>3 DEF JobsMade, TypeOK, JobRows
<1>4. ASSUME NEW p \in Pollers, pc[p] = "saveDone", job'[j].intent = tgt[p]
      PROVE  refunds'[job'[j].intent] >= 1
  BY <1>1, <1>4 DEF Made, TypeOK, Refunders
<1> QED
  BY <1>2, <1>3, <1>4

(* A job is only given up when its attempts are used up. *)
LEMMA StepDead == TypeOK /\ DeadOnlyAfterMaxAttempts /\ [Next]_vars => DeadOnlyAfterMaxAttempts'
<1> SUFFICES ASSUME TypeOK, DeadOnlyAfterMaxAttempts, [Next]_vars,
                    NEW j \in Jobs, job'[j].status = "dead"
             PROVE  job'[j].attempts >= MaxAttempts
  BY DEF DeadOnlyAfterMaxAttempts
<1>0. job[j].status = "dead" => job[j].attempts >= MaxAttempts
  BY DEF DeadOnlyAfterMaxAttempts
<1>1. CASE UNCHANGED job
  BY <1>0, <1>1
<1>2. ASSUME NEW r \in Requests, EnqueueInsert(r) PROVE job'[j] = job[j]
  BY <1>2 DEF EnqueueInsert, TypeOK
<1>3. ASSUME NEW p \in Pollers, JobClaim(p) PROVE job'[j] = job[j]
  BY <1>3 DEF JobClaim, TypeOK, JobRows
<1>4. ASSUME NEW p \in Pollers, JobDone(p) PROVE job'[j] = job[j]
  BY <1>4 DEF JobDone, JobSave, TypeOK
<1>5. ASSUME NEW p \in Pollers, FailAttempt(p)
      PROVE  job'[j] = job[j] \/ job'[j].attempts >= MaxAttempts
  BY <1>5 DEF FailAttempt, AttemptsUsedUp, JobSave, TypeOK
<1>6. ASSUME NEW a \in Admins, RetrySave(a) PROVE job'[j] = job[j]
  BY <1>6 DEF RetrySave, TypeOK, JobRows
<1> QED
  BY <1>0, <1>1, <1>2, <1>3, <1>4, <1>5, <1>6, JobShape DEF JobWrite

(* A poller keeps the job it works on until it saves it, unless it dies. *)
LEMMA OwnerShape ==
  ASSUME TypeOK, [Next]_vars, NEW p \in Pollers, NEW j, Owns(p, j)
  PROVE  Owns(p, j)' \/ JobDone(p) \/ FailAttempt(p) \/ Crash(p)
<1> DEFINE Goal == Owns(p, j)' \/ JobDone(p) \/ FailAttempt(p) \/ Crash(p)
<1> USE DEF Owns, TypeOK, Refunders, AttemptPCs
<1>1. CASE Outside
  BY <1>1 DEF Outside, jobVars
<1>2. ASSUME NEW t \in Refunders, Attempt(t) PROVE Goal
  <2>1. UNCHANGED poll
    BY <1>2 DEF Attempt, AttemptRead, AttemptClaim, AttemptRecheck, PspRefund, AttemptMark,
               AttemptRevert, jobVars
  <2>2. CASE t # p
    <3>1. pc'[p] = pc[p]
      BY <1>2, <2>2 DEF Attempt, AttemptRead, AttemptClaim, AttemptRecheck, PspRefund,
                        AttemptMark, AttemptRevert, Return, Step
    <3> QED
      BY <2>1, <3>1
  <2>3. CASE t = p
    <3>1. \A result : Resume(p, result) \in {"saveDone", "saveFail"}
      BY ThreadsDisjoint DEF Resume
    <3>2. pc'[p] \in AttemptPCs \cup {"saveDone", "saveFail"}
      BY <1>2, <2>3, <3>1 DEF Attempt, AttemptRead, AttemptClaim, AttemptRecheck, PspRefund,
                              AttemptMark, AttemptRevert, Return, Step
    <3> QED
      BY <2>1, <3>2
  <2> QED
    BY <2>2, <2>3
<1>3. ASSUME NEW t \in Refunders, Crash(t) PROVE Goal
  <2>1. CASE t # p
    <3>1. poll'[p] = poll[p] /\ pc'[p] = pc[p]
      BY <1>3, <2>1 DEF Crash
    <3> QED
      BY <3>1
  <2>2. CASE t = p
    BY <1>3, <2>2
  <2> QED
    BY <2>1, <2>2
<1>4. ASSUME NEW r \in Requests, Enqueue(r) \/ (\E i \in Intents : StartRequest(r, i)) PROVE Goal
  BY <1>4, ThreadsDisjoint DEF Enqueue, EnqueueFind, EnqueueInsert, StartRequest, Step, jobVars
<1>5. ASSUME NEW q \in Pollers, PollDue(q) PROVE Goal
  BY <1>5 DEF PollDue, Step
<1>6. ASSUME NEW q \in Pollers, JobClaim(q) PROVE Goal
  BY <1>6 DEF JobClaim, Step
<1>7. ASSUME NEW q \in Pollers, JobLoad(q) PROVE Goal
  BY <1>7 DEF JobLoad, Step
<1>8. ASSUME NEW q \in Pollers, JobDone(q) \/ FailAttempt(q) PROVE Goal
  BY <1>8 DEF JobDone, FailAttempt, JobSave, Step
<1>9. ASSUME NEW a \in Admins, RetrySave(a) \/ (\E k \in Jobs : RetryRead(a, k)) PROVE Goal
  BY <1>9 DEF RetrySave, RetryRead, refundVars
<1>10. CASE UNCHANGED vars
  BY <1>10 DEF vars, jobVars, refundVars
<1> QED
  BY <1>1, <1>2, <1>3, <1>4, <1>5, <1>6, <1>7, <1>8, <1>9, <1>10, OutsideShape
     DEF Next, Environment, Work

(* A job in progress keeps its poller. *)
LEMMA StepProcessing == TypeOK /\ ProcessingHasOwner /\ [Next]_vars => ProcessingHasOwner'
<1> SUFFICES ASSUME TypeOK, ProcessingHasOwner, [Next]_vars, crashes' = 0,
                    NEW j \in Jobs, job'[j].status = "processing"
             PROVE  \E p \in Pollers : Owns(p, j)'
  BY DEF ProcessingHasOwner, Owns
<1>1. \A t \in Refunders : ~Crash(t)
  BY DEF Crash, TypeOK
<1>2. crashes = 0
  <2>1. \A t \in Refunders : Refunds(t) => crashes' = crashes
    BY <1>1 DEF Refunds, Claims, AttemptClaim, PspRefund, AttemptMark, AttemptRevert
  <2> QED
    BY <2>1, StepShape DEF Aside, Outside, TypeOK
<1>3. CASE job[j].status = "processing"
  <2>1. PICK p \in Pollers : Owns(p, j)
    BY <1>2, <1>3 DEF ProcessingHasOwner, Owns
  <2>2. ~JobDone(p) /\ ~FailAttempt(p)
    BY <2>1 DEF JobDone, FailAttempt, JobSave, Owns, TypeOK
  <2> QED
    BY <1>1, <2>1, <2>2, OwnerShape DEF Refunders
<1>4. CASE job[j].status # "processing"
  <2>1. ASSUME NEW r \in Requests, EnqueueInsert(r) PROVE FALSE
    BY <1>4, <2>1 DEF EnqueueInsert, TypeOK
  <2>2. ASSUME NEW p \in Pollers, JobClaim(p) PROVE Owns(p, j)'
    BY <1>4, <2>2 DEF JobClaim, Owns, Step, TypeOK, Refunders
  <2>3. ASSUME NEW p \in Pollers, JobDone(p) \/ FailAttempt(p) PROVE FALSE
    BY <1>4, <2>3 DEF JobDone, FailAttempt, JobSave, TypeOK
  <2>4. ASSUME NEW a \in Admins, RetrySave(a) PROVE FALSE
    BY <1>4, <2>4 DEF RetrySave, TypeOK, JobRows
  <2> QED
    BY <1>4, <2>1, <2>2, <2>3, <2>4, JobShape DEF JobWrite
<1> QED
  BY <1>3, <1>4

-----------------------------------------------------------------------------
(* The theorems *)

IInv == /\ TypeOK /\ Sole /\ PendingRefundHasOwner /\ Ledger /\ RowsBacked /\ Made /\ JobsMade
        /\ DeadOnlyAfterMaxAttempts /\ ProcessingHasOwner

LEMMA InitIInv == Init => IInv
<1> SUFFICES ASSUME Init PROVE IInv
  OBVIOUS
<1>1. TypeOK
  BY InitType
<1>2. \A i \in Intents : Holders(i) = {} /\ Claimants(i) = {} /\ intent[i].status = "none"
  BY DEF Init, Holders, Claimants, NoRow
<1>3. Sole /\ PendingRefundHasOwner
  BY <1>2 DEF Sole, PendingRefundHasOwner
<1>4. Ledger
  <2>1. \A i \in Intents : Cardinality(Holders(i)) = 0
    BY <1>2, FS_EmptySet
  <2>2. \A i \in Intents : refunds[i] = 0 /\ lost[i] = 0 /\ over[i] = 0
    BY DEF Init
  <2> QED
    BY <2>1, <2>2 DEF Ledger
<1>5. RowsBacked /\ Made
  BY <1>2 DEF RowsBacked, Made, Init, Paid, Refunding
<1>6. JobsMade /\ DeadOnlyAfterMaxAttempts /\ ProcessingHasOwner
  BY DEF JobsMade, DeadOnlyAfterMaxAttempts, ProcessingHasOwner, Init, NoJob
<1> QED
  BY <1>1, <1>3, <1>4, <1>5, <1>6 DEF IInv

LEMMA Invariance == Spec => []IInv
<1>1. Init => IInv
  BY InitIInv
<1>2. IInv /\ [Next]_vars => IInv'
  BY NextType, StepSole, StepOwner, StepLedger, StepBacked, StepMade, StepJobsMade, StepDead,
     StepProcessing DEF IInv
<1> QED
  BY <1>1, <1>2, PTL DEF Spec

(* The PSP makes a second refund of a payment only after a lost answer or a save
   of a stale row: attemptPspRefund never pays twice, however many requests,
   workers, retries by hand and crashes there are. *)
THEOREM RefundsAreAccounted == Spec => []RefundsAccounted
<1>1. IInv => RefundsAccounted
  <2> SUFFICES ASSUME IInv, NEW i \in Intents PROVE refunds[i] <= 1 + lost[i] + over[i]
    BY DEF RefundsAccounted
  <2>1. refunds[i] \in Nat /\ lost[i] \in Nat /\ over[i] \in Nat /\ Cardinality(Holders(i)) \in Nat
    BY HoldersFinite DEF IInv, TypeOK
  <2> QED
    BY <2>1 DEF IInv, Ledger
<1> QED
  BY <1>1, Invariance, PTL

(* The conditional UPDATE admits one attempt at a time. *)
THEOREM ClaimIsExclusive == Spec => []OneClaimant
<1>1. IInv => OneClaimant
  BY SoleIsOne DEF IInv
<1> QED
  BY <1>1, Invariance, PTL

(* Without a crash or a stale save, a pending refund has a thread at work. *)
THEOREM PendingRefundsAreOwned == Spec => []PendingRefundHasOwner
<1>1. IInv => PendingRefundHasOwner
  BY DEF IInv
<1> QED
  BY <1>1, Invariance, PTL

(* No row and no job reports a refund that the PSP did not make. *)
THEOREM RefundsAreReal == Spec => []NoPhantomRefund
<1>1. IInv => NoPhantomRefund
  BY DEF IInv, Made, JobsMade, NoPhantomRefund
<1> QED
  BY <1>1, Invariance, PTL

(* No intent is spendable, refundable or spent unless the PSP captured it. *)
THEOREM PaidIsCaptured == Spec => []PaidMeansCaptured
<1>1. IInv => PaidMeansCaptured
  BY DEF IInv, RowsBacked, PaidMeansCaptured, Paid
<1> QED
  BY <1>1, Invariance, PTL

(* Without a crash, a job in progress is in the hands of a poller. *)
THEOREM JobsInProgressAreOwned == Spec => []ProcessingHasOwner
<1>1. IInv => ProcessingHasOwner
  BY DEF IInv
<1> QED
  BY <1>1, Invariance, PTL

(* Jobs are given up after maxAttempts attempts, whatever admins save over them. *)
THEOREM GivenUpAfterAttempts == Spec => []DeadOnlyAfterMaxAttempts
<1>1. IInv => DeadOnlyAfterMaxAttempts
  BY DEF IInv
<1> QED
  BY <1>1, Invariance, PTL

-----------------------------------------------------------------------------
(* PaymentIntents implements RefundLedger, for any intents, threads, jobs and *)
(* bounds.                                                                    *)

\* The ledger's books, as PaymentIntents keeps them.
StateBook  == [i \in Intents |-> RefundState(i)]
OpenBook   == [i \in Intents |-> Cardinality(Opened(i))]
MishapBook == [i \in Intents |-> lost[i] + over[i]]

(* What an attempt holds is what the ledger has open. *)
LEMMA HoldersAreOpen ==
  ASSUME NEW i
  PROVE  /\ Opened(i) = Holders(i) /\ Opened(i)' = Holders(i)'
         /\ Cardinality(Opened(i)) \in Nat
  BY HoldersFinite DEF Opened, Holders

(* A step that moves no refund of no payment is none of the ledger. *)
LEMMA Unmoved ==
  ASSUME UNCHANGED <<captured, refunds>>,
         \A i \in Intents : /\ RefundState(i)' = RefundState(i)
                            /\ Opened(i)' = Opened(i)
                            /\ (lost[i] + over[i])' = lost[i] + over[i]
  PROVE  UNCHANGED Promise!books
<1>1. StateBook' = StateBook /\ OpenBook' = OpenBook /\ MishapBook' = MishapBook
  BY DEF StateBook, OpenBook, MishapBook
<1> QED
  BY <1>1 DEF Promise!books, StateBook, OpenBook, MishapBook

(* The other books stay when an attempt takes a step on its payment. *)
LEMMA OthersStay ==
  ASSUME TypeOK, NEW t \in Refunders, NEW from \in PCs, NEW to \in PCs, Step(t, from, to),
         tgt' = tgt, NEW i, tgt[t] # i
  PROVE  Opened(i)' = Opened(i)
  BY HoldersMove, HoldersAreOpen

LEMMA OpenGrows ==
  ASSUME TypeOK, NEW t \in Refunders, NEW from \in PCs, NEW to \in PCs, Step(t, from, to),
         tgt' = tgt, from \notin {"psp", "revert"}, to \in {"psp", "revert"}
  PROVE  OpenBook' = [OpenBook EXCEPT ![tgt[t]] = @ + 1]
<1>1. tgt[t] \in Intents
  BY DEF TypeOK
<1>2. Cardinality(Opened(tgt[t])') = Cardinality(Opened(tgt[t])) + 1
  BY HoldersMove, HolderCounts, HoldersAreOpen
<1>3. \A i \in Intents \ {tgt[t]} : Opened(i)' = Opened(i)
  BY OthersStay
<1> QED
  BY <1>1, <1>2, <1>3 DEF OpenBook

LEMMA OpenShrinks ==
  ASSUME TypeOK, NEW t \in Refunders, NEW from \in PCs, NEW to \in PCs, Step(t, from, to),
         tgt' = tgt, from \in {"psp", "revert"}, to \notin {"psp", "revert"}
  PROVE  /\ OpenBook' = [OpenBook EXCEPT ![tgt[t]] = @ - 1]
         /\ OpenBook[tgt[t]] > 0
<1>1. tgt[t] \in Intents
  BY DEF TypeOK
<1>2. /\ Cardinality(Opened(tgt[t])') = Cardinality(Opened(tgt[t])) - 1
      /\ Cardinality(Opened(tgt[t])) \in Nat /\ Cardinality(Opened(tgt[t])') \in Nat
  <2>1. t \in Holders(tgt[t]) /\ Holders(tgt[t])' = Holders(tgt[t]) \ {t}
    BY HoldersMove
  <2>2. Cardinality(Holders(tgt[t])') = Cardinality(Holders(tgt[t])) - 1
    BY <2>1, HolderCounts
  <2>3. Cardinality(Holders(tgt[t])') \in Nat
    BY <2>1, HoldersFinite, FS_RemoveElement, FS_CardinalityType
  <2> QED
    BY <2>2, <2>3, HoldersAreOpen
<1>3. \A i \in Intents \ {tgt[t]} : Opened(i)' = Opened(i)
  BY OthersStay
<1> QED
  BY <1>1, <1>2, <1>3 DEF OpenBook

LEMMA OpenStays ==
  ASSUME TypeOK, NEW t \in Refunders, NEW from \in PCs, NEW to \in PCs, Step(t, from, to),
         tgt' = tgt, from \in {"psp", "revert"} <=> to \in {"psp", "revert"}
  PROVE  OpenBook' = OpenBook
<1>1. \A i \in Intents : Opened(i)' = Opened(i)
  BY HoldersMove, HoldersAreOpen
<1> QED
  BY <1>1 DEF OpenBook

(* A lost answer or a save that moves a refund is one mishap more. *)
LEMMA MishapCounts ==
  ASSUME TypeOK, NEW i \in Intents,
         \/ lost' = [lost EXCEPT ![i] = @ + 1] /\ over' = over
         \/ over' = [over EXCEPT ![i] = @ + 1] /\ lost' = lost
  PROVE  MishapBook' = [MishapBook EXCEPT ![i] = @ + 1]
<1>1. \A j \in Intents \ {i} : lost'[j] + over'[j] = lost[j] + over[j]
  BY DEF TypeOK
<1>2. lost'[i] + over'[i] = (lost[i] + over[i]) + 1
  BY DEF TypeOK
<1> QED
  BY <1>1, <1>2 DEF MishapBook

(* An attempt that is about to call the PSP has an open claim. *)
LEMMA ClaimIsOpen ==
  ASSUME TypeOK, NEW t \in Refunders, pc[t] \in {"psp", "revert"}
  PROVE  OpenBook[tgt[t]] > 0
<1>1. tgt[t] \in Intents /\ t \in Holders(tgt[t])
  BY DEF TypeOK, Holders
<1>2. Cardinality(Holders(tgt[t])) # 0
  BY <1>1, HoldersFinite, FS_EmptySet
<1> QED
  BY <1>1, <1>2, HoldersFinite, HoldersAreOpen DEF OpenBook

-----------------------------------------------------------------------------
(* Each step of an attempt is one of the ledger *)

(* What a write of a status writes in the book of states. *)
LEMMA StatusInBooks ==
  ASSUME TypeOK, NEW i \in Intents, NEW s \in Statuses, SetStatus(i, s)
  PROVE  /\ s = "refund_pending" => StateBook' = [StateBook EXCEPT ![i] = "returning"]
         /\ s = "refunded" => StateBook' = [StateBook EXCEPT ![i] = "returned"]
         /\ s \notin Refunding => StateBook' = [StateBook EXCEPT ![i] = "kept"]
<1>1. /\ \A j \in Intents \ {i} : intent'[j] = intent[j]
      /\ intent'[i].status = s
  BY DEF SetStatus, TypeOK, Rows
<1>2. \A j \in Intents \ {i} : RefundState(j)' = RefundState(j)
  BY <1>1 DEF RefundState
<1>3. /\ s = "refund_pending" => RefundState(i)' = "returning"
      /\ s = "refunded" => RefundState(i)' = "returned"
      /\ s \notin Refunding => RefundState(i)' = "kept"
  BY <1>1 DEF RefundState, Refunding
<1> QED
  BY <1>2, <1>3 DEF StateBook

LEMMA ClaimInBooks ==
  ASSUME TypeOK, NEW t \in Refunders, Claims(t), NEW i \in Intents, tgt[t] = i
  PROVE  Promise!Claim(i)
<1>1. tgt[t] \in Intents /\ Step(t, "claim", "psp") /\ tgt' = tgt
  BY DEF TypeOK, Claims, AttemptClaim, Step
<1>2. OpenBook' = [OpenBook EXCEPT ![tgt[t]] = @ + 1]
  BY <1>1, OpenGrows DEF PCs, AttemptPCs
<1>3. StateBook[tgt[t]] = "kept"
  BY <1>1 DEF Claims, StateBook, RefundState
<1>5. SetStatus(tgt[t], "refund_pending")
  BY <1>1 DEF Claims, AttemptClaim, Step
<1>6. StateBook' = [StateBook EXCEPT ![tgt[t]] = "returning"]
  BY <1>1, <1>5, StatusInBooks DEF Statuses
<1>4. UNCHANGED <<captured, refunds>> /\ MishapBook' = MishapBook
  BY DEF Claims, AttemptClaim, MishapBook
<1> QED
  BY <1>1, <1>2, <1>3, <1>4, <1>6 DEF Promise!Claim, StateBook, OpenBook, MishapBook

LEMMA PspInBooks ==
  ASSUME TypeOK, NEW t \in Refunders, PspRefund(t), NEW i \in Intents, tgt[t] = i
  PROVE  \/ Promise!PayBack(i) \/ Promise!PayBackUnheard(i)
         \/ UNCHANGED Promise!books
<1>1. tgt[t] \in Intents /\ pc[t] = "psp" /\ UNCHANGED <<tgt, intent, captured, over>>
  BY DEF TypeOK, PspRefund, Step, intentVars
<1>2. StateBook' = StateBook
  BY <1>1 DEF StateBook, RefundState
<1>3. OpenBook[tgt[t]] > 0
  BY <1>1, ClaimIsOpen
<1>4. CASE Step(t, "psp", "revert") /\ UNCHANGED <<refunds, lost>>
  <2>1. OpenBook' = OpenBook /\ MishapBook' = MishapBook
    BY <1>1, <1>4, OpenStays DEF PCs, AttemptPCs, MishapBook
  <2> QED
    BY <1>1, <1>2, <1>4, <2>1 DEF Promise!books, StateBook, OpenBook, MishapBook
<1>5. CASE /\ tgt[t] \in captured
           /\ refunds' = [refunds EXCEPT ![tgt[t]] = @ + 1]
           /\ Step(t, "psp", "mark") /\ UNCHANGED lost
  <2>1. OpenBook' = [OpenBook EXCEPT ![tgt[t]] = @ - 1] /\ MishapBook' = MishapBook
    BY <1>1, <1>5, OpenShrinks DEF PCs, AttemptPCs, MishapBook
  <2> QED
    BY <1>1, <1>2, <1>3, <1>5, <2>1 DEF Promise!PayBack, StateBook, OpenBook, MishapBook
<1>6. CASE /\ tgt[t] \in captured
           /\ refunds' = [refunds EXCEPT ![tgt[t]] = @ + 1]
           /\ Step(t, "psp", "revert")
           /\ lost' = [lost EXCEPT ![tgt[t]] = @ + 1]
  <2>1. OpenBook' = OpenBook
    BY <1>1, <1>6, OpenStays DEF PCs, AttemptPCs
  <2>2. MishapBook' = [MishapBook EXCEPT ![tgt[t]] = @ + 1]
    BY <1>1, <1>6, MishapCounts
  <2> QED
    BY <1>1, <1>2, <1>3, <1>6, <2>1, <2>2 DEF Promise!PayBackUnheard, StateBook, OpenBook, MishapBook
<1> QED
  BY <1>4, <1>5, <1>6 DEF PspRefund

LEMMA MarkInBooks ==
  ASSUME TypeOK, Made, NEW t \in Refunders, AttemptMark(t), NEW i \in Intents, tgt[t] = i
  PROVE  Promise!Settle(i) \/ Promise!Forget(i)
<1>1. /\ tgt[t] \in Intents /\ pc[t] = "mark" /\ UNCHANGED <<tgt, captured, refunds, over>>
      /\ refunds[tgt[t]] > 0
  BY DEF TypeOK, Made, AttemptMark, Return, Step
<1>2. CASE SetStatus(tgt[t], "refunded") /\ Return(t, "mark", "ok") /\ UNCHANGED lost
  <2> DEFINE to == Resume(t, "ok")
  <2>1. Step(t, "mark", to) /\ "mark" \in PCs /\ to \in PCs \ HeldPCs
    BY <1>2, ResumeUnheld DEF Return, PCs, AttemptPCs
  <2> HIDE DEF to
  <2>2. OpenBook' = OpenBook /\ MishapBook' = MishapBook
    BY <1>1, <1>2, <2>1, OpenStays DEF HeldPCs, MishapBook
  <2>3. StateBook' = [StateBook EXCEPT ![tgt[t]] = "returned"]
    BY <1>1, <1>2, StatusInBooks DEF Statuses
  <2> QED
    BY <1>1, <2>2, <2>3 DEF Promise!Settle, StateBook, OpenBook, MishapBook
<1>3. CASE /\ Step(t, "mark", "revert")
           /\ lost' = [lost EXCEPT ![tgt[t]] = @ + 1]
           /\ UNCHANGED intent
  <2>1. OpenBook' = [OpenBook EXCEPT ![tgt[t]] = @ + 1]
    BY <1>1, <1>3, OpenGrows DEF PCs, AttemptPCs
  <2>2. MishapBook' = [MishapBook EXCEPT ![tgt[t]] = @ + 1]
    BY <1>1, <1>3, MishapCounts
  <2>3. StateBook' = StateBook
    BY <1>3 DEF StateBook, RefundState
  <2> QED
    BY <1>1, <2>1, <2>2, <2>3 DEF Promise!Forget, StateBook, OpenBook, MishapBook
<1> QED
  BY <1>2, <1>3 DEF AttemptMark

LEMMA RevertInBooks ==
  ASSUME TypeOK, NEW t \in Refunders, AttemptRevert(t), NEW i \in Intents, tgt[t] = i
  PROVE  Promise!Release(i)
<1>1. /\ tgt[t] \in Intents /\ Return(t, "revert", "error")
      /\ UNCHANGED <<tgt, captured, refunds, over, lost>>
  BY DEF TypeOK, AttemptRevert
<1> DEFINE to == Resume(t, "error")
<1>2. Step(t, "revert", to) /\ "revert" \in PCs /\ to \in PCs \ HeldPCs
  BY <1>1, ResumeUnheld DEF Return, PCs, AttemptPCs
<1> HIDE DEF to
<1>3. OpenBook' = [OpenBook EXCEPT ![tgt[t]] = @ - 1] /\ OpenBook[tgt[t]] > 0
  BY <1>1, <1>2, OpenShrinks DEF HeldPCs
<1>4. MishapBook' = MishapBook
  BY <1>1 DEF MishapBook
<1>5. \/ /\ StateBook[tgt[t]] = "returning"
         /\ StateBook' = [StateBook EXCEPT ![tgt[t]] = "kept"]
      \/ StateBook' = StateBook
  <2>1. CASE intent[tgt[t]].status = "refund_pending"
    <3>1. StateBook[tgt[t]] = "returning"
      BY <1>1, <2>1 DEF StateBook, RefundState
    <3>2. SetStatus(tgt[t], "succeeded")
      BY <2>1 DEF AttemptRevert
    <3> QED
      BY <1>1, <3>1, <3>2, StatusInBooks DEF Statuses, Refunding
  <2>2. CASE intent[tgt[t]].status # "refund_pending"
    BY <1>1, <2>2 DEF AttemptRevert, StateBook, RefundState
  <2> QED
    BY <2>1, <2>2
<1> QED
  BY <1>1, <1>3, <1>4, <1>5 DEF Promise!Release, StateBook, OpenBook, MishapBook

LEMMA CrashInBooks ==
  ASSUME TypeOK, NEW t \in Refunders, Crash(t), NEW i \in Intents, tgt[t] = i
  PROVE  \/ Promise!Release(i) \/ Promise!PayBack(i)
         \/ UNCHANGED Promise!books
<1>1. /\ tgt[t] \in Intents /\ pc[t] \in PCs /\ "idle" \in PCs /\ Step(t, pc[t], "idle")
      /\ UNCHANGED <<tgt, intent, captured, over, lost>>
  BY DEF TypeOK, Crash, Step, intentVars, PCs, CallerPCs
<1>2. StateBook' = StateBook /\ MishapBook' = MishapBook
  BY <1>1 DEF StateBook, RefundState, MishapBook
<1>3. CASE pc[t] \in {"psp", "revert"}
  <2>1. OpenBook' = [OpenBook EXCEPT ![tgt[t]] = @ - 1] /\ OpenBook[tgt[t]] > 0
    BY <1>1, <1>3, OpenShrinks
  <2>2. CASE UNCHANGED refunds
    BY <1>1, <1>2, <2>1, <2>2 DEF Promise!Release, StateBook, OpenBook, MishapBook
  <2>3. CASE tgt[t] \in captured /\ refunds' = [refunds EXCEPT ![tgt[t]] = @ + 1]
    BY <1>1, <1>2, <2>1, <2>3 DEF Promise!PayBack, StateBook, OpenBook, MishapBook
  <2> QED
    BY <2>2, <2>3 DEF Crash
<1>4. CASE pc[t] \notin {"psp", "revert"}
  <2>1. OpenBook' = OpenBook /\ UNCHANGED refunds
    BY <1>1, <1>4, OpenStays DEF Crash
  <2> QED
    BY <1>1, <1>2, <2>1 DEF Promise!books, StateBook, OpenBook, MishapBook
<1> QED
  BY <1>3, <1>4
-----------------------------------------------------------------------------
(* The steps of others are mishaps, charges, or none of the ledger's business *)

(* A save writes over one row; if it moves a refund, it is a mishap. *)
LEMMA SaveInBooks ==
  ASSUME TypeOK, NEW k \in Intents, NEW row \in Rows, Save(k, row),
         UNCHANGED <<captured, pc, tgt, refunds, lost>>
  PROVE  Promise!Overwrite(k) \/ UNCHANGED Promise!books
<1>1. OpenBook' = OpenBook /\ \A i \in Intents : Opened(i)' = Opened(i)
  BY DEF Opened, OpenBook
<1>2. /\ \A i \in Intents \ {k} : intent'[i] = intent[i]
      /\ intent'[k] = row
  BY DEF Save, TypeOK
<1>3. \A i \in Intents \ {k} : RefundState(i)' = RefundState(i)
  BY <1>2 DEF RefundState
<1>4. CASE Disturbs(k, row)
  <2>1. over' = [over EXCEPT ![k] = @ + 1]
    BY <1>4 DEF Save
  <2>2. MishapBook' = [MishapBook EXCEPT ![k] = @ + 1]
    BY <2>1, MishapCounts
  <2>3. RefundState(k)' \in Promise!States
    BY DEF RefundState, Promise!States
  <2>4. StateBook' = [StateBook EXCEPT ![k] = RefundState(k)']
    BY <1>3 DEF StateBook
  <2> QED
    BY <1>1, <2>2, <2>3, <2>4 DEF Promise!Overwrite, StateBook, OpenBook, MishapBook
<1>5. CASE ~Disturbs(k, row)
  <2>1. over' = over
    BY <1>5 DEF Save
  <2>2. RefundState(k)' = RefundState(k)
    BY <1>2, <1>5 DEF Disturbs, RefundState, Refunding
  <2> QED
    BY <1>1, <1>3, <2>1, <2>2, Unmoved
<1> QED
  BY <1>4, <1>5

(* Money comes in by a charge. *)
LEMMA ChargeInBooks ==
  ASSUME TypeOK, NEW i \in Intents, PspCaptures(i)
  PROVE  Promise!Charge(i)
<1>1. UNCHANGED <<intent, pc, tgt, refunds, lost, over>> /\ captured' = captured \cup {i} /\ i \notin captured
  BY DEF PspCaptures, refundVars
<1>2. StateBook' = StateBook /\ OpenBook' = OpenBook /\ MishapBook' = MishapBook
  BY <1>1 DEF StateBook, OpenBook, MishapBook, RefundState, Opened
<1> QED
  BY <1>1, <1>2 DEF Promise!Charge, StateBook, OpenBook, MishapBook

(* Opening a checkout moves no refund. *)
LEMMA CheckoutInBooks ==
  ASSUME TypeOK, NEW i \in Intents, CreateIntent(i) \/ OpenCheckout(i)
  PROVE  UNCHANGED Promise!books
<1>1. /\ UNCHANGED <<captured, pc, tgt, refunds, lost, over>>
      /\ intent[i].status \notin Refunding /\ intent'[i].status \notin Refunding
      /\ \A j \in Intents \ {i} : intent'[j] = intent[j]
  BY DEF CreateIntent, OpenCheckout, SetStatus, TypeOK, Rows, Refunding, refundVars
<1>2. RefundState(i)' = RefundState(i)
  BY <1>1 DEF RefundState, Refunding
<1>3. \A j \in Intents \ {i} : RefundState(j)' = RefundState(j)
  BY <1>1 DEF RefundState
<1>4. \A j \in Intents : Opened(j)' = Opened(j)
  BY <1>1 DEF Opened
<1> QED
  BY <1>1, <1>2, <1>3, <1>4, Unmoved

(* What leaves intents, the PSP and the attempts alone moves no refund. *)
LEMMA StillBooks ==
  ASSUME UNCHANGED <<intent, captured, pc, tgt, refunds, lost, over>>
  PROVE  UNCHANGED Promise!books
<1>1. \A i \in Intents : RefundState(i)' = RefundState(i) /\ Opened(i)' = Opened(i)
  BY DEF RefundState, Opened
<1> QED
  BY <1>1, Unmoved

LEMMA AsideInBooks ==
  ASSUME TypeOK, Aside
  PROVE  UNCHANGED Promise!books
<1>1. \A i \in Intents : Opened(i)' = Opened(i)
  BY DEF Aside, Opened, HeldPCs
<1>2. \A i \in Intents : RefundState(i)' = RefundState(i)
  BY DEF Aside, RefundState, intentVars
<1> QED
  BY <1>1, <1>2, Unmoved DEF Aside, intentVars

-----------------------------------------------------------------------------
(* The refinement *)

LEMMA StepRefines == TypeOK /\ Made /\ [Next]_vars => [Promise!Next]_(Promise!books)
<1> SUFFICES ASSUME TypeOK, Made, [Next]_vars
             PROVE  (\E i \in Intents :
                       \/ Promise!Charge(i) \/ Promise!Claim(i) \/ Promise!PayBack(i)
                       \/ Promise!PayBackUnheard(i) \/ Promise!Settle(i) \/ Promise!Forget(i)
                       \/ Promise!Release(i) \/ Promise!Overwrite(i))
                    \/ UNCHANGED Promise!books
  BY DEF Promise!Next
<1> DEFINE Goal == (\E i \in Intents :
                      \/ Promise!Charge(i) \/ Promise!Claim(i) \/ Promise!PayBack(i)
                      \/ Promise!PayBackUnheard(i) \/ Promise!Settle(i) \/ Promise!Forget(i)
                      \/ Promise!Release(i) \/ Promise!Overwrite(i))
                   \/ UNCHANGED Promise!books
<1>1. CASE Aside
  BY <1>1, AsideInBooks
<1>2. ASSUME NEW t \in Refunders, Refunds(t) PROVE Goal
  <2>1. PICK i \in Intents : tgt[t] = i
    BY DEF TypeOK
  <2>2. ASSUME Claims(t) PROVE Goal
    BY <2>1, <2>2, ClaimInBooks
  <2>3. ASSUME PspRefund(t) PROVE Goal
    BY <2>1, <2>3, PspInBooks
  <2>4. ASSUME AttemptMark(t) PROVE Goal
    BY <2>1, <2>4, MarkInBooks
  <2>5. ASSUME AttemptRevert(t) PROVE Goal
    BY <2>1, <2>5, RevertInBooks
  <2>6. ASSUME Crash(t) PROVE Goal
    BY <2>1, <2>6, CrashInBooks
  <2> QED
    BY <1>2, <2>2, <2>3, <2>4, <2>5, <2>6 DEF Refunds
<1>3. ASSUME NEW i \in Intents, PspCaptures(i) PROVE Goal
  BY <1>3, ChargeInBooks
<1>4. ASSUME NEW i \in Intents, CreateIntent(i) \/ OpenCheckout(i) PROVE Goal
  BY <1>4, CheckoutInBooks
<1>5. ASSUME NEW i \in Intents, PspDeclines(i) \/ UseIntent(i) PROVE Goal
  BY <1>5, StillBooks DEF PspDeclines, UseIntent, refundVars
<1>6. ASSUME NEW c \in Confirms, ConfirmSave(c) PROVE Goal
  <2>1. conf[c].intent \in Intents /\ conf[c].row \in Rows
    BY DEF TypeOK
  <2> QED
    BY <1>6, <2>1, SaveInBooks DEF ConfirmSave, refundVars
<1>7. ASSUME NEW d \in Deliveries, HookSave(d) PROVE Goal
  <2>1. hook[d].event[1] \in Intents /\ hook[d].row \in Rows
    BY DEF TypeOK
  <2> QED
    BY <1>7, <2>1, SaveInBooks DEF HookSave, refundVars
<1>8. ASSUME NEW c \in Confirms, ConfirmVerify(c) \/ (\E i \in Intents : ConfirmRead(c, i)) PROVE Goal
  BY <1>8, StillBooks DEF ConfirmVerify, ConfirmRead, refundVars, intentVars
<1>9. ASSUME NEW d \in Deliveries, HookLoad(d) \/ CrashHook(d) \/ (\E e \in events : HookRecord(d, e))
      PROVE  Goal
  BY <1>9, StillBooks DEF HookLoad, CrashHook, HookRecord, refundVars, intentVars
<1>10. CASE UNCHANGED vars
  BY <1>10, StillBooks DEF vars, intentVars, refundVars
<1> QED
  BY <1>1, <1>2, <1>3, <1>4, <1>5, <1>6, <1>7, <1>8, <1>9, <1>10, AsideShape
     DEF Next, Environment, Attempt, Refunds

LEMMA InitRefines == Init => Promise!Init
<1> SUFFICES ASSUME Init PROVE Promise!Init
  OBVIOUS
<1>1. \A i \in Intents : Opened(i) = {} /\ RefundState(i) = "kept" /\ lost[i] + over[i] = 0
  BY DEF Init, Opened, RefundState, NoRow
<1>2. \A i \in Intents : Cardinality(Opened(i)) = 0
  BY <1>1, FS_EmptySet
<1> QED
  BY <1>1, <1>2 DEF Init, Promise!Init

(* Requests, workers, retries, webhooks and crashes implement the ledger: none of
   their steps pays without a claim or claims what is not kept. *)
THEOREM RefundsImplementLedger == Spec => RefundsFollowLedger
<1>1. IInv /\ [Next]_vars => [Promise!Next]_(Promise!books)
  BY StepRefines DEF IInv
<1> QED
  BY <1>1, InitRefines, Invariance, PTL DEF Spec, RefundsFollowLedger, Promise!Spec
=============================================================================
