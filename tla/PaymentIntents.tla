--------------------------- MODULE PaymentIntents ---------------------------
(***************************************************************************)
(* Payment intents and their refunds: PaymentsService and the outbox       *)
(* worker PaymentOutboxService, the database rows they share and the       *)
(* payment service provider (PSP) on the other side of the network.        *)
(*                                                                         *)
(* Each await of the services is a point where other requests run, so a    *)
(* handler is a thread that takes one step per database or PSP call.       *)
(* `repository.save(row)` writes every column of a row read earlier,       *)
(* `update(criteria, patch)` tests and writes in one statement.            *)
(***************************************************************************)
EXTENDS Naturals, FiniteSets

CONSTANTS
  Intents,      \* payment intents
  Requests,     \* HTTP requests running refundForOrderCancel
  Pollers,      \* server processes, each with its own outbox timer
  Confirms,     \* HTTP requests running confirmIntent
  Deliveries,   \* webhook deliveries being handled
  Admins,       \* admin requests running PaymentOutboxService.retry
  Jobs,         \* ids an outbox row can get
  Kinds,        \* the webhook event kinds the provider sends
  MaxAttempts,  \* maxAttempts of an outbox row (8 in the code)
  MaxLost,      \* bound: refunds whose success never reached our row
  MaxOver,      \* bound: saves that overwrite a refund's progress
  MaxCrash      \* bound: crashes of a thread

ASSUME ThreadsDisjoint == Requests \cap Pollers = {}
ASSUME FiniteThreads   == IsFiniteSet(Requests) /\ IsFiniteSet(Pollers)
ASSUME BoundsNat       == MaxAttempts \in Nat \ {0} /\ MaxLost \in Nat
                          /\ MaxOver \in Nat /\ MaxCrash \in Nat
ASSUME NotEmpty        == Intents # {} /\ Jobs # {} /\ Kinds # {}
ASSUME KindsKnown      == Kinds \subseteq
                            {"captured", "order_paid", "failed", "wrong_amount"}

Refunders == Requests \cup Pollers
PaidKinds == {"captured", "order_paid"}

AnyIntent == CHOOSE i \in Intents : TRUE
AnyJob    == CHOOSE j \in Jobs : TRUE
AnyEvent  == <<AnyIntent, CHOOSE k \in Kinds : TRUE>>

VARIABLES
  intent,    \* the payment_intent rows: status, and whether a payment reference is stored
  used,      \* intents an order or a booking was paid with
  captured,  \* intents whose payment the PSP captured
  refunds,   \* refunds the PSP executed, per intent
  events,    \* webhook events the PSP has sent (and may deliver again)
  recorded,  \* payment_webhook_event rows
  job,       \* payment_outbox rows
  pc,        \* where each refunding thread is
  tgt,       \* the intent it refunds
  poll,      \* a poller's batch, and the outbox row it loaded
  conf,      \* the confirm requests: step, intent and row read
  hook,      \* the webhook deliveries: step, event and row read
  adm,       \* the admin retries: step, job and row read
  lost,      \* history: refunds executed whose success our row does not show
  over,      \* history: saves that overwrote the status of a refund
  crashes    \* history: threads that died half way

intentVars == <<intent, used, captured, events, recorded>>
jobVars    == <<job, poll, adm>>
refundVars == <<pc, tgt, refunds, lost>>
readers    == <<conf, hook>>
vars == <<intentVars, jobVars, refundVars, readers, over, crashes>>

-----------------------------------------------------------------------------
(* Types *)

Statuses == {"none", "created", "requires_action", "pending", "succeeded",
             "failed", "refund_pending", "refunded"}
Refunding == {"refund_pending", "refunded"}
Rows      == [status : Statuses, ref : BOOLEAN]

JobRows   == [status : {"none", "pending", "processing", "done", "dead"},
              intent : Intents, attempts : Nat]
Live      == {"pending", "processing"}

\* The steps of attemptPspRefund, then those of its two callers.
AttemptPCs == {"read", "claim", "recheck", "psp", "mark", "revert"}
CallerPCs  == {"idle", "find", "insert", "next", "load", "saveDone", "saveFail"}

TypeOK ==
  /\ intent \in [Intents -> Rows]
  /\ used \subseteq Intents
  /\ captured \subseteq Intents
  /\ refunds \in [Intents -> Nat]
  /\ events \subseteq Intents \X Kinds
  /\ recorded \subseteq events
  /\ job \in [Jobs -> JobRows]
  /\ pc \in [Refunders -> AttemptPCs \cup CallerPCs]
  /\ tgt \in [Refunders -> Intents]
  /\ poll \in [Pollers -> [batch : SUBSET Jobs, job : Jobs, attempts : Nat]]
  /\ conf \in [Confirms -> [pc : {"idle", "verify", "save"}, intent : Intents, row : Rows]]
  /\ hook \in [Deliveries -> [pc : {"idle", "load", "save"},
                              event : Intents \X Kinds, row : Rows]]
  /\ adm \in [Admins -> [pc : {"idle", "save", "answered"}, job : Jobs, row : JobRows]]
  /\ lost \in [Intents -> Nat]
  /\ over \in [Intents -> Nat]
  /\ crashes \in Nat

NoRow  == [status |-> "none", ref |-> FALSE]
NoWork == [batch |-> {}, job |-> AnyJob, attempts |-> 0]
NoJob  == [status |-> "none", intent |-> AnyIntent, attempts |-> 0]

Init ==
  /\ intent = [i \in Intents |-> NoRow]
  /\ used = {} /\ captured = {} /\ events = {} /\ recorded = {}
  /\ job = [j \in Jobs |-> NoJob]
  /\ pc = [t \in Refunders |-> "idle"]
  /\ tgt = [t \in Refunders |-> AnyIntent]
  /\ poll = [p \in Pollers |-> NoWork]
  /\ conf = [c \in Confirms |-> [pc |-> "idle", intent |-> AnyIntent, row |-> NoRow]]
  /\ hook = [d \in Deliveries |-> [pc |-> "idle", event |-> AnyEvent, row |-> NoRow]]
  /\ adm = [a \in Admins |-> [pc |-> "idle", job |-> AnyJob, row |-> NoJob]]
  /\ refunds = [i \in Intents |-> 0]
  /\ lost = [i \in Intents |-> 0]
  /\ over = [i \in Intents |-> 0]
  /\ crashes = 0

-----------------------------------------------------------------------------
(* Writes of the payment_intent table *)

\* update(): a statement that sets the status of the current row.
SetStatus(i, s) == intent' = [intent EXCEPT ![i].status = s]

\* A save that moves a refund's status from outside attemptPspRefund.
Disturbs(i, row) ==
  /\ row.status # intent[i].status
  /\ {row.status, intent[i].status} \cap Refunding # {}

\* save(row): all columns are written, whatever the table holds by now.
Save(i, row) ==
  /\ intent' = [intent EXCEPT ![i] = row]
  /\ over' = IF Disturbs(i, row) THEN [over EXCEPT ![i] = @ + 1] ELSE over
  /\ over'[i] <= MaxOver

-----------------------------------------------------------------------------
(* The customer and the PSP *)

\* createIntent inserts the row before it looks for a gateway ...
CreateIntent(i) ==
  /\ intent[i].status = "none"
  /\ SetStatus(i, "created")
  /\ UNCHANGED <<used, captured, events, recorded, jobVars, refundVars, readers, over, crashes>>

\* ... and saves it again once the PSP has opened a checkout.
OpenCheckout(i) ==
  /\ intent[i].status = "created"
  /\ SetStatus(i, "requires_action")
  /\ UNCHANGED <<used, captured, events, recorded, jobVars, refundVars, readers, over, crashes>>

HasSession(i) == intent[i].status \notin {"none", "created"}

\* A payment attempt fails at the PSP; the customer may try again.
PspDeclines(i) ==
  /\ HasSession(i) /\ i \notin captured
  /\ events' = events \cup ({i} \X (Kinds \cap {"failed"}))
  /\ UNCHANGED <<intent, used, captured, recorded, jobVars, refundVars, readers, over, crashes>>

\* The PSP captures the payment and announces it, perhaps more than once.
PspCaptures(i) ==
  /\ HasSession(i) /\ i \notin captured
  /\ captured' = captured \cup {i}
  /\ events' = events \cup ({i} \X (Kinds \ {"failed"}))
  /\ UNCHANGED <<intent, used, recorded, jobVars, refundVars, readers, over, crashes>>

\* assertSucceededForOrder lets an order or a booking take the intent.
UseIntent(i) ==
  /\ intent[i].status = "succeeded"
  /\ i \notin used
  /\ used' = used \cup {i}
  /\ UNCHANGED <<intent, captured, events, recorded, jobVars, refundVars, readers, over, crashes>>

-----------------------------------------------------------------------------
(* confirmIntent: read, ask the PSP, save the row that was read *)

ConfirmRead(c, i) ==
  /\ conf[c].pc = "idle"
  /\ HasSession(i)
  /\ intent[i].status \notin {"succeeded", "failed", "refunded"}
  /\ conf' = [conf EXCEPT ![c] = [pc |-> "verify", intent |-> i, row |-> intent[i]]]
  /\ UNCHANGED <<intentVars, jobVars, refundVars, hook, over, crashes>>

\* Fault: a payment that is still pending at the PSP counts as succeeded.
Verdicts_Optimistic(i) == {"failed", "succeeded"}

\* A client result that does not verify is a failure even when the money was taken.
Verdicts(i) ==
  {"failed"} \cup (IF i \in captured THEN {"succeeded"} ELSE {"pending"})

ConfirmVerify(c) ==
  /\ conf[c].pc = "verify"
  /\ \E v \in Verdicts(conf[c].intent), hasRef \in BOOLEAN :
       conf' = [conf EXCEPT ![c].pc = "save",
                            ![c].row = [status |-> v,
                                        ref |-> @.ref \/ (hasRef /\ v # "failed")]]
  /\ UNCHANGED <<intentVars, jobVars, refundVars, hook, over, crashes>>

ConfirmSave(c) ==
  /\ conf[c].pc = "save"
  /\ Save(conf[c].intent, conf[c].row)
  /\ conf' = [conf EXCEPT ![c] = [pc |-> "idle", intent |-> AnyIntent, row |-> NoRow]]
  /\ UNCHANGED <<used, captured, events, recorded, jobVars, refundVars, hook, crashes>>

-----------------------------------------------------------------------------
(* applyProviderWebhook: record the event, read the row, save it *)

\* A delivery of an event already recorded is answered 'duplicate'.
HookRecord(d, e) ==
  /\ hook[d].pc = "idle"
  /\ e \in events \ recorded
  /\ recorded' = recorded \cup {e}
  /\ hook' = [hook EXCEPT ![d] = [pc |-> "load", event |-> e, row |-> NoRow]]
  /\ UNCHANGED <<intent, used, captured, events, jobVars, refundVars, conf, over, crashes>>

Ended == [pc |-> "idle", event |-> AnyEvent, row |-> NoRow]

\* The row the webhook would save; a wrong amount only sets failureReason.
Applied(row, kind) ==
  CASE kind \in PaidKinds    -> [status |-> "succeeded", ref |-> TRUE]
    [] kind = "failed"       -> [row EXCEPT !.status = "failed"]
    [] kind = "wrong_amount" -> row

NothingToApply(row, kind) ==
  /\ kind # "wrong_amount"
  /\ \/ row.status = "refunded"
     \/ row.status = "succeeded" /\ kind \in PaidKinds

HookLoad(d) ==
  LET row  == intent[hook[d].event[1]]
      kind == hook[d].event[2]
  IN  /\ hook[d].pc = "load"
      /\ hook' = [hook EXCEPT ![d] =
                    IF NothingToApply(row, kind) THEN Ended
                    ELSE [@ EXCEPT !.pc = "save", !.row = Applied(row, kind)]]
      /\ UNCHANGED <<intentVars, jobVars, refundVars, conf, over, crashes>>

HookSave(d) ==
  /\ hook[d].pc = "save"
  /\ Save(hook[d].event[1], hook[d].row)
  /\ hook' = [hook EXCEPT ![d] = Ended]
  /\ UNCHANGED <<used, captured, events, recorded, jobVars, refundVars, conf, crashes>>

-----------------------------------------------------------------------------
(* attemptPspRefund, run by a request or by the outbox worker *)

Step(t, from, to) == pc[t] = from /\ pc' = [pc EXCEPT ![t] = to]

\* Where the caller goes on with the result: a request answers, or queues a
\* failed refund; the worker saves its outbox row, and a skip counts as a failure.
Resume(t, result) ==
  IF t \in Requests
  THEN IF result = "error" THEN "find" ELSE "idle"
  ELSE IF result = "ok" THEN "saveDone" ELSE "saveFail"

Return(t, from, result) == Step(t, from, Resume(t, result))

\* The decision taken on the row as it was read.
AttemptRead(t) ==
  LET row == intent[tgt[t]]
  IN  /\ \/ row.status = "refunded" /\ Return(t, "read", "ok")
         \/ row.status = "refund_pending" /\ Return(t, "read", "error")
         \/ row.status \notin Refunding \cup {"succeeded"} /\ Return(t, "read", "skip")
         \/ row.status = "succeeded" /\ ~row.ref /\ Return(t, "read", "error")
         \/ row.status = "succeeded" /\ row.ref /\ Step(t, "read", "claim")
      /\ UNCHANGED <<intentVars, jobVars, tgt, refunds, lost, readers, over, crashes>>

\* Fault: the claim writes the status without testing it.
AttemptClaim_Unconditional(t) ==
  /\ SetStatus(tgt[t], "refund_pending")
  /\ Step(t, "claim", "psp")
  /\ UNCHANGED <<used, captured, events, recorded, jobVars, tgt, refunds, lost, readers, over, crashes>>

\* One conditional UPDATE decides which attempt may call the PSP.
AttemptClaim(t) ==
  /\ \/ /\ intent[tgt[t]].status = "succeeded"
        /\ SetStatus(tgt[t], "refund_pending")
        /\ Step(t, "claim", "psp")
     \/ /\ intent[tgt[t]].status # "succeeded"
        /\ Step(t, "claim", "recheck")
        /\ UNCHANGED intent
  /\ UNCHANGED <<used, captured, events, recorded, jobVars, tgt, refunds, lost, readers, over, crashes>>

AttemptRecheck(t) ==
  /\ \/ intent[tgt[t]].status = "refunded" /\ Return(t, "recheck", "ok")
     \/ intent[tgt[t]].status # "refunded" /\ Return(t, "recheck", "error")
  /\ UNCHANGED <<intentVars, jobVars, tgt, refunds, lost, readers, over, crashes>>

\* Fault: a refusal of the PSP is not noticed.
PspRefund_RefusalIgnored(t) ==
  /\ Step(t, "psp", "mark")
  /\ UNCHANGED <<intentVars, jobVars, tgt, refunds, lost, readers, over, crashes>>

\* The PSP call: it may refuse, refund and answer, or refund and the answer is
\* lost (a timeout). There is no idempotency key, so it may refund again.
PspRefund(t) ==
  LET i == tgt[t]
  IN  /\ \/ /\ Step(t, "psp", "revert")
            /\ UNCHANGED <<refunds, lost>>
         \/ /\ i \in captured
            /\ refunds' = [refunds EXCEPT ![i] = @ + 1]
            /\ \/ Step(t, "psp", "mark") /\ UNCHANGED lost
               \/ /\ Step(t, "psp", "revert")
                  /\ lost[i] < MaxLost
                  /\ lost' = [lost EXCEPT ![i] = @ + 1]
      /\ UNCHANGED <<intentVars, jobVars, tgt, readers, over, crashes>>

\* update(id, refunded), unconditional; a failing statement reaches the catch.
AttemptMark(t) ==
  LET i == tgt[t]
  IN  /\ \/ /\ SetStatus(i, "refunded")
            /\ Return(t, "mark", "ok")
            /\ UNCHANGED lost
         \/ /\ Step(t, "mark", "revert")
            /\ lost[i] < MaxLost
            /\ lost' = [lost EXCEPT ![i] = @ + 1]
            /\ UNCHANGED intent
      /\ UNCHANGED <<used, captured, events, recorded, jobVars, tgt, refunds, readers, over, crashes>>

\* Fault: the catch does not give the claim back.
AttemptRevert_ClaimKept(t) ==
  /\ Return(t, "revert", "error")
  /\ UNCHANGED <<intentVars, jobVars, tgt, refunds, lost, readers, over, crashes>>

\* Fault: the catch writes a status no reader knows.
AttemptRevert_UnknownStatus(t) ==
  /\ SetStatus(tgt[t], "refund_failed")
  /\ Return(t, "revert", "error")
  /\ UNCHANGED <<used, captured, events, recorded, jobVars, tgt, refunds, lost, readers, over, crashes>>

\* catch: give the claim back, if it is still this attempt's, and report the error.
AttemptRevert(t) ==
  /\ IF intent[tgt[t]].status = "refund_pending"
     THEN SetStatus(tgt[t], "succeeded")
     ELSE UNCHANGED intent
  /\ Return(t, "revert", "error")
  /\ UNCHANGED <<used, captured, events, recorded, jobVars, tgt, refunds, lost, readers, over, crashes>>

-----------------------------------------------------------------------------
(* refundForOrderCancel and enqueueRefund *)

\* Bound: a request starts only while there is an outbox id left for it.
RoomForJob == Cardinality({r \in Requests : pc[r] # "idle"})
                < Cardinality({j \in Jobs : job[j].status = "none"})

\* A cancelled order or booking asks for its money back, as often as it is asked.
StartRequest(r, i) ==
  /\ i \in used
  /\ RoomForJob
  /\ Step(r, "idle", "read")
  /\ tgt' = [tgt EXCEPT ![r] = i]
  /\ UNCHANGED <<intentVars, jobVars, refunds, lost, readers, over, crashes>>

LiveJob(i) == \E j \in Jobs : job[j].status \in Live /\ job[j].intent = i

EnqueueFind(r) ==
  /\ \/ LiveJob(tgt[r]) /\ Step(r, "find", "idle")
     \/ ~LiveJob(tgt[r]) /\ Step(r, "find", "insert")
  /\ UNCHANGED <<intentVars, jobVars, tgt, refunds, lost, readers, over, crashes>>

EnqueueInsert(r) ==
  /\ Step(r, "insert", "idle")
  /\ \E j \in Jobs :
       /\ job[j].status = "none"
       /\ job' = [job EXCEPT ![j] = [status |-> "pending", intent |-> tgt[r], attempts |-> 0]]
  /\ UNCHANGED <<intentVars, poll, adm, tgt, refunds, lost, readers, over, crashes>>

-----------------------------------------------------------------------------
(* PaymentOutboxService: processDue, processOne, failAttempt, retry *)

\* A tick of the timer, unless the last run of this process is still going on;
\* which pending rows are due is left open.
PollDue(p) ==
  /\ \E due \in SUBSET {j \in Jobs : job[j].status = "pending"} \ {{}} :
       poll' = [poll EXCEPT ![p].batch = due]
  /\ Step(p, "idle", "next")
  /\ UNCHANGED <<intentVars, job, adm, tgt, refunds, lost, readers, over, crashes>>

AfterJob(batch) == IF batch = {} THEN "idle" ELSE "next"

JobClaim(p) ==
  \E j \in poll[p].batch :
    LET rest == poll[p].batch \ {j}
    IN  /\ \/ /\ job[j].status = "pending"
              /\ job' = [job EXCEPT ![j].status = "processing"]
              /\ poll' = [poll EXCEPT ![p] = [batch |-> rest, job |-> j, attempts |-> 0]]
              /\ Step(p, "next", "load")
           \/ /\ job[j].status # "pending"
              /\ poll' = [poll EXCEPT ![p].batch = rest]
              /\ Step(p, "next", AfterJob(rest))
              /\ UNCHANGED job
        /\ UNCHANGED <<intentVars, adm, tgt, refunds, lost, readers, over, crashes>>

JobLoad(p) ==
  /\ Step(p, "load", "read")
  /\ poll' = [poll EXCEPT ![p].attempts = job[poll[p].job].attempts]
  /\ tgt' = [tgt EXCEPT ![p] = job[poll[p].job].intent]
  /\ UNCHANGED <<intentVars, job, adm, refunds, lost, readers, over, crashes>>

\* The worker saves the row it loaded, with the new status and one more attempt.
JobSave(p, from, status) ==
  /\ Step(p, from, AfterJob(poll[p].batch))
  /\ job' = [job EXCEPT ![poll[p].job] = [status |-> status, intent |-> tgt[p],
                                          attempts |-> poll[p].attempts + 1]]
  /\ poll' = [poll EXCEPT ![p] = [NoWork EXCEPT !.batch = poll[p].batch]]
  /\ UNCHANGED <<intentVars, adm, tgt, refunds, lost, readers, over, crashes>>

JobDone(p) == JobSave(p, "saveDone", "done")

\* Fault: the new attempt is counted twice.
AttemptsUsedUp_OffByOne(p) == poll[p].attempts + 2 >= MaxAttempts

AttemptsUsedUp(p) == poll[p].attempts + 1 >= MaxAttempts

\* Fault: a failed job is not made pending again.
FailAttempt_LeftProcessing(p) ==
  \/ AttemptsUsedUp(p) /\ JobSave(p, "saveFail", "dead")
  \/ ~AttemptsUsedUp(p) /\ JobSave(p, "saveFail", "processing")

FailAttempt(p) ==
  \/ AttemptsUsedUp(p) /\ JobSave(p, "saveFail", "dead")
  \/ ~AttemptsUsedUp(p) /\ JobSave(p, "saveFail", "pending")

\* Bound: each admin request retries one row once.
RetryRead(a, j) ==
  /\ adm[a].pc = "idle"
  /\ job[j].status # "none"
  /\ adm' = [adm EXCEPT ![a] = [pc |-> "save", job |-> j, row |-> job[j]]]
  /\ UNCHANGED <<intentVars, job, poll, refundVars, readers, over, crashes>>

RetrySave(a) ==
  /\ adm[a].pc = "save"
  /\ job' = [job EXCEPT ![adm[a].job] = [adm[a].row EXCEPT !.status = "pending"]]
  /\ adm' = [adm EXCEPT ![a] = [pc |-> "answered", job |-> AnyJob, row |-> NoJob]]
  /\ UNCHANGED <<intentVars, poll, refundVars, readers, over, crashes>>

-----------------------------------------------------------------------------
(* Failures: a thread dies between two of its calls *)

\* A refund cut off at the PSP call may or may not have been executed.
Crash(t) ==
  /\ pc[t] # "idle" /\ crashes < MaxCrash
  /\ crashes' = crashes + 1
  /\ pc' = [pc EXCEPT ![t] = "idle"]
  /\ poll' = [p \in Pollers |-> IF p = t THEN NoWork ELSE poll[p]]
  /\ \/ UNCHANGED refunds
     \/ /\ pc[t] = "psp" /\ tgt[t] \in captured
        /\ refunds' = [refunds EXCEPT ![tgt[t]] = @ + 1]
  /\ UNCHANGED <<intentVars, job, adm, tgt, lost, readers, over>>

\* A delivery that dies after recording its event: the PSP's redelivery is a duplicate.
CrashHook(d) ==
  /\ hook[d].pc # "idle" /\ crashes < MaxCrash
  /\ crashes' = crashes + 1
  /\ hook' = [hook EXCEPT ![d] = Ended]
  /\ UNCHANGED <<intentVars, jobVars, refundVars, conf, over>>

-----------------------------------------------------------------------------
Attempt(t) ==
  \/ AttemptRead(t) \/ AttemptClaim(t) \/ AttemptRecheck(t)
  \/ PspRefund(t) \/ AttemptMark(t) \/ AttemptRevert(t)

Enqueue(r) == EnqueueFind(r) \/ EnqueueInsert(r)

Work(p) == PollDue(p) \/ JobClaim(p) \/ JobLoad(p) \/ JobDone(p) \/ FailAttempt(p)

Environment ==
  \/ \E i \in Intents : \/ CreateIntent(i) \/ OpenCheckout(i) \/ PspDeclines(i)
                         \/ PspCaptures(i) \/ UseIntent(i)
  \/ \E r \in Requests, i \in Intents : StartRequest(r, i)
  \/ \E c \in Confirms, i \in Intents : ConfirmRead(c, i)
  \/ \E d \in Deliveries, e \in events : HookRecord(d, e)
  \/ \E a \in Admins, j \in Jobs : RetryRead(a, j)
  \/ \E t \in Refunders : Crash(t)
  \/ \E d \in Deliveries : CrashHook(d)

Next ==
  \/ Environment
  \/ \E t \in Refunders : Attempt(t)
  \/ \E r \in Requests : Enqueue(r)
  \/ \E p \in Pollers : Work(p)
  \/ \E c \in Confirms : ConfirmVerify(c) \/ ConfirmSave(c)
  \/ \E d \in Deliveries : HookLoad(d) \/ HookSave(d)
  \/ \E a \in Admins : RetrySave(a)

Spec == Init /\ [][Next]_vars

(* Node runs every handler it has started, an HTTP call to the PSP ends with an
   answer or a timeout, and the outbox timer keeps ticking. What customers, the
   PSP and the operators decide to do is not fair, and neither are crashes. *)
Fairness ==
  /\ \A t \in Refunders : WF_vars(Attempt(t))
  /\ \A r \in Requests : WF_vars(Enqueue(r))
  /\ \A p \in Pollers : WF_vars(Work(p))

FairSpec == Spec /\ Fairness

-----------------------------------------------------------------------------
(* Properties *)

\* Threads that hold the claim of AttemptClaim on an intent.
Claimants(i) == {t \in Refunders : tgt[t] = i /\ pc[t] \in {"psp", "mark", "revert"}}

(* Every refund the PSP executes beyond the first is owed to an answer that was
   lost, or to a webhook or a confirmation that saved a stale row over the
   refund: however cancel requests, worker processes, retries by hand and
   crashes interleave, attemptPspRefund itself never pays twice. *)
RefundsAccounted == \A i \in Intents : refunds[i] <= 1 + lost[i] + over[i]

(* While no stale save intervenes, the conditional UPDATE of attemptPspRefund
   admits one caller at a time, and the row says refund_pending throughout. *)
OneClaimant ==
  \A i \in Intents : over[i] = 0 =>
    /\ Cardinality(Claimants(i)) <= 1
    /\ Claimants(i) # {} => intent[i].status = "refund_pending"

(* A refund_pending row always has a thread that will move it on: the outbox
   only answers 'in progress' to such a row, so without one it would never be
   refunded. Only a crash or a stale save can orphan it. *)
PendingRefundHasOwner ==
  \A i \in Intents :
    crashes = 0 /\ over[i] = 0 /\ intent[i].status = "refund_pending" => Claimants(i) # {}

(* Neither the intent nor the outbox ever reports a refund the PSP did not make. *)
NoPhantomRefund ==
  /\ \A i \in Intents : intent[i].status = "refunded" => refunds[i] >= 1
  /\ \A j \in Jobs : job[j].status = "done" => refunds[job[j].intent] >= 1

(* An intent is only spendable or refundable if the PSP took the money, late
   and repeated webhooks and stale saves included. *)
PaidMeansCaptured ==
  \A i \in Intents :
    intent[i].status \in {"succeeded"} \cup Refunding \/ i \in used => i \in captured

(* A job marked 'processing' is in the hands of a poller: processDue only ever
   picks up pending jobs, so a job left in that state is never tried again. *)
ProcessingHasOwner ==
  crashes = 0 => \A j \in Jobs : job[j].status = "processing" =>
    \E p \in Pollers :
      poll[p].job = j /\ pc[p] \in AttemptPCs \cup {"load", "saveDone", "saveFail"}

(* A job is given up only after maxAttempts attempts were spent on it. *)
DeadOnlyAfterMaxAttempts ==
  \A j \in Jobs : job[j].status = "dead" => job[j].attempts >= MaxAttempts

(* A refund that has to be queued because the PSP call failed is made in the end,
   or given up after maxAttempts attempts, where an operator sees the dead job. *)
Settled(i) ==
  \/ refunds[i] >= 1
  \/ \E j \in Jobs : job[j].status = "dead" /\ job[j].intent = i

QueuedRefundSettles ==
  \A i \in Intents :
    (\E r \in Requests : pc[r] = "find" /\ tgt[r] = i) ~> Settled(i)

(* Refinement: an attempt's claim is open from the conditional UPDATE until the
   PSP has confirmed the refund or the catch has given the claim back. *)
Opened(i) == {t \in Refunders : tgt[t] = i /\ pc[t] \in {"psp", "revert"}}

RefundState(i) ==
  CASE intent[i].status = "refund_pending" -> "returning"
    [] intent[i].status = "refunded"       -> "returned"
    [] OTHER                               -> "kept"

Promise == INSTANCE RefundLedger WITH
  Payments <- Intents,
  charged  <- captured,
  state    <- [i \in Intents |-> RefundState(i)],
  open     <- [i \in Intents |-> Cardinality(Opened(i))],
  paidBack <- refunds,
  mishaps  <- [i \in Intents |-> lost[i] + over[i]]

(* Whatever requests, workers, retries, webhooks and crashes do to a payment is
   a claim, a refund, a release or a counted mishap of the abstract ledger, so
   no interleaving of attemptPspRefund with them pays without a claim, or
   claims what is not kept. *)
RefundsFollowLedger == Promise!Spec

(* payments.service.ts:435, "Idempotent when intent already refunded": as long
   as no PSP answer is lost, a payment is refunded at most once. *)
RefundIdempotent == \A i \in Intents : lost[i] = 0 => refunds[i] <= 1
=============================================================================
