--------------------------- MODULE GatewayNotices ---------------------------
(***************************************************************************)
(* What the adapters of the gateways make of what the provider says of a   *)
(* payment: the notices it posts (parseWebhook, and what                   *)
(* PaymentsService.applyProviderWebhook does with them) and the answer to  *)
(* a client that says it has paid (verifyClientConfirmation, and           *)
(* confirmIntent).                                                         *)
(*                                                                         *)
(* Of one intent with its checkout, at any of the gateways. The customer   *)
(* may try several times to pay in one checkout. PaymentIntents has the    *)
(* refunds of an intent and the processes that die, for one gateway; here  *)
(* are the differences of the four. Amounts and signatures are left out.   *)
(***************************************************************************)
EXTENDS Naturals, FiniteSets

CONSTANTS
  Tries,     \* attempts to pay in the checkout
  Handlers   \* processes that serve webhooks and confirmations

Session == "the checkout"  \* externalOrderRef
NoTry   == "no payment"

ASSUME NoticeBounds == {Session, NoTry} \cap Tries = {}

Gateways == {"razorpay", "stripe", "payu", "mock"}

VARIABLES
  checkout,  \* the intent: provider, whether its mode is live, status, externalPaymentRef
  attempt,   \* external: what became of each try
  heard,     \* payment_webhook_event rows: the notices recorded
  handler,   \* processes: step, row read, and what they have learnt
  unnamed,   \* history: a confirmation found the payment made, and did not name it
  overridden \* history: a row that said 'succeeded' was saved with another status

noticeVars == <<checkout, attempt, heard, handler, unnamed, overridden>>

Outcomes == {"none", "pending", "captured", "failed"}
Notices  == [kind : Outcomes \ {"none"}, try : Tries]
References == Tries \cup {Session, NoTry}
CheckoutRows == [provider : Gateways, live : BOOLEAN,
                 status : {"requires_action", "pending", "succeeded", "failed"}, ref : References]

NoticesTypeOK ==
  /\ checkout \in CheckoutRows /\ attempt \in [Tries -> Outcomes] /\ heard \subseteq Notices
  /\ handler \in [Handlers -> [pc : {"idle", "load", "save", "verify", "confirm"}, row : CheckoutRows,
                               says : {"succeeded", "failed", "pending"}, ref : References, mode : BOOLEAN]]
  /\ {unnamed, overridden} \subseteq BOOLEAN

Idle(row) == [pc |-> "idle", row |-> row, says |-> "pending", ref |-> NoTry, mode |-> FALSE]
Blank == [provider |-> "mock", live |-> FALSE, status |-> "requires_action", ref |-> NoTry]

\* createIntent has opened a checkout at the gateway that is active. Only PayU's adapter
\* looks at the mode, and PayU is live here.
NoticesInit ==
  /\ \E p \in Gateways : checkout = [Blank EXCEPT !.provider = p, !.live = (p = "payu")]
  /\ attempt = [t \in Tries |-> "none"] /\ heard = {}
  /\ handler = [h \in Handlers |-> Idle(Blank)]
  /\ unnamed = FALSE /\ overridden = FALSE

HandlerIs(h, fields) == handler' = [handler EXCEPT ![h] = fields]
HandlerEnds(h) == HandlerIs(h, Idle(Blank))
Captured == {t \in Tries : attempt[t] = "captured"}
SomeTry(outcome) == \E t \in Tries : attempt[t] = outcome

-----------------------------------------------------------------------------
(* The provider *)

\* The customer pays, and the provider has or has not decided. The mock has no provider.
Attempt(t) ==
  /\ checkout.provider # "mock" /\ Captured = {}
  /\ \/ attempt[t] = "none" /\ attempt' = [attempt EXCEPT ![t] = "pending"]
     \/ attempt[t] = "pending" /\ \E o \in {"captured", "failed"} : attempt' = [attempt EXCEPT ![t] = o]
  /\ UNCHANGED <<checkout, heard, handler, unnamed, overridden>>

\* It posts a notice at every turn, and again until it is answered.
Sent == {n \in Notices : attempt[n.try] = n.kind \/ (n.kind = "pending" /\ attempt[n.try] # "none")}

-----------------------------------------------------------------------------
(* Notices: parseWebhook, applyProviderWebhook *)

\* Fault: at every gateway a notice is known by its payment.
EventId_ByPayment(p, n) == <<n.try>>

\* Razorpay and Stripe number their events, or the id is made of event and payment;
\* PayU's notices are known by mihpayid, which is the payment's.
EventId(p, n) == IF p = "payu" THEN <<n.try>> ELSE <<n.kind, n.try>>

RazorpayNotice(kind) == CASE kind = "captured" -> "succeeded" [] kind = "failed" -> "failed" [] OTHER -> "ignored"
StripeNotice(kind) == CASE kind = "captured" -> "succeeded" [] kind = "failed" -> "failed" [] OTHER -> "ignored"

\* Whatever is not a success has failed.
PayuNotice(kind) == IF kind = "captured" THEN "succeeded" ELSE "failed"

Parsed(p, kind) == CASE p = "razorpay" -> RazorpayNotice(kind) [] p = "stripe" -> StripeNotice(kind)
                     [] OTHER -> PayuNotice(kind)

\* The ids taken, of which each is recorded once.
Taken(p) == {EventId(p, n) : n \in heard}

\* The mock has no webhook route. A notice whose id is taken, or that is ignored, goes no further.
NoticeRecord(h, n) ==
  LET says == Parsed(checkout.provider, n.kind) IN
  /\ handler[h].pc = "idle" /\ checkout.provider # "mock" /\ n \in Sent
  /\ EventId(checkout.provider, n) \notin Taken(checkout.provider)
  /\ heard' = heard \cup {n}
  /\ IF says = "ignored" THEN UNCHANGED handler
     ELSE HandlerIs(h, [Idle(Blank) EXCEPT !.pc = "load", !.says = says, !.ref = n.try])
  /\ UNCHANGED <<checkout, attempt, unnamed, overridden>>

\* Fault: an intent that has failed is thought to have ended.
Over_Failed(row, says) == row.status = "failed" \/ (row.status = "succeeded" /\ says = "succeeded")

\* Nothing to do for a success that is known; not even its payment is noted.
Over(row, says) == row.status = "succeeded" /\ says = "succeeded"

NoticeLoad(h) ==
  /\ handler[h].pc = "load"
  /\ IF Over(checkout, handler[h].says) THEN HandlerEnds(h)
     ELSE HandlerIs(h, [handler[h] EXCEPT !.pc = "save", !.row = checkout])
  /\ UNCHANGED <<checkout, attempt, heard, unnamed, overridden>>

\* A row that was read earlier is saved whole.
SaveRow(row) ==
  /\ checkout' = row
  /\ overridden' = (overridden \/ (checkout.status = "succeeded" /\ row.status # "succeeded"))

NoticeSave(h) ==
  LET row == handler[h].row IN
  /\ handler[h].pc = "save"
  /\ SaveRow([row EXCEPT !.status = handler[h].says, !.ref = IF handler[h].says = "succeeded" THEN handler[h].ref ELSE @])
  /\ HandlerEnds(h)
  /\ UNCHANGED <<attempt, heard, unnamed>>

-----------------------------------------------------------------------------
(* Confirmations: verifyClientConfirmation, confirmIntent *)

\* What the client can name of its payment: a payment it made, or Stripe's and the mock's checkout.
Nameable == {NoTry} \cup IF checkout.provider \in {"stripe", "mock"} THEN {Session}
                         ELSE {t \in Tries : attempt[t] # "none"}

\* An intent that is 'succeeded' is answered, one that is 'failed' refused.
ConfirmationRead(h) ==
  /\ handler[h].pc = "idle" /\ checkout.status \notin {"succeeded", "failed"}
  /\ \E named \in Nameable, mode \in IF checkout.provider \in {"payu", "mock"} THEN BOOLEAN ELSE {FALSE} :
       HandlerIs(h, [Idle(checkout) EXCEPT !.pc = "verify", !.ref = named, !.mode = mode])
  /\ UNCHANGED <<checkout, attempt, heard, unnamed, overridden>>

\* Without a payment and its signature: failed. Else as the payment is.
RazorpayVerdict(named) ==
  IF named = NoTry \/ attempt[named] = "failed" THEN "failed"
  ELSE IF attempt[named] = "captured" THEN "succeeded"
  ELSE "pending"

\* requires_payment_method: not tried yet, or the last try failed.
StripeVerdict ==
  IF Captured # {} THEN "succeeded" ELSE IF SomeTry("pending") THEN "pending" ELSE "failed"

\* Fault: a payment that PayU has not decided is taken for made.
PayuVerdict_PendingIsPaid(named, here) ==
  IF named # NoTry /\ attempt[named] = "failed" THEN "failed"
  ELSE IF ~here THEN "pending"
  ELSE IF Captured # {} \/ SomeTry("pending") THEN "succeeded"
  ELSE IF SomeTry("failed") THEN "failed"
  ELSE "pending"

\* The form that PayU gave the client must say success; then PayU is asked, at the
\* test or the live address, as the client says and not as the gateway is set: at the
\* other one the payment is not found.
PayuVerdict(named, here) ==
  IF named # NoTry /\ attempt[named] # "captured" THEN "failed"
  ELSE IF ~here THEN "pending"
  ELSE CASE Captured # {} -> "succeeded"
         [] Captured = {} /\ SomeTry("pending") -> "pending"
         [] Captured = {} /\ ~SomeTry("pending") /\ SomeTry("failed") -> "failed"
         [] OTHER -> "pending"

\* What the client says it wants (forceFail).
MockVerdict(fails) == IF fails THEN "failed" ELSE "succeeded"

ConfirmationVerify(h) ==
  LET named == handler[h].ref
      row == handler[h].row
      says == CASE row.provider = "razorpay" -> RazorpayVerdict(named)
                [] row.provider = "stripe" -> StripeVerdict
                [] row.provider = "payu" -> PayuVerdict(named, handler[h].mode = row.live)
                [] OTHER -> MockVerdict(handler[h].mode)
  IN
  /\ handler[h].pc = "verify"
  /\ HandlerIs(h, [handler[h] EXCEPT !.pc = "confirm", !.says = says, !.mode = FALSE])
  /\ UNCHANGED <<checkout, attempt, heard, unnamed, overridden>>

\* The payment that the client names, or the one that was known when the row was read.
Learnt(h) ==
  LET row == handler[h].row IN
  IF handler[h].says = "failed" THEN row.ref
  ELSE IF handler[h].ref # NoTry THEN handler[h].ref
  ELSE IF row.ref # NoTry \/ row.provider # "mock" THEN row.ref
  ELSE Session

ConfirmationSave(h) ==
  LET row == handler[h].row IN
  /\ handler[h].pc = "confirm"
  /\ SaveRow([row EXCEPT !.status = handler[h].says, !.ref = Learnt(h)])
  /\ unnamed' = (unnamed \/ (handler[h].ref = NoTry /\ handler[h].says = "succeeded"))
  /\ HandlerEnds(h)
  /\ UNCHANGED <<attempt, heard>>

NoticesNext ==
  \/ \E t \in Tries : Attempt(t)
  \/ \E h \in Handlers :
       \/ \E n \in Notices : NoticeRecord(h, n)
       \/ NoticeLoad(h) \/ NoticeSave(h)
       \/ ConfirmationRead(h) \/ ConfirmationVerify(h) \/ ConfirmationSave(h)

NoticesSpec == NoticesInit /\ [][NoticesNext]_noticeVars

-----------------------------------------------------------------------------
(* What a refund is asked by (attemptPspRefund), and what it can be asked by *)

\* Fault: every gateway is asked by what it called the payment.
RefundRef_PaymentAlways == checkout.ref

RefundRef == IF checkout.provider = "stripe" THEN Session ELSE checkout.ref

RazorpayTakes == Captured
StripeTakes == Captured \cup IF Captured # {} THEN {Session} ELSE {}
PayuTakes == Captured
MockTakes == {Session}
Takes == CASE checkout.provider = "razorpay" -> RazorpayTakes [] checkout.provider = "stripe" -> StripeTakes
           [] checkout.provider = "payu" -> PayuTakes [] OTHER -> MockTakes

-----------------------------------------------------------------------------
(* Properties *)

\* An intent that is 'succeeded' was paid, and is known by what its gateway can refund
\* it by, however tries, notices and confirmations interleave; but for a payment at
\* PayU that a confirmation did not name (PayU is asked by txnid), whose notice, when it comes, is not
\* read for the name either.
RefundFindsPayment ==
  checkout.status = "succeeded" =>
    RefundRef \in Takes \/ (checkout.provider = "payu" /\ unnamed /\ Captured # {})

\* A notice that has not been recorded and will not be: its id is taken by another's.
Muffled == \E n \in Sent \ heard : n.kind = "captured" /\ EventId(checkout.provider, n) \in Taken(checkout.provider)

\* When every notice was heard and no process is at work, an intent that was paid is
\* 'succeeded', whatever failed before and in whatever order the notices came, unless
\* a notice of another failed try, or a confirmation that read the row before, was
\* saved over it; or PayU had told of the same payment before it was decided.
CaptureIsNoticed ==
  (\A h \in Handlers : handler[h].pc = "idle") /\ Captured # {}
    /\ (\A n \in Sent : EventId(checkout.provider, n) \in Taken(checkout.provider))
  => checkout.status = "succeeded" \/ overridden \/ (checkout.provider = "payu" /\ Muffled)
=============================================================================
