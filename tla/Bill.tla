-------------------------------- MODULE Bill --------------------------------
(***************************************************************************)
(* What an order costs (OrdersService.quote, create, summarizeQuote and    *)
(* what they call): a payment intent is made for what the customer is      *)
(* quoted (PaymentsService.createIntent), is paid, and create reads menu,  *)
(* points, fee, rules and coupon again, one after the other, while         *)
(* administrators edit them, and refuses if its total differs. The         *)
(* invoice and the kitchen's copy are made of what it stored, and a later  *)
(* reorder of its lines.                                                   *)
(*                                                                         *)
(* Amounts are whole rupees; rates are integers per hundred or thousand.   *)
(***************************************************************************)
EXTENDS Integers, Sequences, FiniteSets, FiniteSetsExt, SequencesExt

CONSTANTS
  Plates,      \* menu items
  PlateForms,  \* the forms a row of menu_item may take
  OpeningMenu, \* the rows to begin with
  CouponForms, \* those of a coupon, RuleForms of the loyalty settings
  RuleForms,
  Fees,        \* delivery fees
  PointSums,   \* loyalty balances
  Baskets,     \* sequences of [d, qty, with]
  GstRate,     \* gstRate, per thousand
  DiyDelta,    \* priceDelta of an option of the bowl builder
  MaxEdits     \* bound: edits after the first quote began

ASSUME BillBounds == {GstRate, DiyDelta, MaxEdits} \subseteq Nat /\ Fees \cup PointSums \subseteq Nat

NoExtra == -1
NoCap   == -1
Withs   == {"plain", "variant", "extra", "diy"}
Places  == {"here", "shared", "elsewhere", "gone"}
BasketLines == [d : Plates, qty : Nat, with : Withs]

\* Administrators and the kitchen's menu write no other rows. That no price the
\* kitchen sends is negative is assumed: parsePrice takes what it is sent.
ASSUME BillForms ==
  /\ OpeningMenu \in [Plates -> PlateForms]
  /\ \A row \in PlateForms : {row.base, row.delta} \subseteq Nat /\ row.extra \in Nat \cup {NoExtra}
  /\ \A coupon \in CouponForms : {coupon.value, coupon.cap} \subseteq Int
  /\ RuleForms # {} /\ \A rules \in RuleForms : {rules.value, rules.percent, rules.earn} \subseteq Nat
  /\ Baskets \subseteq Seq(BasketLines)
  /\ \A sums \in {Fees, PointSums} : IsFiniteSet(sums) /\ sums # {}

VARIABLES
  shelf,  \* what administrators edit: menu rows, coupon, loyalty rules, fee; and the points left
  wants,  \* the request: lines, whether it names the coupon, points, and delivery or not
  till,   \* the request at work: step, quote or order, and what it has read
  slip,   \* the last bill made: of the quote, then of the order
  paid,   \* amount of the payment intent
  edits   \* edits so far

billVars == <<shelf, wants, till, slip, paid, edits>>

Amounts == [subtotal : Nat, coupon : Int, gst : Nat, fee : Nat, points : Nat, loyalty : Int, total : Int,
            earned : Nat, eligible : Nat]
TillPCs == {"find", "price", "points", "fee", "rules", "coupon", "quoted", "match",
            "ordered", "refused", "short"}

BillTypeOK ==
  /\ shelf \in [dish : [Plates -> PlateForms], coupon : CouponForms, rules : RuleForms, fee : Fees, points : PointSums]
  /\ \A n \in DOMAIN wants.lines : wants.lines[n] \in BasketLines
  /\ wants.asks \in BOOLEAN /\ wants.redeem \in Nat /\ wants.deliver \in BOOLEAN
  /\ till.pc \in TillPCs /\ till.goal \in {"quote", "order"}
  /\ till.fee \in Nat /\ till.balance \in Nat /\ till.rules \in RuleForms
  /\ slip \in Amounts /\ paid \in Int /\ edits \in Nat

AnyRules == CHOOSE r \in RuleForms : TRUE
NoSlip == [subtotal |-> 0, coupon |-> 0, gst |-> 0, fee |-> 0, points |-> 0, loyalty |-> 0, total |-> 0,
           earned |-> 0, eligible |-> 0]
NoTill == [pc |-> "find", goal |-> "quote", rows |-> << >>, priced |-> << >>, balance |-> 0, fee |-> 0,
           rules |-> AnyRules]

BillInit ==
  /\ shelf \in [dish : {OpeningMenu}, coupon : CouponForms, rules : RuleForms,
                fee : {Max(Fees)}, points : {Max(PointSums)}]
  /\ wants \in [lines : Baskets, asks : BOOLEAN, redeem : {0, Max(PointSums) + 10}, deliver : BOOLEAN]
  /\ till = NoTill /\ slip = NoSlip /\ paid = 0 /\ edits = 0

Refuse == till' = [NoTill EXCEPT !.pc = "refused", !.goal = till.goal]

-----------------------------------------------------------------------------
(* priceItems *)

\* itemBelongsToOutlet: a shared dish is sold where the outlet has none of its own.
SoldHere(row) == row.where = "here" \/ (row.where = "shared" /\ \A d \in Plates : shelf.dish[d].where # "here")

\* addonForDiyOption: an extra of the dish with the name of the option gives the price.
DiyAddon(row) == IF row.extra # NoExtra THEN row.extra ELSE DiyDelta

\* The bowl builder, or base price, variant and extras; an unknown choice is free.
UnitPrice(row, with) ==
  row.base + CASE with = "diy" -> DiyAddon(row)
               [] with = "variant" -> row.delta
               [] with = "extra" -> IF row.extra = NoExtra THEN 0 ELSE row.extra
               [] OTHER -> 0

Sellable(row, line) == /\ row.where # "gone" /\ SoldHere(row) /\ row.inStock /\ line.qty <= row.stock
                       /\ line.with = "diy" => row.custom

LineTotal(row, line) == UnitPrice(row, line.with) * line.qty

SumOf(amounts) == FoldSeq(LAMBDA a, b : a + b, 0, amounts)

TillFind ==
  /\ till.pc = "find"
  /\ till' = [till EXCEPT !.pc = "price", !.rows = shelf.dish]
  /\ UNCHANGED <<shelf, wants, slip, paid, edits>>

\* count() of the dishes of the outlet comes after the rows are read.
TillPrice ==
  /\ till.pc = "price"
  /\ IF \A n \in DOMAIN wants.lines : Sellable(till.rows[wants.lines[n].d], wants.lines[n])
       THEN till' = [till EXCEPT !.pc = "points",
                       !.priced = [n \in DOMAIN wants.lines |-> LineTotal(till.rows[wants.lines[n].d], wants.lines[n])]]
       ELSE Refuse
  /\ UNCHANGED <<shelf, wants, slip, paid, edits>>

\* getLoyaltyBalance.
TillPoints ==
  /\ till.pc = "points"
  /\ till' = [till EXCEPT !.pc = "fee", !.balance = shelf.points]
  /\ UNCHANGED <<shelf, wants, slip, paid, edits>>

\* Fault: a quote knows no delivery fee.
DeliveryFeeFor_OrderOnly == IF wants.deliver /\ till.goal = "order" THEN shelf.fee ELSE 0

\* deliveryFeeFor.
DeliveryFeeFor == IF wants.deliver THEN shelf.fee ELSE 0

TillFee ==
  /\ till.pc = "fee"
  /\ till' = [till EXCEPT !.pc = "rules", !.fee = DeliveryFeeFor]
  /\ UNCHANGED <<shelf, wants, slip, paid, edits>>

-----------------------------------------------------------------------------
(* The coupon (CouponService.apply) and the points (loyalty.rules) *)

Lesser(a, b) == IF a < b THEN a ELSE b
Greater(a, b) == IF a > b THEN a ELSE b
Rounded(n, d) == (2 * n + d) \div (2 * d)   \* Math.round(n / d)

\* assertApplicable.
Applicable(coupon, subtotal) == coupon.live /\ subtotal >= coupon.min

\* eligibleSubtotal: of the items and of the categories the coupon names, if any.
Matches(coupon, line) == /\ coupon.items # {} => line.d \in coupon.items
                         /\ coupon.cats # {} => till.rows[line.d].cat \in coupon.cats
Unrestricted(coupon) == coupon.items = {} /\ coupon.cats = {}
EligibleSubtotal(coupon) ==
  SumOf([n \in DOMAIN wants.lines |->
           IF Unrestricted(coupon) \/ Matches(coupon, wants.lines[n]) THEN till.priced[n] ELSE 0])

\* Fault: a flat discount is not limited to what it applies to.
ComputeDiscount_FlatInFull(coupon, eligible) ==
  IF coupon.type = "flat" THEN coupon.value
  ELSE LET raw == (eligible * coupon.value) \div 100
       IN  Lesser(eligible, IF coupon.cap = NoCap THEN raw ELSE Lesser(raw, coupon.cap))

\* computeDiscount.
ComputeDiscount(coupon, eligible) ==
  IF coupon.type = "flat" THEN Lesser(coupon.value, eligible)
  ELSE LET raw == (eligible * coupon.value) \div 100
       IN  Lesser(eligible, IF coupon.cap = NoCap THEN raw ELSE Lesser(raw, coupon.cap))

\* maxRedeemablePoints, clampRedeemPoints.
MaxRedeemablePoints(balance, before, rules) ==
  IF before <= 0 THEN 0 ELSE Lesser(balance, (before * rules.percent) \div 100)
ClampRedeemPoints(balance, before, rules) == Lesser(wants.redeem, MaxRedeemablePoints(balance, before, rules))

TillRules ==
  /\ till.pc = "rules"
  /\ till' = [till EXCEPT !.pc = "coupon", !.rules = shelf.rules]
  /\ UNCHANGED <<shelf, wants, slip, paid, edits>>

\* Fault: a negative total takes points.
EarnedPointsForTotal_Signed(total) == Rounded(total * till.rules.earn, 100)

\* earnedPointsForTotal.
EarnedPointsForTotal(total) == Greater(0, Rounded(total * till.rules.earn, 100))

\* summarizeQuote, once the coupon is read.
Summary(discount, eligible) ==
  LET subtotal == SumOf(till.priced)
      taxable  == Greater(0, subtotal - discount)
      gst      == Rounded(taxable * GstRate, 1000)
      before   == taxable + gst + till.fee
      points   == ClampRedeemPoints(till.balance, before, till.rules)
      loyalty  == -points * till.rules.value
      total    == before + loyalty
  IN  [subtotal |-> subtotal, coupon |-> -discount, gst |-> gst, fee |-> till.fee, points |-> points,
       loyalty |-> loyalty, total |-> total, eligible |-> eligible,
       earned |-> EarnedPointsForTotal(total)]

\* A coupon that does not apply, or to none of the items, refuses the request.
TillCoupon ==
  LET coupon == shelf.coupon
      ready(bill) == /\ slip' = bill
                     /\ till' = [till EXCEPT !.pc = IF till.goal = "quote" THEN "quoted" ELSE "match"]
  IN
  /\ till.pc = "coupon"
  /\ IF ~wants.asks THEN ready(Summary(0, 0))
     ELSE IF Applicable(coupon, SumOf(till.priced)) /\ (Unrestricted(coupon) \/ EligibleSubtotal(coupon) > 0)
       THEN ready(Summary(ComputeDiscount(coupon, EligibleSubtotal(coupon)), EligibleSubtotal(coupon)))
     ELSE Refuse /\ UNCHANGED slip
  /\ UNCHANGED <<shelf, wants, paid, edits>>

-----------------------------------------------------------------------------
(* The customer *)

\* The intent is for the total of its quote, whatever that is, and is paid; create begins.
PayQuote ==
  /\ till.pc = "quoted"
  /\ paid' = slip.total
  /\ till' = [NoTill EXCEPT !.goal = "order"]
  /\ slip' = NoSlip
  /\ UNCHANGED <<shelf, wants, edits>>

\* assertSucceededForOrder: the amount paid is the total; the order is stored. What
\* else a request may meet is in Checkout.
OrderMatch ==
  /\ till.pc = "match"
  /\ IF slip.total = paid THEN till' = [till EXCEPT !.pc = "ordered"]
                          ELSE till' = [NoTill EXCEPT !.pc = "short", !.goal = "order"]
  /\ UNCHANGED <<shelf, wants, slip, paid, edits>>

\* reorder: the lines of the order at their base price, without variants, extras or
\* the choices of the bowl builder; outlets are not looked at.
Reorderable(line) == LET row == shelf.dish[line.d] IN row.where # "gone" /\ row.inStock /\ line.qty <= row.stock

Reorder ==
  /\ till.pc = "ordered" /\ \A n \in DOMAIN wants.lines : Reorderable(wants.lines[n])
  /\ wants' = [wants EXCEPT !.lines = [n \in DOMAIN wants.lines |-> [wants.lines[n] EXCEPT !.with = "plain"]]]
  /\ till' = NoTill /\ slip' = NoSlip /\ paid' = 0
  /\ UNCHANGED <<shelf, edits>>

-----------------------------------------------------------------------------
\* An administrator saves a menu item, the coupon, the rules or the fee; points are
\* spent on another order, or earned.
Edit ==
  /\ edits < MaxEdits /\ edits' = edits + 1
  /\ ~(till.pc = "find" /\ till.goal = "quote") /\ till.pc \notin {"refused", "short"}
  /\ \/ \E d \in Plates, form \in PlateForms : shelf' = [shelf EXCEPT !.dish[d] = form]
     \/ \E coupon \in CouponForms : shelf' = [shelf EXCEPT !.coupon = coupon]
     \/ \E rules \in RuleForms : shelf' = [shelf EXCEPT !.rules = rules]
     \/ \E fee \in Fees : shelf' = [shelf EXCEPT !.fee = fee]
     \/ \E points \in PointSums : shelf' = [shelf EXCEPT !.points = points]
  /\ shelf' # shelf
  /\ UNCHANGED <<wants, till, slip, paid>>

BillNext ==
  \/ PayQuote \/ OrderMatch \/ Reorder
  \/ TillFind \/ TillPrice \/ TillPoints \/ TillFee \/ TillRules \/ TillCoupon
  \/ Edit

BillSpec == BillInit /\ [][BillNext]_billVars

-----------------------------------------------------------------------------
(* What is made of the stored order *)

\* Fault: both halves of the tax are rounded.
Invoice_BothRounded ==
  [cgst |-> Rounded(slip.gst, 2), sgst |-> Rounded(slip.gst, 2), parts |-> slip.subtotal + slip.coupon + slip.fee + slip.loyalty]

\* getInvoice.
Invoice ==
  [cgst |-> Rounded(slip.gst, 2), sgst |-> slip.gst - Rounded(slip.gst, 2),
   parts |-> slip.subtotal + slip.coupon + slip.fee + slip.loyalty]

\* buildPetpoojaSaveOrderPayload with buildOrderDiscounts; delivery_charges is 0.
KitchenCopy ==
  [items |-> SumOf(till.priced), tax |-> slip.gst, discount |-> -slip.coupon - slip.loyalty, total |-> slip.total]

-----------------------------------------------------------------------------
(* Properties *)

\* Whatever is edited while it is made, the lines of a bill, its discounts, both halves
\* of its tax and its fee add up to what was paid (getInvoice); the kitchen's copy lacks
\* the fee only (delivery_charges: '0'); the coupon takes no more than what it applies
\* to, and points leave something to pay, unless a point is worth more than the share
\* that may be paid with points allows (UpdateLoyaltyRulesDto bounds each alone).
BillAddsUp ==
  till.pc = "ordered" =>
    /\ SumOf(till.priced) = slip.subtotal
    /\ Invoice.parts + Invoice.cgst + Invoice.sgst = paid
    /\ KitchenCopy.total = KitchenCopy.items + KitchenCopy.tax - KitchenCopy.discount + slip.fee
    /\ -slip.coupon <= slip.eligible
    /\ till.rules.value * till.rules.percent <= 100 => paid >= 0

\* Who has paid what was quoted can order for it, unless the menu, the coupon, the rules,
\* the fee or the points changed in between (PAYMENT_AMOUNT_MISMATCH).
PaidQuoteBecomesOrder == till.goal = "order" /\ till.pc \in {"refused", "short"} => edits > 0
=============================================================================
