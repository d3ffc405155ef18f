------------------------- MODULE RefundLedger_proofs -------------------------
(* Theorems about RefundLedger, for any payments. *)
EXTENDS RefundLedger, TLAPS

(* The books keep their types. *)
LEMMA LedgerTypes == LedgerTypeOK /\ [Next]_books => LedgerTypeOK'
<1> SUFFICES ASSUME LedgerTypeOK, [Next]_books PROVE LedgerTypeOK'
  OBVIOUS
<1> USE DEF LedgerTypeOK
<1>1. CASE UNCHANGED books
  BY <1>1 DEF books
<1>2. ASSUME NEW p \in Payments, Charge(p) \/ Claim(p) \/ Settle(p) PROVE LedgerTypeOK'
  BY <1>2 DEF Charge, Claim, Settle, States
<1>3. ASSUME NEW p \in Payments, PayBack(p) \/ PayBackUnheard(p) \/ Forget(p) PROVE LedgerTypeOK'
  BY <1>3 DEF PayBack, PayBackUnheard, Forget
<1>4. ASSUME NEW p \in Payments, Release(p) PROVE LedgerTypeOK'
  BY <1>4 DEF Release, States
<1>5. ASSUME NEW p \in Payments, Overwrite(p) PROVE LedgerTypeOK'
  BY <1>5 DEF Overwrite
<1> QED
  BY <1>1, <1>2, <1>3, <1>4, <1>5 DEF Next

(* A claim turns what is kept into what is open; nothing else but a mishap makes
   room for a refund. *)
LEMMA ClaimsStayCounted == LedgerTypeOK /\ ClaimsCounted /\ [Next]_books => ClaimsCounted'
<1> SUFFICES ASSUME LedgerTypeOK, ClaimsCounted, [Next]_books, NEW q \in Payments
             PROVE  /\ paidBack'[q] + open'[q] <= 1 + mishaps'[q]
                    /\ state'[q] = "kept" => paidBack'[q] + open'[q] <= mishaps'[q]
  BY DEF ClaimsCounted
<1>0. /\ paidBack[q] \in Nat /\ open[q] \in Nat /\ mishaps[q] \in Nat
      /\ paidBack[q] + open[q] <= 1 + mishaps[q]
      /\ state[q] = "kept" => paidBack[q] + open[q] <= mishaps[q]
  BY DEF LedgerTypeOK, ClaimsCounted
<1> USE DEF LedgerTypeOK
<1>1. CASE UNCHANGED books
  BY <1>0, <1>1 DEF books
<1>2. ASSUME NEW p \in Payments, Charge(p) \/ Claim(p) \/ Settle(p)
      PROVE  /\ paidBack'[q] + open'[q] <= 1 + mishaps'[q]
             /\ state'[q] = "kept" => paidBack'[q] + open'[q] <= mishaps'[q]
  BY <1>0, <1>2 DEF Charge, Claim, Settle
<1>3. ASSUME NEW p \in Payments, PayBack(p) \/ PayBackUnheard(p) \/ Forget(p)
      PROVE  /\ paidBack'[q] + open'[q] <= 1 + mishaps'[q]
             /\ state'[q] = "kept" => paidBack'[q] + open'[q] <= mishaps'[q]
  BY <1>0, <1>3 DEF PayBack, PayBackUnheard, Forget
<1>4. ASSUME NEW p \in Payments, Release(p)
      PROVE  /\ paidBack'[q] + open'[q] <= 1 + mishaps'[q]
             /\ state'[q] = "kept" => paidBack'[q] + open'[q] <= mishaps'[q]
  BY <1>0, <1>4 DEF Release
<1>5. ASSUME NEW p \in Payments, Overwrite(p)
      PROVE  /\ paidBack'[q] + open'[q] <= 1 + mishaps'[q]
             /\ state'[q] = "kept" => paidBack'[q] + open'[q] <= mishaps'[q]
  BY <1>0, <1>5 DEF Overwrite
<1> QED
  BY <1>1, <1>2, <1>3, <1>4, <1>5 DEF Next

(* What the ledger is for: a payment is paid back once, and once more for each
   mishap at most, whoever claims, dies or forgets in between. *)
THEOREM MoneyGoesBackOnce == Spec => []PaidBackOnce
<1>1. Init => LedgerTypeOK /\ ClaimsCounted
  BY DEF Init, LedgerTypeOK, ClaimsCounted, States
<1>2. LedgerTypeOK /\ ClaimsCounted /\ [Next]_books => (LedgerTypeOK /\ ClaimsCounted)'
  BY LedgerTypes, ClaimsStayCounted
<1>3. LedgerTypeOK /\ ClaimsCounted => PaidBackOnce
  <2> SUFFICES ASSUME LedgerTypeOK, ClaimsCounted, NEW p \in Payments
               PROVE  paidBack[p] <= 1 + mishaps[p]
    BY DEF PaidBackOnce
  <2>1. paidBack[p] \in Nat /\ open[p] \in Nat /\ mishaps[p] \in Nat
    BY DEF LedgerTypeOK
  <2> QED
    BY <2>1 DEF ClaimsCounted
<1> QED
  BY <1>1, <1>2, <1>3, PTL DEF Spec
=============================================================================
