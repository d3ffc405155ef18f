------------------------------ MODULE MCFront ------------------------------
(* Instances of PhoneLogin, Accounts, AuthRate, Devices, Outlets,            *)
(* GatewayConfig, HostedEvents and Bill for TLC. They share no variable and  *)
(* no property relates them, so instead of their product each behaviour runs *)
(* one of them: scene says which.                                            *)
EXTENDS PhoneLogin, Accounts, AuthRate, Devices, Outlets, GatewayConfig,
        HostedEvents, Bill, TLC

CONSTANTS bowl, drink   \* two dishes

VARIABLE scene

front == <<phoneVars, accountVars, rateVars, deviceVars, outletVars, gatewayVars,
           hostedVars, billVars, scene>>

Init ==
  /\ PhoneInit /\ AccountsInit /\ RateInit /\ DevicesInit /\ OutletsInit /\ GatewayInit
  /\ HostedInit /\ BillInit
  /\ scene \in {"phone", "accounts", "rate", "devices", "outlets", "gateway", "hosted", "bill"}
  \* The modules that do not run begin in one state.
  /\ scene # "phone" => \A o \in Orders : placed[o] = NoOne
  /\ scene # "outlets" => ~storeRow[1].here
  /\ scene # "bill" => /\ shelf.coupon = (CHOOSE coupon \in CouponForms : TRUE) /\ shelf.rules = AnyRules
                       /\ wants = [lines |-> CHOOSE lines \in Baskets : TRUE, asks |-> FALSE, redeem |-> 0, deliver |-> FALSE]

Next ==
  /\ \/ /\ scene = "phone" /\ PhoneNext
        /\ UNCHANGED <<accountVars, rateVars, deviceVars, outletVars, gatewayVars, hostedVars, billVars>>
     \/ /\ scene = "accounts" /\ AccountsNext
        /\ UNCHANGED <<phoneVars, rateVars, deviceVars, outletVars, gatewayVars, hostedVars, billVars>>
     \/ /\ scene = "rate" /\ RateNext
        /\ UNCHANGED <<phoneVars, accountVars, deviceVars, outletVars, gatewayVars, hostedVars, billVars>>
     \/ /\ scene = "devices" /\ DevicesNext
        /\ UNCHANGED <<phoneVars, accountVars, rateVars, outletVars, gatewayVars, hostedVars, billVars>>
     \/ /\ scene = "outlets" /\ OutletsNext
        /\ UNCHANGED <<phoneVars, accountVars, rateVars, deviceVars, gatewayVars, hostedVars, billVars>>
     \/ /\ scene = "gateway" /\ GatewayNext
        /\ UNCHANGED <<phoneVars, accountVars, rateVars, deviceVars, outletVars, hostedVars, billVars>>
     \/ /\ scene = "bill" /\ BillNext
        /\ UNCHANGED <<phoneVars, accountVars, rateVars, deviceVars, outletVars, gatewayVars, hostedVars>>
     \/ /\ scene = "hosted" /\ HostedNext
        /\ UNCHANGED <<phoneVars, accountVars, rateVars, deviceVars, outletVars, gatewayVars, billVars>>
  /\ UNCHANGED scene

Spec == Init /\ [][Next]_front

\* The variables of the module that runs keep their types.
FrontTypeOK ==
  /\ scene = "phone" => PhoneTypeOK
  /\ scene = "accounts" => AccountsTypeOK
  /\ scene = "rate" => RateTypeOK
  /\ scene = "devices" => DevicesTypeOK
  /\ scene = "outlets" => OutletsTypeOK
  /\ scene = "gateway" => GatewayTypeOK
  /\ scene = "hosted" => HostedTypeOK
  /\ scene = "bill" => BillTypeOK

\* One set of requests serves them all, and requests are interchangeable.
Interchangeable == Permutations(Logins)

-----------------------------------------------------------------------------
(* A bowl that may be customised and a drink, and what may become of them.   *)

Bowl  == [base |-> 399, delta |-> 0, extra |-> 25, custom |-> TRUE, where |-> "shared", inStock |-> TRUE,
          stock |-> 2, cat |-> "bowl"]
Drink == [base |-> 121, delta |-> 40, extra |-> NoExtra, custom |-> FALSE, where |-> "shared", inStock |-> TRUE,
          stock |-> 2, cat |-> "drink"]
MCOpeningMenu == bowl :> Bowl @@ drink :> Drink
MCPlateForms ==
  {Bowl, [Bowl EXCEPT !.base = 450], [Bowl EXCEPT !.where = "here"], [Bowl EXCEPT !.inStock = FALSE],
   Drink, [Drink EXCEPT !.where = "gone"], [Drink EXCEPT !.where = "elsewhere"], [Drink EXCEPT !.stock = 0]}

Coupon(type, value, min, cap, items, cats, live) ==
  [type |-> type, value |-> value, min |-> min, cap |-> cap, items |-> items, cats |-> cats, live |-> live]
MCCouponForms ==
  {Coupon("percent", 20, 0, 50, {}, {}, TRUE), Coupon("flat", 500, 0, NoCap, {drink}, {}, TRUE),
   Coupon("percent", 100, 400, NoCap, {}, {"bowl"}, TRUE), Coupon("flat", 50, 0, NoCap, {}, {}, FALSE)}

\* The last: points that are worth more than the bill.
MCRuleForms == {[value |-> 1, percent |-> 20, earn |-> 20], [value |-> 3, percent |-> 100, earn |-> 5]}

Line(d, qty, with) == [d |-> d, qty |-> qty, with |-> with]
MCBaskets == {<<Line(bowl, 1, "diy")>>, <<Line(bowl, 2, "extra"), Line(drink, 1, "variant")>>,
              <<Line(drink, 1, "extra")>>}
=============================================================================
