--------------------------- MODULE GatewayConfig ---------------------------
(***************************************************************************)
(* Which payment gateway is active (PaymentGatewayConfigService): the      *)
(* administrators' upsert and activate, each of which reads a row, works,  *)
(* and saves the row whole, and the choice that a payment makes of the     *)
(* rows, else of the environment.                                          *)
(*                                                                         *)
(* No index keeps two rows from being active, and nothing wraps the clear  *)
(* and the set of an activation in a transaction.                          *)
(***************************************************************************)
EXTENDS FiniteSets

CONSTANTS
  Providers,     \* razorpay, stripe, payu
  EnvProviders,  \* those of them whose credentials are in the environment
  EnvGateway,    \* PAYMENT_GATEWAY, or NoProvider
  Production,    \* isProductionRuntime
  Keepers        \* requests of administrators

Mock == "mock"
NoProvider == "no provider"
Env == "from the environment"

ASSUME GatewayBounds == /\ EnvProviders \subseteq Providers /\ Mock \notin Providers
                        /\ Env \notin Keepers /\ NoProvider \notin Providers
                        /\ EnvGateway \in Providers \cup {Mock, NoProvider} /\ Production \in BOOLEAN

AllProviders == Providers \cup {Mock}

\* envHasCredentials: the mock needs none, but in production it must be asked for.
EnvHas(p) == p \in EnvProviders \/ (p = Mock /\ (~Production \/ EnvGateway = Mock))

\* creds stands for mode and credentials: whose upsert wrote them. The webhook secret,
\* which an upsert may leave as it was, is left out.
GatewayRows == [here : BOOLEAN, active : BOOLEAN, creds : Keepers \cup {Env}]

VARIABLES
  gateway,    \* the payment_gateway_config rows
  keeper,     \* requests: step, provider, whether an upsert activates, row read
  chosen,     \* history: provider of the last activation that was saved
  entered,    \* history: whose credentials were saved last, per provider
  late,       \* history: requests beside which another wrote, since they read
  tangled,    \* history: such a request has saved
  halfway     \* history: an activation cleared the rows and did not set one

gatewayHistories == <<chosen, entered, late, tangled, halfway>>
gatewayVars == <<gateway, keeper, gatewayHistories>>

NoGateway == [here |-> FALSE, active |-> FALSE, creds |-> Env]
NoKeeper == [pc |-> "idle", p |-> Mock, activate |-> FALSE, row |-> NoGateway]

GatewayTypeOK ==
  /\ gateway \in [AllProviders -> GatewayRows]
  /\ keeper \in [Keepers -> [pc : {"idle", "save", "read", "clear", "set", "done"}, p : AllProviders,
                             activate : BOOLEAN, row : GatewayRows]]
  /\ chosen \in AllProviders \cup {NoProvider} /\ entered \in [AllProviders -> Keepers \cup {Env}]
  /\ late \subseteq Keepers /\ {tangled, halfway} \subseteq BOOLEAN

GatewayInit ==
  /\ gateway = [p \in AllProviders |-> NoGateway]
  /\ keeper = [k \in Keepers |-> NoKeeper]
  /\ chosen = NoProvider /\ entered = [p \in AllProviders |-> Env]
  /\ late = {} /\ tangled = FALSE /\ halfway = FALSE

KeeperEnds(k) == keeper' = [keeper EXCEPT ![k] = [NoKeeper EXCEPT !.pc = "done"]]
Working(k) == keeper[k].pc \notin {"idle", "done"}

\* k writes the table: whoever is at work and has read it is late now.
Wrote(k) ==
  /\ late' = late \cup {j \in Keepers \ {k} : Working(j)}
  /\ tangled' = (tangled \/ k \in late)

-----------------------------------------------------------------------------
(* upsert *)

UpsertRead(k, p, activate) ==
  /\ keeper[k].pc = "idle"
  /\ keeper' = [keeper EXCEPT ![k] = [pc |-> "save", p |-> p, activate |-> activate, row |-> gateway[p]]]
  /\ UNCHANGED <<gateway, gatewayHistories>>

\* Fault: a gateway that is configured anew has to be activated anew.
Configured_Inactive(k) == [here |-> TRUE, active |-> FALSE, creds |-> k]

\* isActive is what it was when the row was read.
Configured(k) == [here |-> TRUE, active |-> keeper[k].row.active, creds |-> k]

\* provider is unique: of two first rows the later is refused.
UpsertSave(k) ==
  LET p == keeper[k].p IN
  /\ keeper[k].pc = "save"
  /\ IF gateway[p].here /\ ~keeper[k].row.here
       THEN KeeperEnds(k) /\ UNCHANGED <<gateway, entered, late, tangled>>
       ELSE /\ gateway' = [gateway EXCEPT ![p] = Configured(k)]
            /\ entered' = [entered EXCEPT ![p] = k]
            /\ Wrote(k)
            /\ IF keeper[k].activate THEN keeper' = [keeper EXCEPT ![k].pc = "read"] ELSE KeeperEnds(k)
  /\ UNCHANGED <<chosen, halfway>>

-----------------------------------------------------------------------------
(* activate *)

MayActivate(p) == ~(p = Mock /\ Production) /\ (gateway[p].here \/ EnvHas(p))

ActivateRead(k, p) ==
  /\ \/ keeper[k].pc = "idle"
     \/ keeper[k].pc = "read" /\ p = keeper[k].p
  /\ IF MayActivate(p)
       THEN /\ keeper' = [keeper EXCEPT ![k] = [pc |-> "clear", p |-> p, activate |-> TRUE, row |-> gateway[p]]]
            /\ late' = late \ {k}
       ELSE KeeperEnds(k) /\ UNCHANGED late
  /\ UNCHANGED <<gateway, chosen, entered, tangled, halfway>>

\* UPDATE ... SET isActive = false, of every row.
ActivateClear(k) ==
  /\ keeper[k].pc = "clear"
  /\ gateway' = [p \in AllProviders |-> [gateway[p] EXCEPT !.active = FALSE]]
  /\ Wrote(k)
  /\ keeper' = [keeper EXCEPT ![k].pc = "set"]
  /\ UNCHANGED <<chosen, entered, halfway>>

\* The row read is saved; if there was none, one is made of the environment.
Activated(k) == [here |-> TRUE, active |-> TRUE, creds |-> keeper[k].row.creds]

ActivateSet(k) ==
  LET p == keeper[k].p IN
  /\ keeper[k].pc = "set"
  /\ IF gateway[p].here /\ ~keeper[k].row.here
       THEN halfway' = TRUE /\ UNCHANGED <<gateway, chosen, late, tangled>>
       ELSE /\ gateway' = [gateway EXCEPT ![p] = Activated(k)]
            /\ chosen' = p
            /\ Wrote(k)
            /\ UNCHANGED halfway
  /\ KeeperEnds(k)
  /\ UNCHANGED entered

\* The process dies in a request.
KeeperDies(k) ==
  /\ Working(k)
  /\ halfway' = (halfway \/ keeper[k].pc = "set")
  /\ KeeperEnds(k)
  /\ UNCHANGED <<gateway, chosen, entered, late, tangled>>

GatewayNext ==
  \E k \in Keepers :
    \/ \E p \in AllProviders : ActivateRead(k, p) \/ \E activate \in BOOLEAN : UpsertRead(k, p, activate)
    \/ UpsertSave(k) \/ ActivateClear(k) \/ ActivateSet(k) \/ KeeperDies(k)

GatewaySpec == GatewayInit /\ [][GatewayNext]_gatewayVars

-----------------------------------------------------------------------------
(* The choice of a payment: requireActive, resolveActiveOptional, resolveProvider *)

ActiveRows == {p \in AllProviders : gateway[p].active}

\* Without an active row: PAYMENT_GATEWAY if it is configured, else the mock for developers.
Fallback ==
  IF EnvGateway # NoProvider THEN {EnvGateway} \ (IF Production THEN {Mock} ELSE {})
  ELSE IF Production THEN {} ELSE {Mock}

\* findOne without an order: of several active rows, any.
Candidates == IF ActiveRows # {} THEN ActiveRows ELSE {p \in Fallback : gateway[p].here \/ EnvHas(p)}

CredentialsFor(p) == IF gateway[p].here THEN gateway[p].creds ELSE Env

\* Between requests, payments go to the gateway that was activated last, with the
\* credentials that were entered last, unless a request saved what it had read over
\* what another wrote, or an activation was cut short between its clear and its set.
PaymentsGoAsChosen ==
  tangled \/ halfway \/ (\E k \in Keepers : keeper[k].pc = "set") \/
    /\ chosen # NoProvider => Candidates = {chosen}
    /\ \A p \in Candidates : CredentialsFor(p) = entered[p]
=============================================================================
