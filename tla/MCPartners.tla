----------------------------- MODULE MCPartners -----------------------------
(* Instances of KitchenSync, MenuStock, GatewayNotices and Seeding for TLC:   *)
(* what the kitchen's system, the payment gateways and a release tell the     *)
(* server's tables. They share no variable and no property relates them, so   *)
(* instead of their product each behaviour runs one of them: scene says which.*)
EXTENDS KitchenSync, MenuStock, GatewayNotices, Seeding, TLC

VARIABLE scene

Init ==
  /\ KitchenInit /\ MenuInit /\ NoticesInit /\ SeedingInit
  /\ scene \in {"kitchen", "menu", "notices", "seeding"}
  \* A module begins in one state where it does not run.
  /\ scene # "notices" => checkout.provider = "mock"
  /\ scene # "seeding" => orderLines = << >>
  /\ scene # "menu" => \A n \in Dishes : menu[<<n, NoPos>>].here

Next ==
  /\ \/ scene = "kitchen" /\ KitchenNext /\ UNCHANGED <<menuVars, noticeVars, seedVars>>
     \/ scene = "menu" /\ MenuNext /\ UNCHANGED <<kitchenVars, noticeVars, seedVars>>
     \/ scene = "notices" /\ NoticesNext /\ UNCHANGED <<kitchenVars, menuVars, seedVars>>
     \/ scene = "seeding" /\ SeedingNext /\ UNCHANGED <<kitchenVars, menuVars, noticeVars>>
  /\ UNCHANGED scene

Spec == Init /\ [][Next]_<<kitchenVars, menuVars, noticeVars, seedVars, scene>>

\* The variables of the module that runs keep their types.
PartnersTypeOK ==
  /\ scene = "kitchen" => KitchenTypeOK
  /\ scene = "menu" => MenuTypeOK
  /\ scene = "notices" => NoticesTypeOK
  /\ scene = "seeding" => SeedingTypeOK

\* A callback, a menu sync, a notice and a run of the seeds are interchangeable with
\* another, and so are dishes and codes, and tries to pay: Hooks, Syncs, Handlers and
\* Runs are one set, and so are Dishes and Tries.
Interchangeable == {hooks @@ dishes @@ codes : hooks \in Permutations(Hooks), dishes \in Permutations(Dishes),
                                               codes \in Permutations(PosCodes)}
=============================================================================
