----------------------------- MODULE KitchenSync -----------------------------
(***************************************************************************)
(* How an order and the kitchen's system (PetPooja) come to know each      *)
(* other: the push with its retries and its row in the bridge table        *)
(* (PetpoojaOrderOutboundService.pushSerenityOrder), the kitchen's         *)
(* callbacks, which name the order by our id or by theirs                  *)
(* (PetpoojaWebhookService.orderCallback, PetpoojaSerenityOrderService),   *)
(* and the cancel that tells the kitchen (cancelSerenityOrder).            *)
(*                                                                         *)
(* Of one order: orders share nothing here. What a cancel does besides is  *)
(* in OrderLifecycle; kitchenSyncStatus, which is only counted, is left    *)
(* out. The kitchen is external: it may take a push and its answer may be  *)
(* lost, and it may answer without an id.                                  *)
(***************************************************************************)
EXTENDS Naturals, FiniteSets, FiniteSetsExt

CONSTANTS
  Hooks,          \* callbacks of the kitchen
  MaxPushes,      \* maxAttempts of postOrderWithRetry
  MaxKitchenCrash \* bound: pushes and cancels that die half way

ASSUME KitchenBounds == MaxPushes \in Nat \ {0} /\ MaxKitchenCrash \in Nat /\ IsFiniteSet(Hooks)

Ours   == "our id"     \* the order's id, clientOrderId
Theirs == "their id"   \* the kitchen's orderID, petpoojaOrderId
Names  == {Ours, Theirs}

VARIABLES
  placedOrder, \* the serenity_order row: status, whether petpoojaOrderId is set
  bridge,      \* the petpooja_order rows: orderId and clientOrderId
  push,        \* pushSerenityOrder: step, attempt, whether an id was answered, bridge row found
  stop,        \* the customer's cancel: step, whether the order it read had their id
  hook,        \* callbacks: step, the name and the status they bring, what they read
  kitchen,     \* external: tickets it made for the order, and how many of them it stopped
  missed,      \* history: answers of the kitchen lost after it made a ticket
  wiped,       \* history: their id overwritten by a callback that read the order without it
  unheeded,    \* history: why a cancel need not have stopped the kitchen
  kitCrashes   \* history: pushes and cancels that died half way

kitHistories == <<missed, wiped, unheeded, kitCrashes>>
kitchenVars == <<placedOrder, bridge, push, stop, hook, kitchen, kitHistories>>

KStatuses == {"confirmed", "preparing", "delivered", "cancelled"}
KOrders == [status : KStatuses, named : BOOLEAN]
BridgeRows == [key : Names, client : Names]
HookPCs == {"idle", "find", "save", "look", "bridge", "write", "mark", "claim", "done"}
NoRow == 0

KitchenTypeOK ==
  /\ placedOrder \in KOrders
  /\ \A n \in DOMAIN bridge : n \in 1..2 /\ bridge[n] \in BridgeRows
  /\ push \in [pc : {"start", "find", "save", "post", "record", "refind", "resave", "done", "dead"},
               try : Nat, named : BOOLEAN, row : 0..2]
  /\ stop \in [pc : {"idle", "claim", "tell", "done", "lost"}, named : BOOLEAN]
  /\ hook \in [Hooks -> [pc : HookPCs, name : Names, to : KStatuses \cup {"unknown"},
                         row : 0..2, read : KOrders]]
  /\ kitchen \in [tickets : Nat, stopped : Nat]
  /\ missed \in Nat /\ wiped \in BOOLEAN /\ unheeded \in BOOLEAN /\ kitCrashes \in Nat

NewOrder == [status |-> "confirmed", named |-> FALSE]
NoHook == [pc |-> "idle", name |-> Ours, to |-> "unknown", row |-> NoRow, read |-> NewOrder]

\* The order has just been committed.
KitchenInit ==
  /\ placedOrder = NewOrder /\ bridge = << >>
  /\ push = [pc |-> "start", try |-> 0, named |-> FALSE, row |-> NoRow]
  /\ stop = [pc |-> "idle", named |-> FALSE]
  /\ hook = [h \in Hooks |-> NoHook]
  /\ kitchen = [tickets |-> 0, stopped |-> 0]
  /\ missed = 0 /\ wiped = FALSE /\ unheeded = FALSE /\ kitCrashes = 0

-----------------------------------------------------------------------------
(* The bridge table: PetpoojaRelationalRepository.upsertOrder finds, then saves *)

RowsWith(key, client) == LET keyed == {n \in DOMAIN bridge : bridge[n].key = key}
                         IN  IF keyed # {} THEN keyed ELSE {n \in DOMAIN bridge : bridge[n].client = client}

Found(key, client) == IF RowsWith(key, client) = {} THEN {NoRow} ELSE RowsWith(key, client)

\* findOrderByExternalId takes the row made last.
Latest(key) == IF RowsWith(key, key) = {} THEN NoRow ELSE Max(RowsWith(key, key))

\* Fault: nothing keeps two rows from having one orderId.
KeyTaken_Never(n, key) == FALSE

\* restId and orderId are unique.
KeyTaken(n, key) == \E k \in DOMAIN bridge : k # n /\ bridge[k].key = key
Upserted(n, key, client) ==
  [k \in DOMAIN bridge \cup {IF n = NoRow THEN Cardinality(DOMAIN bridge) + 1 ELSE n} |->
     IF k = n \/ k \notin DOMAIN bridge THEN [key |-> key, client |-> client] ELSE bridge[k]]

-----------------------------------------------------------------------------
(* pushSerenityOrder *)

\* A push keeps the bridge row that it found, and counts its tries, no longer than it needs them.
PushGoto(pc) == push' = [push EXCEPT !.pc = pc, !.row = NoRow, !.try = 0]

\* Order sync is off, or a line has no kitchen item, or the outlet no restaurant.
PushSkip ==
  /\ push.pc = "start"
  /\ PushGoto("done")
  /\ UNCHANGED <<placedOrder, bridge, stop, hook, kitchen, kitHistories>>

PushStart ==
  /\ push.pc = "start"
  /\ PushGoto("find")
  /\ UNCHANGED <<placedOrder, bridge, stop, hook, kitchen, kitHistories>>

\* The row that the bridge is given before the kitchen is called ('pending').
PushFind ==
  /\ push.pc = "find"
  /\ \E n \in Found(Ours, Ours) : push' = [push EXCEPT !.pc = "save", !.row = n]
  /\ UNCHANGED <<placedOrder, bridge, stop, hook, kitchen, kitHistories>>

\* Outside the try: if the row cannot be saved, the request fails, the order staying as it is.
PushSave ==
  /\ push.pc = "save"
  /\ IF KeyTaken(push.row, Ours)
       THEN PushGoto("done") /\ UNCHANGED bridge
       ELSE bridge' = Upserted(push.row, Ours, Ours) /\ PushGoto("post")
  /\ UNCHANGED <<placedOrder, stop, hook, kitchen, kitHistories>>

\* After the last attempt the error is thrown and caught, and the order marked 'failed'.
NextTry == IF push.try + 1 < MaxPushes THEN push' = [push EXCEPT !.try = @ + 1] ELSE PushGoto("done")

\* The kitchen is not reached, or refuses.
PostRefused ==
  /\ push.pc = "post"
  /\ NextTry
  /\ UNCHANGED <<placedOrder, bridge, stop, hook, kitchen, kitHistories>>

\* The kitchen makes a ticket; its answer is lost.
PostLost ==
  /\ push.pc = "post"
  /\ kitchen' = [kitchen EXCEPT !.tickets = @ + 1]
  /\ missed' = missed + 1
  /\ NextTry
  /\ UNCHANGED <<placedOrder, bridge, stop, hook, wiped, unheeded, kitCrashes>>

\* Fault: an answer without an id is taken for a failure and tried again.
PostAnswered_NeedsId ==
  /\ push.pc = "post"
  /\ kitchen' = [kitchen EXCEPT !.tickets = @ + 1]
  /\ \/ push' = [push EXCEPT !.pc = "record", !.named = TRUE]
     \/ NextTry
  /\ UNCHANGED <<placedOrder, bridge, stop, hook, kitHistories>>

\* The kitchen makes a ticket and says so, with its id or without.
PostAnswered ==
  /\ push.pc = "post"
  /\ kitchen' = [kitchen EXCEPT !.tickets = @ + 1]
  /\ \E named \in BOOLEAN : push' = [push EXCEPT !.pc = "record", !.named = named, !.try = 0]
  /\ UNCHANGED <<placedOrder, bridge, stop, hook, kitHistories>>

\* update(id, {'submitted', petpoojaOrderId}): a callback may have been here before.
PushRecord ==
  /\ push.pc = "record"
  /\ placedOrder' = [placedOrder EXCEPT !.named = push.named]
  /\ PushGoto("refind")
  /\ UNCHANGED <<bridge, stop, hook, kitchen, kitHistories>>

PushedName == IF push.named THEN Theirs ELSE Ours

PushRefind ==
  /\ push.pc = "refind"
  /\ \E n \in Found(PushedName, Ours) : push' = [push EXCEPT !.pc = "resave", !.row = n]
  /\ UNCHANGED <<placedOrder, bridge, stop, hook, kitchen, kitHistories>>

\* Inside the try: a row that cannot be saved makes a pushed order 'failed', its id kept.
PushResave ==
  /\ push.pc = "resave"
  /\ bridge' = IF KeyTaken(push.row, PushedName) THEN bridge ELSE Upserted(push.row, PushedName, Ours)
  /\ PushGoto("done")
  /\ UNCHANGED <<placedOrder, stop, hook, kitchen, kitHistories>>

Pushing == PushSkip \/ PushStart \/ PushFind \/ PushSave \/ PostRefused \/ PostLost \/ PostAnswered
           \/ PushRecord \/ PushRefind \/ PushResave

-----------------------------------------------------------------------------
(* OrdersService.cancel, as far as the kitchen hears of it *)

StopEnds(pc) == stop' = [pc |-> pc, named |-> FALSE]

StopRead ==
  /\ stop.pc = "idle" /\ placedOrder.status = "confirmed"
  /\ stop' = [pc |-> "claim", named |-> placedOrder.named]
  /\ UNCHANGED <<placedOrder, bridge, push, hook, kitchen, kitHistories>>

\* claimOrderCancel; a lost claim does not tell the kitchen.
StopClaim ==
  /\ stop.pc = "claim"
  /\ IF placedOrder.status = "confirmed"
       THEN placedOrder' = [placedOrder EXCEPT !.status = "cancelled"] /\ stop' = [stop EXCEPT !.pc = "tell"]
       ELSE StopEnds("lost") /\ UNCHANGED placedOrder
  /\ UNCHANGED <<bridge, push, hook, kitchen, kitHistories>>

\* The kitchen stops the tickets it has made; the push may still make one.
Stopped == kitchen' = [kitchen EXCEPT !.stopped = kitchen.tickets]
Overtaken == push.pc \in {"start", "find", "save", "post"}

\* Fault: only an order that had the kitchen's id when it was read is told about.
StopTell_Named ==
  /\ stop.pc = "tell"
  /\ IF stop.named THEN Stopped ELSE UNCHANGED kitchen
  /\ unheeded' = (unheeded \/ Overtaken)
  /\ StopEnds("done")
  /\ UNCHANGED <<placedOrder, bridge, push, hook, missed, wiped, kitCrashes>>

\* cancelSerenityOrder, with both ids: best effort, so the call may be lost.
StopTell ==
  /\ stop.pc = "tell"
  /\ \/ unheeded' = TRUE /\ UNCHANGED kitchen
     \/ Stopped /\ unheeded' = (unheeded \/ Overtaken)
  /\ StopEnds("done")
  /\ UNCHANGED <<placedOrder, bridge, push, hook, missed, wiped, kitCrashes>>

-----------------------------------------------------------------------------
(* The kitchen calls back, or its tools do (PetpoojaService.updateOrderStatus *)
(* and updateRiderStatus post to the kitchen first, then act as a callback)   *)

HookGoto(h, pc) == hook' = [hook EXCEPT ![h] = [(IF pc = "done" THEN NoHook ELSE @) EXCEPT !.pc = pc]]

\* The kitchen uses its id as soon as it has made a ticket.
HookArrives(h, name, to) ==
  /\ hook[h].pc = "idle" /\ kitchen.tickets > 0
  /\ hook' = [hook EXCEPT ![h] = [@ EXCEPT !.pc = "find", !.name = name, !.to = to]]
  /\ IF to = "cancelled" THEN Stopped ELSE UNCHANGED kitchen
  /\ UNCHANGED <<placedOrder, bridge, push, stop, kitHistories>>

\* orderCallback stores what it was told first, under the id it was told, as both ids.
HookFind(h) ==
  /\ hook[h].pc = "find"
  /\ \E n \in Found(hook[h].name, hook[h].name) : hook' = [hook EXCEPT ![h] = [@ EXCEPT !.pc = "save", !.row = n]]
  /\ UNCHANGED <<placedOrder, bridge, push, stop, kitchen, kitHistories>>

\* A row that cannot be saved ends the callback: its status is not applied.
HookSave(h) ==
  /\ hook[h].pc = "save"
  /\ IF KeyTaken(hook[h].row, hook[h].name)
       THEN HookGoto(h, "done") /\ UNCHANGED bridge
       ELSE /\ bridge' = Upserted(hook[h].row, hook[h].name, hook[h].name)
            /\ hook' = [hook EXCEPT ![h] = [@ EXCEPT !.pc = "look", !.row = NoRow]]
  /\ UNCHANGED <<placedOrder, push, stop, kitchen, kitHistories>>

Progresses(from, to) ==
  \/ to = "cancelled" /\ from \notin {"cancelled", "delivered"}
  \/ to = "preparing" /\ from \in {"confirmed", "preparing"}
  \/ to = "delivered" /\ from # "cancelled"

\* The order is read, and the status judged by what was read: an unknown status or a
\* step back changes nothing but rider details.
HookReads(h) ==
  IF ~Progresses(placedOrder.status, hook[h].to) THEN HookGoto(h, "done")
  ELSE hook' = [hook EXCEPT ![h] = [@ EXCEPT !.pc = IF hook[h].to = "cancelled" THEN "mark" ELSE "write",
                                             !.read = placedOrder]]

\* resolveSerenityOrder: by the kitchen's id, then by ours, then through the bridge.
HookLook(h) ==
  /\ hook[h].pc = "look"
  /\ IF hook[h].name = Ours \/ placedOrder.named THEN HookReads(h) ELSE HookGoto(h, "bridge")
  /\ UNCHANGED <<placedOrder, bridge, push, stop, kitchen, kitHistories>>

HookBridge(h) ==
  /\ hook[h].pc = "bridge"
  /\ LET n == Latest(Theirs)
     IN  IF n # NoRow /\ bridge[n].client = Ours THEN HookReads(h) ELSE HookGoto(h, "done")
  /\ UNCHANGED <<placedOrder, bridge, push, stop, kitchen, kitHistories>>

\* Fault: only the id that the callback brings is kept.
Named_FromCallback(h) == hook[h].name = Theirs /\ ~hook[h].read.named

\* posId ?? order.petpoojaOrderId: the id brought here if the order read had none, else that one.
Named(h) == hook[h].name = Theirs \/ hook[h].read.named

Wipe(h) == wiped' = (wiped \/ (placedOrder.named /\ ~Named(h) /\ ~hook[h].read.named))

HookWrite(h) ==
  /\ hook[h].pc = "write"
  /\ placedOrder' = [status |-> hook[h].to, named |-> Named(h)]
  /\ Wipe(h)
  /\ HookGoto(h, "done")
  /\ UNCHANGED <<bridge, push, stop, kitchen, missed, unheeded, kitCrashes>>

\* A cancel of the kitchen: marked, then claimed (settleKitchenCancel).
HookMark(h) ==
  /\ hook[h].pc = "mark"
  /\ placedOrder' = [placedOrder EXCEPT !.named = Named(h)]
  /\ Wipe(h)
  /\ HookGoto(h, "claim")
  /\ UNCHANGED <<bridge, push, stop, kitchen, missed, unheeded, kitCrashes>>

HookClaim(h) ==
  /\ hook[h].pc = "claim"
  /\ placedOrder' = [placedOrder EXCEPT !.status = IF @ = hook[h].read.status THEN "cancelled" ELSE @]
  /\ HookGoto(h, "done")
  /\ UNCHANGED <<bridge, push, stop, kitchen, kitHistories>>

-----------------------------------------------------------------------------
\* A process dies in a push or in a cancel.
KitchenCrash ==
  /\ kitCrashes < MaxKitchenCrash /\ kitCrashes' = kitCrashes + 1
  /\ \/ push.pc \notin {"done", "dead"} /\ PushGoto("dead") /\ UNCHANGED <<stop, unheeded>>
     \/ stop.pc = "tell" /\ StopEnds("done") /\ unheeded' = TRUE /\ UNCHANGED push
  /\ UNCHANGED <<placedOrder, bridge, hook, kitchen, missed, wiped>>

KitchenNext ==
  \/ Pushing
  \/ StopRead \/ StopClaim \/ StopTell
  \/ \E h \in Hooks :
       \/ \E name \in Names, to \in {"preparing", "delivered", "cancelled", "unknown"} : HookArrives(h, name, to)
       \/ HookFind(h) \/ HookSave(h) \/ HookLook(h) \/ HookBridge(h)
       \/ HookWrite(h) \/ HookMark(h) \/ HookClaim(h)
  \/ KitchenCrash

KitchenSpec == KitchenInit /\ [][KitchenNext]_kitchenVars

-----------------------------------------------------------------------------
(* Properties *)

\* The kitchen cooks an order once, and once more for every answer it gave and we
\* did not get (postOrderWithRetry repeats the order, which has no key of its own
\* at the kitchen that would stop it).
TicketsAccounted == kitchen.tickets <= missed + 1

\* Once the kitchen's id is recorded, callbacks that use it find the order, but for
\* a callback by our id that read the order before and put "no id" back
\* (applyOrderCallback writes posId ?? order.petpoojaOrderId).
KitchenIdKept == push.named /\ push.pc \in {"refind", "resave", "done"} => placedOrder.named \/ wiped

\* When a customer's cancel has gone through, the kitchen has stopped, unless the
\* call was lost or came before the order did, or the process died before it.
CancelStopsKitchen == stop.pc = "done" /\ ~unheeded => kitchen.stopped = kitchen.tickets
=============================================================================
