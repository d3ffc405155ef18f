--------------------------- MODULE Partners_proofs ---------------------------
(* Theorems about the modules partners and releases write to, for any of      *)
(* their constants: the kitchen (KitchenSync), its menu (MenuStock), the      *)
(* gateways' notices (GatewayNotices) and the seeds (Seeding); and about      *)
(* MCPartners, which runs one of them.                                        *)
EXTENDS MCPartners, SequenceTheorems, FiniteSetTheorems, TLAPS

-----------------------------------------------------------------------------
(* KitchenSync: types *)

PushPCs == {"start", "find", "save", "post", "record", "refind", "resave", "done", "dead"}
PushRecs == [pc : PushPCs, try : Nat, named : BOOLEAN, row : 0..2]
StopRecs == [pc : {"idle", "claim", "tell", "done", "lost"}, named : BOOLEAN]
HookRecs == [pc : HookPCs, name : Names, to : KStatuses \cup {"unknown"}, row : 0..2, read : KOrders]

\* The rows are numbered as they are made, and no two have one key.
BridgeOk(b) == /\ DOMAIN b \in {{}, {1}, {1, 2}}
               /\ \A n \in DOMAIN b : b[n] \in BridgeRows
               /\ \A n, k \in DOMAIN b : b[n].key = b[k].key => n = k

KitchenTypes ==
  /\ placedOrder \in KOrders /\ BridgeOk(bridge)
  /\ push \in PushRecs /\ push.row \in DOMAIN bridge \cup {NoRow}
  /\ stop \in StopRecs
  /\ hook \in [Hooks -> HookRecs] /\ \A h \in Hooks : hook[h].row \in DOMAIN bridge \cup {NoRow}
  /\ \A h \in Hooks : hook[h].pc = "write" => hook[h].to # "unknown"
  /\ kitchen \in [tickets : Nat, stopped : Nat]
  /\ missed \in Nat /\ wiped \in BOOLEAN /\ unheeded \in BOOLEAN /\ kitCrashes \in Nat

(* A bridge row is found among those there are, or none is. *)
LEMMA FoundRow == ASSUME NEW key, NEW client PROVE Found(key, client) \subseteq DOMAIN bridge \cup {NoRow}
  BY DEF Found, RowsWith

(* A row that may be saved is, and those there were are still there. *)
LEMMA UpsertedOk ==
  ASSUME BridgeOk(bridge), NEW n \in DOMAIN bridge \cup {NoRow}, NEW key \in Names, NEW client \in Names,
         ~KeyTaken(n, key)
  PROVE  BridgeOk(Upserted(n, key, client)) /\ DOMAIN bridge \subseteq DOMAIN Upserted(n, key, client)
<1> DEFINE new == IF n = NoRow THEN Cardinality(DOMAIN bridge) + 1 ELSE n
           b == Upserted(n, key, client)
<1>1. DOMAIN bridge = {} \/ DOMAIN bridge = {1} \/ DOMAIN bridge = {1, 2}
  BY DEF BridgeOk
<1>2. Cardinality({}) = 0 /\ Cardinality({1}) = 1 /\ Cardinality({1, 2}) = 2
  <2>1. Cardinality({1}) = 1 /\ IsFiniteSet({1})
    BY FS_Singleton
  <2> DEFINE one == {1}
  <2>2. 2 \notin one /\ IsFiniteSet(one) /\ Cardinality(one) = 1 /\ one \cup {2} = {1, 2}
    BY <2>1
  <2> HIDE DEF one
  <2>3. Cardinality(one \cup {2}) = 2
    BY <2>2, FS_AddElement
  <2> QED
    BY <2>1, <2>2, <2>3, FS_EmptySet
<1>3. /\ DOMAIN b = DOMAIN bridge \cup {new}
      /\ \A k \in DOMAIN b : b[k] = IF k = n \/ k \notin DOMAIN bridge THEN [key |-> key, client |-> client] ELSE bridge[k]
  BY DEF Upserted
<1>4. n # NoRow => n \in DOMAIN bridge /\ DOMAIN b = DOMAIN bridge
  BY <1>3
<1>5. \A k \in DOMAIN bridge : k # n => bridge[k].key # key
  BY DEF KeyTaken
<1>6. DOMAIN b \in {{}, {1}, {1, 2}} /\ (n = NoRow => new \notin DOMAIN bridge)
  <2>1. CASE n # NoRow
    BY <1>1, <1>4, <2>1
  <2>2. CASE n = NoRow /\ DOMAIN bridge # {1, 2}
    BY <1>1, <1>2, <1>3, <2>2
  <2>3. CASE n = NoRow /\ DOMAIN bridge = {1, 2}
    <3>1. bridge[1].key \in Names /\ bridge[2].key \in Names /\ bridge[1].key # bridge[2].key
      BY <2>3 DEF BridgeOk, BridgeRows
    <3>2. bridge[1].key # key /\ bridge[2].key # key
      BY <1>5, <2>3 DEF NoRow
    <3> QED
      BY <3>1, <3>2 DEF Names
  <2> QED
    BY <2>1, <2>2, <2>3
<1> HIDE DEF new
<1>7. [key |-> key, client |-> client] \in BridgeRows
  BY DEF BridgeRows
<1>8. \A k \in DOMAIN b : b[k] \in BridgeRows
  BY <1>3, <1>7 DEF BridgeOk
<1>9. \A k \in DOMAIN b : k \in DOMAIN bridge \ {n} \/ k = (IF n = NoRow THEN new ELSE n)
  <2> HIDE DEF b
  <2> QED
    BY <1>1, <1>3, <1>4 DEF NoRow
<1>10. \A k, m \in DOMAIN b : b[k].key = b[m].key => k = m
  <2> SUFFICES ASSUME NEW k \in DOMAIN b, NEW m \in DOMAIN b, b[k].key = b[m].key PROVE k = m
    OBVIOUS
  <2>1. \A j \in DOMAIN b : j \in DOMAIN bridge \ {n} => b[j] = bridge[j]
    BY <1>3
  <2>2. \A j \in DOMAIN b : j \notin DOMAIN bridge \ {n} => b[j].key = key
    BY <1>3
  <2> HIDE DEF b
  <2> QED
    BY <1>5, <1>9, <2>1, <2>2 DEF BridgeOk
<1> QED
  BY <1>3, <1>6, <1>8, <1>10 DEF BridgeOk

LEMMA KitchenInitTypes == KitchenInit => KitchenTypes
<1> SUFFICES ASSUME KitchenInit PROVE KitchenTypes
  OBVIOUS
<1>1. NewOrder \in KOrders
  BY DEF NewOrder, KOrders, KStatuses
<1>2. NoHook \in HookRecs /\ NoHook.row = NoRow /\ NoHook.pc = "idle"
  BY <1>1 DEF NoHook, HookRecs, HookPCs, Names, NoRow
<1>3. hook \in [Hooks -> HookRecs] /\ \A h \in Hooks : hook[h] = NoHook
  BY <1>2 DEF KitchenInit
<1>4. push \in PushRecs /\ push.row = NoRow
  BY DEF KitchenInit, PushRecs, PushPCs, NoRow
<1>5. BridgeOk(bridge)
  BY DEF KitchenInit, BridgeOk
<1> QED
  BY <1>1, <1>2, <1>3, <1>4, <1>5 DEF KitchenInit, KitchenTypes, StopRecs

(* A push that is over keeps no row, one that tries again the row it had. *)
LEMMA PushGotoOk ==
  ASSUME KitchenTypes, NEW pc \in {"find", "post", "refind", "done", "dead"}, PushGoto(pc)
  PROVE  push' \in PushRecs /\ push'.row = NoRow /\ push'.named = push.named /\ push'.pc = pc
<1>1. push \in PushRecs /\ push' = [push EXCEPT !.pc = pc, !.row = 0, !.try = 0]
  BY DEF KitchenTypes, PushGoto, NoRow
<1>2. pc \in PushPCs
  BY DEF PushPCs
<1>3. push' \in PushRecs
  <2> DEFINE rows == 0..2
             counts == Nat
  <2>1. push \in [pc : PushPCs, try : counts, named : BOOLEAN, row : rows] /\ 0 \in rows /\ 0 \in counts
    BY <1>1 DEF PushRecs
  <2> HIDE DEF rows, counts
  <2>2. push' \in [pc : PushPCs, try : counts, named : BOOLEAN, row : rows]
    BY <1>1, <1>2, <2>1
  <2> QED
    BY <2>2 DEF PushRecs, rows, counts
<1>4. push'.row = 0 /\ push'.named = push.named /\ push'.pc = pc
  BY <1>1 DEF PushRecs
<1> QED
  BY <1>3, <1>4 DEF NoRow

LEMMA NextTryOk ==
  ASSUME KitchenTypes, NextTry
  PROVE  /\ push' \in PushRecs /\ push'.row \in {push.row, NoRow} /\ push'.named = push.named
         /\ push'.pc \in {push.pc, "done"}
<1>1. CASE PushGoto("done")
  BY <1>1, PushGotoOk
<1>2. CASE push' = [push EXCEPT !.try = @ + 1]
  BY <1>2 DEF KitchenTypes, PushRecs
<1> QED
  BY <1>1, <1>2 DEF NextTry

LEMMA PushTypes == ASSUME KitchenTypes, Pushing PROVE KitchenTypes'
<1> DEFINE PushOk == push' \in PushRecs /\ push'.row \in DOMAIN bridge' \cup {NoRow}
<1>0. /\ push \in PushRecs /\ push.row \in DOMAIN bridge \cup {NoRow} /\ BridgeOk(bridge)
      /\ DOMAIN bridge \cup {NoRow} \subseteq 0..2
  BY DEF KitchenTypes, BridgeOk, NoRow
<1>1. CASE PushSkip \/ PushStart
  <2>1. PushOk
    BY <1>1, PushGotoOk DEF PushSkip, PushStart
  <2> QED
    BY <1>1, <2>1 DEF PushSkip, PushStart, KitchenTypes, kitHistories
<1>2. CASE PushFind \/ PushRefind
  <2>1. PICK n \in DOMAIN bridge \cup {NoRow}, pc \in {"save", "resave"} :
          push' = [push EXCEPT !.pc = pc, !.row = n]
    BY <1>2, FoundRow DEF PushFind, PushRefind
  <2>2. push' \in PushRecs /\ push'.row = n
    BY <1>0, <2>1 DEF PushRecs, PushPCs
  <2>3. UNCHANGED <<placedOrder, bridge, stop, hook, kitchen, kitHistories>>
    BY <1>2 DEF PushFind, PushRefind
  <2> QED
    BY <2>2, <2>3 DEF KitchenTypes, kitHistories
<1>3. CASE PushSave
  <2>1. CASE KeyTaken(push.row, Ours)
    <3>1. PushOk
      BY <1>3, <2>1, PushGotoOk DEF PushSave
    <3> QED
      BY <1>3, <2>1, <3>1 DEF PushSave, KitchenTypes, kitHistories
  <2>2. CASE ~KeyTaken(push.row, Ours)
    <3>1. bridge' = Upserted(push.row, Ours, Ours) /\ PushGoto("post")
          /\ UNCHANGED <<placedOrder, stop, hook, kitchen, kitHistories>>
      BY <1>3, <2>2 DEF PushSave
    <3>2. BridgeOk(bridge') /\ DOMAIN bridge \subseteq DOMAIN bridge'
      BY <1>0, <2>2, <3>1, UpsertedOk DEF Names
    <3>3. PushOk
      BY <3>1, PushGotoOk
    <3> QED
      BY <3>1, <3>2, <3>3 DEF KitchenTypes, kitHistories
  <2> QED
    BY <2>1, <2>2
<1>4. CASE PostRefused \/ PostLost \/ PostAnswered
  <2>1. push' \in PushRecs /\ push'.row \in {push.row, NoRow}
    <3>1. CASE NextTry
      BY <3>1, NextTryOk
    <3>2. CASE \E named \in BOOLEAN : push' = [push EXCEPT !.pc = "record", !.named = named, !.try = 0]
      <4>1. PICK named \in BOOLEAN : push' = [push EXCEPT !.pc = "record", !.named = named, !.try = 0]
        BY <3>2
      <4> QED
        BY <1>0, <4>1 DEF PushRecs, PushPCs
    <3> QED
      BY <1>4, <3>1, <3>2 DEF PostRefused, PostLost, PostAnswered
  <2>2. /\ UNCHANGED <<placedOrder, bridge, stop, hook, wiped, unheeded, kitCrashes>>
        /\ missed' \in Nat /\ kitchen' \in [tickets : Nat, stopped : Nat]
    <3>1. kitchen \in [tickets : Nat, stopped : Nat] /\ missed \in Nat
      BY DEF KitchenTypes
    <3>2. [kitchen EXCEPT !.tickets = @ + 1] \in [tickets : Nat, stopped : Nat]
      BY <3>1
    <3>3. (missed' = missed \/ missed' = missed + 1)
          /\ (kitchen' = kitchen \/ kitchen' = [kitchen EXCEPT !.tickets = @ + 1])
          /\ UNCHANGED <<placedOrder, bridge, stop, hook, wiped, unheeded, kitCrashes>>
      BY <1>4 DEF PostRefused, PostLost, PostAnswered, kitHistories
    <3> QED
      BY <3>1, <3>2, <3>3
  <2> QED
    BY <1>0, <2>1, <2>2 DEF KitchenTypes
<1>5. CASE PushRecord
  <2>1. PushOk
    BY <1>5, PushGotoOk DEF PushRecord
  <2>2. placedOrder' \in KOrders
    BY <1>0, <1>5 DEF PushRecord, KOrders, PushRecs, KitchenTypes
  <2> QED
    BY <1>5, <2>1, <2>2 DEF PushRecord, KitchenTypes, kitHistories
<1>6. CASE PushResave
  <2>1. UNCHANGED <<placedOrder, stop, hook, kitchen, kitHistories>> /\ PushOk
    BY <1>6, PushGotoOk DEF PushResave
  <2>2. BridgeOk(bridge') /\ DOMAIN bridge \subseteq DOMAIN bridge'
    <3>1. CASE KeyTaken(push.row, PushedName)
      BY <1>0, <1>6, <3>1 DEF PushResave
    <3>2. CASE ~KeyTaken(push.row, PushedName)
      BY <1>0, <1>6, <3>2, UpsertedOk DEF PushResave, Names, PushedName
    <3> QED
      BY <3>1, <3>2
  <2> QED
    BY <2>1, <2>2 DEF KitchenTypes, kitHistories
<1> QED
  BY <1>1, <1>2, <1>3, <1>4, <1>5, <1>6 DEF Pushing

LEMMA StopTypes == ASSUME KitchenTypes, StopRead \/ StopClaim \/ StopTell \/ KitchenCrash PROVE KitchenTypes'
<1> USE DEF KitchenTypes
<1>1. CASE StopRead
  BY <1>1 DEF StopRead, StopRecs, kitHistories, KOrders
<1>2. CASE StopClaim
  <2>1. placedOrder' \in KOrders
    BY <1>2 DEF StopClaim, KOrders, KStatuses
  <2>2. stop' \in StopRecs
    <3>1. stop \in StopRecs
      OBVIOUS
    <3>2. stop' = [stop EXCEPT !.pc = "tell"] \/ stop' = [pc |-> "lost", named |-> FALSE]
      BY <1>2 DEF StopClaim, StopEnds
    <3>3. [stop EXCEPT !.pc = "tell"] \in StopRecs /\ [pc |-> "lost", named |-> FALSE] \in StopRecs
      BY <3>1 DEF StopRecs
    <3> QED
      BY <3>2, <3>3
  <2> QED
    BY <1>2, <2>1, <2>2 DEF StopClaim, kitHistories
<1>3. CASE StopTell
  BY <1>3 DEF StopTell, StopRecs, StopEnds, Stopped, Overtaken
<1>4. CASE KitchenCrash
    <2>1. UNCHANGED <<placedOrder, bridge, hook, kitchen, missed, wiped>> /\ kitCrashes' \in Nat
    BY <1>4 DEF KitchenCrash
  <2>2. CASE PushGoto("dead") /\ UNCHANGED <<stop, unheeded>>
    BY <2>1, <2>2, PushGotoOk
  <2>3. CASE StopEnds("done") /\ unheeded' = TRUE /\ UNCHANGED push
    BY <2>1, <2>3 DEF StopEnds, StopRecs
  <2> QED
    BY <1>4, <2>2, <2>3 DEF KitchenCrash
<1> QED
  BY <1>1, <1>2, <1>3, <1>4

(* A callback is as it should be, whatever the others are. *)
HookOk(k, b) == k \in HookRecs /\ k.row \in DOMAIN b \cup {NoRow} /\ (k.pc = "write" => k.to # "unknown")

LEMMA HooksStayOk ==
  ASSUME KitchenTypes, NEW h \in Hooks, NEW k, hook' = [hook EXCEPT ![h] = k], HookOk(k, bridge'),
         DOMAIN bridge \subseteq DOMAIN bridge'
  PROVE  /\ hook' \in [Hooks -> HookRecs]
         /\ \A g \in Hooks : hook'[g].row \in DOMAIN bridge' \cup {NoRow}
         /\ \A g \in Hooks : hook'[g].pc = "write" => hook'[g].to # "unknown"
  BY DEF KitchenTypes, HookOk

LEMMA HookGotoOk ==
  ASSUME KitchenTypes, NEW h \in Hooks, NEW pc \in {"done", "bridge", "claim"}, HookGoto(h, pc)
  PROVE  \E k : hook' = [hook EXCEPT ![h] = k] /\ HookOk(k, bridge)
<1>1. hook[h] \in HookRecs /\ NoHook \in HookRecs /\ NoHook.row = NoRow /\ hook[h].row \in DOMAIN bridge \cup {NoRow}
  BY DEF KitchenTypes, HookRecs, NoHook, NewOrder, KOrders, KStatuses, Names, NoRow, HookPCs
<1>2. PICK a \in {NoHook, hook[h]} : hook' = [hook EXCEPT ![h] = [a EXCEPT !.pc = pc]]
  BY DEF HookGoto
<1>3. HookOk([a EXCEPT !.pc = pc], bridge)
  BY <1>1 DEF HookRecs, HookOk, HookPCs
<1> QED
  BY <1>2, <1>3

LEMMA HookTypes ==
  ASSUME KitchenTypes, NEW h \in Hooks,
         \/ \E name \in Names, to \in {"preparing", "delivered", "cancelled", "unknown"} : HookArrives(h, name, to)
         \/ HookFind(h) \/ HookSave(h) \/ HookLook(h) \/ HookBridge(h)
         \/ HookWrite(h) \/ HookMark(h) \/ HookClaim(h)
  PROVE  KitchenTypes'
<1> DEFINE NewHook == \E k : hook' = [hook EXCEPT ![h] = k] /\ HookOk(k, bridge')
           HooksOk == /\ hook' \in [Hooks -> HookRecs]
                      /\ \A g \in Hooks : hook'[g].row \in DOMAIN bridge' \cup {NoRow}
                      /\ \A g \in Hooks : hook'[g].pc = "write" => hook'[g].to # "unknown"
<1>0. /\ hook[h] \in HookRecs /\ BridgeOk(bridge) /\ placedOrder \in KOrders
      /\ hook[h].row \in DOMAIN bridge \cup {NoRow} /\ DOMAIN bridge \cup {NoRow} \subseteq 0..2
  BY DEF KitchenTypes, BridgeOk, NoRow
<1>00. ASSUME NewHook, DOMAIN bridge \subseteq DOMAIN bridge' PROVE HooksOk
  BY <1>00, HooksStayOk
<1>1. ASSUME NEW name \in Names, NEW to \in {"preparing", "delivered", "cancelled", "unknown"}, HookArrives(h, name, to)
      PROVE  KitchenTypes'
  <2>1. HookOk([hook[h] EXCEPT !.pc = "find", !.name = name, !.to = to], bridge)
    BY <1>0 DEF HookRecs, HookPCs, KStatuses, HookOk
  <2>2. UNCHANGED <<placedOrder, bridge, push, stop, kitHistories>>
        /\ hook' = [hook EXCEPT ![h] = [hook[h] EXCEPT !.pc = "find", !.name = name, !.to = to]]
    BY <1>1 DEF HookArrives
  <2>3. HooksOk
    BY <1>00, <2>1, <2>2
  <2>4. kitchen' \in [tickets : Nat, stopped : Nat]
    BY <1>1 DEF HookArrives, Stopped, KitchenTypes
  <2> QED
    BY <2>2, <2>3, <2>4 DEF KitchenTypes, kitHistories
<1>2. CASE HookFind(h)
  <2>1. PICK n \in DOMAIN bridge \cup {NoRow} : hook' = [hook EXCEPT ![h] = [hook[h] EXCEPT !.pc = "save", !.row = n]]
    BY <1>2, FoundRow DEF HookFind
  <2>2. HookOk([hook[h] EXCEPT !.pc = "save", !.row = n], bridge)
    BY <1>0 DEF HookRecs, HookPCs, HookOk
  <2>3. HooksOk /\ UNCHANGED <<placedOrder, bridge, push, stop, kitchen, kitHistories>>
    BY <1>00, <1>2, <2>1, <2>2 DEF HookFind
  <2> QED
    BY <2>3 DEF KitchenTypes, kitHistories
<1>3. CASE HookSave(h)
  <2>1. CASE KeyTaken(hook[h].row, hook[h].name)
    <3>1. HooksOk /\ UNCHANGED <<placedOrder, bridge, push, stop, kitchen, kitHistories>>
      BY <1>00, <1>3, <2>1, HookGotoOk DEF HookSave
    <3> QED
      BY <3>1 DEF KitchenTypes, kitHistories
  <2>2. CASE ~KeyTaken(hook[h].row, hook[h].name)
    <3>1. /\ bridge' = Upserted(hook[h].row, hook[h].name, hook[h].name)
          /\ hook' = [hook EXCEPT ![h] = [hook[h] EXCEPT !.pc = "look", !.row = NoRow]]
          /\ UNCHANGED <<placedOrder, push, stop, kitchen, kitHistories>>
      BY <1>3, <2>2 DEF HookSave
    <3>2. BridgeOk(bridge') /\ DOMAIN bridge \subseteq DOMAIN bridge'
      BY <1>0, <2>2, <3>1, UpsertedOk DEF HookRecs
    <3>3. HookOk([hook[h] EXCEPT !.pc = "look", !.row = NoRow], bridge')
      BY <1>0 DEF HookRecs, HookPCs, NoRow, HookOk
    <3>4. HooksOk
      BY <1>00, <3>1, <3>2, <3>3
    <3> QED
      BY <3>1, <3>2, <3>4 DEF KitchenTypes, kitHistories
  <2> QED
    BY <2>1, <2>2
<1>4. ASSUME HookReads(h), UNCHANGED bridge PROVE HooksOk
  <2>1. CASE HookGoto(h, "done")
    BY <1>00, <1>4, <2>1, HookGotoOk
  <2>2. CASE ~HookGoto(h, "done")
    <3>1. PICK pc \in {"mark", "write"} : hook' = [hook EXCEPT ![h] = [hook[h] EXCEPT !.pc = pc, !.read = placedOrder]]
      BY <1>4, <2>2 DEF HookReads
    <3>2. hook[h].to # "unknown"
      BY <1>4, <2>2 DEF HookReads, Progresses
    <3>3. HookOk([hook[h] EXCEPT !.pc = pc, !.read = placedOrder], bridge')
      BY <1>0, <1>4, <3>2 DEF HookRecs, HookPCs, HookOk
    <3> QED
      BY <1>00, <1>4, <3>1, <3>3
  <2> QED
    BY <2>1, <2>2
<1>5. CASE HookLook(h) \/ HookBridge(h)
  <2>1. UNCHANGED <<placedOrder, bridge, push, stop, kitchen, kitHistories>>
        /\ (HookReads(h) \/ HookGoto(h, "done") \/ HookGoto(h, "bridge"))
    BY <1>5 DEF HookLook, HookBridge
  <2>2. HooksOk
    BY <1>00, <1>4, <2>1, HookGotoOk
  <2> QED
    BY <2>1, <2>2 DEF KitchenTypes, kitHistories
<1>6. CASE HookWrite(h) \/ HookMark(h) \/ HookClaim(h)
  <2>1. (HookGoto(h, "done") \/ HookGoto(h, "claim")) /\ UNCHANGED <<bridge, push, stop, kitchen, missed, unheeded, kitCrashes>>
        /\ wiped' \in BOOLEAN
    BY <1>6 DEF HookWrite, HookMark, HookClaim, Wipe, kitHistories, KitchenTypes
  <2>2. HooksOk
    BY <1>00, <2>1, HookGotoOk
  <2>3. CASE HookWrite(h)
    <3>1. hook[h].to \in KStatuses /\ Named(h) \in BOOLEAN
      BY <1>0, <2>3 DEF HookWrite, HookRecs, Named, KitchenTypes, KOrders
    <3> QED
      BY <2>1, <2>2, <2>3, <3>1 DEF HookWrite, KitchenTypes, KOrders
  <2>4. CASE HookMark(h)
    <3>1. Named(h) \in BOOLEAN
      BY <1>0 DEF HookRecs, Named, KOrders
    <3> QED
      BY <1>0, <2>1, <2>2, <2>4, <3>1 DEF HookMark, KitchenTypes, KOrders
  <2>5. CASE HookClaim(h)
    <3>1. placedOrder' \in KOrders
      BY <1>0, <2>5 DEF HookClaim, KOrders, KStatuses
    <3> QED
      BY <2>1, <2>2, <3>1 DEF KitchenTypes
  <2> QED
    BY <1>6, <2>3, <2>4, <2>5
<1> QED
  BY <1>1, <1>2, <1>3, <1>5, <1>6

-----------------------------------------------------------------------------
(* KitchenSync: tickets, ids and cancels *)

\* Before the kitchen has answered, each of its tickets is an answer that was lost.
Unanswered == push.pc \in {"start", "find", "save", "post"} => kitchen.tickets <= missed /\ ~push.named

\* And a cancel that got through came after the push was over.
StoppedInTime == stop.pc = "done" /\ ~unheeded => ~Overtaken /\ kitchen.stopped = kitchen.tickets

KitchenInv == KitchenTypes /\ TicketsAccounted /\ Unanswered /\ KitchenIdKept /\ StoppedInTime

LEMMA KitchenInitInv == KitchenInit => KitchenInv
  BY KitchenInitTypes DEF KitchenInit, KitchenInv, TicketsAccounted, Unanswered, KitchenIdKept, StoppedInTime

LEMMA PushInv == ASSUME KitchenInv, Pushing PROVE KitchenInv'
<1>0. KitchenTypes /\ KitchenTypes' /\ kitchen.tickets \in Nat /\ missed \in Nat /\ kitchen \in [tickets : Nat, stopped : Nat]
      /\ wiped \in BOOLEAN /\ push.named \in BOOLEAN /\ placedOrder.named \in BOOLEAN
  BY PushTypes DEF KitchenInv, KitchenTypes, PushRecs, KOrders
<1>1. CASE PushSkip \/ PushStart \/ PushSave
  <2>1. PICK pc \in {"done", "find", "post"} : PushGoto(pc)
    BY <1>1 DEF PushSkip, PushStart, PushSave
  <2>2. push'.named = push.named /\ push'.pc \in {"done", "find", "post"} /\ push.pc \in {"start", "save"}
    BY <1>0, <1>1, <2>1, PushGotoOk DEF PushSkip, PushStart, PushSave
  <2>3. UNCHANGED <<placedOrder, stop, kitchen, kitHistories>>
    BY <1>1 DEF PushSkip, PushStart, PushSave
  <2> QED
    BY <1>0, <2>2, <2>3 DEF KitchenInv, TicketsAccounted, Unanswered, KitchenIdKept, StoppedInTime, Overtaken, kitHistories
<1>2. CASE PushFind \/ PushRefind
  <2>1. push'.named = push.named /\ (\/ push.pc = "find" /\ push'.pc = "save"
                                     \/ push.pc = "refind" /\ push'.pc = "resave")
    BY <1>0, <1>2 DEF PushFind, PushRefind, KitchenTypes, PushRecs
  <2>2. UNCHANGED <<placedOrder, stop, kitchen, kitHistories>>
    BY <1>2 DEF PushFind, PushRefind
  <2> QED
    BY <1>0, <2>1, <2>2 DEF KitchenInv, TicketsAccounted, Unanswered, KitchenIdKept, StoppedInTime, Overtaken, kitHistories
<1>3. CASE PostRefused \/ PostLost
  <2>1. push.pc = "post" /\ push'.pc \in {"post", "done"} /\ push'.named = push.named
    BY <1>0, <1>3, NextTryOk DEF PostRefused, PostLost
  <2>2. \/ kitchen'.tickets = kitchen.tickets /\ missed' = missed
        \/ kitchen'.tickets = kitchen.tickets + 1 /\ missed' = missed + 1
    BY <1>0, <1>3 DEF PostRefused, PostLost, kitHistories
  <2>3. UNCHANGED <<placedOrder, stop, wiped, unheeded>>
    BY <1>3 DEF PostRefused, PostLost, kitHistories
  <2>4. kitchen.tickets <= missed /\ ~push.named
    BY <2>1 DEF KitchenInv, Unanswered
  <2>5. kitchen'.tickets <= missed' /\ missed' \in Nat /\ kitchen'.tickets \in Nat /\ kitchen'.tickets <= missed' + 1
    BY <1>0, <2>2, <2>4
  <2> QED
    BY <1>0, <2>1, <2>3, <2>4, <2>5 DEF KitchenInv, TicketsAccounted, Unanswered, KitchenIdKept, StoppedInTime, Overtaken
<1>4. CASE PostAnswered
  <2>1. push.pc = "post" /\ push'.pc = "record" /\ kitchen'.tickets = kitchen.tickets + 1
    BY <1>0, <1>4 DEF PostAnswered, KitchenTypes, PushRecs
  <2>2. kitchen.tickets <= missed
    BY <2>1 DEF KitchenInv, Unanswered
  <2>3. UNCHANGED <<placedOrder, stop, kitHistories>>
    BY <1>4 DEF PostAnswered
  <2>4. kitchen'.tickets <= missed' + 1
    BY <1>0, <2>1, <2>2, <2>3 DEF kitHistories
  <2> QED
    BY <1>0, <2>1, <2>3, <2>4 DEF KitchenInv, TicketsAccounted, Unanswered, KitchenIdKept, StoppedInTime, Overtaken, kitHistories
<1>5. CASE PushRecord
  <2>1. push.pc = "record" /\ push'.pc = "refind" /\ push'.named = push.named /\ placedOrder'.named = push.named
    BY <1>0, <1>5, PushGotoOk DEF PushRecord, KitchenTypes, KOrders
  <2>2. UNCHANGED <<stop, kitchen, kitHistories>>
    BY <1>5 DEF PushRecord
  <2> QED
    BY <1>0, <2>1, <2>2 DEF KitchenInv, TicketsAccounted, Unanswered, KitchenIdKept, StoppedInTime, Overtaken, kitHistories
<1>6. CASE PushResave
  <2>1. push.pc = "resave" /\ push'.pc = "done" /\ push'.named = push.named
    BY <1>0, <1>6, PushGotoOk DEF PushResave
  <2>2. UNCHANGED <<placedOrder, stop, kitchen, kitHistories>>
    BY <1>6 DEF PushResave
  <2> QED
    BY <1>0, <2>1, <2>2 DEF KitchenInv, TicketsAccounted, Unanswered, KitchenIdKept, StoppedInTime, Overtaken, kitHistories
<1> QED
  BY <1>1, <1>2, <1>3, <1>4, <1>5, <1>6 DEF Pushing

LEMMA StopInv == ASSUME KitchenInv, StopRead \/ StopClaim \/ StopTell \/ KitchenCrash PROVE KitchenInv'
<1>0. KitchenTypes /\ KitchenTypes' /\ kitchen \in [tickets : Nat, stopped : Nat]
      /\ stop \in StopRecs /\ push \in PushRecs /\ placedOrder \in KOrders
  BY StopTypes DEF KitchenInv, KitchenTypes
<1>1. CASE StopRead \/ StopClaim
  <2>1. UNCHANGED <<push, kitchen, kitHistories>> /\ stop'.pc # "done" /\ placedOrder'.named = placedOrder.named
    BY <1>0, <1>1 DEF StopRead, StopClaim, StopEnds, StopRecs, KOrders
  <2> QED
    BY <1>0, <2>1 DEF KitchenInv, TicketsAccounted, Unanswered, KitchenIdKept, StoppedInTime, Overtaken, kitHistories
<1>2. CASE StopTell
  <2>1. /\ UNCHANGED <<placedOrder, push, missed, wiped>> /\ kitchen'.tickets = kitchen.tickets
        /\ unheeded' \/ (kitchen'.stopped = kitchen.tickets /\ ~Overtaken)
    BY <1>0, <1>2 DEF StopTell, Stopped
  <2> QED
    BY <1>0, <2>1 DEF KitchenInv, TicketsAccounted, Unanswered, KitchenIdKept, StoppedInTime, Overtaken
<1>3. CASE KitchenCrash
  <2>1. UNCHANGED <<placedOrder, kitchen, missed, wiped>>
    BY <1>3 DEF KitchenCrash
  <2>2. \/ push'.pc = "dead" /\ UNCHANGED <<stop, unheeded>>
        \/ unheeded' = TRUE /\ UNCHANGED push
    BY <1>0, <1>3, PushGotoOk DEF KitchenCrash
  <2> QED
    BY <1>0, <2>1, <2>2 DEF KitchenInv, TicketsAccounted, Unanswered, KitchenIdKept, StoppedInTime, Overtaken
<1> QED
  BY <1>1, <1>2, <1>3

LEMMA HookInv ==
  ASSUME KitchenInv, NEW h \in Hooks,
         \/ \E name \in Names, to \in {"preparing", "delivered", "cancelled", "unknown"} : HookArrives(h, name, to)
         \/ HookFind(h) \/ HookSave(h) \/ HookLook(h) \/ HookBridge(h)
         \/ HookWrite(h) \/ HookMark(h) \/ HookClaim(h)
  PROVE  KitchenInv'
<1>0. KitchenTypes /\ KitchenTypes' /\ kitchen \in [tickets : Nat, stopped : Nat] /\ placedOrder \in KOrders
      /\ wiped \in BOOLEAN /\ hook[h] \in HookRecs
  BY HookTypes DEF KitchenInv, KitchenTypes
<1>1. UNCHANGED <<push, stop, missed, unheeded>>
  BY DEF HookArrives, HookFind, HookSave, HookLook, HookBridge, HookWrite, HookMark, HookClaim, kitHistories
<1>2. kitchen'.tickets = kitchen.tickets /\ (kitchen'.stopped = kitchen.stopped \/ kitchen'.stopped = kitchen.tickets)
  BY <1>0 DEF HookArrives, HookFind, HookSave, HookLook, HookBridge, HookWrite, HookMark, HookClaim, Stopped
<1>3. placedOrder.named \/ wiped => placedOrder'.named \/ wiped'
  <2>1. CASE HookWrite(h) \/ HookMark(h)
    <3>1. Wipe(h) /\ placedOrder'.named = Named(h)
      BY <1>0, <2>1 DEF HookWrite, HookMark, KOrders
    <3> QED
      BY <3>1 DEF Wipe, Named
  <2>2. CASE ~(HookWrite(h) \/ HookMark(h))
    <3>1. wiped' = wiped /\ placedOrder'.named = placedOrder.named
      BY <1>0, <2>2 DEF HookArrives, HookFind, HookSave, HookLook, HookBridge, HookClaim, kitHistories, KOrders
    <3> QED
      BY <3>1
  <2> QED
    BY <2>1, <2>2
<1> QED
  BY <1>0, <1>1, <1>2, <1>3 DEF KitchenInv, TicketsAccounted, Unanswered, KitchenIdKept, StoppedInTime, Overtaken

LEMMA KitchenStep == KitchenInv /\ [KitchenNext]_kitchenVars => KitchenInv'
<1> SUFFICES ASSUME KitchenInv, [KitchenNext]_kitchenVars PROVE KitchenInv'
  OBVIOUS
<1>1. CASE Pushing
  BY <1>1, PushInv
<1>2. CASE StopRead \/ StopClaim \/ StopTell \/ KitchenCrash
  BY <1>2, StopInv
<1>3. CASE \E h \in Hooks :
             \/ \E name \in Names, to \in {"preparing", "delivered", "cancelled", "unknown"} : HookArrives(h, name, to)
             \/ HookFind(h) \/ HookSave(h) \/ HookLook(h) \/ HookBridge(h)
             \/ HookWrite(h) \/ HookMark(h) \/ HookClaim(h)
  BY <1>3, HookInv
<1>4. CASE UNCHANGED kitchenVars
  BY <1>4 DEF kitchenVars, kitHistories, KitchenInv, KitchenTypes, TicketsAccounted, Unanswered, KitchenIdKept,
              StoppedInTime, Overtaken
<1> QED
  BY <1>1, <1>2, <1>3, <1>4 DEF KitchenNext

LEMMA KitchenAlways == KitchenSpec => []KitchenInv
<1> QED
  BY KitchenInitInv, KitchenStep, PTL DEF KitchenSpec

LEMMA KitchenTyped == KitchenInv => KitchenTypeOK
<1> SUFFICES ASSUME KitchenInv PROVE KitchenTypeOK
  OBVIOUS
<1>1. \A n \in DOMAIN bridge : n \in 1..2 /\ bridge[n] \in BridgeRows
  BY DEF KitchenInv, KitchenTypes, BridgeOk
<1> QED
  BY <1>1 DEF KitchenInv, KitchenTypes, KitchenTypeOK, PushRecs, PushPCs, StopRecs, HookRecs

(* The rows, the push, the cancel and the callbacks stay what they are. *)
THEOREM KitchenTypeSafe == KitchenSpec => []KitchenTypeOK
  BY KitchenTyped, KitchenAlways, PTL

(* However often the push is tried again, and whatever is lost or dies, the     *)
(* kitchen has made one ticket more than it gave answers that we did not get.   *)
THEOREM OneTicketEach == KitchenSpec => []TicketsAccounted
<1>1. KitchenInv => TicketsAccounted
  BY DEF KitchenInv
<1> QED
  BY <1>1, KitchenAlways, PTL

(* No callback takes the recorded id away but one that read the order before. *)
THEOREM IdIsKept == KitchenSpec => []KitchenIdKept
<1>1. KitchenInv => KitchenIdKept
  BY DEF KitchenInv
<1> QED
  BY <1>1, KitchenAlways, PTL

(* A cancel that got through, and after the push, leaves the kitchen nothing to cook. *)
THEOREM CancelReachesKitchen == KitchenSpec => []CancelStopsKitchen
<1>1. KitchenInv => CancelStopsKitchen
  BY DEF KitchenInv, StoppedInTime, CancelStopsKitchen
<1> QED
  BY <1>1, KitchenAlways, PTL

-----------------------------------------------------------------------------
(* MenuStock: what a sync has in memory *)

Listings == Dishes \X PosCodes
SyncPCs == {"idle", "item", "save", "done"}
RowEntries == MenuIds \cup {NoItem}
SyncRecs == [pc : SyncPCs, outlet : PayloadOutlets, todo : Seq(Listings), items : Seq(Listings),
             mem : [MenuIds -> MenuItems], byPos : [PosCodes -> RowEntries], byName : [Dishes -> RowEntries]]

MenuTypes ==
  /\ menu \in [MenuIds -> MenuItems] /\ sync \in [Syncs -> SyncRecs]
  /\ reserved \in [MenuIds -> Nat] /\ overwrote \subseteq MenuIds
  /\ overlapped \in BOOLEAN /\ strayed \in BOOLEAN

NamesLeft(s) == {s.todo[i][1] : i \in DOMAIN s.todo}

TableRows == {r \in MenuIds : menu[r].here}

\* The maps lead to rows in memory, which are among the rows of the table.
MapsLead(s, rows) ==
  /\ s.todo # << >>
  /\ \A r \in MenuIds : s.mem[r].here => r \in rows
  /\ \A c \in PosCodes : s.byPos[c] # NoItem => s.mem[s.byPos[c]].here
  /\ \A n \in Dishes : s.byName[n] # NoItem => s.mem[s.byName[n]].here

\* A row whose name is still to be listed is found by it, if not the only one.
NameFinds(s, r) == s.mem[r].here /\ NameOf(r) \in NamesLeft(s) => s.byName[NameOf(r)] # NoItem

SyncKnows(s, rows) == MapsLead(s, rows) /\ \A r \in MenuIds : NameFinds(s, r)

MenuInv ==
  /\ MenuTypes
  /\ \A y \in Syncs : Syncing(y) => SyncKnows(sync[y], TableRows)
  /\ \A r \in MenuIds : ~menu[r].here => reserved[r] = 0
  /\ StockOutlivesSync

LEMMA MenuIdFacts == /\ NoItem \notin MenuIds
                     /\ \A r \in MenuIds : NameOf(r) \in Dishes
                     /\ \A n \in Dishes, c \in PosCodes : <<n, c>> \in MenuIds /\ NameOf(<<n, c>>) = n
  BY DEF NoItem, MenuIds, NameOf

LEMMA MenusAreListings == MenusSent \subseteq Seq(Listings) \ {<< >>}
<1>1. MenusSent \subseteq BoundedSeq(Listings, 2) \ {<< >>}
  BY DEF MenusSent, Listings
<1>2. ASSUME NEW m \in 0..2, NEW p \in [1..m -> Listings] PROVE p \in Seq(Listings)
  <2>1. m \in Nat
    BY SMT
  <2> QED
    BY <2>1, SeqDef
<1>3. BoundedSeq(Listings, 2) \subseteq Seq(Listings)
  BY <1>2 DEF BoundedSeq, SeqOf
<1> QED
  BY <1>1, <1>3

LEMMA RowsOk == Absent \in MenuItems /\ Seeded \in MenuItems /\ ~Absent.here /\ Seeded.here /\ Seeded.qty = FullStock
<1>1. Absent \in MenuItems
  BY DEF Absent, MenuItems
<1> QED
  BY <1>1, MenuBounds DEF Seeded, Absent, MenuItems

LEMMA NoSyncOk == /\ NoSync \in SyncRecs /\ NoSync.pc = "idle"
                  /\ [NoSync EXCEPT !.pc = "done"] \in SyncRecs /\ [NoSync EXCEPT !.pc = "done"].pc = "done"
<1>1. [r \in MenuIds |-> Absent] \in [MenuIds -> MenuItems]
  BY RowsOk
<1>2. [c \in PosCodes |-> NoItem] \in [PosCodes -> RowEntries] /\ [n \in Dishes |-> NoItem] \in [Dishes -> RowEntries]
  BY DEF RowEntries
<1>3. << >> \in Seq(Listings)
  OBVIOUS
<1>4. NoSync \in SyncRecs
  BY <1>1, <1>2, <1>3 DEF NoSync, SyncRecs, SyncPCs, PayloadOutlets
<1> QED
  BY <1>4 DEF NoSync, SyncRecs, SyncPCs

LEMMA MenuStart == MenuInit => MenuInv
<1> SUFFICES ASSUME MenuInit PROVE MenuInv
  OBVIOUS
<1>1. MenuTypes
  BY RowsOk, NoSyncOk DEF MenuInit, MenuTypes
<1>2. \A y \in Syncs : ~Syncing(y)
  BY NoSyncOk DEF MenuInit, Syncing
<1>3. \A r \in MenuIds : (menu[r] = Seeded \/ menu[r] = Absent) /\ reserved[r] = 0
  BY DEF MenuInit
<1>4. StockOutlivesSync
  BY <1>3, RowsOk, MenuBounds DEF StockOutlivesSync
<1> QED
  BY <1>1, <1>2, <1>3, <1>4 DEF MenuInv

(* Leaving out what no item left leads to loses no row that one leads to. *)
LEMMA LeanKnows ==
  ASSUME NEW s \in SyncRecs, NEW rows, MapsLead(s, rows),
         \A r \in Range(s.byPos) \cup Range(s.byName) : r # NoItem => NameFinds(s, r)
  PROVE  Lean(s) \in SyncRecs /\ SyncKnows(Lean(s), rows) /\ Lean(s).pc = s.pc /\ Lean(s).todo = s.todo
<1> DEFINE codes == {s.todo[i][2] : i \in DOMAIN s.todo}
           names == NamesLeft(s)
           byPos == [c \in PosCodes |-> IF c \in codes THEN s.byPos[c] ELSE NoItem]
           byName == [n \in Dishes |-> IF n \in names THEN s.byName[n] ELSE NoItem]
           mem == [r \in MenuIds |-> IF r \in Range(byPos) \cup Range(byName) THEN s.mem[r] ELSE Absent]
           t == [s EXCEPT !.byPos = byPos, !.byName = byName, !.mem = mem]
<1>1. /\ s.byPos \in [PosCodes -> RowEntries] /\ s.byName \in [Dishes -> RowEntries] /\ s.mem \in [MenuIds -> MenuItems]
  BY DEF SyncRecs
<1>2. Lean(s) = t
  BY <1>1 DEF Lean, NamesLeft
<1>3. /\ byPos \in [PosCodes -> RowEntries] /\ byName \in [Dishes -> RowEntries]
      /\ \A c \in PosCodes : byPos[c] = s.byPos[c] \/ byPos[c] = NoItem
      /\ \A n \in Dishes : byName[n] = s.byName[n] \/ byName[n] = NoItem
      /\ \A n \in Dishes : n \in names => byName[n] = s.byName[n]
  BY <1>1 DEF RowEntries
<1>4. \A r \in Range(byPos) \cup Range(byName) : r = NoItem \/ r \in Range(s.byPos) \cup Range(s.byName)
  <2> HIDE DEF byPos, byName
  <2> QED
    BY <1>1, <1>3 DEF Range
<1>5. \A c \in PosCodes : byPos[c] \in Range(byPos)
  <2> HIDE DEF byPos
  <2> QED
    BY <1>3 DEF Range
<1>6. \A n \in Dishes : byName[n] \in Range(byName)
  <2> HIDE DEF byName
  <2> QED
    BY <1>3 DEF Range
<1> HIDE DEF byPos, byName, names
<1>7. mem \in [MenuIds -> MenuItems]
      /\ \A r \in MenuIds : mem[r] = IF r \in Range(byPos) \cup Range(byName) THEN s.mem[r] ELSE Absent
  BY <1>1, RowsOk
<1> HIDE DEF mem
<1>8. t \in SyncRecs /\ t.pc = s.pc /\ t.todo = s.todo /\ t.byPos = byPos /\ t.byName = byName /\ t.mem = mem
  BY <1>3, <1>7 DEF SyncRecs
<1> HIDE DEF t
<1>9. MapsLead(t, rows)
  <2>1. \A r \in MenuIds : t.mem[r].here => r \in rows
    BY <1>7, <1>8, RowsOk DEF MapsLead
  <2>2. ASSUME NEW c \in PosCodes, t.byPos[c] # NoItem PROVE t.mem[t.byPos[c]].here
    <3>1. byPos[c] \in MenuIds /\ s.mem[byPos[c]].here
      BY <1>3, <1>8, <2>2 DEF RowEntries, MapsLead
    <3> QED
      BY <1>5, <1>7, <1>8, <3>1
  <2>3. ASSUME NEW n \in Dishes, t.byName[n] # NoItem PROVE t.mem[t.byName[n]].here
    <3>1. byName[n] \in MenuIds /\ s.mem[byName[n]].here
      BY <1>3, <1>8, <2>3 DEF RowEntries, MapsLead
    <3> QED
      BY <1>6, <1>7, <1>8, <3>1
  <2> QED
    BY <1>8, <2>1, <2>2, <2>3 DEF MapsLead
<1>10. ASSUME NEW r \in MenuIds PROVE NameFinds(t, r)
  <2> SUFFICES ASSUME t.mem[r].here, NameOf(r) \in NamesLeft(t) PROVE t.byName[NameOf(r)] # NoItem
    BY DEF NameFinds
  <2>1. r \in Range(byPos) \cup Range(byName) /\ s.mem[r].here
    BY <1>7, <1>8, RowsOk
  <2>2. NameFinds(s, r)
    BY <1>4, <2>1, MenuIdFacts
  <2>3. NamesLeft(t) = NamesLeft(s)
    BY <1>8 DEF NamesLeft
  <2> QED
    BY <1>3, <1>8, <2>1, <2>2, <2>3, MenuIdFacts DEF NameFinds, names
<1> QED
  BY <1>2, <1>8, <1>9, <1>10 DEF SyncKnows

(* Rows never leave the table: what a sync knew it knows. *)
LEMMA KnowsStill ==
  ASSUME NEW s, NEW rows, NEW more, SyncKnows(s, rows), rows \subseteq more
  PROVE  SyncKnows(s, more)
  BY DEF SyncKnows, MapsLead, NameFinds

LEMMA SyncReadKeeps ==
  ASSUME MenuInv, NEW y \in Syncs, NEW o \in PayloadOutlets, SyncRead(y, o)
  PROVE  MenuInv'
<1>1. PICK byPos \in Maps(PosCodes, LAMBDA c : AnyOf(Holding(InScope(o), c))),
           byName \in Maps(Dishes, LAMBDA n : AnyOf(Called(InScope(o), n))), p \in MenusSent :
       sync' = [sync EXCEPT ![y] = Lean([pc |-> "item", outlet |-> o, todo |-> p, items |-> p,
                                         byPos |-> byPos, byName |-> byName, mem |-> menu])]
  BY DEF SyncRead
<1>2. UNCHANGED <<menu, reserved, overwrote, strayed>>
      /\ overlapped' \in BOOLEAN
  BY DEF SyncRead, MenuInv, MenuTypes
<1>3. /\ \A c \in PosCodes : byPos[c] \in AnyOf(Holding(InScope(o), c))
      /\ \A n \in Dishes : byName[n] \in AnyOf(Called(InScope(o), n))
      /\ DOMAIN byPos = PosCodes /\ DOMAIN byName = Dishes
      /\ byPos = [c \in PosCodes |-> byPos[c]] /\ byName = [n \in Dishes |-> byName[n]]
  BY DEF Maps
<1>4. /\ \A c \in PosCodes : byPos[c] \in InScope(o) \cup {NoItem}
      /\ \A n \in Dishes : byName[n] \in InScope(o) \cup {NoItem}
      /\ InScope(o) \subseteq MenuIds /\ \A r \in InScope(o) : menu[r].here
  BY <1>3 DEF AnyOf, Holding, Called, InScope
<1>5. \A r \in InScope(o) : byName[NameOf(r)] # NoItem
  <2> SUFFICES ASSUME NEW r \in InScope(o) PROVE byName[NameOf(r)] # NoItem
    OBVIOUS
  <2>1. NameOf(r) \in Dishes /\ r \in Called(InScope(o), NameOf(r))
    BY <1>4, MenuIdFacts DEF Called
  <2>2. byName[NameOf(r)] \in Called(InScope(o), NameOf(r))
    BY <1>3, <2>1 DEF AnyOf
  <2> QED
    BY <1>4, <2>2, MenuIdFacts DEF Called
<1>6. byPos \in [PosCodes -> RowEntries] /\ byName \in [Dishes -> RowEntries]
  BY <1>3, <1>4 DEF RowEntries
<1> DEFINE s == [pc |-> "item", outlet |-> o, todo |-> p, items |-> p, byPos |-> byPos, byName |-> byName, mem |-> menu]
<1>7. p \in Seq(Listings) /\ p # << >> /\ menu \in [MenuIds -> MenuItems] /\ sync \in [Syncs -> SyncRecs]
  BY MenusAreListings DEF MenuInv, MenuTypes
<1>8. s \in SyncRecs
  BY <1>6, <1>7 DEF SyncRecs, SyncPCs
<1>9. s.todo = p /\ s.byPos = byPos /\ s.byName = byName /\ s.mem = menu /\ s.pc = "item"
  OBVIOUS
<1>10. MapsLead(s, TableRows)
  BY <1>4, <1>7 DEF MapsLead, TableRows
<1>11. \A r \in Range(s.byPos) \cup Range(s.byName) : r # NoItem => NameFinds(s, r)
  BY <1>3, <1>4, <1>5 DEF Range, NameFinds
<1>12. PICK t \in SyncRecs : t = Lean(s) /\ SyncKnows(t, TableRows) /\ t.pc = "item"
  <2> HIDE DEF s
  <2> QED
    BY <1>8, <1>9, <1>10, <1>11, LeanKnows
<1>13. sync' = [sync EXCEPT ![y] = t]
  BY <1>1, <1>12
<1>14. MenuTypes'
  BY <1>2, <1>7, <1>13 DEF MenuInv, MenuTypes
<1>15. TableRows' = TableRows
  BY <1>2 DEF TableRows
<1>17. ASSUME NEW z \in Syncs, Syncing(z)' PROVE SyncKnows(sync'[z], TableRows')
  <2>1. CASE z = y
    BY <1>7, <1>12, <1>13, <1>15, <2>1
  <2>2. CASE z # y
    <3>1. sync'[z] = sync[z]
      BY <1>7, <1>13, <2>2
    <3> QED
      BY <1>15, <1>17, <3>1 DEF MenuInv, Syncing
  <2> QED
    BY <2>1, <2>2
<1>16. StockOutlivesSync'
  BY <1>2 DEF MenuInv, StockOutlivesSync
<1> QED
  BY <1>2, <1>14, <1>16, <1>17 DEF MenuInv, SyncKnows, MapsLead, NameFinds

(* A sync saves a row: one it has in memory with the stock it read, or a new one, full. *)
LEMMA ItemSaved ==
  ASSUME MenuInv, NEW y \in Syncs, Syncing(y), NEW r \in MenuIds, NEW row \in MenuItems, SaveItem(y, r, row), row.here,
         \/ sync[y].mem[r].here /\ row.qty = sync[y].mem[r].qty
         \/ ~sync[y].mem[r].here /\ row.qty = FullStock,
         NEW k \in SyncRecs, sync' = [sync EXCEPT ![y] = k],
         k.pc \in {"item", "save"} => SyncKnows(k, TableRows \cup {r}),
         overlapped' \in BOOLEAN, strayed' \in BOOLEAN, UNCHANGED reserved
  PROVE  MenuInv'
<1>1. MenuTypes
  BY DEF MenuInv
<1>2. menu' = [menu EXCEPT ![r] = row] /\ overwrote' = IF Unseen(y, r) THEN overwrote \cup {r} ELSE overwrote
  BY DEF SaveItem
<1>3. menu'[r] = row /\ \A q \in MenuIds \ {r} : menu'[q] = menu[q]
  BY <1>1, <1>2 DEF MenuTypes
<1>4. TableRows' = TableRows \cup {r}
  BY <1>3 DEF TableRows
<1>5. MenuTypes'
  BY <1>1, <1>2 DEF MenuTypes
<1>6. sync'[y] = k /\ \A z \in Syncs \ {y} : sync'[z] = sync[z]
  BY <1>1 DEF MenuTypes
<1>7. ASSUME NEW z \in Syncs, Syncing(z)' PROVE SyncKnows(sync'[z], TableRows')
  <2>1. CASE z = y
    BY <1>4, <1>6, <1>7, <2>1 DEF Syncing
  <2>2. CASE z # y
    <3>1. sync'[z] = sync[z] /\ SyncKnows(sync[z], TableRows)
      BY <1>6, <1>7, <2>2 DEF MenuInv, Syncing
    <3>2. TableRows \subseteq TableRows \cup {r}
      OBVIOUS
    <3> QED
      BY <1>4, <3>1, <3>2, KnowsStill
  <2> QED
    BY <2>1, <2>2
<1>8. \A q \in MenuIds : ~menu'[q].here => reserved'[q] = 0
  BY <1>3 DEF MenuInv
<1>9. ASSUME NEW q \in MenuIds \ overwrote', menu'[q].here PROVE menu'[q].qty + reserved'[q] = FullStock
  <2>1. CASE q # r
    BY <1>2, <1>3, <1>9, <2>1 DEF MenuInv, StockOutlivesSync
  <2>2. CASE q = r
    <3>1. ~Unseen(y, r) /\ r \notin overwrote
      BY <1>2, <1>9, <2>2
    <3>2. CASE menu[r].here
      BY <1>3, <2>2, <3>1, <3>2 DEF Unseen, MenuInv, StockOutlivesSync
    <3>3. CASE ~menu[r].here
      <4>1. reserved[r] = 0
        BY <3>3 DEF MenuInv
      <4>2. ~sync[y].mem[r].here
        BY <3>3 DEF MenuInv, SyncKnows, MapsLead, TableRows
      <4> QED
        BY <1>3, <2>2, <4>1, <4>2, MenuBounds
    <3> QED
      BY <3>2, <3>3
  <2> QED
    BY <2>1, <2>2
<1> QED
  BY <1>5, <1>7, <1>8, <1>9 DEF MenuInv, StockOutlivesSync, SyncKnows, MapsLead, NameFinds

LEMMA SyncClearKeeps ==
  ASSUME MenuInv, NEW y \in Syncs, SyncClear(y)
  PROVE  MenuInv'
<1> DEFINE s == sync[y]
           r == ByPos(y)
           row == [s.mem[r] EXCEPT !.pos = NoPos, !.inStock = FALSE]
           k == [s EXCEPT !.pc = "save", !.mem[r] = row, !.byPos[Code(y)] = NoItem]
<1>1. /\ SaveItem(y, r, row) /\ sync' = [sync EXCEPT ![y] = k]
      /\ UNCHANGED <<reserved, overlapped>> /\ strayed' \in BOOLEAN
      /\ s.pc = "item" /\ r # NoItem
  BY DEF SyncClear, Conflict, MenuInv, MenuTypes
<1>2. s \in SyncRecs /\ Syncing(y) /\ SyncKnows(s, TableRows)
  BY <1>1 DEF MenuInv, MenuTypes, Syncing
<1>3. Code(y) \in PosCodes
  <2>1. s.todo \in Seq(Listings) /\ s.todo # << >>
    BY <1>2 DEF SyncRecs, SyncKnows, MapsLead
  <2>2. Head(s.todo) \in Listings
    BY <2>1
  <2> QED
    BY <2>2 DEF Code, Listings
<1>4. r \in MenuIds /\ s.mem[r].here /\ s.mem[r] \in MenuItems
  <2>1. s.byPos[Code(y)] \in RowEntries
    BY <1>2, <1>3 DEF SyncRecs
  <2> QED
    BY <1>1, <1>2, <1>3, <2>1 DEF ByPos, RowEntries, SyncKnows, MapsLead, SyncRecs
<1> HIDE DEF s, r
<1>5. row \in MenuItems /\ row.here /\ row.qty = s.mem[r].qty
  BY <1>4 DEF MenuItems
<1> HIDE DEF row
<1>6. /\ k \in SyncRecs /\ k.todo = s.todo /\ k.byName = s.byName
      /\ \A c \in PosCodes : k.byPos[c] = IF c = Code(y) THEN NoItem ELSE s.byPos[c]
      /\ \A q \in MenuIds : k.mem[q] = IF q = r THEN row ELSE s.mem[q]
  BY <1>2, <1>3, <1>4, <1>5 DEF SyncRecs, SyncPCs, RowEntries
<1> HIDE DEF k
<1>7. MapsLead(k, TableRows \cup {r})
  <2>1. \A q \in MenuIds : k.mem[q].here <=> s.mem[q].here
    BY <1>4, <1>5, <1>6
  <2>2. \A c \in PosCodes : k.byPos[c] # NoItem => k.byPos[c] \in MenuIds /\ k.mem[k.byPos[c]].here
    BY <1>2, <1>6, <2>1 DEF SyncRecs, RowEntries, SyncKnows, MapsLead
  <2>3. \A n \in Dishes : k.byName[n] # NoItem => k.byName[n] \in MenuIds /\ k.mem[k.byName[n]].here
    BY <1>2, <1>6, <2>1 DEF SyncRecs, RowEntries, SyncKnows, MapsLead
  <2> QED
    BY <1>2, <1>6, <2>1, <2>2, <2>3 DEF SyncKnows, MapsLead
<1>8. \A q \in MenuIds : NameFinds(k, q)
  BY <1>2, <1>4, <1>5, <1>6 DEF SyncKnows, NameFinds, NamesLeft
<1>9. SyncKnows(k, TableRows \cup {r})
  BY <1>7, <1>8 DEF SyncKnows
<1>10. overlapped' \in BOOLEAN
  BY <1>1 DEF MenuInv, MenuTypes
<1>11. sync[y].mem[r].here /\ row.qty = sync[y].mem[r].qty
  BY <1>4, <1>5 DEF s
<1> QED
  BY <1>1, <1>2, <1>4, <1>5, <1>6, <1>9, <1>10, <1>11, ItemSaved

(* The row that an item is saved in: one in memory, or a new one that is not. *)
LEMMA TargetRow ==
  ASSUME MenuInv, NEW y \in Syncs, Syncing(y), NEW r,
         r = IF Target(y) = NoItem THEN <<Dish(y), Code(y)>> ELSE Target(y)
  PROVE  /\ r \in MenuIds /\ Code(y) \in PosCodes /\ Listed(y) \in MenuItems /\ Listed(y).here
         /\ \/ sync[y].mem[r].here /\ Listed(y).qty = sync[y].mem[r].qty
            \/ ~sync[y].mem[r].here /\ Listed(y).qty = FullStock
<1> DEFINE s == sync[y]
<1>1. s \in SyncRecs /\ SyncKnows(s, TableRows)
  BY DEF MenuInv, MenuTypes
<1>2. s.todo \in Seq(Listings) /\ s.todo # << >> /\ s.byPos \in [PosCodes -> RowEntries]
      /\ s.byName \in [Dishes -> RowEntries] /\ s.mem \in [MenuIds -> MenuItems] /\ s.outlet \in PayloadOutlets
  BY <1>1 DEF SyncRecs, SyncKnows, MapsLead
<1>3. Head(s.todo) \in Listings /\ Head(s.todo) = s.todo[1] /\ 1 \in DOMAIN s.todo
  BY <1>2
<1>4. Dish(y) \in Dishes /\ Code(y) \in PosCodes /\ Dish(y) \in NamesLeft(s)
  BY <1>3 DEF Dish, Code, Listings, NamesLeft
<1>5. ASSUME NEW row \in MenuItems
      PROVE  Relisted(y, row) \in MenuItems /\ Relisted(y, row).here = row.here /\ Relisted(y, row).qty = row.qty
  <2>1. (IF s.outlet = NoOutlet THEN row.outlet ELSE s.outlet) \in MenuOutlets \cup {NoOutlet}
    BY <1>2 DEF MenuItems, PayloadOutlets
  <2> QED
    BY <1>4, <2>1 DEF Relisted, MenuItems
<1>6. CASE Target(y) = NoItem
  <2>1. s.byName[Dish(y)] = NoItem
    BY <1>6 DEF Target, ByName
  <2>2. r = <<Dish(y), Code(y)>> /\ r \in MenuIds /\ NameOf(r) = Dish(y)
    BY <1>4, <1>6, MenuIdFacts
  <2>3. ~s.mem[r].here
    BY <1>1, <1>4, <2>1, <2>2 DEF SyncKnows, NameFinds
  <2> DEFINE row == [Seeded EXCEPT !.outlet = s.outlet]
  <2>4. row \in MenuItems /\ row.here /\ row.qty = FullStock
    BY <1>2, RowsOk DEF MenuItems, PayloadOutlets
  <2>5. Listed(y) = Relisted(y, row)
    BY <1>6 DEF Listed
  <2> QED
    BY <1>4, <1>5, <2>2, <2>3, <2>4, <2>5
<1>7. CASE Target(y) # NoItem
  <2>1. r = Target(y) /\ r \in MenuIds /\ s.mem[r].here
    BY <1>1, <1>2, <1>4, <1>7 DEF Target, ByName, ByPos, RowEntries, SyncKnows, MapsLead
  <2>2. Listed(y) = Relisted(y, s.mem[r]) /\ s.mem[r] \in MenuItems
    BY <1>2, <1>7, <2>1 DEF Listed
  <2> QED
    BY <1>4, <1>5, <2>1, <2>2
<1> QED
  BY <1>6, <1>7

LEMMA RestOf ==
  ASSUME NEW todo \in Seq(Listings), todo # << >>, Len(todo) # 1
  PROVE  /\ Tail(todo) \in Seq(Listings) /\ Tail(todo) # << >>
         /\ \A i \in DOMAIN Tail(todo) : i + 1 \in DOMAIN todo /\ Tail(todo)[i] = todo[i + 1]
<1>0. Len(todo) \in Nat \ {0}
  BY EmptySeq
<1>1. Len(todo) \in Nat /\ Len(todo) > 1
  <2>1. \A n \in Nat \ {0} : n # 1 => n \in Nat /\ n > 1
    OBVIOUS
  <2> QED
    BY <1>0, <2>1, Zenon
<1>2. Tail(todo) \in Seq(Listings) /\ Len(Tail(todo)) = Len(todo) - 1
      /\ \A i \in 1..Len(Tail(todo)) : Tail(todo)[i] = todo[i + 1]
  BY HeadTailProperties
<1>3. DOMAIN todo = 1..Len(todo) /\ DOMAIN Tail(todo) = 1..Len(Tail(todo)) /\ Tail(todo) # << >>
  BY <1>1, <1>2
<1> QED
  BY <1>1, <1>2, <1>3

LEMMA SyncSaveKeeps ==
  ASSUME MenuInv, NEW y \in Syncs, SyncSave(y)
  PROVE  MenuInv'
<1> DEFINE s == sync[y]
           r == IF Target(y) = NoItem THEN <<Dish(y), Code(y)>> ELSE Target(y)
           row == Listed(y)
           k == [s EXCEPT !.pc = "item", !.todo = Tail(@), !.mem[r] = row, !.byPos[Code(y)] = r, !.byName[NameOf(r)] = r]
           done == [NoSync EXCEPT !.pc = "done"]
<1>1. /\ Syncing(y) /\ SaveItem(y, r, row)
      /\ sync' = [sync EXCEPT ![y] = IF Len(s.todo) = 1 THEN done ELSE Lean(k)]
      /\ UNCHANGED <<reserved, overlapped>> /\ strayed' \in BOOLEAN
  <2>1. sync \in [Syncs -> SyncRecs] /\ strayed \in BOOLEAN
    BY DEF MenuInv, MenuTypes
  <2>2. strayed' \in BOOLEAN
    BY <2>1 DEF SyncSave
  <2>3. sync' = [sync EXCEPT ![y] = IF Len(s.todo) = 1 THEN done ELSE Lean(k)]
    BY DEF SyncSave, Remember
  <2>4. Syncing(y) /\ SaveItem(y, r, row) /\ UNCHANGED <<reserved, overlapped>>
    BY DEF SyncSave
  <2> QED
    BY <2>2, <2>3, <2>4
<1>2. s \in SyncRecs /\ SyncKnows(s, TableRows)
  BY <1>1 DEF MenuInv, MenuTypes
<1>3. /\ r \in MenuIds /\ Code(y) \in PosCodes /\ row \in MenuItems /\ row.here
      /\ \/ sync[y].mem[r].here /\ row.qty = sync[y].mem[r].qty
         \/ ~sync[y].mem[r].here /\ row.qty = FullStock
  BY <1>1, TargetRow
<1> HIDE DEF r, row
<1>4. overlapped' \in BOOLEAN
  BY <1>1 DEF MenuInv, MenuTypes
<1>5. CASE Len(s.todo) = 1
  <2>1. done \in SyncRecs /\ done.pc \notin {"item", "save"} /\ sync' = [sync EXCEPT ![y] = done]
    BY <1>1, <1>5, NoSyncOk
  <2> HIDE DEF done
  <2> QED
    BY <1>1, <1>3, <1>4, <2>1, ItemSaved
<1>6. CASE Len(s.todo) # 1
  <2>1. s.todo \in Seq(Listings) /\ s.todo # << >>
    BY <1>2 DEF SyncRecs, SyncKnows, MapsLead
  <2>2. Tail(s.todo) \in Seq(Listings) /\ Tail(s.todo) # << >>
        /\ \A i \in DOMAIN Tail(s.todo) : i + 1 \in DOMAIN s.todo /\ Tail(s.todo)[i] = s.todo[i + 1]
    BY <1>6, <2>1, RestOf
  <2>3. NameOf(r) \in Dishes /\ r \in RowEntries /\ r # NoItem
    BY <1>3, MenuIdFacts DEF RowEntries
  <2>4. /\ k \in SyncRecs /\ k.todo = Tail(s.todo) /\ k.pc = "item"
        /\ \A n \in Dishes : k.byName[n] = IF n = NameOf(r) THEN r ELSE s.byName[n]
        /\ \A c \in PosCodes : k.byPos[c] = IF c = Code(y) THEN r ELSE s.byPos[c]
        /\ \A q \in MenuIds : k.mem[q] = IF q = r THEN row ELSE s.mem[q]
    BY <1>2, <1>3, <2>2, <2>3 DEF SyncRecs, SyncPCs
  <2> HIDE DEF k
  <2>5. NamesLeft(k) \subseteq NamesLeft(s)
    BY <2>2, <2>4 DEF NamesLeft
  <2>6. MapsLead(k, TableRows \cup {r})
    <3>1. \A q \in MenuIds : s.mem[q].here => k.mem[q].here
      BY <1>3, <2>4
    <3>2. \A c \in PosCodes : k.byPos[c] # NoItem => k.byPos[c] \in MenuIds /\ k.mem[k.byPos[c]].here
      BY <1>2, <1>3, <2>4, <3>1 DEF SyncRecs, RowEntries, SyncKnows, MapsLead
    <3>3. \A n \in Dishes : k.byName[n] # NoItem => k.byName[n] \in MenuIds /\ k.mem[k.byName[n]].here
      BY <1>2, <1>3, <2>4, <3>1 DEF SyncRecs, RowEntries, SyncKnows, MapsLead
    <3>4. \A q \in MenuIds : k.mem[q].here => q \in TableRows \cup {r}
      BY <1>2, <2>4 DEF SyncKnows, MapsLead
    <3> QED
      BY <2>2, <2>4, <3>2, <3>3, <3>4 DEF MapsLead
  <2>7. ASSUME NEW q \in MenuIds PROVE NameFinds(k, q)
    <3>1. CASE NameOf(q) = NameOf(r)
      BY <2>3, <2>4, <3>1 DEF NameFinds
    <3>2. CASE NameOf(q) # NameOf(r)
      <4>1. NameFinds(s, q) /\ k.mem[q] = s.mem[q] /\ k.byName[NameOf(q)] = s.byName[NameOf(q)]
        BY <1>2, <2>4, <3>2, MenuIdFacts DEF SyncKnows
      <4> QED
        BY <2>5, <4>1 DEF NameFinds
    <3> QED
      BY <3>1, <3>2
  <2>8. \A q \in Range(k.byPos) \cup Range(k.byName) : q # NoItem => q \in MenuIds
    BY <2>4 DEF SyncRecs, RowEntries, Range
  <2>9. Lean(k) \in SyncRecs /\ SyncKnows(Lean(k), TableRows \cup {r})
    BY <2>4, <2>6, <2>7, <2>8, LeanKnows
  <2>10. sync' = [sync EXCEPT ![y] = Lean(k)]
    BY <1>1, <1>6
  <2> QED
    BY <1>1, <1>3, <1>4, <2>9, <2>10, ItemSaved
<1> QED
  BY <1>5, <1>6

LEMMA SyncDiesKeeps ==
  ASSUME MenuInv, NEW y \in Syncs, SyncDies(y)
  PROVE  MenuInv'
<1> DEFINE done == [NoSync EXCEPT !.pc = "done"]
<1>1. done \in SyncRecs /\ done.pc \notin {"item", "save"}
  BY NoSyncOk
<1>2. sync' = [sync EXCEPT ![y] = done] /\ UNCHANGED <<menu, reserved, overwrote, overlapped, strayed>>
  BY DEF SyncDies, menuHistories
<1> HIDE DEF done
<1>3. MenuTypes'
  BY <1>1, <1>2 DEF MenuInv, MenuTypes
<1>4. \A z \in Syncs : Syncing(z)' => Syncing(z) /\ sync'[z] = sync[z]
  BY <1>1, <1>2 DEF MenuInv, MenuTypes, Syncing
<1>5. TableRows' = TableRows /\ (StockOutlivesSync' <=> StockOutlivesSync)
  BY <1>2 DEF TableRows, StockOutlivesSync
<1> QED
  BY <1>2, <1>3, <1>4, <1>5 DEF MenuInv, SyncKnows, MapsLead, NameFinds

(* An item-stock call, and an order that takes or gives back a unit, change no row's *)
(* being there, and of its stock only what the order's units make up for.            *)
LEMMA RowsChange ==
  ASSUME MenuInv, MenuTypes', UNCHANGED <<sync, overwrote>>,
         \A r \in MenuIds : /\ menu'[r].here = menu[r].here
                            /\ menu'[r].qty + reserved'[r] = menu[r].qty + reserved[r]
                            /\ ~menu[r].here => reserved'[r] = reserved[r]
  PROVE  MenuInv'
<1>1. TableRows' = TableRows
  BY DEF TableRows
<1>2. \A y \in Syncs : Syncing(y)' => Syncing(y) /\ sync'[y] = sync[y]
  BY DEF Syncing
<1>3. \A y \in Syncs : Syncing(y)' => SyncKnows(sync'[y], TableRows')
  BY <1>1, <1>2 DEF MenuInv
<1>4. StockOutlivesSync'
  BY DEF MenuInv, StockOutlivesSync
<1> QED
  BY <1>3, <1>4 DEF MenuInv, SyncKnows, MapsLead, NameFinds

LEMMA ItemStockKeeps ==
  ASSUME MenuInv, NEW c \in PosCodes, NEW on \in BOOLEAN, ItemStock(c, on)
  PROVE  MenuInv'
<1>1. MenuTypes
  BY DEF MenuInv
<1>2. menu' = [r \in MenuIds |-> IF menu[r].here /\ menu[r].pos = c THEN [menu[r] EXCEPT !.inStock = on] ELSE menu[r]]
      /\ UNCHANGED <<sync, reserved, overwrote, strayed>> /\ overlapped' \in BOOLEAN
  BY <1>1 DEF ItemStock, Restocked, MenuTypes
<1>3. \A r \in MenuIds : menu'[r] \in MenuItems /\ menu'[r].here = menu[r].here /\ menu'[r].qty = menu[r].qty
  BY <1>1, <1>2 DEF MenuTypes, MenuItems
<1>4. menu' \in [MenuIds -> MenuItems]
  BY <1>2, <1>3
<1>5. MenuTypes'
  BY <1>1, <1>2, <1>4 DEF MenuTypes
<1> QED
  BY <1>2, <1>3, <1>5, RowsChange

LEMMA UnitKeeps ==
  ASSUME MenuInv, NEW r \in MenuIds, ReserveUnit(r) \/ RestoreUnit(r)
  PROVE  MenuInv'
<1>1. MenuTypes /\ menu[r].here /\ menu[r] \in MenuItems /\ menu[r].qty \in Nat /\ reserved[r] \in Nat
  BY DEF MenuInv, MenuTypes, ReserveUnit, RestoreUnit, MenuItems
<1>2. PICK n, m \in Nat : /\ menu' = [menu EXCEPT ![r].qty = n] /\ reserved' = [reserved EXCEPT ![r] = m]
                          /\ n + m = menu[r].qty + reserved[r]
  <2>1. CASE ReserveUnit(r)
    <3>1. menu[r].qty - 1 \in Nat /\ reserved[r] + 1 \in Nat
          /\ menu[r].qty - 1 + (reserved[r] + 1) = menu[r].qty + reserved[r]
      BY <1>1, <2>1 DEF ReserveUnit
    <3>2. menu' = [menu EXCEPT ![r].qty = menu[r].qty - 1] /\ reserved' = [reserved EXCEPT ![r] = reserved[r] + 1]
      BY <2>1 DEF ReserveUnit
    <3> QED
      BY <3>1, <3>2
  <2>2. CASE RestoreUnit(r)
    <3>1. menu[r].qty + 1 \in Nat /\ reserved[r] - 1 \in Nat
          /\ menu[r].qty + 1 + (reserved[r] - 1) = menu[r].qty + reserved[r]
      BY <1>1, <2>2 DEF RestoreUnit
    <3>2. menu' = [menu EXCEPT ![r].qty = menu[r].qty + 1] /\ reserved' = [reserved EXCEPT ![r] = reserved[r] - 1]
      BY <2>2 DEF RestoreUnit
    <3> QED
      BY <3>1, <3>2
  <2> QED
    BY <2>1, <2>2
<1>3. UNCHANGED <<sync, overwrote, overlapped, strayed>>
  BY DEF ReserveUnit, RestoreUnit, menuHistories
<1>4. [menu[r] EXCEPT !.qty = n] \in MenuItems
  BY <1>1, <1>2 DEF MenuItems
<1>5. MenuTypes'
  BY <1>1, <1>2, <1>3, <1>4 DEF MenuTypes
<1>6. ASSUME NEW q \in MenuIds
      PROVE  /\ menu'[q].here = menu[q].here
             /\ menu'[q].qty + reserved'[q] = menu[q].qty + reserved[q]
             /\ ~menu[q].here => reserved'[q] = reserved[q]
  BY <1>1, <1>2 DEF MenuTypes, MenuItems
<1> QED
  BY <1>3, <1>5, <1>6, RowsChange

LEMMA MenuSteps == MenuInv /\ [MenuNext]_menuVars => MenuInv'
<1> SUFFICES ASSUME MenuInv, [MenuNext]_menuVars PROVE MenuInv'
  OBVIOUS
<1>1. ASSUME NEW y \in Syncs, NEW o \in PayloadOutlets, SyncRead(y, o) PROVE MenuInv'
  BY <1>1, SyncReadKeeps
<1>2. ASSUME NEW y \in Syncs, SyncClear(y) PROVE MenuInv'
  BY <1>2, SyncClearKeeps
<1>3. ASSUME NEW y \in Syncs, SyncSave(y) PROVE MenuInv'
  BY <1>3, SyncSaveKeeps
<1>4. ASSUME NEW y \in Syncs, SyncDies(y) PROVE MenuInv'
  BY <1>4, SyncDiesKeeps
<1>5. ASSUME NEW c \in PosCodes, NEW on \in BOOLEAN, ItemStock(c, on) PROVE MenuInv'
  BY <1>5, ItemStockKeeps
<1>6. ASSUME NEW r \in MenuIds, ReserveUnit(r) \/ RestoreUnit(r) PROVE MenuInv'
  BY <1>6, UnitKeeps
<1>7. CASE UNCHANGED menuVars
  BY <1>7 DEF menuVars, menuHistories, MenuInv, MenuTypes, Syncing, SyncKnows, MapsLead, NameFinds,
              TableRows, StockOutlivesSync
<1> QED
  BY <1>1, <1>2, <1>3, <1>4, <1>5, <1>6, <1>7 DEF MenuNext

-----------------------------------------------------------------------------
(* MenuStock: what a sync that runs alone has listed *)

\* The first items of a menu, each with a row of its code on the menu, which has the name of one of them.
Done(s) == 1..Len(s.items) - Len(s.todo)
ListedFor(row, s, i) == row.here /\ row.inStock /\ row.pos = s.items[i][2]
ListedName(r, s) == \E j \in Done(s) : NameOf(r) = s.items[j][1]

Lists(s, rows) ==
  /\ Len(s.todo) \in 1..Len(s.items)
  /\ \A k \in 1..Len(s.todo) : s.todo[k] = s.items[Len(s.items) - Len(s.todo) + k]
  /\ \A n \in Dishes : s.byName[n] # NoItem => NameOf(s.byName[n]) = n
  /\ \A r \in MenuIds : s.mem[r].here => s.mem[r].pos = rows[r].pos
  /\ \A i \in Done(s) : \/ s.pc = "save" /\ s.items[i][2] = s.todo[1][2]
                        \/ \E r \in MenuIds : ListedFor(rows[r], s, i) /\ ListedName(r, s)

ListsInv ==
  ~overlapped =>
    /\ \A y, z \in Syncs : Syncing(y) /\ Syncing(z) => y = z
    /\ \A y \in Syncs : Syncing(y) /\ Distinct(sync[y].items) /\ ~strayed => Lists(sync[y], menu)

LEMMA LeanShape ==
  ASSUME NEW s \in SyncRecs
  PROVE  /\ Lean(s).todo = s.todo /\ Lean(s).items = s.items /\ Lean(s).pc = s.pc
         /\ \A n \in Dishes : Lean(s).byName[n] \in {s.byName[n], NoItem}
         /\ \A r \in MenuIds : Lean(s).mem[r] \in {s.mem[r], Absent}
<1> DEFINE codes == {s.todo[i][2] : i \in DOMAIN s.todo}
           names == {s.todo[i][1] : i \in DOMAIN s.todo}
           byPos == [c \in PosCodes |-> IF c \in codes THEN s.byPos[c] ELSE NoItem]
           byName == [n \in Dishes |-> IF n \in names THEN s.byName[n] ELSE NoItem]
           rest == Range(byPos) \cup Range(byName)
           mem == [r \in MenuIds |-> IF r \in rest THEN s.mem[r] ELSE Absent]
<1>1. Lean(s) = [s EXCEPT !.byPos = byPos, !.byName = byName, !.mem = mem]
  BY DEF Lean, SyncRecs
<1>2. \A n \in Dishes : byName[n] \in {s.byName[n], NoItem}
  OBVIOUS
<1>3. \A r \in MenuIds : mem[r] \in {s.mem[r], Absent}
  <2> HIDE DEF rest
  <2> QED
    OBVIOUS
<1> HIDE DEF byPos, byName, mem
<1> QED
  BY <1>1, <1>2, <1>3 DEF SyncRecs

LEMMA LeanLists ==
  ASSUME NEW s \in SyncRecs, NEW rows, Lists(s, rows)
  PROVE  Lists(Lean(s), rows)
<1> DEFINE t == Lean(s)
<1>1. /\ t.todo = s.todo /\ t.items = s.items /\ t.pc = s.pc
      /\ \A n \in Dishes : t.byName[n] \in {s.byName[n], NoItem}
      /\ \A r \in MenuIds : t.mem[r] \in {s.mem[r], Absent}
  BY LeanShape
<1> HIDE DEF t
<1>2. Done(t) = Done(s)
  BY <1>1 DEF Done
<1>3. \A i, row : ListedFor(row, t, i) <=> ListedFor(row, s, i)
  BY <1>1 DEF ListedFor
<1>4. \A r : ListedName(r, t) <=> ListedName(r, s)
  BY <1>1, <1>2 DEF ListedName
<1>5. \A r \in MenuIds : t.mem[r].here => t.mem[r].pos = rows[r].pos
  BY <1>1, RowsOk DEF Lists
<1>6. \A n \in Dishes : t.byName[n] # NoItem => NameOf(t.byName[n]) = n
  BY <1>1 DEF Lists
<1>7. \A i \in Done(t) : \/ t.pc = "save" /\ t.items[i][2] = t.todo[1][2]
                         \/ \E r \in MenuIds : ListedFor(rows[r], t, i) /\ ListedName(r, t)
  BY <1>1, <1>2, <1>3, <1>4 DEF Lists
<1>8. Lists(t, rows)
  BY <1>1, <1>5, <1>6, <1>7 DEF Lists
<1> QED
  BY <1>8 DEF t

(* Where no sync runs, or the one that runs stays as it is and the rows keep what *)
(* is listed of them, what was listed is.                                         *)
LEMMA ListsStill ==
  ASSUME NEW s, NEW rows, NEW more, Lists(s, rows),
         \A r \in MenuIds : rows[r].here => more[r].here /\ more[r].inStock = rows[r].inStock /\ more[r].pos = rows[r].pos,
         \A r \in MenuIds : s.mem[r].here => rows[r].here
  PROVE  Lists(s, more)
<1>1. \A i : \A r \in MenuIds : ListedFor(rows[r], s, i) => ListedFor(more[r], s, i)
  BY DEF ListedFor
<1> QED
  BY <1>1 DEF Lists

LEMMA ListsStart == MenuInit => ListsInv
<1> SUFFICES ASSUME MenuInit PROVE \A y \in Syncs : ~Syncing(y)
  BY DEF ListsInv
<1> QED
  BY NoSyncOk DEF MenuInit, Syncing

LEMMA SyncReadLists ==
  ASSUME MenuInv, ListsInv, NEW y \in Syncs, NEW o \in PayloadOutlets, SyncRead(y, o)
  PROVE  ListsInv'
<1> SUFFICES ASSUME ~overlapped'
             PROVE  /\ \A x, z \in Syncs : Syncing(x)' /\ Syncing(z)' => x = z
                    /\ \A z \in Syncs : Syncing(z)' /\ Distinct(sync'[z].items) /\ ~strayed' => Lists(sync'[z], menu')
  BY DEF ListsInv
<1>1. PICK byPos \in Maps(PosCodes, LAMBDA c : AnyOf(Holding(InScope(o), c))),
           byName \in Maps(Dishes, LAMBDA n : AnyOf(Called(InScope(o), n))), p \in MenusSent :
       sync' = [sync EXCEPT ![y] = Lean([pc |-> "item", outlet |-> o, todo |-> p, items |-> p,
                                         byPos |-> byPos, byName |-> byName, mem |-> menu])]
  BY DEF SyncRead
<1>2. menu' = menu /\ \A z \in Syncs : ~Syncing(z)
  BY DEF SyncRead
<1>3. /\ \A c \in PosCodes : byPos[c] \in AnyOf(Holding(InScope(o), c))
      /\ \A n \in Dishes : byName[n] \in AnyOf(Called(InScope(o), n))
      /\ byPos = [c \in PosCodes |-> byPos[c]] /\ byName = [n \in Dishes |-> byName[n]]
  BY DEF Maps
<1>4. byPos \in [PosCodes -> RowEntries] /\ byName \in [Dishes -> RowEntries]
  BY <1>3 DEF RowEntries, AnyOf, Holding, Called, InScope
<1>5. \A n \in Dishes : byName[n] # NoItem => NameOf(byName[n]) = n
  BY <1>3 DEF AnyOf, Called
<1>6. p \in Seq(Listings) /\ p # << >> /\ menu \in [MenuIds -> MenuItems] /\ sync \in [Syncs -> SyncRecs]
  BY MenusAreListings DEF MenuInv, MenuTypes
<1> DEFINE s == [pc |-> "item", outlet |-> o, todo |-> p, items |-> p, byPos |-> byPos, byName |-> byName, mem |-> menu]
<1>7. s \in SyncRecs
  BY <1>4, <1>6 DEF SyncRecs, SyncPCs
<1>8. s.todo = p /\ s.items = p /\ s.byName = byName /\ s.mem = menu
  OBVIOUS
<1> HIDE DEF s
<1>9. Lists(s, menu)
  <2>1. Len(p) \in Nat \ {0}
    BY <1>6, EmptySeq
  <2>2. Len(p) \in 1..Len(p) /\ \A k \in 1..Len(p) : Len(p) - Len(p) + k = k
    BY <2>1
  <2>3. Done(s) = {}
    BY <1>8, <2>1 DEF Done
  <2> QED
    BY <1>5, <1>8, <2>2, <2>3 DEF Lists
<1>10. Lists(Lean(s), menu)
  BY <1>7, <1>9, LeanLists
<1>11. sync' = [sync EXCEPT ![y] = Lean(s)]
  BY <1>1 DEF s
<1>12. \A z \in Syncs \ {y} : sync'[z] = sync[z]
  BY <1>6, <1>11
<1>13. \A z \in Syncs : Syncing(z)' => z = y
  BY <1>2, <1>12 DEF Syncing
<1>14. sync'[y] = Lean(s)
  BY <1>6, <1>11
<1> QED
  BY <1>2, <1>10, <1>13, <1>14

(* What a step of a sync makes of its own. *)
LEMMA StepLists ==
  ASSUME MenuInv, ListsInv, NEW y \in Syncs, Syncing(y), NEW k,
         sync' = [sync EXCEPT ![y] = k], overlapped' = overlapped, strayed => strayed',
         ~overlapped /\ ~strayed' /\ Distinct(k.items) /\ k.pc \in {"item", "save"} => Lists(k, menu')
  PROVE  ListsInv'
<1> SUFFICES ASSUME ~overlapped
             PROVE  /\ \A x, z \in Syncs : Syncing(x)' /\ Syncing(z)' => x = z
                    /\ \A z \in Syncs : Syncing(z)' /\ Distinct(sync'[z].items) /\ ~strayed' => Lists(sync'[z], menu')
  BY DEF ListsInv
<1>1. sync'[y] = k /\ \A z \in Syncs \ {y} : sync'[z] = sync[z]
  BY DEF MenuInv, MenuTypes
<1>2. \A z \in Syncs : Syncing(z) => z = y
  BY DEF ListsInv
<1>3. \A z \in Syncs : Syncing(z)' => z = y
  BY <1>1, <1>2 DEF Syncing
<1>4. Syncing(y)' <=> k.pc \in {"item", "save"}
  BY <1>1 DEF Syncing
<1> QED
  BY <1>1, <1>3, <1>4

LEMMA SyncClearLists ==
  ASSUME MenuInv, ListsInv, NEW y \in Syncs, SyncClear(y)
  PROVE  ListsInv'
<1> DEFINE s == sync[y]
           r == ByPos(y)
           row == [s.mem[r] EXCEPT !.pos = NoPos, !.inStock = FALSE]
           k == [s EXCEPT !.pc = "save", !.mem[r] = row, !.byPos[Code(y)] = NoItem]
<1>1. /\ SaveItem(y, r, row) /\ sync' = [sync EXCEPT ![y] = k] /\ UNCHANGED overlapped
      /\ s.pc = "item" /\ r # NoItem
  BY DEF SyncClear, Conflict
<1>2. s \in SyncRecs /\ Syncing(y) /\ SyncKnows(s, TableRows) /\ strayed \in BOOLEAN /\ menu \in [MenuIds -> MenuItems]
  BY <1>1 DEF MenuInv, MenuTypes, Syncing
<1>3. (strayed => strayed') /\ (~strayed' => s.mem[r].pos = Code(y))
  BY <1>1, <1>2 DEF SyncClear, Stray
<1>4. s.todo \in Seq(Listings) /\ s.todo # << >> /\ Code(y) = s.todo[1][2] /\ Code(y) \in PosCodes
  <2>1. s.todo \in Seq(Listings) /\ s.todo # << >>
    BY <1>2 DEF SyncRecs, SyncKnows, MapsLead
  <2>2. Head(s.todo) \in Listings /\ Head(s.todo) = s.todo[1]
    BY <2>1
  <2> QED
    BY <2>1, <2>2 DEF Code, Listings
<1>5. r \in MenuIds /\ s.mem[r].here
  <2>1. s.byPos[Code(y)] \in RowEntries
    BY <1>2, <1>4 DEF SyncRecs
  <2> QED
    BY <1>1, <1>2, <1>4, <2>1 DEF ByPos, RowEntries, SyncKnows, MapsLead
<1> HIDE DEF s, r
<1>6. row.pos = NoPos
  BY <1>2, <1>5 DEF SyncRecs, MenuItems
<1> HIDE DEF row
<1>7. /\ k.pc = "save" /\ k.todo = s.todo /\ k.items = s.items /\ k.byName = s.byName
      /\ \A q \in MenuIds : k.mem[q] = IF q = r THEN row ELSE s.mem[q]
  BY <1>2 DEF SyncRecs
<1> HIDE DEF k
<1>8. menu'[r] = row /\ \A q \in MenuIds \ {r} : menu'[q] = menu[q]
  BY <1>1, <1>2, <1>5 DEF SaveItem
<1>9. ASSUME ~overlapped, ~strayed', Distinct(k.items) PROVE Lists(k, menu')
  <2>1. Lists(s, menu) /\ s.mem[r].pos = Code(y)
    BY <1>2, <1>3, <1>7, <1>9 DEF ListsInv, s
  <2>2. menu[r].pos = Code(y)
    BY <1>5, <2>1 DEF Lists
  <2>3. Done(k) = Done(s) /\ \A q : ListedName(q, k) <=> ListedName(q, s)
    BY <1>7 DEF Done, ListedName
  <2>4. ASSUME NEW i \in Done(k)
        PROVE  \/ k.pc = "save" /\ k.items[i][2] = k.todo[1][2]
               \/ \E q \in MenuIds : ListedFor(menu'[q], k, i) /\ ListedName(q, k)
    <3>1. PICK q \in MenuIds : ListedFor(menu[q], s, i) /\ ListedName(q, s)
      BY <1>1, <2>1, <2>3 DEF Lists
    <3>2. CASE q = r
      BY <1>4, <1>7, <2>2, <3>1, <3>2 DEF ListedFor
    <3>3. CASE q # r
      BY <1>7, <1>8, <2>3, <3>1, <3>3 DEF ListedFor
    <3> QED
      BY <3>2, <3>3
  <2>5. \A q \in MenuIds : k.mem[q].here => k.mem[q].pos = menu'[q].pos
    BY <1>7, <1>8, <2>1 DEF Lists
  <2>6. /\ Len(k.todo) \in 1..Len(k.items)
        /\ \A j \in 1..Len(k.todo) : k.todo[j] = k.items[Len(k.items) - Len(k.todo) + j]
        /\ \A n \in Dishes : k.byName[n] # NoItem => NameOf(k.byName[n]) = n
    BY <1>7, <2>1 DEF Lists
  <2> QED
    BY <2>4, <2>5, <2>6 DEF Lists
<1> QED
  BY <1>1, <1>2, <1>3, <1>9, StepLists

(* A save lists the item that is to be done, and takes no row of one that is done. *)
LEMMA SaveLists ==
  ASSUME MenuInv, ListsInv, NEW y \in Syncs, SyncSave(y), Distinct(sync[y].items), ~overlapped, ~strayed',
         NEW i \in 1..Len(sync[y].items) - Len(sync[y].todo) + 1
  PROVE  \E r \in MenuIds : /\ ListedFor(menu'[r], sync[y], i)
                            /\ \E j \in 1..Len(sync[y].items) - Len(sync[y].todo) + 1 : NameOf(r) = sync[y].items[j][1]
<1> DEFINE s == sync[y]
           r == IF Target(y) = NoItem THEN <<Dish(y), Code(y)>> ELSE Target(y)
           d == Len(s.items) - Len(s.todo)
<1>1. Syncing(y) /\ SaveItem(y, r, Listed(y)) /\ strayed \in BOOLEAN
  BY DEF SyncSave, MenuInv, MenuTypes
<1>2. ~strayed /\ ~Renamed(y)
  BY <1>1 DEF SyncSave
<1>3. s \in SyncRecs /\ Lists(s, menu) /\ SyncKnows(s, TableRows) /\ menu \in [MenuIds -> MenuItems]
  BY <1>1, <1>2 DEF MenuInv, MenuTypes, ListsInv
<1>4. /\ r \in MenuIds /\ Code(y) \in PosCodes /\ Listed(y) \in MenuItems /\ Listed(y).here
  BY <1>1, TargetRow
<1>5. s.todo \in Seq(Listings) /\ s.todo # << >> /\ Code(y) = s.todo[1][2] /\ Dish(y) = s.todo[1][1] /\ Dish(y) \in Dishes
  <2>1. s.todo \in Seq(Listings) /\ s.todo # << >>
    BY <1>3 DEF SyncRecs, SyncKnows, MapsLead
  <2>2. Head(s.todo) \in Listings /\ Head(s.todo) = s.todo[1]
    BY <2>1
  <2> QED
    BY <2>1, <2>2 DEF Code, Dish, Listings
<1>6. Len(s.items) \in Nat /\ d \in Nat /\ d + 1 \in 1..Len(s.items) /\ s.todo[1] = s.items[d + 1] /\ DOMAIN s.items = 1..Len(s.items)
  <2>1. Len(s.items) \in Nat /\ Len(s.todo) \in 1..Len(s.items) /\ DOMAIN s.items = 1..Len(s.items)
    BY <1>3, LenProperties DEF SyncRecs, Lists
  <2>2. Len(s.todo) \in Nat /\ 1 \in 1..Len(s.todo)
    BY <2>1
  <2>3. s.todo[1] = s.items[d + 1]
    BY <1>3, <2>2 DEF Lists
  <2>4. \A m, n \in Nat : n \in 1..m => m - n \in Nat /\ m - n + 1 \in 1..m
    OBVIOUS
  <2>5. d \in Nat /\ d + 1 \in 1..Len(s.items)
    BY <2>1, <2>2, <2>4, Zenon
  <2> QED
    BY <2>1, <2>3, <2>5
<1>7. NameOf(r) = Dish(y)
  <2>1. CASE ByName(y) # NoItem
    BY <1>3, <1>5, <2>1 DEF Target, ByName, Lists
  <2>2. CASE ByName(y) = NoItem
    BY <1>2, <1>4, <1>5, <2>2, MenuIdFacts DEF Target, Renamed
  <2> QED
    BY <2>1, <2>2
<1>8. Listed(y).pos = Code(y) /\ Listed(y).inStock
  <2>1. ASSUME NEW row \in MenuItems PROVE Relisted(y, row).pos = Code(y) /\ Relisted(y, row).inStock
    BY <2>1 DEF Relisted, MenuItems
  <2>2. CASE Target(y) = NoItem
    <3>1. [Seeded EXCEPT !.outlet = s.outlet] \in MenuItems
      BY <1>3, RowsOk DEF SyncRecs, PayloadOutlets, MenuItems
    <3> QED
      BY <2>1, <2>2, <3>1 DEF Listed
  <2>3. CASE Target(y) # NoItem
    <3>1. s.mem[Target(y)] \in MenuItems
      BY <1>3, <1>4, <2>3 DEF SyncRecs
    <3> QED
      BY <2>1, <2>3, <3>1 DEF Listed
  <2> QED
    BY <2>2, <2>3
<1> HIDE DEF r
<1>9. menu'[r] = Listed(y) /\ \A q \in MenuIds \ {r} : menu'[q] = menu[q]
  BY <1>1, <1>3, <1>4 DEF SaveItem
<1>10. ListedFor(menu'[r], s, d + 1) /\ NameOf(r) = s.items[d + 1][1]
  BY <1>4, <1>5, <1>6, <1>7, <1>8, <1>9 DEF ListedFor
<1>11. d + 1 \in 1..(d + 1) /\ 1..(d + 1) = (1..d) \cup {d + 1} /\ d + 1 \notin 1..d
  <2>1. \A n \in Nat : n + 1 \in 1..(n + 1) /\ 1..(n + 1) = (1..n) \cup {n + 1} /\ n + 1 \notin 1..n
    OBVIOUS
  <2> QED
    BY <1>6, <2>1, Zenon
<1>12. CASE i = d + 1 \/ s.items[i][2] = s.todo[1][2]
  <2>1. s.items[i][2] = s.items[d + 1][2]
    BY <1>6, <1>12
  <2> QED
    BY <1>4, <1>10, <1>11, <2>1 DEF ListedFor
<1>13. CASE i # d + 1 /\ s.items[i][2] # s.todo[1][2]
  <2>1. i \in Done(s)
    BY <1>6, <1>11, <1>13 DEF Done
  <2>2. PICK q \in MenuIds : ListedFor(menu[q], s, i) /\ ListedName(q, s)
    BY <1>3, <1>13, <2>1 DEF Lists
  <2>3. PICK j \in 1..d : NameOf(q) = s.items[j][1]
    BY <2>2 DEF ListedName, Done
  <2>4. q # r
    <3>1. \A m, n \in Nat : n + 1 \in 1..m => \A h \in 1..n : h \in 1..m
      OBVIOUS
    <3>2. j \in DOMAIN s.items /\ d + 1 \in DOMAIN s.items
      BY <1>6, <2>3, <3>1, Zenon
    <3>3. j # d + 1
      BY <1>11, <2>3
    <3> QED
      BY <1>10, <2>3, <3>2, <3>3 DEF Distinct
  <2>5. j \in 1..d + 1
    BY <1>11
  <2> QED
    BY <1>9, <2>2, <2>3, <2>4, <2>5
<1> QED
  BY <1>12, <1>13

LEMMA SyncSaveLists ==
  ASSUME MenuInv, ListsInv, NEW y \in Syncs, SyncSave(y)
  PROVE  ListsInv'
<1> DEFINE s == sync[y]
           r == IF Target(y) = NoItem THEN <<Dish(y), Code(y)>> ELSE Target(y)
           row == Listed(y)
           k == Remember(y, r)
           done == [NoSync EXCEPT !.pc = "done"]
           d == Len(s.items) - Len(s.todo)
<1>1. /\ Syncing(y) /\ SaveItem(y, r, row) /\ overlapped' = overlapped /\ (strayed => strayed')
      /\ sync' = [sync EXCEPT ![y] = IF Len(s.todo) = 1 THEN done ELSE Lean(k)]
  BY DEF SyncSave
<1>2. s \in SyncRecs /\ SyncKnows(s, TableRows) /\ menu \in [MenuIds -> MenuItems]
  BY <1>1 DEF MenuInv, MenuTypes
<1>3. /\ r \in MenuIds /\ Code(y) \in PosCodes /\ row \in MenuItems
  BY <1>1, TargetRow
<1>4. ASSUME Distinct(s.items), ~overlapped, ~strayed', NEW i \in 1..d + 1
      PROVE  \E q \in MenuIds : ListedFor(menu'[q], s, i) /\ \E j \in 1..d + 1 : NameOf(q) = s.items[j][1]
  BY <1>4, SaveLists
<1> HIDE DEF r, row
<1>5. CASE Len(s.todo) = 1
  <2>1. done.pc \notin {"item", "save"} /\ sync' = [sync EXCEPT ![y] = done]
    BY <1>1, <1>5, NoSyncOk
  <2> HIDE DEF done
  <2> QED
    BY <1>1, <2>1, StepLists
<1>6. CASE Len(s.todo) # 1
  <2>1. s.todo \in Seq(Listings) /\ s.todo # << >> /\ s.items \in Seq(Listings)
    BY <1>2 DEF SyncRecs, SyncKnows, MapsLead
  <2>2. Tail(s.todo) \in Seq(Listings) /\ Tail(s.todo) # << >>
        /\ Len(Tail(s.todo)) = Len(s.todo) - 1
        /\ \A i \in 1..Len(Tail(s.todo)) : Tail(s.todo)[i] = s.todo[i + 1]
    BY <1>6, <2>1, RestOf, HeadTailProperties
  <2>3. NameOf(r) \in Dishes /\ r \in RowEntries /\ r # NoItem
    BY <1>3, MenuIdFacts DEF RowEntries
  <2>4. /\ k \in SyncRecs /\ k.todo = Tail(s.todo) /\ k.items = s.items /\ k.pc = "item"
        /\ \A n \in Dishes : k.byName[n] = IF n = NameOf(r) THEN r ELSE s.byName[n]
        /\ \A q \in MenuIds : k.mem[q] = IF q = r THEN row ELSE s.mem[q]
    BY <1>2, <1>3, <2>2, <2>3 DEF SyncRecs, SyncPCs, Remember, row
  <2> HIDE DEF k
  <2>5. menu'[r] = row /\ \A q \in MenuIds \ {r} : menu'[q] = menu[q]
    BY <1>1, <1>2, <1>3 DEF SaveItem
  <2>6. ASSUME Distinct(s.items), ~overlapped, ~strayed' PROVE Lists(k, menu')
    <3>1. Lists(s, menu)
      BY <1>1, <2>6 DEF ListsInv, MenuInv, MenuTypes
    <3>2. PICK m, n \in Nat : m = Len(s.items) /\ n + 1 = Len(s.todo) /\ n \in Nat \ {0}
                              /\ n = Len(k.todo) /\ n + 1 \in 1..m /\ n = Len(Tail(s.todo))
      <4>1. \A h \in Nat \ {0} : h # 1 => h - 1 \in Nat \ {0} /\ (h - 1) + 1 = h
        OBVIOUS
      <4>2. Len(s.todo) \in Nat \ {0} /\ Len(s.items) \in Nat
        BY <2>1, EmptySeq
      <4>3. Len(s.todo) - 1 \in Nat \ {0} /\ (Len(s.todo) - 1) + 1 = Len(s.todo)
        BY <1>6, <4>1, <4>2, Zenon
      <4>4. Len(s.todo) \in 1..Len(s.items)
        BY <3>1 DEF Lists
      <4> QED
        BY <2>2, <2>4, <4>2, <4>3, <4>4
    <3>3. m - (n + 1) + 1 = m - n /\ n \in 1..m
      <4>1. \A a, b \in Nat : a + 1 \in 1..b /\ a # 0 => b - (a + 1) + 1 = b - a /\ a \in 1..b
        OBVIOUS
      <4> QED
        BY <3>2, <4>1, Zenon
    <3>4. d + 1 = m - n
      BY <3>2, <3>3
    <3>5. ASSUME NEW i \in Done(k)
          PROVE  \E q \in MenuIds : ListedFor(menu'[q], k, i) /\ ListedName(q, k)
      <4>1. Done(k) = 1..(d + 1)
        BY <2>4, <3>2, <3>4 DEF Done
      <4> HIDE DEF d
      <4>2. PICK q \in MenuIds : ListedFor(menu'[q], s, i) /\ \E j \in 1..(d + 1) : NameOf(q) = s.items[j][1]
        BY <1>4, <2>6, <4>1
      <4> QED
        BY <2>4, <4>1, <4>2 DEF ListedFor, ListedName
    <3>6. ASSUME NEW h \in 1..Len(k.todo) PROVE k.todo[h] = k.items[Len(k.items) - Len(k.todo) + h]
      <4>0. \A a, b \in Nat : \A c \in 1..a : c + 1 \in 1..(a + 1) /\ b - (a + 1) + (c + 1) = b - a + c
        OBVIOUS
      <4>1. h \in 1..n /\ h + 1 \in 1..(n + 1) /\ m - (n + 1) + (h + 1) = m - n + h
        BY <3>2, <4>0, ZenonT(30)
      <4>2. k.todo[h] = s.todo[h + 1] /\ s.todo[h + 1] = s.items[m - (n + 1) + (h + 1)]
        BY <2>2, <2>4, <3>1, <3>2, <4>1 DEF Lists
      <4> QED
        BY <2>4, <3>2, <4>1, <4>2
    <3>7. \A z \in Dishes : k.byName[z] # NoItem => NameOf(k.byName[z]) = z
      BY <2>4, <3>1 DEF Lists
    <3>8. \A q \in MenuIds : k.mem[q].here => k.mem[q].pos = menu'[q].pos
      BY <2>4, <2>5, <3>1 DEF Lists
    <3>9. Len(k.todo) \in 1..Len(k.items)
      BY <2>4, <3>2, <3>3
    <3> QED
      BY <3>5, <3>6, <3>7, <3>8, <3>9 DEF Lists
  <2>7. ~overlapped /\ ~strayed' /\ Distinct(Lean(k).items) => Lists(Lean(k), menu')
    BY <2>4, <2>6, LeanShape, LeanLists
  <2>8. sync' = [sync EXCEPT ![y] = Lean(k)]
    BY <1>1, <1>6
  <2> QED
    BY <1>1, <2>7, <2>8, StepLists
<1> QED
  BY <1>5, <1>6

LEMMA SyncDiesLists ==
  ASSUME MenuInv, ListsInv, NEW y \in Syncs, SyncDies(y)
  PROVE  ListsInv'
<1> DEFINE done == [NoSync EXCEPT !.pc = "done"]
<1>1. done.pc \notin {"item", "save"}
  BY NoSyncOk
<1>2. sync' = [sync EXCEPT ![y] = done] /\ UNCHANGED <<overlapped, strayed>> /\ Syncing(y)
  BY DEF SyncDies, menuHistories
<1> HIDE DEF done
<1> QED
  BY <1>1, <1>2, StepLists

(* An item-stock call beside a sync is an overlap; a unit sold or given back leaves *)
(* a row where it is, and its code.                                                 *)
LEMMA OthersList ==
  ASSUME MenuInv, ListsInv, MenuNext \/ UNCHANGED menuVars,
         \A y \in Syncs : ~SyncClear(y) /\ ~SyncSave(y) /\ ~SyncDies(y) /\ \A o \in PayloadOutlets : ~SyncRead(y, o)
  PROVE  ListsInv'
<1>1. CASE \E c \in PosCodes, on \in BOOLEAN : ItemStock(c, on)
  <2>1. sync' = sync /\ strayed' = strayed /\ (~overlapped' => ~overlapped /\ \A y \in Syncs : ~Syncing(y))
    BY <1>1 DEF ItemStock, MenuInv, MenuTypes
  <2> QED
    BY <2>1 DEF ListsInv, Syncing
<1>2. CASE \E r \in MenuIds : ReserveUnit(r) \/ RestoreUnit(r)
  <2>1. PICK r \in MenuIds : ReserveUnit(r) \/ RestoreUnit(r)
    BY <1>2
  <2>2. \E n : menu' = [menu EXCEPT ![r].qty = n]
    BY <2>1 DEF ReserveUnit, RestoreUnit
  <2>3. \A q \in MenuIds : /\ menu'[q].here = menu[q].here
                           /\ menu'[q].inStock = menu[q].inStock /\ menu'[q].pos = menu[q].pos
    BY <2>2 DEF MenuInv, MenuTypes, MenuItems
  <2>4. UNCHANGED <<sync, overlapped, strayed>>
    BY <2>1 DEF ReserveUnit, RestoreUnit, menuHistories
  <2>5. \A y \in Syncs : Syncing(y) => \A q \in MenuIds : sync[y].mem[q].here => menu[q].here
    BY DEF MenuInv, SyncKnows, MapsLead, TableRows
  <2>6. ASSUME NEW y \in Syncs, Syncing(y), Lists(sync[y], menu) PROVE Lists(sync[y], menu')
    BY <2>3, <2>5, <2>6, ListsStill
  <2> QED
    BY <2>4, <2>6 DEF ListsInv, Syncing
<1>3. CASE UNCHANGED menuVars
  BY <1>3 DEF ListsInv, Syncing, menuVars, menuHistories
<1> QED
  BY <1>1, <1>2, <1>3 DEF MenuNext

LEMMA ListsSteps == MenuInv /\ ListsInv /\ [MenuNext]_menuVars => ListsInv'
<1> SUFFICES ASSUME MenuInv, ListsInv, [MenuNext]_menuVars PROVE ListsInv'
  OBVIOUS
<1>1. ASSUME NEW y \in Syncs, SyncClear(y) \/ SyncSave(y) \/ SyncDies(y) PROVE ListsInv'
  BY <1>1, SyncClearLists, SyncSaveLists, SyncDiesLists
<1>2. ASSUME NEW y \in Syncs, NEW o \in PayloadOutlets, SyncRead(y, o) PROVE ListsInv'
  BY <1>2, SyncReadLists
<1> QED
  BY <1>1, <1>2, OthersList

LEMMA MenuTyped == MenuInv => MenuTypeOK
BY DEF MenuInv, MenuTypes, MenuTypeOK, SyncRecs, SyncPCs, RowEntries, PayloadOutlets

(* The menu's rows, what each sync has in memory of them, the units orders hold and *)
(* the histories keep their types, whatever is synced, set off or on, and ordered.  *)
THEOREM MenuTypeSafe == MenuSpec => []MenuTypeOK
  BY MenuTyped, MenuStart, MenuSteps, PTL DEF MenuSpec

(* No unit is lost or made: what a row has left and what orders hold of it is what *)
(* there was at first (reserveStock, restoreStock), except where a sync has saved  *)
(* whole a row whose stock it had not seen (syncFromPayload).                      *)
THEOREM StockIsKept == MenuSpec => []StockOutlivesSync
<1>1. MenuInv => StockOutlivesSync
  BY DEF MenuInv
<1> QED
  BY <1>1, MenuStart, MenuSteps, PTL DEF MenuSpec

(* A sync that ends has listed every item of the menu it was sent, on the menu and *)
(* in stock, if their names differ and it ran alone (syncFromPayload), unless it   *)
(* went by a code that it had given away, or took a row of another name.           *)
THEOREM ItemsAreListed == MenuSpec => SyncListsItems
<1> DEFINE Listing ==
             \A y \in Syncs :
               SyncSave(y) /\ Len(sync[y].todo) = 1 /\ Distinct(sync[y].items) /\ ~overlapped /\ ~strayed'
               => \A i \in DOMAIN sync[y].items :
                    \E r \in MenuIds : menu'[r].here /\ menu'[r].pos = sync[y].items[i][2] /\ menu'[r].inStock
<1>1. MenuInv /\ ListsInv /\ [MenuNext]_menuVars => [Listing]_menuVars
  <2> SUFFICES ASSUME MenuInv, ListsInv, NEW y \in Syncs, SyncSave(y), Len(sync[y].todo) = 1,
                      Distinct(sync[y].items), ~overlapped, ~strayed', NEW i \in DOMAIN sync[y].items
               PROVE  \E r \in MenuIds : menu'[r].here /\ menu'[r].pos = sync[y].items[i][2] /\ menu'[r].inStock
    OBVIOUS
  <2>1. sync[y].items \in Seq(Listings)
    BY DEF MenuInv, MenuTypes, SyncRecs
  <2>2. \A m \in Nat : m - 1 + 1 = m
    OBVIOUS
  <2>3. Len(sync[y].items) \in Nat /\ DOMAIN sync[y].items = 1..Len(sync[y].items)
    BY <2>1, LenProperties
  <2>4. i \in 1..Len(sync[y].items) - Len(sync[y].todo) + 1
    BY <2>2, <2>3
  <2>5. PICK r \in MenuIds : ListedFor(menu'[r], sync[y], i)
    BY <2>4, SaveLists
  <2> QED
    BY <2>5 DEF ListedFor
<1>2. MenuInit => ListsInv
  BY ListsStart
<1>3. MenuSpec => [][Listing]_menuVars
  BY <1>1, <1>2, MenuStart, MenuSteps, ListsSteps, PTL DEF MenuSpec
<1> QED
  BY <1>3 DEF SyncListsItems

-----------------------------------------------------------------------------
(* GatewayNotices: what the gateways told of a payment *)

HandlerPCs == {"idle", "load", "save", "verify", "confirm"}
HandlerRecs == [pc : HandlerPCs, row : CheckoutRows, says : {"succeeded", "failed", "pending"},
                ref : References, mode : BOOLEAN]

\* A success that is to be written names a payment that its gateway can refund; PayU was
\* paid, even where the payment is not named.
Witnessed(k) ==
  /\ k.pc \in {"load", "save"} /\ k.says = "succeeded" => k.ref \in Captured
  /\ k.pc = "confirm" /\ k.says = "succeeded" =>
       CASE checkout.provider = "razorpay" -> k.ref \in Captured
         [] checkout.provider = "stripe" -> Captured # {}
         [] checkout.provider = "payu" -> Captured # {} /\ k.ref \in Captured \cup {NoTry}
         [] OTHER -> TRUE

\* A row that was read is of the same gateway; the mock knows its checkout alone.
SameGateway(k) ==
  /\ k.pc \in {"save", "verify", "confirm"} => k.row.provider = checkout.provider
  /\ k.pc \in {"verify", "confirm"} /\ checkout.provider = "mock" => k.ref \in {Session, NoTry} /\ k.row.ref \in {Session, NoTry}
  /\ k.pc = "verify" /\ checkout.provider \in {"razorpay", "payu"} => k.ref # Session
  /\ k.pc \in {"load", "save"} => checkout.provider # "mock"

\* Who is about to say that the intent was paid, as a notice has told.
Telling(h) == handler[h].pc \in {"load", "save"} /\ handler[h].says = "succeeded"

\* A notice of the capture that was recorded has been written, or overwritten, or will be.
HeardCapture ==
  (\E n \in heard : n.kind = "captured") =>
     checkout.status = "succeeded" \/ overridden \/ \E h \in Handlers : Telling(h)

NoticesInv ==
  /\ NoticesTypeOK
  /\ \A h \in Handlers : Witnessed(handler[h]) /\ SameGateway(handler[h])
  /\ checkout.provider = "mock" => Captured = {} /\ checkout.ref \in {Session, NoTry}
  /\ RefundFindsPayment
  /\ HeardCapture

LEMMA HandlerTypes ==
  ASSUME NoticesTypeOK
  PROVE  /\ handler \in [Handlers -> HandlerRecs] /\ checkout \in CheckoutRows /\ checkout.ref \in References
         /\ checkout.provider \in Gateways /\ unnamed \in BOOLEAN /\ overridden \in BOOLEAN
         /\ attempt \in [Tries -> Outcomes]
  BY DEF NoticesTypeOK, HandlerRecs, HandlerPCs, CheckoutRows

LEMMA BlankOk == Blank \in CheckoutRows /\ NoTry \in References /\ Session \in References
  BY DEF Blank, CheckoutRows, Gateways, References

LEMMA IdleOk ==
  ASSUME NEW row \in CheckoutRows
  PROVE  Idle(row) \in HandlerRecs /\ Idle(row).pc = "idle"
  BY BlankOk DEF Idle, HandlerRecs, HandlerPCs

LEMMA NoticesStart == NoticesInit => NoticesInv
<1> SUFFICES ASSUME NoticesInit PROVE NoticesInv
  OBVIOUS
<1>1. PICK p \in Gateways : checkout = [Blank EXCEPT !.provider = p, !.live = (p = "payu")]
  BY DEF NoticesInit
<1>2. checkout \in CheckoutRows /\ checkout.ref = NoTry /\ checkout.status = "requires_action"
  <2> DEFINE live == p = "payu"
  <2>1. live \in BOOLEAN /\ checkout = [Blank EXCEPT !.provider = p, !.live = live]
    BY <1>1
  <2> HIDE DEF live
  <2> QED
    BY <2>1, BlankOk DEF Blank, CheckoutRows
<1>3. \A h \in Handlers : handler[h] = Idle(Blank)
  BY DEF NoticesInit
<1>4. Captured = {}
  BY DEF NoticesInit, Captured
<1>5. NoticesTypeOK
  <2>1. handler \in [Handlers -> HandlerRecs]
    BY IdleOk, BlankOk DEF NoticesInit
  <2> QED
    BY <1>2, <2>1 DEF NoticesInit, NoticesTypeOK, Outcomes, HandlerRecs, HandlerPCs
<1>6. \A h \in Handlers : Witnessed(handler[h]) /\ SameGateway(handler[h])
  BY <1>3, IdleOk, BlankOk DEF Witnessed, SameGateway
<1> QED
  BY <1>2, <1>4, <1>5, <1>6 DEF NoticesInv, RefundFindsPayment, HeardCapture, NoticesInit

(* A step of a process that leaves the intent and its notices as they are. *)
LEMMA HandlerMoves ==
  ASSUME NoticesInv, NEW h \in Handlers, NEW k \in HandlerRecs, HandlerIs(h, k), Witnessed(k), SameGateway(k),
         Telling(h) => checkout.status = "succeeded" \/ (k.pc \in {"load", "save"} /\ k.says = "succeeded"),
         UNCHANGED <<checkout, attempt, heard, unnamed, overridden>>
  PROVE  NoticesInv'
<1>1. handler \in [Handlers -> HandlerRecs]
  BY HandlerTypes DEF NoticesInv
<1>2. handler' \in [Handlers -> HandlerRecs] /\ handler'[h] = k /\ \A j \in Handlers \ {h} : handler'[j] = handler[j]
  BY <1>1 DEF HandlerIs
<1>3. Captured' = Captured
  BY DEF Captured
<1>4. NoticesTypeOK'
  BY <1>2 DEF NoticesInv, NoticesTypeOK, HandlerRecs, HandlerPCs
<1>5. \A j \in Handlers : Witnessed(handler[j])' /\ SameGateway(handler[j])'
  BY <1>2, <1>3 DEF NoticesInv, Witnessed, SameGateway
<1>6. HeardCapture'
  BY <1>2 DEF NoticesInv, HeardCapture, Telling
<1>7. RefundFindsPayment'
  BY <1>3 DEF NoticesInv, RefundFindsPayment, RefundRef, Takes, RazorpayTakes, StripeTakes, PayuTakes, MockTakes
<1> QED
  BY <1>3, <1>4, <1>5, <1>6, <1>7 DEF NoticesInv

LEMMA HandlerLeaves ==
  /\ Idle(Blank) \in HandlerRecs /\ Witnessed(Idle(Blank)) /\ SameGateway(Idle(Blank)) /\ Idle(Blank).pc = "idle"
  BY IdleOk, BlankOk DEF Witnessed, SameGateway

(* Tries only go on while none is captured, and a captured one stays so. *)
LEMMA AttemptKeeps ==
  ASSUME NoticesInv, NEW t \in Tries, Attempt(t)
  PROVE  NoticesInv'
<1>1. Captured = {} /\ checkout.provider # "mock" /\ UNCHANGED <<checkout, heard, handler, unnamed, overridden>>
  BY DEF Attempt
<1>2. attempt' \in [Tries -> Outcomes]
  BY HandlerTypes DEF Attempt, NoticesInv, Outcomes
<1>3. NoticesTypeOK'
  BY <1>1, <1>2 DEF NoticesInv, NoticesTypeOK
<1>4. checkout.status # "succeeded"
  <2>1. RefundRef \notin Takes
    BY <1>1, HandlerTypes DEF NoticesInv, RefundRef, Takes, RazorpayTakes, StripeTakes, PayuTakes, Gateways
  <2> QED
    BY <1>1, <2>1 DEF NoticesInv, RefundFindsPayment
<1>5. ASSUME NEW h \in Handlers PROVE Witnessed(handler[h])' /\ SameGateway(handler[h])'
  <2>1. handler'[h] = handler[h] /\ Witnessed(handler[h]) /\ SameGateway(handler[h])
    BY <1>1 DEF NoticesInv
  <2>2. ~(handler[h].pc \in {"load", "save"} /\ handler[h].says = "succeeded")
    BY <1>1, <2>1 DEF Witnessed
  <2>3. ~(handler[h].pc = "confirm" /\ handler[h].says = "succeeded")
    BY <1>1, <2>1, HandlerTypes DEF NoticesInv, Witnessed, Gateways
  <2> QED
    BY <1>1, <2>1, <2>2, <2>3 DEF Witnessed, SameGateway
<1> QED
  BY <1>1, <1>3, <1>4, <1>5 DEF NoticesInv, RefundFindsPayment, HeardCapture, Telling

LEMMA RecordKeeps ==
  ASSUME NoticesInv, NEW h \in Handlers, NEW n \in Notices, NoticeRecord(h, n)
  PROVE  NoticesInv'
<1>0. PICK says : says = Parsed(checkout.provider, n.kind)
  OBVIOUS
<1> DEFINE k == [Idle(Blank) EXCEPT !.pc = "load", !.says = says, !.ref = n.try]
<1>1. /\ handler[h].pc = "idle" /\ checkout.provider # "mock" /\ n \in Sent /\ heard' = heard \cup {n}
      /\ UNCHANGED <<checkout, attempt, unnamed, overridden>>
      /\ (says = "ignored" /\ UNCHANGED handler) \/ (says # "ignored" /\ HandlerIs(h, k))
  BY <1>0 DEF NoticeRecord
<1>2. /\ n.kind \in Outcomes \ {"none"} /\ n.try \in Tries /\ checkout.provider \in Gateways
      /\ handler \in [Handlers -> HandlerRecs]
  BY HandlerTypes DEF NoticesInv, Notices
<1>3. says \in {"succeeded", "failed", "ignored"} /\ (says = "succeeded" <=> n.kind = "captured")
  BY <1>0, <1>1, <1>2 DEF Parsed, RazorpayNotice, StripeNotice, PayuNotice, Gateways, Outcomes
<1>4. says = "succeeded" => n.try \in Captured
  BY <1>1, <1>2, <1>3 DEF Sent, Captured
<1>5. Captured' = Captured
  BY <1>1 DEF Captured
<1>6. heard' \subseteq Notices
  BY <1>1 DEF NoticesInv, NoticesTypeOK
<1>7. RefundFindsPayment'
  BY <1>1, <1>5 DEF NoticesInv, RefundFindsPayment, RefundRef, Takes, RazorpayTakes, StripeTakes, PayuTakes, MockTakes
<1>8. CASE says = "ignored" /\ UNCHANGED handler
  <2>1. NoticesTypeOK'
    BY <1>1, <1>6, <1>8 DEF NoticesInv, NoticesTypeOK
  <2>2. \A j \in Handlers : Witnessed(handler[j])' /\ SameGateway(handler[j])'
    BY <1>1, <1>5, <1>8 DEF NoticesInv, Witnessed, SameGateway
  <2>3. HeardCapture'
    BY <1>1, <1>3, <1>8 DEF NoticesInv, HeardCapture, Telling
  <2> QED
    BY <1>1, <1>5, <1>7, <2>1, <2>2, <2>3 DEF NoticesInv
<1>9. CASE says # "ignored" /\ HandlerIs(h, k)
  <2>1. k \in HandlerRecs /\ k.pc = "load" /\ k.says = says /\ k.ref = n.try
    <3>1. Idle(Blank) \in HandlerRecs /\ n.try \in References
      BY <1>2, IdleOk, BlankOk DEF References
    <3>2. CASE says = "succeeded"
      BY <3>1, <3>2 DEF HandlerRecs, HandlerPCs
    <3>3. CASE says = "failed"
      BY <3>1, <3>3 DEF HandlerRecs, HandlerPCs
    <3> QED
      BY <1>3, <1>9, <3>2, <3>3
  <2> HIDE DEF k
  <2>2. handler' \in [Handlers -> HandlerRecs] /\ handler'[h] = k /\ \A j \in Handlers \ {h} : handler'[j] = handler[j]
    BY <1>2, <1>9, <2>1 DEF HandlerIs
  <2>3. NoticesTypeOK'
    BY <1>1, <1>6, <2>2 DEF NoticesInv, NoticesTypeOK, HandlerRecs, HandlerPCs
  <2>4. Witnessed(k)' /\ SameGateway(k)'
    BY <1>1, <1>4, <1>5, <2>1 DEF Witnessed, SameGateway
  <2>5. \A j \in Handlers : Witnessed(handler[j])' /\ SameGateway(handler[j])'
    BY <1>1, <1>5, <2>2, <2>4 DEF NoticesInv, Witnessed, SameGateway
  <2>6. HeardCapture'
    <3>1. CASE says = "succeeded"
      BY <2>1, <2>2, <3>1 DEF HeardCapture, Telling
    <3>2. CASE says # "succeeded"
      BY <1>1, <1>3, <2>2, <3>2 DEF NoticesInv, HeardCapture, Telling
    <3> QED
      BY <3>1, <3>2
  <2> QED
    BY <1>1, <1>5, <1>7, <2>3, <2>5, <2>6 DEF NoticesInv
<1> HIDE DEF k
<1> QED
  BY <1>1, <1>8, <1>9

LEMMA LoadKeeps ==
  ASSUME NoticesInv, NEW h \in Handlers, NoticeLoad(h)
  PROVE  NoticesInv'
<1>1. handler[h] \in HandlerRecs /\ checkout \in CheckoutRows /\ Witnessed(handler[h]) /\ SameGateway(handler[h])
      /\ handler[h].pc = "load" /\ UNCHANGED <<checkout, attempt, heard, unnamed, overridden>>
  BY HandlerTypes DEF NoticesInv, NoticeLoad
<1>2. CASE Over(checkout, handler[h].says)
  BY <1>1, <1>2, HandlerLeaves, HandlerMoves DEF NoticeLoad, HandlerEnds, Over
<1>3. CASE ~Over(checkout, handler[h].says)
  <2> DEFINE k == [handler[h] EXCEPT !.pc = "save", !.row = checkout]
  <2>1. k \in HandlerRecs /\ k.pc = "save" /\ k.row = checkout /\ k.says = handler[h].says /\ k.ref = handler[h].ref
    BY <1>1 DEF HandlerRecs, HandlerPCs
  <2>2. HandlerIs(h, k)
    BY <1>3 DEF NoticeLoad
  <2> HIDE DEF k
  <2>3. Witnessed(k) /\ SameGateway(k)
    BY <1>1, <2>1 DEF Witnessed, SameGateway
  <2> QED
    BY <1>1, <2>1, <2>2, <2>3, HandlerMoves DEF Telling
<1> QED
  BY <1>2, <1>3

(* A process saves the row it read with what it has learnt: of the same gateway, and a *)
(* success only with a payment that a refund finds. *)
LEMMA RowSaved ==
  ASSUME NoticesInv, NEW h \in Handlers, NEW row \in CheckoutRows, SaveRow(row), HandlerEnds(h),
         Telling(h) => row.status = "succeeded",
         row.provider = checkout.provider,
         checkout.provider = "mock" => row.ref \in {Session, NoTry},
         row.status = "succeeded" =>
            CASE checkout.provider = "razorpay" -> row.ref \in Captured
              [] checkout.provider = "stripe" -> Captured # {}
              [] checkout.provider = "payu" -> row.ref \in Captured \/ (unnamed' /\ Captured # {})
              [] OTHER -> row.ref = Session,
         unnamed' \in BOOLEAN, UNCHANGED <<attempt, heard>>
  PROVE  NoticesInv'
<1>1. /\ handler \in [Handlers -> HandlerRecs] /\ checkout.provider \in Gateways /\ overridden \in BOOLEAN
  BY HandlerTypes DEF NoticesInv
<1>2. /\ handler' \in [Handlers -> HandlerRecs] /\ handler'[h] = Idle(Blank)
      /\ \A j \in Handlers \ {h} : handler'[j] = handler[j]
  BY <1>1, HandlerLeaves DEF HandlerEnds, HandlerIs
<1>3. checkout' = row /\ overridden' = (overridden \/ (checkout.status = "succeeded" /\ row.status # "succeeded"))
  BY DEF SaveRow
<1>4. Captured' = Captured
  BY DEF Captured
<1>5. NoticesTypeOK'
  <2>1. overridden' \in BOOLEAN
    BY <1>1, <1>3
  <2> QED
    BY <1>2, <1>3, <2>1 DEF NoticesInv, NoticesTypeOK, HandlerRecs, HandlerPCs
<1>6. \A j \in Handlers : Witnessed(handler[j])' /\ SameGateway(handler[j])'
  <2>1. Witnessed(Idle(Blank))' /\ SameGateway(Idle(Blank))'
    BY HandlerLeaves DEF Witnessed, SameGateway
  <2>2. checkout'.provider = checkout.provider
    BY <1>3
  <2> QED
    BY <1>2, <1>4, <2>1, <2>2 DEF NoticesInv, Witnessed, SameGateway
<1>7. RefundFindsPayment'
  <2> SUFFICES ASSUME row.status = "succeeded"
               PROVE  (RefundRef \in Takes \/ (checkout.provider = "payu" /\ unnamed /\ Captured # {}))'
    BY <1>3 DEF RefundFindsPayment
  <2>1. CASE checkout.provider = "razorpay"
    BY <1>3, <1>4, <2>1 DEF RefundRef, Takes, RazorpayTakes
  <2>2. CASE checkout.provider = "stripe"
    BY <1>3, <1>4, <2>2 DEF RefundRef, Takes, StripeTakes
  <2>3. CASE checkout.provider = "payu"
    BY <1>3, <1>4, <2>3 DEF RefundRef, Takes, PayuTakes
  <2>4. CASE checkout.provider = "mock"
    BY <1>3, <1>4, <2>4 DEF RefundRef, Takes, MockTakes
  <2> QED
    BY <1>1, <2>1, <2>2, <2>3, <2>4 DEF Gateways
<1>8. HeardCapture'
  <2> SUFFICES ASSUME \E n \in heard : n.kind = "captured", row.status # "succeeded", ~overridden'
               PROVE  \E j \in Handlers : Telling(j)'
    BY <1>3 DEF HeardCapture
  <2>1. \E j \in Handlers : Telling(j)
    BY <1>3 DEF NoticesInv, HeardCapture
  <2> QED
    BY <1>2, <2>1 DEF Telling
<1> QED
  BY <1>3, <1>4, <1>5, <1>6, <1>7, <1>8 DEF NoticesInv

LEMMA NoticeSaveKeeps ==
  ASSUME NoticesInv, NEW h \in Handlers, NoticeSave(h)
  PROVE  NoticesInv'
<1> DEFINE says == handler[h].says
           ref == IF says = "succeeded" THEN handler[h].ref ELSE handler[h].row.ref
           row == [handler[h].row EXCEPT !.status = says, !.ref = ref]
<1>1. /\ handler[h] \in HandlerRecs /\ handler[h].row \in CheckoutRows /\ handler[h].pc = "save"
      /\ Witnessed(handler[h]) /\ SameGateway(handler[h]) /\ checkout.provider \in Gateways
  BY HandlerTypes DEF NoticesInv, NoticeSave, HandlerRecs
<1>2. SaveRow(row) /\ HandlerEnds(h) /\ UNCHANGED <<attempt, heard, unnamed>>
  BY <1>1 DEF NoticeSave, CheckoutRows
<1>3. says \in {"succeeded", "failed", "pending"} /\ ref \in References
  BY <1>1 DEF HandlerRecs, CheckoutRows
<1>4. says \in {"succeeded", "failed"} => row \in CheckoutRows
  BY <1>1, <1>3 DEF CheckoutRows
<1>5. says = "pending" => row \in CheckoutRows
  BY <1>1, <1>3 DEF CheckoutRows
<1>6. row.status = says /\ row.ref = ref /\ row.provider = handler[h].row.provider
  BY <1>1 DEF CheckoutRows
<1>7. says = "succeeded" => ref \in Captured
  BY <1>1 DEF Witnessed
<1>8. handler[h].row.provider = checkout.provider /\ checkout.provider # "mock"
  BY <1>1 DEF SameGateway
<1>9. Telling(h) => says = "succeeded"
  BY DEF Telling
<1>10. unnamed' \in BOOLEAN
  BY <1>2, HandlerTypes DEF NoticesInv
<1> HIDE DEF says, ref, row
<1>11. says = "succeeded" =>
            CASE checkout.provider = "razorpay" -> ref \in Captured
              [] checkout.provider = "stripe" -> Captured # {}
              [] checkout.provider = "payu" -> ref \in Captured \/ (unnamed' /\ Captured # {})
              [] OTHER -> ref = Session
  BY <1>1, <1>7, <1>8 DEF Gateways
<1> QED
  BY <1>2, <1>3, <1>4, <1>5, <1>6, <1>8, <1>9, <1>10, <1>11, RowSaved

LEMMA ConfirmationReadKeeps ==
  ASSUME NoticesInv, NEW h \in Handlers, ConfirmationRead(h)
  PROVE  NoticesInv'
<1>1. PICK named \in Nameable, mode \in BOOLEAN :
        HandlerIs(h, [Idle(checkout) EXCEPT !.pc = "verify", !.ref = named, !.mode = mode])
  BY DEF ConfirmationRead
<1>2. handler[h].pc = "idle" /\ UNCHANGED <<checkout, attempt, heard, unnamed, overridden>>
  BY DEF ConfirmationRead
<1> DEFINE k == [Idle(checkout) EXCEPT !.pc = "verify", !.ref = named, !.mode = mode]
<1>3. named \in References /\ (checkout.provider = "mock" => named \in {NoTry, Session})
      /\ (checkout.provider \in {"razorpay", "payu"} => named # Session)
  <2>1. CASE checkout.provider \in {"stripe", "mock"}
    BY <2>1 DEF Nameable, References
  <2>2. CASE checkout.provider \notin {"stripe", "mock"}
    <3>1. named = NoTry \/ named \in Tries
      BY <2>2 DEF Nameable
    <3>2. NoTry # Session
      BY DEF NoTry, Session
    <3> QED
      BY <2>2, <3>1, <3>2, NoticeBounds DEF References
  <2> QED
    BY <2>1, <2>2
<1>4. k \in HandlerRecs
  BY <1>3, IdleOk, HandlerTypes DEF NoticesInv, HandlerRecs, HandlerPCs
<1>5. k.pc = "verify" /\ k.row = checkout /\ k.ref = named
  BY DEF Idle
<1>6. HandlerIs(h, k)
  BY <1>1
<1> HIDE DEF k
<1>7. Witnessed(k) /\ SameGateway(k)
  BY <1>3, <1>5 DEF NoticesInv, Witnessed, SameGateway
<1> QED
  BY <1>2, <1>4, <1>6, <1>7, HandlerMoves DEF Telling

LEMMA VerifyKeeps ==
  ASSUME NoticesInv, NEW h \in Handlers, ConfirmationVerify(h)
  PROVE  NoticesInv'
<1>1. PICK named : named = handler[h].ref
  OBVIOUS
<1>2. PICK row : row = handler[h].row
  OBVIOUS
<1> DEFINE says == CASE row.provider = "razorpay" -> RazorpayVerdict(named)
                     [] row.provider = "stripe" -> StripeVerdict
                     [] row.provider = "payu" -> PayuVerdict(named, handler[h].mode = row.live)
                     [] OTHER -> MockVerdict(handler[h].mode)
           k == [handler[h] EXCEPT !.pc = "confirm", !.says = says, !.mode = FALSE]
<1>3. /\ handler[h] \in HandlerRecs /\ handler[h].pc = "verify" /\ SameGateway(handler[h])
      /\ named \in References /\ checkout.provider \in Gateways /\ handler[h].mode \in BOOLEAN
      /\ attempt \in [Tries -> Outcomes]
  BY <1>1, HandlerTypes DEF NoticesInv, ConfirmationVerify, HandlerRecs
<1>4. row.provider = checkout.provider
  BY <1>2, <1>3 DEF SameGateway
<1>5. HandlerIs(h, k) /\ UNCHANGED <<checkout, attempt, heard, unnamed, overridden>>
  BY <1>1, <1>2 DEF ConfirmationVerify
<1>6. /\ says \in {"succeeded", "failed", "pending"}
      /\ says = "succeeded" =>
           CASE checkout.provider = "razorpay" -> named # NoTry /\ attempt[named] = "captured"
             [] checkout.provider = "stripe" -> Captured # {}
             [] checkout.provider = "payu" -> Captured # {} /\ (named = NoTry \/ attempt[named] = "captured")
             [] OTHER -> TRUE
  <2>1. CASE checkout.provider = "razorpay"
    BY <1>4, <2>1 DEF RazorpayVerdict
  <2>2. CASE checkout.provider = "stripe"
    BY <1>4, <2>2 DEF StripeVerdict
  <2>3. CASE checkout.provider = "payu"
    BY <1>4, <2>3 DEF PayuVerdict
  <2>4. CASE checkout.provider = "mock"
    BY <1>4, <2>4 DEF MockVerdict
  <2> QED
    BY <1>3, <2>1, <2>2, <2>3, <2>4 DEF Gateways
<1> HIDE DEF says
<1>7. k \in HandlerRecs /\ k.pc = "confirm" /\ k.says = says /\ k.ref = named /\ k.row = row
  BY <1>1, <1>2, <1>3, <1>6 DEF HandlerRecs, HandlerPCs
<1> HIDE DEF k
<1>8. checkout.provider \in {"razorpay", "payu"} => named \in Tries \cup {NoTry}
  BY <1>1, <1>3 DEF SameGateway, References
<1>9. Witnessed(k)
  BY <1>6, <1>7, <1>8 DEF Witnessed, Captured
<1>10. SameGateway(k)
  BY <1>1, <1>2, <1>3, <1>7 DEF SameGateway
<1> QED
  BY <1>3, <1>5, <1>7, <1>9, <1>10, HandlerMoves DEF Telling

LEMMA ConfirmationSaveKeeps ==
  ASSUME NoticesInv, NEW h \in Handlers, ConfirmationSave(h)
  PROVE  NoticesInv'
<1> DEFINE says == handler[h].says
           ref == Learnt(h)
           row == [handler[h].row EXCEPT !.status = says, !.ref = ref]
<1>1. /\ handler[h] \in HandlerRecs /\ handler[h].row \in CheckoutRows /\ handler[h].pc = "confirm"
      /\ Witnessed(handler[h]) /\ SameGateway(handler[h]) /\ checkout.provider \in Gateways
      /\ handler[h].row.ref \in References /\ handler[h].ref \in References
  BY HandlerTypes DEF NoticesInv, ConfirmationSave, HandlerRecs, CheckoutRows
<1>2. SaveRow(row) /\ HandlerEnds(h) /\ UNCHANGED <<attempt, heard>>
      /\ unnamed' = (unnamed \/ (handler[h].ref = NoTry /\ says = "succeeded"))
  BY DEF ConfirmationSave
<1>3. says \in {"succeeded", "failed", "pending"} /\ ref \in References
  BY <1>1, BlankOk DEF HandlerRecs, Learnt
<1>4. handler[h].row.provider = checkout.provider
      /\ (checkout.provider = "mock" => handler[h].ref \in {Session, NoTry} /\ handler[h].row.ref \in {Session, NoTry})
  BY <1>1 DEF SameGateway
<1>5. checkout.provider = "mock" => ref \in {Session, NoTry} /\ (says = "succeeded" => ref = Session)
  BY <1>4 DEF Learnt
<1>6. says = "succeeded" /\ handler[h].ref # NoTry => ref = handler[h].ref
  BY DEF Learnt
<1>7. row \in CheckoutRows /\ row.status = says /\ row.ref = ref /\ row.provider = handler[h].row.provider
  <2> HIDE DEF says, ref
  <2>1. CASE says = "pending"
    BY <1>1, <1>3, <2>1 DEF CheckoutRows
  <2>2. CASE says # "pending"
    BY <1>1, <1>3, <2>2 DEF CheckoutRows
  <2> QED
    BY <2>1, <2>2
<1>8. unnamed' \in BOOLEAN /\ (handler[h].ref = NoTry /\ says = "succeeded" => unnamed')
  BY <1>2, HandlerTypes DEF NoticesInv
<1>9. ~Telling(h)
  BY <1>1 DEF Telling
<1>10. says = "succeeded" =>
            CASE checkout.provider = "razorpay" -> ref \in Captured
              [] checkout.provider = "stripe" -> Captured # {}
              [] checkout.provider = "payu" -> ref \in Captured \/ (unnamed' /\ Captured # {})
              [] OTHER -> ref = Session
  <2> SUFFICES ASSUME says = "succeeded"
               PROVE  CASE checkout.provider = "razorpay" -> ref \in Captured
                        [] checkout.provider = "stripe" -> Captured # {}
                        [] checkout.provider = "payu" -> ref \in Captured \/ (unnamed' /\ Captured # {})
                        [] OTHER -> ref = Session
    OBVIOUS
  <2>1. CASE checkout.provider = "razorpay"
    <3>1. handler[h].ref \in Captured
      BY <1>1, <2>1 DEF Witnessed
    <3>2. handler[h].ref # NoTry
      BY <3>1, NoticeBounds DEF Captured
    <3> QED
      BY <1>6, <2>1, <3>1, <3>2
  <2>2. CASE checkout.provider = "stripe"
    BY <1>1, <2>2 DEF Witnessed
  <2>3. CASE checkout.provider = "payu"
    <3>1. Captured # {} /\ handler[h].ref \in Captured \cup {NoTry}
      BY <1>1, <2>3 DEF Witnessed
    <3>2. CASE handler[h].ref = NoTry
      BY <1>8, <2>3, <3>1, <3>2
    <3>3. CASE handler[h].ref # NoTry
      BY <1>6, <2>3, <3>1, <3>3
    <3> QED
      BY <3>2, <3>3
  <2>4. CASE checkout.provider = "mock"
    BY <1>5, <2>4
  <2> QED
    BY <1>1, <2>1, <2>2, <2>3, <2>4 DEF Gateways
<1> HIDE DEF says, ref, row
<1> QED
  BY <1>2, <1>4, <1>5, <1>7, <1>8, <1>9, <1>10, RowSaved

LEMMA NoticesSteps == NoticesInv /\ [NoticesNext]_noticeVars => NoticesInv'
<1> SUFFICES ASSUME NoticesInv, [NoticesNext]_noticeVars PROVE NoticesInv'
  OBVIOUS
<1>1. CASE UNCHANGED noticeVars
  <2>1. Captured' = Captured
    BY <1>1 DEF noticeVars, Captured
  <2> QED
    BY <1>1, <2>1 DEF noticeVars, NoticesInv, NoticesTypeOK, Witnessed, SameGateway, HeardCapture, Telling,
        RefundFindsPayment, RefundRef, Takes, RazorpayTakes, StripeTakes, PayuTakes, MockTakes
<1>2. CASE NoticesNext
  BY <1>2, AttemptKeeps, RecordKeeps, LoadKeeps, NoticeSaveKeeps, ConfirmationReadKeeps, VerifyKeeps, ConfirmationSaveKeeps
     DEF NoticesNext
<1> QED
  BY <1>1, <1>2

LEMMA NoticesHold == NoticesSpec => []NoticesInv
  BY NoticesStart, NoticesSteps, PTL DEF NoticesSpec

(* The intent, the tries and the processes keep their types; NoticesTypeOK. *)
THEOREM NoticesTypeSafe == NoticesSpec => []NoticesTypeOK
<1>1. NoticesInv => NoticesTypeOK
  BY DEF NoticesInv
<1> QED
  BY <1>1, NoticesHold, PTL

(* For any number of tries and of processes, a refund of an intent that is 'succeeded' *)
(* finds the payment, but for one at PayU that was not named; RefundFindsPayment. *)
THEOREM RefundsFindPayments == NoticesSpec => []RefundFindsPayment
<1>1. NoticesInv => RefundFindsPayment
  BY DEF NoticesInv
<1> QED
  BY <1>1, NoticesHold, PTL

(* For any number of tries and of processes, once every notice is heard an intent that was *)
(* paid is 'succeeded', unless it was saved over or PayU's notice muffled; CaptureIsNoticed. *)
THEOREM CapturesAreNoticed == NoticesSpec => []CaptureIsNoticed
<1>1. NoticesInv => CaptureIsNoticed
  <2> SUFFICES ASSUME NoticesInv, \A h \in Handlers : handler[h].pc = "idle", NEW t \in Captured,
                      \A n \in Sent : EventId(checkout.provider, n) \in Taken(checkout.provider),
                      ~(checkout.provider = "payu" /\ Muffled)
               PROVE  checkout.status = "succeeded" \/ overridden
    BY DEF CaptureIsNoticed
  <2> DEFINE n == [kind |-> "captured", try |-> t]
  <2>1. n \in Sent /\ n.kind = "captured" /\ n.try = t
    BY DEF Captured, Sent, Notices, Outcomes
  <2>2. EventId(checkout.provider, n) \in Taken(checkout.provider)
    BY <2>1
  <2> HIDE DEF n
  <2>3. n \in heard
    <3>1. CASE checkout.provider = "payu"
      BY <2>1, <2>2, <3>1 DEF Muffled
    <3>2. CASE checkout.provider # "payu"
      <4>1. PICK m \in heard : EventId(checkout.provider, m) = EventId(checkout.provider, n)
        BY <2>2 DEF Taken
      <4>2. m.kind = n.kind /\ m.try = n.try /\ m \in Notices /\ n \in Notices
        BY <2>1, <3>2, <4>1 DEF EventId, NoticesInv, NoticesTypeOK, Sent
      <4>3. m = n
        BY <4>2 DEF Notices
      <4> QED
        BY <4>3
    <3> QED
      BY <3>1, <3>2
  <2> QED
    BY <2>1, <2>3 DEF NoticesInv, HeardCapture, Telling
<1> QED
  BY <1>1, NoticesHold, PTL

-----------------------------------------------------------------------------
(* Seeding: the course of a run *)

SeederPCs == {"idle", "check", "save", "lines", "ended"}
OrderCounts == 0..DemoOrders
SeederRecs == [pc : SeederPCs, at : DOMAIN Course, order : OrderCounts, saw : BOOLEAN]

\* Sections that a run may pass without adding their rows.
Optional == {"admin", "user"}

\* Sections whose rows the application may change.
Changeable == {"outlet", "menu", "events", "orders", "store", "stock"}

\* The first n of the demo user's orders have all their lines.
LinesUpTo(n) == \A m \in 1..n : orderLines[m] = 1

\* Where a run is, and what it has left behind and found.
RunSound(r) ==
  /\ AtWork(r) => \A n \in DOMAIN Course : n < seeder[r].at => Course[n] \in Optional \/ There(Course[n])
  /\ seeder[r].pc = "save" /\ Section(r) \in {"menu", "events", "loyalty"} => sown[Section(r)] = 0
  /\ seeder[r].pc = "save" /\ Section(r) = "orders" =>
       /\ Len(orderLines) = seeder[r].order /\ seeder[r].order < DemoOrders /\ LinesUpTo(seeder[r].order)
  /\ seeder[r].pc = "lines" =>
       /\ Section(r) = "orders" /\ Len(orderLines) = seeder[r].order
       /\ LinesUpTo(seeder[r].order - 1) /\ seeder[r].order > 0 /\ orderLines[seeder[r].order] = 0
  /\ seeder[r].order > 0 => seeder[r].pc \in {"save", "lines"} /\ Section(r) = "orders"
  /\ seeder[r].pc = "ended" => \A s \in Sections \ Optional : There(s)

\* No run writes the demo user's orders once one has ended.
OrdersDone == (\E r \in Runs : seeder[r].pc = "ended") =>
                \A r \in Runs : seeder[r].pc \in {"save", "lines"} => Section(r) # "orders"

LinesWhole == orderLines = [n \in 1..DemoOrders |-> 1]

SeedInv ==
  /\ SeedingTypeOK
  /\ \A q, r \in Runs : AtWork(q) /\ AtWork(r) => q = r
  /\ \A r \in Runs : RunSound(r)
  /\ OrdersDone
  /\ sown["loyalty"] <= 1 /\ \A n \in DOMAIN orderLines : orderLines[n] <= 1
  /\ sown["orders"] = 0 => orderLines = << >>
  /\ cut \/ sown["orders"] = 0 \/ (\E r \in Runs : seeder[r].order > 0) \/ LinesWhole
  /\ undone \subseteq {"stock", "outlet", "store"}
  /\ changed \subseteq Changeable /\ \A s \in changed \cap {"menu", "events"} : sown[s] > 0

LEMMA CourseFacts ==
  /\ Len(Course) \in Nat \ {0} /\ DOMAIN Course = 1..Len(Course)
  /\ {"menu", "stock", "events", "orders", "loyalty", "outlet", "store"} \subseteq Sections
  /\ Course[Len(Course)] = "loyalty"
<1>1. Len(Course) = 15 /\ DOMAIN Course = 1..15
  BY DEF Course
<1>2. Course[5] = "menu" /\ Course[6] = "stock" /\ Course[9] = "events" /\ Course[13] = "orders"
      /\ Course[15] = "loyalty" /\ Course[4] = "outlet" /\ Course[8] = "store"
  BY DEF Course
<1> QED
  BY <1>1, <1>2 DEF Sections

LEMMA SeederTypes ==
  ASSUME SeedingTypeOK
  PROVE  /\ seeder \in [Runs -> SeederRecs] /\ sown \in [Sections -> Nat] /\ orderLines \in Seq(Nat)
         /\ \A r \in Runs : /\ seeder[r].at \in 1..Len(Course) /\ seeder[r].at \in Nat
                            /\ Section(r) \in Sections /\ seeder[r].order \in Nat
<1>1. seeder \in [Runs -> SeederRecs]
  BY DEF SeedingTypeOK, SeederRecs, SeederPCs, OrderCounts
<1>2. ASSUME NEW r \in Runs
      PROVE  /\ seeder[r].at \in 1..Len(Course) /\ seeder[r].at \in Nat
             /\ Section(r) \in Sections /\ seeder[r].order \in Nat
  <2>1. seeder[r].at \in DOMAIN Course /\ seeder[r].order \in OrderCounts
    BY <1>1 DEF SeederRecs
  <2>2. seeder[r].at \in 1..Len(Course) /\ seeder[r].at \in Nat
    BY <2>1, CourseFacts
  <2>3. seeder[r].order \in Nat
    BY <2>1, SeedBounds DEF OrderCounts
  <2> QED
    BY <2>1, <2>2, <2>3 DEF Section, Sections
<1> QED
  BY <1>1, <1>2 DEF SeedingTypeOK

LEMMA UnstartedOk == /\ Unstarted \in SeederRecs /\ Unstarted.order = 0 /\ Unstarted.pc = "idle"
                     /\ [Unstarted EXCEPT !.pc = "ended"] \in SeederRecs
                     /\ [Unstarted EXCEPT !.pc = "ended"].pc = "ended" /\ [Unstarted EXCEPT !.pc = "ended"].order = 0
                     /\ [Unstarted EXCEPT !.pc = "check"] \in SeederRecs
                     /\ [Unstarted EXCEPT !.pc = "check"].pc = "check" /\ [Unstarted EXCEPT !.pc = "check"].order = 0
                     /\ [Unstarted EXCEPT !.pc = "check"].at = 1
<1>1. 1 \in DOMAIN Course /\ 0 \in OrderCounts
  BY CourseFacts, SeedBounds DEF OrderCounts
<1>2. Unstarted \in SeederRecs
  BY <1>1 DEF Unstarted, SeederRecs, SeederPCs
<1>3. [Unstarted EXCEPT !.pc = "ended"] \in SeederRecs /\ [Unstarted EXCEPT !.pc = "check"] \in SeederRecs
  BY <1>2 DEF SeederRecs, SeederPCs
<1> QED
  BY <1>2, <1>3 DEF Unstarted

(* Where a run that goes on comes to. *)
LEMMA GoesOn ==
  ASSUME SeedingTypeOK, NEW r \in Runs, GoOn(r)
  PROVE  \E k \in SeederRecs :
           /\ seeder' = [seeder EXCEPT ![r] = k]
           /\ k.order = 0
           /\ \/ k.pc = "ended" /\ seeder[r].at = Len(Course)
              \/ k.pc = "check" /\ k.at = seeder[r].at + 1
<1>1. seeder[r].at \in 1..Len(Course) /\ Len(Course) \in Nat
  BY SeederTypes, CourseFacts
<1>2. CASE seeder[r].at = Len(Course)
  BY <1>2, UnstartedOk DEF GoOn, SeederIs
<1>3. CASE seeder[r].at # Len(Course)
  <2> DEFINE at == seeder[r].at + 1
             k == [Unstarted EXCEPT !.pc = "check", !.at = at]
  <2>1. at \in DOMAIN Course
    BY <1>1, <1>3, CourseFacts
  <2> HIDE DEF at
  <2>2. k \in SeederRecs
    BY <2>1, UnstartedOk DEF SeederRecs, SeederPCs
  <2>3. k.pc = "check" /\ k.at = at /\ k.order = 0
    BY DEF Unstarted
  <2>4. seeder' = [seeder EXCEPT ![r] = k]
    BY <1>3 DEF GoOn, SeederIs, at
  <2> HIDE DEF k
  <2> QED
    BY <2>2, <2>3, <2>4 DEF at
<1> QED
  BY <1>2, <1>3

(* A step of a run leaves the other runs sound: they are not at work, and no rows go. *)
LEMMA OthersSound ==
  ASSUME SeedInv, NEW r \in Runs, \A q \in Runs \ {r} : ~AtWork(q), NEW k \in SeederRecs, seeder' = [seeder EXCEPT ![r] = k],
         \A s \in Sections : There(s) => There(s)'
  PROVE  /\ \A q \in Runs \ {r} : RunSound(q)' /\ seeder'[q] = seeder[q]
         /\ seeder' \in [Runs -> SeederRecs] /\ seeder'[r] = k
         /\ \A p, q \in Runs : (AtWork(p) /\ AtWork(q))' => p = q
<1>1. seeder \in [Runs -> SeederRecs]
  BY SeederTypes DEF SeedInv
<1>2. seeder' \in [Runs -> SeederRecs] /\ seeder'[r] = k /\ \A q \in Runs \ {r} : seeder'[q] = seeder[q]
  BY <1>1
<1>3. ASSUME NEW q \in Runs \ {r} PROVE RunSound(q)'
  <2>1. RunSound(q) /\ ~AtWork(q)
    BY DEF SeedInv
  <2>2. seeder'[q] = seeder[q]
    BY <1>2
  <2>3. seeder[q].pc \notin {"check", "save", "lines"} /\ seeder[q].order \in Nat
    BY <2>1, SeederTypes DEF AtWork, SeedInv
  <2>4. ~(seeder[q].order > 0)
    BY <2>1, <2>3 DEF RunSound
  <2>5. seeder[q].pc = "ended" => \A s \in Sections \ Optional : There(s)'
    BY <2>1 DEF RunSound
  <2> QED
    BY <2>2, <2>3, <2>4, <2>5 DEF RunSound, AtWork
<1>4. \A q \in Runs \ {r} : ~AtWork(q)'
  BY <1>2 DEF AtWork
<1> QED
  BY <1>2, <1>3, <1>4

(* A run that is at work is the only one. *)
LEMMA Alone ==
  ASSUME SeedInv, NEW r \in Runs, AtWork(r)
  PROVE  \A q \in Runs \ {r} : ~AtWork(q)
  BY DEF SeedInv

(* Only in the orders has a run a number of orders behind it. *)
LEMMA Unordered ==
  ASSUME SeedInv, NEW r \in Runs, Section(r) # "orders" \/ seeder[r].pc = "check"
  PROVE  seeder[r].order = 0
<1>1. seeder[r].order \in Nat
  BY SeederTypes DEF SeedInv
<1>2. ~(seeder[r].order > 0)
  BY DEF SeedInv, RunSound
<1> QED
  BY <1>1, <1>2

LEMMA SeedStart == SeedingInit => SeedInv
<1> SUFFICES ASSUME SeedingInit PROVE SeedInv
  OBVIOUS
<1>1. \A r \in Runs : seeder[r] = Unstarted
  BY DEF SeedingInit
<1>2. orderLines \in Seq(Nat) /\ Len(orderLines) <= DemoOrders /\ \A n \in DOMAIN orderLines : orderLines[n] <= 1
  <2>1. CASE orderLines = << >>
    BY <2>1, SeedBounds
  <2>2. CASE orderLines = [n \in 1..DemoOrders |-> 1]
    <3>1. orderLines \in Seq(Nat)
      BY <2>2, SeedBounds, SeqDef
    <3>2. DOMAIN orderLines = 1..DemoOrders
      BY <2>2
    <3>3. Len(orderLines) = DemoOrders
      BY <3>1, <3>2, SeedBounds, LenProperties
    <3> QED
      BY <2>2, <3>1, <3>3, SeedBounds
  <2> QED
    BY <2>1, <2>2 DEF SeedingInit
<1>3. sown \in [Sections -> Nat] /\ (sown = [s \in Sections |-> 0] \/ sown = [s \in Sections |-> 1])
  BY DEF SeedingInit
<1>4. SeedingTypeOK
  <2>1. seeder \in [Runs -> SeederRecs]
    BY UnstartedOk DEF SeedingInit
  <2>2. 0 \in 0..MaxDeaths
    BY SeedBounds
  <2> QED
    BY <1>2, <1>3, <2>1, <2>2 DEF SeedingInit, SeedingTypeOK, SeederRecs, SeederPCs, OrderCounts
<1>5. \A r \in Runs : ~AtWork(r) /\ RunSound(r)
  BY <1>1, UnstartedOk DEF AtWork, RunSound
<1>6. OrdersDone
  BY <1>1, UnstartedOk DEF OrdersDone
<1>7. sown["loyalty"] <= 1 /\ (sown["orders"] = 0 => orderLines = << >>) /\ (sown["orders"] = 0 \/ LinesWhole)
  <2>1. "loyalty" \in Sections /\ "orders" \in Sections
    BY CourseFacts
  <2> QED
    BY <2>1 DEF SeedingInit, LinesWhole
<1> QED
  BY <1>2, <1>4, <1>5, <1>6, <1>7 DEF SeedInv, SeedingInit

(* A run passes a section whose rows are there, or that is optional, when it has added at *)
(* most the rows of that section and undone at most what may be undone. *)
LEMMA Passes ==
  ASSUME SeedInv, NEW r \in Runs, AtWork(r), GoOn(r), NEW s \in Sections, Section(r) = s,
         There(s)' \/ s \in Optional,
         sown' \in [Sections -> Nat],
         \A z \in Sections : z # s => sown'[z] = sown[z],
         sown[s] > 0 => sown'[s] > 0,
         sown'["loyalty"] <= 1, s = "orders" => sown' = sown,
         seeder[r].order = 0,
         undone' \subseteq changed, undone' \subseteq {"stock", "outlet", "store"},
         UNCHANGED <<orderLines, own, changed, cut, deaths>>
  PROVE  SeedInv'
<1>1. PICK k \in SeederRecs :
           /\ seeder' = [seeder EXCEPT ![r] = k]
           /\ k.order = 0
           /\ \/ k.pc = "ended" /\ seeder[r].at = Len(Course)
              \/ k.pc = "check" /\ k.at = seeder[r].at + 1
  BY GoesOn DEF SeedInv
<1>2. \A z \in Sections : There(z) => There(z)'
  BY DEF There
<1>3. /\ \A q \in Runs \ {r} : RunSound(q)' /\ seeder'[q] = seeder[q]
      /\ seeder' \in [Runs -> SeederRecs] /\ seeder'[r] = k
      /\ \A p, q \in Runs : (AtWork(p) /\ AtWork(q))' => p = q
  BY <1>1, <1>2, Alone, OthersSound
<1>4. ASSUME NEW n \in DOMAIN Course, n <= seeder[r].at PROVE Course[n] \in Optional \/ There(Course[n])'
  <2>1. seeder[r].at \in Nat /\ n \in Nat
    BY SeederTypes, CourseFacts DEF SeedInv
  <2>2. CASE n = seeder[r].at
    BY <2>2 DEF Section
  <2>3. CASE n < seeder[r].at
    <3>1. Course[n] \in Optional \/ There(Course[n])
      BY <2>3 DEF SeedInv, RunSound
    <3>2. Course[n] \in Sections
      BY DEF Sections
    <3> QED
      BY <1>2, <3>1, <3>2
  <2> QED
    BY <1>4, <2>1, <2>2, <2>3
<1>5. RunSound(r)'
  <2>1. CASE k.pc = "ended" /\ seeder[r].at = Len(Course)
    <3>1. \A n \in DOMAIN Course : n <= seeder[r].at
      BY <2>1, CourseFacts
    <3>2. \A z \in Sections \ Optional : There(z)'
      BY <1>4, <3>1 DEF Sections
    <3> QED
      BY <1>1, <1>3, <2>1, <3>2 DEF RunSound, AtWork
  <2>2. CASE k.pc = "check" /\ k.at = seeder[r].at + 1
    <3>1. \A n \in DOMAIN Course : n < k.at => n <= seeder[r].at
      <4>1. \A a, n \in Nat : n < a + 1 => n <= a
        OBVIOUS
      <4>2. seeder[r].at \in Nat
        BY SeederTypes DEF SeedInv
      <4>3. DOMAIN Course \subseteq Nat
        BY CourseFacts
      <4> QED
        BY <2>2, <4>1, <4>2, <4>3
    <3> QED
      BY <1>1, <1>3, <1>4, <2>2, <3>1 DEF RunSound, AtWork
  <2> QED
    BY <1>1, <2>1, <2>2
<1>6. OrdersDone'
  <2>1. \A q \in Runs : ~(seeder'[q].pc \in {"save", "lines"})
    BY <1>1, <1>3, Alone DEF AtWork
  <2> QED
    BY <2>1 DEF OrdersDone
<1>7. SeedingTypeOK'
  BY <1>3 DEF SeedInv, SeedingTypeOK, SeederRecs, SeederPCs, OrderCounts
<1>8. sown'["orders"] = sown["orders"] \/ s = "orders"
  BY CourseFacts
<1>9. sown'["orders"] = sown["orders"]
  BY <1>8
<1>10. (\E q \in Runs : seeder[q].order > 0) => \E q \in Runs : seeder'[q].order > 0
  BY <1>3
<1>11. \A z \in changed \cap {"menu", "events"} : sown'[z] > 0
  BY CourseFacts DEF SeedInv
<1> QED
  BY <1>3, <1>5, <1>6, <1>7, <1>9, <1>10, <1>11 DEF SeedInv, LinesWhole

(* The section's rows are saved by their ids; what it may undo is given. *)
LEMMA KeyedKeeps ==
  ASSUME SeedInv, NEW r \in Runs, NEW s \in {"roles", "diet", "menu", "events", "bowls", "outlet", "store"},
         SaveKeyed(r, s)
  PROVE  SeedInv'
<1>1. AtWork(r) /\ Section(r) = s /\ GoOn(r) /\ s \in Sections /\ seeder[r].pc = "save"
  BY SeederTypes DEF SaveKeyed, AtWork, SeedInv
<1>2. sown \in [Sections -> Nat] /\ sown' = [sown EXCEPT ![s] = 1]
      /\ UNCHANGED <<orderLines, own, changed, cut, deaths>>
  BY SeederTypes DEF SeedInv, SaveKeyed
<1>3. sown'["loyalty"] = sown["loyalty"]
  BY <1>2, CourseFacts
<1>4. seeder[r].order = 0
  BY <1>1, Unordered
<1>5. undone' \subseteq changed /\ undone' \subseteq {"stock", "outlet", "store"}
  <2>1. s \notin {"outlet", "store"} => s \notin changed
    <3>1. s \in {"menu", "events"} => sown[s] = 0
      BY <1>1 DEF SeedInv, RunSound
    <3>2. s \in changed => s \in Changeable
      BY DEF SeedInv
    <3>3. s \in changed \cap {"menu", "events"} => sown[s] > 0
      BY DEF SeedInv
    <3> QED
      BY <3>1, <3>2, <3>3 DEF Changeable
  <2>2. undone' = undone \/ (s \in changed /\ undone' = undone \cup {s})
    BY DEF SaveKeyed, Undo
  <2>3. undone \subseteq changed /\ undone \subseteq {"stock", "outlet", "store"}
    BY DEF SeedInv, SeedingTypeOK
  <2> QED
    BY <2>1, <2>2, <2>3
<1>6. There(s)'
  BY <1>1, <1>2 DEF There
<1> QED
  BY <1>1, <1>2, <1>3, <1>4, <1>5, <1>6, Passes DEF SeedInv

(* A run ends where it stands, is idle, and may be started again: nothing else changes. *)
LEMMA StopsKeeps ==
  ASSUME SeedInv, NEW r \in Runs, AtWork(r), SeederIs(r, Unstarted), cut => cut', cut' \in BOOLEAN,
         cut' \/ ~(seeder[r].order > 0), deaths' \in 0..MaxDeaths,
         UNCHANGED <<sown, orderLines, own, changed, undone>>
  PROVE  SeedInv'
<1>1. /\ \A q \in Runs \ {r} : RunSound(q)' /\ seeder'[q] = seeder[q]
      /\ seeder' \in [Runs -> SeederRecs] /\ seeder'[r] = Unstarted
      /\ \A p, q \in Runs : (AtWork(p) /\ AtWork(q))' => p = q
  BY UnstartedOk, Alone, OthersSound DEF SeederIs, There
<1>2. RunSound(r)'
  BY <1>1, UnstartedOk DEF RunSound, AtWork
<1>3. OrdersDone'
  BY <1>1, UnstartedOk, Alone DEF OrdersDone, AtWork
<1>4. SeedingTypeOK'
  BY <1>1 DEF SeedInv, SeedingTypeOK, SeederRecs, SeederPCs, OrderCounts
<1>5. cut' \/ sown'["orders"] = 0 \/ (\E q \in Runs : seeder'[q].order > 0) \/ LinesWhole'
  <2>1. ~cut' => ((\E q \in Runs : seeder[q].order > 0) => \E q \in Runs : seeder'[q].order > 0)
    BY <1>1
  <2> QED
    BY <2>1 DEF SeedInv, LinesWhole
<1> QED
  BY <1>1, <1>2, <1>3, <1>4, <1>5 DEF SeedInv

\* Sections whose rows have ids of their own and a unique column.
Uniques == {"coupon", "demo user", "profile", "admin", "user"}

LEMMA UniqueKeeps ==
  ASSUME SeedInv, NEW r \in Runs, NEW s \in Uniques,
         SaveUnique(r, s)
  PROVE  SeedInv'
<1>1. AtWork(r) /\ Section(r) = s /\ s \in Sections /\ seeder[r].pc = "save"
  BY SeederTypes DEF SaveUnique, AtWork, SeedInv
<1>2. seeder[r].order = 0 /\ s # "orders" /\ s # "loyalty"
  <2>1. s # "orders" /\ s # "loyalty"
    BY Zenon DEF Uniques
  <2> QED
    BY <1>1, <2>1, Unordered
<1>3. CASE There(s)
  <2>1. cut \in BOOLEAN /\ deaths \in 0..MaxDeaths
    BY DEF SeedInv, SeedingTypeOK
  <2> QED
    <3>1. SeederIs(r, Unstarted) /\ UNCHANGED <<sown, orderLines, own, changed, undone, cut, deaths>>
      BY <1>3 DEF SaveUnique, seedHistories
    <3>2. ~(seeder[r].order > 0)
      BY <1>2
    <3> QED
      BY <1>1, <2>1, <3>1, <3>2, StopsKeeps
<1>4. CASE ~There(s)
  <2>1. sown \in [Sections -> Nat] /\ sown' = [sown EXCEPT ![s] = 1] /\ GoOn(r)
        /\ UNCHANGED <<orderLines, own, changed, cut, deaths, undone>>
    BY <1>4, SeederTypes DEF SeedInv, SaveUnique, seedHistories
  <2>2. sown'["loyalty"] = sown["loyalty"]
    BY <1>2, <2>1, CourseFacts
  <2>3. sown'[s] = 1 /\ There(s)'
    BY <1>1, <2>1 DEF There
  <2>4. undone' \subseteq changed /\ undone' \subseteq {"stock", "outlet", "store"}
    BY <2>1 DEF SeedInv, SeedingTypeOK
  <2> QED
    BY <1>1, <1>2, <2>1, <2>2, <2>3, <2>4, Passes DEF SeedInv
<1> QED
  BY <1>3, <1>4

LEMMA StockKeeps ==
  ASSUME SeedInv, NEW r \in Runs, SeedStock(r)
  PROVE  SeedInv'
<1>1. AtWork(r) /\ Section(r) = "stock" /\ GoOn(r) /\ "stock" \in Sections
  BY CourseFacts DEF SeedStock, AtWork
<1>2. sown \in [Sections -> Nat] /\ sown' = [sown EXCEPT !["stock"] = 1]
      /\ UNCHANGED <<orderLines, own, changed, cut, deaths>>
  BY SeederTypes DEF SeedInv, SeedStock
<1>3. sown'["loyalty"] = sown["loyalty"] /\ There("stock")'
  BY <1>1, <1>2, CourseFacts DEF There
<1>4. seeder[r].order = 0
  BY <1>1, Unordered
<1>5. undone' \subseteq changed /\ undone' \subseteq {"stock", "outlet", "store"}
  <2>1. undone' = undone \/ ("stock" \in changed /\ undone' = undone \cup {"stock"})
    BY DEF SeedStock, Undo
  <2> QED
    BY <2>1 DEF SeedInv, SeedingTypeOK
<1> QED
  BY <1>1, <1>2, <1>3, <1>4, <1>5, Passes DEF SeedInv

LEMMA LoyaltyKeeps ==
  ASSUME SeedInv, NEW r \in Runs, SeedLoyalty(r)
  PROVE  SeedInv'
<1>1. AtWork(r) /\ Section(r) = "loyalty" /\ GoOn(r) /\ "loyalty" \in Sections /\ seeder[r].pc = "save"
  BY CourseFacts DEF SeedLoyalty, AtWork
<1>2. sown \in [Sections -> Nat] /\ sown' = [sown EXCEPT !["loyalty"] = sown["loyalty"] + 1]
      /\ UNCHANGED <<orderLines, own, changed, undone, cut, deaths>>
  BY SeederTypes DEF SeedInv, SeedLoyalty, seedHistories
<1>3. sown["loyalty"] = 0
  BY <1>1 DEF SeedInv, RunSound
<1>4. sown'["loyalty"] = 1 /\ There("loyalty")' /\ sown' \in [Sections -> Nat]
  BY <1>1, <1>2, <1>3 DEF There
<1>5. seeder[r].order = 0
  BY <1>1, Unordered
<1>6. undone' \subseteq changed /\ undone' \subseteq {"stock", "outlet", "store"}
  BY <1>2 DEF SeedInv, SeedingTypeOK
<1> QED
  BY <1>1, <1>2, <1>4, <1>5, <1>6, Passes

(* A run stays in its section, and is about to save there. *)
LEMMA CheckKeeps ==
  ASSUME SeedInv, NEW r \in Runs, seeder[r].pc = "check", NEW saw \in BOOLEAN,
         SeederIs(r, [seeder[r] EXCEPT !.pc = "save", !.saw = saw]),
         Section(r) \in {"outlet", "store"} \/ ~There(Section(r)),
         UNCHANGED <<sown, orderLines, own, changed, seedHistories>>
  PROVE  SeedInv'
<1> DEFINE k == [seeder[r] EXCEPT !.pc = "save", !.saw = saw]
<1>1. AtWork(r) /\ seeder[r] \in SeederRecs /\ RunSound(r)
  BY SeederTypes DEF SeedInv, AtWork
<1>2. k \in SeederRecs /\ k.pc = "save" /\ k.at = seeder[r].at /\ k.order = seeder[r].order
  BY <1>1 DEF SeederRecs, SeederPCs
<1>3. seeder' = [seeder EXCEPT ![r] = k]
  BY DEF SeederIs
<1> HIDE DEF k
<1>4. /\ \A q \in Runs \ {r} : RunSound(q)' /\ seeder'[q] = seeder[q]
      /\ seeder' \in [Runs -> SeederRecs] /\ seeder'[r] = k
      /\ \A p, q \in Runs : (AtWork(p) /\ AtWork(q))' => p = q
  BY <1>1, <1>2, <1>3, Alone, OthersSound DEF There
<1>5. Section(r)' = Section(r) /\ Section(r) \in Sections
  BY <1>2, <1>4, SeederTypes DEF Section, SeedInv
<1>6. k.order = 0
  <2>1. seeder[r].order \in Nat
    BY SeederTypes DEF SeedInv
  <2>2. ~(seeder[r].order > 0)
    BY <1>1 DEF RunSound
  <2> QED
    BY <1>2, <2>1, <2>2
<1>7. Section(r) \notin {"outlet", "store"} => sown[Section(r)] = 0 /\ Section(r) \notin own
  BY <1>5, SeederTypes DEF There, SeedInv
<1>8. RunSound(r)'
  <2>1. \A n \in DOMAIN Course : n < k.at => Course[n] \in Optional \/ There(Course[n])'
    BY <1>1, <1>2 DEF RunSound, There
  <2>2. Section(r) = "orders" => Len(orderLines) = 0
    BY <1>7 DEF SeedInv
  <2>3. Section(r) = "orders" => Len(orderLines) = k.order /\ k.order < DemoOrders /\ LinesUpTo(k.order)
    BY <1>6, <2>2, SeedBounds DEF LinesUpTo
  <2> QED
    BY <1>2, <1>4, <1>5, <1>6, <1>7, <2>1, <2>3 DEF RunSound, AtWork, LinesUpTo
<1>9. OrdersDone'
  <2>1. ASSUME NEW q \in Runs, seeder'[q].pc = "ended" PROVE Section(r) # "orders"
    <3>1. q # r
      BY <1>2, <1>4, <2>1
    <3>2. \A s \in Sections \ Optional : There(s)
      BY <1>4, <2>1, <3>1 DEF SeedInv, RunSound
    <3> QED
      BY <3>2, CourseFacts DEF Optional
  <2>2. \A q \in Runs \ {r} : seeder'[q].pc \notin {"save", "lines"}
    BY <1>1, <1>4, Alone DEF AtWork
  <2> QED
    BY <1>5, <2>1, <2>2 DEF OrdersDone
<1>10. SeedingTypeOK'
  BY <1>4 DEF SeedInv, SeedingTypeOK, SeederRecs, SeederPCs, OrderCounts, seedHistories
<1>11. (\E q \in Runs : seeder[q].order > 0) => \E q \in Runs : seeder'[q].order > 0
  BY <1>2, <1>4
<1> QED
  BY <1>4, <1>8, <1>9, <1>10, <1>11 DEF SeedInv, LinesWhole, seedHistories

LEMMA OrderKeeps ==
  ASSUME SeedInv, NEW r \in Runs, SeedOrder(r)
  PROVE  SeedInv'
<1>0. PICK n : n = seeder[r].order + 1
  OBVIOUS
<1> DEFINE k == [seeder[r] EXCEPT !.pc = "lines", !.order = n]
<1>1. AtWork(r) /\ seeder[r] \in SeederRecs /\ RunSound(r) /\ Section(r) = "orders" /\ seeder[r].pc = "save"
  BY SeederTypes DEF SeedInv, SeedOrder, AtWork
<1>2. /\ seeder[r].order \in 0..DemoOrders /\ Len(orderLines) = seeder[r].order /\ seeder[r].order < DemoOrders
      /\ LinesUpTo(seeder[r].order)
  BY <1>1 DEF RunSound, SeederRecs, OrderCounts
<1>3. n \in 1..DemoOrders /\ n > Len(orderLines) /\ n - 1 = seeder[r].order /\ n \in Nat
      /\ n \in OrderCounts
  BY <1>0, <1>2, SeedBounds DEF OrderCounts
<1>4. /\ sown' = [sown EXCEPT !["orders"] = 1] /\ orderLines' = Append(orderLines, 0)
      /\ seeder' = [seeder EXCEPT ![r] = k] /\ UNCHANGED <<undone, own, changed, cut, deaths>>
  BY <1>0, <1>3 DEF SeedOrder, SeederIs
<1>5. orderLines \in Seq(Nat) /\ sown \in [Sections -> Nat] /\ "orders" \in Sections
  BY SeederTypes, CourseFacts DEF SeedInv
<1>6. /\ orderLines' \in Seq(Nat) /\ Len(orderLines') = n /\ orderLines'[n] = 0
      /\ \A m \in 1..(n - 1) : orderLines'[m] = orderLines[m]
      /\ DOMAIN orderLines = 1..(n - 1) /\ DOMAIN orderLines' = 1..n
  BY <1>2, <1>3, <1>4, <1>5
<1>7. k \in SeederRecs /\ k.pc = "lines" /\ k.order = n /\ k.at = seeder[r].at
  BY <1>1, <1>3 DEF SeederRecs, SeederPCs
<1> HIDE DEF k
<1>8. sown'["orders"] = 1 /\ \A s \in Sections : s # "orders" => sown'[s] = sown[s]
  BY <1>4, <1>5
<1>9. \A s \in Sections : There(s) => There(s)'
  BY <1>4, <1>8 DEF There
<1>10. /\ \A q \in Runs \ {r} : RunSound(q)' /\ seeder'[q] = seeder[q]
       /\ seeder' \in [Runs -> SeederRecs] /\ seeder'[r] = k
       /\ \A p, q \in Runs : (AtWork(p) /\ AtWork(q))' => p = q
  BY <1>1, <1>4, <1>7, <1>9, Alone, OthersSound
<1>11. Section(r)' = "orders"
  BY <1>1, <1>7, <1>10 DEF Section
<1>12. RunSound(r)'
  <2>1. \A m \in DOMAIN Course : m < k.at => Course[m] \in Optional \/ There(Course[m])'
    BY <1>1, <1>7, <1>9 DEF RunSound, AtWork, Sections
  <2>2. LinesUpTo(n - 1)'
    BY <1>2, <1>3, <1>6 DEF LinesUpTo
  <2>3. n > 0
    BY <1>3
  <2> QED
    BY <1>6, <1>7, <1>10, <1>11, <2>1, <2>2, <2>3 DEF RunSound, AtWork
<1>13. OrdersDone'
  <2>1. ~\E q \in Runs : seeder[q].pc = "ended"
    BY <1>1 DEF SeedInv, OrdersDone
  <2>2. ~\E q \in Runs : seeder'[q].pc = "ended"
    BY <1>7, <1>10, <2>1
  <2> QED
    BY <2>2 DEF OrdersDone
<1>14. SeedingTypeOK'
  <2>1. sown' \in [Sections -> Nat] /\ Len(orderLines') <= DemoOrders
    BY <1>3, <1>4, <1>5, <1>6
  <2> QED
    BY <1>4, <1>6, <1>10, <2>1 DEF SeedInv, SeedingTypeOK, SeederRecs, SeederPCs, OrderCounts
<1>15. \A m \in DOMAIN orderLines' : orderLines'[m] <= 1
  <2>1. ASSUME NEW m \in 1..n PROVE orderLines'[m] <= 1
    <3>1. CASE m = n
      BY <1>6, <3>1
    <3>2. CASE m # n
      <4>1. m \in 1..(n - 1)
        BY <1>3, <3>2
      <4> QED
        BY <1>6, <4>1 DEF SeedInv
    <3> QED
      BY <3>1, <3>2
  <2> QED
    BY <1>6, <2>1
<1>16. \E q \in Runs : seeder'[q].order > 0
  BY <1>3, <1>7, <1>10
<1>17. sown'["loyalty"] <= 1 /\ \A s \in changed \cap {"menu", "events"} : sown'[s] > 0
  BY <1>8, CourseFacts DEF SeedInv
<1> QED
  BY <1>4, <1>8, <1>10, <1>12, <1>13, <1>14, <1>15, <1>16, <1>17 DEF SeedInv

LEMMA LinesKeeps ==
  ASSUME SeedInv, NEW r \in Runs, SeedLines(r)
  PROVE  SeedInv'
<1>0. PICK n : n = seeder[r].order
  OBVIOUS
<1>1. AtWork(r) /\ seeder[r] \in SeederRecs /\ RunSound(r) /\ seeder[r].pc = "lines"
  BY SeederTypes DEF SeedInv, SeedLines, AtWork
<1>2. /\ Section(r) = "orders" /\ Len(orderLines) = n /\ n > 0 /\ n \in 0..DemoOrders
      /\ LinesUpTo(n - 1) /\ orderLines[n] = 0
  BY <1>0, <1>1 DEF RunSound, SeederRecs, OrderCounts
<1>3. orderLines \in Seq(Nat) /\ sown \in [Sections -> Nat] /\ "orders" \in Sections
  BY SeederTypes, CourseFacts DEF SeedInv
<1>4. orderLines' = [orderLines EXCEPT ![n] = 1]
  BY <1>0, <1>2 DEF SeedLines
<1>5. n \in 1..Len(orderLines)
  BY <1>2, SeedBounds
<1>6. orderLines' \in Seq(Nat) /\ Len(orderLines') = n
      /\ \A m \in 1..n : orderLines'[m] = IF m = n THEN 1 ELSE orderLines[m]
  BY <1>2, <1>3, <1>4, <1>5, ExceptSeq
<1>7. \A m \in 1..n : orderLines'[m] = 1
  <2>1. \A m \in 1..n : m # n => m \in 1..(n - 1)
    BY <1>2, SeedBounds
  <2> QED
    BY <1>2, <1>6, <2>1 DEF LinesUpTo
<1>8. UNCHANGED <<sown, own, changed, seedHistories>>
  BY DEF SeedLines
<1>9. \A m \in DOMAIN orderLines' : orderLines'[m] <= 1
  <2>1. DOMAIN orderLines' = 1..n
    BY <1>6, LenProperties
  <2> QED
    BY <1>7, <2>1
<1>10. ~\E q \in Runs : seeder[q].pc = "ended"
  BY <1>1, <1>2 DEF SeedInv, OrdersDone
<1>11. sown["orders"] # 0
  BY <1>2, <1>3 DEF SeedInv
<1>12. CASE n = DemoOrders
  <2>1. GoOn(r)
    BY <1>0, <1>12 DEF SeedLines
  <2>2. PICK k \in SeederRecs :
           /\ seeder' = [seeder EXCEPT ![r] = k]
           /\ k.order = 0
           /\ \/ k.pc = "ended" /\ seeder[r].at = Len(Course)
              \/ k.pc = "check" /\ k.at = seeder[r].at + 1
    BY <2>1, GoesOn DEF SeedInv
  <2>3. /\ \A q \in Runs \ {r} : RunSound(q)' /\ seeder'[q] = seeder[q]
        /\ seeder' \in [Runs -> SeederRecs] /\ seeder'[r] = k
        /\ \A p, q \in Runs : (AtWork(p) /\ AtWork(q))' => p = q
    BY <1>1, <1>8, <2>2, Alone, OthersSound DEF There
  <2>4. seeder[r].at # Len(Course)
    BY <1>2, CourseFacts DEF Section
  <2>5. RunSound(r)'
    <3>1. ASSUME NEW m \in DOMAIN Course, m < k.at PROVE Course[m] \in Optional \/ There(Course[m])'
      <4>1. m = seeder[r].at \/ m < seeder[r].at
        <5>1. \A a, z \in Nat : z < a + 1 => z = a \/ z < a
          OBVIOUS
        <5>2. seeder[r].at \in Nat /\ m \in Nat
          BY SeederTypes, CourseFacts DEF SeedInv
        <5> QED
          BY <2>2, <2>4, <3>1, <5>1, <5>2
      <4>2. There("orders")'
        BY <1>3, <1>8, <1>11 DEF There
      <4> QED
        BY <1>1, <1>2, <1>8, <4>1, <4>2 DEF RunSound, There, Section
    <3> QED
      BY <2>2, <2>3, <2>4, <3>1 DEF RunSound, AtWork
  <2>6. OrdersDone'
    BY <1>10, <2>2, <2>3, <2>4 DEF OrdersDone
  <2>7. SeedingTypeOK'
    <3>1. Len(orderLines') <= DemoOrders
      BY <1>6, <1>12, SeedBounds
    <3> QED
      BY <1>6, <1>8, <2>3, <3>1 DEF SeedInv, SeedingTypeOK, SeederRecs, SeederPCs, OrderCounts, seedHistories
  <2>8. LinesWhole'
    <3> DEFINE whole == [m \in 1..DemoOrders |-> 1]
    <3>1. whole \in Seq(Nat) /\ DOMAIN whole = 1..DemoOrders
      BY SeedBounds, SeqDef
    <3>2. Len(whole) = DemoOrders /\ \A m \in 1..DemoOrders : whole[m] = 1
      BY <3>1, SeedBounds, LenProperties
    <3> HIDE DEF whole
    <3>3. orderLines' = whole
      BY <1>6, <1>7, <1>12, <3>1, <3>2, SeqEqual
    <3> QED
      BY <3>3 DEF LinesWhole, whole
  <2> QED
    BY <1>8, <1>9, <1>11, <2>3, <2>5, <2>6, <2>7, <2>8 DEF SeedInv, seedHistories
<1>13. CASE n # DemoOrders
  <2> DEFINE k == [seeder[r] EXCEPT !.pc = "save"]
  <2>1. seeder' = [seeder EXCEPT ![r] = k]
    BY <1>0, <1>13 DEF SeedLines, SeederIs
  <2>2. k \in SeederRecs /\ k.pc = "save" /\ k.at = seeder[r].at /\ k.order = n
    BY <1>0, <1>1 DEF SeederRecs, SeederPCs
  <2> HIDE DEF k
  <2>3. /\ \A q \in Runs \ {r} : RunSound(q)' /\ seeder'[q] = seeder[q]
        /\ seeder' \in [Runs -> SeederRecs] /\ seeder'[r] = k
        /\ \A p, q \in Runs : (AtWork(p) /\ AtWork(q))' => p = q
    BY <1>1, <1>8, <2>1, <2>2, Alone, OthersSound DEF There
  <2>4. Section(r)' = "orders"
    BY <1>2, <2>2, <2>3 DEF Section
  <2>5. RunSound(r)'
    <3>1. \A m \in DOMAIN Course : m < k.at => Course[m] \in Optional \/ There(Course[m])'
      BY <1>1, <1>8, <2>2 DEF RunSound, There
    <3>2. n < DemoOrders /\ LinesUpTo(n)'
      BY <1>2, <1>7, <1>13, SeedBounds DEF LinesUpTo
    <3> QED
      BY <1>6, <2>2, <2>3, <2>4, <3>1, <3>2 DEF RunSound, AtWork
  <2>6. OrdersDone'
    <3>1. ~\E q \in Runs : seeder'[q].pc = "ended"
      BY <1>10, <2>2, <2>3
    <3> QED
      BY <3>1 DEF OrdersDone
  <2>7. SeedingTypeOK'
    <3>1. Len(orderLines') <= DemoOrders
      BY <1>2, <1>6, SeedBounds
    <3> QED
      BY <1>6, <1>8, <2>3, <3>1 DEF SeedInv, SeedingTypeOK, SeederRecs, SeederPCs, OrderCounts, seedHistories
  <2>8. \E q \in Runs : seeder'[q].order > 0
    BY <1>2, <2>2, <2>3
  <2> QED
    BY <1>8, <1>9, <1>11, <2>3, <2>5, <2>6, <2>7, <2>8 DEF SeedInv, seedHistories
<1> QED
  BY <1>12, <1>13

(* The application adds rows of its own and changes those that are there. *)
LEMMA ApplicationKeeps ==
  ASSUME SeedInv, NEW s \in Sections, AppAdds(s) \/ AppChanges(s)
  PROVE  SeedInv'
<1>1. UNCHANGED <<sown, orderLines, seeder, seedHistories>> /\ own \subseteq own'
      /\ own' \subseteq Sections /\ changed \subseteq changed' /\ changed' \subseteq Sections
  BY DEF AppAdds, AppChanges, SeedInv, SeedingTypeOK
<1>2. changed' \subseteq Changeable /\ \A z \in changed' \cap {"menu", "events"} : sown[z] > 0
  BY DEF AppAdds, AppChanges, SeedInv, Changeable
<1>3. \A z \in Sections : There(z) => There(z)'
  BY <1>1 DEF There
<1>4. ASSUME NEW r \in Runs PROVE RunSound(r)'
  <2>1. RunSound(r)
    BY DEF SeedInv
  <2> QED
    BY <1>1, <1>3, <2>1 DEF RunSound, AtWork, Section, LinesUpTo, Sections
<1>5. OrdersDone'
  BY <1>1 DEF SeedInv, OrdersDone, Section
<1>6. SeedingTypeOK'
  BY <1>1 DEF SeedInv, SeedingTypeOK, seedHistories
<1> QED
  BY <1>1, <1>2, <1>4, <1>5, <1>6 DEF SeedInv, AtWork, LinesWhole, seedHistories

LEMMA StartKeeps ==
  ASSUME SeedInv, NEW r \in Runs, RunStarts(r)
  PROVE  SeedInv'
<1> DEFINE k == [Unstarted EXCEPT !.pc = "check"]
<1>1. seeder' = [seeder EXCEPT ![r] = k] /\ UNCHANGED <<sown, orderLines, own, changed, seedHistories>>
      /\ \A q \in Runs : ~AtWork(q)
  BY DEF RunStarts, SeederIs
<1>2. k \in SeederRecs /\ k.pc = "check" /\ k.order = 0 /\ k.at = 1
  BY UnstartedOk
<1> HIDE DEF k
<1>3. /\ \A q \in Runs \ {r} : RunSound(q)' /\ seeder'[q] = seeder[q]
      /\ seeder' \in [Runs -> SeederRecs] /\ seeder'[r] = k
      /\ \A p, q \in Runs : (AtWork(p) /\ AtWork(q))' => p = q
  BY <1>1, <1>2, OthersSound DEF There
<1>4. RunSound(r)'
  <2>1. \A n \in DOMAIN Course : ~(n < 1)
    BY CourseFacts
  <2> QED
    BY <1>2, <1>3, <2>1 DEF RunSound, AtWork
<1>5. OrdersDone'
  BY <1>1, <1>2, <1>3 DEF OrdersDone, AtWork
<1>6. SeedingTypeOK'
  BY <1>1, <1>3 DEF SeedInv, SeedingTypeOK, SeederRecs, SeederPCs, OrderCounts, seedHistories
<1>7. (\E q \in Runs : seeder[q].order > 0) => \E q \in Runs : seeder'[q].order > 0
  BY <1>1 DEF SeedInv, RunSound, AtWork
<1> QED
  BY <1>1, <1>3, <1>4, <1>5, <1>6, <1>7 DEF SeedInv, LinesWhole, seedHistories

LEMMA SeedSteps == SeedInv /\ [SeedingNext]_seedVars => SeedInv'
<1> SUFFICES ASSUME SeedInv, [SeedingNext]_seedVars PROVE SeedInv'
  OBVIOUS
<1>1. CASE UNCHANGED seedVars
  BY <1>1 DEF SeedInv, SeedingTypeOK, RunSound, AtWork, Section, LinesUpTo, There, OrdersDone, LinesWhole,
              seedVars, seedHistories
<1>2. ASSUME NEW r \in Runs, seeder[r].pc = "check" \/ seeder[r].pc = "save", Section(r) # "orders" \/ seeder[r].pc = "check",
             There(Section(r)) \/ Section(r) \in Optional, GoOn(r),
             UNCHANGED <<sown, orderLines, own, changed, seedHistories>>
      PROVE  SeedInv'
  <2>1. seeder[r].order = 0
    BY <1>2, Unordered
  <2>2. PICK s \in Sections : s = Section(r)
    BY SeederTypes DEF SeedInv
  <2>4. AtWork(r) /\ (There(s)' \/ s \in Optional)
    BY <1>2, <2>2 DEF AtWork, There
  <2>3. sown' = sown /\ sown \in [Sections -> Nat] /\ sown["loyalty"] <= 1 /\ undone' \subseteq changed
        /\ undone' \subseteq {"stock", "outlet", "store"} /\ UNCHANGED <<orderLines, own, changed, cut, deaths>>
    BY <1>2, SeederTypes DEF SeedInv, SeedingTypeOK, seedHistories
  <2> QED
    BY <1>2, <2>1, <2>2, <2>3, <2>4, Passes
<1>3. ASSUME NEW r \in Runs, SeedCheck(r) PROVE SeedInv'
  <2>1. CASE There(Section(r))
    BY <1>2, <1>3, <2>1 DEF SeedCheck
  <2>2. CASE ~There(Section(r))
    <3>1. seeder[r] \in SeederRecs
      BY SeederTypes DEF SeedInv
    <3> DEFINE saw == seeder[r].saw
    <3>2. [seeder[r] EXCEPT !.pc = "save"] = [seeder[r] EXCEPT !.pc = "save", !.saw = saw] /\ saw \in BOOLEAN
      BY <3>1 DEF SeederRecs
    <3>3. SeederIs(r, [seeder[r] EXCEPT !.pc = "save", !.saw = saw])
      BY <1>3, <2>2, <3>2 DEF SeedCheck, SeederIs
    <3> HIDE DEF saw
    <3> QED
      BY <1>3, <2>2, <3>2, <3>3, CheckKeeps DEF SeedCheck
  <2> QED
    BY <2>1, <2>2
<1>4. ASSUME NEW r \in Runs, NEW s \in {"outlet", "store"}, SavesAgain(r, s) PROVE SeedInv'
  <2> DEFINE saw == s \in changed
  <2>1. saw \in BOOLEAN /\ SeederIs(r, [seeder[r] EXCEPT !.pc = "save", !.saw = saw])
    BY <1>4 DEF SavesAgain
  <2> HIDE DEF saw
  <2> QED
    BY <1>4, <2>1, CheckKeeps DEF SavesAgain
<1>5. ASSUME NEW r \in Runs, SeedUsers(r) PROVE SeedInv'
  <2>1. PICK s \in {"admin", "user"} :
          SaveUnique(r, s) \/ (seeder[r].pc = "save" /\ Section(r) = s /\ GoOn(r)
                               /\ UNCHANGED <<sown, orderLines, own, changed, seedHistories>>)
    BY <1>5 DEF SeedUsers
  <2>2. CASE SaveUnique(r, s)
    BY <2>2, UniqueKeeps DEF Uniques
  <2>3. CASE ~SaveUnique(r, s)
    BY <1>2, <2>1, <2>3 DEF Optional
  <2> QED
    BY <2>2, <2>3
<1>6. ASSUME NEW r \in Runs, SeedDies(r) PROVE SeedInv'
  <2>1. deaths' \in 0..MaxDeaths
    BY <1>6, SeedBounds DEF SeedDies, SeedInv, SeedingTypeOK
  <2>2. cut' \in BOOLEAN /\ (cut => cut') /\ (cut' \/ ~(seeder[r].order > 0))
    BY <1>6 DEF SeedDies, SeedInv, SeedingTypeOK
  <2> QED
    BY <1>6, <2>1, <2>2, StopsKeeps DEF SeedDies
<1>7. ASSUME NEW r \in Runs,
             \/ SeedRoles(r) \/ SeedOutlet(r) \/ SeedMenu(r) \/ SeedDietPreferences(r) \/ SeedStoreStatus(r)
             \/ SeedEvents(r) \/ SeedSavedBowls(r)
      PROVE  SeedInv'
  BY <1>4, <1>7, KeyedKeeps DEF SeedRoles, SeedOutlet, SeedMenu, SeedDietPreferences, SeedStoreStatus, SeedEvents,
                                SeedSavedBowls
<1>8. ASSUME NEW r \in Runs, SeedCoupons(r) \/ SeedDemoUser(r) \/ SeedProfile(r)
      PROVE  SeedInv'
  BY <1>8, UniqueKeeps, Zenon DEF Uniques, SeedCoupons, SeedDemoUser, SeedProfile
<1>9. ASSUME NEW r \in Runs, RunStarts(r) \/ SeedStock(r) \/ SeedOrder(r) \/ SeedLines(r) \/ SeedLoyalty(r)
      PROVE  SeedInv'
  BY <1>9, StartKeeps, StockKeeps, OrderKeeps, LinesKeeps, LoyaltyKeeps
<1> QED
  BY <1>1, <1>3, <1>5, <1>6, <1>7, <1>8, <1>9, ApplicationKeeps DEF SeedingNext

LEMMA SeedHolds == SeedingSpec => []SeedInv
  BY SeedStart, SeedSteps, PTL DEF SeedingSpec

(* The seeded sections, the demo user's orders and the runs keep their types; SeedingTypeOK. *)
THEOREM SeedingTypeSafe == SeedingSpec => []SeedingTypeOK
<1>1. SeedInv => SeedingTypeOK
  BY DEF SeedInv
<1> QED
  BY <1>1, SeedHolds, PTL

(* For any number of runs, of deaths and of demo orders, nothing is seeded twice or undone *)
(* that may not be, and a run that has ended has left nothing out but where one was cut *)
(* short; SeededOnce. *)
THEOREM SeedsAreSownOnce == SeedingSpec => []SeededOnce
<1>1. SeedInv => SeededOnce
  <2> SUFFICES ASSUME SeedInv, NEW r \in Runs, seeder[r].pc = "ended"
               PROVE  /\ \A s \in Sections \ Optional : There(s)
                      /\ ~cut /\ sown["orders"] > 0 => LinesWhole
    BY DEF SeedInv, SeededOnce, LinesWhole, Optional
  <2>1. \A s \in Sections \ Optional : There(s)
    BY DEF SeedInv, RunSound
  <2>2. ~\E q \in Runs : seeder[q].order > 0
    BY DEF SeedInv, OrdersDone, RunSound
  <2> QED
    BY <2>1, <2>2 DEF SeedInv
<1> QED
  BY <1>1, SeedHolds, PTL

-----------------------------------------------------------------------------
(* MCPartners: whichever of them runs *)

PartnersInv ==
  /\ scene = "kitchen" => KitchenInv
  /\ scene = "menu" => MenuInv
  /\ scene = "notices" => NoticesInv
  /\ scene = "seeding" => SeedInv

(* Whichever module runs beside the others at rest, its variables keep their types. *)
THEOREM PartnersTypeSafe == Spec => []PartnersTypeOK
<1> DEFINE partners == <<kitchenVars, menuVars, noticeVars, seedVars, scene>>
<1>1. Init => PartnersInv
  BY KitchenInitInv, MenuStart, NoticesStart, SeedStart DEF Init, PartnersInv
<1>2. PartnersInv /\ [Next]_partners => PartnersInv'
  <2> SUFFICES ASSUME PartnersInv, [Next]_partners PROVE PartnersInv'
    OBVIOUS
  <2>1. scene' = scene
    BY DEF Next
  <2>2. ASSUME scene = "kitchen" PROVE KitchenInv'
    BY <2>2, KitchenStep DEF PartnersInv, Next
  <2>3. ASSUME scene = "menu" PROVE MenuInv'
    BY <2>3, MenuSteps DEF PartnersInv, Next
  <2>4. ASSUME scene = "notices" PROVE NoticesInv'
    BY <2>4, NoticesSteps DEF PartnersInv, Next
  <2>5. ASSUME scene = "seeding" PROVE SeedInv'
    BY <2>5, SeedSteps DEF PartnersInv, Next
  <2> QED
    BY <2>1, <2>2, <2>3, <2>4, <2>5 DEF PartnersInv
<1>3. PartnersInv => PartnersTypeOK
  BY KitchenTyped, MenuTyped DEF PartnersInv, PartnersTypeOK, NoticesInv, SeedInv
<1> QED
  BY <1>1, <1>2, <1>3, PTL DEF Spec
=============================================================================
