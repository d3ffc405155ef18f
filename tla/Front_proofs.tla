---------------------------- MODULE Front_proofs -----------------------------
(* Theorems about outlets, the payment gateways' configuration, hosted events *)
(* and the bill (Outlets, GatewayConfig, HostedEvents, Bill), for any of      *)
(* their constants; and about MCFront, which runs one of them or of those     *)
(* Access_proofs is about.                                                    *)
EXTENDS MCFront, Access_proofs, SequenceTheorems

-----------------------------------------------------------------------------
(* Outlets *)

(* The smallest of some numbers is one of them. *)
LEMMA MinOf ==
  ASSUME NEW N \in Nat, NEW S \in SUBSET (0..N), S # {}
  PROVE  Min(S) \in S
<1>1. \E n \in S : \A m \in S : n <= m
  BY LeastOf
<1> QED
  BY <1>1 DEF Min

-----------------------------------------------------------------------------
(* Outlets: types *)

DeskRecs == [pc : DeskPCs, kind : {"edit", "look", "tell"}, o : Cafes \cup {NoCafe},
             asks : Asks, was : BOOLEAN, open : BOOLEAN, read : CafeRows, n : StoreIds, row : StoreRows]

(* What a request at its desk has read and asked, at each of its steps. *)
AtDesk(k) ==
  /\ k.pc \in {"clear", "save"} => k.o \in Cafes
  /\ k.pc = "clear" => k.asks = "yes"
  /\ k.pc \in {"clear", "save"} => k.read.isDefault = (k.asks = "yes" \/ (k.asks = "unsaid" /\ k.was))
  /\ ~k.row.here => k.row = NoStore

OutletsInv ==
  /\ OutletsTypeOK
  /\ \A n \in StoreIds : ~storeRow[n].here => storeRow[n] = NoStore
  /\ \A d \in Desks : AtDesk(desk[d])

LEMMA NoDeskOk == NoDesk \in DeskRecs /\ AtDesk(NoDesk) /\ NoStore \in StoreRows /\ NoCafeRow \in CafeRows
<1>1. 1 \in StoreIds
  BY OutletBounds DEF StoreIds
<1>2. NoStore \in StoreRows
  BY DEF NoStore, StoreRows
<1>3. NoCafeRow \in CafeRows
  BY DEF NoCafeRow, CafeRows
<1> QED
  BY <1>1, <1>2, <1>3 DEF NoDesk, NoStore, DeskRecs, DeskPCs, Asks, AtDesk

LEMMA DeskTypes == OutletsTypeOK => desk \in [Desks -> DeskRecs]
  BY DEF OutletsTypeOK, DeskRecs

(* A step that leaves the tables alone and sits a request down as it should be keeps the invariant. *)
LEMMA DeskMoves ==
  ASSUME OutletsInv, NEW d \in Desks, NEW k \in DeskRecs, AtDesk(k), desk' = [desk EXCEPT ![d] = k]
  PROVE  desk' \in [Desks -> DeskRecs] /\ \A e \in Desks : AtDesk(desk'[e])
<1>1. desk \in [Desks -> DeskRecs]
  BY DeskTypes DEF OutletsInv
<1> QED
  BY <1>1 DEF OutletsInv

LEMMA DeskEnded == [NoDesk EXCEPT !.pc = "done"] \in DeskRecs /\ AtDesk([NoDesk EXCEPT !.pc = "done"])
<1> DEFINE k == [NoDesk EXCEPT !.pc = "done"]
<1>1. k \in DeskRecs
  BY NoDeskOk DEF DeskRecs, DeskPCs
<1>2. k.pc = "done" /\ k.row = NoStore
  BY DEF NoDesk
<1> HIDE DEF k
<1>3. AtDesk(k)
  BY <1>2 DEF AtDesk
<1> QED
  BY <1>1, <1>3 DEF k

LEMMA OutletsStart == OutletsInit => OutletsInv
<1> SUFFICES ASSUME OutletsInit PROVE OutletsInv
  OBVIOUS
<1>1. desk \in [Desks -> DeskRecs] /\ \A d \in Desks : AtDesk(desk[d])
  BY NoDeskOk DEF OutletsInit
<1>2. cafe \in [Cafes -> CafeRows]
  BY NoDeskOk DEF OutletsInit, CafeRows
<1>3. storeRow \in [StoreIds -> StoreRows] /\ \A n \in StoreIds : ~storeRow[n].here => storeRow[n] = NoStore
  <2>1. PICK seeded \in BOOLEAN :
          storeRow = [n \in StoreIds |-> IF n = 1 /\ seeded THEN [here |-> TRUE, of |-> FirstCafe, open |-> TRUE] ELSE NoStore]
    BY DEF OutletsInit
  <2>2. [here |-> TRUE, of |-> FirstCafe, open |-> TRUE] \in StoreRows
    BY OutletBounds DEF StoreRows
  <2>3. \A n \in StoreIds : storeRow[n] = [here |-> TRUE, of |-> FirstCafe, open |-> TRUE] \/ storeRow[n] = NoStore
    BY <2>1
  <2> QED
    BY <2>1, <2>2, <2>3, NoDeskOk
<1> QED
  BY <1>1, <1>2, <1>3 DEF OutletsInv, OutletsTypeOK, OutletsInit, DeskRecs

(* The requests that only read: where they go on. *)
LEMMA ReadsKeep ==
  ASSUME OutletsInv, NEW d \in Desks,
         \/ \E o \in Cafes : EditRead(d, o)
         \/ LookStart(d) \/ StoreFind(d) \/ LegacyRead(d) \/ NumberRead(d)
         \/ \E o \in Cafes \cup {NoCafe}, open \in BOOLEAN : TellStart(d, o, open)
  PROVE  OutletsInv'
<1>1. UNCHANGED <<cafe, storeRow, outletHistories>>
  BY DEF EditRead, LookStart, StoreFind, DeskEnds, LegacyRead, NumberRead, TellStart
<1>2. desk[d] \in DeskRecs /\ AtDesk(desk[d]) /\ desk \in [Desks -> DeskRecs]
  BY DeskTypes DEF OutletsInv
<1>3. storeRow \in [StoreIds -> StoreRows] /\ cafe \in [Cafes -> CafeRows]
  BY DEF OutletsInv, OutletsTypeOK
<1> DEFINE Sits == \E k \in DeskRecs : AtDesk(k) /\ desk' = [desk EXCEPT ![d] = k]
<1>4. Sits
  <2>1. ASSUME NEW o \in Cafes, EditRead(d, o) PROVE Sits
    <3>1. PICK link \in BOOLEAN, asks \in Asks :
           desk' = [desk EXCEPT ![d] = [NoDesk EXCEPT !.pc = IF asks = "yes" THEN "clear" ELSE "save",
                                                      !.kind = "edit", !.o = o, !.asks = asks, !.was = cafe[o].isDefault,
                                                      !.read = Edited(cafe[o], link, asks)]]
      BY <2>1 DEF EditRead
    <3> DEFINE pc == IF asks = "yes" THEN "clear" ELSE "save"
               r == Edited(cafe[o], link, asks)
               k == [NoDesk EXCEPT !.pc = pc, !.kind = "edit", !.o = o, !.asks = asks, !.was = cafe[o].isDefault,
                                   !.read = r]
    <3>2. cafe[o] \in CafeRows /\ cafe[o].isDefault \in BOOLEAN /\ cafe[o].linked \in BOOLEAN
      BY <1>3 DEF CafeRows
    <3>3. r \in CafeRows /\ r.isDefault = (asks = "yes" \/ (asks = "unsaid" /\ cafe[o].isDefault))
      BY <3>2 DEF Edited, CafeRows, Asks
    <3>4. pc \in DeskPCs /\ (pc = "clear" => asks = "yes")
      BY DEF DeskPCs
    <3> HIDE DEF pc, r
    <3>5. k \in DeskRecs
      BY <3>2, <3>3, <3>4, NoDeskOk DEF DeskRecs
    <3>6. k.pc = pc /\ k.o = o /\ k.asks = asks /\ k.was = cafe[o].isDefault /\ k.read = r /\ k.row = NoStore
      BY DEF NoDesk
    <3>7. desk' = [desk EXCEPT ![d] = k]
      BY <3>1 DEF pc, r
    <3> HIDE DEF k
    <3>8. AtDesk(k)
      BY <3>3, <3>4, <3>6 DEF AtDesk
    <3> QED
      BY <3>5, <3>7, <3>8
  <2>2. ASSUME LookStart(d) PROVE Sits
    <3>1. PICK o \in Cafes : desk' = [desk EXCEPT ![d] = [NoDesk EXCEPT !.pc = "find", !.o = o]]
      BY <2>2 DEF LookStart
    <3> DEFINE k == [NoDesk EXCEPT !.pc = "find", !.o = o]
    <3>2. k \in DeskRecs
      BY NoDeskOk DEF DeskRecs, DeskPCs
    <3>3. k.pc = "find" /\ k.row = NoStore
      BY DEF NoDesk
    <3> HIDE DEF k
    <3>4. AtDesk(k)
      BY <3>3 DEF AtDesk
    <3> QED
      BY <3>1, <3>2, <3>4 DEF k
  <2>3. ASSUME NEW pc \in {"find", "legacy"}, NEW c \in Cafes \cup {NoCafe}, NEW open \in BOOLEAN,
               desk' = [desk EXCEPT ![d] = [NoDesk EXCEPT !.pc = pc, !.kind = "tell", !.o = c, !.open = open]]
        PROVE  Sits
    <3> DEFINE k == [NoDesk EXCEPT !.pc = pc, !.kind = "tell", !.o = c, !.open = open]
    <3>2. k \in DeskRecs
      BY NoDeskOk DEF DeskRecs, DeskPCs
    <3>3. k.pc = pc /\ k.row = NoStore
      BY DEF NoDesk
    <3> HIDE DEF k
    <3>4. AtDesk(k)
      BY <3>3 DEF AtDesk
    <3> QED
      BY <2>3, <3>2, <3>4 DEF k
  <2>4. ASSUME NEW o \in Cafes \cup {NoCafe}, NEW open \in BOOLEAN, TellStart(d, o, open) PROVE Sits
    <3>1. PICK c \in Cafes \cup {NoCafe} :
            desk' = [desk EXCEPT ![d] = [NoDesk EXCEPT !.pc = IF c = NoCafe THEN "legacy" ELSE "find",
                                                       !.kind = "tell", !.o = c, !.open = open]]
      BY <2>4 DEF TellStart, Defaults
    <3>2. CASE c = NoCafe
      BY <3>1, <3>2, <2>3
    <3>3. CASE c # NoCafe
      BY <3>1, <3>3, <2>3
    <3> QED
      BY <3>2, <3>3
  <2>5. ASSUME NEW pc \in {"legacy", "number"}, desk' = [desk EXCEPT ![d] = [desk[d] EXCEPT !.pc = pc]]
        PROVE  Sits
    <3> DEFINE k == [desk[d] EXCEPT !.pc = pc]
    <3>1. k \in DeskRecs
      BY <1>2 DEF DeskRecs, DeskPCs
    <3>2. k.pc = pc /\ k.row = desk[d].row
      BY <1>2 DEF DeskRecs
    <3>3. desk' = [desk EXCEPT ![d] = k]
      BY <2>5
    <3> HIDE DEF k
    <3>4. AtDesk(k)
      BY <1>2, <3>2 DEF AtDesk
    <3> QED
      BY <3>1, <3>3, <3>4
  <2>6. ASSUME NEW n \in StoreIds, NEW row \in StoreRows, ~row.here => row = NoStore,
               desk' = [desk EXCEPT ![d] = [desk[d] EXCEPT !.pc = "store", !.n = n, !.row = row]]
        PROVE  Sits
    <3> DEFINE k == [desk[d] EXCEPT !.pc = "store", !.n = n, !.row = row]
    <3>1. k \in DeskRecs
      BY <1>2 DEF DeskRecs, DeskPCs
    <3>2. k.pc = "store" /\ k.row = row
      BY <1>2 DEF DeskRecs
    <3>3. desk' = [desk EXCEPT ![d] = k]
      BY <2>6
    <3> HIDE DEF k
    <3>4. AtDesk(k)
      BY <2>6, <3>2 DEF AtDesk
    <3> QED
      BY <3>1, <3>3, <3>4
  <2>7. ASSUME StoreFind(d) PROVE Sits
    <3>1. CASE desk[d].kind # "tell" /\ StoresOf(desk[d].o) # {}
      BY <2>7, <3>1, DeskEnded DEF StoreFind, DeskEnds
    <3>2. CASE desk[d].kind = "tell" /\ StoresOf(desk[d].o) # {}
      <4> DEFINE n == Min(StoresOf(desk[d].o))
      <4>1. desk' = [desk EXCEPT ![d] = [desk[d] EXCEPT !.pc = "store", !.n = n, !.row = storeRow[n]]]
        BY <1>2, <2>7, <3>2 DEF StoreFind
      <4>2. StoresOf(desk[d].o) \in SUBSET (0..MaxStores) /\ StoresOf(desk[d].o) \subseteq StoreIds
        BY OutletBounds DEF StoresOf, StoreIds
      <4>3. n \in StoreIds
        BY <3>2, <4>2, MinOf, OutletBounds
      <4> HIDE DEF n
      <4> QED
        BY <1>3, <2>6, <4>1, <4>3 DEF OutletsInv
    <3>3. CASE StoresOf(desk[d].o) = {}
      BY <1>2, <2>5, <2>7, <3>3 DEF StoreFind
    <3> QED
      BY <3>1, <3>2, <3>3
  <2>8. ASSUME LegacyRead(d) PROVE Sits
    <3>1. CASE desk[d].kind = "tell" \/ (storeRow[1].here /\ storeRow[1].of = NoCafe)
      <4>1. desk' = [desk EXCEPT ![d] = [desk[d] EXCEPT !.pc = "store", !.n = 1, !.row = storeRow[1]]]
        BY <1>2, <2>8, <3>1 DEF LegacyRead
      <4>2. 1 \in StoreIds
        BY OutletBounds DEF StoreIds
      <4> QED
        BY <1>3, <2>6, <4>1, <4>2 DEF OutletsInv
    <3>2. CASE ~(desk[d].kind = "tell" \/ (storeRow[1].here /\ storeRow[1].of = NoCafe))
      BY <1>2, <2>5, <2>8, <3>2 DEF LegacyRead
    <3> QED
      BY <3>1, <3>2
  <2>9. ASSUME NumberRead(d) PROVE Sits
    <3> DEFINE taken == {0} \cup {m \in StoreIds : storeRow[m].here}
               n == Max(taken) + 1
    <3>1. taken \in SUBSET (0..MaxStores) /\ taken # {}
      BY OutletBounds DEF StoreIds
    <3>2. Max(taken) \in Nat
      <4> HIDE DEF taken
      <4>1. Max(taken) \in taken
        BY <3>1, MaxOf, OutletBounds
      <4>2. taken \subseteq 0..MaxStores /\ 0..MaxStores \subseteq Nat
        BY <3>1, OutletBounds
      <4> QED
        BY <4>1, <4>2
    <3>3. n <= MaxStores /\ desk' = [desk EXCEPT ![d] = [desk[d] EXCEPT !.pc = "store", !.n = n, !.row = NoStore]]
      BY <1>2, <2>9 DEF NumberRead
    <3>4. n \in StoreIds
      BY <3>2, <3>3, OutletBounds DEF StoreIds
    <3> HIDE DEF n
    <3> QED
      BY <2>6, <3>3, <3>4, NoDeskOk
  <2> QED
    BY <2>1, <2>2, <2>4, <2>7, <2>8, <2>9
<1>5. desk' \in [Desks -> DeskRecs] /\ \A e \in Desks : AtDesk(desk'[e])
  BY <1>4, DeskMoves
<1> QED
  BY <1>1, <1>5 DEF OutletsInv, OutletsTypeOK, outletHistories, DeskRecs

LEMMA EditStoreKeeps ==
  ASSUME OutletsInv, NEW d \in Desks, EditClear(d) \/ EditSave(d)
  PROVE  OutletsInv'
<1>1. desk[d] \in DeskRecs /\ AtDesk(desk[d]) /\ desk \in [Desks -> DeskRecs]
  BY DeskTypes DEF OutletsInv
<1>2. cafe \in [Cafes -> CafeRows] /\ undefaulted \in BOOLEAN /\ torn \in BOOLEAN /\ moved \in BOOLEAN
      /\ told \in [Cafes -> BOOLEAN] /\ storeRow \in [StoreIds -> StoreRows]
  BY DEF OutletsInv, OutletsTypeOK
<1>3. desk' \in [Desks -> DeskRecs] /\ \A e \in Desks : AtDesk(desk'[e])
  <2>1. CASE EditClear(d)
    <3> DEFINE k == [desk[d] EXCEPT !.pc = "save"]
    <3>1. k \in DeskRecs
      BY <1>1 DEF DeskRecs, DeskPCs
    <3>2. k.pc = "save" /\ k.row = desk[d].row /\ k.o = desk[d].o /\ k.asks = desk[d].asks /\ k.was = desk[d].was
          /\ k.read = desk[d].read
      BY <1>1 DEF DeskRecs
    <3>3. desk' = [desk EXCEPT ![d] = k] /\ desk[d].pc = "clear"
      BY <2>1 DEF EditClear
    <3> HIDE DEF k
    <3>4. AtDesk(k)
      BY <1>1, <3>2, <3>3 DEF AtDesk
    <3> QED
      BY <3>1, <3>3, <3>4, DeskMoves
  <2>2. CASE EditSave(d)
    <3>1. CASE DeskEnds(d)
      BY <3>1, DeskEnded, DeskMoves DEF DeskEnds
    <3>2. CASE desk' = [desk EXCEPT ![d] = [NoDesk EXCEPT !.pc = "find", !.kind = "edit", !.o = desk[d].o]]
      <4> DEFINE k == [NoDesk EXCEPT !.pc = "find", !.kind = "edit", !.o = desk[d].o]
      <4>1. k \in DeskRecs
        BY <1>1, NoDeskOk DEF DeskRecs, DeskPCs
      <4>2. k.pc = "find" /\ k.row = NoStore
        BY DEF NoDesk
      <4> HIDE DEF k
      <4>3. AtDesk(k)
        BY <4>2 DEF AtDesk
      <4> QED
        BY <3>2, <4>1, <4>3, DeskMoves DEF k
    <3> QED
      BY <2>2, <3>1, <3>2 DEF EditSave
  <2> QED
    BY <2>1, <2>2
<1>4. cafe' \in [Cafes -> CafeRows]
  <2>1. CASE EditClear(d)
    <3>1. \A o \in Cafes : [cafe[o] EXCEPT !.isDefault = FALSE] \in CafeRows
      BY <1>2 DEF CafeRows
    <3> QED
      BY <2>1, <3>1 DEF EditClear
  <2>2. CASE EditSave(d)
    <3>1. desk[d].read \in CafeRows
      BY <1>1 DEF DeskRecs
    <3> QED
      BY <1>2, <2>2, <3>1 DEF EditSave
  <2> QED
    BY <2>1, <2>2
<1>5. undefaulted' \in BOOLEAN /\ torn' \in BOOLEAN /\ UNCHANGED <<storeRow, told, moved>>
  BY <1>2 DEF EditClear, EditSave, outletHistories
<1> QED
  BY <1>2, <1>3, <1>4, <1>5 DEF OutletsInv, OutletsTypeOK, DeskRecs

LEMMA SaveTyped ==
  ASSUME OutletsInv, NEW d \in Desks, desk[d].pc = "store"
  PROVE  /\ Told(d) \in StoreRows /\ Claimed(d) \in StoreRows
         /\ Told(d).here /\ Claimed(d).here
  BY DeskTypes DEF OutletsInv, Told, Claimed, StoreRows, DeskRecs

LEMMA StoreKeeps ==
  ASSUME OutletsInv, NEW d \in Desks, StoreSave(d)
  PROVE  OutletsInv'
<1>1. desk[d] \in DeskRecs /\ desk[d].row \in StoreRows /\ desk[d].n \in StoreIds /\ desk[d].open \in BOOLEAN
      /\ desk[d].row.open \in BOOLEAN
  BY DeskTypes DEF OutletsInv, DeskRecs, StoreRows
<1>2. desk' \in [Desks -> DeskRecs] /\ \A e \in Desks : AtDesk(desk'[e])
  BY DeskEnded, DeskMoves DEF StoreSave, DeskEnds
<1> DEFINE row == IF desk[d].kind = "tell" THEN Told(d) ELSE Claimed(d)
<1>3. row \in StoreRows /\ row.here
  BY SaveTyped DEF StoreSave
<1>4. CASE /\ storeRow' = [storeRow EXCEPT ![desk[d].n] = row]
           /\ told' = IF desk[d].o # NoCafe /\ (desk[d].kind = "tell" \/ desk[d].row.here)
                         THEN [told EXCEPT ![desk[d].o] = IF desk[d].kind = "tell" THEN desk[d].open ELSE desk[d].row.open]
                         ELSE told
           /\ torn' = (torn \/ storeRow[desk[d].n] # desk[d].row)
           /\ moved' = (moved \/ storeRow[desk[d].n].of \notin {NoCafe, desk[d].o})
           /\ UNCHANGED <<cafe, undefaulted>>
  <2> HIDE DEF row
  <2>1. storeRow' \in [StoreIds -> StoreRows] /\ \A n \in StoreIds : ~storeRow'[n].here => storeRow'[n] = NoStore
    BY <1>1, <1>3, <1>4 DEF OutletsInv, OutletsTypeOK
  <2> DEFINE says == IF desk[d].kind = "tell" THEN desk[d].open ELSE desk[d].row.open
  <2>2. says \in BOOLEAN
    BY <1>1
  <2>3. told' = told \/ told' = [told EXCEPT ![desk[d].o] = says]
    BY <1>4
  <2> HIDE DEF says
  <2>4. told \in [Cafes -> BOOLEAN] /\ torn \in BOOLEAN /\ moved \in BOOLEAN
    BY DEF OutletsInv, OutletsTypeOK
  <2>5. told' \in [Cafes -> BOOLEAN]
    BY <2>2, <2>3, <2>4
  <2>6. torn' \in BOOLEAN /\ moved' \in BOOLEAN
    BY <1>4, <2>4
  <2> QED
    BY <1>2, <1>4, <2>1, <2>5, <2>6 DEF OutletsInv, OutletsTypeOK, DeskRecs
<1>5. CASE UNCHANGED <<storeRow, told, torn, moved, cafe, undefaulted>>
  BY <1>2, <1>5 DEF OutletsInv, OutletsTypeOK, DeskRecs
<1> HIDE DEF row
<1> QED
  BY <1>4, <1>5 DEF StoreSave, row

LEMMA OutletsSteps == OutletsInv /\ [OutletsNext]_outletVars => OutletsInv'
<1> SUFFICES ASSUME OutletsInv, [OutletsNext]_outletVars PROVE OutletsInv'
  OBVIOUS
<1>1. CASE UNCHANGED outletVars
  BY <1>1 DEF OutletsInv, OutletsTypeOK, outletVars, outletHistories
<1>2. CASE OutletsNext
  BY <1>2, ReadsKeep, EditStoreKeeps, StoreKeeps DEF OutletsNext
<1> QED
  BY <1>1, <1>2

LEMMA OutletsHold == OutletsSpec => []OutletsInv
  BY OutletsStart, OutletsSteps, PTL DEF OutletsSpec

(* The outlets, the store's rows and the requests keep their types; OutletsTypeOK. *)
THEOREM OutletsTypeSafe == OutletsSpec => []OutletsTypeOK
<1>1. OutletsInv => OutletsTypeOK
  BY DEF OutletsInv
<1> QED
  BY <1>1, OutletsHold, PTL

-----------------------------------------------------------------------------
(* Outlets: the default *)

(* A request moves nobody but itself. *)
LEMMA OthersWait ==
  ASSUME OutletsInv, NEW d \in Desks,
         \/ \E o \in Cafes : EditRead(d, o)
         \/ EditClear(d) \/ EditSave(d) \/ LookStart(d)
         \/ StoreFind(d) \/ LegacyRead(d) \/ NumberRead(d) \/ StoreSave(d)
         \/ \E o \in Cafes \cup {NoCafe}, open \in BOOLEAN : TellStart(d, o, open)
  PROVE  \A e \in Desks \ {d} : desk'[e] = desk[e]
<1>1. desk \in [Desks -> DeskRecs]
  BY DeskTypes DEF OutletsInv
<1>2. ASSUME NEW k, desk' = [desk EXCEPT ![d] = k]
      PROVE  \A e \in Desks \ {d} : desk'[e] = desk[e]
  BY <1>1, <1>2
<1>3. CASE \E o \in Cafes : EditRead(d, o)
  BY <1>2, <1>3 DEF EditRead
<1>4. CASE EditClear(d)
  BY <1>1, <1>4 DEF EditClear
<1>5. CASE EditSave(d)
  BY <1>2, <1>5 DEF EditSave, DeskEnds
<1>6. CASE LookStart(d)
  BY <1>2, <1>6 DEF LookStart
<1>7. CASE StoreFind(d)
  <2>1. CASE DeskEnds(d)
    BY <1>2, <2>1 DEF DeskEnds
  <2>2. CASE ~DeskEnds(d)
    BY <1>1, <1>7, <2>2 DEF StoreFind
  <2> QED
    BY <2>1, <2>2
<1>8. CASE LegacyRead(d)
  BY <1>1, <1>8 DEF LegacyRead
<1>9. CASE NumberRead(d)
  BY <1>1, <1>9 DEF NumberRead
<1>10. CASE StoreSave(d)
  BY <1>2, <1>10 DEF StoreSave, DeskEnds
<1>11. CASE \E o \in Cafes \cup {NoCafe}, open \in BOOLEAN : TellStart(d, o, open)
  BY <1>2, <1>11 DEF TellStart
<1> QED
  BY <1>3, <1>4, <1>5, <1>6, <1>7, <1>8, <1>9, <1>10, <1>11

LEMMA DefaultStep ==
  ASSUME OutletsInv, DefaultKept, [OutletsNext]_outletVars
  PROVE  DefaultKept'
<1>1. CASE UNCHANGED outletVars
  BY <1>1 DEF DefaultKept, outletVars, outletHistories, Defaults
<1>2. ASSUME NEW d \in Desks, EditSave(d)
      PROVE  DefaultKept'
  <2>1. desk[d].o \in Cafes /\ desk[d].read.isDefault = (desk[d].asks = "yes" \/ (desk[d].asks = "unsaid" /\ desk[d].was))
        /\ desk[d].asks \in Asks /\ desk[d].was \in BOOLEAN
    BY <1>2, DeskTypes DEF OutletsInv, AtDesk, EditSave, DeskRecs
  <2>2. cafe \in [Cafes -> CafeRows] /\ cafe[desk[d].o].isDefault \in BOOLEAN /\ desk \in [Desks -> DeskRecs]
    BY <2>1, DeskTypes DEF OutletsInv, OutletsTypeOK, CafeRows
  <2>3. \A e \in Desks \ {d} : desk'[e] = desk[e]
    BY <1>2, OthersWait
  <2>4. CASE undefaulted \/ torn
    <3>1. undefaulted => undefaulted'
      BY <1>2, Zenon DEF EditSave
    <3>2. torn => torn'
      BY <1>2, Zenon DEF EditSave
    <3> QED
      BY <2>4, <3>1, <3>2 DEF DefaultKept
  <2>5. CASE ~torn /\ ~undefaulted /\ \E e \in Desks \ {d} : desk[e].pc = "save" /\ desk[e].asks = "yes"
    BY <2>3, <2>5 DEF DefaultKept
  <2>6. CASE ~torn /\ ~undefaulted /\ (desk[d].asks = "yes" \/ Defaults # {})
    <3> DEFINE o == desk[d].o
    <3>1. CASE /\ cafe' = [cafe EXCEPT ![o] = desk[d].read]
               /\ undefaulted' = (undefaulted \/ (desk[d].asks = "no" /\ cafe[o].isDefault))
               /\ torn' = (torn \/ (desk[d].asks = "unsaid" /\ desk[d].was # cafe[o].isDefault))
      <4>1. CASE desk[d].asks = "yes"
        <5>1. cafe'[o].isDefault
          BY <2>1, <2>2, <3>1, <4>1
        <5> QED
          BY <2>1, <5>1 DEF DefaultKept, Defaults
      <4>2. CASE desk[d].asks # "yes"
        <5>1. PICK p \in Cafes : cafe[p].isDefault
          BY <2>6, <4>2 DEF Defaults
        <5>2. CASE p # o
          <6>1. cafe'[p].isDefault
            BY <2>2, <3>1, <5>1, <5>2
          <6> QED
            BY <6>1 DEF DefaultKept, Defaults
        <5>3. CASE p = o
          <6>1. CASE desk[d].asks = "no"
            BY <3>1, <5>1, <5>3, <6>1 DEF DefaultKept
          <6>2. CASE desk[d].asks = "unsaid" /\ ~desk[d].was
            BY <2>1, <3>1, <5>1, <5>3, <6>2 DEF DefaultKept
          <6>3. CASE desk[d].asks = "unsaid" /\ desk[d].was
            <7>1. cafe'[o].isDefault
              BY <2>1, <2>2, <3>1, <6>3
            <7> QED
              BY <2>1, <7>1 DEF DefaultKept, Defaults
          <6> QED
            BY <2>1, <4>2, <6>1, <6>2, <6>3 DEF Asks
        <5> QED
          BY <5>2, <5>3
      <4> QED
        BY <4>1, <4>2
    <3>2. CASE undefaulted' = (undefaulted \/ desk[d].asks = "yes") /\ UNCHANGED cafe
      BY <2>6, <3>2 DEF DefaultKept, Defaults
    <3> QED
      BY <1>2, <3>1, <3>2 DEF EditSave
  <2> QED
    BY <2>4, <2>5, <2>6 DEF DefaultKept
<1>3. ASSUME NEW d \in Desks, EditClear(d)
      PROVE  DefaultKept'
  <2>1. desk[d].asks = "yes" /\ desk[d] \in DeskRecs /\ desk \in [Desks -> DeskRecs]
    BY <1>3, DeskTypes DEF OutletsInv, AtDesk, EditClear
  <2>2. desk'[d].pc = "save" /\ desk'[d].asks = "yes"
    BY <1>3, <2>1 DEF EditClear, DeskRecs
  <2> QED
    BY <2>2 DEF DefaultKept
<1>4. ASSUME NEW d \in Desks, desk[d].pc # "save", UNCHANGED <<cafe, undefaulted>>, torn => torn',
             \A e \in Desks \ {d} : desk'[e] = desk[e]
      PROVE  DefaultKept'
  BY <1>4 DEF DefaultKept, Defaults
<1>5. ASSUME NEW d \in Desks,
             \/ \E o \in Cafes : EditRead(d, o)
             \/ LookStart(d) \/ StoreFind(d) \/ LegacyRead(d) \/ NumberRead(d) \/ StoreSave(d)
             \/ \E o \in Cafes \cup {NoCafe}, open \in BOOLEAN : TellStart(d, o, open)
      PROVE  DefaultKept'
  <2>2. \A e \in Desks \ {d} : desk'[e] = desk[e]
    BY <1>5, OthersWait
  <2>3. desk[d].pc # "save" /\ UNCHANGED <<cafe, undefaulted>>
    BY <1>5 DEF EditRead, LookStart, StoreFind, LegacyRead, NumberRead, StoreSave, TellStart, outletHistories
  <2>4. torn => torn'
    <3>1. CASE StoreSave(d)
      BY <3>1 DEF StoreSave
    <3>2. CASE ~StoreSave(d)
      BY <1>5, <3>2 DEF EditRead, LookStart, StoreFind, LegacyRead, NumberRead, TellStart, outletHistories
    <3> QED
      BY <3>1, <3>2
  <2> QED
    BY <1>4, <2>2, <2>3, <2>4
<1> QED
  BY <1>1, <1>2, <1>3, <1>5 DEF OutletsNext

(* For any number of outlets and of requests about them, there is a default outlet for the *)
(* orders that name none, unless an administrator unset it, an edit failed after its clear, *)
(* or two overlapped; DefaultKept. *)
THEOREM DefaultOutletStays == OutletsSpec => []DefaultKept
<1>1. OutletsInit => DefaultKept
  BY OutletBounds DEF OutletsInit, DefaultKept, Defaults
<1>2. OutletsInv /\ DefaultKept /\ [OutletsNext]_outletVars => DefaultKept'
  BY DefaultStep
<1> QED
  BY <1>1, <1>2, OutletsHold, PTL DEF OutletsSpec

-----------------------------------------------------------------------------
(* Outlets: open as the kitchen told *)

(* What StoreAsTold says of one outlet. *)
AsTold(o) == IF StoresOf(o) = {} THEN told[o] ELSE \A n \in StoresOf(o) : storeRow[n].open = told[o]

LEMMA AsToldStep ==
  ASSUME OutletsInv, StoreAsTold, [OutletsNext]_outletVars
  PROVE  StoreAsTold'
<1>1. CASE UNCHANGED <<storeRow, told>> /\ (torn => torn') /\ (moved => moved')
  BY <1>1 DEF StoreAsTold, StoresOf
<1>2. ASSUME NEW d \in Desks, StoreSave(d), ~UNCHANGED <<storeRow, told, torn, moved>>, ~torn', ~moved'
      PROVE  \A o \in Cafes : AsTold(o)'
  <2> DEFINE row == IF desk[d].kind = "tell" THEN Told(d) ELSE Claimed(d)
  <2>1. PICK n \in StoreIds : n = desk[d].n
    BY DeskTypes DEF OutletsInv, DeskRecs
  <2>2. /\ ~(row.of # NoCafe /\ StoresOf(row.of) \ {n} # {})
        /\ storeRow' = [storeRow EXCEPT ![n] = row]
        /\ told' = IF desk[d].o # NoCafe /\ (desk[d].kind = "tell" \/ desk[d].row.here)
                     THEN [told EXCEPT ![desk[d].o] = IF desk[d].kind = "tell" THEN desk[d].open ELSE desk[d].row.open]
                     ELSE told
        /\ torn' = (torn \/ storeRow[n] # desk[d].row)
        /\ moved' = (moved \/ storeRow[n].of \notin {NoCafe, desk[d].o})
    BY <1>2, <2>1 DEF StoreSave
  <2>3. storeRow[n] = desk[d].row /\ storeRow[n].of \in {NoCafe, desk[d].o} /\ \A o \in Cafes : AsTold(o)
    BY <1>2, <2>2 DEF StoreAsTold, AsTold
  <2>4. /\ row.here /\ desk[d].o \in Cafes \cup {NoCafe}
        /\ storeRow \in [StoreIds -> StoreRows] /\ told \in [Cafes -> BOOLEAN]
        /\ ~storeRow[n].here => storeRow[n] = NoStore
    BY <1>2, SaveTyped, DeskTypes DEF StoreSave, OutletsInv, OutletsTypeOK, DeskRecs
  <2>5. row.of = desk[d].o
    BY <2>3 DEF Told, Claimed
  <2>6. row.open = IF desk[d].kind = "tell" THEN desk[d].open ELSE desk[d].row.open
    BY DEF Told, Claimed
  <2> HIDE DEF row
  <2>7. storeRow'[n] = row /\ \A m \in StoreIds \ {n} : storeRow'[m] = storeRow[m]
    BY <2>2, <2>4
  <2>8. ASSUME NEW o \in Cafes, o # desk[d].o PROVE AsTold(o)'
    <3>1. told'[o] = told[o]
      BY <2>2, <2>4, <2>8
    <3>2. n \notin StoresOf(o) /\ n \notin StoresOf(o)'
      BY <2>3, <2>5, <2>7, <2>8, OutletBounds DEF StoresOf
    <3>3. StoresOf(o)' = StoresOf(o)
      BY <2>7, <3>2 DEF StoresOf
    <3>4. \A m \in StoresOf(o) : storeRow'[m].open = storeRow[m].open
      BY <2>7, <3>2 DEF StoresOf
    <3> QED
      BY <2>3, <3>1, <3>3, <3>4 DEF AsTold
  <2>9. ASSUME NEW o \in Cafes, o = desk[d].o PROVE AsTold(o)'
    <3>1. StoresOf(o) \ {n} = {}
      BY <2>2, <2>5, <2>9, OutletBounds
    <3>2. StoresOf(o)' = {n}
      <4>1. n \in StoresOf(o)'
        BY <2>4, <2>5, <2>7, <2>9 DEF StoresOf
      <4>2. \A m \in StoreIds \ {n} : m \notin StoresOf(o)'
        BY <2>7, <3>1 DEF StoresOf
      <4> QED
        BY <4>1, <4>2 DEF StoresOf
    <3>3. row.open = told'[o]
      <4>1. CASE desk[d].kind = "tell" \/ desk[d].row.here
        BY <2>2, <2>4, <2>6, <2>9, <4>1, OutletBounds
      <4>2. CASE ~(desk[d].kind = "tell" \/ desk[d].row.here)
        <5>1. StoresOf(o) = {}
          BY <2>3, <3>1, <4>2 DEF StoresOf
        <5>2. told[o] = TRUE
          BY <2>3, <2>4, <5>1 DEF AsTold
        <5>3. row.open = TRUE
          BY <2>3, <2>4, <2>6, <4>2 DEF NoStore
        <5> QED
          BY <2>2, <4>2, <5>2, <5>3
      <4> QED
        BY <4>1, <4>2
    <3> QED
      BY <2>7, <3>2, <3>3 DEF AsTold
  <2> QED
    BY <2>8, <2>9
<1>3. ASSUME NEW d \in Desks, StoreSave(d) PROVE StoreAsTold'
  BY <1>1, <1>2, <1>3 DEF StoreAsTold, AsTold
<1>4. ASSUME NEW d \in Desks,
             \/ \E o \in Cafes : EditRead(d, o)
             \/ EditClear(d) \/ EditSave(d)
             \/ LookStart(d) \/ StoreFind(d) \/ LegacyRead(d) \/ NumberRead(d)
             \/ \E o \in Cafes \cup {NoCafe}, open \in BOOLEAN : TellStart(d, o, open)
      PROVE  StoreAsTold'
  <2>1. UNCHANGED <<storeRow, told, moved>>
    BY <1>4 DEF EditRead, EditClear, EditSave, LookStart, StoreFind, LegacyRead, NumberRead, TellStart, outletHistories
  <2>2. torn => torn'
    <3>1. CASE EditSave(d)
      BY <3>1 DEF EditSave
    <3>2. CASE ~EditSave(d)
      BY <1>4, <3>2 DEF EditRead, EditClear, LookStart, StoreFind, LegacyRead, NumberRead, TellStart, outletHistories
    <3> QED
      BY <3>1, <3>2
  <2> QED
    BY <1>1, <2>1, <2>2
<1>5. CASE UNCHANGED outletVars
  BY <1>1, <1>5 DEF outletVars, outletHistories
<1> QED
  BY <1>3, <1>4, <1>5 DEF OutletsNext

(* For any number of outlets, of rows of store_status and of requests, an outlet that the *)
(* kitchen closed is closed until the kitchen opens it, unless two requests saved one row *)
(* over each other or a row changed hands; StoreAsTold. *)
THEOREM OpenAsTold == OutletsSpec => []StoreAsTold
<1>1. OutletsInit => StoreAsTold
  <2> SUFFICES ASSUME OutletsInit, NEW o \in Cafes, NEW n \in StoresOf(o) PROVE storeRow[n].open = told[o]
    BY DEF StoreAsTold, OutletsInit
  <2> QED
    BY DEF OutletsInit, StoresOf, NoStore
<1>2. OutletsInv /\ StoreAsTold /\ [OutletsNext]_outletVars => StoreAsTold'
  BY AsToldStep
<1> QED
  BY <1>1, <1>2, OutletsHold, PTL DEF OutletsSpec

-----------------------------------------------------------------------------
(* GatewayConfig: which gateway takes the payments *)

KeeperPCs == {"idle", "save", "read", "clear", "set", "done"}
KeeperRecs == [pc : KeeperPCs, p : AllProviders, activate : BOOLEAN, row : GatewayRows]

\* What a request read is what stands, unless another wrote since; between its clear and
\* its set no row is active.
RowFresh(k) ==
  k \notin late =>
    /\ keeper[k].pc \in {"save", "clear"} => keeper[k].row = gateway[keeper[k].p]
    /\ keeper[k].pc = "set" => /\ keeper[k].row.here = gateway[keeper[k].p].here
                               /\ keeper[k].row.creds = gateway[keeper[k].p].creds
                               /\ \A p \in AllProviders : ~gateway[p].active

\* The one active row is the one chosen, but while an activation is between its two statements.
OneActive ==
  halfway \/ (\E k \in Keepers : keeper[k].pc = "set") \/ ActiveRows = {chosen} \cap AllProviders

GatewayInv ==
  /\ GatewayTypeOK
  /\ \A p \in AllProviders : ~gateway[p].here => gateway[p].creds = Env
  /\ \A k \in Keepers : RowFresh(k)
  /\ \A k \in Keepers : keeper[k].pc = "idle" => k \notin late
  /\ tangled \/ (OneActive /\ \A p \in AllProviders : CredentialsFor(p) = entered[p])

LEMMA KeeperTypes == GatewayTypeOK => /\ keeper \in [Keepers -> KeeperRecs]
                                      /\ gateway \in [AllProviders -> GatewayRows]
                                      /\ tangled \in BOOLEAN /\ halfway \in BOOLEAN
  BY DEF GatewayTypeOK, KeeperRecs, KeeperPCs

LEMMA NoKeeperOk == NoKeeper \in KeeperRecs /\ NoGateway \in GatewayRows
                    /\ [NoKeeper EXCEPT !.pc = "done"] \in KeeperRecs /\ [NoKeeper EXCEPT !.pc = "done"].pc = "done"
<1>1. NoGateway \in GatewayRows
  BY DEF NoGateway, GatewayRows
<1>2. NoKeeper \in KeeperRecs
  BY <1>1 DEF NoKeeper, KeeperRecs, KeeperPCs, AllProviders
<1>3. [NoKeeper EXCEPT !.pc = "done"] \in KeeperRecs
  BY <1>2 DEF KeeperRecs, KeeperPCs
<1> QED
  BY <1>1, <1>2, <1>3 DEF NoKeeper

LEMMA GatewayStart == GatewayInit => GatewayInv
<1> SUFFICES ASSUME GatewayInit PROVE GatewayInv
  OBVIOUS
<1>1. GatewayTypeOK
  BY NoKeeperOk DEF GatewayInit, GatewayTypeOK, KeeperRecs, KeeperPCs
<1>2. \A k \in Keepers : keeper[k].pc = "idle"
  BY DEF GatewayInit, NoKeeper
<1>3. \A p \in AllProviders : gateway[p] = NoGateway
  BY DEF GatewayInit
<1>4. OneActive
  <2>1. ActiveRows = {}
    BY <1>3 DEF ActiveRows, NoGateway
  <2>2. {chosen} \cap AllProviders = {}
    BY GatewayBounds DEF GatewayInit, AllProviders, NoProvider, Mock
  <2> QED
    BY <2>1, <2>2 DEF OneActive
<1> QED
  BY <1>1, <1>2, <1>3, <1>4 DEF GatewayInit, GatewayInv, RowFresh, CredentialsFor, NoGateway

(* A request that only reads. *)
LEMMA ConfigReads ==
  ASSUME GatewayInv, NEW k \in Keepers, NEW r \in KeeperRecs,
         keeper' = [keeper EXCEPT ![k] = r], r.pc \in {"save", "clear", "done"}, keeper[k].pc # "set",
         r.pc # "done" => r.row = gateway[r.p],
         late' = late \/ late' = late \ {k},
         UNCHANGED <<gateway, chosen, entered, tangled, halfway>>
  PROVE  GatewayInv'
<1>1. keeper \in [Keepers -> KeeperRecs]
  BY KeeperTypes DEF GatewayInv
<1>2. keeper' \in [Keepers -> KeeperRecs] /\ keeper'[k] = r /\ \A j \in Keepers \ {k} : keeper'[j] = keeper[j]
  BY <1>1
<1>3. late' \subseteq late /\ \A j \in Keepers \ {k} : j \in late' <=> j \in late
  OBVIOUS
<1>4. GatewayTypeOK'
  BY <1>2, <1>3 DEF GatewayInv, GatewayTypeOK, KeeperRecs, KeeperPCs
<1>5. ASSUME NEW j \in Keepers PROVE RowFresh(j)' /\ (keeper'[j].pc = "idle" => j \notin late')
  BY <1>2, <1>3, <1>5 DEF GatewayInv, RowFresh
<1>6. (\E j \in Keepers : keeper[j].pc = "set") => \E j \in Keepers : keeper'[j].pc = "set"
  BY <1>2
<1>7. OneActive => OneActive'
  BY <1>6 DEF OneActive, ActiveRows
<1> QED
  BY <1>4, <1>5, <1>7 DEF GatewayInv, CredentialsFor

(* Whoever else is at work when k writes is late, and need be fresh no more. *)
LEMMA OthersLate ==
  ASSUME GatewayInv, NEW k \in Keepers, Wrote(k), \A j \in Keepers \ {k} : keeper'[j] = keeper[j]
  PROVE  /\ \A j \in Keepers \ {k} : RowFresh(j)' /\ (keeper'[j].pc = "idle" => j \notin late')
         /\ k \in late' <=> k \in late
         /\ late' \subseteq Keepers /\ tangled' \in BOOLEAN
         /\ ~tangled' => ~tangled /\ k \notin late
<1>1. late' = late \cup {j \in Keepers \ {k} : Working(j)} /\ tangled' = (tangled \/ k \in late)
  BY DEF Wrote
<1>2. ASSUME NEW j \in Keepers \ {k} PROVE RowFresh(j)' /\ (keeper'[j].pc = "idle" => j \notin late')
  <2>1. CASE Working(j)
    BY <1>1, <2>1 DEF RowFresh, Working
  <2>2. CASE ~Working(j)
    BY <1>1, <2>2 DEF GatewayInv, RowFresh, Working
  <2> QED
    BY <2>1, <2>2
<1> QED
  BY <1>1, <1>2 DEF GatewayInv, GatewayTypeOK

LEMMA UpsertSaveKeeps ==
  ASSUME GatewayInv, NEW k \in Keepers, UpsertSave(k)
  PROVE  GatewayInv'
<1>1. keeper \in [Keepers -> KeeperRecs] /\ keeper[k] \in KeeperRecs /\ gateway \in [AllProviders -> GatewayRows]
      /\ keeper[k].pc = "save"
  BY KeeperTypes DEF GatewayInv, UpsertSave
<1>2. PICK p \in AllProviders : p = keeper[k].p
  BY <1>1 DEF KeeperRecs
<1>3. CASE gateway[p].here /\ ~keeper[k].row.here
  BY <1>1, <1>2, <1>3, NoKeeperOk, ConfigReads DEF UpsertSave, KeeperEnds
<1>4. CASE ~(gateway[p].here /\ ~keeper[k].row.here)
  <2>1. gateway' = [gateway EXCEPT ![p] = Configured(k)] /\ entered' = [entered EXCEPT ![p] = k] /\ Wrote(k)
        /\ UNCHANGED <<chosen, halfway>>
    BY <1>2, <1>4 DEF UpsertSave
  <2>2. /\ keeper' \in [Keepers -> KeeperRecs] /\ \A j \in Keepers \ {k} : keeper'[j] = keeper[j]
        /\ keeper'[k].pc \in {"read", "done"}
    <3>1. CASE keeper' = [keeper EXCEPT ![k].pc = "read"]
      <4> DEFINE r == [keeper[k] EXCEPT !.pc = "read"]
      <4>1. r \in KeeperRecs /\ r.pc = "read"
        BY <1>1 DEF KeeperRecs, KeeperPCs
      <4>2. keeper' = [keeper EXCEPT ![k] = r]
        BY <3>1
      <4> HIDE DEF r
      <4> QED
        BY <1>1, <4>1, <4>2
    <3>2. CASE KeeperEnds(k)
      BY <1>1, <3>2, NoKeeperOk DEF KeeperEnds
    <3> QED
      BY <1>2, <1>4, <3>1, <3>2 DEF UpsertSave
  <2>3. Configured(k) \in GatewayRows /\ Configured(k).here /\ Configured(k).creds = k
        /\ Configured(k).active = keeper[k].row.active
    BY <1>1 DEF Configured, GatewayRows, KeeperRecs
  <2>4. gateway'[p] = Configured(k) /\ \A q \in AllProviders \ {p} : gateway'[q] = gateway[q]
    BY <1>1, <2>1
  <2>5. entered'[p] = k /\ \A q \in AllProviders \ {p} : entered'[q] = entered[q]
    BY <2>1 DEF GatewayInv, GatewayTypeOK
  <2>6. GatewayTypeOK'
    BY <1>1, <2>1, <2>2, <2>3, OthersLate DEF GatewayInv, GatewayTypeOK, KeeperRecs, KeeperPCs
  <2>7. \A j \in Keepers : RowFresh(j)' /\ (keeper'[j].pc = "idle" => j \notin late')
    <3>1. RowFresh(k)' /\ (keeper'[k].pc = "idle" => k \notin late')
      BY <2>2 DEF RowFresh
    <3> QED
      BY <2>1, <2>2, <3>1, OthersLate
  <2>8. ASSUME ~tangled' PROVE OneActive' /\ \A q \in AllProviders : CredentialsFor(q)' = entered'[q]
    <3>1. ~tangled /\ k \notin late
      BY <2>1, <2>2, <2>8, OthersLate
    <3>2. keeper[k].row = gateway[p]
      BY <1>1, <1>2, <3>1 DEF GatewayInv, RowFresh
    <3>3. ActiveRows' = ActiveRows
      BY <2>3, <2>4, <3>2 DEF ActiveRows
    <3>4. (\E j \in Keepers : keeper[j].pc = "set") => \E j \in Keepers : keeper'[j].pc = "set"
      BY <1>1, <2>2
    <3>5. OneActive'
      BY <2>1, <3>1, <3>3, <3>4 DEF GatewayInv, OneActive
    <3>6. \A q \in AllProviders : CredentialsFor(q)' = entered'[q]
      BY <2>3, <2>4, <2>5, <3>1 DEF GatewayInv, CredentialsFor
    <3> QED
      BY <3>5, <3>6
  <2>9. \A q \in AllProviders : ~gateway'[q].here => gateway'[q].creds = Env
    BY <2>3, <2>4 DEF GatewayInv
  <2> QED
    BY <2>6, <2>7, <2>8, <2>9 DEF GatewayInv
<1> QED
  BY <1>3, <1>4

LEMMA ActivateClearKeeps ==
  ASSUME GatewayInv, NEW k \in Keepers, ActivateClear(k)
  PROVE  GatewayInv'
<1>1. keeper \in [Keepers -> KeeperRecs] /\ keeper[k] \in KeeperRecs /\ gateway \in [AllProviders -> GatewayRows]
      /\ keeper[k].pc = "clear" /\ keeper[k].p \in AllProviders
  BY KeeperTypes DEF GatewayInv, ActivateClear, KeeperRecs
<1> DEFINE r == [keeper[k] EXCEPT !.pc = "set"]
<1>2. r \in KeeperRecs /\ r.pc = "set" /\ r.p = keeper[k].p /\ r.row = keeper[k].row
  BY <1>1 DEF KeeperRecs, KeeperPCs
<1>3. keeper' = [keeper EXCEPT ![k] = r] /\ Wrote(k) /\ UNCHANGED <<chosen, entered, halfway>>
  BY DEF ActivateClear
<1> HIDE DEF r
<1>4. keeper' \in [Keepers -> KeeperRecs] /\ keeper'[k] = r /\ \A j \in Keepers \ {k} : keeper'[j] = keeper[j]
  BY <1>1, <1>2, <1>3
<1>5. ASSUME NEW p \in AllProviders
      PROVE  /\ gateway'[p] \in GatewayRows /\ ~gateway'[p].active
             /\ gateway'[p].here = gateway[p].here /\ gateway'[p].creds = gateway[p].creds
  <2>1. gateway'[p] = [gateway[p] EXCEPT !.active = FALSE] /\ gateway[p] \in GatewayRows
    BY <1>1 DEF ActivateClear
  <2> QED
    BY <2>1 DEF GatewayRows
<1>6. gateway' \in [AllProviders -> GatewayRows]
  <2>1. gateway' = [p \in AllProviders |-> gateway'[p]]
    BY DEF ActivateClear
  <2> QED
    BY <1>5, <2>1
<1>7. GatewayTypeOK'
  BY <1>3, <1>4, <1>6, OthersLate DEF GatewayInv, GatewayTypeOK, KeeperRecs, KeeperPCs
<1>8. \A j \in Keepers : RowFresh(j)' /\ (keeper'[j].pc = "idle" => j \notin late')
  <2>1. RowFresh(k)' /\ (keeper'[k].pc = "idle" => k \notin late')
    BY <1>1, <1>2, <1>3, <1>4, <1>5, OthersLate DEF GatewayInv, RowFresh
  <2> QED
    BY <1>3, <1>4, <2>1, OthersLate
<1>9. OneActive'
  BY <1>2, <1>4 DEF OneActive
<1>10. ~tangled' => ~tangled
  BY <1>3, <1>4, OthersLate
<1> QED
  BY <1>3, <1>5, <1>7, <1>8, <1>9, <1>10 DEF GatewayInv, CredentialsFor

LEMMA ActivateSetKeeps ==
  ASSUME GatewayInv, NEW k \in Keepers, ActivateSet(k)
  PROVE  GatewayInv'
<1>1. keeper \in [Keepers -> KeeperRecs] /\ keeper[k] \in KeeperRecs /\ gateway \in [AllProviders -> GatewayRows]
      /\ keeper[k].pc = "set"
  BY KeeperTypes DEF GatewayInv, ActivateSet
<1>2. PICK p \in AllProviders : p = keeper[k].p
  BY <1>1 DEF KeeperRecs
<1>3. /\ keeper' \in [Keepers -> KeeperRecs] /\ keeper'[k].pc = "done"
      /\ \A j \in Keepers \ {k} : keeper'[j] = keeper[j]
  BY <1>1, NoKeeperOk DEF ActivateSet, KeeperEnds
<1>4. CASE gateway[p].here /\ ~keeper[k].row.here
  <2>1. halfway' = TRUE /\ UNCHANGED <<gateway, chosen, late, tangled, entered>>
    BY <1>2, <1>4 DEF ActivateSet
  <2>2. GatewayTypeOK'
    BY <1>3, <2>1 DEF GatewayInv, GatewayTypeOK, KeeperRecs, KeeperPCs
  <2>3. \A j \in Keepers : RowFresh(j)' /\ (keeper'[j].pc = "idle" => j \notin late')
    BY <1>3, <2>1 DEF GatewayInv, RowFresh
  <2>4. OneActive'
    BY <2>1 DEF OneActive
  <2> QED
    BY <2>1, <2>2, <2>3, <2>4 DEF GatewayInv, CredentialsFor
<1>5. CASE ~(gateway[p].here /\ ~keeper[k].row.here)
  <2>1. gateway' = [gateway EXCEPT ![p] = Activated(k)] /\ chosen' = p /\ Wrote(k) /\ UNCHANGED <<halfway, entered>>
    BY <1>2, <1>5 DEF ActivateSet
  <2>2. Activated(k) \in GatewayRows /\ Activated(k).here /\ Activated(k).active
        /\ Activated(k).creds = keeper[k].row.creds
    BY <1>1 DEF Activated, GatewayRows, KeeperRecs
  <2>3. gateway'[p] = Activated(k) /\ \A q \in AllProviders \ {p} : gateway'[q] = gateway[q]
    BY <1>1, <2>1
  <2>4. GatewayTypeOK'
    BY <1>1, <1>3, <2>1, <2>2, OthersLate DEF GatewayInv, GatewayTypeOK, KeeperRecs, KeeperPCs
  <2>5. \A j \in Keepers : RowFresh(j)' /\ (keeper'[j].pc = "idle" => j \notin late')
    <3>1. RowFresh(k)' /\ (keeper'[k].pc = "idle" => k \notin late')
      BY <1>3 DEF RowFresh
    <3> QED
      BY <1>3, <2>1, <3>1, OthersLate
  <2>6. ASSUME ~tangled' PROVE OneActive' /\ \A q \in AllProviders : CredentialsFor(q)' = entered'[q]
    <3>1. ~tangled /\ k \notin late
      BY <1>3, <2>1, <2>6, OthersLate
    <3>2. /\ keeper[k].row.here = gateway[p].here /\ keeper[k].row.creds = gateway[p].creds
          /\ \A q \in AllProviders : ~gateway[q].active
      BY <1>1, <1>2, <3>1 DEF GatewayInv, RowFresh
    <3>3. ActiveRows' = {p}
      BY <2>2, <2>3, <3>2 DEF ActiveRows
    <3>4. OneActive'
      BY <2>1, <3>3 DEF OneActive
    <3>5. \A q \in AllProviders : CredentialsFor(q)' = entered'[q]
      BY <2>1, <2>2, <2>3, <3>1, <3>2 DEF GatewayInv, CredentialsFor
    <3> QED
      BY <3>4, <3>5
  <2>7. \A q \in AllProviders : ~gateway'[q].here => gateway'[q].creds = Env
    BY <2>2, <2>3 DEF GatewayInv
  <2> QED
    BY <2>4, <2>5, <2>6, <2>7 DEF GatewayInv
<1> QED
  BY <1>4, <1>5

LEMMA KeeperDiesKeeps ==
  ASSUME GatewayInv, NEW k \in Keepers, KeeperDies(k)
  PROVE  GatewayInv'
<1>1. keeper \in [Keepers -> KeeperRecs] /\ halfway \in BOOLEAN
  BY KeeperTypes DEF GatewayInv
<1>2. UNCHANGED <<gateway, chosen, entered, late, tangled>> /\ halfway' = (halfway \/ keeper[k].pc = "set")
  BY DEF KeeperDies
<1>3. /\ keeper' \in [Keepers -> KeeperRecs] /\ keeper'[k].pc = "done"
      /\ \A j \in Keepers \ {k} : keeper'[j] = keeper[j]
  BY <1>1, NoKeeperOk DEF KeeperDies, KeeperEnds
<1>4. GatewayTypeOK'
  <2>1. halfway' \in BOOLEAN
    BY <1>1, <1>2
  <2> QED
    BY <1>2, <1>3, <2>1 DEF GatewayInv, GatewayTypeOK, KeeperRecs, KeeperPCs
<1>5. \A j \in Keepers : RowFresh(j)' /\ (keeper'[j].pc = "idle" => j \notin late')
  BY <1>2, <1>3 DEF GatewayInv, RowFresh
<1>6. OneActive => OneActive'
  <2>1. CASE keeper[k].pc = "set"
    BY <1>2, <2>1 DEF OneActive
  <2>2. CASE keeper[k].pc # "set"
    <3>1. (\E j \in Keepers : keeper[j].pc = "set") => \E j \in Keepers : keeper'[j].pc = "set"
      BY <1>3, <2>2
    <3> QED
      BY <1>2, <3>1 DEF OneActive, ActiveRows
  <2> QED
    BY <2>1, <2>2
<1> QED
  BY <1>2, <1>4, <1>5, <1>6 DEF GatewayInv, CredentialsFor

LEMMA GatewaySteps == GatewayInv /\ [GatewayNext]_gatewayVars => GatewayInv'
<1> SUFFICES ASSUME GatewayInv, [GatewayNext]_gatewayVars PROVE GatewayInv'
  OBVIOUS
<1>1. CASE UNCHANGED gatewayVars
  BY <1>1 DEF GatewayInv, GatewayTypeOK, RowFresh, OneActive, ActiveRows, CredentialsFor, gatewayVars, gatewayHistories
<1>2. ASSUME NEW k \in Keepers, NEW p \in AllProviders, ActivateRead(k, p) PROVE GatewayInv'
  <2>1. keeper[k].pc # "set" /\ UNCHANGED <<gateway, chosen, entered, tangled, halfway>>
    BY <1>2 DEF ActivateRead
  <2>2. gateway[p] \in GatewayRows
    BY KeeperTypes DEF GatewayInv
  <2>3. CASE MayActivate(p)
    <3> DEFINE r == [pc |-> "clear", p |-> p, activate |-> TRUE, row |-> gateway[p]]
    <3>1. r \in KeeperRecs
      BY <2>2 DEF KeeperRecs, KeeperPCs
    <3> QED
      BY <1>2, <2>1, <2>3, <3>1, ConfigReads DEF ActivateRead
  <2>4. CASE ~MayActivate(p)
    BY <1>2, <2>1, <2>4, NoKeeperOk, ConfigReads DEF ActivateRead, KeeperEnds
  <2> QED
    BY <2>3, <2>4
<1>3. ASSUME NEW k \in Keepers, NEW p \in AllProviders, NEW activate \in BOOLEAN, UpsertRead(k, p, activate)
      PROVE  GatewayInv'
  <2> DEFINE r == [pc |-> "save", p |-> p, activate |-> activate, row |-> gateway[p]]
  <2>1. gateway[p] \in GatewayRows
    BY KeeperTypes DEF GatewayInv
  <2>2. r \in KeeperRecs
    BY <2>1 DEF KeeperRecs, KeeperPCs
  <2>3. keeper[k].pc = "idle" /\ keeper' = [keeper EXCEPT ![k] = r] /\ late' = late
        /\ UNCHANGED <<gateway, chosen, entered, tangled, halfway>>
    BY <1>3 DEF UpsertRead, gatewayHistories
  <2> QED
    BY <2>2, <2>3, ConfigReads
<1> QED
  BY <1>1, <1>2, <1>3, UpsertSaveKeeps, ActivateClearKeeps, ActivateSetKeeps, KeeperDiesKeeps DEF GatewayNext

LEMMA GatewayHolds == GatewaySpec => []GatewayInv
  BY GatewayStart, GatewaySteps, PTL DEF GatewaySpec

(* The rows, the requests of administrators and the histories keep their types; GatewayTypeOK. *)
THEOREM GatewayTypeSafe == GatewaySpec => []GatewayTypeOK
<1>1. GatewayInv => GatewayTypeOK
  BY DEF GatewayInv
<1> QED
  BY <1>1, GatewayHolds, PTL

(* For any providers and any requests of administrators, payments go to the gateway that *)
(* was activated last with the credentials that were entered last, unless a request saved *)
(* over another's or an activation was cut short; PaymentsGoAsChosen. *)
THEOREM ChosenGatewayTakes == GatewaySpec => []PaymentsGoAsChosen
<1>1. GatewayInv => PaymentsGoAsChosen
  <2> SUFFICES ASSUME GatewayInv, ~tangled, ~halfway, ~\E k \in Keepers : keeper[k].pc = "set"
               PROVE  /\ chosen # NoProvider => Candidates = {chosen}
                      /\ \A p \in Candidates : CredentialsFor(p) = entered[p]
    BY DEF PaymentsGoAsChosen
  <2>1. ActiveRows = {chosen} \cap AllProviders /\ \A p \in AllProviders : CredentialsFor(p) = entered[p]
    BY DEF GatewayInv, OneActive
  <2>2. chosen # NoProvider => Candidates = {chosen}
    BY <2>1 DEF GatewayInv, GatewayTypeOK, Candidates
  <2>3. Candidates \subseteq AllProviders
    BY GatewayBounds DEF Candidates, ActiveRows, Fallback, AllProviders
  <2> QED
    BY <2>1, <2>2, <2>3
<1> QED
  BY <1>1, GatewayHolds, PTL

-----------------------------------------------------------------------------
(* HostedEvents: rows and what is made of them *)

Wordings == Reasons \cup {NoReason, ByAdmin}
ReviewRecs == [pc : {"idle", "save", "tell"}, read : EventRows, row : EventRows, rejects : BOOLEAN]

\* An event has a reason just when it is rejected.
Reasoned(row) == row.status = "rejected" <=> row.reason # NoReason

\* The row that a request will save, by the one that it read.
RowMade(r) ==
  /\ Reasoned(r.read) /\ Reasoned(r.row) /\ r.row.host = r.read.host /\ r.read.status # "none"
  /\ IF r.rejects THEN r.row.status = "rejected" ELSE \E to \in EventStatuses : r.row = Updated(r.read, to)

LEMMA UpdatedRow ==
  ASSUME NEW row \in EventRows, NEW to \in EventStatuses, Reasoned(row)
  PROVE  /\ Updated(row, to) \in EventRows /\ Updated(row, to).host = row.host /\ Reasoned(Updated(row, to))
         /\ Updated(row, to).status = row.status => Updated(row, to) = row
<1>1. NoReason # ByAdmin
  BY DEF NoReason, ByAdmin
<1>2. row.host \in BOOLEAN /\ row.status \in EventStatuses /\ row.reason \in Wordings
      /\ row = [host |-> row.host, status |-> row.status, reason |-> row.reason]
  BY DEF EventRows, Wordings
<1>3. PICK s \in EventStatuses, w \in Wordings : Updated(row, to) = [row EXCEPT !.status = s, !.reason = w]
        /\ s = (IF to = "none" THEN row.status ELSE to)
        /\ (to = "rejected" /\ row.reason = NoReason => w = ByAdmin)
        /\ (to \in {"review", "published"} => w = NoReason)
        /\ (to \notin {"review", "published"} /\ ~(to = "rejected" /\ row.reason = NoReason) => w = row.reason)
  <2>1. CASE to = "rejected" /\ row.reason = NoReason
    BY <1>2, <2>1 DEF Updated, Wordings
  <2>2. CASE to \in {"review", "published"}
    BY <1>2, <2>2 DEF Updated, Wordings
  <2>3. CASE to \notin {"review", "published"} /\ ~(to = "rejected" /\ row.reason = NoReason)
    BY <1>2, <2>3 DEF Updated, Wordings
  <2> QED
    BY <2>1, <2>2, <2>3
<1>4. Updated(row, to) = [host |-> row.host, status |-> s, reason |-> w]
  BY <1>2, <1>3
<1>5. [host |-> row.host, status |-> s, reason |-> w] \in EventRows
  BY <1>2 DEF EventRows, Wordings
<1>6. s = "rejected" <=> w # NoReason
  BY <1>1, <1>3 DEF Reasoned, EventStatuses
<1>7. s = row.status => w = row.reason
  BY <1>3 DEF Reasoned, EventStatuses
<1> HIDE DEF Updated
<1> QED
  BY <1>2, <1>4, <1>5, <1>6, <1>7 DEF Reasoned

-----------------------------------------------------------------------------
(* What the host knows *)

\* Of the row as it is.
Aware(row, n) == /\ row.status = "rejected" => n = [type |-> "event-rejected", reason |-> row.reason]
                 /\ row.status = "published" => n # NoNotice

ReviewsOk ==
  /\ hosted \in EventRows /\ Reasoned(hosted)
  /\ review \in [Reviewers -> ReviewRecs]
  /\ \A a \in Reviewers : review[a].pc # "idle" => RowMade(review[a])
  /\ \A a \in Reviewers : review[a].pc = "tell" => Notice(review[a]) # NoNotice
  /\ notice \in [type : {"nothing", "event-published", "event-rejected"}, reason : Wordings]
  /\ blurred \in BOOLEAN

\* Or somebody is about to tell.
AwareOrWill == hosted.host /\ ~blurred => Aware(hosted, notice) \/ \E a \in Reviewers : review[a].pc = "tell"

HostedInv == ReviewsOk /\ AwareOrWill

LEMMA NoticeTypes ==
  ASSUME NEW r \in ReviewRecs
  PROVE  Notice(r) \in [type : {"nothing", "event-published", "event-rejected"}, reason : Wordings]
<1>1. r.row.reason \in Wordings
  BY DEF ReviewRecs, EventRows, Wordings
<1>2. CASE r.rejects \/ (r.read.status # "rejected" /\ r.row.status = "rejected")
  BY <1>1, <1>2 DEF Notice
<1>3. CASE ~(r.rejects \/ (r.read.status # "rejected" /\ r.row.status = "rejected"))
           /\ ~r.rejects /\ r.read.status = "review" /\ r.row.status = "published"
  BY <1>3 DEF Notice, Wordings
<1>4. CASE ~(r.rejects \/ (r.read.status # "rejected" /\ r.row.status = "rejected"))
           /\ ~(~r.rejects /\ r.read.status = "review" /\ r.row.status = "published")
  BY <1>4 DEF Notice, Wordings, NoNotice
<1> QED
  BY <1>2, <1>3, <1>4

(* A notice that there is says what was saved. *)
LEMMA NoticeTells == ASSUME NEW r \in ReviewRecs, RowMade(r), Notice(r) # NoNotice PROVE Aware(r.row, Notice(r))
<1>1. CASE r.rejects \/ (r.read.status # "rejected" /\ r.row.status = "rejected")
  BY <1>1 DEF Notice, Aware, RowMade
<1>2. CASE ~(r.rejects \/ (r.read.status # "rejected" /\ r.row.status = "rejected"))
  <2>1. r.row.status = "published"
    BY <1>2 DEF Notice
  <2> QED
    BY <2>1 DEF Aware
<1> QED
  BY <1>1, <1>2

(* Nothing is said of a row that is saved as it was, of one in review, or of one *)
(* that was rejected and is published.                                          *)
LEMMA NothingToTell ==
  ASSUME NEW r \in ReviewRecs, RowMade(r), Notice(r) = NoNotice, NEW n, Aware(r.read, n)
  PROVE  Aware(r.row, n)
<1>1. ~r.rejects /\ ~(r.read.status # "rejected" /\ r.row.status = "rejected")
  BY DEF Notice, NoNotice
<1>2. ~(r.read.status = "review" /\ r.row.status = "published")
  BY <1>1 DEF Notice, NoNotice
<1>3. PICK to \in EventStatuses : r.row = Updated(r.read, to)
  BY <1>1 DEF RowMade
<1>4. r.read \in EventRows /\ Reasoned(r.read)
  BY DEF ReviewRecs, RowMade
<1>5. r.row.status = r.read.status => r.row = r.read
  BY <1>3, <1>4, UpdatedRow
<1>6. r.read.status \in {"review", "published", "rejected"}
  BY <1>4 DEF RowMade, EventRows, EventStatuses
<1>7. CASE r.row.status = "rejected"
  BY <1>1, <1>5, <1>7
<1>8. CASE r.row.status = "published" /\ r.read.status = "published"
  BY <1>5, <1>8
<1>9. CASE r.row.status = "published" /\ r.read.status = "rejected"
  BY <1>9 DEF Aware, NoNotice
<1>10. CASE r.row.status \notin {"rejected", "published"}
  BY <1>10 DEF Aware
<1> QED
  BY <1>2, <1>6, <1>7, <1>8, <1>9, <1>10

-----------------------------------------------------------------------------
LEMMA HostedInitInv == HostedInit => HostedInv
<1> SUFFICES ASSUME HostedInit PROVE HostedInv
  OBVIOUS
<1>1. NoEvent \in EventRows
  BY DEF NoEvent, EventRows, EventStatuses
<1>2. NoReview \in ReviewRecs /\ NoReview.pc = "idle"
  BY <1>1 DEF NoReview, ReviewRecs
<1>3. NoNotice \in [type : {"nothing", "event-published", "event-rejected"}, reason : Wordings]
  BY DEF NoNotice, Wordings
<1>4. Reasoned(NoEvent) /\ ~NoEvent.host
  BY DEF NoEvent, Reasoned
<1> QED
  BY <1>1, <1>2, <1>3, <1>4 DEF HostedInit, HostedInv, ReviewsOk, AwareOrWill

LEMMA HostCreatesKeeps == ASSUME HostedInv, HostCreates PROVE HostedInv'
<1> DEFINE mine == [NoEvent EXCEPT !.host = TRUE, !.status = "review"]
           seeded == [NoEvent EXCEPT !.status = "published"]
<1>1. mine \in EventRows /\ Reasoned(mine) /\ seeded \in EventRows /\ Reasoned(seeded) /\ ~seeded.host
      /\ mine.status = "review"
  BY DEF NoEvent, EventRows, EventStatuses, Reasoned
<1>2. hosted' \in {mine, seeded} /\ UNCHANGED <<review, notice, blurred>>
  BY DEF HostCreates
<1> HIDE DEF mine, seeded
<1> QED
  BY <1>1, <1>2 DEF HostedInv, ReviewsOk, AwareOrWill, Aware

LEMMA ReadKeeps ==
  ASSUME HostedInv, NEW a \in Reviewers,
         \/ \E to \in EventStatuses : UpdateRead(a, to)
         \/ \E reason \in Reasons : RejectRead(a, reason)
  PROVE  HostedInv'
<1> DEFINE rejected(reason) == [hosted EXCEPT !.status = "rejected", !.reason = reason]
<1>0. hosted \in EventRows /\ Reasoned(hosted) /\ review \in [Reviewers -> ReviewRecs] /\ review[a].pc = "idle"
      /\ hosted.status # "none" /\ UNCHANGED <<hosted, notice, blurred>>
  BY DEF HostedInv, ReviewsOk, UpdateRead, RejectRead
<1>1. \E r \in ReviewRecs : Becomes(a, r) /\ r.pc = "save" /\ RowMade(r)
  <2>1. ASSUME NEW to \in EventStatuses, UpdateRead(a, to)
        PROVE  \E r \in ReviewRecs : Becomes(a, r) /\ r.pc = "save" /\ RowMade(r)
    <3> DEFINE r == [pc |-> "save", read |-> hosted, row |-> Updated(hosted, to), rejects |-> FALSE]
    <3>1. Updated(hosted, to) \in EventRows /\ Updated(hosted, to).host = hosted.host /\ Reasoned(Updated(hosted, to))
      BY <1>0, UpdatedRow
    <3>2. r \in ReviewRecs /\ RowMade(r)
      BY <1>0, <3>1 DEF ReviewRecs, RowMade
    <3> QED
      BY <2>1, <3>2 DEF UpdateRead
  <2>2. ASSUME NEW reason \in Reasons, RejectRead(a, reason)
        PROVE  \E r \in ReviewRecs : Becomes(a, r) /\ r.pc = "save" /\ RowMade(r)
    <3> DEFINE r == [pc |-> "save", read |-> hosted, rejects |-> TRUE, row |-> rejected(reason)]
    <3>1. rejected(reason) \in EventRows /\ rejected(reason).host = hosted.host
          /\ rejected(reason).status = "rejected" /\ rejected(reason).reason = reason
      BY <1>0 DEF EventRows, EventStatuses
    <3>2. reason # NoReason
      BY ReviewBounds
    <3>3. r \in ReviewRecs /\ RowMade(r)
      BY <1>0, <3>1, <3>2 DEF ReviewRecs, RowMade, Reasoned
    <3> QED
      BY <2>2, <3>3 DEF RejectRead
  <2> QED
    BY <2>1, <2>2
<1>2. PICK r \in ReviewRecs : Becomes(a, r) /\ r.pc = "save" /\ RowMade(r)
  BY <1>1
<1>3. review' \in [Reviewers -> ReviewRecs] /\ review'[a] = r /\ \A b \in Reviewers \ {a} : review'[b] = review[b]
  BY <1>0, <1>2 DEF Becomes
<1> HIDE DEF rejected
<1>4. ReviewsOk'
  BY <1>0, <1>2, <1>3 DEF HostedInv, ReviewsOk
<1>5. AwareOrWill'
  BY <1>0, <1>3 DEF HostedInv, AwareOrWill
<1> QED
  BY <1>4, <1>5 DEF HostedInv

LEMMA NoReviewOk == NoReview \in ReviewRecs /\ NoReview.pc = "idle"
<1>1. NoEvent \in EventRows
  BY DEF NoEvent, EventRows, EventStatuses
<1> QED
  BY <1>1 DEF NoReview, ReviewRecs

LEMMA ReviewSaveKeeps == ASSUME HostedInv, NEW a \in Reviewers, ReviewSave(a) PROVE HostedInv'
<1> DEFINE r == review[a]
           tells == [r EXCEPT !.pc = "tell"]
<1>1. r \in ReviewRecs /\ RowMade(r) /\ r.pc = "save" /\ review \in [Reviewers -> ReviewRecs]
  BY DEF HostedInv, ReviewsOk, ReviewSave
<1>2. /\ tells \in ReviewRecs /\ tells.pc = "tell" /\ tells.row = r.row /\ tells.read = r.read /\ tells.rejects = r.rejects
  BY <1>1 DEF ReviewRecs
<1>3. Notice(tells) = Notice(r) /\ RowMade(tells)
  BY <1>1, <1>2 DEF Notice, RowMade
<1>4. /\ hosted' = r.row /\ notice' = notice /\ blurred' = (blurred \/ hosted # r.read)
      /\ \/ Announced(r) /\ review' = [review EXCEPT ![a] = tells]
         \/ ~Announced(r) /\ review' = [review EXCEPT ![a] = NoReview]
  BY DEF ReviewSave, Becomes
<1> HIDE DEF tells, r
<1>5. /\ review' \in [Reviewers -> ReviewRecs] /\ \A b \in Reviewers \ {a} : review'[b] = review[b]
      /\ review'[a] = IF Announced(r) THEN tells ELSE NoReview
  BY <1>1, <1>2, <1>4, NoReviewOk
<1>6. hosted' \in EventRows /\ Reasoned(hosted') /\ blurred' \in BOOLEAN
  BY <1>1, <1>4 DEF ReviewRecs, RowMade
<1>7. ReviewsOk'
  <2>1. review'[a].pc # "idle" => RowMade(review'[a]) /\ (review'[a].pc = "tell" => Notice(review'[a]) # NoNotice)
    BY <1>3, <1>5, NoReviewOk DEF Announced
  <2> QED
    BY <1>4, <1>5, <1>6, <2>1 DEF HostedInv, ReviewsOk
<1>8. AwareOrWill'
  <2> SUFFICES ASSUME hosted'.host, ~blurred' PROVE Aware(hosted', notice') \/ \E b \in Reviewers : review'[b].pc = "tell"
    BY DEF AwareOrWill
  <2>1. hosted = r.read /\ ~blurred /\ hosted.host
    BY <1>1, <1>4 DEF RowMade
  <2>2. CASE Announced(r)
    BY <1>2, <1>5, <2>2
  <2>3. CASE ~Announced(r) /\ Aware(hosted, notice)
    <3>1. Notice(r) = NoNotice
      BY <2>1, <2>3 DEF Announced
    <3> QED
      BY <1>1, <1>4, <2>1, <2>3, <3>1, NothingToTell
  <2>4. CASE ~Announced(r) /\ \E b \in Reviewers : review[b].pc = "tell"
    <3>1. PICK b \in Reviewers : review[b].pc = "tell"
      BY <2>4
    <3>2. b # a
      BY <1>1, <3>1 DEF r
    <3> QED
      BY <1>5, <3>1, <3>2
  <2> QED
    BY <2>1, <2>2, <2>3, <2>4 DEF HostedInv, AwareOrWill
<1> QED
  BY <1>7, <1>8 DEF HostedInv

LEMMA TellKeeps == ASSUME HostedInv, NEW a \in Reviewers, ReviewTell(a) PROVE HostedInv'
<1>1. review[a] \in ReviewRecs /\ RowMade(review[a]) /\ Notice(review[a]) # NoNotice
  BY DEF HostedInv, ReviewsOk, ReviewTell
<1>2. /\ notice' = Notice(review[a]) /\ blurred' = (hosted # review[a].row) /\ hosted' = hosted
      /\ review' = [review EXCEPT ![a] = NoReview]
  BY DEF ReviewTell, Becomes
<1>3. review' \in [Reviewers -> ReviewRecs] /\ review'[a].pc = "idle" /\ \A b \in Reviewers \ {a} : review'[b] = review[b]
  BY <1>2, NoReviewOk DEF HostedInv, ReviewsOk
<1>4. ReviewsOk'
  BY <1>1, <1>2, <1>3, NoticeTypes DEF HostedInv, ReviewsOk
<1>5. ~blurred' => Aware(hosted', notice')
  BY <1>1, <1>2, NoticeTells
<1> QED
  BY <1>4, <1>5 DEF HostedInv, AwareOrWill

LEMMA DiesKeeps == ASSUME HostedInv, NEW a \in Reviewers, ReviewDies(a) PROVE HostedInv'
<1>1. /\ blurred' = (blurred \/ review[a].pc = "tell") /\ UNCHANGED <<hosted, notice>>
      /\ review' = [review EXCEPT ![a] = NoReview]
  BY DEF ReviewDies, Becomes
<1>2. review' \in [Reviewers -> ReviewRecs] /\ review'[a].pc = "idle" /\ \A b \in Reviewers \ {a} : review'[b] = review[b]
  BY <1>1, NoReviewOk DEF HostedInv, ReviewsOk
<1>3. ReviewsOk'
  BY <1>1, <1>2 DEF HostedInv, ReviewsOk
<1>4. AwareOrWill'
  BY <1>1, <1>2 DEF HostedInv, AwareOrWill
<1> QED
  BY <1>3, <1>4 DEF HostedInv

LEMMA HostedStep == HostedInv /\ [HostedNext]_hostedVars => HostedInv'
<1> SUFFICES ASSUME HostedInv, [HostedNext]_hostedVars PROVE HostedInv'
  OBVIOUS
<1>1. CASE UNCHANGED hostedVars
  BY <1>1 DEF hostedVars, HostedInv, ReviewsOk, AwareOrWill
<1>2. CASE HostCreates
  BY <1>2, HostCreatesKeeps
<1>3. ASSUME NEW a \in Reviewers,
             \/ \E to \in EventStatuses : UpdateRead(a, to)
             \/ \E reason \in Reasons : RejectRead(a, reason)
             \/ ReviewSave(a) \/ ReviewTell(a) \/ ReviewDies(a)
      PROVE  HostedInv'
  BY <1>3, ReadKeeps, ReviewSaveKeeps, TellKeeps, DiesKeeps
<1> QED
  BY <1>1, <1>2, <1>3 DEF HostedNext

LEMMA HostedAlways == HostedSpec => []HostedInv
  BY HostedInitInv, HostedStep, PTL DEF HostedSpec

LEMMA HostedTyped == HostedInv => HostedTypeOK
BY DEF HostedInv, ReviewsOk, HostedTypeOK, ReviewRecs, Wordings

(* The event, the requests of its reviewers and the notice stay what they are. *)
THEOREM HostedTypeSafe == HostedSpec => []HostedTypeOK
  BY HostedTyped, HostedAlways, PTL

(* The host of a rejected or published event was told of it, by as many admins  *)
(* as may be at work: somebody is about to tell, or a notice says what the row  *)
(* says, because a row that is saved without one says what it said.             *)
THEOREM HostsAreTold == HostedSpec => []HostKnows
<1>1. HostedInv => HostKnows
  BY DEF HostedInv, AwareOrWill, Aware, HostKnows
<1> QED
  BY <1>1, HostedAlways, PTL

-----------------------------------------------------------------------------
(* Bill *)

(* Of the subsets of a finite set that have some property, one has no subset by one smaller that has it. *)
LEMMA SmallestOf ==
  ASSUME NEW D, IsFiniteSet(D), NEW T \in SUBSET (SUBSET D), T # {}
  PROVE  \E s \in T : \A x \in s : s \ {x} \notin T
<1> DEFINE R == StrictSubsetOrdering(D)
<1>1. T \subseteq FiniteSubsetsOf(D)
  BY FS_Subset DEF FiniteSubsetsOf
<1>2. IsWellFoundedOn(R, FiniteSubsetsOf(D))
  BY FS_StrictSubsetOrderingWellFounded
<1> HIDE DEF R
<1>3. PICK s \in T : \A y \in T : <<y, s>> \notin R
  BY <1>1, <1>2, WFMin
<1>4. \A x \in s : <<s \ {x}, s>> \in R
  BY DEF R, StrictSubsetOrdering
<1> QED
  BY <1>3, <1>4

Some(s) == CHOOSE x \in s : TRUE

\* f takes each of the sets to the sum of the amounts it indexes.
SumsOver(f, a, sets) == f = [s \in sets |-> IF s = {} THEN 0 ELSE a[Some(s)] + f[s \ {Some(s)}]]
Sums(a) == CHOOSE f : SumsOver(f, a, SUBSET DOMAIN a)

LEMMA SomeOf == \A s : s # {} => Some(s) \in s
  BY DEF Some

LEMMA SumIsFold == \A a : SumOf(a) = Sums(a)[DOMAIN a]
  BY DEF SumOf, FoldSeq, FoldFunction, FoldFunctionOnSet, MapThenFoldSet, Sums, SumsOver, Some

LEMMA SumsExist ==
  ASSUME NEW a, IsFiniteSet(DOMAIN a)
  PROVE  SumsOver(Sums(a), a, SUBSET DOMAIN a)
<1> DEFINE D == DOMAIN a
           Level(n) == {s \in SUBSET D : Cardinality(s) <= n}
           T == {n \in Nat : ~ \E f : SumsOver(f, a, Level(n))}
<1>0. \A s \in SUBSET D : IsFiniteSet(s) /\ Cardinality(s) \in Nat
  BY FS_Subset, FS_CardinalityType
<1>1. SUFFICES ASSUME T # {} PROVE FALSE
  <2>1. Cardinality(D) \in Nat /\ Level(Cardinality(D)) = SUBSET D
    BY FS_CardinalityType, FS_Subset
  <2>2. Cardinality(D) \notin T
    OBVIOUS
  <2>3. \E f : SumsOver(f, a, SUBSET D)
    BY <2>1, <2>2
  <2> QED
    BY <2>3 DEF Sums
<1>2. PICK n \in T : \A m \in T : n <= m
  BY <1>1, LeastOf
<1>3. PICK f : n # 0 => SumsOver(f, a, Level(n - 1))
  <2>1. CASE n # 0
    <3>1. n - 1 \in Nat /\ ~(n <= n - 1)
      BY <2>1
    <3> QED
      BY <1>2, <3>1
  <2> QED
    BY <2>1
<1> DEFINE g == [s \in Level(n) |-> IF s = {} THEN 0 ELSE a[Some(s)] + f[s \ {Some(s)}]]
<1>4. ASSUME NEW s \in Level(n), s # {} PROVE f[s \ {Some(s)}] = g[s \ {Some(s)}]
  <2> DEFINE r == s \ {Some(s)}
  <2>1. Cardinality(r) = Cardinality(s) - 1 /\ r \in SUBSET D
    BY <1>0, <1>4, SomeOf, FS_RemoveElement
  <2>2. Cardinality(s) \in Nat /\ Cardinality(s) <= n /\ Cardinality(r) \in Nat /\ n \in Nat
    BY <1>0, <2>1
  <2>3. n # 0 /\ Cardinality(r) <= n - 1 /\ Cardinality(r) <= n
    BY <2>1, <2>2
  <2>4. r \in Level(n) /\ r \in Level(n - 1)
    BY <2>1, <2>3
  <2>5. g[r] = IF r = {} THEN 0 ELSE a[Some(r)] + f[r \ {Some(r)}]
    BY <2>4
  <2>6. f[r] = IF r = {} THEN 0 ELSE a[Some(r)] + f[r \ {Some(r)}]
    <3> HIDE DEF Level, r
    <3>1. f = [q \in Level(n - 1) |-> IF q = {} THEN 0 ELSE a[Some(q)] + f[q \ {Some(q)}]]
      BY <1>3, <2>3 DEF SumsOver
    <3>2. \A q \in Level(n - 1) : f[q] = IF q = {} THEN 0 ELSE a[Some(q)] + f[q \ {Some(q)}]
      BY <3>1
    <3> QED
      BY <2>4, <3>2
  <2> QED
    BY <2>5, <2>6
<1>5. g = [s \in Level(n) |-> IF s = {} THEN 0 ELSE a[Some(s)] + g[s \ {Some(s)}]]
  <2>1. \A s \in Level(n) : (IF s = {} THEN 0 ELSE a[Some(s)] + f[s \ {Some(s)}])
                            = IF s = {} THEN 0 ELSE a[Some(s)] + g[s \ {Some(s)}]
    <3> HIDE DEF Level, g
    <3> QED
      BY <1>4
  <2> HIDE DEF Level
  <2> QED
    BY <2>1
<1>6. SumsOver(g, a, Level(n))
  <2> HIDE DEF g, Level
  <2> QED
    BY <1>5 DEF SumsOver
<1> QED
  <2> HIDE DEF g, Level
  <2> QED
    BY <1>2, <1>6

(* The empty set sums up to nothing, another to one amount and what the rest sums up to. *)
LEMMA SumsStep ==
  ASSUME NEW a, IsFiniteSet(DOMAIN a), NEW s \in SUBSET DOMAIN a
  PROVE  Sums(a)[s] = IF s = {} THEN 0 ELSE a[Some(s)] + Sums(a)[s \ {Some(s)}]
<1> DEFINE f == Sums(a)
           D == DOMAIN a
<1>1. f = [q \in SUBSET D |-> IF q = {} THEN 0 ELSE a[Some(q)] + f[q \ {Some(q)}]]
  BY SumsExist DEF SumsOver
<1> HIDE DEF f
<1>2. \A q \in SUBSET D : f[q] = IF q = {} THEN 0 ELSE a[Some(q)] + f[q \ {Some(q)}]
  BY <1>1
<1> QED
  BY <1>2 DEF f

(* A sum of natural numbers is one, and what sums up smaller amounts is no greater. *)
LEMMA SumsGrow ==
  ASSUME NEW D, IsFiniteSet(D), NEW a \in [D -> Nat], NEW b \in [D -> Nat], \A i \in D : a[i] <= b[i]
  PROVE  SumOf(a) \in Nat /\ SumOf(b) \in Nat /\ SumOf(a) <= SumOf(b)
<1> DEFINE Good(s) == Sums(a)[s] \in Nat /\ Sums(b)[s] \in Nat /\ Sums(a)[s] <= Sums(b)[s]
           T == {s \in SUBSET D : ~Good(s)}
<1>1. \A s \in SUBSET D : /\ Sums(a)[s] = IF s = {} THEN 0 ELSE a[Some(s)] + Sums(a)[s \ {Some(s)}]
                          /\ Sums(b)[s] = IF s = {} THEN 0 ELSE b[Some(s)] + Sums(b)[s \ {Some(s)}]
  BY SumsStep
<1>2. ASSUME T # {} PROVE FALSE
  <2>1. PICK s \in T : \A x \in s : s \ {x} \notin T
    BY <1>2, SmallestOf
  <2>2. s # {}
    BY <1>1, SMTT(30)
  <2>3. Some(s) \in s /\ Some(s) \in D /\ Good(s \ {Some(s)})
    BY <2>1, <2>2, SomeOf
  <2>4. Good(s)
    <3>1. a[Some(s)] \in Nat /\ b[Some(s)] \in Nat /\ a[Some(s)] <= b[Some(s)]
      BY <2>3
    <3>2. Sums(a)[s] = a[Some(s)] + Sums(a)[s \ {Some(s)}] /\ Sums(b)[s] = b[Some(s)] + Sums(b)[s \ {Some(s)}]
      BY <1>1, <2>2
    <3>3. PICK u, v \in Nat : u = Sums(a)[s \ {Some(s)}] /\ v = Sums(b)[s \ {Some(s)}] /\ u <= v
      BY <2>3
    <3>4. PICK p, q \in Nat : p = a[Some(s)] /\ q = b[Some(s)] /\ p <= q
      BY <3>1
    <3>5. p + u \in Nat /\ q + v \in Nat /\ p + u <= q + v
      BY <3>3, <3>4
    <3>6. Sums(a)[s] = p + u /\ Sums(b)[s] = q + v
      BY <3>2, <3>3, <3>4
    <3> QED
      BY <3>5, <3>6
  <2> QED
    BY <2>4
<1>3. Good(D)
  BY <1>2
<1> QED
  BY <1>3, SumIsFold

-----------------------------------------------------------------------------
(* Bill *)

TillGoals == {"quote", "order"}
TillRecs == [pc : TillPCs, goal : TillGoals, rows : [Plates -> PlateForms] \cup {<< >>}, priced : Seq(Nat),
             balance : Nat, fee : Nat, rules : RuleForms]
ShelfRecs == [dish : [Plates -> PlateForms], coupon : CouponForms, rules : RuleForms, fee : Fees, points : PointSums]
WantRecs == [lines : Seq(BasketLines), asks : BOOLEAN, redeem : Nat, deliver : BOOLEAN]

BillTypes ==
  /\ shelf \in ShelfRecs /\ wants \in WantRecs /\ till \in TillRecs
  /\ slip \in Amounts /\ paid \in Int /\ edits \in Nat

\* The steps after one, until the request is refused or the customer pays.
Ends       == {"quoted", "match", "ordered"}
PastRules  == {"coupon"} \cup Ends
PastFee    == {"rules"} \cup PastRules
PastPoints == {"fee"} \cup PastFee
PastPrice  == {"points"} \cup PastPoints
PastFind   == {"price"} \cup PastPrice

\* The parts of a bill and what it was made of.
Adds(bill, t) ==
  /\ bill.subtotal = SumOf(t.priced)
  /\ bill.total = bill.subtotal + bill.coupon + bill.gst + bill.fee + bill.loyalty
  /\ -bill.coupon <= bill.eligible
  /\ t.rules.value * t.rules.percent <= 100 => bill.total >= 0

TillHolds ==
  /\ till.pc \in PastFind => till.rows \in [Plates -> PlateForms]
  /\ till.pc \in PastPrice => DOMAIN till.priced = DOMAIN wants.lines
  /\ till.pc \in Ends => Adds(slip, till)
  /\ till.pc = "ordered" => paid = slip.total
  /\ till.pc = "match" => till.goal = "order"

\* What a request comes to if nothing is edited: its lines, its bill.
PricedNow == [n \in DOMAIN wants.lines |-> LineTotal(shelf.dish[wants.lines[n].d], wants.lines[n])]
SoldNow == \A n \in DOMAIN wants.lines : Sellable(shelf.dish[wants.lines[n].d], wants.lines[n])
EligibleOf(rows, priced) ==
  SumOf([n \in DOMAIN wants.lines |->
           IF Unrestricted(shelf.coupon) \/ (/\ shelf.coupon.items # {} => wants.lines[n].d \in shelf.coupon.items
                                             /\ shelf.coupon.cats # {} => rows[wants.lines[n].d].cat \in shelf.coupon.cats)
             THEN priced[n] ELSE 0])
SummaryOf(priced, balance, fee, rules, discount, eligible) ==
  LET subtotal == SumOf(priced)
      taxable  == Greater(0, subtotal - discount)
      gst      == Rounded(taxable * GstRate, 1000)
      before   == taxable + gst + fee
      points   == ClampRedeemPoints(balance, before, rules)
      loyalty  == -points * rules.value
      total    == before + loyalty
  IN  [subtotal |-> subtotal, coupon |-> -discount, gst |-> gst, fee |-> fee, points |-> points,
       loyalty |-> loyalty, total |-> total, eligible |-> eligible,
       earned |-> Greater(0, Rounded(total * rules.earn, 100))]
FitsOf(rows, priced) == Applicable(shelf.coupon, SumOf(priced))
                        /\ (Unrestricted(shelf.coupon) \/ EligibleOf(rows, priced) > 0)
BillOf(rows, priced, balance, fee, rules) ==
  IF wants.asks
    THEN SummaryOf(priced, balance, fee, rules, ComputeDiscount(shelf.coupon, EligibleOf(rows, priced)),
                   EligibleOf(rows, priced))
    ELSE SummaryOf(priced, balance, fee, rules, 0, 0)
BillNow == BillOf(shelf.dish, PricedNow, shelf.points, DeliveryFeeFor, shelf.rules)
FitsNow == wants.asks => FitsOf(shelf.dish, PricedNow)

\* Nothing was edited: what was read is what is there, and what was quoted was paid.
Unedited ==
  /\ till.pc \in PastFind => till.rows = shelf.dish
  /\ till.pc \in PastPrice => till.priced = PricedNow
  /\ till.pc \in PastPoints => till.balance = shelf.points
  /\ till.pc \in PastFee => till.fee = DeliveryFeeFor
  /\ till.pc \in PastRules => till.rules = shelf.rules
  /\ till.pc \in PastPrice \/ till.goal = "order" => SoldNow
  /\ till.pc = "quoted" \/ till.goal = "order" => FitsNow
  /\ till.pc \in {"quoted", "match"} => slip = BillNow
  /\ till.goal = "order" => paid = BillNow.total
  /\ ~(till.goal = "order" /\ till.pc \in {"refused", "short"})

BillInv == BillTypes /\ TillHolds /\ (edits = 0 => Unedited)

LEMMA SelfSums == Max(Fees) \in Fees /\ Max(PointSums) \in PointSums /\ Fees \subseteq Nat /\ PointSums \subseteq Nat
  BY BillBounds, BillForms, LargestOf

LEMMA NoTillOk == /\ NoTill \in TillRecs /\ NoTill.pc = "find" /\ NoTill.goal = "quote"
                  /\ \A p \in TillPCs, g \in TillGoals :
                       LET t == [NoTill EXCEPT !.pc = p, !.goal = g]
                       IN  t \in TillRecs /\ t.pc = p /\ t.goal = g
                  /\ \A g \in TillGoals : LET t == [NoTill EXCEPT !.goal = g]
                                          IN  t \in TillRecs /\ t.pc = "find" /\ t.goal = g
<1>1. AnyRules \in RuleForms
  BY BillForms DEF AnyRules
<1>2. << >> \in Seq(Nat)
  OBVIOUS
<1>3. NoTill \in TillRecs
  BY <1>1, <1>2 DEF NoTill, TillRecs, TillPCs, TillGoals
<1>4. NoTill.pc = "find" /\ NoTill.goal = "quote"
  BY DEF NoTill
<1> QED
  BY <1>3, <1>4 DEF TillRecs

LEMMA NoSlipOk == NoSlip \in Amounts
  BY DEF NoSlip, Amounts

LEMMA BillStart == BillInit => BillInv
<1> SUFFICES ASSUME BillInit PROVE BillInv
  OBVIOUS
<1>1. shelf \in ShelfRecs
  BY SelfSums, BillForms DEF BillInit, ShelfRecs
<1>2. wants \in WantRecs
  <2>1. {0, Max(PointSums) + 10} \subseteq Nat
    <3>1. Max(PointSums) \in Nat
      BY SelfSums
    <3> QED
      BY <3>1
  <2> QED
    BY <2>1, BillForms DEF BillInit, WantRecs
<1>3. till.pc = "find" /\ till.goal = "quote" /\ till \in TillRecs
  BY NoTillOk DEF BillInit
<1>4. BillTypes
  <2>1. slip \in Amounts /\ paid \in Int /\ edits \in Nat
    <3>1. slip = NoSlip /\ paid = 0 /\ edits = 0
      BY DEF BillInit
    <3> QED
      BY <3>1, NoSlipOk
  <2> QED
    BY <1>1, <1>2, <1>3, <2>1 DEF BillTypes
<1> QED
  BY <1>3, <1>4 DEF BillInv, TillHolds, Unedited, PastFind, PastPrice, PastPoints, PastFee, PastRules, Ends

-----------------------------------------------------------------------------
(* Bill: the arithmetic *)

LEMMA RoundedIsNat == \A n \in Nat : Rounded(n, 1000) \in Nat
  BY DEF Rounded

LEMMA ProductIsNat == \A m, n \in Nat : m * n \in Nat
  OBVIOUS

LEMMA ProductIsInt == \A m, n \in Int : m * n \in Int
  OBVIOUS

LEMMA ProductGrows ==
  ASSUME NEW k \in Nat, NEW m \in Nat, NEW n \in Nat, m <= n
  PROVE  k * m <= k * n /\ m * k <= n * k
<1>1. PICK d \in Nat : n = m + d
  <2>1. n - m \in Nat /\ n = m + (n - m)
    OBVIOUS
  <2> QED
    BY <2>1
<1>2. k * n = k * m + k * d /\ n * k = m * k + d * k
  BY <1>1
<1>3. k * d \in Nat /\ d * k \in Nat /\ k * m \in Nat /\ m * k \in Nat
  BY ProductIsNat
<1> QED
  BY <1>2, <1>3

(* Points that are worth no more than their share of the bill leave something of it. *)
LEMMA PointsWithin ==
  ASSUME NEW before \in Nat, NEW percent \in Nat, NEW value \in Nat, value * percent <= 100,
         NEW points \in Nat, points <= (before * percent) \div 100
  PROVE  points * value <= before
<1>1. before * percent \in Nat
  BY ProductIsNat
<1>2. 100 * points <= before * percent
  <2>1. \A n \in Nat : points <= n \div 100 => 100 * points <= n
    OBVIOUS
  <2> QED
    BY <1>1, <2>1
<1>3. (100 * points) * value <= (before * percent) * value
  BY <1>1, <1>2, ProductGrows
<1>4. before * (percent * value) <= before * 100
  <2>1. percent * value \in Nat /\ percent * value = value * percent
    OBVIOUS
  <2> QED
    BY <2>1, ProductGrows
<1>5. (before * percent) * value = before * (percent * value)
  OBVIOUS
<1>6. (100 * points) * value = 100 * (points * value) /\ points * value \in Nat
  BY ProductIsNat
<1>7. \A p, q \in Nat : 100 * p <= q * 100 => p <= q
  OBVIOUS
<1>8. before * (percent * value) \in Nat
  BY ProductIsNat
<1> QED
  BY <1>3, <1>4, <1>5, <1>6, <1>7, <1>8

LEMMA SummaryAdds ==
  ASSUME NEW d \in Int, NEW e \in Nat, d <= e, e <= SumOf(till.priced), SumOf(till.priced) \in Nat,
         till \in TillRecs, wants \in WantRecs
  PROVE  Summary(d, e) \in Amounts /\ Adds(Summary(d, e), till)
<1> DEFINE subtotal == SumOf(till.priced)
           taxable  == Greater(0, subtotal - d)
           gst      == Rounded(taxable * GstRate, 1000)
           before   == taxable + gst + till.fee
           points   == ClampRedeemPoints(till.balance, before, till.rules)
           loyalty  == -points * till.rules.value
           total    == before + loyalty
           earned   == EarnedPointsForTotal(total)
<1>0. /\ till.rules.value \in Nat /\ till.rules.percent \in Nat /\ till.rules.earn \in Nat
      /\ till.fee \in Nat /\ till.balance \in Nat /\ wants.redeem \in Nat /\ GstRate \in Nat
  BY BillForms, BillBounds DEF TillRecs, WantRecs
<1>1. Summary(d, e) = [subtotal |-> subtotal, coupon |-> -d, gst |-> gst, fee |-> till.fee, points |-> points,
                       loyalty |-> loyalty, total |-> total, eligible |-> e, earned |-> earned]
  BY DEF Summary
<1>2. subtotal \in Nat /\ taxable = subtotal - d /\ taxable \in Nat
  BY DEF Greater
<1> HIDE DEF subtotal, taxable
<1>3. gst \in Nat
  BY <1>0, <1>2, ProductIsNat, RoundedIsNat
<1> HIDE DEF gst
<1>4. before \in Nat
  BY <1>0, <1>2, <1>3
<1>5. before = taxable + gst + till.fee
  OBVIOUS
<1> HIDE DEF before
<1>6. points \in Nat /\ points <= (before * till.rules.percent) \div 100
  <2>1. before * till.rules.percent \in Nat
    BY <1>0, <1>4, ProductIsNat
  <2>2. \A n \in Nat : n \div 100 \in Nat
    OBVIOUS
  <2>3. (before * till.rules.percent) \div 100 \in Nat
    BY <2>1, <2>2
  <2>4. \A q \in Nat : LET m == IF before <= 0 THEN 0 ELSE Lesser(till.balance, q)
                      IN  Lesser(wants.redeem, m) \in Nat /\ Lesser(wants.redeem, m) <= q
    BY <1>0, <1>4 DEF Lesser
  <2>5. points = Lesser(wants.redeem, IF before <= 0 THEN 0
                                      ELSE Lesser(till.balance, (before * till.rules.percent) \div 100))
    BY DEF ClampRedeemPoints, MaxRedeemablePoints
  <2> HIDE DEF points
  <2> QED
    BY <2>3, <2>4, <2>5
<1> HIDE DEF points
<1>7. loyalty \in Int /\ loyalty = -(points * till.rules.value) /\ points * till.rules.value \in Nat
  <2>1. \A m, n \in Nat : (-m) * n \in Int /\ (-m) * n = -(m * n)
    OBVIOUS
  <2> QED
    BY <1>0, <1>6, <2>1, ProductIsNat
<1> HIDE DEF loyalty
<1>8. total \in Int /\ total = subtotal - d + gst + till.fee + loyalty
  BY <1>0, <1>2, <1>3, <1>4, <1>5, <1>7
<1>9. till.rules.value * till.rules.percent <= 100 => total >= 0
  <2> SUFFICES ASSUME till.rules.value * till.rules.percent <= 100 PROVE total >= 0
    OBVIOUS
  <2>1. points * till.rules.value <= before
    BY <1>0, <1>4, <1>6, PointsWithin
  <2>2. \A m, n \in Nat : m <= n => \A l \in Int : l = -m => n + l >= 0
    OBVIOUS
  <2>3. before + loyalty >= 0
    BY <1>4, <1>7, <2>1, <2>2
  <2> QED
    BY <2>3
<1>10. earned \in Nat
  <2> HIDE DEF total
  <2>0. till.rules.earn \in Int
    BY <1>0
  <2>1. total * till.rules.earn \in Int
    BY <1>8, <2>0, ProductIsInt, Zenon
  <2>2. \A n \in Int : Rounded(n, 100) \in Int /\ Greater(0, Rounded(n, 100)) \in Nat
    BY DEF Rounded, Greater
  <2> QED
    BY <2>1, <2>2 DEF EarnedPointsForTotal
<1> HIDE DEF total, earned
<1>11. Summary(d, e) \in Amounts
  BY <1>0, <1>1, <1>2, <1>3, <1>6, <1>7, <1>8, <1>10 DEF Amounts
<1>12. /\ Summary(d, e).subtotal = subtotal /\ Summary(d, e).coupon = -d /\ Summary(d, e).gst = gst
       /\ Summary(d, e).fee = till.fee /\ Summary(d, e).loyalty = loyalty /\ Summary(d, e).total = total
       /\ Summary(d, e).eligible = e
  BY <1>1
<1>13. subtotal + (-d) + gst + till.fee + loyalty = total /\ -(-d) <= e
  BY <1>0, <1>2, <1>3, <1>7, <1>8
<1> QED
  BY <1>9, <1>11, <1>12, <1>13 DEF Adds, subtotal

-----------------------------------------------------------------------------
(* Bill: the steps *)

LEMMA NowStays ==
  ASSUME UNCHANGED <<shelf, wants>>
  PROVE  /\ PricedNow' = PricedNow /\ SoldNow' = SoldNow /\ FitsNow' = FitsNow
         /\ BillNow' = BillNow /\ DeliveryFeeFor' = DeliveryFeeFor
<1>1. PricedNow' = PricedNow /\ DeliveryFeeFor' = DeliveryFeeFor
  BY DEF PricedNow, LineTotal, UnitPrice, DiyAddon, DeliveryFeeFor
<1>2. SoldNow' = SoldNow
  BY DEF SoldNow, Sellable, SoldHere
<1>3. \A rows, priced : EligibleOf(rows, priced)' = EligibleOf(rows, priced)
  BY DEF EligibleOf
<1>4. FitsNow' = FitsNow
  BY <1>1, <1>3 DEF FitsNow, FitsOf
<1>5. BillNow' = BillNow
  BY <1>1, <1>3 DEF BillNow, BillOf, SummaryOf, ClampRedeemPoints
<1> QED
  BY <1>1, <1>2, <1>4, <1>5

(* What is refused is refused after an edit. *)
LEMMA RefuseKeeps ==
  ASSUME BillInv, Refuse, UNCHANGED <<shelf, wants, slip, paid, edits>>, edits = 0 => till.goal = "quote"
  PROVE  BillInv'
<1>1. till.goal \in TillGoals /\ "refused" \in TillPCs
  BY DEF BillInv, BillTypes, TillRecs, TillPCs
<1>2. till' \in TillRecs /\ till'.pc = "refused" /\ till'.goal = till.goal
  BY <1>1, NoTillOk DEF Refuse
<1>3. BillTypes'
  BY <1>2 DEF BillInv, BillTypes
<1>4. TillHolds'
  BY <1>2 DEF TillHolds, PastFind, PastPrice, PastPoints, PastFee, PastRules, Ends
<1>5. edits' = 0 => Unedited'
  BY <1>2 DEF Unedited, PastFind, PastPrice, PastPoints, PastFee, PastRules, Ends
<1> QED
  BY <1>3, <1>4, <1>5 DEF BillInv

LEMMA TillFindKeeps ==
  ASSUME BillInv, TillFind
  PROVE  BillInv'
<1>1. UNCHANGED <<shelf, wants, slip, paid, edits>> /\ till.pc = "find" /\ till \in TillRecs
      /\ shelf.dish \in [Plates -> PlateForms]
  BY DEF BillInv, BillTypes, TillFind, ShelfRecs
<1>2. /\ till' \in TillRecs /\ till'.pc = "price" /\ till'.goal = till.goal /\ till'.rows = shelf.dish
  BY <1>1 DEF TillFind, TillRecs, TillPCs
<1>3. BillTypes'
  BY <1>1, <1>2 DEF BillInv, BillTypes
<1>4. TillHolds'
  BY <1>1, <1>2 DEF TillHolds, PastFind, PastPrice, PastPoints, PastFee, PastRules, Ends
<1>5. edits' = 0 => Unedited'
  BY <1>1, <1>2, NowStays DEF BillInv, Unedited, PastFind, PastPrice, PastPoints, PastFee, PastRules, Ends
<1> QED
  BY <1>3, <1>4, <1>5 DEF BillInv

LEMMA LinePriced ==
  ASSUME NEW row \in PlateForms, NEW line \in BasketLines
  PROVE  LineTotal(row, line) \in Nat
<1>1. row.base \in Nat /\ row.delta \in Nat /\ row.extra \in Nat \cup {NoExtra} /\ DiyDelta \in Nat /\ line.qty \in Nat
  BY BillForms, BillBounds DEF BasketLines
<1>2. UnitPrice(row, line.with) \in Nat
  <2>1. CASE line.with = "diy"
    BY <1>1, <2>1 DEF UnitPrice, DiyAddon
  <2>2. CASE line.with = "variant"
    BY <1>1, <2>2 DEF UnitPrice
  <2>3. CASE line.with = "extra"
    BY <1>1, <2>3 DEF UnitPrice
  <2>4. CASE line.with = "plain"
    BY <1>1, <2>4 DEF UnitPrice
  <2> QED
    BY <2>1, <2>2, <2>3, <2>4 DEF BasketLines, Withs
<1> QED
  BY <1>1, <1>2, ProductIsNat DEF LineTotal

LEMMA LinesAre ==
  ASSUME NEW lines \in Seq(BasketLines)
  PROVE  /\ Len(lines) \in Nat /\ DOMAIN lines = 1..Len(lines) /\ IsFiniteSet(DOMAIN lines)
         /\ \A n \in DOMAIN lines : /\ lines[n] \in BasketLines /\ lines[n].d \in Plates
                                  /\ [lines[n] EXCEPT !.with = "plain"] \in BasketLines
<1>1. Len(lines) \in Nat /\ DOMAIN lines = 1..Len(lines)
  BY LenProperties
<1>2. IsFiniteSet(1..Len(lines))
  BY <1>1, FS_Interval
<1>3. \A n \in DOMAIN lines : lines[n] \in BasketLines
  BY <1>1, ElementOfSeq
<1>4. \A line \in BasketLines : line.d \in Plates /\ [line EXCEPT !.with = "plain"] \in BasketLines
  BY DEF BasketLines, Withs
<1> QED
  BY <1>1, <1>2, <1>3, <1>4

LEMMA TillPriceKeeps ==
  ASSUME BillInv, TillPrice
  PROVE  BillInv'
<1> DEFINE lines == wants.lines
           priced == [n \in DOMAIN lines |-> LineTotal(till.rows[lines[n].d], lines[n])]
<1>1. UNCHANGED <<shelf, wants, slip, paid, edits>> /\ till.pc = "price" /\ till \in TillRecs
      /\ till.rows \in [Plates -> PlateForms] /\ lines \in Seq(BasketLines)
  BY DEF BillInv, BillTypes, TillPrice, TillHolds, PastFind, WantRecs
<1>2. edits = 0 => till.rows = shelf.dish /\ (till.goal = "order" => SoldNow)
  BY <1>1 DEF BillInv, Unedited, PastFind
<1>3. CASE \A n \in DOMAIN lines : Sellable(till.rows[lines[n].d], lines[n])
  <2>1. till' = [till EXCEPT !.pc = "points", !.priced = priced]
    BY <1>3 DEF TillPrice
  <2>2. priced \in Seq(Nat) /\ DOMAIN priced = DOMAIN lines
    <3>1. \A n \in DOMAIN lines : lines[n] \in BasketLines /\ lines[n].d \in Plates
      BY <1>1, LinesAre
    <3>2. \A n \in DOMAIN lines : LineTotal(till.rows[lines[n].d], lines[n]) \in Nat
      BY <1>1, <3>1, LinePriced
    <3>3. DOMAIN lines = 1..Len(lines) /\ Len(lines) \in Nat
      BY <1>1, LinesAre
    <3> HIDE DEF lines
    <3>4. priced \in [1..Len(lines) -> Nat]
      BY <3>2, <3>3
    <3> HIDE DEF priced
    <3> QED
      BY <3>3, <3>4, SeqDef
  <2>3. edits = 0 => priced = PricedNow /\ SoldNow
    BY <1>2, <1>3 DEF PricedNow, SoldNow
  <2> HIDE DEF priced
  <2>4. till' \in TillRecs /\ till'.pc = "points" /\ till'.goal = till.goal /\ till'.rows = till.rows /\ till'.priced = priced
    BY <1>1, <2>1, <2>2 DEF TillRecs, TillPCs
  <2>5. BillTypes'
    BY <1>1, <2>4 DEF BillInv, BillTypes
  <2>6. TillHolds'
    BY <1>1, <2>2, <2>4 DEF TillHolds, PastFind, PastPrice, PastPoints, PastFee, PastRules, Ends
  <2>7. edits' = 0 => Unedited'
    BY <1>1, <1>2, <2>3, <2>4, NowStays DEF BillInv, Unedited, PastFind, PastPrice, PastPoints, PastFee, PastRules, Ends
  <2> QED
    BY <2>5, <2>6, <2>7 DEF BillInv
<1>4. CASE ~ \A n \in DOMAIN lines : Sellable(till.rows[lines[n].d], lines[n])
  <2>1. Refuse
    BY <1>4 DEF TillPrice
  <2>2. edits = 0 => till.goal # "order"
    BY <1>2, <1>4 DEF SoldNow
  <2>3. till.goal \in TillGoals
    BY <1>1 DEF TillRecs
  <2> QED
    BY <1>1, <2>1, <2>2, <2>3, RefuseKeeps DEF TillGoals
<1> QED
  BY <1>3, <1>4

LEMMA TillPointsKeeps ==
  ASSUME BillInv, TillPoints
  PROVE  BillInv'
<1>1. UNCHANGED <<shelf, wants, slip, paid, edits>> /\ till.pc = "points" /\ till \in TillRecs /\ shelf.points \in Nat
  BY BillBounds DEF BillInv, BillTypes, TillPoints, ShelfRecs
<1>2. /\ till' \in TillRecs /\ till'.pc = "fee" /\ till'.goal = till.goal /\ till'.rows = till.rows
      /\ till'.priced = till.priced /\ till'.balance = shelf.points
  BY <1>1 DEF TillPoints, TillRecs, TillPCs
<1>3. BillTypes'
  BY <1>1, <1>2 DEF BillInv, BillTypes
<1>4. TillHolds'
  BY <1>1, <1>2 DEF BillInv, TillHolds, PastFind, PastPrice, PastPoints, PastFee, PastRules, Ends
<1>5. edits' = 0 => Unedited'
  BY <1>1, <1>2, NowStays DEF BillInv, Unedited, PastFind, PastPrice, PastPoints, PastFee, PastRules, Ends
<1> QED
  BY <1>3, <1>4, <1>5 DEF BillInv

LEMMA TillFeeKeeps ==
  ASSUME BillInv, TillFee
  PROVE  BillInv'
<1>1. UNCHANGED <<shelf, wants, slip, paid, edits>> /\ till.pc = "fee" /\ till \in TillRecs /\ DeliveryFeeFor \in Nat
  BY BillBounds DEF BillInv, BillTypes, TillFee, ShelfRecs, DeliveryFeeFor
<1>2. /\ till' \in TillRecs /\ till'.pc = "rules" /\ till'.goal = till.goal /\ till'.rows = till.rows
      /\ till'.priced = till.priced /\ till'.balance = till.balance /\ till'.fee = DeliveryFeeFor
  BY <1>1 DEF TillFee, TillRecs, TillPCs
<1>3. BillTypes'
  BY <1>1, <1>2 DEF BillInv, BillTypes
<1>4. TillHolds'
  BY <1>1, <1>2 DEF BillInv, TillHolds, PastFind, PastPrice, PastPoints, PastFee, PastRules, Ends
<1>5. edits' = 0 => Unedited'
  BY <1>1, <1>2, NowStays DEF BillInv, Unedited, PastFind, PastPrice, PastPoints, PastFee, PastRules, Ends
<1> QED
  BY <1>3, <1>4, <1>5 DEF BillInv

LEMMA TillRulesKeeps ==
  ASSUME BillInv, TillRules
  PROVE  BillInv'
<1>1. UNCHANGED <<shelf, wants, slip, paid, edits>> /\ till.pc = "rules" /\ till \in TillRecs /\ shelf.rules \in RuleForms
  BY DEF BillInv, BillTypes, TillRules, ShelfRecs
<1>2. /\ till' \in TillRecs /\ till'.pc = "coupon" /\ till'.goal = till.goal /\ till'.rows = till.rows
      /\ till'.priced = till.priced /\ till'.balance = till.balance /\ till'.fee = till.fee /\ till'.rules = shelf.rules
  BY <1>1 DEF TillRules, TillRecs, TillPCs
<1>3. BillTypes'
  BY <1>1, <1>2 DEF BillInv, BillTypes
<1>4. TillHolds'
  BY <1>1, <1>2 DEF BillInv, TillHolds, PastFind, PastPrice, PastPoints, PastFee, PastRules, Ends
<1>5. edits' = 0 => Unedited'
  BY <1>1, <1>2, NowStays DEF BillInv, Unedited, PastFind, PastPrice, PastPoints, PastFee, PastRules, Ends
<1> QED
  BY <1>3, <1>4, <1>5 DEF BillInv

(* The coupon takes part of what it applies to, which is part of the lines. *)
LEMMA CouponTakes ==
  ASSUME BillInv, till.pc = "coupon", NEW coupon \in CouponForms
  PROVE  /\ SumOf(till.priced) \in Nat
         /\ EligibleSubtotal(coupon) \in Nat /\ EligibleSubtotal(coupon) <= SumOf(till.priced)
         /\ ComputeDiscount(coupon, EligibleSubtotal(coupon)) \in Int
         /\ ComputeDiscount(coupon, EligibleSubtotal(coupon)) <= EligibleSubtotal(coupon)
<1> DEFINE D == DOMAIN wants.lines
           takes(n) == Unrestricted(coupon) \/ Matches(coupon, wants.lines[n])
           part == [n \in D |-> IF takes(n) THEN till.priced[n] ELSE 0]
<1>1. wants.lines \in Seq(BasketLines) /\ till.priced \in Seq(Nat) /\ DOMAIN till.priced = D
  BY DEF BillInv, BillTypes, TillRecs, WantRecs, TillHolds, PastPrice, PastPoints, PastFee, PastRules
<1>2. IsFiniteSet(D)
  BY <1>1, LinesAre
<1>3. till.priced \in [D -> Nat]
  BY <1>1
<1> HIDE DEF D, takes
<1>4. part \in [D -> Nat] /\ \A n \in D : part[n] <= till.priced[n]
  BY <1>3
<1>5. EligibleSubtotal(coupon) = SumOf(part)
  BY DEF EligibleSubtotal, D, takes
<1> HIDE DEF part
<1>6. SumOf(part) \in Nat /\ SumOf(till.priced) \in Nat /\ SumOf(part) <= SumOf(till.priced)
  BY <1>2, <1>3, <1>4, SumsGrow
<1>7. ASSUME NEW e \in Nat PROVE ComputeDiscount(coupon, e) \in Int /\ ComputeDiscount(coupon, e) <= e
  <2>1. coupon.value \in Int /\ coupon.cap \in Int
    BY BillForms
  <2>2. e * coupon.value \in Int
    BY <2>1, ProductIsInt
  <2>3. PICK raw \in Int : raw = (e * coupon.value) \div 100
    BY <2>2
  <2>4. \A a, b \in Int : Lesser(a, b) \in Int /\ Lesser(a, b) <= a /\ Lesser(a, b) <= b
    BY DEF Lesser
  <2>5. PICK capped \in Int : capped = IF coupon.cap = NoCap THEN raw ELSE Lesser(raw, coupon.cap)
    BY <2>1, <2>4
  <2>6. ComputeDiscount(coupon, e) = IF coupon.type = "flat" THEN Lesser(coupon.value, e) ELSE Lesser(e, capped)
    BY <2>3, <2>5 DEF ComputeDiscount
  <2>7. Lesser(coupon.value, e) \in Int /\ Lesser(coupon.value, e) <= e /\ Lesser(e, capped) \in Int /\ Lesser(e, capped) <= e
    <3>1. e \in Int
      OBVIOUS
    <3> QED
      BY <2>1, <2>4, <3>1, Zenon
  <2> QED
    BY <2>6, <2>7
<1> QED
  BY <1>5, <1>6, <1>7

(* What is read makes the bill: as it is before an edit. *)
LEMMA SummaryIs ==
  ASSUME NEW d, NEW e
  PROVE  Summary(d, e) = SummaryOf(till.priced, till.balance, till.fee, till.rules, d, e)
  BY DEF Summary, SummaryOf, EarnedPointsForTotal

LEMMA EligibleIs == EligibleSubtotal(shelf.coupon) = EligibleOf(till.rows, till.priced)
  BY DEF EligibleSubtotal, EligibleOf, Matches

LEMMA ReadyKeeps ==
  ASSUME BillInv, till.pc = "coupon", UNCHANGED <<shelf, wants, paid, edits>>,
         till' = [till EXCEPT !.pc = IF till.goal = "quote" THEN "quoted" ELSE "match"],
         slip' \in Amounts, Adds(slip', till), edits = 0 => FitsNow /\ slip' = BillNow
  PROVE  BillInv'
<1> DEFINE pc == IF till.goal = "quote" THEN "quoted" ELSE "match"
<1>1. till \in TillRecs /\ till.goal \in TillGoals
  BY DEF BillInv, BillTypes, TillRecs
<1>2. pc \in {"quoted", "match"} /\ pc \in TillPCs /\ (pc = "match" => till.goal = "order")
  BY <1>1 DEF TillPCs, TillGoals
<1> HIDE DEF pc
<1>3. /\ till' \in TillRecs /\ till'.pc = pc /\ till'.goal = till.goal /\ till'.rows = till.rows
      /\ till'.priced = till.priced /\ till'.balance = till.balance /\ till'.fee = till.fee /\ till'.rules = till.rules
  BY <1>1, <1>2 DEF TillRecs, pc
<1>4. BillTypes'
  BY <1>3 DEF BillInv, BillTypes
<1>5. Adds(slip', till')
  BY <1>3 DEF Adds
<1>6. TillHolds'
  BY <1>2, <1>3, <1>5 DEF BillInv, TillHolds, Adds, PastFind, PastPrice, PastPoints, PastFee, PastRules, Ends
<1>7. edits' = 0 => Unedited'
  BY <1>2, <1>3, NowStays DEF BillInv, Unedited, PastFind, PastPrice, PastPoints, PastFee, PastRules, Ends
<1> QED
  BY <1>4, <1>6, <1>7 DEF BillInv

LEMMA TillCouponKeeps ==
  ASSUME BillInv, TillCoupon
  PROVE  BillInv'
<1> DEFINE coupon == shelf.coupon
           eligible == EligibleSubtotal(coupon)
           discount == ComputeDiscount(coupon, eligible)
           fits == Applicable(coupon, SumOf(till.priced)) /\ (Unrestricted(coupon) \/ eligible > 0)
           next == [till EXCEPT !.pc = IF till.goal = "quote" THEN "quoted" ELSE "match"]
<1>1. till.pc = "coupon" /\ UNCHANGED <<shelf, wants, paid, edits>>
  BY DEF TillCoupon
<1>2. coupon \in CouponForms /\ till \in TillRecs /\ wants \in WantRecs /\ till.goal \in TillGoals
  BY DEF BillInv, BillTypes, ShelfRecs, TillRecs
<1>3. edits = 0 => /\ till.rows = shelf.dish /\ till.priced = PricedNow /\ till.balance = shelf.points
                   /\ till.fee = DeliveryFeeFor /\ till.rules = shelf.rules
                   /\ till.goal = "order" => FitsNow
  BY <1>1 DEF BillInv, Unedited, PastFind, PastPrice, PastPoints, PastFee, PastRules
<1>4. /\ SumOf(till.priced) \in Nat /\ eligible \in Nat /\ eligible <= SumOf(till.priced)
      /\ discount \in Int /\ discount <= eligible
  BY <1>1, <1>2, CouponTakes
<1>5. CASE ~wants.asks
  <2>1. slip' = Summary(0, 0) /\ till' = next
    BY <1>5 DEF TillCoupon
  <2>2. slip' \in Amounts /\ Adds(slip', till)
    BY <1>2, <1>4, <2>1, SummaryAdds
  <2>3. edits = 0 => FitsNow /\ slip' = BillNow
    BY <1>3, <1>5, <2>1, SummaryIs DEF FitsNow, BillNow, BillOf
  <2> QED
    BY <1>1, <2>1, <2>2, <2>3, ReadyKeeps
<1>6. CASE wants.asks /\ fits
  <2>1. slip' = Summary(discount, eligible) /\ till' = next
    BY <1>6 DEF TillCoupon
  <2>2. slip' \in Amounts /\ Adds(slip', till)
    <3> HIDE DEF eligible, discount
    <3> QED
      BY <1>2, <1>4, <2>1, SummaryAdds
  <2>3. edits = 0 => FitsNow /\ slip' = BillNow
    <3> SUFFICES ASSUME edits = 0 PROVE FitsNow /\ slip' = BillNow
      OBVIOUS
    <3>1. eligible = EligibleOf(shelf.dish, PricedNow)
      BY <1>3, EligibleIs
    <3>2. FitsNow
      BY <1>3, <1>6, <3>1 DEF FitsNow, FitsOf
    <3>3. slip' = SummaryOf(PricedNow, shelf.points, DeliveryFeeFor, shelf.rules, discount, eligible)
      BY <1>3, <2>1, SummaryIs
    <3> HIDE DEF eligible
    <3> QED
      BY <1>6, <3>1, <3>2, <3>3 DEF BillNow, BillOf
  <2> QED
    BY <1>1, <2>1, <2>2, <2>3, ReadyKeeps
<1>7. CASE wants.asks /\ ~fits
  <2>1. Refuse /\ UNCHANGED slip
    BY <1>7 DEF TillCoupon
  <2>2. edits = 0 => till.goal # "order"
    BY <1>3, <1>7, EligibleIs DEF FitsNow, FitsOf
  <2> QED
    BY <1>1, <1>2, <2>1, <2>2, RefuseKeeps DEF TillGoals
<1> QED
  BY <1>5, <1>6, <1>7

LEMMA PayQuoteKeeps ==
  ASSUME BillInv, PayQuote
  PROVE  BillInv'
<1>1. till.pc = "quoted" /\ UNCHANGED <<shelf, wants, edits>> /\ slip' = NoSlip /\ paid' = slip.total
      /\ slip.total \in Int /\ "order" \in TillGoals
  BY DEF PayQuote, BillInv, BillTypes, Amounts, TillGoals
<1>2. till' \in TillRecs /\ till'.pc = "find" /\ till'.goal = "order"
  BY <1>1, NoTillOk DEF PayQuote
<1>3. BillTypes'
  BY <1>1, <1>2, NoSlipOk DEF BillInv, BillTypes
<1>4. TillHolds'
  BY <1>2 DEF TillHolds, PastFind, PastPrice, PastPoints, PastFee, PastRules, Ends
<1>5. edits' = 0 => Unedited'
  BY <1>1, <1>2, NowStays DEF BillInv, Unedited, PastFind, PastPrice, PastPoints, PastFee, PastRules, Ends
<1> QED
  BY <1>3, <1>4, <1>5 DEF BillInv

LEMMA OrderMatchKeeps ==
  ASSUME BillInv, OrderMatch
  PROVE  BillInv'
<1>1. till.pc = "match" /\ UNCHANGED <<shelf, wants, slip, paid, edits>> /\ till \in TillRecs /\ "order" \in TillGoals
  BY DEF OrderMatch, BillInv, BillTypes, TillGoals
<1>2. CASE slip.total = paid
  <2>1. /\ till' \in TillRecs /\ till'.pc = "ordered" /\ till'.goal = till.goal /\ till'.rows = till.rows
        /\ till'.priced = till.priced /\ till'.balance = till.balance /\ till'.fee = till.fee /\ till'.rules = till.rules
    BY <1>1, <1>2 DEF OrderMatch, TillRecs, TillPCs
  <2>2. BillTypes'
    BY <1>1, <2>1 DEF BillInv, BillTypes
  <2>3. TillHolds'
    BY <1>1, <1>2, <2>1 DEF BillInv, TillHolds, Adds, PastFind, PastPrice, PastPoints, PastFee, PastRules, Ends
  <2>4. edits' = 0 => Unedited'
    BY <1>1, <2>1, NowStays DEF BillInv, Unedited, PastFind, PastPrice, PastPoints, PastFee, PastRules, Ends
  <2> QED
    BY <2>2, <2>3, <2>4 DEF BillInv
<1>3. CASE slip.total # paid
  <2>1. till' = [NoTill EXCEPT !.pc = "short", !.goal = "order"] /\ "short" \in TillPCs
    BY <1>3 DEF OrderMatch, TillPCs
  <2>2. till' \in TillRecs /\ till'.pc = "short" /\ till'.goal = "order"
    BY <1>1, <2>1, NoTillOk
  <2>3. edits # 0
    BY <1>1, <1>3 DEF BillInv, TillHolds, Unedited
  <2>4. BillTypes'
    BY <1>1, <2>2 DEF BillInv, BillTypes
  <2>5. TillHolds'
    BY <2>2 DEF TillHolds, PastFind, PastPrice, PastPoints, PastFee, PastRules, Ends
  <2> QED
    BY <1>1, <2>3, <2>4, <2>5 DEF BillInv
<1> QED
  BY <1>2, <1>3

LEMMA ReorderKeeps ==
  ASSUME BillInv, Reorder
  PROVE  BillInv'
<1> DEFINE lines == [n \in DOMAIN wants.lines |-> [wants.lines[n] EXCEPT !.with = "plain"]]
<1>1. wants' = [wants EXCEPT !.lines = lines] /\ till' = NoTill /\ slip' = NoSlip /\ paid' = 0
      /\ UNCHANGED <<shelf, edits>> /\ wants \in WantRecs /\ wants.lines \in Seq(BasketLines)
  BY DEF Reorder, BillInv, BillTypes, WantRecs
<1>2. lines \in Seq(BasketLines)
  <2>1. \A n \in DOMAIN wants.lines : [wants.lines[n] EXCEPT !.with = "plain"] \in BasketLines
    BY <1>1, LinesAre
  <2>2. DOMAIN wants.lines = 1..Len(wants.lines) /\ Len(wants.lines) \in Nat
    BY <1>1, LinesAre
  <2>3. lines \in [1..Len(wants.lines) -> BasketLines]
    BY <2>1, <2>2
  <2> HIDE DEF lines
  <2> QED
    BY <2>2, <2>3, SeqDef
<1> HIDE DEF lines
<1>3. wants' \in WantRecs
  BY <1>1, <1>2 DEF WantRecs
<1>4. till' \in TillRecs /\ till'.pc = "find" /\ till'.goal = "quote"
  BY <1>1, NoTillOk
<1>5. BillTypes'
  BY <1>1, <1>3, <1>4, NoSlipOk DEF BillInv, BillTypes
<1> QED
  BY <1>4, <1>5 DEF BillInv, TillHolds, Unedited, PastFind, PastPrice, PastPoints, PastFee, PastRules, Ends

LEMMA EditKeeps ==
  ASSUME BillInv, Edit
  PROVE  BillInv'
<1>1. shelf \in ShelfRecs /\ edits \in Nat /\ edits' = edits + 1 /\ UNCHANGED <<wants, till, slip, paid>>
  BY DEF BillInv, BillTypes, Edit
<1>2. edits' \in Nat /\ edits' # 0
  BY <1>1
<1>3. shelf' \in ShelfRecs
  <2>1. ASSUME NEW d \in Plates, NEW form \in PlateForms PROVE [shelf EXCEPT !.dish[d] = form] \in ShelfRecs
    BY <1>1 DEF ShelfRecs
  <2>2. ASSUME NEW coupon \in CouponForms PROVE [shelf EXCEPT !.coupon = coupon] \in ShelfRecs
    BY <1>1 DEF ShelfRecs
  <2>3. ASSUME NEW rules \in RuleForms PROVE [shelf EXCEPT !.rules = rules] \in ShelfRecs
    BY <1>1 DEF ShelfRecs
  <2>4. ASSUME NEW fee \in Fees PROVE [shelf EXCEPT !.fee = fee] \in ShelfRecs
    BY <1>1 DEF ShelfRecs
  <2>5. ASSUME NEW points \in PointSums PROVE [shelf EXCEPT !.points = points] \in ShelfRecs
    BY <1>1 DEF ShelfRecs
  <2> QED
    BY <2>1, <2>2, <2>3, <2>4, <2>5 DEF Edit
<1>4. BillTypes'
  BY <1>1, <1>2, <1>3 DEF BillInv, BillTypes
<1>5. TillHolds'
  BY <1>1 DEF BillInv, TillHolds, Adds
<1> QED
  BY <1>2, <1>4, <1>5 DEF BillInv

LEMMA BillSteps == BillInv /\ [BillNext]_billVars => BillInv'
<1> SUFFICES ASSUME BillInv, [BillNext]_billVars PROVE BillInv'
  OBVIOUS
<1>1. CASE UNCHANGED billVars
  <2>1. UNCHANGED <<shelf, wants, till, slip, paid, edits>>
    BY <1>1 DEF billVars
  <2>2. edits' = 0 => Unedited'
    BY <2>1, NowStays DEF BillInv, Unedited
  <2> QED
    BY <2>1, <2>2 DEF BillInv, BillTypes, TillHolds, Adds
<1> QED
  BY <1>1, TillFindKeeps, TillPriceKeeps, TillPointsKeeps, TillFeeKeeps, TillRulesKeeps, TillCouponKeeps,
     PayQuoteKeeps, OrderMatchKeeps, ReorderKeeps, EditKeeps DEF BillNext

LEMMA BillTyped == BillInv => BillTypeOK
BY BillBounds DEF BillInv, BillTypes, BillTypeOK, ShelfRecs, WantRecs, TillRecs, TillGoals

(* What administrators edit, the request, what the till has read of the tables, the *)
(* bill and what was paid keep their types (quote, create, summarizeQuote).         *)
THEOREM BillTypeSafe == BillSpec => []BillTypeOK
  BY BillTyped, BillStart, BillSteps, PTL DEF BillSpec

(* An order's lines, discounts, tax and fee add up to what was paid for it, in the  *)
(* invoice as in the kitchen's copy; its coupon takes no more than what it applies  *)
(* to; and its points leave something to pay, if they are worth no more than the    *)
(* share of a bill that they may pay (summarizeQuote, getInvoice, computeDiscount). *)
THEOREM BillsAddUp == BillSpec => []BillAddsUp
<1>1. ASSUME BillInv PROVE BillAddsUp
  <2> SUFFICES ASSUME till.pc = "ordered"
               PROVE  /\ SumOf(till.priced) = slip.subtotal
                      /\ Invoice.parts + Invoice.cgst + Invoice.sgst = paid
                      /\ KitchenCopy.total = KitchenCopy.items + KitchenCopy.tax - KitchenCopy.discount + slip.fee
                      /\ -slip.coupon <= slip.eligible
                      /\ till.rules.value * till.rules.percent <= 100 => paid >= 0
    BY DEF BillAddsUp
  <2>1. Adds(slip, till) /\ paid = slip.total
    BY <1>1 DEF BillInv, TillHolds, Ends
  <2>2. /\ slip.subtotal \in Nat /\ slip.coupon \in Int /\ slip.gst \in Nat /\ slip.fee \in Nat
        /\ slip.loyalty \in Int /\ slip.total \in Int /\ slip.eligible \in Nat
    BY <1>1 DEF BillInv, BillTypes, Amounts
  <2>3. Rounded(slip.gst, 2) \in Int
    BY <2>2 DEF Rounded
  <2>4. Invoice.parts + Invoice.cgst + Invoice.sgst = paid
    BY <2>1, <2>2, <2>3 DEF Adds, Invoice
  <2>5. KitchenCopy.total = KitchenCopy.items + KitchenCopy.tax - KitchenCopy.discount + slip.fee
    BY <2>1, <2>2 DEF Adds, KitchenCopy
  <2> QED
    BY <2>1, <2>4, <2>5 DEF Adds
<1> QED
  BY <1>1, BillStart, BillSteps, PTL DEF BillSpec

(* Who has paid what was quoted orders for it, unless something was edited in between: *)
(* create reads the same tables as quote and comes to the same bill.                   *)
THEOREM QuotesAreKept == BillSpec => []PaidQuoteBecomesOrder
<1>1. BillInv => PaidQuoteBecomesOrder
  BY DEF BillInv, BillTypes, Unedited, PaidQuoteBecomesOrder
<1> QED
  BY <1>1, BillStart, BillSteps, PTL DEF BillSpec

-----------------------------------------------------------------------------
(* MCFront: whichever of them runs *)

FrontInv ==
  /\ scene = "phone" => PhoneInv
  /\ scene = "accounts" => AccountTypes
  /\ scene = "rate" => RateTypeOK
  /\ scene = "devices" => DevicesInv
  /\ scene = "outlets" => OutletsInv
  /\ scene = "gateway" => GatewayInv
  /\ scene = "hosted" => HostedInv
  /\ scene = "bill" => BillInv

(* Whichever module runs beside the others at rest, its variables keep their types. *)
THEOREM FrontTypeSafe == Spec => []FrontTypeOK
<1>1. Init => FrontInv
  <2>1. AccountsInit => AccountTypes
    BY InvInit DEF AccountInv
  <2> QED
    BY <2>1, PhoneInitInv, RateInitType, DevicesInitInv, OutletsStart, GatewayStart, HostedInitInv, BillStart
       DEF Init, FrontInv
<1>2. FrontInv /\ [Next]_front => FrontInv'
  <2> SUFFICES ASSUME FrontInv, [Next]_front PROVE FrontInv'
    OBVIOUS
  <2>1. scene' = scene
    BY DEF Next, front
  <2>2. ASSUME scene = "phone" PROVE PhoneInv'
    BY <2>2, PhoneStep DEF FrontInv, Next, front
  <2>3. ASSUME scene = "accounts" PROVE AccountTypes'
    BY <2>3, ActionTypes DEF FrontInv, Next, front
  <2>4. ASSUME scene = "rate" PROVE RateTypeOK'
    BY <2>4, RateNextType DEF FrontInv, Next, front
  <2>5. ASSUME scene = "devices" PROVE DevicesInv'
    BY <2>5, DevicesStep DEF FrontInv, Next, front
  <2>6. ASSUME scene = "outlets" PROVE OutletsInv'
    BY <2>6, OutletsSteps DEF FrontInv, Next, front
  <2>7. ASSUME scene = "gateway" PROVE GatewayInv'
    BY <2>7, GatewaySteps DEF FrontInv, Next, front
  <2>8. ASSUME scene = "hosted" PROVE HostedInv'
    BY <2>8, HostedStep DEF FrontInv, Next, front
  <2>9. ASSUME scene = "bill" PROVE BillInv'
    BY <2>9, BillSteps DEF FrontInv, Next, front
  <2> QED
    BY <2>1, <2>2, <2>3, <2>4, <2>5, <2>6, <2>7, <2>8, <2>9 DEF FrontInv
<1>3. FrontInv => FrontTypeOK
  BY PhoneTyped, DevicesTyped, HostedTyped, BillTyped
     DEF FrontInv, FrontTypeOK, AccountTypes, OutletsInv, GatewayInv
<1> QED
  BY <1>1, <1>2, <1>3, PTL DEF Spec
=============================================================================
