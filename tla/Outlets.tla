------------------------------ MODULE Outlets ------------------------------
(***************************************************************************)
(* The outlets and whether they are open (OutletsService, StoreService,    *)
(* PetpoojaSerenityOrderService.applyStoreStatus): administrators edit     *)
(* outlets, every order and every look at the status makes sure that its   *)
(* outlet has a row in store_status, and the kitchen opens and closes.     *)
(*                                                                         *)
(* store_status was a table of one row, number 1. That row still stands in *)
(* where an outlet has none of its own.                                    *)
(***************************************************************************)
EXTENDS Naturals, FiniteSets, FiniteSetsExt

CONSTANTS
  Cafes,     \* outlet ids
  FirstCafe, \* the outlet that the migration makes
  Desks,     \* requests: of administrators, of customers, of the kitchen
  MaxStores  \* bound: rows of store_status

NoCafe == "no outlet"
StoreIds == 1..MaxStores

ASSUME OutletBounds == FirstCafe \in Cafes /\ NoCafe \notin Cafes /\ MaxStores \in Nat \ {0}

VARIABLES
  cafe,        \* the outlet rows
  storeRow,    \* the store_status rows
  desk,        \* requests: step, kind, outlet, what they ask, the rows they read
  told,        \* history: whether the kitchen said last that the outlet is open, of it or
               \* of the free row that it has taken
  torn,        \* history: a row was saved over a change that was not seen
  moved,       \* history: the kitchen's word about one outlet took the row of another
  undefaulted  \* history: a default was unset, or cleared by an edit that then failed

outletHistories == <<told, torn, moved, undefaulted>>
outletVars == <<cafe, storeRow, desk, outletHistories>>

CafeRows  == [here : BOOLEAN, isDefault : BOOLEAN, linked : BOOLEAN]
StoreRows == [here : BOOLEAN, of : Cafes \cup {NoCafe}, open : BOOLEAN]
Asks == {"yes", "no", "unsaid"}
NoCafeRow  == [here |-> FALSE, isDefault |-> FALSE, linked |-> FALSE]
NoStore == [here |-> FALSE, of |-> NoCafe, open |-> TRUE]
NoDesk == [pc |-> "idle", kind |-> "look", o |-> NoCafe, asks |-> "unsaid", was |-> FALSE, open |-> TRUE,
           read |-> NoCafeRow, n |-> 1, row |-> NoStore]

DeskPCs == {"idle", "clear", "save", "find", "legacy", "number", "store", "done"}

OutletsTypeOK ==
  /\ cafe \in [Cafes -> CafeRows] /\ storeRow \in [StoreIds -> StoreRows]
  /\ desk \in [Desks -> [pc : DeskPCs, kind : {"edit", "look", "tell"}, o : Cafes \cup {NoCafe},
                         asks : Asks, was : BOOLEAN, open : BOOLEAN, read : CafeRows, n : StoreIds, row : StoreRows]]
  /\ told \in [Cafes -> BOOLEAN] /\ {torn, moved, undefaulted} \subseteq BOOLEAN

\* The tables as the migrations leave them, with or without the seed's row 1.
OutletsInit ==
  /\ cafe = [o \in Cafes |-> IF o = FirstCafe THEN [here |-> TRUE, isDefault |-> TRUE, linked |-> FALSE]
                             ELSE NoCafeRow]
  /\ \E seeded \in BOOLEAN :
       storeRow = [n \in StoreIds |-> IF n = 1 /\ seeded THEN [here |-> TRUE, of |-> FirstCafe, open |-> TRUE] ELSE NoStore]
  /\ desk = [d \in Desks |-> NoDesk]
  /\ told = [o \in Cafes |-> TRUE]
  /\ torn = FALSE /\ moved = FALSE /\ undefaulted = FALSE

DeskEnds(d) == desk' = [desk EXCEPT ![d] = [NoDesk EXCEPT !.pc = "done"]]
Defaults == {o \in Cafes : cafe[o].isDefault}
StoresOf(o) == {n \in StoreIds : storeRow[n].here /\ storeRow[n].of = o}

-----------------------------------------------------------------------------
(* upsert *)

\* Fault: an edit that does not mention the default unsets it.
Edited_UnsaidIsNo(row, link, asks) ==
  [here |-> TRUE, isDefault |-> asks = "yes", linked |-> row.linked \/ link]

\* The row as it is edited in memory. A default that is not mentioned stays as it was read.
Edited(row, link, asks) ==
  [here |-> TRUE, linked |-> row.linked \/ link,
   isDefault |-> CASE asks = "yes" -> TRUE [] asks = "no" -> FALSE [] OTHER -> row.isDefault]

EditRead(d, o) ==
  /\ desk[d].pc = "idle"
  /\ \E link \in BOOLEAN, asks \in Asks :
       desk' = [desk EXCEPT ![d] = [NoDesk EXCEPT !.pc = IF asks = "yes" THEN "clear" ELSE "save",
                                                  !.kind = "edit", !.o = o, !.asks = asks, !.was = cafe[o].isDefault,
                                                  !.read = Edited(cafe[o], link, asks)]]
  /\ UNCHANGED <<cafe, storeRow, outletHistories>>

EditClear(d) ==
  /\ desk[d].pc = "clear"
  /\ cafe' = [o \in Cafes |-> [cafe[o] EXCEPT !.isDefault = FALSE]]
  /\ desk' = [desk EXCEPT ![d].pc = "save"]
  /\ UNCHANGED <<storeRow, outletHistories>>

\* One default, and slugs are unique: else the save is refused.
EditSave(d) ==
  LET o == desk[d].o IN
  /\ desk[d].pc = "save"
  /\ \/ /\ ~(desk[d].read.isDefault /\ Defaults \ {o} # {})
        /\ cafe' = [cafe EXCEPT ![o] = desk[d].read]
        /\ undefaulted' = (undefaulted \/ (desk[d].asks = "no" /\ cafe[o].isDefault))
        /\ torn' = (torn \/ (desk[d].asks = "unsaid" /\ desk[d].was # cafe[o].isDefault))
        /\ desk' = [desk EXCEPT ![d] = [NoDesk EXCEPT !.pc = "find", !.kind = "edit", !.o = o]]
     \/ /\ undefaulted' = (undefaulted \/ desk[d].asks = "yes")
        /\ DeskEnds(d)
        /\ UNCHANGED <<cafe, torn>>
  /\ UNCHANGED <<storeRow, told, moved>>

-----------------------------------------------------------------------------
(* ensureStoreStatus, at the end of an edit and for every order and look *)

\* resolveOutletId: the outlet asked for, or the default, or the oldest. isActive
\* only narrows which, and is left out.
LookStart(d) ==
  /\ desk[d].pc = "idle"
  /\ \E o \in {c \in Cafes : cafe[c].here} :
       desk' = [desk EXCEPT ![d] = [NoDesk EXCEPT !.pc = "find", !.o = o]]
  /\ UNCHANGED <<cafe, storeRow, outletHistories>>

StoreFind(d) ==
  /\ desk[d].pc = "find"
  /\ IF desk[d].kind # "tell" /\ StoresOf(desk[d].o) # {} THEN DeskEnds(d)
     ELSE IF StoresOf(desk[d].o) # {}
       THEN LET n == Min(StoresOf(desk[d].o))
            IN  desk' = [desk EXCEPT ![d] = [@ EXCEPT !.pc = "store", !.n = n, !.row = storeRow[n]]]
     ELSE desk' = [desk EXCEPT ![d].pc = "legacy"]
  /\ UNCHANGED <<cafe, storeRow, outletHistories>>

\* Row 1: an outlet without a row takes it if it is free. What the kitchen says of an
\* outlet without a row goes there, and makes it if there is none.
LegacyRead(d) ==
  /\ desk[d].pc = "legacy"
  /\ desk' = [desk EXCEPT ![d] =
       IF desk[d].kind = "tell" \/ (storeRow[1].here /\ storeRow[1].of = NoCafe)
         THEN [@ EXCEPT !.pc = "store", !.n = 1, !.row = storeRow[1]]
         ELSE [@ EXCEPT !.pc = "number"]]
  /\ UNCHANGED <<cafe, storeRow, outletHistories>>

\* COALESCE(MAX(id), 0) + 1.
NumberRead(d) ==
  LET n == Max({0} \cup {m \in StoreIds : storeRow[m].here}) + 1 IN
  /\ desk[d].pc = "number" /\ n <= MaxStores
  /\ desk' = [desk EXCEPT ![d] = [@ EXCEPT !.pc = "store", !.n = n, !.row = NoStore]]
  /\ UNCHANGED <<cafe, storeRow, outletHistories>>

\* Fault: a store that is given to an outlet starts open.
Claimed_Open(d) == [here |-> TRUE, of |-> desk[d].o, open |-> TRUE]

Claimed(d) == [here |-> TRUE, of |-> desk[d].o, open |-> desk[d].row.open]
Told(d) == [here |-> TRUE, of |-> IF desk[d].o = NoCafe THEN desk[d].row.of ELSE desk[d].o, open |-> desk[d].open]

\* The row goes under its number, even if another row has been given it; outletId is
\* unique, or the save is refused.
StoreSave(d) ==
  LET row == IF desk[d].kind = "tell" THEN Told(d) ELSE Claimed(d)
      n == desk[d].n
  IN
  /\ desk[d].pc = "store"
  /\ IF row.of # NoCafe /\ StoresOf(row.of) \ {n} # {}
       THEN UNCHANGED <<storeRow, told, torn, moved>>
       ELSE /\ storeRow' = [storeRow EXCEPT ![n] = row]
            /\ told' = IF desk[d].o # NoCafe /\ (desk[d].kind = "tell" \/ desk[d].row.here)
                         THEN [told EXCEPT ![desk[d].o] = IF desk[d].kind = "tell" THEN desk[d].open ELSE desk[d].row.open]
                         ELSE told
            /\ torn' = (torn \/ storeRow[n] # desk[d].row)
            /\ moved' = (moved \/ storeRow[n].of \notin {NoCafe, desk[d].o})
  /\ DeskEnds(d)
  /\ UNCHANGED <<cafe, undefaulted>>

-----------------------------------------------------------------------------
(* applyStoreStatus: by restaurant id, else the default outlet, else none *)

TellStart(d, o, open) ==
  /\ desk[d].pc = "idle"
  /\ \E c \in IF o # NoCafe /\ cafe[o].linked THEN {o} ELSE IF Defaults # {} THEN Defaults ELSE {NoCafe} :
       desk' = [desk EXCEPT ![d] = [NoDesk EXCEPT !.pc = IF c = NoCafe THEN "legacy" ELSE "find",
                                                  !.kind = "tell", !.o = c, !.open = open]]
  /\ UNCHANGED <<cafe, storeRow, outletHistories>>

\* A request that dies stays where it is: no other waits for it.
OutletsNext ==
  \E d \in Desks :
    \/ \E o \in Cafes : EditRead(d, o)
    \/ EditClear(d) \/ EditSave(d) \/ LookStart(d)
    \/ StoreFind(d) \/ LegacyRead(d) \/ NumberRead(d) \/ StoreSave(d)
    \/ \E o \in Cafes \cup {NoCafe}, open \in BOOLEAN : TellStart(d, o, open)

OutletsSpec == OutletsInit /\ [][OutletsNext]_outletVars

-----------------------------------------------------------------------------
(* Properties *)

\* An outlet that the kitchen closed is closed to orders until the kitchen opens it,
\* and one it never spoke of is open, unless two requests saved one row over each
\* other, or the kitchen's word about an outlet without a row took that of another.
StoreAsTold ==
  torn \/ moved \/ \A o \in Cafes : IF StoresOf(o) = {} THEN told[o]
                                    ELSE \A n \in StoresOf(o) : storeRow[n].open = told[o]

\* Orders that name no outlet keep having a default one, unless an administrator
\* unset it, an edit that was to change it failed after its clear, or edits overlapped.
DefaultKept ==
  undefaulted \/ torn \/ Defaults # {} \/ \E d \in Desks : desk[d].pc = "save" /\ desk[d].asks = "yes"
=============================================================================
