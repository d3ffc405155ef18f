----------------------------- MODULE MenuStock -----------------------------
(***************************************************************************)
(* The menu table between three writers: the sync of the kitchen's menu    *)
(* (PetpoojaMenuSyncService.syncFromPayload), its item-stock calls         *)
(* (updateStockByPetpoojaIds), and the orders that take and give back      *)
(* stock (OrdersService.reserveStock, restoreStock).                       *)
(*                                                                         *)
(* A sync reads the table once, keeps two maps into what it read, by code  *)
(* and by name, and saves whole rows, stockQty included.                   *)
(***************************************************************************)
EXTENDS Naturals, FiniteSets, SequencesExt

CONSTANTS
  Dishes,      \* names as they are compared, trimmed and in lower case
  PosCodes,    \* the kitchen's item ids
  MenuOutlets, \* outlets with a restaurant id
  Syncs,       \* menus the kitchen sends, or that are fetched
  FullStock,   \* stockQty of an item that is seeded or created (100)
  MaxHeld      \* bound: items of which orders hold units at a time

NoPos == "no code"
NoOutlet == "no outlet"

ASSUME MenuBounds == FullStock \in Nat \ {0} /\ MaxHeld \in Nat /\ NoPos \notin PosCodes /\ NoOutlet \notin MenuOutlets

\* buildSerenityItemId: the id of an item is made of its name and its code; a
\* seeded item has an id of its own. No sync changes the name of a row.
MenuIds == Dishes \X (PosCodes \cup {NoPos})
NoItem == << >>
NameOf(r) == r[1]

MenuItems == [here : BOOLEAN, pos : PosCodes \cup {NoPos}, outlet : MenuOutlets \cup {NoOutlet},
              inStock : BOOLEAN, qty : Nat]

VARIABLES
  menu,       \* the menu_item rows
  sync,       \* syncs: step, outlet, items left, rows in memory and the maps into them
  reserved,   \* units of each row that orders hold
  overwrote,  \* history: rows a sync saved without having seen their stock
  overlapped, \* history: a sync ran beside another sync or an item-stock call
  strayed     \* history: a sync took a row for that of a code it no longer had, or of another name

menuHistories == <<overwrote, overlapped, strayed>>
menuVars == <<menu, sync, reserved, menuHistories>>

MenuTypeOK ==
  /\ menu \in [MenuIds -> MenuItems]
  /\ \A y \in Syncs : /\ sync[y].pc \in {"idle", "item", "save", "done"}
                      /\ sync[y].outlet \in MenuOutlets \cup {NoOutlet}
                      /\ \A r \in MenuIds : sync[y].mem[r] \in MenuItems
                      /\ \A c \in PosCodes : sync[y].byPos[c] \in MenuIds \cup {NoItem}
                      /\ \A n \in Dishes : sync[y].byName[n] \in MenuIds \cup {NoItem}
  /\ reserved \in [MenuIds -> Nat] /\ overwrote \subseteq MenuIds
  /\ {overlapped, strayed} \subseteq BOOLEAN

Absent == [here |-> FALSE, pos |-> NoPos, outlet |-> NoOutlet, inStock |-> FALSE, qty |-> 0]
Seeded == [Absent EXCEPT !.here = TRUE, !.inStock = TRUE, !.qty = FullStock]

NoSync == [pc |-> "idle", outlet |-> NoOutlet, todo |-> << >>, items |-> << >>,
           mem |-> [r \in MenuIds |-> Absent],
           byPos |-> [c \in PosCodes |-> NoItem], byName |-> [n \in Dishes |-> NoItem]]

\* The seeds have made a row of some of the dishes.
MenuInit ==
  /\ \E dishes \in SUBSET Dishes :
       menu = [r \in MenuIds |-> IF NameOf(r) \in dishes /\ r[2] = NoPos THEN Seeded ELSE Absent]
  /\ sync = [y \in Syncs |-> NoSync]
  /\ reserved = [r \in MenuIds |-> 0]
  /\ overwrote = {} /\ overlapped = FALSE /\ strayed = FALSE

Syncing(y) == sync[y].pc \in {"item", "save"}

-----------------------------------------------------------------------------
(* syncFromPayload *)

\* mapItem: the items that are active are mapped. Of two with one code the later
\* stands in the place of the earlier (mapPetpoojaMenuPayload fills a map by code).
RawItems == [dish : Dishes, code : PosCodes, active : BOOLEAN]
MapItem(mapped, raw) ==
  LET item == <<raw.dish, raw.code>>
      held == {i \in DOMAIN mapped : mapped[i][2] = raw.code}
  IN  IF ~raw.active THEN mapped
      ELSE IF held = {} THEN Append(mapped, item)
      ELSE [i \in DOMAIN mapped |-> IF i \in held THEN item ELSE mapped[i]]
MapPayload(payload) == FoldLeft(MapItem, << >>, payload)

\* A menu that maps to nothing changes nothing. Bound: of two items as they are sent.
MenusSent == {items \in BoundedSeq(Dishes \X PosCodes, 2) \ {<< >>} :
                \E p \in BoundedSeq(RawItems, 2) : items = MapPayload(p)}

\* outletIdForPayload: that of the restaurant named, if there is one.
PayloadOutlets == MenuOutlets \cup {NoOutlet}

InScope(o) == {r \in MenuIds : menu[r].here /\ (o = NoOutlet \/ menu[r].outlet \in {NoOutlet, o})}
Holding(rows, c) == {r \in rows : menu[r].pos = c}
Called(rows, n)  == {r \in rows : NameOf(r) = n}
AnyOf(rows) == IF rows = {} THEN {NoItem} ELSE rows

\* The functions that take each key to one of its rows.
Maps(keys, of(_)) == {f \in [keys -> UNION {of(k) : k \in keys}] : \A k \in keys : f[k] \in of(k)}

\* Rows and entries that no item left to do leads to are left out.
Lean(s) ==
  LET names == {s.todo[i][1] : i \in DOMAIN s.todo}
      codes == {s.todo[i][2] : i \in DOMAIN s.todo}
      byPos == [c \in PosCodes |-> IF c \in codes THEN s.byPos[c] ELSE NoItem]
      byName == [n \in Dishes |-> IF n \in names THEN s.byName[n] ELSE NoItem]
  IN  [s EXCEPT !.byPos = byPos, !.byName = byName,
                !.mem = [r \in MenuIds |-> IF r \in Range(byPos) \cup Range(byName) THEN @[r] ELSE Absent]]

\* find() has no order: of two rows with one code or one name, either is in the map.
SyncRead(y, o) ==
  /\ sync[y].pc = "idle"
  /\ \E byPos \in Maps(PosCodes, LAMBDA c : AnyOf(Holding(InScope(o), c))),
        byName \in Maps(Dishes, LAMBDA n : AnyOf(Called(InScope(o), n))), p \in MenusSent :
       sync' = [sync EXCEPT ![y] = Lean([pc |-> "item", outlet |-> o, todo |-> p, items |-> p,
                                         byPos |-> byPos, byName |-> byName, mem |-> menu])]
  /\ overlapped' = (overlapped \/ \E z \in Syncs : Syncing(z))
  /\ UNCHANGED <<menu, reserved, overwrote, strayed>>

Dish(y) == Head(sync[y].todo)[1]
Code(y) == Head(sync[y].todo)[2]
ByName(y) == sync[y].byName[Dish(y)]
ByPos(y)  == sync[y].byPos[Code(y)]
Conflict(y) == ByName(y) # NoItem /\ ByPos(y) # NoItem /\ ByName(y) # ByPos(y)

\* The row saved for the code is not known under it any more.
Stray(y) == ByPos(y) # NoItem /\ sync[y].mem[ByPos(y)].pos # Code(y)

\* No row has the name of the item, but one has its code: the row keeps its name.
Renamed(y) == ByName(y) = NoItem /\ ByPos(y) # NoItem

Unseen(y, r) == menu[r].here /\ (~sync[y].mem[r].here \/ sync[y].mem[r].qty # menu[r].qty)

\* A row in memory is saved whole.
SaveItem(y, r, row) ==
  /\ menu' = [menu EXCEPT ![r] = row]
  /\ overwrote' = IF Unseen(y, r) THEN overwrote \cup {r} ELSE overwrote

\* Another row holds the code: it loses the code and is taken off the menu.
SyncClear(y) ==
  /\ sync[y].pc = "item" /\ Conflict(y)
  /\ LET r == ByPos(y)
         row == [sync[y].mem[r] EXCEPT !.pos = NoPos, !.inStock = FALSE]
     IN /\ SaveItem(y, r, row)
        /\ sync' = [sync EXCEPT ![y] = [@ EXCEPT !.pc = "save", !.mem[r] = row, !.byPos[Code(y)] = NoItem]]
  /\ strayed' = (strayed \/ Stray(y))
  /\ UNCHANGED <<reserved, overlapped>>

Target(y) == IF ByName(y) # NoItem THEN ByName(y) ELSE ByPos(y)

\* Fault: an item that is listed again does not come back in stock.
Relisted_KeepsStock(y, row) ==
  [row EXCEPT !.pos = Code(y), !.outlet = IF sync[y].outlet = NoOutlet THEN @ ELSE sync[y].outlet]

Relisted(y, row) == [row EXCEPT !.pos = Code(y), !.inStock = TRUE,
                                !.outlet = IF sync[y].outlet = NoOutlet THEN @ ELSE sync[y].outlet]

\* Fault: every sync fills the stock up.
Listed_Refilled(y) ==
  IF Target(y) = NoItem THEN Relisted(y, [Seeded EXCEPT !.outlet = sync[y].outlet])
  ELSE [Relisted(y, sync[y].mem[Target(y)]) EXCEPT !.qty = FullStock]

\* The row of the item, found or new.
Listed(y) ==
  IF Target(y) = NoItem THEN Relisted(y, [Seeded EXCEPT !.outlet = sync[y].outlet])
  ELSE Relisted(y, sync[y].mem[Target(y)])

\* The row that holds the code has to lose it first.
MustClear(y) == sync[y].pc = "item" /\ Conflict(y)

\* What a sync has in memory once its item is saved in row r.
Remember(y, r) == [sync[y] EXCEPT !.pc = "item", !.todo = Tail(@), !.mem[r] = Listed(y),
                                  !.byPos[Code(y)] = r, !.byName[NameOf(r)] = r]

\* A new row is saved under its id, even if that is the id of a row of another outlet.
SyncSave(y) ==
  /\ Syncing(y) /\ ~MustClear(y)
  /\ LET r == IF Target(y) = NoItem THEN <<Dish(y), Code(y)>> ELSE Target(y)
     IN /\ SaveItem(y, r, Listed(y))
        /\ sync' = [sync EXCEPT ![y] =
             IF Len(@.todo) = 1 THEN [NoSync EXCEPT !.pc = "done"] ELSE Lean(Remember(y, r))]
  /\ strayed' = (strayed \/ (sync[y].pc = "item" /\ Stray(y)) \/ Renamed(y))
  /\ UNCHANGED <<reserved, overlapped>>

\* The process dies, or a save fails, part way.
SyncDies(y) ==
  /\ Syncing(y)
  /\ sync' = [sync EXCEPT ![y] = [NoSync EXCEPT !.pc = "done"]]
  /\ UNCHANGED <<menu, reserved, menuHistories>>

-----------------------------------------------------------------------------
(* Item stock, orders *)

\* updateStockByPetpoojaIds: the rows with the code, whatever the outlet.
Restocked(c, on) ==
  [r \in MenuIds |-> IF menu[r].here /\ menu[r].pos = c THEN [menu[r] EXCEPT !.inStock = on] ELSE menu[r]]

\* itemStock, itemStockOff: one UPDATE.
ItemStock(c, on) ==
  /\ menu' = Restocked(c, on)
  /\ overlapped' = (overlapped \/ \E y \in Syncs : Syncing(y))
  /\ UNCHANGED <<sync, reserved, overwrote, strayed>>

\* UPDATE ... SET stockQty = stockQty - 1 WHERE stockQty >= 1. Bound: of a row whose
\* stock a sync has overwritten nothing more is sold.
ReserveUnit(r) ==
  /\ menu[r].here /\ menu[r].qty >= 1 /\ r \notin overwrote
  /\ Cardinality({s \in MenuIds \ {r} : reserved[s] > 0}) < MaxHeld
  /\ menu' = [menu EXCEPT ![r].qty = @ - 1]
  /\ reserved' = [reserved EXCEPT ![r] = @ + 1]
  /\ UNCHANGED <<sync, menuHistories>>

RestoreUnit(r) ==
  /\ reserved[r] > 0
  /\ menu' = [menu EXCEPT ![r].qty = @ + 1]
  /\ reserved' = [reserved EXCEPT ![r] = @ - 1]
  /\ UNCHANGED <<sync, menuHistories>>

MenuNext ==
  \/ \E y \in Syncs :
       \/ \E o \in PayloadOutlets : SyncRead(y, o)
       \/ SyncClear(y) \/ SyncSave(y) \/ SyncDies(y)
  \/ \E c \in PosCodes, on \in BOOLEAN : ItemStock(c, on)
  \/ \E r \in MenuIds : ReserveUnit(r) \/ RestoreUnit(r)

MenuSpec == MenuInit /\ [][MenuNext]_menuVars

-----------------------------------------------------------------------------
(* Properties *)

\* What is left of an item and what orders hold of it is what there was, but where a
\* sync saved a row whose stock it had not seen: orders came in between, or the row
\* it made had the id of another outlet's (syncFromPayload saves whole rows).
StockOutlivesSync ==
  \A r \in MenuIds \ overwrote : menu[r].here => menu[r].qty + reserved[r] = FullStock

Distinct(p) == \A i, j \in DOMAIN p : p[i][1] = p[j][1] => i = j

\* A sync that ends has listed every item of the menu it was sent, if their names
\* differ and it ran alone, unless it looked an item up under a code that it had
\* itself given away (the map by code keeps a row under its old code) or took the
\* row of another name for it (an item that is renamed does not rename its row).
SyncListsItems ==
  [][\A y \in Syncs :
       SyncSave(y) /\ Len(sync[y].todo) = 1 /\ Distinct(sync[y].items) /\ ~overlapped /\ ~strayed'
       => \A i \in DOMAIN sync[y].items :
            \E r \in MenuIds : menu'[r].here /\ menu'[r].pos = sync[y].items[i][2] /\ menu'[r].inStock]_menuVars
=============================================================================
