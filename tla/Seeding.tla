------------------------------ MODULE Seeding ------------------------------
(***************************************************************************)
(* The seeds of the database (run-seed.ts: RoleSeedService,                *)
(* UserSeedService, SerenitySeedService), run by the release command of    *)
(* the Procfile at every release, while the application of the release     *)
(* before works on the same tables. The platform runs one release command  *)
(* at a time, so no two runs overlap.                                      *)
(*                                                                         *)
(* A run goes through the sections in order. Each looks whether its rows   *)
(* are there, and if not saves them; no transaction spans two saves.       *)
(***************************************************************************)
EXTENDS Naturals, FiniteSets, Sequences

CONSTANTS
  Runs,        \* runs of the seeds, each of which may be started again
  DemoOrders,  \* how many orders the demo user is given
  MaxDeaths,   \* bound: runs that die
  MaxTouches   \* bound: sections the application works on

ASSUME SeedBounds == DemoOrders \in Nat \ {0} /\ {MaxDeaths, MaxTouches} \subseteq Nat /\ IsFiniteSet(Runs)

\* run-seed.ts and run(). "stock" is the second half of seedMenu, "lines" of seedOrders.
Course == <<"roles", "admin", "user", "outlet", "menu", "stock", "diet", "store", "events", "coupon",
            "demo user", "profile", "orders", "bowls", "loyalty">>
Sections == {Course[n] : n \in DOMAIN Course}

VARIABLES
  sown,       \* how often the rows of each section were added
  orderLines, \* orders of the demo user: how often their lines were added, in the order of the seeds
  own,        \* sections into which the application has put rows that a run takes for its own
  changed,    \* sections whose seeded rows the application has changed
  seeder,     \* runs: section, step
  undone,     \* history: sections where a run saved over what the application had changed
  cut,        \* history: a run died between two orders, or an order and its lines
  deaths      \* history: runs that died

seedHistories == <<undone, cut, deaths>>
seedVars == <<sown, orderLines, own, changed, seeder, seedHistories>>

-----------------------------------------------------------------------------
SeedingTypeOK ==
  /\ sown \in [Sections -> Nat] /\ orderLines \in Seq(Nat) /\ Len(orderLines) <= DemoOrders
  /\ own \subseteq Sections /\ changed \subseteq Sections /\ undone \subseteq changed
  /\ seeder \in [Runs -> [pc : {"idle", "check", "save", "lines", "ended"}, at : DOMAIN Course, order : 0..DemoOrders,
                      saw : BOOLEAN]] \* the row it read was one the application had changed
  /\ cut \in BOOLEAN /\ deaths \in 0..MaxDeaths

Unstarted == [pc |-> "idle", at |-> 1, order |-> 0, saw |-> FALSE]

\* The database is empty, or the seeds of an earlier release have filled it.
SeedingInit ==
  /\ \/ sown = [s \in Sections |-> 0] /\ orderLines = << >>
     \/ sown = [s \in Sections |-> 1] /\ orderLines = [n \in 1..DemoOrders |-> 1]
  /\ own = {} /\ changed = {}
  /\ seeder = [r \in Runs |-> Unstarted]
  /\ undone = {} /\ cut = FALSE /\ deaths = 0

AtWork(r) == seeder[r].pc \in {"check", "save", "lines"}
Section(r) == Course[seeder[r].at]
SeederIs(r, fields) == seeder' = [seeder EXCEPT ![r] = fields]

\* The run goes on to the next section, or ends.
GoOn(r) ==
  SeederIs(r, IF seeder[r].at = Len(Course) THEN [Unstarted EXCEPT !.pc = "ended"]
              ELSE [Unstarted EXCEPT !.pc = "check", !.at = seeder[r].at + 1])

RunStarts(r) ==
  /\ seeder[r].pc = "idle" /\ ~\E q \in Runs : AtWork(q)
  /\ SeederIs(r, [Unstarted EXCEPT !.pc = "check"])
  /\ UNCHANGED <<sown, orderLines, own, changed, seedHistories>>

\* Fault: the menu is saved whether it is there or not.
There_NotMenu(s) == s # "menu" /\ (sown[s] > 0 \/ s \in own)

\* count() of a table or of the demo user's rows, or findOne() of the row.
There(s) == sown[s] > 0 \/ s \in own

SeedCheck(r) ==
  /\ seeder[r].pc = "check"
  /\ IF There(Section(r)) THEN GoOn(r) ELSE SeederIs(r, [seeder[r] EXCEPT !.pc = "save"])
  /\ UNCHANGED <<sown, orderLines, own, changed, seedHistories>>

\* What the application changed since the run read it is saved over.
Undo(r, s) == undone' = IF s \in changed /\ ~seeder[r].saw THEN undone \cup {s} ELSE undone

\* save() of rows with given ids, which writes over those that are there.
SaveKeyed(r, s) ==
  /\ seeder[r].pc = "save" /\ Section(r) = s
  /\ sown' = [sown EXCEPT ![s] = 1]
  /\ Undo(r, s)
  /\ GoOn(r)
  /\ UNCHANGED <<orderLines, own, changed, cut, deaths>>

\* save() of a row with an id of its own and a unique column: the second is refused,
\* nothing catches the refusal and the run ends there.
SaveUnique(r, s) ==
  /\ seeder[r].pc = "save" /\ Section(r) = s
  /\ IF There(s) THEN SeederIs(r, Unstarted) /\ UNCHANGED sown
     ELSE sown' = [sown EXCEPT ![s] = 1] /\ GoOn(r)
  /\ UNCHANGED <<orderLines, own, changed, seedHistories>>

SeedRoles(r)           == SaveKeyed(r, "roles")
SeedDietPreferences(r) == SaveKeyed(r, "diet")
SeedMenu(r)            == SaveKeyed(r, "menu")
SeedEvents(r)          == SaveKeyed(r, "events")
SeedSavedBowls(r)      == SaveKeyed(r, "bowls")
SeedCoupons(r)         == SaveUnique(r, "coupon")
SeedDemoUser(r)        == SaveUnique(r, "demo user")
SeedProfile(r)         == SaveUnique(r, "profile")

\* The administrator and the user are left out where no password is configured for them.
SeedUsers(r) ==
  \E s \in {"admin", "user"} :
    \/ SaveUnique(r, s)
    \/ seeder[r].pc = "save" /\ Section(r) = s /\ GoOn(r)
       /\ UNCHANGED <<sown, orderLines, own, changed, seedHistories>>

\* A row that is there, but does not say to whom it belongs, is saved again as it was read.
SavesAgain(r, s) ==
  /\ seeder[r].pc = "check" /\ Section(r) = s /\ There(s)
  /\ SeederIs(r, [seeder[r] EXCEPT !.pc = "save", !.saw = s \in changed])
  /\ UNCHANGED <<sown, orderLines, own, changed, seedHistories>>

SeedOutlet(r) == SavesAgain(r, "outlet") \/ SaveKeyed(r, "outlet")
SeedStoreStatus(r) == SavesAgain(r, "store") \/ SaveKeyed(r, "store")

\* Items whose stock is not counted are given one; nothing is asked first.
SeedStock(r) ==
  /\ seeder[r].pc \in {"check", "save"} /\ Section(r) = "stock"
  /\ sown' = [sown EXCEPT !["stock"] = 1]
  /\ Undo(r, "stock")
  /\ GoOn(r)
  /\ UNCHANGED <<orderLines, own, changed, cut, deaths>>

\* Four rows with ids of their own.
SeedLoyalty(r) ==
  /\ seeder[r].pc = "save" /\ Section(r) = "loyalty"
  /\ sown' = [sown EXCEPT !["loyalty"] = @ + 1]
  /\ GoOn(r)
  /\ UNCHANGED <<orderLines, own, changed, seedHistories>>

\* Orders one by one: the order, whose id is given, then its lines, which have their own.
SeedOrder(r) ==
  LET n == seeder[r].order + 1 IN
  /\ seeder[r].pc = "save" /\ Section(r) = "orders"
  /\ sown' = [sown EXCEPT !["orders"] = 1]
  /\ orderLines' = IF n > Len(orderLines) THEN Append(orderLines, 0) ELSE orderLines
  /\ IF n <= Len(orderLines) THEN Undo(r, "orders") ELSE UNCHANGED undone
  /\ SeederIs(r, [seeder[r] EXCEPT !.pc = "lines", !.order = n])
  /\ UNCHANGED <<own, changed, cut, deaths>>

SeedLines(r) ==
  /\ seeder[r].pc = "lines"
  /\ orderLines' = [orderLines EXCEPT ![seeder[r].order] = @ + 1]
  /\ IF seeder[r].order = DemoOrders THEN GoOn(r) ELSE SeederIs(r, [seeder[r] EXCEPT !.pc = "save"])
  /\ UNCHANGED <<sown, own, changed, seedHistories>>

\* A run dies, and may be started again from the beginning.
SeedDies(r) ==
  /\ AtWork(r) /\ deaths < MaxDeaths /\ deaths' = deaths + 1
  /\ cut' = (cut \/ seeder[r].order > 0)
  /\ SeederIs(r, Unstarted)
  /\ UNCHANGED <<sown, orderLines, own, changed, undone>>

-----------------------------------------------------------------------------
(* The application *)

MayTouch(s) == Cardinality(own \cup changed \cup {s}) <= MaxTouches

\* Users, menu items and events of its own, and the store's row 1; the demo user's profile,
\* orders, bowls and points, once there is such a user.
AppAdds(s) ==
  /\ s \in {"user", "menu", "store", "events"} \cup
           IF There("demo user") THEN {"profile", "orders", "bowls", "loyalty"} ELSE {}
  /\ s \in {"store", "profile"} => ~There(s)
  /\ MayTouch(s)
  /\ own' = own \cup {s}
  /\ UNCHANGED <<sown, orderLines, changed, seeder, seedHistories>>

\* It sells stock or stops to count it, edits the outlet, closes the store, takes
\* bookings, moves orders along.
AppChanges(s) ==
  /\ \/ s \in {"outlet", "menu", "events", "orders"} /\ sown[s] > 0
     \/ s = "store" /\ There(s)
     \/ s = "stock" /\ There("menu")
  /\ MayTouch(s)
  /\ changed' = changed \cup {s}
  /\ UNCHANGED <<sown, orderLines, own, seeder, seedHistories>>

SeedingNext ==
  \/ \E r \in Runs :
       \/ RunStarts(r) \/ SeedCheck(r) \/ SeedDies(r) \/ SeedRoles(r) \/ SeedUsers(r) \/ SeedOutlet(r)
       \/ SeedMenu(r) \/ SeedStock(r) \/ SeedDietPreferences(r) \/ SeedStoreStatus(r) \/ SeedEvents(r)
       \/ SeedCoupons(r) \/ SeedDemoUser(r) \/ SeedProfile(r) \/ SeedOrder(r) \/ SeedLines(r)
       \/ SeedSavedBowls(r) \/ SeedLoyalty(r)
  \/ \E s \in Sections : AppAdds(s) \/ AppChanges(s)

SeedingSpec == SeedingInit /\ [][SeedingNext]_seedVars

-----------------------------------------------------------------------------
(* Properties *)

\* However often the seeds are run, and die, and whatever the application does between
\* two of their statements, no welcome points and no order lines are given twice, and
\* nothing that the application has changed is undone but an uncounted stock, and an
\* outlet or a store that it changed while a run was about to save them; and once a run
\* has ended every section but the users' has rows, and the demo user's orders all
\* their lines, unless a run was cut short in them: the next takes those that are there
\* for all of them (seedOrders counts them).
SeededOnce ==
  /\ sown["loyalty"] <= 1 /\ \A n \in DOMAIN orderLines : orderLines[n] <= 1
  /\ undone \subseteq {"stock", "outlet", "store"}
  /\ (\E r \in Runs : seeder[r].pc = "ended") =>
       /\ \A s \in Sections \ {"admin", "user"} : There(s)
       /\ ~cut /\ sown["orders"] > 0 => orderLines = [n \in 1..DemoOrders |-> 1]
=============================================================================
