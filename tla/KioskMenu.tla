------------------------------ MODULE KioskMenu ------------------------------
(***************************************************************************)
(* The menu: the admin's forms write it, a kiosk loads it once, in several *)
(* requests, and customers order from what it has loaded.  The database    *)
(* keeps an order's lines and the menu consistent with foreign keys, for   *)
(* which the handlers of orders and of deletions wait for each other.      *)
(***************************************************************************)
EXTENDS Naturals, FiniteSets

CONSTANTS
    Categories,  \* rows of table categories, also those to come
    NoCategory,  \* category_id IS NULL
    Items,       \* rows of table items
    Options,     \* rows of table customization_options
    OptionsOf,   \* those of each item's groups
    Orders,      \* bound: orders placed at the kiosk
    Hosts,       \* number of backends the kiosk knows
    MaxEdits,    \* bound: forms saved, other than deletions
    MaxDeletions,\* bound: deletions of items or options
    MaxPresses   \* bound: presses of the retry button

ASSUME MenuAssumption ==
    /\ NoCategory \notin Categories
    /\ OptionsOf \in [Items -> SUBSET Options]
    /\ \A x \in Options : \E i \in Items : x \in OptionsOf[i]
    /\ \A i, j \in Items : i # j => OptionsOf[i] \cap OptionsOf[j] = {}
ASSUME BoundAssumption ==
    Hosts \in Nat \ {0} /\ MaxEdits \in Nat /\ MaxDeletions \in Nat /\ MaxPresses \in Nat

VARIABLES
    \* the database
    category,  \* the row of each category
    item,      \* the row of each item and its category_id
    option,    \* the row of each option
    edits,     \* number of forms saved so far
    deletions, \* number of deletions so far
    deletion,  \* the deletion of an item that is under way
    \* orders
    order,     \* the state of each order
    content,   \* what it consists of
    tries,     \* backends that have refused it
    deadlocks, \* history: refusals because of a deadlock
    \* the kiosk
    alive,     \* the process has not been aborted
    screen,    \* the central widget
    loader,    \* the state of the thread in self.loader
    got,       \* what it has been sent
    orphaned,  \* a thread replaced in self.loader is still running
    timers,    \* single-shot timers that will call _load_data
    presses,   \* number of presses of the retry button
    menu,      \* self.categories and self.items
    clock,     \* the clock of a menu has been started
    steady     \* history: items on sale all the time since the last load began, until its end

dbVars     == <<category, item, option, edits, deletions, deletion>>
orderVars  == <<order, content, tries, deadlocks>>
loadVars   == <<loader, got, orphaned, steady>>
kioskVars  == <<alive, screen, loadVars, timers, presses, menu, clock>>
vars == <<dbVars, orderVars, kioskVars>>

\* Not inserted yet, in the table, or deleted.  The columns is_active and is_available
\* are TRUE in every row: the form does not send an unticked box, and the handlers take
\* a missing field for TRUE.
Rows == {"none", "here", "gone"}

\* The categories listed, and for each item listed its category and its options.  An
\* item that is not listed or has no category is not shown either way.
Menu == [categories : SUBSET Categories,
         of : [Items -> Categories \cup {NoCategory}],
         options : [Items -> SUBSET Options]]
NoMenu == [categories |-> {}, of |-> [i \in Items |-> NoCategory],
           options |-> [i \in Items |-> {}]]

\* At most one item, and those of its options whose rows are deleted, hence locked, in
\* the transaction.
Deletion == [item : {{}} \cup {{i} : i \in Items}, options : SUBSET Options]
NoDeletion == [item |-> {}, options |-> {}]

OrderStates == {
    "none",    \* not placed                             next: PlaceOrder
    "begun",   \* no line inserted yet                   next: InsertLine
    "line",    \* order_items inserted                   next: InsertOptions
    "options", \* order_item_customizations inserted     next: CommitOrder
    "stored",  \* committed
    "failed"}  \* refused by every backend

LoaderStates == {
    "idle",       \* over                                next: RetryTimer, PressRetry
    "categories", \* waiting for settings or categories  next: ReadCategories, LoadFails
    "items",      \* waiting for the items               next: ReadItems, LoadFails
    "loaded",     \* loaded emitted                      next: OnDataLoaded
    "failed"}     \* failed emitted                      next: OnDataFailed

TypeOK ==
    /\ category \in [Categories -> Rows]
    /\ item \in [Items -> [row : Rows, of : Categories \cup {NoCategory}]]
    /\ \A i \in Items : item[i].of = NoCategory \/ category[item[i].of] = "here"
    /\ option \in [Options -> Rows]
    /\ \A i \in Items : item[i].row # "here" => \A x \in OptionsOf[i] : option[x] # "here"
    /\ edits \in 0 .. MaxEdits /\ deletions \in 0 .. MaxDeletions
    /\ deletion \in Deletion
    /\ order \in [Orders -> OrderStates]
    /\ content \in [Orders -> [item : {{}} \cup {{i} : i \in Items}, options : SUBSET Options]]
    /\ tries \in [Orders -> 0 .. Hosts] /\ deadlocks \in [Orders -> 0 .. Hosts]
    /\ alive \in BOOLEAN
    /\ screen \in {"loading", "error", "menu"}
    /\ loader \in LoaderStates
    /\ got \in Menu /\ menu \in Menu
    /\ orphaned \in BOOLEAN
    /\ timers \in 0 .. 1 + MaxPresses
    /\ presses \in 0 .. MaxPresses
    /\ clock \in BOOLEAN
    /\ steady \subseteq Items

Init ==
    /\ category \in [Categories -> {"none", "here"}]
    /\ item \in {f \in [Items -> [row : {"none", "here"}, of : Categories \cup {NoCategory}]] :
                    \A i \in Items : f[i].of # NoCategory =>
                        f[i].row = "here" /\ category[f[i].of] = "here"}
    /\ option \in {f \in [Options -> {"none", "here"}] :
                    \A i \in Items : item[i].row = "none" =>
                        \A x \in OptionsOf[i] : f[x] = "none"}
    /\ edits = 0 /\ deletions = 0 /\ deletion = NoDeletion
    /\ order = [o \in Orders |-> "none"]
    /\ content = [o \in Orders |-> [item |-> {}, options |-> {}]]
    /\ tries = [o \in Orders |-> 0] /\ deadlocks = [o \in Orders |-> 0]
    /\ alive = TRUE
    /\ screen = "loading"
    /\ loader = "categories" /\ got = NoMenu /\ orphaned = FALSE
    /\ timers = 0 /\ presses = 0
    /\ menu = NoMenu /\ clock = FALSE
    /\ steady = {}

-----------------------------------------------------------------------------
Here(rows) == {x \in DOMAIN rows : rows[x] = "here"}

ItemsHere == {i \in Items : item[i].row = "here"}

\* What GET /categories and GET /items list.
Listed == [categories |-> Here(category),
           of |-> [i \in Items |-> item[i].of],
           options |-> [i \in Items |-> OptionsOf[i] \cap Here(option)]]

\* The items of a menu that have a card under the button of their category.
Shown(m) == {i \in Items : m.of[i] \in m.categories}

-----------------------------------------------------------------------------
(***************************************************************************)
(* The admin's forms.  Each is one transaction; all but the deletion of an *)
(* item write one row and are a single step.                               *)
(***************************************************************************)

\* Items that change are no longer steady for a load under way.
KeepSteady(items) ==
    steady' = IF loader = "items" THEN {i \in steady : items[i] = item[i]} ELSE steady

\* A form is saved.
Save(categories, items, options) ==
    /\ edits < MaxEdits
    /\ edits' = edits + 1
    /\ category' = categories /\ item' = items /\ option' = options
    /\ KeepSteady(items)
    /\ UNCHANGED <<deletions, deletion, orderVars, alive, screen, loader, got, orphaned,
                   timers, presses, menu, clock>>

\* save_category: a new one.  Names and order are left out.
SaveCategory(c) ==
    /\ category[c] = "none"
    /\ Save([category EXCEPT ![c] = "here"], item, option)

\* delete_category: the ORM sets category_id to NULL in the items first.
DeleteCategory(c) ==
    /\ category[c] = "here"
    /\ Save([category EXCEPT ![c] = "gone"],
            [i \in Items |-> IF item[i].of = c THEN [row |-> item[i].row, of |-> NoCategory]
                          ELSE item[i]],
            option)

\* save_item: a new item, or another category.
SaveItem(i, c) ==
    /\ item[i].row # "gone"
    /\ c \in Here(category) \cup {NoCategory}
    /\ item[i] # [row |-> "here", of |-> c]
    /\ Save(category, [item EXCEPT ![i] = [row |-> "here", of |-> c]], option)

\* add_group, add_option
AddOption(x) ==
    /\ option[x] = "none"
    /\ \E i \in ItemsHere : x \in OptionsOf[i]
    /\ Save(category, item, [option EXCEPT ![x] = "here"])

-----------------------------------------------------------------------------
(***************************************************************************)
(* Deletions, and the foreign keys of orders.  A line that is not          *)
(* committed holds a share lock on the row it refers to.                   *)
(***************************************************************************)
OrdersAt(states) == {o \in Orders : order[o] \in states}

LinesOf(i, states) == {o \in OrdersAt(states) : i \in content[o].item}

OptionLinesOf(x, states) == {o \in OrdersAt(states) : x \in content[o].options}

Begun == deletions < MaxDeletions /\ deletions' = deletions + 1

AdminOnly ==
    /\ KeepSteady(item')
    /\ UNCHANGED <<category, edits, orderVars, alive, screen, loader, got, orphaned,
                   timers, presses, menu, clock>>

\* del_option and del_group.  A row that orders refer to stays, with an error.
DeleteOption(x) ==
    /\ option[x] = "here" /\ x \notin deletion.options
    /\ OptionLinesOf(x, {"options", "stored"}) = {}
    /\ Begun
    /\ option' = [option EXCEPT ![x] = "gone"]
    /\ UNCHANGED <<item, deletion>> /\ AdminOnly

\* delete_item, up to the DELETE of the item's options.
BeginDeletion(i) ==
    LET options == OptionsOf[i] \cap Here(option)
    IN  /\ i \in ItemsHere
        /\ deletion = NoDeletion
        /\ \A x \in options : OptionLinesOf(x, {"options", "stored"}) = {}
        /\ Begun
        /\ deletion' = [item |-> {i}, options |-> options]
        /\ UNCHANGED <<item, option>> /\ AdminOnly

\* Fault: the foreign key is checked without waiting for uncommitted lines.
FinishDeletionAtOnce(i) ==
    /\ i \in deletion.item
    /\ LinesOf(i, {"stored"}) = {}
    /\ item' = [item EXCEPT ![i] = [row |-> "gone", of |-> NoCategory]]
    /\ option' = [x \in Options |->
                    IF x \in OptionsOf[i] /\ option[x] = "here" THEN "gone" ELSE option[x]]
    /\ deletion' = NoDeletion
    /\ UNCHANGED deletions /\ AdminOnly

\* The DELETE of the item, with whatever options it has got since, and the commit.
FinishDeletion(i) ==
    /\ i \in deletion.item
    /\ LinesOf(i, {"line", "options", "stored"}) = {}
    /\ item' = [item EXCEPT ![i] = [row |-> "gone", of |-> NoCategory]]
    /\ option' = [x \in Options |->
                    IF x \in OptionsOf[i] /\ option[x] = "here" THEN "gone" ELSE option[x]]
    /\ deletion' = NoDeletion
    /\ UNCHANGED deletions /\ AdminOnly

\* An order refers to the item, and no line is in doubt: the transaction is rolled back.
RefuseDeletion ==
    /\ \E i \in deletion.item : LinesOf(i, {"stored"}) # {} /\ LinesOf(i, {"line", "options"}) = {}
    /\ deletion' = NoDeletion
    /\ UNCHANGED <<item, option, deletions>> /\ AdminOnly

-----------------------------------------------------------------------------
(***************************************************************************)
(* Orders: create_order, as far as the foreign keys are concerned.         *)
(***************************************************************************)
Goto(o, state) == order' = [order EXCEPT ![o] = state]

OrderOnly == UNCHANGED <<dbVars, kioskVars>>

\* The customer orders an item of the menu, with any of its options: the dialog leaves
\* required groups to the customer.
PlaceOrder(o, i, options) ==
    /\ alive /\ screen = "menu"
    /\ order[o] = "none"
    /\ i \in Shown(menu) /\ options \subseteq menu.options[i]
    /\ Goto(o, "begun")
    /\ content' = [content EXCEPT ![o] = [item |-> {i}, options |-> options]]
    /\ UNCHANGED <<tries, deadlocks>> /\ OrderOnly

\* Fault: the kiosk goes round the backends for ever.
RefuseForEver(o) ==
    /\ Goto(o, "begun")
    /\ UNCHANGED <<tries, content>> /\ OrderOnly

\* The transaction is rolled back, and the kiosk tries the next backend.
Refuse(o) ==
    /\ Goto(o, IF tries[o] + 1 = Hosts THEN "failed" ELSE "begun")
    /\ tries' = [tries EXCEPT ![o] = @ + 1]
    /\ UNCHANGED content /\ OrderOnly

InsertLine(o) ==
    /\ order[o] = "begun"
    /\ IF content[o].item \subseteq ItemsHere
       THEN Goto(o, "line") /\ UNCHANGED <<content, tries, deadlocks>> /\ OrderOnly
       ELSE Refuse(o) /\ UNCHANGED deadlocks

\* Fault: the insertion fails on a locked row.
InsertOptionsNoWait(o) ==
    /\ order[o] = "line"
    /\ IF content[o].options \subseteq Here(option) \ deletion.options
       THEN Goto(o, "options") /\ UNCHANGED <<content, tries, deadlocks>> /\ OrderOnly
       ELSE Refuse(o) /\ UNCHANGED deadlocks

\* A row that is being deleted is waited for.
InsertOptions(o) ==
    /\ order[o] = "line"
    /\ content[o].options \cap deletion.options = {}
    /\ IF content[o].options \subseteq Here(option)
       THEN Goto(o, "options") /\ UNCHANGED <<content, tries, deadlocks>> /\ OrderOnly
       ELSE Refuse(o) /\ UNCHANGED deadlocks

CommitOrder(o) ==
    /\ order[o] = "options"
    /\ Goto(o, "stored")
    /\ UNCHANGED <<content, tries, deadlocks>> /\ OrderOnly

\* The order holds its item, the deletion the options.
Deadlocked(o) ==
    /\ order[o] = "line"
    /\ content[o].options \cap deletion.options # {}

\* PostgreSQL ends one of the two transactions with an error.
BreakDeadlock(o) ==
    /\ Deadlocked(o)
    /\ \/ Refuse(o) /\ deadlocks' = [deadlocks EXCEPT ![o] = @ + 1]
       \/ /\ deletion' = NoDeletion
          /\ UNCHANGED <<item, option, deletions>> /\ AdminOnly

-----------------------------------------------------------------------------
(***************************************************************************)
(* Loading the menu.                                                       *)
(***************************************************************************)
Loading == loader \in {"categories", "items"}

\* Posted signals are handled before timers and presses.
SignalPosted == loader \in {"loaded", "failed"}

\* _load_data: a new thread replaces self.loader, also when it is still waiting.
LoadData ==
    /\ alive /\ ~SignalPosted
    /\ screen' = "loading"
    /\ loader' = "categories"
    /\ got' = NoMenu
    /\ orphaned' = (orphaned \/ Loading)
    /\ UNCHANGED <<dbVars, orderVars, alive, menu, clock, steady>>

\* Fault: the timer is not a single-shot one.
RetryTimerRepeating ==
    /\ timers > 0
    /\ LoadData
    /\ UNCHANGED <<timers, presses>>

RetryTimer ==
    /\ timers > 0
    /\ timers' = timers - 1
    /\ LoadData
    /\ UNCHANGED presses

\* The button on the error screen; the timer of that error goes on.
PressRetry ==
    /\ screen = "error"
    /\ presses < MaxPresses
    /\ presses' = presses + 1
    /\ LoadData
    /\ UNCHANGED timers

\* A replaced thread is destroyed at the end of its run(), and Qt aborts the process.
Destroyed ==
    /\ alive /\ orphaned
    /\ alive' = FALSE
    /\ UNCHANGED <<dbVars, orderVars, screen, loadVars, timers, presses, menu, clock>>

\* The clock's timer belongs to the window, its label to a menu that has gone: the slot
\* raises an exception, and PyQt aborts the process.
ClockTick ==
    /\ alive /\ clock /\ screen # "menu"
    /\ alive' = FALSE
    /\ UNCHANGED <<dbVars, orderVars, screen, loadVars, timers, presses, menu, clock>>

LoaderOnly == UNCHANGED <<dbVars, orderVars, alive, screen, orphaned, timers, presses, menu, clock>>

ReadCategories ==
    /\ alive /\ loader = "categories"
    /\ loader' = "items"
    /\ got' = [got EXCEPT !.categories = Listed.categories]
    /\ steady' = Shown(Listed)
    /\ LoaderOnly

ReadItems ==
    /\ alive /\ loader = "items"
    /\ loader' = "loaded"
    /\ got' = [got EXCEPT !.of = Listed.of, !.options = Listed.options]
    /\ UNCHANGED steady
    /\ LoaderOnly

\* No backend answers one of the requests.
LoadFails ==
    /\ alive /\ Loading
    /\ loader' = "failed"
    /\ UNCHANGED <<got, steady>>
    /\ LoaderOnly

\* Fault: the items are taken over only the first time.
OnDataLoadedOnce ==
    /\ alive /\ loader = "loaded"
    /\ loader' = "idle" /\ got' = NoMenu
    /\ menu' = IF menu = NoMenu THEN got ELSE [got EXCEPT !.of = menu.of]
    /\ screen' = "menu" /\ clock' = TRUE
    /\ UNCHANGED <<dbVars, orderVars, alive, orphaned, steady, timers, presses>>

\* _build_main_ui draws the categories and the cards of the items.
OnDataLoaded ==
    /\ alive /\ loader = "loaded"
    /\ loader' = "idle" /\ got' = NoMenu
    /\ menu' = got
    /\ screen' = "menu" /\ clock' = TRUE
    /\ UNCHANGED <<dbVars, orderVars, alive, orphaned, steady, timers, presses>>

\* Fault: the next attempt is left to the customer.
OnDataFailedOnce ==
    /\ alive /\ loader = "failed"
    /\ loader' = "idle" /\ got' = NoMenu
    /\ screen' = "error"
    /\ UNCHANGED <<dbVars, orderVars, alive, orphaned, steady, timers, presses, menu, clock>>

\* The error screen, and a timer for the next attempt.
OnDataFailed ==
    /\ alive /\ loader = "failed"
    /\ loader' = "idle" /\ got' = NoMenu
    /\ screen' = "error"
    /\ timers' = timers + 1
    /\ UNCHANGED <<dbVars, orderVars, alive, orphaned, steady, presses, menu, clock>>

-----------------------------------------------------------------------------
AdminStep ==
    \/ \E c \in Categories : SaveCategory(c) \/ DeleteCategory(c)
    \/ \E i \in Items, c \in Categories \cup {NoCategory} : SaveItem(i, c)
    \/ \E x \in Options : AddOption(x) \/ DeleteOption(x)
    \/ \E i \in Items : BeginDeletion(i)

EndDeletion ==
    \/ \E i \in Items : FinishDeletion(i)
    \/ RefuseDeletion

\* The handler of an order goes on, or is helped on.
OrderStep(o) ==
    \/ InsertLine(o)
    \/ InsertOptions(o)
    \/ CommitOrder(o)
    \/ BreakDeadlock(o)

LoaderStep ==
    \/ ReadCategories
    \/ ReadItems
    \/ LoadFails

Signal ==
    \/ OnDataLoaded
    \/ OnDataFailed

\* Bound: once the kiosk is aborted the admin does nothing more.
Next ==
    \/ alive /\ AdminStep
    \/ EndDeletion
    \/ \E o \in Orders : OrderStep(o)
    \/ \E o \in Orders, i \in Items : \E xs \in SUBSET OptionsOf[i] : PlaceOrder(o, i, xs)
    \/ LoaderStep
    \/ Signal
    \/ RetryTimer
    \/ PressRetry
    \/ Destroyed
    \/ ClockTick

Spec == Init /\ [][Next]_vars

\* Handlers run, locks are granted, a request ends with its timeout, timers fire and
\* signals are delivered; again and again each kind of request is answered.
Fairness ==
    /\ WF_vars(EndDeletion)
    /\ \A o \in Orders : WF_vars(OrderStep(o))
    /\ WF_vars(LoaderStep) /\ WF_vars(Signal) /\ WF_vars(RetryTimer) /\ WF_vars(Destroyed)
    /\ SF_vars(ReadCategories) /\ SF_vars(ReadItems)

FairSpec == Spec /\ Fairness

-----------------------------------------------------------------------------
(***************************************************************************)
(* Properties.                                                             *)
(***************************************************************************)

\* Whatever an order's lines refer to stays in the menu, also when it is deleted while
\* the order is being stored.
LinesReferToMenu ==
    \A o \in OrdersAt({"stored"}) :
        content[o].item \subseteq ItemsHere /\ content[o].options \subseteq Here(option)

\* An order that every backend has refused contains something deleted, which the kiosk
\* still offers, or has been the victim of a deadlock with a deletion.
FailedOrderMetDeletion ==
    \A o \in OrdersAt({"failed"}) :
        \/ ~(content[o].item \subseteq ItemsHere /\ content[o].options \subseteq Here(option))
        \/ deadlocks[o] > 0

\* An item that has been on sale during the whole of a load, and in one category, is on
\* the menu, although categories and items are loaded one after the other.
SteadyItemsShown == screen = "menu" => steady \subseteq Shown(menu)

\* Every attempt to load that is under way or waits for its timer goes back to the start
\* or to a press of "retry", so that failures do not multiply them.  Unless somebody has
\* pressed it no thread is replaced before its end, no timer is left that would replace
\* the menu by the loading screen, and the process survives.
Attempts == timers + (IF loader = "idle" THEN 0 ELSE 1)

AttemptsAccounted ==
    /\ Attempts <= 1 + presses
    /\ presses = 0 => alive /\ ~orphaned /\ (screen = "menu" => Attempts = 0)

\* The kiosk comes to show the menu and stays that way, also after failed attempts, unless
\* it is aborted, which takes the retry button (AttemptsAccounted).
MenuComes == <>[](~alive \/ screen = "menu")

\* An order and a deletion that wait for each other's rows both come to an end.
RequestsEnd ==
    /\ \A o \in Orders : order[o] # "none" ~> order[o] \in {"stored", "failed"}
    /\ deletion # NoDeletion ~> deletion = NoDeletion

=============================================================================
