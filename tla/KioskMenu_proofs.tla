-------------------------- MODULE KioskMenu_proofs --------------------------
(***************************************************************************)
(* Theorems about KioskMenu, for any menu, any number of orders, backends, *)
(* deletions, edits and presses.                                           *)
(***************************************************************************)
EXTENDS KioskMenu, TLAPS

(***************************************************************************)
(* The inductive invariant.                                                *)
(***************************************************************************)

\* A menu the kiosk has been sent names only rows that have been inserted.
MenusKnown ==
    \A i \in Items :
        /\ item[i].of # NoCategory => item[i].row = "here"
        /\ got.of[i] # NoCategory \/ menu.of[i] # NoCategory => item[i].row # "none"
        /\ got.options[i] \cup menu.options[i] \subseteq {x \in OptionsOf[i] : option[x] # "none"}

\* So does an order: one item, and options that are its own.
ContentKnown ==
    \A o \in Orders : order[o] # "none" =>
        \E i \in Items :
            /\ content[o].item = {i}
            /\ item[i].row # "none"
            /\ content[o].options \subseteq {x \in OptionsOf[i] : option[x] # "none"}

\* Rows that lines refer to are there from the insertion on, by the share locks.
LinesHere ==
    \A o \in Orders :
        /\ order[o] \in {"line", "options", "stored"} => content[o].item \subseteq ItemsHere
        /\ order[o] \in {"options", "stored"} => content[o].options \subseteq Here(option)

Whole(o) == content[o].item \subseteq ItemsHere /\ content[o].options \subseteq Here(option)

\* A refusal has its cause in a deletion.
TriesExplained ==
    \A o \in Orders :
        /\ order[o] = "none" => tries[o] = 0
        /\ order[o] \notin {"none", "failed"} => tries[o] < Hosts
        /\ order[o] = "failed" => tries[o] > 0
        /\ tries[o] > 0 => ~Whole(o) \/ deadlocks[o] > 0
        /\ deadlocks[o] <= tries[o]

\* Each failed attempt leaves one timer behind, each press adds one attempt.
ChainsCounted ==
    /\ timers + (IF loader = "idle" THEN 0 ELSE 1) <= 1 + presses
    /\ loader # "idle" <=> screen = "loading"
    /\ presses = 0 => /\ alive /\ ~orphaned
                      /\ timers > 0 => screen = "error"
                      /\ clock => screen = "menu"

\* Steady items are in what has been loaded so far.
SteadyLoaded ==
    /\ loader = "items" => \A i \in steady : item[i].of \in got.categories
    /\ loader = "loaded" => steady \subseteq Shown(got)
    /\ screen = "menu" => steady \subseteq Shown(menu)

IInv == TypeOK /\ MenusKnown /\ ContentKnown /\ LinesHere /\ TriesExplained /\ ChainsCounted
            /\ SteadyLoaded

-----------------------------------------------------------------------------
(***************************************************************************)
(* Initial states.                                                         *)
(***************************************************************************)

\* The initial states satisfy the whole invariant.
LEMMA InitInv == Init => IInv
<1> SUFFICES ASSUME Init PROVE IInv
  OBVIOUS
<1> USE DEF Init
<1>1. NoMenu \in Menu /\ NoDeletion \in Deletion
  BY DEF NoMenu, Menu, NoDeletion, Deletion
<1>2. TypeOK
  <2>1. /\ category \in [Categories -> Rows]
        /\ item \in [Items -> [row : Rows, of : Categories \cup {NoCategory}]]
        /\ option \in [Options -> Rows]
    BY DEF Rows
  <2>2. \A i \in Items : item[i].row # "here" => \A x \in OptionsOf[i] : option[x] # "here"
    BY MenuAssumption
  <2>3. \A i \in Items : item[i].of = NoCategory \/ category[item[i].of] = "here"
    OBVIOUS
  <2>4. /\ edits \in 0 .. MaxEdits /\ deletions \in 0 .. MaxDeletions
        /\ presses \in 0 .. MaxPresses /\ timers \in 0 .. 1 + MaxPresses
    BY BoundAssumption
  <2>5. /\ order \in [Orders -> OrderStates]
        /\ content \in [Orders -> [item : {{}} \cup {{i} : i \in Items}, options : SUBSET Options]]
        /\ loader \in LoaderStates
    BY DEF OrderStates, LoaderStates
  <2>6. tries \in [Orders -> 0 .. Hosts] /\ deadlocks \in [Orders -> 0 .. Hosts]
    BY BoundAssumption
  <2>7. deletion \in Deletion /\ got \in Menu /\ menu \in Menu
    BY <1>1
  <2> QED
    BY <2>1, <2>2, <2>3, <2>4, <2>5, <2>6, <2>7 DEF TypeOK
<1>3. MenusKnown
  BY DEF MenusKnown, NoMenu
<1>4. ContentKnown /\ LinesHere /\ TriesExplained
  BY DEF ContentKnown, LinesHere, TriesExplained
<1>5. ChainsCounted /\ SteadyLoaded
  BY BoundAssumption DEF ChainsCounted, SteadyLoaded
<1> QED
  BY <1>2, <1>3, <1>4, <1>5 DEF IInv

-----------------------------------------------------------------------------
(***************************************************************************)
(* Three kinds of steps: those of the admin and the database, of an order, *)
(* and of the kiosk.                                                       *)
(***************************************************************************)

\* Rows that have been inserted stay, or are deleted for good.
RowsPersist ==
    /\ \A i \in Items : item[i].row # "none" => item'[i].row # "none"
    /\ \A i \in Items : item[i].row = "gone" => item'[i].row = "gone"
    /\ \A x \in Options : option[x] # "none" => option'[x] # "none"
    /\ \A x \in Options : option[x] = "gone" => option'[x] = "gone"

DbTypeOK ==
    /\ category \in [Categories -> Rows]
    /\ item \in [Items -> [row : Rows, of : Categories \cup {NoCategory}]]
    /\ \A i \in Items : item[i].of = NoCategory \/ category[item[i].of] = "here"
    /\ option \in [Options -> Rows]
    /\ \A i \in Items : item[i].row # "here" => \A x \in OptionsOf[i] : option[x] # "here"
    /\ edits \in 0 .. MaxEdits /\ deletions \in 0 .. MaxDeletions
    /\ deletion \in Deletion

DbStep ==
    /\ DbTypeOK'
    /\ RowsPersist
    /\ \A i \in Items : item'[i].of # NoCategory => item'[i].row = "here"
    /\ \A o \in Orders : order[o] \in {"line", "options", "stored"}
            /\ content[o].item \subseteq ItemsHere => content[o].item \subseteq ItemsHere'
    /\ \A o \in Orders : order[o] \in {"options", "stored"}
            /\ content[o].options \subseteq Here(option) => content[o].options \subseteq Here(option')
    /\ KeepSteady(item')
    /\ UNCHANGED <<orderVars, alive, screen, loader, got, orphaned, timers, presses, menu, clock>>

\* Forms and deletions leave the database consistent, and orders with their rows: the
\* rows of options belong to one item, whose lines the deletion has waited for.
LEMMA AdminKeeps ==
    ASSUME IInv, AdminStep \/ EndDeletion
    PROVE  DbStep
<1> USE DEF IInv, TypeOK, DbTypeOK, MenusKnown, Rows, DbStep, RowsPersist, orderVars, ItemsHere,
            Here
<1>1. \A n \in 0 .. MaxEdits : n < MaxEdits => n + 1 \in 0 .. MaxEdits
  BY BoundAssumption
<1>2. \A n \in 0 .. MaxDeletions : n < MaxDeletions => n + 1 \in 0 .. MaxDeletions
  BY BoundAssumption
<1>3. NoDeletion \in Deletion
  BY DEF NoDeletion, Deletion
<1>4. ASSUME NEW c \in Categories, SaveCategory(c) PROVE DbStep
  BY <1>1, <1>4 DEF SaveCategory, Save
<1>5. ASSUME NEW c \in Categories, DeleteCategory(c) PROVE DbStep
  BY <1>1, <1>5 DEF DeleteCategory, Save
<1>6. ASSUME NEW i \in Items, NEW c \in Categories \cup {NoCategory}, SaveItem(i, c) PROVE DbStep
  BY <1>1, <1>6, MenuAssumption DEF SaveItem, Save
<1>7. ASSUME NEW x \in Options, AddOption(x) PROVE DbStep
  BY <1>1, <1>7, MenuAssumption DEF AddOption, Save
<1>8. ASSUME NEW x \in Options, DeleteOption(x) PROVE DbStep
  BY <1>2, <1>8, MenuAssumption
  DEF DeleteOption, Begun, AdminOnly, OptionLinesOf, OrdersAt
<1>9. ASSUME NEW i \in Items, BeginDeletion(i) PROVE DbStep
  <2>1. [item |-> {i}, options |-> OptionsOf[i] \cap Here(option)] \in Deletion
    BY DEF Deletion
  <2> QED
    BY <1>2, <1>9, <2>1 DEF BeginDeletion, Begun, AdminOnly
<1>10. ASSUME NEW i \in Items, FinishDeletion(i) PROVE DbStep
  <2>1. DbTypeOK' /\ RowsPersist
    <3>1. /\ item' \in [Items -> [row : Rows, of : Categories \cup {NoCategory}]]
          /\ option' \in [Options -> Rows]
      BY <1>10 DEF FinishDeletion
    <3>2. RowsPersist
      BY <1>10 DEF FinishDeletion
    <3>3. \A j \in Items : item'[j].of = NoCategory \/ category'[item'[j].of] = "here"
      BY <1>10 DEF FinishDeletion, AdminOnly
    <3>4. ASSUME NEW j \in Items, item'[j].row # "here", NEW x \in OptionsOf[j]
          PROVE  option'[x] # "here"
      <4>1. x \in Options
        BY MenuAssumption
      <4>2. j = i \/ item'[j] = item[j]
        BY <1>10 DEF FinishDeletion
      <4> QED
        BY <1>10, <3>4, <4>1, <4>2 DEF FinishDeletion
    <3> QED
      BY <1>3, <1>10, <3>1, <3>2, <3>3, <3>4 DEF FinishDeletion, AdminOnly
  <2>2. ASSUME NEW o \in Orders, order[o] \in {"line", "options", "stored"}
        PROVE  i \notin content[o].item
    BY <1>10, <2>2 DEF FinishDeletion, LinesOf, OrdersAt
  <2>3. ASSUME NEW o \in Orders, order[o] \in {"options", "stored"}
        PROVE  content[o].options \cap OptionsOf[i] = {}
    BY <2>2, <2>3, MenuAssumption DEF ContentKnown
  <2>4. \A j \in Items : j # i => item'[j] = item[j]
    BY <1>10 DEF FinishDeletion
  <2>5. \A x \in Options : x \notin OptionsOf[i] => option'[x] = option[x]
    BY <1>10 DEF FinishDeletion
  <2>6. ASSUME NEW o \in Orders, order[o] \in {"line", "options", "stored"},
               content[o].item \subseteq ItemsHere
        PROVE  content[o].item \subseteq ItemsHere'
    BY <2>2, <2>4, <2>6
  <2>7. ASSUME NEW o \in Orders, order[o] \in {"options", "stored"},
               content[o].options \subseteq Here(option)
        PROVE  content[o].options \subseteq Here(option')
    <3>1. DOMAIN option = Options /\ DOMAIN option' = Options
      BY <2>1
    <3> QED
      BY <2>3, <2>5, <2>7, <3>1
  <2>8. \A j \in Items : item'[j].of # NoCategory => item'[j].row = "here"
    BY <1>10, <2>4 DEF FinishDeletion
  <2> QED
    BY <1>10, <2>1, <2>6, <2>7, <2>8 DEF FinishDeletion, AdminOnly
<1>11. ASSUME RefuseDeletion PROVE DbStep
  BY <1>3, <1>11 DEF RefuseDeletion, AdminOnly
<1> QED
  BY <1>4, <1>5, <1>6, <1>7, <1>8, <1>9, <1>10, <1>11 DEF AdminStep, EndDeletion

\* Likewise when the deletion is the victim of a deadlock.
LEMMA VictimKeeps ==
    ASSUME IInv, deletion' = NoDeletion, UNCHANGED <<item, option, deletions>>, AdminOnly
    PROVE  DbStep
<1>1. NoDeletion \in Deletion
  BY DEF NoDeletion, Deletion
<1> QED
  BY <1>1 DEF IInv, TypeOK, DbTypeOK, MenusKnown, DbStep, RowsPersist, orderVars, ItemsHere,
              Here, AdminOnly

OrderTypeOK ==
    /\ order \in [Orders -> OrderStates]
    /\ content \in [Orders -> [item : {{}} \cup {{i} : i \in Items}, options : SUBSET Options]]
    /\ tries \in [Orders -> 0 .. Hosts] /\ deadlocks \in [Orders -> 0 .. Hosts]

OrderInv == OrderTypeOK /\ ContentKnown /\ LinesHere /\ TriesExplained

\* A refusal for a missing row, or by a deadlock, is accounted for.
LEMMA RefuseKeeps ==
    ASSUME IInv, NEW p \in Orders, order[p] \in {"begun", "line"}, Refuse(p),
           \/ ~Whole(p) /\ deadlocks' = deadlocks
           \/ deadlocks' = [deadlocks EXCEPT ![p] = @ + 1]
    PROVE  OrderInv'
<1> USE DEF IInv, TypeOK, Refuse, OrderOnly, Goto, dbVars
<1>1. tries[p] \in 0 .. Hosts /\ deadlocks[p] \in 0 .. Hosts /\ Hosts \in Nat \ {0}
  BY BoundAssumption
<1>2. tries[p] < Hosts /\ deadlocks[p] <= tries[p]
  BY DEF TriesExplained
<1>3. /\ tries' \in [Orders -> 0 .. Hosts] /\ tries'[p] = tries[p] + 1
      /\ deadlocks' \in [Orders -> 0 .. Hosts] /\ deadlocks'[p] <= tries'[p]
      /\ ~Whole(p) \/ deadlocks'[p] > 0
  <2>1. tries' = [tries EXCEPT ![p] = @ + 1] /\ tries[p] + 1 \in 0 .. Hosts
    BY <1>1, <1>2
  <2>2. CASE deadlocks' = deadlocks /\ ~Whole(p)
    BY <1>1, <1>2, <2>1, <2>2
  <2>3. CASE deadlocks' = [deadlocks EXCEPT ![p] = @ + 1]
    <3>1. deadlocks[p] + 1 \in 0 .. Hosts /\ deadlocks[p] + 1 > 0
      BY <1>1, <1>2
    <3> QED
      BY <1>1, <1>2, <2>1, <2>3, <3>1
  <2> QED
    BY <2>2, <2>3
<1>4. OrderTypeOK'
  BY <1>3 DEF OrderTypeOK, OrderStates
<1>5. ContentKnown'
  BY DEF ContentKnown
<1>6. LinesHere'
  BY DEF LinesHere, ItemsHere, Here
<1>7. \A o \in Orders : Whole(o)' <=> Whole(o)
  BY DEF Whole, ItemsHere, Here
<1>8. TriesExplained'
  <2> SUFFICES ASSUME NEW o \in Orders
               PROVE  /\ order'[o] = "none" => tries'[o] = 0
                      /\ order'[o] \notin {"none", "failed"} => tries'[o] < Hosts
                      /\ order'[o] = "failed" => tries'[o] > 0
                      /\ tries'[o] > 0 => ~Whole(o)' \/ deadlocks'[o] > 0
                      /\ deadlocks'[o] <= tries'[o]
    BY DEF TriesExplained
  <2>1. CASE o = p
    BY <1>1, <1>2, <1>3, <1>7, <2>1
  <2>2. CASE o # p
    BY <1>7, <2>2 DEF TriesExplained
  <2> QED
    BY <2>1, <2>2
<1> QED
  BY <1>4, <1>5, <1>6, <1>8 DEF OrderInv

\* Going on to the next insertion keeps what is known of an order.
LEMMA AdvanceKeeps ==
    ASSUME IInv, NEW p \in Orders, NEW s \in {"line", "options", "stored"},
           order[p] \in {"begun", "line", "options"}, Goto(p, s),
           content[p].item \subseteq ItemsHere,
           s \in {"options", "stored"} => content[p].options \subseteq Here(option),
           UNCHANGED <<content, tries, deadlocks>>, OrderOnly
    PROVE  OrderInv'
<1> USE DEF IInv, TypeOK, OrderOnly, Goto, dbVars
<1>1. OrderTypeOK'
  BY DEF OrderTypeOK, OrderStates
<1>2. ContentKnown'
  BY DEF ContentKnown
<1>3. LinesHere'
  BY DEF LinesHere, ItemsHere, Here
<1>4. TriesExplained'
  BY DEF TriesExplained, Whole, ItemsHere, Here
<1> QED
  BY <1>1, <1>2, <1>3, <1>4 DEF OrderInv

\* An order is placed with what the kiosk shows, hence knows.
LEMMA PlaceKeeps ==
    ASSUME IInv, NEW p \in Orders, NEW i \in Items, NEW options \in SUBSET OptionsOf[i],
           PlaceOrder(p, i, options)
    PROVE  OrderInv'
<1> USE DEF IInv, TypeOK, PlaceOrder, OrderOnly, Goto, dbVars
<1>1. options \in SUBSET Options
  BY MenuAssumption
<1>2. OrderTypeOK'
  BY <1>1 DEF OrderTypeOK, OrderStates
<1>3. item[i].row # "none" /\ options \subseteq {x \in OptionsOf[i] : option[x] # "none"}
  BY MenuAssumption DEF Shown, MenusKnown, Menu
<1>4. ContentKnown'
  <2>1. content'[p] = [item |-> {i}, options |-> options]
    OBVIOUS
  <2>2. \A o \in Orders \ {p} : order'[o] = order[o] /\ content'[o] = content[o]
    OBVIOUS
  <2>3. ASSUME NEW o \in Orders, order'[o] # "none"
        PROVE  \E j \in Items :
                   /\ content'[o].item = {j}
                   /\ item[j].row # "none"
                   /\ content'[o].options \subseteq {x \in OptionsOf[j] : option[x] # "none"}
    <3>1. CASE o = p
      BY <1>3, <2>1, <3>1
    <3>2. CASE o # p
      BY <2>2, <2>3, <3>2 DEF ContentKnown
    <3> QED
      BY <3>1, <3>2
  <2>4. item' = item /\ option' = option
    OBVIOUS
  <2> QED
    BY ONLY <2>3, <2>4 DEF ContentKnown
<1>5. LinesHere'
  BY DEF LinesHere, ItemsHere, Here
<1>6. TriesExplained'
  <2>1. tries[p] = 0 /\ deadlocks[p] <= 0 /\ Hosts > 0
    BY BoundAssumption DEF TriesExplained
  <2>2. \A o \in Orders \ {p} : order'[o] = order[o] /\ (Whole(o)' <=> Whole(o))
    BY DEF Whole, ItemsHere, Here
  <2> QED
    BY <2>1, <2>2 DEF TriesExplained
<1> QED
  BY <1>2, <1>4, <1>5, <1>6 DEF OrderInv

\* What an order does: it goes on, is refused, or survives the deletion.
LEMMA OrderMoves ==
    ASSUME IInv, NEW p \in Orders, OrderStep(p)
    PROVE  DbStep \/ (OrderInv' /\ OrderOnly)
<1>1. CASE InsertLine(p)
  BY <1>1, RefuseKeeps, AdvanceKeeps DEF InsertLine, Refuse, Whole
<1>2. CASE InsertOptions(p)
  <2>1. content[p].item \subseteq ItemsHere
    BY <1>2 DEF InsertOptions, IInv, LinesHere
  <2> QED
    BY <1>2, <2>1, RefuseKeeps, AdvanceKeeps DEF InsertOptions, Refuse, Whole
<1>3. CASE CommitOrder(p)
  <2>1. content[p].item \subseteq ItemsHere /\ content[p].options \subseteq Here(option)
    BY <1>3 DEF CommitOrder, IInv, LinesHere
  <2> QED
    BY <1>3, <2>1, AdvanceKeeps DEF CommitOrder
<1>4. CASE BreakDeadlock(p)
  BY <1>4, RefuseKeeps, VictimKeeps DEF BreakDeadlock, Deadlocked, Refuse
<1> QED
  BY <1>1, <1>2, <1>3, <1>4 DEF OrderStep

KioskTypeOK ==
    /\ alive \in BOOLEAN
    /\ screen \in {"loading", "error", "menu"}
    /\ loader \in LoaderStates
    /\ got \in Menu /\ menu \in Menu
    /\ orphaned \in BOOLEAN
    /\ timers \in 0 .. 1 + MaxPresses
    /\ presses \in 0 .. MaxPresses
    /\ clock \in BOOLEAN
    /\ steady \subseteq Items

KioskInv == KioskTypeOK /\ MenusKnown /\ ChainsCounted /\ SteadyLoaded

KioskOnly == UNCHANGED <<dbVars, orderVars>>

\* A new attempt takes the place of a timer, or is added by a press.
LEMMA AttemptKeeps ==
    ASSUME IInv, RetryTimer \/ PressRetry
    PROVE  KioskInv' /\ KioskOnly
<1> USE DEF IInv, LoadData, KioskOnly, dbVars
<1>1. KioskTypeOK'
  <2>1. NoMenu \in Menu
    BY DEF NoMenu, Menu
  <2>2. timers' \in 0 .. 1 + MaxPresses /\ presses' \in 0 .. MaxPresses
    BY BoundAssumption DEF TypeOK, RetryTimer, PressRetry
  <2> QED
    BY <2>1, <2>2 DEF TypeOK, KioskTypeOK, LoaderStates, RetryTimer, PressRetry, Loading
<1>2. MenusKnown'
  BY DEF MenusKnown, NoMenu, RetryTimer, PressRetry
<1>3. ChainsCounted'
  <2>1. timers \in Nat /\ presses \in Nat
    BY BoundAssumption DEF TypeOK
  <2>2. CASE RetryTimer
    <3>1. /\ timers > 0 /\ timers' = timers - 1 /\ timers <= 1 + presses
          /\ presses = 0 => loader = "idle" /\ timers = 1 /\ ~clock
      BY <2>1, <2>2 DEF ChainsCounted, RetryTimer
    <3>2. timers' + 1 <= 1 + presses /\ (presses = 0 => ~(timers' > 0))
      BY <2>1, <3>1
    <3>3. presses = 0 => alive' /\ ~orphaned' /\ ~clock'
      BY <2>2, <3>1 DEF ChainsCounted, RetryTimer, Loading
    <3> QED
      BY <2>2, <3>2, <3>3 DEF ChainsCounted, RetryTimer
  <2>3. CASE PressRetry
    BY <2>1, <2>3 DEF ChainsCounted, PressRetry, Loading
  <2> QED
    BY <2>2, <2>3
<1>4. SteadyLoaded'
  BY DEF SteadyLoaded, RetryTimer, PressRetry
<1> QED
  BY <1>1, <1>2, <1>3, <1>4 DEF KioskInv, RetryTimer, PressRetry

\* The loading thread collects rows that are there, steady items among them.
LEMMA LoaderKeeps ==
    ASSUME IInv, LoaderStep
    PROVE  KioskInv' /\ KioskOnly
<1> USE DEF IInv, LoaderOnly, KioskOnly, dbVars
<1>1. CASE ReadCategories
  <2>1. Listed.categories \in SUBSET Categories
    BY DEF Listed, Here, TypeOK
  <2>2. got' \in Menu
    BY <1>1, <2>1 DEF ReadCategories, Menu, TypeOK
  <2>3. Shown(Listed) = {i \in Items : item[i].of \in Listed.categories}
    BY DEF Shown, Listed
  <2>4. KioskTypeOK'
    BY <1>1, <2>2, <2>3 DEF ReadCategories, KioskTypeOK, LoaderStates, TypeOK
  <2>5. MenusKnown'
    BY <1>1 DEF ReadCategories, MenusKnown, TypeOK, Menu
  <2>6. ChainsCounted'
    BY <1>1 DEF ReadCategories, ChainsCounted
  <2>7. SteadyLoaded'
    BY <1>1, <2>1, <2>3 DEF ReadCategories, SteadyLoaded, ChainsCounted, TypeOK, Menu
  <2> QED
    BY <1>1, <2>4, <2>5, <2>6, <2>7 DEF KioskInv, ReadCategories
<1>2. CASE ReadItems
  <2>1. /\ Listed.of \in [Items -> Categories \cup {NoCategory}]
        /\ Listed.options \in [Items -> SUBSET Options]
    BY MenuAssumption DEF Listed, Here, TypeOK
  <2>2. got' \in Menu
    BY <1>2, <2>1 DEF ReadItems, Menu, TypeOK
  <2>3. /\ got'.categories = got.categories
        /\ got'.of = Listed.of /\ got'.options = Listed.options
    BY <1>2, <2>1 DEF ReadItems, Menu, TypeOK
  <2>4. KioskTypeOK'
    BY <1>2, <2>2 DEF ReadItems, KioskTypeOK, LoaderStates, TypeOK
  <2>5. MenusKnown'
    BY <1>2, <2>3, MenuAssumption DEF ReadItems, MenusKnown, Listed, Here
  <2>6. ChainsCounted'
    BY <1>2 DEF ReadItems, ChainsCounted
  <2>7. SteadyLoaded'
    BY <1>2, <2>3 DEF ReadItems, SteadyLoaded, ChainsCounted, Shown, Listed, TypeOK
  <2> QED
    BY <1>2, <2>4, <2>5, <2>6, <2>7 DEF KioskInv, ReadItems
<1>3. CASE LoadFails
  <2>1. KioskTypeOK' /\ MenusKnown' /\ ChainsCounted' /\ SteadyLoaded'
    BY <1>3 DEF LoadFails, Loading, KioskTypeOK, TypeOK, LoaderStates, MenusKnown, ChainsCounted,
                SteadyLoaded
  <2> QED
    BY <1>3, <2>1 DEF KioskInv, LoadFails
<1> QED
  BY <1>1, <1>2, <1>3 DEF LoaderStep

\* The kiosk shows what has been loaded, or the error screen with a timer, and is aborted
\* only after a press.
LEMMA SignalKeeps ==
    ASSUME IInv, Signal \/ Destroyed \/ ClockTick
    PROVE  KioskInv' /\ KioskOnly
<1> USE DEF IInv, KioskOnly, dbVars
<1>1. timers \in Nat /\ presses \in Nat /\ NoMenu \in Menu
  BY BoundAssumption DEF TypeOK, NoMenu, Menu
<1>2. CASE OnDataLoaded
  <2>1. KioskTypeOK'
    BY <1>1, <1>2 DEF OnDataLoaded, KioskTypeOK, TypeOK, LoaderStates
  <2>2. MenusKnown'
    BY <1>2 DEF OnDataLoaded, MenusKnown, NoMenu
  <2>3. ChainsCounted'
    BY <1>1, <1>2 DEF OnDataLoaded, ChainsCounted
  <2>4. SteadyLoaded'
    BY <1>2 DEF OnDataLoaded, SteadyLoaded, Shown
  <2> QED
    BY <1>2, <2>1, <2>2, <2>3, <2>4 DEF KioskInv, OnDataLoaded
<1>3. CASE OnDataFailed
  <2>1. timers + 1 <= 1 + presses
    BY <1>1, <1>3 DEF OnDataFailed, ChainsCounted
  <2>2. KioskTypeOK'
    BY <1>1, <1>3, <2>1, BoundAssumption DEF OnDataFailed, KioskTypeOK, TypeOK, LoaderStates
  <2>3. MenusKnown'
    BY <1>3 DEF OnDataFailed, MenusKnown, NoMenu
  <2>4. ChainsCounted'
    BY <1>1, <1>3, <2>1 DEF OnDataFailed, ChainsCounted
  <2>5. SteadyLoaded'
    BY <1>3 DEF OnDataFailed, SteadyLoaded
  <2> QED
    BY <1>3, <2>2, <2>3, <2>4, <2>5 DEF KioskInv, OnDataFailed
<1>4. CASE Destroyed \/ ClockTick
  <2>1. KioskTypeOK' /\ MenusKnown' /\ ChainsCounted' /\ SteadyLoaded'
    BY <1>4 DEF Destroyed, ClockTick, loadVars, KioskTypeOK, TypeOK, LoaderStates, MenusKnown, ChainsCounted,
                SteadyLoaded, Shown
  <2> QED
    BY <1>4, <2>1 DEF KioskInv, Destroyed, ClockTick
<1> QED
  BY <1>2, <1>3, <1>4 DEF Signal

-----------------------------------------------------------------------------
(***************************************************************************)
(* The invariant is inductive, and the theorems follow.                    *)
(***************************************************************************)

\* The database's steps leave the invariant true: rows only come, or go for good, and
\* none that a line holds.
LEMMA DbKeeps == IInv /\ DbStep => IInv'
<1> SUFFICES ASSUME IInv, DbStep PROVE IInv'
  OBVIOUS
<1> USE DEF IInv, DbStep, orderVars
<1>1. TypeOK'
  BY DEF TypeOK, DbTypeOK, KeepSteady
<1>2. MenusKnown'
  <2>1. \A i \in Items : OptionsOf[i] \in SUBSET Options
    BY MenuAssumption
  <2> QED
    BY <2>1 DEF MenusKnown, RowsPersist
<1>3. ContentKnown'
  <2>1. \A i \in Items : OptionsOf[i] \in SUBSET Options
    BY MenuAssumption
  <2> QED
    BY <2>1 DEF ContentKnown, RowsPersist
<1>4. LinesHere'
  BY DEF LinesHere
<1>5. TriesExplained'
  <2>1. ASSUME NEW o \in Orders, order[o] # "none", ~Whole(o) PROVE ~Whole(o)'
    <3>1. PICK i \in Items : /\ content[o].item = {i}
                             /\ item[i].row # "none"
                             /\ content[o].options \subseteq {x \in OptionsOf[i] : option[x] # "none"}
      BY <2>1 DEF ContentKnown
    <3>2. content[o].options \subseteq Options
      BY <3>1, MenuAssumption
    <3>3. DOMAIN option = Options /\ DOMAIN option' = Options
      BY DEF TypeOK, DbTypeOK
    <3>4. CASE item[i].row # "here"
      BY <3>1, <3>4 DEF Whole, ItemsHere, RowsPersist, TypeOK, Rows
    <3>5. CASE \E x \in content[o].options : option[x] # "here"
      <4>1. PICK x \in content[o].options : option[x] # "here"
        BY <3>5
      <4>2. option[x] = "gone"
        BY <3>1, <3>2, <4>1 DEF TypeOK, Rows
      <4> QED
        BY <3>2, <4>1, <4>2 DEF Whole, Here, RowsPersist
    <3> QED
      BY <2>1, <3>1, <3>2, <3>3, <3>4, <3>5 DEF Whole, ItemsHere, Here
  <2> QED
    BY <2>1, BoundAssumption DEF TriesExplained, TypeOK
<1>6. ChainsCounted'
  BY DEF ChainsCounted
<1>7. SteadyLoaded'
  BY DEF SteadyLoaded, KeepSteady, Shown, ChainsCounted
<1> QED
  BY <1>1, <1>2, <1>3, <1>4, <1>5, <1>6, <1>7

\* An order's steps leave the rest of the invariant as it is.
LEMMA OrderKeeps == IInv /\ OrderInv' /\ OrderOnly => IInv'
<1> SUFFICES ASSUME IInv, OrderInv', OrderOnly PROVE IInv'
  OBVIOUS
<1> USE DEF IInv, OrderInv, OrderOnly, dbVars, kioskVars, loadVars
<1>1. TypeOK'
  BY DEF TypeOK, OrderTypeOK
<1>2. MenusKnown' /\ ChainsCounted'
  BY DEF MenusKnown, ChainsCounted
<1>3. SteadyLoaded'
  BY DEF SteadyLoaded, Shown
<1> QED
  BY <1>1, <1>2, <1>3

\* Nor do the kiosk's steps disturb orders and database.
LEMMA KioskKeeps == IInv /\ KioskInv' /\ KioskOnly => IInv'
<1> SUFFICES ASSUME IInv, KioskInv', KioskOnly PROVE IInv'
  OBVIOUS
<1> USE DEF IInv, KioskInv, KioskOnly, dbVars, orderVars
<1>1. TypeOK'
  BY DEF TypeOK, KioskTypeOK
<1>2. ContentKnown' /\ LinesHere'
  BY DEF ContentKnown, LinesHere, ItemsHere, Here
<1>3. TriesExplained'
  BY DEF TriesExplained, Whole, ItemsHere, Here
<1> QED
  BY <1>1, <1>2, <1>3

\* Every step preserves the invariant.
LEMMA NextInv == IInv /\ [Next]_vars => IInv'
<1> SUFFICES ASSUME IInv, [Next]_vars PROVE IInv'
  OBVIOUS
<1>1. CASE AdminStep \/ EndDeletion
  BY <1>1, AdminKeeps, DbKeeps
<1>2. ASSUME NEW o \in Orders, OrderStep(o) PROVE IInv'
  BY <1>2, OrderMoves, DbKeeps, OrderKeeps
<1>3. ASSUME NEW o \in Orders, NEW i \in Items, NEW xs \in SUBSET OptionsOf[i],
             PlaceOrder(o, i, xs)
      PROVE  IInv'
  BY <1>3, PlaceKeeps, OrderKeeps DEF PlaceOrder
<1>4. CASE LoaderStep
  BY <1>4, LoaderKeeps, KioskKeeps
<1>5. CASE Signal \/ Destroyed \/ ClockTick
  BY <1>5, SignalKeeps, KioskKeeps
<1>6. CASE RetryTimer \/ PressRetry
  BY <1>6, AttemptKeeps, KioskKeeps
<1>7. CASE UNCHANGED vars
  <2> USE <1>7 DEF vars, dbVars, orderVars, kioskVars, loadVars, IInv
  <2>1. TypeOK'
    BY DEF TypeOK
  <2>2. MenusKnown' /\ ChainsCounted' /\ SteadyLoaded'
    BY DEF MenusKnown, ChainsCounted, SteadyLoaded, Shown
  <2>3. ContentKnown' /\ LinesHere'
    BY DEF ContentKnown, LinesHere, ItemsHere, Here
  <2>4. TriesExplained'
    BY DEF TriesExplained, Whole, ItemsHere, Here
  <2> QED
    BY <2>1, <2>2, <2>3, <2>4
<1> QED
  BY <1>1, <1>2, <1>3, <1>4, <1>5, <1>6, <1>7 DEF Next

\* Every reachable state satisfies the invariant.
LEMMA Invariance == Spec => []IInv
<1> QED
  BY InitInv, NextInv, PTL DEF Spec

\* The variables keep their types; the number of retry timers stays bounded by the presses.
THEOREM MenuTypeCorrect == Spec => []TypeOK
<1>1. IInv => TypeOK
  BY DEF IInv
<1> QED
  BY <1>1, Invariance, PTL

\* However deletions and orders overlap, what a stored order's lines refer to stays in the
\* menu (create_order and delete_item, by the foreign keys).
THEOREM StoredLinesReferToMenu == Spec => []LinesReferToMenu
<1>1. IInv => LinesReferToMenu
  BY DEF IInv, LinesHere, LinesReferToMenu, OrdersAt
<1> QED
  BY <1>1, Invariance, PTL

\* An order refused by every backend contains something deleted, or has been the victim of
\* a deadlock, for any number of backends.
THEOREM RefusalMetDeletion == Spec => []FailedOrderMetDeletion
<1>1. IInv => FailedOrderMetDeletion
  BY DEF IInv, TriesExplained, Whole, FailedOrderMetDeletion, OrdersAt
<1> QED
  BY <1>1, Invariance, PTL

\* The kiosk's menu has every item that was on sale during the whole of its load.
THEOREM MenuHasSteadyItems == Spec => []SteadyItemsShown
<1>1. IInv => SteadyItemsShown
  BY DEF IInv, SteadyLoaded, SteadyItemsShown
<1> QED
  BY <1>1, Invariance, PTL

\* Attempts to load are counted by the presses of the retry button, and without one they
\* follow one another and leave a menu alone that has come (_load_data and its timer).
THEOREM AttemptsFollow == Spec => []AttemptsAccounted
<1>1. IInv => AttemptsAccounted
  <2> SUFFICES ASSUME IInv PROVE AttemptsAccounted
    OBVIOUS
  <2>1. timers \in Nat /\ presses \in Nat
    BY BoundAssumption DEF IInv, TypeOK
  <2>2. Attempts <= 1 + presses
    BY DEF IInv, ChainsCounted, Attempts
  <2>3. ASSUME presses = 0, screen = "menu" PROVE Attempts = 0
    BY <2>1, <2>3 DEF IInv, ChainsCounted, Attempts
  <2> QED
    BY <2>2, <2>3 DEF AttemptsAccounted, IInv, ChainsCounted
<1> QED
  BY <1>1, Invariance, PTL

=============================================================================
