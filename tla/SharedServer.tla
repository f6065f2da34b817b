----------------------------- MODULE SharedServer -----------------------------
(***************************************************************************)
(* The shared server: the tables of PostgreSQL (db.sql), the views that    *)
(* query them (views.js, db.js) and the administrators' page (core.js).    *)
(* Skills and job positions have the same table, views and controller and  *)
(* are both called items.                                                  *)
(*                                                                         *)
(* Every view sends one query and answers in its callback, so requests     *)
(* overlap freely: queries run on a pool of connections, in any order, and *)
(* answers reach the browser in any order.  A query that fails has no      *)
(* callback: nothing is answered until Node closes the connection.         *)
(*                                                                         *)
(* Descriptions are left out.  Rows with the same name and category are    *)
(* one here: no query tells them apart.                                    *)
(***************************************************************************)
EXTENDS Naturals, FiniteSets, FiniteSetsExt

CONSTANTS
    Category, Name,
    Unselected,         \* the category of a form in which none was selected
    Null,               \* SQL's NULL, and the "null" the page makes of it
    NoRow,              \* the row of a request that carries none
    Tab,                \* browser tabs in which the page is open
    MaxClicks,          \* bound: clicks that send a request in a behaviour
    MaxOthers,          \* bound: changes by other clients of the API
    MaxStarts           \* bound: starts of the container in a behaviour

ASSUME UnselectedAssumption ==
    Unselected \notin Category /\ Null \notin Category \cup Name \cup {Unselected}
ASSUME BoundsAssumption == MaxClicks \in Nat /\ MaxOthers \in Nat /\ MaxStarts \in Nat

VARIABLES
    categories, items,  \* the tables
    version,            \* number of queries that may have changed them
    calls,              \* requests that were sent and whose end is not known
    sent, clicks,       \* number of requests so far, and of clicks among them
    others, starts,     \* changes by other clients, starts of the container
    page,               \* page[t]: what the tab shows
    shown,              \* shown[t]: $scope.items
    options,            \* options[t]: $scope.categories of the body
    choices,            \* choices[t]: the categories its forms offer
    alerted,            \* alerted[t]: an error was shown on this page
    shownAt,            \* version of the list that the page shows
    changedAt           \* version of the newest change reported to the page

db == <<categories, items, version>>

tabs == <<page, shown, options, choices, alerted, shownAt, changedAt>>

counts == <<clicks, others, starts>>

vars == <<db, calls, sent, counts, tabs>>

(***************************************************************************)
(* Both columns of an item may be NULL (db.sql has no NOT NULL), but the   *)
(* forms require a name.                                                   *)
(***************************************************************************)
Item == [name : Name \cup {Null}, category : Category \cup {Null}]

Form == [name : Name, category : Category \cup {Unselected, Null}]

Table == {"categories", "items"}

Row == {NoRow} \cup Category \cup Form \cup Item

(***************************************************************************)
(* owner: whose callback waits for the answer: the controller of the body, *)
(* of the page, or one that the tab has navigated away from.               *)
(***************************************************************************)
Call ==
    [id : Nat, tab : Tab, owner : {"body", "page", "gone"}, table : Table,
     do : {"get", "create", "modify", "delete"}, old : Row, new : Row,
     phase : {"sent", "done", "rejected", "lost"},
     data : (SUBSET Category) \cup (SUBSET Item), at : Nat]

TypeOK ==
    /\ categories \in SUBSET Category
    /\ items \in SUBSET Item
    /\ version \in Nat
    /\ calls \in SUBSET Call
    /\ \A c, d \in calls : c.id = d.id => c = d
    /\ sent \in Nat
    /\ clicks \in 0 .. MaxClicks /\ others \in 0 .. MaxOthers
    /\ starts \in 0 .. MaxStarts
    /\ page \in [Tab -> Table \cup {"home", "closed"}]
    /\ shown \in [Tab -> (SUBSET Category) \cup (SUBSET Item)]
    /\ options \in [Tab -> SUBSET Category]
    /\ choices \in [Tab -> SUBSET Category]
    /\ alerted \in [Tab -> BOOLEAN]
    /\ shownAt \in [Tab -> Nat] /\ changedAt \in [Tab -> Nat]

Init ==
    /\ categories = {} /\ items = {} /\ version = 0
    /\ calls = {} /\ sent = 0 /\ clicks = 0 /\ others = 0 /\ starts = 0
    /\ page = [t \in Tab |-> "closed"]
    /\ shown = [t \in Tab |-> {}]
    /\ options = [t \in Tab |-> {}] /\ choices = [t \in Tab |-> {}]
    /\ alerted = [t \in Tab |-> FALSE]
    /\ shownAt = [t \in Tab |-> 0]
    /\ changedAt = [t \in Tab |-> 0]

-----------------------------------------------------------------------------
(***************************************************************************)
(* The page.  A request joins those calls that are still under way.        *)
(***************************************************************************)
Request(t, owner, table, do, old, new) ==
    [id |-> sent + 1, tab |-> t, owner |-> owner, table |-> table, do |-> do,
     old |-> old, new |-> new, phase |-> "sent", data |-> {}, at |-> 0]

Send(waiting, c) ==
    /\ sent' = sent + 1
    /\ calls' = waiting \cup {c}

Click ==
    /\ clicks < MaxClicks
    /\ clicks' = clicks + 1
    /\ UNCHANGED <<others, starts>>

(***************************************************************************)
(* The body of the page has a mainController of its own, which gets the    *)
(* categories once.                                                        *)
(***************************************************************************)
Load(t) ==
    /\ page[t] = "closed"
    /\ page' = [page EXCEPT ![t] = "home"]
    /\ Click
    /\ Send(calls, Request(t, "body", "categories", "get", NoRow, NoRow))
    /\ UNCHANGED <<db, shown, options, choices, alerted, shownAt,
                   changedAt>>

(***************************************************************************)
(* A link of the side bar makes a new controller.  The forms of the item   *)
(* pages offer what the body has got by then.                              *)
(***************************************************************************)
Navigate(t, table) ==
    /\ page[t] # "closed"
    /\ page' = [page EXCEPT ![t] = table]
    /\ Click
    /\ Send({IF c.tab = t /\ c.owner = "page" THEN [c EXCEPT !.owner = "gone"] ELSE c :
                c \in calls},
            Request(t, "page", table, "get", NoRow, NoRow))
    /\ shown' = [shown EXCEPT ![t] = {}]
    /\ choices' = [choices EXCEPT ![t] = options[t]]
    /\ alerted' = [alerted EXCEPT ![t] = FALSE]
    /\ shownAt' = [shownAt EXCEPT ![t] = 0]
    /\ changedAt' = [changedAt EXCEPT ![t] = 0]
    /\ UNCHANGED <<db, options>>

Kept(t, old) == IF page[t] = "items" THEN {old.category} ELSE {}

Filled(t, kept) ==
    IF page[t] = "categories" THEN Category
    ELSE [name : Name, category : choices[t] \cup kept]

Create(t, new) ==
    /\ page[t] \in Table
    /\ Click
    /\ Send(calls, Request(t, "page", page[t], "create", NoRow, new))
    /\ UNCHANGED <<db, tabs>>

OnSubmit(t, old, new) ==
    /\ Click
    /\ Send(calls, Request(t, "page", page[t], "modify", old, new))
    /\ UNCHANGED <<db, tabs>>

Delete(t, old) ==
    /\ Click
    /\ Send(calls, Request(t, "page", page[t], "delete", old, NoRow))
    /\ UNCHANGED <<db, tabs>>

-----------------------------------------------------------------------------
(***************************************************************************)
(* The queries.  The name of a category is the primary key of its table,   *)
(* the category of an item a foreign key: ON UPDATE CASCADE, ON DELETE     *)
(* CASCADE.  A query that would break a key is rejected as a whole.  NULL  *)
(* breaks no foreign key, and no WHERE of an UPDATE or DELETE is met by a  *)
(* row that holds one.                                                     *)
(***************************************************************************)
Meets(old) == old \in items /\ Null \notin {old.name, old.category}

ViolatesUnchecked(c) ==
    c.table = "categories" /\ c.do = "create" /\ c.new \in categories

ViolatesIfSelected(c) ==
    \/ c.table = "categories" /\ c.do = "create" /\ c.new \in categories
    \/ /\ c.table = "categories" /\ c.do = "modify"
       /\ c.old \in categories /\ c.new # c.old /\ c.new \in categories
    \/ /\ c.table = "items" /\ c.do \in {"create", "modify"}
       /\ c.new.category \notin categories \cup {Null, Unselected}

Violates(c) ==
    \/ c.table = "categories" /\ c.do = "create" /\ c.new \in categories
    \/ /\ c.table = "categories" /\ c.do = "modify"
       /\ c.old \in categories /\ c.new # c.old /\ c.new \in categories
    \/ /\ c.table = "items" /\ c.do = "create"
       /\ c.new.category \notin categories \cup {Null}
    \/ /\ c.table = "items" /\ c.do = "modify"
       /\ Meets(c.old) /\ c.new.category \notin categories \cup {Null}

Moved(c) ==
    {IF i.category = c.old THEN [i EXCEPT !.category = c.new] ELSE i : i \in items}

QueryCategories(c) ==
    \/ /\ c.do = "create"
       /\ categories' = categories \cup {c.new}
       /\ UNCHANGED items
    \/ /\ c.do = "modify" /\ c.old \in categories
       /\ categories' = (categories \ {c.old}) \cup {c.new}
       /\ items' = Moved(c)
    \/ /\ c.do = "delete"
       /\ categories' = categories \ {c.old}
       /\ items' = {i \in items : i.category # c.old}
    \/ /\ c.do = "modify" /\ c.old \notin categories
       /\ UNCHANGED <<categories, items>>

QueryItems(c) ==
    /\ \/ c.do = "create" /\ items' = items \cup {c.new}
       \/ /\ c.do \in {"modify", "delete"} /\ Meets(c.old)
          /\ items' = (items \ {c.old}) \cup (IF c.do = "modify" THEN {c.new} ELSE {})
       \/ c.do \in {"modify", "delete"} /\ ~Meets(c.old) /\ UNCHANGED items
    /\ UNCHANGED categories

(***************************************************************************)
(* One query runs.  An UPDATE or DELETE that meets no row succeeds.        *)
(***************************************************************************)
Becomes(c, d) == calls' = (calls \ {c}) \cup {d}

Select(c) ==
    /\ c.phase = "sent" /\ c.do = "get"
    /\ Becomes(c, [c EXCEPT !.phase = "done", !.at = version,
                            !.data = IF c.table = "categories" THEN categories ELSE items])
    /\ UNCHANGED <<db, sent, counts, tabs>>

Change(c) ==
    /\ c.phase = "sent" /\ c.do # "get" /\ ~Violates(c)
    /\ IF c.table = "categories" THEN QueryCategories(c) ELSE QueryItems(c)
    /\ version' = version + 1
    /\ Becomes(c, [c EXCEPT !.phase = "done", !.at = version + 1])
    /\ UNCHANGED <<sent, counts, tabs>>

Reject(c) ==
    /\ c.phase = "sent" /\ c.do # "get" /\ Violates(c)
    /\ Becomes(c, [c EXCEPT !.phase = "rejected"])
    /\ UNCHANGED <<db, sent, counts, tabs>>

(***************************************************************************)
(* Another client of the API, or another tab, has its change made.  What   *)
(* the body of such a request leaves out is stored as NULL, but the        *)
(* category of a new item is part of the URL.                              *)
(***************************************************************************)
ChangeByOther(table, do, old, new) ==
    LET c == [table |-> table, do |-> do, old |-> old, new |-> new] IN
    /\ others < MaxOthers
    /\ others' = others + 1
    /\ ~Violates(c)
    /\ IF table = "categories" THEN QueryCategories(c) ELSE QueryItems(c)
    /\ version' = version + 1
    /\ UNCHANGED <<calls, sent, clicks, starts, tabs>>

-----------------------------------------------------------------------------
(***************************************************************************)
(* The answer to a GET reaches the browser: get() replaces the list,       *)
(* whichever request it answers.                                           *)
(***************************************************************************)
Got(c) ==
    /\ c.phase = "done" /\ c.do = "get"
    /\ calls' = calls \ {c}
    /\ \/ /\ c.owner = "page"
          /\ shown' = [shown EXCEPT ![c.tab] = c.data]
          /\ shownAt' = [shownAt EXCEPT ![c.tab] = c.at]
          /\ UNCHANGED options
       \/ /\ c.owner = "body"
          /\ options' = [options EXCEPT ![c.tab] = c.data]
          /\ UNCHANGED <<shown, shownAt>>
       \/ c.owner = "gone" /\ UNCHANGED <<shown, shownAt, options>>
    /\ UNCHANGED <<db, sent, counts, page, choices, alerted, changedAt>>

(***************************************************************************)
(* The answer to a change: the callback gets the list again.               *)
(***************************************************************************)
Changed(c) ==
    /\ c.phase = "done" /\ c.do # "get"
    /\ Send(calls \ {c}, Request(c.tab, c.owner, c.table, "get", NoRow, NoRow))
    /\ changedAt' = IF c.owner = "gone" THEN changedAt
                    ELSE [changedAt EXCEPT ![c.tab] = Max({@, c.at})]
    /\ UNCHANGED <<db, counts, page, shown, options, choices, alerted, shownAt>>

(***************************************************************************)
(* The connection of a request that nobody answers is closed.  Deletions   *)
(* have no error callback.                                                 *)
(***************************************************************************)
ErrorUnheard(c) == c.phase = "lost" /\ UNCHANGED vars

Error(c) ==
    /\ c.phase \in {"rejected", "lost"}
    /\ calls' = calls \ {c}
    /\ alerted' = IF c.do = "delete" \/ c.owner = "gone" THEN alerted
                  ELSE [alerted EXCEPT ![c.tab] = TRUE]
    /\ UNCHANGED <<db, sent, counts, page, shown, options, choices, shownAt,
                   changedAt>>

(***************************************************************************)
(* The container starts again: entrypoint.sh runs db.sql, which drops the  *)
(* tables, and all connections are gone.                                   *)
(***************************************************************************)
Entrypoint ==
    /\ starts < MaxStarts
    /\ starts' = starts + 1
    /\ categories' = {} /\ items' = {} /\ version' = version + 1
    /\ calls' = {[c EXCEPT !.phase = "lost"] : c \in calls}
    /\ UNCHANGED <<sent, clicks, others, tabs>>

Serve ==
    \E c \in calls :
        Select(c) \/ Change(c) \/ Reject(c) \/ Got(c) \/ Changed(c) \/ Error(c)

Next ==
    \/ \E t \in Tab :
          \/ Load(t)
          \/ \E table \in Table : Navigate(t, table)
          \/ \E new \in Filled(t, {Unselected}) : Create(t, new)
          \/ \E old \in shown[t] :
                \/ \E new \in Filled(t, Kept(t, old)) : OnSubmit(t, old, new)
                \/ Delete(t, old)
    \/ Serve
    \/ \E do \in {"create", "modify", "delete"} :
          \/ \E old, new \in Category : ChangeByOther("categories", do, old, new)
          \/ \E old, new \in Item :
                /\ do = "create" => new.category # Null
                /\ ChangeByOther("items", do, old, new)
    \/ Entrypoint

(***************************************************************************)
(* The event loop runs the queries and the callbacks that are ready, and   *)
(* Node closes a connection on which nothing is answered (after two        *)
(* minutes): something is done for as long as something can be.  No        *)
(* fairness for the users or for starts of the container.                  *)
(***************************************************************************)
Spec == Init /\ [][Next]_vars

FairSpec == Spec /\ WF_vars(Serve)

-----------------------------------------------------------------------------
(***************************************************************************)
(* ItemsHaveCategory: every skill and job position belongs to a category   *)
(* that exists, although the forms offer categories that were read when    *)
(* the page was opened, and other administrators rename and delete them    *)
(* meanwhile (docs: "debe seleccionarse la categoria correspondiente").    *)
(* Only another client of the API can leave one without a category: no     *)
(* form of the page does, not even one for an item that has none.          *)
(***************************************************************************)
ItemsHaveCategory ==
    \A i \in items : i.category \in categories \/ (i.category = Null /\ others > 0)

(***************************************************************************)
(* NewElementAppears: docs/Administracion e interfaz grafica.rst:31, after *)
(* Submit the element appears in the list: once nothing is under way for a *)
(* page and it showed no error, its list was read after every change that  *)
(* it was told of.  get() (core.js:77-89) takes the answers as they come.  *)
(***************************************************************************)
Settled(t) ==
    page[t] \in Table /\ ~alerted[t] /\ ~\E c \in calls : c.tab = t /\ c.owner = "page"

NewElementAppears == \A t \in Tab : Settled(t) => shownAt[t] >= changedAt[t]

(***************************************************************************)
(* EveryCallEnds: once nobody clicks any more (clicks are bounded), no     *)
(* request is left waiting: a view whose query fails never answers, and    *)
(* refreshes beget no further ones.                                        *)
(***************************************************************************)
EveryCallEnds == <>[](calls = {})
===============================================================================
