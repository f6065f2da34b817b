-------------------------- MODULE SharedServerProofs --------------------------
(***************************************************************************)
(* Proofs about SharedServer, for any tabs, categories and bounds.  The    *)
(* rows that a query writes come from forms, and the forms offer what      *)
(* earlier answers brought, so the invariant says of every request under   *)
(* way what it may carry and which page waits for it: a form carries no    *)
(* category only for an item that has none, and such a row meets no WHERE. *)
(***************************************************************************)
EXTENDS SharedServer, TLAPS

Rows(table) == IF table = "categories" THEN Category ELSE Item

(* A request that would store an item without a category names such an item. *)
NullKept(c) ==
    c.table = "items" /\ c.do \in {"create", "modify"} /\ c.new.category = Null =>
        c.do = "modify" /\ c.old.category = Null

(* Request c, when n requests were sent and the tabs show the pages p.       *)
Sound(c, n, p) ==
    /\ c \in Call
    /\ c.id <= n
    /\ c.owner = "page" => c.table = p[c.tab]
    /\ c.owner = "body" => c.table = "categories" /\ c.do = "get"
    /\ c.do \in {"create", "modify"} =>
          c.new \in IF c.table = "categories" THEN Category ELSE Form
    /\ NullKept(c)
    /\ c.data \subseteq Rows(c.table)

SoundCalls(C, n, p) ==
    /\ \A c \in C : Sound(c, n, p)
    /\ \A c, d \in C : c.id = d.id => c = d

PageSound ==
    \A t \in Tab : IF page[t] \in Table THEN shown[t] \subseteq Rows(page[t])
                   ELSE shown[t] = {}

Types ==
    /\ categories \in SUBSET Category /\ items \in SUBSET Item
    /\ version \in Nat /\ sent \in Nat
    /\ clicks \in 0 .. MaxClicks /\ others \in 0 .. MaxOthers
    /\ starts \in 0 .. MaxStarts
    /\ page \in [Tab -> Table \cup {"home", "closed"}]
    /\ shown \in [Tab -> (SUBSET Category) \cup (SUBSET Item)]
    /\ options \in [Tab -> SUBSET Category] /\ choices \in [Tab -> SUBSET Category]
    /\ alerted \in [Tab -> BOOLEAN]
    /\ shownAt \in [Tab -> Nat] /\ changedAt \in [Tab -> Nat]

IInv ==
    /\ Types
    /\ SoundCalls(calls, sent, page)
    /\ PageSound
    /\ ItemsHaveCategory

-----------------------------------------------------------------------------
(* Requests under way.                                                       *)
LEMMA SoundLater ==
    ASSUME NEW n \in Nat, NEW m \in Nat, m >= n, NEW p, NEW c, Sound(c, n, p)
    PROVE  Sound(c, m, p)
<1>1. c.id \in Nat /\ c.id <= n
  BY DEF Sound, Call
<1>2. c.id <= m
  BY <1>1
<1>3. QED
  BY <1>2 DEF Sound

LEMMA RequestSound ==
    ASSUME sent \in Nat, NEW p, NEW t \in Tab, NEW owner \in {"body", "page", "gone"},
           NEW table \in Table, NEW do \in {"get", "create", "modify", "delete"},
           NEW old \in Row, NEW new \in Row,
           owner = "page" => table = p[t],
           owner = "body" => table = "categories" /\ do = "get",
           do \in {"create", "modify"} =>
              new \in IF table = "categories" THEN Category ELSE Form,
           table = "items" /\ do \in {"create", "modify"} /\ new.category = Null =>
              do = "modify" /\ old.category = Null
    PROVE  /\ Sound(Request(t, owner, table, do, old, new), sent + 1, p)
           /\ Request(t, owner, table, do, old, new).id = sent + 1
BY DEF Request, Sound, NullKept, Call, Rows

(* A new request has a number of its own.                                    *)
LEMMA SendSound ==
    ASSUME NEW n \in Nat, NEW p, NEW W, SoundCalls(W, n, p),
           NEW r, Sound(r, n + 1, p), r.id = n + 1
    PROVE  SoundCalls(W \cup {r}, n + 1, p)
<1>1. \A c \in W : Sound(c, n + 1, p)
  BY SoundLater DEF SoundCalls
<1>2. \A c \in W : c.id \in Nat /\ c.id <= n
  BY DEF SoundCalls, Sound, Call
<1>3. \A c \in W : c.id # r.id
  BY <1>2
<1>4. QED
  BY <1>1, <1>3 DEF SoundCalls

(* A request that moves on keeps its number.                                 *)
LEMMA BecomesSound ==
    ASSUME NEW n, NEW p, NEW C, SoundCalls(C, n, p), NEW c \in C,
           NEW d, Sound(d, n, p), d.id = c.id
    PROVE  SoundCalls((C \ {c}) \cup {d}, n, p)
BY DEF SoundCalls

LEMMA FewerSound ==
    ASSUME NEW n, NEW p, NEW C, SoundCalls(C, n, p), NEW D, D \subseteq C
    PROVE  SoundCalls(D, n, p)
BY DEF SoundCalls

(* The newer of two lists.                                                   *)
LEMMA MaxOfTwo ==
    ASSUME NEW a \in Nat, NEW b \in Nat
    PROVE  Max({a, b}) \in Nat /\ Max({a, b}) >= a /\ Max({a, b}) >= b
<1>1. \E x \in {a, b} : \A y \in {a, b} : x >= y
  OBVIOUS
<1>2. Max({a, b}) \in {a, b} /\ \A y \in {a, b} : Max({a, b}) >= y
  BY <1>1 DEF Max
<1>3. QED
  BY <1>2

(* An empty database and closed tabs satisfy the invariant.                  *)
LEMMA InitInv == Init => IInv
<1> SUFFICES ASSUME Init PROVE IInv
  OBVIOUS
<1> USE DEF Init
<1>1. Types
  BY BoundsAssumption DEF Types, Table
<1>2. SoundCalls(calls, sent, page) /\ PageSound
  BY DEF SoundCalls, PageSound, Table
<1>3. ItemsHaveCategory
  BY DEF ItemsHaveCategory
<1>4. QED
  BY <1>1, <1>2, <1>3 DEF IInv

-----------------------------------------------------------------------------
(* The queries.  c need not be a request of a page.                          *)
LEMMA QueryKeepsKeys ==
    ASSUME categories \in SUBSET Category, items \in SUBSET Item, ItemsHaveCategory,
           others \in Nat, others' \in Nat, others' >= others,
           NEW c, c.table \in Table, ~Violates(c),
           c.do \in {"create", "modify"} =>
              c.new \in IF c.table = "categories" THEN Category ELSE Form \cup Item,
           others' > 0 \/ NullKept(c),
           IF c.table = "categories" THEN QueryCategories(c) ELSE QueryItems(c)
    PROVE  /\ categories' \in SUBSET Category /\ items' \in SUBSET Item
           /\ ItemsHaveCategory'
<1>0. \A i \in items :
         /\ i \in Item
         /\ i.category \in categories \/ (i.category = Null /\ others' > 0)
  BY DEF ItemsHaveCategory
<1>1. CASE c.table = "categories"
  <2>1. CASE /\ c.do = "modify" /\ c.old \in categories
             /\ categories' = (categories \ {c.old}) \cup {c.new}
             /\ items' = Moved(c)
    <3>1. \A j \in items' : \E i \in items :
             j = IF i.category = c.old THEN [i EXCEPT !.category = c.new] ELSE i
      BY <2>1 DEF Moved
    <3>2. ASSUME NEW j \in items'
          PROVE  /\ j \in Item
                 /\ j.category \in categories' \/ (j.category = Null /\ others' > 0)
      <4>1. PICK i \in items :
               j = IF i.category = c.old THEN [i EXCEPT !.category = c.new] ELSE i
        BY <3>1
      <4>2. CASE i.category = c.old
        BY <1>0, <1>1, <2>1, <4>1, <4>2 DEF Item
      <4>3. CASE i.category # c.old
        BY <1>0, <1>1, <2>1, <4>1, <4>3 DEF Item
      <4>4. QED
        BY <4>2, <4>3
    <3>3. QED
      BY <1>1, <2>1, <3>2 DEF ItemsHaveCategory
  <2>2. CASE ~(c.do = "modify" /\ c.old \in categories)
    <3>1. /\ categories' \in SUBSET Category
          /\ items' \subseteq items
          /\ \A i \in items' : i.category \in categories => i.category \in categories'
      BY <1>1, <2>2 DEF QueryCategories
    <3>2. QED
      BY <1>0, <3>1 DEF ItemsHaveCategory
  <2>3. QED
    BY <1>1, <2>1, <2>2 DEF QueryCategories
<1>2. CASE c.table = "items"
  <2>1. ASSUME c.do = "create" \/ (c.do = "modify" /\ Meets(c.old))
        PROVE  /\ c.new \in Item
               /\ c.new.category \in categories \/ (c.new.category = Null /\ others' > 0)
    <3>1. c.new \in Form \cup Item /\ c.new.category \in categories \cup {Null}
      BY <1>2, <2>1 DEF Violates
    <3>2. c.new \in Item
      BY <3>1 DEF Form, Item
    <3>3. c.new.category = Null => others' > 0
      BY <1>2, <2>1 DEF NullKept, Meets
    <3>4. QED
      BY <3>1, <3>2, <3>3
  <2>2. QED
    BY <1>0, <1>2, <2>1 DEF QueryItems, ItemsHaveCategory
<1>3. QED
  BY <1>1, <1>2 DEF Table

-----------------------------------------------------------------------------
(* Clicks.                                                                   *)
LEMMA LoadInv ==
    ASSUME IInv, NEW t \in Tab, Load(t)
    PROVE  IInv'
<1> DEFINE r == Request(t, "body", "categories", "get", NoRow, NoRow)
<1> USE DEF Load, Click, Send, db
<1>1. Types'
  BY BoundsAssumption DEF IInv, Types
<1>2. \A c \in calls : Sound(c, sent, page')
  <2>1. \A c \in calls : c.owner = "page" => c.tab # t
    BY DEF IInv, Types, SoundCalls, Sound, Call, Table
  <2>2. \A c \in calls : c.owner = "page" => page'[c.tab] = page[c.tab]
    BY <2>1 DEF IInv, Types, SoundCalls, Sound, Call
  <2>3. QED
    BY <2>2 DEF IInv, SoundCalls, Sound
<1>3. Sound(r, sent + 1, page') /\ r.id = sent + 1
  <2>1. sent \in Nat /\ "categories" \in Table /\ NoRow \in Row
    BY DEF IInv, Types, Table, Row
  <2> HIDE DEF Load
  <2>2. QED
    BY <2>1, RequestSound
<1>4. SoundCalls(calls', sent', page')
  <2>1. SoundCalls(calls, sent, page')
    BY <1>2 DEF IInv, SoundCalls
  <2>2. QED
    BY <1>3, <2>1, SendSound DEF IInv, Types
<1>5. PageSound'
  BY DEF IInv, Types, PageSound, Table
<1>6. ItemsHaveCategory'
  BY DEF IInv, ItemsHaveCategory
<1>7. QED
  BY <1>1, <1>4, <1>5, <1>6 DEF IInv

LEMMA NavigateInv ==
    ASSUME IInv, NEW t \in Tab, NEW table \in Table, Navigate(t, table)
    PROVE  IInv'
<1> DEFINE r == Request(t, "page", table, "get", NoRow, NoRow)
           Left(c) == IF c.tab = t /\ c.owner = "page" THEN [c EXCEPT !.owner = "gone"] ELSE c
           W == {Left(c) : c \in calls}
<1> USE DEF Navigate, Click, Send, db
<1>0. calls' = W \cup {r} /\ sent' = sent + 1 /\ page' = [page EXCEPT ![t] = table]
  OBVIOUS
<1>1. Types'
  BY BoundsAssumption DEF IInv, Types
<1>2. ASSUME NEW c \in calls
      PROVE  /\ Sound(Left(c), sent, page') /\ Left(c).id = c.id /\ Left(c).at = c.at
             /\ c.tab # t => Left(c) = c
  <2>1. Sound(c, sent, page) /\ c \in Call
    BY DEF IInv, SoundCalls, Sound
  <2>2. CASE c.tab = t /\ c.owner = "page"
    BY <2>1, <2>2 DEF Sound, NullKept, Call
  <2>3. CASE ~(c.tab = t /\ c.owner = "page")
    <3>1. Left(c) = c
      BY <2>3
    <3>2. c.owner = "page" => page'[c.tab] = page[c.tab]
      BY <1>0, <2>1, <2>3 DEF IInv, Types, Call
    <3>3. QED
      BY <2>1, <3>1, <3>2 DEF Sound
  <2>4. QED
    BY <2>2, <2>3
<1>3. SoundCalls(W, sent, page')
  <2>1. \A d \in W : Sound(d, sent, page')
    BY <1>2
  <2>2. ASSUME NEW d \in W, NEW e \in W, d.id = e.id PROVE d = e
    <3> HIDE DEF Left
    <3>1. PICK c1 \in calls : d = Left(c1)
      OBVIOUS
    <3>2. PICK c2 \in calls : e = Left(c2)
      OBVIOUS
    <3>3. c1.id = c2.id
      BY <1>2, <2>2, <3>1, <3>2
    <3>4. QED
      BY <3>1, <3>2, <3>3 DEF IInv, SoundCalls
  <2>3. QED
    BY <2>1, <2>2 DEF SoundCalls
<1>4. Sound(r, sent + 1, page') /\ r.id = sent + 1
  <2>1. page'[t] = table
    BY <1>0 DEF IInv, Types
  <2>2. NoRow \in Row /\ sent \in Nat
    BY DEF IInv, Types, Row
  <2>3. QED
    BY <2>1, <2>2 DEF Request, Sound, NullKept, Call, Rows
<1>5. SoundCalls(calls', sent', page')
  BY <1>0, <1>3, <1>4, SendSound DEF IInv, Types
<1>6. PageSound'
  BY DEF IInv, Types, PageSound
<1>7. ItemsHaveCategory'
  BY DEF IInv, ItemsHaveCategory
<1>8. QED
  BY <1>1, <1>5, <1>6, <1>7 DEF IInv

(* A form that is submitted: only a request more.                            *)
LEMMA FormInv ==
    ASSUME IInv, NEW t \in Tab, page[t] \in Table,
           NEW do \in {"create", "modify", "delete"}, NEW old \in Row, NEW new \in Row,
           do \in {"create", "modify"} =>
              new \in IF page[t] = "categories" THEN Category ELSE Form,
           page[t] = "items" /\ do \in {"create", "modify"} /\ new.category = Null =>
              do = "modify" /\ old.category = Null,
           Click, Send(calls, Request(t, "page", page[t], do, old, new)),
           UNCHANGED <<db, tabs>>
    PROVE  IInv'
<1> DEFINE r == Request(t, "page", page[t], do, old, new)
<1> USE DEF Click, Send, db, tabs
<1>1. Types'
  BY BoundsAssumption DEF IInv, Types
<1>2. Sound(r, sent + 1, page) /\ r.id = sent + 1
  BY RequestSound DEF IInv, Types
<1>3. SoundCalls(calls', sent', page')
  BY <1>2, SendSound DEF IInv, Types
<1>4. PageSound' /\ ItemsHaveCategory'
  BY DEF IInv, PageSound, ItemsHaveCategory
<1>5. QED
  BY <1>1, <1>3, <1>4 DEF IInv

(* What forms carry.                                                         *)
LEMMA ClickInv ==
    ASSUME IInv, NEW t \in Tab,
           \/ \E new \in Filled(t, {Unselected}) : Create(t, new)
           \/ \E old \in shown[t] :
                 \/ \E new \in Filled(t, Kept(t, old)) : OnSubmit(t, old, new)
                 \/ Delete(t, old)
    PROVE  IInv'
<1>0. /\ choices[t] \subseteq Category /\ NoRow \in Row
      /\ Category \subseteq Row /\ Item \subseteq Row /\ Form \subseteq Row
  BY DEF IInv, Types, Row, Item, Form
<1>1. ASSUME NEW new \in Filled(t, {Unselected}), Create(t, new) PROVE IInv'
  <2>1. page[t] \in Table
    BY <1>1 DEF Create
  <2>2. new \in IF page[t] = "categories" THEN Category ELSE Form
    BY <1>0 DEF Filled, Form
  <2>3. new \in Row
    BY <1>0, <2>2
  <2>4. page[t] = "items" => new.category # Null
    BY <1>0, UnselectedAssumption DEF Filled
  <2>5. QED
    BY <1>0, <1>1, <2>1, <2>2, <2>3, <2>4, FormInv DEF Create
<1>2. ASSUME NEW old \in shown[t],
             \/ \E new \in Filled(t, Kept(t, old)) : OnSubmit(t, old, new)
             \/ Delete(t, old)
      PROVE  IInv'
  <2>1. page[t] \in Table /\ old \in Rows(page[t])
    BY <1>2 DEF IInv, PageSound
  <2>2. old \in Row
    BY <1>0, <2>1 DEF Rows
  <2>3. ASSUME NEW new \in Filled(t, Kept(t, old)), OnSubmit(t, old, new) PROVE IInv'
    <3>1. new \in IF page[t] = "categories" THEN Category ELSE Form
      BY <1>0, <2>1 DEF Filled, Kept, Form, Table, Rows, Item
    <3>2. new \in Row
      BY <1>0, <3>1
    <3>3. page[t] = "items" /\ new.category = Null => old.category = Null
      BY <1>0, UnselectedAssumption DEF Filled, Kept
    <3>4. QED
      BY <2>1, <2>2, <2>3, <3>1, <3>2, <3>3, FormInv DEF OnSubmit
  <2>4. CASE Delete(t, old)
    BY <1>0, <2>1, <2>2, <2>4, FormInv DEF Delete
  <2>5. QED
    BY <1>2, <2>3, <2>4
<1>3. QED
  BY <1>1, <1>2

-----------------------------------------------------------------------------
(* Queries of requests.                                                      *)
LEMMA CallFacts ==
    ASSUME IInv, NEW c \in calls
    PROVE  /\ c \in Call /\ Sound(c, sent, page) /\ SoundCalls(calls, sent, page)
           /\ sent \in Nat /\ version \in Nat /\ c.at \in Nat
           /\ c.tab \in Tab /\ c.table \in Table
BY DEF IInv, Types, SoundCalls, Sound, Call

(* The request c after its query, with answer rows and version n.            *)
Answer(c, n, rows) == [c EXCEPT !.phase = "done", !.at = n, !.data = rows]

LEMMA AnswerSound ==
    ASSUME NEW c, NEW m, NEW p, Sound(c, m, p), NEW n \in Nat, NEW rows,
           rows \subseteq Rows(c.table)
    PROVE  /\ Sound(Answer(c, n, rows), m, p)
           /\ Answer(c, n, rows).id = c.id /\ Answer(c, n, rows).at = n
           /\ Answer(c, n, rows).tab = c.tab /\ Answer(c, n, rows).owner = c.owner
           /\ Answer(c, n, rows).do = c.do
<1> DEFINE d == Answer(c, n, rows)
<1>0. c \in Call
  BY DEF Sound
<1>1. rows \in (SUBSET Category) \cup (SUBSET Item)
  <2>1. rows \subseteq Category \/ rows \subseteq Item
    BY DEF Rows
  <2>2. QED
    BY <2>1
<1>2. d \in Call
  BY <1>0, <1>1 DEF Call, Answer
<1>3. /\ d.id = c.id /\ d.at = n /\ d.tab = c.tab /\ d.owner = c.owner /\ d.do = c.do
      /\ d.table = c.table /\ d.new = c.new /\ d.old = c.old /\ d.data = rows
  BY <1>0 DEF Call, Answer
<1> HIDE DEF d
<1>4. Sound(d, m, p)
  BY <1>2, <1>3 DEF Sound, NullKept
<1>5. QED
  BY <1>3, <1>4 DEF d

LEMMA SelectInv ==
    ASSUME IInv, NEW c \in calls, Select(c)
    PROVE  IInv'
<1>0. /\ Sound(c, sent, page) /\ SoundCalls(calls, sent, page) /\ version \in Nat
  BY CallFacts
<1>1. PICK d : d = Answer(c, version, IF c.table = "categories" THEN categories ELSE items)
  OBVIOUS
<1>2. calls' = (calls \ {c}) \cup {d} /\ UNCHANGED <<db, sent, counts, tabs>>
  BY <1>1 DEF Select, Becomes, Answer
<1>3. Types'
  BY <1>2 DEF IInv, Types, db, counts, tabs
<1>4. (IF c.table = "categories" THEN categories ELSE items) \subseteq Rows(c.table)
  BY DEF IInv, Types, Rows
<1>5. /\ Sound(d, sent, page) /\ d.id = c.id /\ d.at = version /\ d.tab = c.tab
      /\ d.owner = c.owner /\ d.do = c.do
  BY <1>0, <1>1, <1>4, AnswerSound
<1>6. SoundCalls(calls', sent', page')
  <2>1. SoundCalls((calls \ {c}) \cup {d}, sent, page)
    BY <1>0, <1>5, BecomesSound
  <2>2. QED
    BY <1>2, <2>1 DEF tabs
<1>7. PageSound' /\ ItemsHaveCategory'
  BY <1>2 DEF IInv, PageSound, ItemsHaveCategory, db, counts, tabs
<1>8. QED
  BY <1>3, <1>6, <1>7 DEF IInv

LEMMA ChangeInv ==
    ASSUME IInv, NEW c \in calls, Change(c)
    PROVE  IInv'
<1>0. /\ c \in Call /\ Sound(c, sent, page) /\ SoundCalls(calls, sent, page)
      /\ version \in Nat /\ c.table \in Table
  BY CallFacts
<1>00. PICK d : d = [c EXCEPT !.phase = "done", !.at = version + 1]
  OBVIOUS
<1>1. /\ calls' = (calls \ {c}) \cup {d} /\ c.do # "get" /\ version' = version + 1
      /\ UNCHANGED <<sent, clicks, others, starts, page, shown, options, choices, alerted,
                     shownAt, changedAt>>
  BY <1>00 DEF Change, Becomes, counts, tabs
<1>2. /\ categories' \in SUBSET Category /\ items' \in SUBSET Item
      /\ ItemsHaveCategory'
  <2>1. others \in Nat /\ others' = others
    BY <1>1, BoundsAssumption DEF IInv, Types
  <2>2. /\ NullKept(c)
        /\ c.do \in {"create", "modify"} =>
              c.new \in IF c.table = "categories" THEN Category ELSE Form \cup Item
    BY <1>0 DEF Sound
  <2>3. /\ ~Violates(c)
        /\ IF c.table = "categories" THEN QueryCategories(c) ELSE QueryItems(c)
    BY DEF Change
  <2>4. categories \in SUBSET Category /\ items \in SUBSET Item /\ ItemsHaveCategory
    BY DEF IInv, Types
  <2>5. QED
    BY <1>0, <2>1, <2>2, <2>3, <2>4, QueryKeepsKeys
<1>3. Types'
  BY <1>0, <1>1, <1>2 DEF IInv, Types
<1>4. d.id = c.id /\ d.at = version + 1 /\ Sound(d, sent, page)
  <2>1. version + 1 \in Nat /\ c.data \subseteq Rows(c.table)
    BY <1>0 DEF Sound
  <2>2. d = Answer(c, version + 1, c.data)
    BY <1>0, <1>00 DEF Answer, Call
  <2>3. QED
    BY <1>0, <2>1, <2>2, AnswerSound
<1>5. SoundCalls(calls', sent', page')
  BY <1>0, <1>1, <1>4, BecomesSound
<1>6. PageSound'
  BY <1>1 DEF IInv, PageSound
<1>7. QED
  BY <1>2, <1>3, <1>5, <1>6 DEF IInv

LEMMA RejectInv ==
    ASSUME IInv, NEW c \in calls, Reject(c)
    PROVE  IInv'
<1> DEFINE d == [c EXCEPT !.phase = "rejected"]
<1>0. /\ c \in Call /\ Sound(c, sent, page) /\ SoundCalls(calls, sent, page)
     
  BY CallFacts
<1>1. calls' = (calls \ {c}) \cup {d} /\ c.do # "get" /\ UNCHANGED <<db, sent, counts, tabs>>
  BY DEF Reject, Becomes
<1>2. Types'
  BY <1>1 DEF IInv, Types, db, counts, tabs
<1>3. /\ d \in Call /\ d.id = c.id /\ d.at = c.at /\ d.tab = c.tab
      /\ d.owner = c.owner /\ d.do = c.do /\ d.table = c.table /\ d.new = c.new /\ d.old = c.old
      /\ d.data = c.data
  BY <1>0 DEF Call
<1> HIDE DEF d
<1>4. Sound(d, sent, page)
  BY <1>0, <1>3 DEF Sound, NullKept
<1>5. SoundCalls(calls', sent', page')
  BY <1>0, <1>1, <1>3, <1>4, BecomesSound DEF tabs
<1>6. PageSound' /\ ItemsHaveCategory'
  BY <1>1 DEF IInv, PageSound, ItemsHaveCategory, db, counts, tabs
<1>7. QED
  BY <1>2, <1>5, <1>6 DEF IInv

LEMMA ChangeByOtherInv ==
    ASSUME IInv, NEW do \in {"create", "modify", "delete"},
           \/ \E old, new \in Category : ChangeByOther("categories", do, old, new)
           \/ \E old, new \in Item :
                 /\ do = "create" => new.category # Null
                 /\ ChangeByOther("items", do, old, new)
    PROVE  IInv'
<1>0. PICK table \in Table : \E old, new \in Rows(table) : ChangeByOther(table, do, old, new)
  BY DEF Table, Rows
<1>1. PICK old \in Rows(table), new \in Rows(table) : ChangeByOther(table, do, old, new)
  BY <1>0
<1> DEFINE c == [table |-> table, do |-> do, old |-> old, new |-> new]
<1>2. /\ ~Violates(c)
      /\ IF c.table = "categories" THEN QueryCategories(c) ELSE QueryItems(c)
      /\ version' = version + 1 /\ others < MaxOthers /\ others' = others + 1
      /\ UNCHANGED <<calls, sent, clicks, starts, tabs>>
  BY <1>1 DEF ChangeByOther
<1>3. c.table \in Table
      /\ c.new \in IF c.table = "categories" THEN Category ELSE Form \cup Item
  BY DEF Rows
<1> HIDE DEF c
<1>4. categories' \in SUBSET Category /\ items' \in SUBSET Item /\ ItemsHaveCategory'
  <2>1. others \in Nat /\ others' \in Nat /\ others' >= others /\ others' > 0
    BY <1>2, BoundsAssumption DEF IInv, Types
  <2>2. QED
    BY <1>2, <1>3, <2>1, QueryKeepsKeys DEF IInv, Types
<1>5. Types'
  BY <1>2, <1>4, BoundsAssumption DEF IInv, Types, tabs
<1>6. SoundCalls(calls', sent', page') /\ PageSound'
  BY <1>2 DEF IInv, PageSound, tabs
<1>7. QED
  BY <1>4, <1>5, <1>6 DEF IInv

-----------------------------------------------------------------------------
(* Answers.  The list that replaces another one is of the page's table.      *)
LEMMA GotInv ==
    ASSUME IInv, NEW c \in calls, Got(c)
    PROVE  IInv'
<1>0. /\ Sound(c, sent, page) /\ SoundCalls(calls, sent, page)
      /\ c.at \in Nat /\ c.tab \in Tab /\ c.table \in Table
  BY CallFacts
<1>1. /\ c.phase = "done" /\ c.do = "get" /\ calls' = calls \ {c}
      /\ UNCHANGED <<db, sent, counts, page, choices, alerted, changedAt>>
  BY DEF Got
<1>2. /\ c.owner = "page" => c.table = page[c.tab] /\ c.data \subseteq Rows(page[c.tab])
      /\ c.owner = "body" => c.data \subseteq Category
  BY <1>0 DEF Sound, Rows
<1>3. \A t \in Tab : \/ shown'[t] = shown[t]
                     \/ c.owner = "page" /\ t = c.tab /\ shown'[t] = c.data
  BY <1>0 DEF Got, IInv, Types
<1>4. Types'
  <2>1. shown' \in [Tab -> (SUBSET Category) \cup (SUBSET Item)]
    <3>1. c.data \in (SUBSET Category) \cup (SUBSET Item)
      BY <1>0 DEF Sound, Call
    <3>2. QED
      BY <3>1 DEF Got, IInv, Types
  <2>2. options' \in [Tab -> SUBSET Category]
    BY <1>2 DEF Got, IInv, Types
  <2>3. shownAt' \in [Tab -> Nat]
    BY <1>0 DEF Got, IInv, Types
  <2>4. QED
    BY <1>1, <2>1, <2>2, <2>3 DEF IInv, Types, db, counts
<1>5. SoundCalls(calls', sent', page')
  BY <1>0, <1>1, FewerSound
<1>6. PageSound'
  BY <1>0, <1>1, <1>2, <1>3 DEF IInv, PageSound
<1>7. ItemsHaveCategory'
  BY <1>1 DEF IInv, ItemsHaveCategory, db, counts
<1>8. QED
  BY <1>4, <1>5, <1>6, <1>7 DEF IInv

LEMMA ChangedInv ==
    ASSUME IInv, NEW c \in calls, Changed(c)
    PROVE  IInv'
<1>0. /\ Sound(c, sent, page) /\ SoundCalls(calls, sent, page) /\ sent \in Nat
      /\ c.at \in Nat /\ version \in Nat
      /\ c.tab \in Tab /\ c.table \in Table /\ c \in Call
  BY CallFacts
<1>1. PICK r : r = Request(c.tab, c.owner, c.table, "get", NoRow, NoRow)
  OBVIOUS
<1>2. /\ c.do # "get" /\ sent' = sent + 1 /\ calls' = (calls \ {c}) \cup {r}
      /\ changedAt' = IF c.owner = "gone" THEN changedAt
                      ELSE [changedAt EXCEPT ![c.tab] = Max({@, c.at})]
      /\ UNCHANGED <<db, counts, page, shown, options, choices, alerted, shownAt>>
  BY <1>1 DEF Changed, Send
<1>3. c.owner \in {"page", "gone"} /\ (c.owner = "page" => c.table = page[c.tab])
  BY <1>0, <1>2 DEF Sound, Call
<1>4. Sound(r, sent + 1, page) /\ r.id = sent + 1
  <2>1. NoRow \in Row
    BY DEF Row
  <2>2. QED
    BY <1>0, <1>1, <1>3, <2>1 DEF Request, Sound, NullKept, Call, Rows
<1>5. SoundCalls(calls', sent', page')
  <2>1. SoundCalls(calls \ {c}, sent, page)
    BY <1>0, FewerSound
  <2>2. QED
    BY <1>0, <1>2, <1>4, <2>1, SendSound
<1>6. Types'
  <2>1. changedAt' \in [Tab -> Nat]
    <3>1. changedAt' = changedAt \/ changedAt' = [changedAt EXCEPT ![c.tab] = Max({@, c.at})]
      BY <1>2
    <3>2. Max({changedAt[c.tab], c.at}) \in Nat
      BY <1>0, MaxOfTwo DEF IInv, Types
    <3>3. QED
      BY <3>1, <3>2 DEF IInv, Types
  <2>2. QED
    BY <1>0, <1>2, <2>1 DEF IInv, Types, db, counts
<1>7. PageSound' /\ ItemsHaveCategory'
  BY <1>2 DEF IInv, PageSound, ItemsHaveCategory, db, counts
<1>8. QED
  BY <1>5, <1>6, <1>7 DEF IInv

LEMMA ErrorInv ==
    ASSUME IInv, NEW c \in calls, Error(c)
    PROVE  IInv'
<1>0. SoundCalls(calls, sent, page) /\ c.tab \in Tab
  BY CallFacts
<1>1. /\ calls' = calls \ {c}
      /\ alerted' = IF c.do = "delete" \/ c.owner = "gone" THEN alerted
                    ELSE [alerted EXCEPT ![c.tab] = TRUE]
      /\ UNCHANGED <<db, sent, counts, page, shown, options, choices, shownAt, changedAt>>
  BY DEF Error
<1>2. Types'
  BY <1>1 DEF IInv, Types, db, counts
<1>3. SoundCalls(calls', sent', page')
  BY <1>0, <1>1, FewerSound
<1>4. PageSound' /\ ItemsHaveCategory'
  BY <1>1 DEF IInv, PageSound, ItemsHaveCategory, db, counts
<1>5. QED
  BY <1>2, <1>3, <1>4 DEF IInv

-----------------------------------------------------------------------------
(* A start of the container loses the requests that are under way.           *)
LEMMA EntrypointInv ==
    ASSUME IInv, Entrypoint
    PROVE  IInv'
<1> DEFINE Lost(c) == [c EXCEPT !.phase = "lost"]
<1>1. /\ starts < MaxStarts /\ starts' = starts + 1 /\ categories' = {} /\ items' = {}
      /\ version' = version + 1 /\ calls' = {Lost(c) : c \in calls}
      /\ UNCHANGED <<sent, clicks, others, tabs>>
  BY DEF Entrypoint
<1>2. Types'
  BY <1>1, BoundsAssumption DEF IInv, Types, tabs
<1>3. ASSUME NEW c \in calls
      PROVE  /\ Sound(Lost(c), sent, page) /\ Lost(c).id = c.id /\ Lost(c).at = c.at
             /\ Lost(c).tab = c.tab /\ Lost(c).owner = c.owner /\ Lost(c).do = c.do
             /\ Lost(c).phase = "lost"
  <2>1. c \in Call /\ Sound(c, sent, page)
    BY CallFacts
  <2>2. /\ Lost(c) \in Call /\ Lost(c).id = c.id /\ Lost(c).at = c.at
        /\ Lost(c).tab = c.tab /\ Lost(c).owner = c.owner /\ Lost(c).do = c.do
        /\ Lost(c).phase = "lost" /\ Lost(c).table = c.table /\ Lost(c).new = c.new /\ Lost(c).old = c.old
        /\ Lost(c).data = c.data
    BY <2>1 DEF Call
  <2> HIDE DEF Lost
  <2>3. Sound(Lost(c), sent, page)
    BY <2>1, <2>2 DEF Sound, NullKept
  <2>4. QED
    BY <2>2, <2>3
<1> HIDE DEF Lost
<1>4. SoundCalls(calls', sent', page')
  <2>1. \A d \in calls' : Sound(d, sent, page)
    BY <1>1, <1>3
  <2>2. ASSUME NEW d \in calls', NEW e \in calls', d.id = e.id PROVE d = e
    <3>1. PICK c1 \in calls : d = Lost(c1)
      BY <1>1
    <3>2. PICK c2 \in calls : e = Lost(c2)
      BY <1>1
    <3>3. c1.id = c2.id
      BY <1>3, <2>2, <3>1, <3>2
    <3>4. QED
      BY <3>1, <3>2, <3>3 DEF IInv, SoundCalls
  <2>3. QED
    BY <1>1, <2>1, <2>2 DEF SoundCalls, tabs
<1>5. PageSound' /\ ItemsHaveCategory'
  BY <1>1 DEF IInv, PageSound, ItemsHaveCategory, tabs
<1>6. QED
  BY <1>2, <1>4, <1>5 DEF IInv

(* Every step keeps the invariant.                                           *)
LEMMA NextInv == IInv /\ [Next]_vars => IInv'
<1> SUFFICES ASSUME IInv, [Next]_vars PROVE IInv'
  OBVIOUS
<1>1. ASSUME NEW t \in Tab, Load(t) PROVE IInv'
  BY <1>1, LoadInv
<1>2. ASSUME NEW t \in Tab, NEW table \in Table, Navigate(t, table) PROVE IInv'
  BY <1>2, NavigateInv
<1>3. ASSUME NEW t \in Tab,
             \/ \E new \in Filled(t, {Unselected}) : Create(t, new)
             \/ \E old \in shown[t] :
                   \/ \E new \in Filled(t, Kept(t, old)) : OnSubmit(t, old, new)
                   \/ Delete(t, old)
      PROVE  IInv'
  BY <1>3, ClickInv
<1>4. CASE Serve
  BY <1>4, SelectInv, ChangeInv, RejectInv, GotInv, ChangedInv, ErrorInv DEF Serve
<1>5. ASSUME NEW do \in {"create", "modify", "delete"},
             \/ \E old, new \in Category : ChangeByOther("categories", do, old, new)
             \/ \E old, new \in Item :
                 /\ do = "create" => new.category # Null
                 /\ ChangeByOther("items", do, old, new)
      PROVE  IInv'
  BY <1>5, ChangeByOtherInv
<1>6. CASE Entrypoint
  BY <1>6, EntrypointInv
<1>7. CASE UNCHANGED vars
  <2>1. Types' /\ SoundCalls(calls', sent', page') /\ PageSound'
        /\ ItemsHaveCategory'
    BY <1>7 DEF vars, db, counts, tabs, IInv, Types, PageSound, ItemsHaveCategory
  <2>2. QED
    BY <2>1 DEF IInv
<1>8. QED
  BY <1>1, <1>2, <1>3, <1>4, <1>5, <1>6, <1>7 DEF Next

-----------------------------------------------------------------------------
(***************************************************************************)
(* The inductive invariant holds in every reachable state of tables, pages *)
(* and requests.                                                           *)
(***************************************************************************)
THEOREM Inductive == Spec => []IInv
BY InitInv, NextInv, PTL DEF Spec

(***************************************************************************)
(* Tables, requests and pages have their types, and no two requests under  *)
(* way have the same number.                                               *)
(***************************************************************************)
THEOREM TypeCorrect == Spec => []TypeOK
<1>1. IInv => TypeOK
  <2>1. IInv => calls \in SUBSET Call /\ \A c, d \in calls : c.id = d.id => c = d
    BY DEF IInv, SoundCalls, Sound
  <2>2. QED
    BY <2>1 DEF IInv, Types, TypeOK
<1>2. QED
  BY <1>1, Inductive, PTL

(***************************************************************************)
(* No order of queries, stale forms, other administrators and starts of    *)
(* the container leaves a skill or position in a category that is gone, or *)
(* without one unless another client of the API left it out.               *)
(***************************************************************************)
THEOREM CategoriesExist == Spec => []ItemsHaveCategory
<1>1. IInv => ItemsHaveCategory
  BY DEF IInv
<1>2. QED
  BY <1>1, Inductive, PTL
===============================================================================
