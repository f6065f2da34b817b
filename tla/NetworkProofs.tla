---------------------------- MODULE NetworkProofs ----------------------------
(***************************************************************************)
(* Proofs about the network between users: Contacts, for any set of users, *)
(* then Recommendations, for any finite set of users and any number of     *)
(* faults.                                                                 *)
(***************************************************************************)
EXTENDS Contacts, Recommendations, FiniteSetTheorems, TLAPS

USE DEF Accounts, NoAccounts, userExists, ValidUsers, Register, Unregister

(***************************************************************************)
(* PendingSound: at most one write is pending, it is the second put of a   *)
(* request between two different users, and unless the pair is torn the    *)
(* first put of that request is in the store.                              *)
(***************************************************************************)
PendingSound ==
    /\ \A w, x \in pending : w = x
    /\ \A w \in pending :
         /\ w.key # w.contact
         /\ w.status = ContactStatus(w.action)
         /\ {w.key, w.contact} \notin torn =>
               relations[w.contact][w.key] = AuthorStatus(w.action)

IInv == TypeOK /\ PendingSound /\ MutualRelations /\ NoSelfContact

(* The two statuses that saveRelation writes match each other.               *)
LEMMA StatusTypes ==
    ASSUME NEW action \in Actions
    PROVE  /\ AuthorStatus(action) \in Status \cup {"none"}
           /\ ContactStatus(action) \in Status \cup {"none"}
           /\ Matches(AuthorStatus(action), ContactStatus(action))
           /\ Matches(ContactStatus(action), AuthorStatus(action))
  BY DEF Actions, AuthorStatus, ContactStatus, Status, Matches

(***************************************************************************)
(* The type invariant of Contacts.                                         *)
(***************************************************************************)
LEMMA InitIInv == Init => IInv
  BY DEF Init, IInv, TypeOK, PendingSound, MutualRelations, NoSelfContact,
         Settled, Matches, Status, Replies, Actions

(* Every request, put and crash keeps the types.                             *)
LEMMA TypeStep == TypeOK /\ [Next]_vars => TypeOK'
  <1> SUFFICES ASSUME TypeOK, [Next]_vars PROVE TypeOK'
    OBVIOUS
  <1> USE DEF TypeOK, Replies, Errors
  <1>1. ASSUME NEW author \in User, NEW contact \in User,
               NEW action \in Actions, NEW stored \in PutOutcomes,
               PutContact(author, contact, action, stored)
        PROVE  TypeOK'
    BY <1>1, StatusTypes DEF PutContact, PutList, Write
  <1>2. ASSUME NEW stored \in PutOutcomes, FinishPutContact(stored)
        PROVE  TypeOK'
    BY <1>2 DEF FinishPutContact, PutList, Write
  <1>3. ASSUME NEW session \in User, NEW author \in User, NEW contact \in User,
               PutContactRefused(session, author, contact)
        PROVE  TypeOK'
    BY <1>3 DEF PutContactRefused
  <1>4. ASSUME NEW u \in User,
               GetContacts(u) \/ SavePerson(u) \/ DeletePerson(u)
        PROVE  TypeOK'
    BY <1>4 DEF GetContacts, SavePerson, DeletePerson
  <1>5. CASE Crash
    BY <1>5 DEF Crash, Write
  <1>6. CASE UNCHANGED vars
    BY <1>6 DEF vars
  <1>7. QED
    BY <1>1, <1>2, <1>3, <1>4, <1>5, <1>6 DEF Next

(* Every reachable state of the contact lists is well typed, for any users.  *)
THEOREM TypeCorrect == Spec => []TypeOK
  <1>1. Init => TypeOK
    BY InitIInv DEF IInv
  <1>2. QED
    BY <1>1, TypeStep, PTL DEF Spec

-----------------------------------------------------------------------------
(***************************************************************************)
(* What Settled reads: the store when nothing is pending, and the pending  *)
(* write on the one entry it is about.                                     *)
(***************************************************************************)
LEMMA SettledIdle ==
    ASSUME pending = {}, NEW a \in User, NEW b \in User
    PROVE  Settled(a, b) = relations[a][b]
  BY DEF Settled

(* What Settled says when one write is pending.                              *)
LEMMA SettledPending ==
    ASSUME NEW w, pending = {w}, NEW a \in User, NEW b \in User
    PROVE  Settled(a, b) = IF w.key = a /\ w.contact = b THEN w.status
                           ELSE relations[a][b]
  BY DEF Settled

(***************************************************************************)
(* The pair's two entries match whichever order they are read in.          *)
(***************************************************************************)
LEMMA MatchesSymmetric ==
    ASSUME NEW s, NEW t, Matches(s, t) PROVE Matches(t, s)
  BY DEF Matches

(***************************************************************************)
(* MutualStep: every action preserves the inductive invariant.             *)
(***************************************************************************)
LEMMA MutualStep == IInv /\ [Next]_vars => IInv'
  <1> SUFFICES ASSUME IInv, [Next]_vars PROVE IInv'
    OBVIOUS
  <1>t. TypeOK /\ TypeOK'
    BY TypeStep DEF IInv
  <1>1. ASSUME NEW author \in User, NEW contact \in User,
               NEW action \in Actions, NEW stored \in PutOutcomes,
               PutContact(author, contact, action, stored)
        PROVE  IInv'
    <2> DEFINE w == [key |-> contact, contact |-> author,
                     status |-> ContactStatus(action), action |-> action]
    <2>1. /\ pending = {} /\ pending' = {w} /\ author # contact
          /\ relations' = IF stored
                          THEN [relations EXCEPT
                                  ![author][contact] = AuthorStatus(action)]
                          ELSE relations
          /\ torn' = IF stored THEN torn \ {{author, contact}}
                     ELSE torn \cup {{author, contact}}
      BY <1>1 DEF PutContact, PutList
    <2>2. PendingSound'
      BY <2>1, <1>t DEF PendingSound, TypeOK
    <2>3. NoSelfContact'
      BY <2>1, <1>t DEF NoSelfContact, IInv, TypeOK
    <2>4. ASSUME NEW a \in User, NEW b \in User, a # b,
                 {a, b} \notin torn', {a, b} # {author, contact}
          PROVE  Matches(Settled(a, b), Settled(b, a))'
      <3>1. /\ {a, b} \notin torn
            /\ ~(a = author /\ b = contact) /\ ~(a = contact /\ b = author)
        BY <2>1, <2>4
      <3>2. relations'[a][b] = relations[a][b] /\ relations'[b][a] = relations[b][a]
        BY <2>1, <3>1, <1>t DEF TypeOK
      <3>3. /\ Settled(a, b)' = relations[a][b]
            /\ Settled(b, a)' = relations[b][a]
        BY <2>1, <3>1, <3>2 DEF Settled
      <3>4. Matches(relations[a][b], relations[b][a])
        BY <2>1, <2>4, <3>1, SettledIdle DEF IInv, MutualRelations
      <3>5. QED
        BY <3>3, <3>4 DEF Matches
    <2>5. ASSUME {author, contact} \notin torn'
          PROVE  /\ Matches(Settled(author, contact), Settled(contact, author))'
                 /\ Matches(Settled(contact, author), Settled(author, contact))'
      <3>1. relations'[author][contact] = AuthorStatus(action)
        BY <2>1, <2>5, <1>t DEF TypeOK
      <3>2. /\ Settled(author, contact)' = AuthorStatus(action)
            /\ Settled(contact, author)' = ContactStatus(action)
        <4>1. w.key = contact /\ w.contact = author
              /\ w.status = ContactStatus(action)
          OBVIOUS
        <4>2. \A x \in pending' : x = w
          BY <2>1
        <4>3. ~\E x \in pending' : x.key = author /\ x.contact = contact
          BY <2>1, <4>1, <4>2
        <4>4. \E x \in pending' : x.key = contact /\ x.contact = author
          BY <2>1, <4>1
        <4>5. (CHOOSE x \in pending' : x.key = contact /\ x.contact = author) = w
          BY <4>2, <4>4
        <4> HIDE DEF w
        <4>6. QED
          BY <3>1, <4>1, <4>3, <4>4, <4>5 DEF Settled
      <3>3. QED
        BY <3>2, StatusTypes DEF Matches
    <2>6. MutualRelations'
      BY <2>4, <2>5 DEF MutualRelations
    <2>7. QED
      BY <1>t, <2>2, <2>3, <2>6 DEF IInv
  <1>2. ASSUME NEW stored \in PutOutcomes, FinishPutContact(stored)
        PROVE  IInv'
    <2>1. PICK w \in pending :
            /\ relations' = IF stored
                            THEN [relations EXCEPT ![w.key][w.contact] = w.status]
                            ELSE relations
            /\ pending' = {}
            /\ torn' = IF stored THEN torn ELSE torn \cup {{w.key, w.contact}}
      BY <1>2 DEF FinishPutContact, PutList
    <2>2. /\ w \in Write /\ w.key \in User /\ w.contact \in User
          /\ w.key # w.contact /\ pending = {w}
      <3>1. w \in Write
        BY <1>t DEF TypeOK
      <3>2. w.key \in User /\ w.contact \in User
        BY <3>1 DEF Write
      <3>3. w.key # w.contact /\ pending = {w}
        BY DEF IInv, PendingSound
      <3>4. QED
        BY <3>1, <3>2, <3>3
    <2>3. PendingSound'
      BY <2>1 DEF PendingSound
    <2>4. NoSelfContact'
      BY <2>1, <2>2, <1>t DEF NoSelfContact, IInv, TypeOK
    <2>5. ASSUME NEW a \in User, NEW b \in User, a # b, {a, b} \notin torn'
          PROVE  Matches(Settled(a, b), Settled(b, a))'
      <3>1. {a, b} \notin torn /\ Matches(Settled(a, b), Settled(b, a))
        BY <2>1, <2>5 DEF IInv, MutualRelations
      <3>2. /\ Settled(a, b)' = relations'[a][b]
            /\ Settled(b, a)' = relations'[b][a]
        BY <2>1 DEF Settled
      <3>3. /\ Settled(a, b) = IF w.key = a /\ w.contact = b THEN w.status
                               ELSE relations[a][b]
            /\ Settled(b, a) = IF w.key = b /\ w.contact = a THEN w.status
                               ELSE relations[b][a]
        BY <2>2, SettledPending
      <3>4. CASE stored
        BY <2>1, <2>2, <3>1, <3>2, <3>3, <3>4, <1>t DEF TypeOK
      <3>5. CASE ~stored
        <4>1. ~(w.key = a /\ w.contact = b) /\ ~(w.key = b /\ w.contact = a)
          BY <2>1, <2>5, <3>5
        <4>2. QED
          BY <2>1, <3>1, <3>2, <3>3, <3>5, <4>1
      <3>6. QED
        BY <3>4, <3>5
    <2>6. QED
      BY <1>t, <2>3, <2>4, <2>5 DEF IInv, MutualRelations
  <1>3. ASSUME UNCHANGED <<relations, pending, torn>>
        PROVE  IInv'
    BY <1>3, <1>t DEF IInv, PendingSound, MutualRelations, NoSelfContact,
                      Settled, Matches
  <1>4. CASE Crash
    <2>1. PICK w \in pending : /\ pending' = {}
                               /\ torn' = torn \cup {{w.key, w.contact}}
                               /\ relations' = relations
      BY <1>4 DEF Crash
    <2>2. pending = {w}
      BY DEF IInv, PendingSound
    <2>3. PendingSound' /\ NoSelfContact'
      BY <2>1 DEF PendingSound, NoSelfContact, IInv
    <2>4. ASSUME NEW a \in User, NEW b \in User, a # b, {a, b} \notin torn'
          PROVE  Matches(Settled(a, b), Settled(b, a))'
      <3>1. /\ {a, b} \notin torn
            /\ ~(w.key = a /\ w.contact = b) /\ ~(w.key = b /\ w.contact = a)
        BY <2>1, <2>4
      <3>2. /\ Settled(a, b)' = relations[a][b]
            /\ Settled(b, a)' = relations[b][a]
        BY <2>1 DEF Settled
      <3>3. /\ Settled(a, b) = relations[a][b]
            /\ Settled(b, a) = relations[b][a]
        BY <2>2, <3>1, SettledPending
      <3>4. QED
        BY <2>4, <3>1, <3>2, <3>3 DEF IInv, MutualRelations
    <2>5. QED
      BY <1>t, <2>3, <2>4 DEF IInv, MutualRelations
  <1>5. QED
    BY <1>1, <1>2, <1>3, <1>4
       DEF Next, PutContactRefused, GetContacts, SavePerson, DeletePerson, vars

(***************************************************************************)
(* The two lists of every pair agree unless the last request on the pair   *)
(* lost a write, for any number of users and any interleaving of requests, *)
(* account changes, failed puts and crashes.                               *)
(***************************************************************************)
THEOREM ListsAgree == Spec => []MutualRelations
  <1>1. IInv => MutualRelations
    BY DEF IInv
  <1>2. QED
    BY InitIInv, MutualStep, <1>1, PTL DEF Spec

(***************************************************************************)
(* Nobody becomes a contact of herself, torn pair or not.                  *)
(***************************************************************************)
THEOREM NeverOwnContact == Spec => []NoSelfContact
  <1>1. IInv => NoSelfContact
    BY DEF IInv
  <1>2. QED
    BY InitIInv, MutualStep, <1>1, PTL DEF Spec

-----------------------------------------------------------------------------
(***************************************************************************)
(* The refinement.  The entry that ContactBook keeps for a pair can be     *)
(* read off one list of the pair and the torn flag, since the other list   *)
(* matches: EntryAs.  A step changes the entry of at most one pair.        *)
(***************************************************************************)
EntryAs(a, b, lost, status) ==
    IF lost THEN [kind |-> "torn"]
    ELSE IF status = "requested" THEN [kind |-> "requested", author |-> a]
    ELSE IF status = "received" THEN [kind |-> "requested", author |-> b]
    ELSE IF status = "active" THEN [kind |-> "active"]
    ELSE [kind |-> "none"]

EntriesRead ==
    \A a, b \in User :
        a # b => EntryOf({a, b}) = EntryAs(a, b, {a, b} \in torn, Settled(a, b))

(* The pair's two lists say the same, so one of them tells the entry.        *)
LEMMA ReadOneList == MutualRelations => EntriesRead
  <1> SUFFICES ASSUME MutualRelations, NEW a \in User, NEW b \in User, a # b
               PROVE  EntryOf({a, b}) = EntryAs(a, b, {a, b} \in torn, Settled(a, b))
    BY DEF EntriesRead
  <1> DEFINE asks(x) == \E y \in {a, b} \ {x} : Settled(x, y) = "requested"
  <1>1. /\ asks(a) <=> Settled(a, b) = "requested"
        /\ asks(b) <=> Settled(b, a) = "requested"
    OBVIOUS
  <1>2. (\A x \in {a, b} : \A y \in {a, b} \ {x} : Settled(x, y) = "active")
        <=> Settled(a, b) = "active" /\ Settled(b, a) = "active"
    OBVIOUS
  <1>3. CASE {a, b} \in torn
    BY <1>3 DEF EntryOf, EntryAs
  <1>4. CASE {a, b} \notin torn
    <2>1. Matches(Settled(a, b), Settled(b, a))
      BY <1>4 DEF MutualRelations
    <2>2. EntryOf({a, b}) =
             IF \E x \in {a, b} : asks(x)
             THEN [kind |-> "requested", author |-> CHOOSE x \in {a, b} : asks(x)]
             ELSE IF Settled(a, b) = "active" /\ Settled(b, a) = "active"
             THEN [kind |-> "active"] ELSE [kind |-> "none"]
      BY <1>4, <1>2 DEF EntryOf
    <2> HIDE DEF asks
    <2>3. CASE Settled(a, b) = "requested"
      <3>1. asks(a) /\ ~asks(b)
        BY <1>1, <2>1, <2>3 DEF Matches
      <3>2. (CHOOSE x \in {a, b} : asks(x)) = a
        BY <3>1
      <3>3. QED
        BY <1>4, <2>2, <2>3, <3>1, <3>2 DEF EntryAs
    <2>4. CASE Settled(a, b) = "received"
      <3>1. ~asks(a) /\ asks(b)
        BY <1>1, <2>1, <2>4 DEF Matches
      <3>2. (CHOOSE x \in {a, b} : asks(x)) = b
        BY <3>1
      <3>3. QED
        BY <1>4, <2>2, <2>4, <3>1, <3>2 DEF EntryAs
    <2>5. CASE Settled(a, b) = Settled(b, a) /\ Settled(a, b) \in {"none", "active"}
      BY <1>1, <1>4, <2>2, <2>5 DEF EntryAs
    <2>6. QED
      BY <2>1, <2>3, <2>4, <2>5 DEF Matches
  <1>5. QED
    BY <1>3, <1>4

(* A step that leaves a pair alone: the same status, torn as it was.         *)
SamePair(a, b) ==
    Settled(a, b)' = Settled(a, b) /\ ({a, b} \in torn' <=> {a, b} \in torn)

OtherPairsSame(x, y) ==
    \A a, b \in User : a # b /\ {a, b} # {x, y} => SamePair(a, b)

(* A pair that a step leaves alone keeps its entry.                          *)
LEMMA EntryKept ==
    ASSUME IInv, IInv', NEW a \in User, NEW b \in User, a # b, SamePair(a, b)
    PROVE  EntryOf({a, b})' = EntryOf({a, b})
  <1>1. EntriesRead
    BY ReadOneList DEF IInv
  <1>2. EntriesRead'
    <2>1. MutualRelations'
      BY DEF IInv
    <2>2. QED
      BY <2>1, ReadOneList, PTL
  <1>3. EntryOf({a, b})' = EntryAs(a, b, {a, b} \in torn', Settled(a, b)')
    BY <1>2 DEF EntriesRead, EntryAs
  <1>4. QED
    BY <1>1, <1>3 DEF EntriesRead, SamePair, EntryAs

(* One pair gets a new entry, the book is updated at that pair.              *)
LEMMA BookUpdated ==
    ASSUME IInv, IInv', NEW x \in User, NEW y \in User, x # y,
           OtherPairsSame(x, y), NEW entry, EntryOf({x, y})' = entry
    PROVE  TheBook' = [TheBook EXCEPT ![{x, y}] = entry]
  <1> DEFINE P == {{a, b} : a, b \in User} \ {{a} : a \in User}
  <1>1. ASSUME NEW p \in P, p # {x, y}
        PROVE  EntryOf(p)' = EntryOf(p)
    <2>1. PICK a \in User, b \in User : p = {a, b}
      OBVIOUS
    <2>2. a # b
      BY <2>1
    <2>3. QED
      BY <1>1, <2>1, <2>2, EntryKept DEF OtherPairsSame
  <1>2. {x, y} \in P
    OBVIOUS
  <1>3. TheBook = [p \in P |-> EntryOf(p)] /\ TheBook' = [p \in P |-> EntryOf(p)']
    BY DEF TheBook
  <1> HIDE DEF P
  <1>4. QED
    BY <1>1, <1>2, <1>3

(* No pair changes, the book does not.                                       *)
LEMMA BookKept ==
    ASSUME IInv, IInv',
           \A a, b \in User : a # b => SamePair(a, b)
    PROVE  TheBook' = TheBook
  <1> DEFINE P == {{a, b} : a, b \in User} \ {{a} : a \in User}
  <1>1. ASSUME NEW p \in P
        PROVE  EntryOf(p)' = EntryOf(p)
    <2>1. PICK a \in User, b \in User : p = {a, b}
      OBVIOUS
    <2>2. a # b
      BY <2>1
    <2>3. QED
      BY <2>1, <2>2, EntryKept
  <1>2. TheBook = [p \in P |-> EntryOf(p)] /\ TheBook' = [p \in P |-> EntryOf(p)']
    BY DEF TheBook
  <1> HIDE DEF P
  <1>3. QED
    BY <1>1, <1>2

(* The first put is where the request takes effect, or tears its pair.       *)
LEMMA FirstPut ==
    ASSUME IInv, IInv', NEW author \in User, NEW contact \in User,
           NEW action \in Actions, NEW stored \in PutOutcomes,
           PutContact(author, contact, action, stored)
    PROVE  Book!Request(author, contact) \/ Book!Tear(author, contact)
  <1>t. TypeOK /\ TypeOK' /\ stored \in BOOLEAN
    BY PutOutcomesAssumption DEF IInv
  <1> DEFINE w == [key |-> contact, contact |-> author,
                   status |-> ContactStatus(action), action |-> action]
  <1>1. /\ pending = {} /\ pending' = {w} /\ author # contact
        /\ relations' = IF stored
                        THEN [relations EXCEPT
                                ![author][contact] = AuthorStatus(action)]
                        ELSE relations
        /\ torn' = IF stored THEN torn \ {{author, contact}}
                   ELSE torn \cup {{author, contact}}
    BY DEF PutContact, PutList
  <1>w. w.key = contact /\ w.contact = author
    OBVIOUS
  <1> HIDE DEF w
  <1>r. \A a, b \in User : ~(a = contact /\ b = author) =>
                              Settled(a, b)' = relations'[a][b]
    BY <1>1, <1>w DEF Settled
  <1>2. OtherPairsSame(author, contact)
    <2> SUFFICES ASSUME NEW a \in User, NEW b \in User, a # b,
                        {a, b} # {author, contact}
                 PROVE  SamePair(a, b)
      BY DEF OtherPairsSame
    <2>1. ~(a = author /\ b = contact) /\ ~(a = contact /\ b = author)
      OBVIOUS
    <2>2. relations'[a][b] = relations[a][b]
      BY <1>1, <1>t, <2>1 DEF TypeOK
    <2>3. Settled(a, b)' = relations'[a][b]
      BY <1>r, <2>1
    <2>4. Settled(a, b) = relations[a][b]
      BY <1>1, SettledIdle
    <2>5. {a, b} \in torn' <=> {a, b} \in torn
      BY <1>1
    <2>6. QED
      BY <2>2, <2>3, <2>4, <2>5 DEF SamePair
  <1>3. EntriesRead'
    <2>1. MutualRelations'
      BY DEF IInv
    <2>2. QED
      BY <2>1, ReadOneList, PTL
  <1>4. CASE stored
    <2>1. Settled(author, contact)' = AuthorStatus(action)
      BY <1>1, <1>r, <1>4, <1>t DEF TypeOK
    <2>2. {author, contact} \notin torn'
      BY <1>1, <1>4
    <2>3. EntryOf({author, contact})'
          = EntryAs(author, contact, FALSE, AuthorStatus(action))
      BY <1>1, <1>3, <2>1, <2>2 DEF EntriesRead, EntryAs
    <2>4. EntryAs(author, contact, FALSE, AuthorStatus(action))
          \in Book!Outcomes(author)
      BY DEF EntryAs, AuthorStatus, Actions, Book!Outcomes, Book!Requested,
             Book!Active, Book!NoRelation
    <2>5. TheBook' = [TheBook EXCEPT ![{author, contact}] =
                        EntryAs(author, contact, FALSE, AuthorStatus(action))]
      BY <1>1, <1>2, <2>3, BookUpdated
    <2>6. QED
      BY <1>1, <2>4, <2>5 DEF Book!Request
  <1>5. CASE ~stored
    <2>1. {author, contact} \in torn'
      BY <1>1, <1>5
    <2>2. EntryOf({author, contact})' = [kind |-> "torn"]
      BY <2>1 DEF EntryOf
    <2>3. TheBook' = [TheBook EXCEPT ![{author, contact}] = [kind |-> "torn"]]
      BY <1>1, <1>2, <2>2, BookUpdated
    <2>4. QED
      BY <1>1, <2>3 DEF Book!Tear, Book!Torn
  <1>6. QED
    BY <1>4, <1>5, <1>t

(* A write that is lost tears its pair, and only that one.                   *)
LEMMA LostWriteTears ==
    ASSUME IInv, IInv', NEW w \in pending, pending' = {}, relations' = relations,
           torn' = torn \cup {{w.key, w.contact}}
    PROVE  w.key \in User /\ w.contact \in User /\ Book!Tear(w.key, w.contact)
  <1>1. w \in Write /\ pending = {w} /\ w.key # w.contact
    BY DEF IInv, TypeOK, PendingSound
  <1>2. PICK x \in User, y \in User : x = w.key /\ y = w.contact
    BY <1>1 DEF Write
  <1>3. OtherPairsSame(x, y)
    <2> SUFFICES ASSUME NEW a \in User, NEW b \in User, a # b, {a, b} # {x, y}
                 PROVE  SamePair(a, b)
      BY DEF OtherPairsSame
    <2>1. Settled(a, b)' = relations[a][b]
      BY DEF Settled
    <2>2. Settled(a, b) = relations[a][b]
      BY <1>1, <1>2, SettledPending
    <2>3. {a, b} \in torn' <=> {a, b} \in torn
      BY <1>2
    <2>4. QED
      BY <2>1, <2>2, <2>3 DEF SamePair
  <1>4. EntryOf({x, y})' = [kind |-> "torn"]
    <2>1. {x, y} \in torn'
      BY <1>2
    <2>2. QED
      BY <2>1 DEF EntryOf
  <1>5. TheBook' = [TheBook EXCEPT ![{x, y}] = [kind |-> "torn"]]
    BY <1>1, <1>2, <1>3, <1>4, BookUpdated
  <1>6. Book!Tear(x, y)
    BY <1>1, <1>2, <1>5 DEF Book!Tear, Book!Torn
  <1>7. QED
    BY <1>2, <1>6

(* The second put completes what the first one promised.                     *)
LEMMA SecondPut ==
    ASSUME IInv, IInv', NEW w \in pending, pending' = {}, torn' = torn,
           relations' = [relations EXCEPT ![w.key][w.contact] = w.status]
    PROVE  TheBook' = TheBook
  <1>1. w \in Write /\ pending = {w} /\ relations \in [User -> [User -> Status \cup {"none"}]]
    BY DEF IInv, TypeOK, PendingSound
  <1>2. PICK x \in User, y \in User : x = w.key /\ y = w.contact
    BY <1>1 DEF Write
  <1>3. ASSUME NEW a \in User, NEW b \in User, a # b
        PROVE  SamePair(a, b)
    <2>1. Settled(a, b)' = relations'[a][b]
      BY DEF Settled
    <2>2. relations'[a][b] = IF x = a /\ y = b THEN w.status ELSE relations[a][b]
      BY <1>1, <1>2
    <2>3. Settled(a, b) = IF x = a /\ y = b THEN w.status ELSE relations[a][b]
      BY <1>1, <1>2, SettledPending
    <2>4. QED
      BY <2>1, <2>2, <2>3 DEF SamePair
  <1>4. QED
    BY <1>3, BookKept

(* Every step of the server is a step of the shared book, or none.           *)
LEMMA BookStep == IInv /\ IInv' /\ [Next]_vars => [Book!Next]_TheBook
  <1> SUFFICES ASSUME IInv, IInv', [Next]_vars
               PROVE  Book!Next \/ TheBook' = TheBook
    OBVIOUS
  <1>1. ASSUME NEW author \in User, NEW contact \in User,
               NEW action \in Actions, NEW stored \in PutOutcomes,
               PutContact(author, contact, action, stored)
        PROVE  Book!Next
    BY <1>1, FirstPut DEF Book!Next
  <1>2. ASSUME NEW stored \in PutOutcomes, FinishPutContact(stored)
        PROVE  Book!Next \/ TheBook' = TheBook
    <2>1. PICK w \in pending :
            /\ relations' = IF stored
                            THEN [relations EXCEPT ![w.key][w.contact] = w.status]
                            ELSE relations
            /\ pending' = {}
            /\ torn' = IF stored THEN torn ELSE torn \cup {{w.key, w.contact}}
      BY <1>2 DEF FinishPutContact, PutList
    <2>2. CASE stored
      BY <2>1, <2>2, SecondPut
    <2>3. CASE ~stored
      BY <2>1, <2>3, LostWriteTears DEF Book!Next
    <2>4. QED
      BY <2>2, <2>3
  <1>3. CASE Crash
    BY <1>3, LostWriteTears DEF Crash, Book!Next
  <1>4. ASSUME UNCHANGED <<relations, pending, torn>>
        PROVE  TheBook' = TheBook
    <2>1. \A a, b \in User : a # b => SamePair(a, b)
      BY <1>4 DEF SamePair, Settled
    <2>2. QED
      BY <2>1, BookKept
  <1>5. QED
    BY <1>1, <1>2, <1>3, <1>4
       DEF Next, PutContactRefused, GetContacts, SavePerson, DeletePerson, vars

(* Before anybody adds a contact every entry of the book is empty.           *)
LEMMA BookInit == Init => Book!Init
  <1> SUFFICES ASSUME Init PROVE Book!Init
    OBVIOUS
  <1> DEFINE P == {{a, b} : a, b \in User} \ {{a} : a \in User}
  <1>1. ASSUME NEW p \in P
        PROVE  EntryOf(p) = [kind |-> "none"]
    <2>1. PICK a \in User, b \in User : p = {a, b}
      OBVIOUS
    <2>2. a # b
      BY <2>1
    <2>3. EntriesRead
      BY InitIInv, ReadOneList DEF IInv
    <2>4. Settled(a, b) = "none" /\ {a, b} \notin torn
      BY SettledIdle DEF Init
    <2>5. EntryOf({a, b}) = EntryAs(a, b, {a, b} \in torn, Settled(a, b))
      BY <2>2, <2>3 DEF EntriesRead
    <2>6. EntryAs(a, b, {a, b} \in torn, Settled(a, b)) = [kind |-> "none"]
      BY <2>4 DEF EntryAs
    <2>7. QED
      BY <2>1, <2>5, <2>6
  <1>2. [p \in P |-> EntryOf(p)] = [p \in P |-> [kind |-> "none"]]
    BY <1>1
  <1>3. QED
    BY <1>2 DEF Book!Init, Book!Pairs, Book!NoRelation, TheBook

(***************************************************************************)
(* The two contact lists implement the shared book of ContactBook: every   *)
(* PUT /contacts replaces the entry of its pair at its first put, or a     *)
(* lost write tears that entry, and no step touches a second pair, for any *)
(* set of users and any failing put or crash.                              *)
(***************************************************************************)
THEOREM ImplementsSharedBook == Spec => SharedBook
  <1>1. Spec => []IInv
    BY InitIInv, MutualStep, PTL DEF Spec
  <1>2. Book!Spec <=> Book!Init /\ [][Book!Next]_TheBook
    BY DEF Book!Spec
  <1>3. QED
    BY <1>1, <1>2, BookInit, BookStep, PTL DEF Spec, SharedBook

-----------------------------------------------------------------------------
(***************************************************************************)
(* Recommendations: a request owes at most one write of a counter.         *)
(***************************************************************************)
OnePending == \A w, x \in owedTotal : w = x

(***************************************************************************)
(* FreshUntouched: the counter of an id that no account has yet is 0, so   *)
(* savePerson's reset does not change it.                                  *)
(***************************************************************************)
FreshUntouched ==
    /\ \A u \in User : account[u] = "free" => total[u] = 0
    /\ \A w \in owedTotal : account[w.to] # "free"

VotesInv == /\ VotesTypeOK /\ OnePending /\ FreshUntouched
        /\ OneVoteEach /\ TotalCounts

(* Every request, put and crash keeps the types.                             *)
LEMMA VotesTypeStep == VotesTypeOK /\ [VotesNext]_votesVars => VotesTypeOK'
  <1> SUFFICES ASSUME VotesTypeOK, [VotesNext]_votesVars PROVE VotesTypeOK'
    OBVIOUS
  <1> USE MaxFaultsAssumption DEF VotesTypeOK
  <1>1. ASSUME NEW from \in User, NEW to \in User, NEW stored \in BOOLEAN,
               AddRecommendation(from, to, stored)
        PROVE  VotesTypeOK'
    BY <1>1 DEF AddRecommendation, PutVotes, CounterWrite
  <1>2. ASSUME NEW from \in User, NEW to \in User, NEW stored \in BOOLEAN,
               RemoveRecommendation(from, to, stored)
        PROVE  VotesTypeOK'
    BY <1>2 DEF RemoveRecommendation, PutVotes, CounterWrite
  <1>3. ASSUME NEW stored \in BOOLEAN, UpdateTotalRecommendation(stored)
        PROVE  VotesTypeOK'
    BY <1>3 DEF UpdateTotalRecommendation, CounterWrite
  <1>4. CASE CrashBeforeTotal
    BY <1>4 DEF CrashBeforeTotal, CounterWrite
  <1>5. ASSUME NEW u \in User, SavePersonTotal(u) \/ DeletePersonRecord(u)
        PROVE  VotesTypeOK'
    BY <1>5 DEF SavePersonTotal, DeletePersonRecord
  <1>6. ASSUME NEW u \in User, NEW sent \in BodyTotals, UpdateUser(u, sent)
        PROVE  VotesTypeOK'
    BY <1>6 DEF UpdateUser, KeptTotal
  <1>7. CASE UNCHANGED votesVars
    BY <1>7 DEF votesVars
  <1>8. QED
    BY <1>1, <1>2, <1>3, <1>4, <1>5, <1>6, <1>7
       DEF VotesNext, RequestWithoutEffect

(***************************************************************************)
(* How one list's set of voters changes with one entry of it.              *)
(***************************************************************************)
LEMMA VotersFinite ==
    ASSUME NEW to \in User
    PROVE  IsFiniteSet(Voters(to)) /\ Cardinality(Voters(to)) \in Nat
  <1>1. Voters(to) \subseteq User
    BY DEF Voters
  <1>2. IsFiniteSet(Voters(to))
    BY <1>1, UserAssumption, FS_Subset
  <1>3. QED
    BY <1>2, FS_CardinalityType

(* The empty store satisfies the invariant.                                  *)
LEMMA VotesInvInit == VotesInit => VotesInv
  <1> SUFFICES ASSUME VotesInit PROVE VotesInv
    OBVIOUS
  <1>1. VotesTypeOK
    BY MaxFaultsAssumption DEF VotesInit, VotesTypeOK
  <1>2. \A to \in User : Voters(to) = {}
    BY DEF VotesInit, Voters
  <1>3. TotalCounts
    BY <1>2, FS_EmptySet DEF VotesInit, TotalCounts, Owed
  <1>4. OneVoteEach /\ OnePending /\ FreshUntouched
    BY DEF VotesInit, OneVoteEach, OnePending, FreshUntouched
  <1>5. QED
    BY <1>1, <1>3, <1>4 DEF VotesInv

(* Every reachable state of voter lists and counters is well typed.          *)
THEOREM VotesTypeCorrect == VotesSpec => []VotesTypeOK
  <1>1. VotesInit => VotesTypeOK
    BY VotesInvInit DEF VotesInv
  <1>2. QED
    BY <1>1, VotesTypeStep, PTL DEF VotesSpec

-----------------------------------------------------------------------------
(***************************************************************************)
(* The common part of adding and removing: one entry of one list goes from *)
(* 0 to 1 (delta 1) or from 1 to 0 (delta -1).                             *)
(***************************************************************************)
LEMMA PutVotesStep ==
    ASSUME VotesInv, owedTotal = {}, UNCHANGED <<account, total>>,
           NEW from \in User, NEW to \in User, from # to, account[to] # "free",
           NEW count \in {0, 1}, NEW delta \in {-1, 1}, NEW stored \in BOOLEAN,
           votes[to][from] = 1 - count, delta = 2 * count - 1,
           PutVotes(from, to, count, delta, stored), VotesTypeOK'
    PROVE  VotesInv'
  <1>1. /\ owedTotal' = {[to |-> to, delta |-> delta]}
        /\ votes' = IF stored THEN [votes EXCEPT ![to][from] = count] ELSE votes
        /\ drift' = IF stored THEN drift ELSE [drift EXCEPT ![to] = @ + delta]
        /\ faults' = IF stored THEN faults ELSE faults + 1
    BY DEF PutVotes
  <1>t. VotesTypeOK
    BY DEF VotesInv
  <1>2. OnePending' /\ FreshUntouched'
    BY <1>1 DEF VotesInv, OnePending, FreshUntouched
  <1>3. OneVoteEach'
    BY <1>1, <1>t DEF VotesInv, OneVoteEach, VotesTypeOK
  <1>4. \A x \in User : Owed(x) = 0
    BY DEF Owed
  <1>5. \A x \in User : Owed(x)' = IF x = to THEN delta ELSE 0
    <2> TAKE x \in User
    <2>1. CASE x # to
      <3>1. [to |-> x, delta |-> 1] # [to |-> to, delta |-> delta]
            /\ [to |-> x, delta |-> -1] # [to |-> to, delta |-> delta]
        BY <2>1
      <3>2. QED
        BY <1>1, <2>1, <3>1 DEF Owed
    <2>2. CASE x = to /\ delta = 1
      BY <1>1, <2>2 DEF Owed
    <2>3. CASE x = to /\ delta = -1
      <3>1. [to |-> x, delta |-> 1] # [to |-> to, delta |-> delta]
        BY <2>3
      <3>2. QED
        BY <1>1, <2>3, <3>1 DEF Owed
    <2>4. QED
      BY <2>1, <2>2, <2>3
  <1>6. ASSUME NEW x \in User, x # to
        PROVE  Voters(x)' = Voters(x) /\ drift'[x] = drift[x]
    BY <1>1, <1>6, <1>t DEF Voters, VotesTypeOK
  <1>7. CASE ~stored
    <2>1. \A x \in User : Voters(x)' = Voters(x)
      BY <1>1, <1>7 DEF Voters
    <2>2. ASSUME NEW x \in User
          PROVE  total'[x] + Owed(x)' = Cardinality(Voters(x)') + drift'[x]
      <3>1. /\ total[x] = Cardinality(Voters(x)) + drift[x]
            /\ Cardinality(Voters(x)) \in Nat /\ total[x] \in Int
            /\ drift[x] \in Int
        BY <1>4, <1>t, VotersFinite DEF VotesInv, TotalCounts, VotesTypeOK
      <3>2. drift'[x] = IF x = to THEN drift[x] + delta ELSE drift[x]
        BY <1>1, <1>7, <1>t DEF VotesTypeOK
      <3>3. Cardinality(Voters(x)') = Cardinality(Voters(x))
        BY <2>1
      <3>4. QED
        BY <1>5, <3>1, <3>2, <3>3
    <2>3. QED
      BY <1>2, <1>3, <2>2 DEF VotesInv, TotalCounts
  <1>8. CASE stored
    <2>1. Cardinality(Voters(to)') = Cardinality(Voters(to)) + delta
      <3>1. CASE count = 1
        <4>1. Voters(to)' = Voters(to) \cup {from} /\ from \notin Voters(to)
          BY <1>1, <1>8, <1>t, <3>1 DEF Voters, VotesTypeOK
        <4>2. Cardinality(Voters(to) \cup {from}) = Cardinality(Voters(to)) + 1
          BY <4>1, VotersFinite, FS_AddElement
        <4>3. QED
          BY <3>1, <4>1, <4>2
      <3>2. CASE count = 0
        <4>1. Voters(to)' = Voters(to) \ {from} /\ from \in Voters(to)
          BY <1>1, <1>8, <1>t, <3>2 DEF Voters, VotesTypeOK
        <4>2. Cardinality(Voters(to) \ {from}) = Cardinality(Voters(to)) - 1
          BY <4>1, VotersFinite, FS_RemoveElement
        <4>3. QED
          BY <3>2, <4>1, <4>2, VotersFinite
      <3>3. QED
        BY <3>1, <3>2
    <2>2. ASSUME NEW x \in User
          PROVE  total'[x] + Owed(x)' = Cardinality(Voters(x)') + drift'[x]
      <3>1. /\ total[x] = Cardinality(Voters(x)) + drift[x]
            /\ Cardinality(Voters(x)) \in Nat /\ total[x] \in Int
            /\ drift[x] \in Int
        BY <1>4, <1>t, VotersFinite DEF VotesInv, TotalCounts, VotesTypeOK
      <3>2. Cardinality(Voters(x)') =
              IF x = to THEN Cardinality(Voters(x)) + delta
              ELSE Cardinality(Voters(x))
        BY <1>6, <2>1
      <3>3. drift'[x] = drift[x] /\ total'[x] = total[x]
        BY <1>1, <1>8
      <3>4. QED
        BY <1>5, <3>1, <3>2, <3>3
    <2>3. QED
      BY <1>2, <1>3, <2>2 DEF VotesInv, TotalCounts
  <1>9. QED
    BY <1>7, <1>8

(***************************************************************************)
(* The end of a request: the counter catches up, or the write is lost and  *)
(* the drift records it.                                                   *)
(***************************************************************************)
LEMMA CounterStep ==
    ASSUME VotesInv, VotesTypeOK', NEW w \in owedTotal, NEW stored \in BOOLEAN,
           UNCHANGED <<account, votes>>, owedTotal' = {},
           total' = IF stored THEN [total EXCEPT ![w.to] = @ + w.delta] ELSE total,
           drift' = IF stored THEN drift ELSE [drift EXCEPT ![w.to] = @ - w.delta],
           faults' = IF stored THEN faults ELSE faults + 1
    PROVE  VotesInv'
  <1>t. VotesTypeOK /\ w \in CounterWrite /\ w.to \in User /\ w.delta \in {-1, 1}
    BY DEF VotesInv, VotesTypeOK, CounterWrite
  <1>1. owedTotal = {w} /\ w = [to |-> w.to, delta |-> w.delta]
    BY <1>t DEF VotesInv, OnePending, CounterWrite
  <1>2. \A x \in User : Owed(x) = IF x = w.to THEN w.delta ELSE 0
    <2> TAKE x \in User
    <2>1. CASE x # w.to
      <3>1. [to |-> x, delta |-> 1] # w /\ [to |-> x, delta |-> -1] # w
        BY <2>1
      <3>2. QED
        BY <1>1, <2>1, <3>1 DEF Owed
    <2>2. CASE x = w.to /\ w.delta = 1
      BY <1>1, <2>2 DEF Owed
    <2>3. CASE x = w.to /\ w.delta = -1
      <3>1. [to |-> x, delta |-> 1] # w
        BY <2>3
      <3>2. QED
        BY <1>1, <2>3, <3>1 DEF Owed
    <2>4. QED
      BY <1>t, <2>1, <2>2, <2>3
  <1>3. \A x \in User : Owed(x)' = 0 /\ Voters(x)' = Voters(x)
    BY DEF Owed, Voters
  <1>4. ASSUME NEW x \in User
        PROVE  total'[x] + Owed(x)' = Cardinality(Voters(x)') + drift'[x]
    <2>1. /\ total[x] + Owed(x) = Cardinality(Voters(x)) + drift[x]
          /\ Cardinality(Voters(x)) \in Nat /\ total[x] \in Int
          /\ drift[x] \in Int
      BY <1>t, VotersFinite DEF VotesInv, TotalCounts, VotesTypeOK
    <2>2. total'[x] = IF stored /\ x = w.to THEN total[x] + w.delta ELSE total[x]
      BY <1>t DEF VotesTypeOK
    <2>3. drift'[x] = IF ~stored /\ x = w.to THEN drift[x] - w.delta ELSE drift[x]
      BY <1>t DEF VotesTypeOK
    <2>4. Owed(x)' = 0 /\ Cardinality(Voters(x)') = Cardinality(Voters(x))
      BY <1>3
    <2>5. QED
      BY <1>2, <1>t, <2>1, <2>2, <2>3, <2>4
  <1>5. OneVoteEach' /\ OnePending'
    BY DEF VotesInv, OneVoteEach, OnePending
  <1>6. FreshUntouched'
    BY <1>t DEF VotesInv, FreshUntouched, VotesTypeOK
  <1>7. QED
    BY <1>4, <1>5, <1>6 DEF VotesInv, TotalCounts

(* Every request, put and crash keeps the invariant.                         *)
LEMMA VotesInvStep == VotesInv /\ [VotesNext]_votesVars => VotesInv'
  <1> SUFFICES ASSUME VotesInv, [VotesNext]_votesVars PROVE VotesInv'
    OBVIOUS
  <1>t. VotesTypeOK /\ VotesTypeOK'
    BY VotesTypeStep DEF VotesInv
  <1>1. ASSUME NEW from \in User, NEW to \in User, NEW stored \in BOOLEAN,
               AddRecommendation(from, to, stored)
        PROVE  VotesInv'
    <2>1. /\ owedTotal = {} /\ UNCHANGED <<account, total>> /\ from # to
          /\ account[to] # "free"
          /\ votes[to][from] = 0
          /\ PutVotes(from, to, 1, 1, stored)
      BY <1>1, <1>t DEF AddRecommendation, ValidUsers,
                        recommendationAlreadyExists, VotesTypeOK
    <2>2. QED
      BY <1>t, <2>1, PutVotesStep
  <1>2. ASSUME NEW from \in User, NEW to \in User, NEW stored \in BOOLEAN,
               RemoveRecommendation(from, to, stored)
        PROVE  VotesInv'
    <2>1. /\ owedTotal = {} /\ UNCHANGED <<account, total>> /\ from # to
          /\ account[to] # "free"
          /\ votes[to][from] = 1
          /\ PutVotes(from, to, 0, -1, stored)
      BY <1>2, <1>t DEF RemoveRecommendation, ValidUsers, VotesInv, OneVoteEach,
                        recommendationAlreadyExists, VotesTypeOK
    <2>2. QED
      BY <1>t, <2>1, PutVotesStep
  <1>3. ASSUME NEW stored \in BOOLEAN, UpdateTotalRecommendation(stored)
        PROVE  VotesInv'
    BY <1>3, <1>t, CounterStep DEF UpdateTotalRecommendation
  <1>4. CASE CrashBeforeTotal
    <2>1. PICK w \in owedTotal :
            /\ faults' = faults + 1 /\ owedTotal' = {}
            /\ drift' = [drift EXCEPT ![w.to] = @ - w.delta]
            /\ UNCHANGED <<account, votes, total>>
      BY <1>4 DEF CrashBeforeTotal
    <2>2. QED
      BY <1>t, <2>1, CounterStep
  <1>5. ASSUME UNCHANGED <<votes, owedTotal, drift, faults>>, total' = total,
               \A u \in User : account'[u] = "free" => account[u] = "free",
               owedTotal = {}
        PROVE  VotesInv'
    BY <1>5, <1>t DEF VotesInv, OnePending, OneVoteEach, TotalCounts,
                      Owed, Voters, FreshUntouched
  <1>6. ASSUME NEW u \in User, SavePersonTotal(u)
        PROVE  VotesInv'
    <2>1. total' = total
      BY <1>6, <1>t DEF SavePersonTotal, VotesInv, FreshUntouched, VotesTypeOK
    <2>2. \A v \in User : account'[v] = "free" => account[v] = "free"
      BY <1>6, <1>t DEF SavePersonTotal, VotesTypeOK
    <2>3. QED
      BY <1>5, <1>6, <2>1, <2>2 DEF SavePersonTotal
  <1>7. ASSUME NEW u \in User, DeletePersonRecord(u)
        PROVE  VotesInv'
    <2>1. \A v \in User : account'[v] = "free" => account[v] = "free"
      BY <1>7, <1>t DEF DeletePersonRecord, VotesTypeOK
    <2>2. QED
      BY <1>5, <1>7, <2>1 DEF DeletePersonRecord
  <1>8. ASSUME NEW u \in User, NEW sent \in BodyTotals, UpdateUser(u, sent)
        PROVE  VotesInv'
    <2>1. total' = total
      BY <1>8, <1>t DEF UpdateUser, KeptTotal, VotesTypeOK
    <2>2. QED
      BY <1>5, <1>8, <2>1 DEF UpdateUser
  <1>9. CASE UNCHANGED votesVars
    BY <1>9 DEF votesVars, VotesInv, VotesTypeOK, OnePending, OneVoteEach, TotalCounts,
                Owed, Voters, FreshUntouched
  <1>10. QED
    BY <1>1, <1>2, <1>3, <1>4, <1>6, <1>7, <1>8, <1>9
       DEF VotesNext, RequestWithoutEffect

(***************************************************************************)
(* The counter equals the number of voters up to what lost writes did.     *)
(***************************************************************************)
THEOREM CounterCounts == VotesSpec => []TotalCounts
  <1>1. VotesInv => TotalCounts
    BY DEF VotesInv
  <1>2. QED
    BY VotesInvInit, VotesInvStep, <1>1, PTL DEF VotesSpec

(***************************************************************************)
(* Nobody votes twice for the same user, nor for herself.                  *)
(***************************************************************************)
THEOREM VotesOnce == VotesSpec => []OneVoteEach
  <1>1. VotesInv => OneVoteEach
    BY DEF VotesInv
  <1>2. QED
    BY VotesInvInit, VotesInvStep, <1>1, PTL DEF VotesSpec
=============================================================================
