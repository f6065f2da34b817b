------------------------------ MODULE Contacts ------------------------------
(***************************************************************************)
(* The contact network of the ApplicationServer: PUT and GET /contacts     *)
(* (ContactsHandler), PersonManager's checks and RelationsManager, which   *)
(* stores one list per user under "contact_<id>".                          *)
(*                                                                         *)
(* The server handles one request at a time, but a request writes the      *)
(* author's list and the contact's list with two separate LevelDB puts:    *)
(* a crash between them, or a put whose ResponseCode is ignored, leaves    *)
(* the two lists disagreeing.                                              *)
(***************************************************************************)
EXTENDS Users

CONSTANT
    PutOutcomes         \* {TRUE}: every put succeeds; BOOLEAN: a put may fail

ASSUME PutOutcomesAssumption == PutOutcomes \subseteq BOOLEAN

VARIABLES
    relations,          \* relations[u][v]: status of v in the list of u
    pending,            \* the writes the running request still has to do
    torn,               \* history: pairs whose last request lost a write
    reply               \* the last reply sent

vars == <<account, relations, pending, torn, reply>>

(***************************************************************************)
(* A list never holds a contact twice (addOrUpdateRelation updates the     *)
(* entry that is there), so a list is a function; "none" is an absent one. *)
(***************************************************************************)
Status == {"requested", "received", "active"}
Actions == {"add_contact", "accept_contact", "remove_contact"}
Errors == {"bad_request", "forbidden", "not_found", "server_error"}
Replies == {"none", "ok"} \cup Errors

(***************************************************************************)
(* The second put of a request: status of contact in the list of key.      *)
(***************************************************************************)
Write == [key : User, contact : User, status : Status \cup {"none"},
          action : Actions]

TypeOK ==
    /\ account \in Accounts
    /\ relations \in [User -> [User -> Status \cup {"none"}]]
    /\ pending \in SUBSET Write
    /\ torn \in SUBSET SUBSET User
    /\ reply \in Replies

Init ==
    /\ account = NoAccounts
    /\ relations = [u \in User |-> [v \in User |-> "none"]]
    /\ pending = {}
    /\ torn = {}
    /\ reply = "none"

-----------------------------------------------------------------------------
(***************************************************************************)
(* saveRelation: the status each side gets, the author's list first.       *)
(***************************************************************************)
ContactStatusBothRequested(action) ==
    IF action = "remove_contact" THEN "none"
    ELSE IF action = "accept_contact" THEN "active" ELSE "requested"

ContactStatusTombstone(action) ==
    IF action = "remove_contact" THEN "removed"
    ELSE IF action = "accept_contact" THEN "active" ELSE "received"

AuthorStatus(action) ==
    IF action = "add_contact" THEN "requested"
    ELSE IF action = "accept_contact" THEN "active" ELSE "none"

ContactStatus(action) ==
    IF action = "add_contact" THEN "received"
    ELSE IF action = "accept_contact" THEN "active" ELSE "none"

(***************************************************************************)
(* addOrUpdateRelation and removeRelation: the list is read, changed and   *)
(* put back.  stored is FALSE when the put fails, which the code ignores.  *)
(***************************************************************************)
PutListForgetsOthers(key, contact, status, stored) ==
    relations' = IF stored
                 THEN [relations EXCEPT ![key] =
                        [v \in User |-> IF v = contact THEN status ELSE "none"]]
                 ELSE relations

PutList(key, contact, status, stored) ==
    relations' = IF stored THEN [relations EXCEPT ![key][contact] = status]
                 ELSE relations

(***************************************************************************)
(* PUT /contacts up to its first put.  Every earlier return leaves the     *)
(* lists alone (PutContactRefused).                                        *)
(***************************************************************************)
PutContact(author, contact, action, stored) ==
    /\ pending = {}
    /\ userExists(author) /\ userExists(contact)
    /\ author # contact
    /\ PutList(author, contact, AuthorStatus(action), stored)
    /\ pending' = {[key |-> contact, contact |-> author,
                    status |-> ContactStatus(action), action |-> action]}
    /\ torn' = IF stored THEN torn \ {{author, contact}}
               ELSE torn \cup {{author, contact}}
    /\ reply' = "none"
    /\ UNCHANGED account

(***************************************************************************)
(* The second put, the notification of an added contact and the reply.     *)
(* sendNotification throws when curl cannot be started: WebHandler then    *)
(* replies 500 although both lists are written.                            *)
(***************************************************************************)
FinishPutContact(stored) ==
    \E w \in pending :
        /\ PutList(w.key, w.contact, w.status, stored)
        /\ pending' = {}
        /\ torn' = IF stored THEN torn ELSE torn \cup {{w.key, w.contact}}
        /\ reply' \in IF w.action = "add_contact" THEN {"ok", "server_error"}
                      ELSE {"ok"}
        /\ UNCHANGED account

(***************************************************************************)
(* The early returns of PUT /contacts, in the order of the code: a missing *)
(* member, a session that is not the author's, a user that does not exist, *)
(* and last an author who is the contact or an unknown action.             *)
(***************************************************************************)
PutContactRefused(session, author, contact) ==
    /\ pending = {}
    /\ \/ reply' = "bad_request"
       \/ session # author /\ reply' = "forbidden"
       \/ /\ session = author
          /\ ~userExists(author) \/ ~userExists(contact)
          /\ reply' = "not_found"
    /\ UNCHANGED <<account, relations, pending, torn>>

(***************************************************************************)
(* GET /users/<id>/contacts: the handler reads the record of every contact *)
(* and gives up with 404 at the first one that no longer exists.           *)
(***************************************************************************)
ContactsReadable(u) ==
    /\ userExists(u)
    /\ \A v \in User : relations[u][v] # "none" => userExists(v)

GetContacts(u) ==
    /\ pending = {}
    /\ reply' = IF ContactsReadable(u) THEN "ok" ELSE "not_found"
    /\ UNCHANGED <<account, relations, pending, torn>>

(***************************************************************************)
(* POST /users and DELETE /users/<id> as far as contacts see them:         *)
(* deletePerson leaves every contact list untouched.                       *)
(***************************************************************************)
SavePerson(u) ==
    /\ pending = {}
    /\ Register(u)
    /\ reply' = "none"
    /\ UNCHANGED <<relations, pending, torn>>

DeletePerson(u) ==
    /\ pending = {}
    /\ Unregister(u)
    /\ reply' = "none"
    /\ UNCHANGED <<relations, pending, torn>>

(***************************************************************************)
(* The process dies between the two puts; LevelDB keeps the first one.     *)
(***************************************************************************)
Crash ==
    \E w \in pending :
        /\ pending' = {}
        /\ torn' = torn \cup {{w.key, w.contact}}
        /\ reply' = "none"
        /\ UNCHANGED <<account, relations>>

Next ==
    \/ \E author, contact \in User, action \in Actions, stored \in PutOutcomes :
          PutContact(author, contact, action, stored)
    \/ \E stored \in PutOutcomes : FinishPutContact(stored)
    \/ \E session, author, contact \in User :
          PutContactRefused(session, author, contact)
    \/ \E u \in User : GetContacts(u) \/ SavePerson(u) \/ DeletePerson(u)
    \/ Crash

Spec == Init /\ [][Next]_vars

-----------------------------------------------------------------------------
(***************************************************************************)
(* relations as they will be once the running request has finished.        *)
(***************************************************************************)
Settled(a, b) ==
    IF \E w \in pending : w.key = a /\ w.contact = b
    THEN (CHOOSE w \in pending : w.key = a /\ w.contact = b).status
    ELSE relations[a][b]

Matches(s, t) ==
    \/ s = t /\ s \in {"none", "active"}
    \/ s = "requested" /\ t = "received"
    \/ s = "received" /\ t = "requested"

(***************************************************************************)
(* MutualRelations: the two lists that saveRelation writes agree (one has  *)
(* "requested" exactly when the other has "received", and so on) for every *)
(* pair whose last request lost no write; a later request on a torn pair   *)
(* that completes makes the lists agree again.                             *)
(***************************************************************************)
MutualRelations ==
    \A a, b \in User :
        a # b /\ {a, b} \notin torn => Matches(Settled(a, b), Settled(b, a))

(***************************************************************************)
(* NoSelfContact: nobody is in her own contact list, torn or not           *)
(* (saveOrUpdateRelation's check, PersonManager.cpp:637).                  *)
(***************************************************************************)
NoSelfContact == \A a \in User : relations[a][a] = "none"

(***************************************************************************)
(* The entry of a pair in the shared book, read off its two lists.         *)
(***************************************************************************)
EntryOf(p) ==
    IF p \in torn THEN [kind |-> "torn"]
    ELSE IF \E a \in p : \E b \in p \ {a} : Settled(a, b) = "requested"
         THEN [kind |-> "requested",
               author |-> CHOOSE a \in p :
                            \E b \in p \ {a} : Settled(a, b) = "requested"]
    ELSE IF \A a \in p : \A b \in p \ {a} : Settled(a, b) = "active"
         THEN [kind |-> "active"]
    ELSE [kind |-> "none"]

(***************************************************************************)
(* SharedBook: the two lists implement one shared entry per pair: every    *)
(* request replaces the whole entry or tears it, and a step never touches  *)
(* a second pair.  The request takes effect with its first put.            *)
(***************************************************************************)
TheBook ==
    [p \in {{a, b} : a, b \in User} \ {{a} : a \in User} |-> EntryOf(p)]

Book == INSTANCE ContactBook WITH book <- TheBook

SharedBook == Book!Spec

(***************************************************************************)
(* AddOnlyStrangers: what docs/user_story.txt:50 asks of adding a contact: *)
(* the user to add is not already in the network, so an active contact     *)
(* stays active until one of the two removes it.  addOrUpdateRelation      *)
(* overwrites the status without looking at it.                            *)
(***************************************************************************)
AddOnlyStrangers ==
    [][\A a, b \in User :
          relations[a][b] = "active" => relations'[a][b] \in {"active", "none"}]_vars
=============================================================================
