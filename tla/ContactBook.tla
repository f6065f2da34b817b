---------------------------- MODULE ContactBook ----------------------------
(***************************************************************************)
(* What the contact network promises: ONE shared entry per pair of users.  *)
(* The server keeps two lists (contact_<a> and contact_<b>); module        *)
(* Contacts shows that they behave as the single entry book[{a, b}] except *)
(* for the pairs in which a write was lost ("torn").                       *)
(***************************************************************************)
CONSTANT User           \* ids of the users

VARIABLE book           \* book[p]: the entry of the pair p

Pairs == {{a, b} : a, b \in User} \ {{a} : a \in User}

NoRelation == [kind |-> "none"]
Active == [kind |-> "active"]
Torn == [kind |-> "torn"]
Requested(by) == [kind |-> "requested", author |-> by]

Entry == {NoRelation, Active, Torn} \cup {Requested(u) : u \in User}

Init == book = [p \in Pairs |-> NoRelation]

(***************************************************************************)
(* One request of author about contact.  It replaces the entry whatever it *)
(* was, so a repeated request also repairs a torn pair.                    *)
(***************************************************************************)
Outcomes(author) == {Requested(author), Active, NoRelation}

Request(author, contact) ==
    /\ author # contact
    /\ \E entry \in Outcomes(author) :
         book' = [book EXCEPT ![{author, contact}] = entry]

(***************************************************************************)
(* A crash, or a put whose error is ignored, spoils the pair that was      *)
(* being written and no other.                                             *)
(***************************************************************************)
Tear(author, contact) ==
    /\ author # contact
    /\ book' = [book EXCEPT ![{author, contact}] = Torn]

Next == \E author, contact \in User :
            Request(author, contact) \/ Tear(author, contact)

Spec == Init /\ [][Next]_book
=============================================================================
