-------------------------------- MODULE Users --------------------------------
(***************************************************************************)
(* The accounts as the network between users sees them (Contacts,          *)
(* Recommendations, Messages).  Ids are never reused.                      *)
(***************************************************************************)
EXTENDS FiniteSets

CONSTANT
    User                \* the ids generateID may hand out

ASSUME UserAssumption == IsFiniteSet(User)

VARIABLE
    account             \* account[u]: "free", "live" or "deleted"

Accounts == [User -> {"free", "live", "deleted"}]

NoAccounts == [u \in User |-> "free"]

userExists(u) == account[u] = "live"

(***************************************************************************)
(* validateUsersOfRequest: both users exist and differ.                    *)
(***************************************************************************)
ValidUsers(from, to) == userExists(from) /\ userExists(to) /\ from # to

(***************************************************************************)
(* POST /users and DELETE /users/<id>.                                     *)
(***************************************************************************)
Register(u) ==
    /\ account[u] = "free"
    /\ account' = [account EXCEPT ![u] = "live"]

Unregister(u) ==
    /\ account[u] = "live"
    /\ account' = [account EXCEPT ![u] = "deleted"]
=============================================================================
