------------------------------ MODULE MCNetwork ------------------------------
(***************************************************************************)
(* Model checking of the network between users: Contacts, Recommendations  *)
(* and Messages.  The three share the accounts and nothing else: none      *)
(* reads or writes a key of another, so each behaviour follows the         *)
(* requests of one of them.  Three users are two pairs that share a user,  *)
(* a user with two voters, or a conversation and a bystander; two faults   *)
(* let a lost addition and a lost removal meet.                            *)
(***************************************************************************)
EXTENDS Contacts, Recommendations, Messages, TLC

VARIABLE side           \* the part of the network this behaviour is about

OfContacts == <<relations, pending, torn, reply>>
OfVotes == <<votes, total, owedTotal, drift, faults>>
OfMessages == <<conv, sent, up, acked, shown, unmarked, readers>>

NetworkInit ==
    /\ Init /\ VotesInit /\ MessagesInit
    /\ side \in {"contacts", "votes", "messages"}

NetworkNext ==
    \/ /\ side = "contacts" /\ Next
       /\ UNCHANGED <<side, OfVotes, OfMessages>>
    \/ /\ side = "votes" /\ VotesNext
       /\ UNCHANGED <<side, OfContacts, OfMessages>>
    \/ /\ side = "messages" /\ MessagesNext
       /\ UNCHANGED <<side, OfContacts, OfVotes>>

NetworkSpec ==
    NetworkInit /\ [][NetworkNext]_<<account, OfContacts, OfVotes, OfMessages, side>>

Symmetry == Permutations(User)
=============================================================================
