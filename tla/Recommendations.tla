--------------------------- MODULE Recommendations ---------------------------
(***************************************************************************)
(* Votes between users: PUT and DELETE /recommendations                    *)
(* (RecommendationsHandler, RecommendationsManager).  A vote is kept twice *)
(* in the store: the list of voters under "recommendation_<id>" and the    *)
(* field tot_recommendations of the voted user's record, by which searches *)
(* rank users.  The list is put first and the record second, so a crash or *)
(* an ignored put error in between makes the two drift apart.              *)
(***************************************************************************)
EXTENDS Users, Integers

CONSTANT
    MaxFaults           \* bound: lost puts and crashes in a behaviour

ASSUME MaxFaultsAssumption == MaxFaults \in Nat

VARIABLES
    votes,              \* votes[to][from]: how often from is in the list of to
    total,              \* total[u]: tot_recommendations in the record of u
    owedTotal,          \* the counter write the running request still owes
    drift,              \* history: what lost writes did to total[u]
    faults              \* history: number of lost puts and crashes

votesVars == <<account, votes, total, owedTotal, drift, faults>>

(***************************************************************************)
(* The order of a list is never looked at, so it is a bag of voters: the   *)
(* number of times each user occurs in it.                                 *)
(***************************************************************************)
CounterWrite == [to : User, delta : {-1, 1}]

VotesTypeOK ==
    /\ account \in Accounts
    /\ votes \in [User -> [User -> Nat]]
    /\ total \in [User -> Int]
    /\ owedTotal \in SUBSET CounterWrite
    /\ drift \in [User -> Int]
    /\ faults \in 0 .. MaxFaults

VotesInit ==
    /\ account = NoAccounts
    /\ votes = [u \in User |-> [v \in User |-> 0]]
    /\ total = [u \in User |-> 0]
    /\ owedTotal = {}
    /\ drift = [u \in User |-> 0]
    /\ faults = 0

-----------------------------------------------------------------------------
NeverExists(from, to) == FALSE

recommendationAlreadyExists(from, to) == votes[to][from] > 0

PutVotesOwesTwo(from, to, count, delta, stored) ==
    /\ votes' = [votes EXCEPT ![to][from] = count]
    /\ drift' = drift
    /\ faults' = faults
    /\ owedTotal' = {[to |-> to, delta |-> 2 * delta]}

(***************************************************************************)
(* The put of the list of to.  When it is lost the code goes on and still  *)
(* changes the counter.                                                    *)
(***************************************************************************)
PutVotes(from, to, count, delta, stored) ==
    /\ votes' = IF stored THEN [votes EXCEPT ![to][from] = count] ELSE votes
    /\ drift' = IF stored THEN drift ELSE [drift EXCEPT ![to] = @ + delta]
    /\ stored \/ faults < MaxFaults
    /\ faults' = IF stored THEN faults ELSE faults + 1
    /\ owedTotal' = {[to |-> to, delta |-> delta]}

(***************************************************************************)
(* PUT /recommendations: a voter that is already in the list changes       *)
(* nothing, and the reply is 200 all the same.                             *)
(***************************************************************************)
AddRecommendation(from, to, stored) ==
    /\ owedTotal = {}
    /\ ValidUsers(from, to)
    /\ ~recommendationAlreadyExists(from, to)
    /\ PutVotes(from, to, votes[to][from] + 1, 1, stored)
    /\ UNCHANGED <<account, total>>

(***************************************************************************)
(* DELETE /recommendations: every occurrence of the voter is dropped, but  *)
(* the counter goes down by one.                                           *)
(***************************************************************************)
RemoveRecommendation(from, to, stored) ==
    /\ owedTotal = {}
    /\ ValidUsers(from, to)
    /\ recommendationAlreadyExists(from, to)
    /\ PutVotes(from, to, 0, -1, stored)
    /\ UNCHANGED <<account, total>>

(***************************************************************************)
(* The requests that change nothing: refused ones (404, 400, 403), a vote  *)
(* that is already there and the removal of one that is not.               *)
(***************************************************************************)
RequestWithoutEffect(from, to, removes) ==
    /\ owedTotal = {}
    /\ ValidUsers(from, to) => (removes # recommendationAlreadyExists(from, to))
    /\ UNCHANGED votesVars

(***************************************************************************)
(* updateTotalRecommendation: the record of the voted user is read and put *)
(* back with the counter changed, the last write of the request.           *)
(***************************************************************************)
UpdateTotalRecommendation(stored) ==
    \E w \in owedTotal :
        /\ total' = IF stored THEN [total EXCEPT ![w.to] = @ + w.delta] ELSE total
        /\ drift' = IF stored THEN drift ELSE [drift EXCEPT ![w.to] = @ - w.delta]
        /\ stored \/ faults < MaxFaults
        /\ faults' = IF stored THEN faults ELSE faults + 1
        /\ owedTotal' = {}
        /\ UNCHANGED <<account, votes>>

(***************************************************************************)
(* The process dies between the list's put and the record's put.           *)
(***************************************************************************)
CrashBeforeTotal ==
    \E w \in owedTotal :
        /\ faults < MaxFaults
        /\ faults' = faults + 1
        /\ drift' = [drift EXCEPT ![w.to] = @ - w.delta]
        /\ owedTotal' = {}
        /\ UNCHANGED <<account, votes, total>>

(***************************************************************************)
(* POST /users: the counter starts at 0 whatever the body says.            *)
(***************************************************************************)
SavePersonTotal(u) ==
    /\ owedTotal = {}
    /\ Register(u)
    /\ total' = [total EXCEPT ![u] = 0]
    /\ UNCHANGED <<votes, owedTotal, drift, faults>>

(***************************************************************************)
(* PUT /users/<id> puts the whole record again; sent is the counter the    *)
(* body carries, old the stored one: updateUser keeps the stored one.      *)
(***************************************************************************)
BodyTotals == {0, 7}        \* counters a body may carry

TotalFromBody(old, sent) == sent

KeptTotal(old, sent) == old

UpdateUser(u, sent) ==
    /\ owedTotal = {}
    /\ userExists(u)
    /\ total' = [total EXCEPT ![u] = KeptTotal(@, sent)]
    /\ UNCHANGED <<account, votes, owedTotal, drift, faults>>

(***************************************************************************)
(* DELETE /users/<id> removes the record; the votes the user received and  *)
(* the votes she gave stay in their lists.                                 *)
(***************************************************************************)
DeletePersonRecord(u) ==
    /\ owedTotal = {}
    /\ Unregister(u)
    /\ UNCHANGED <<votes, total, owedTotal, drift, faults>>

VotesNext ==
    \/ \E from, to \in User, stored \in BOOLEAN :
          \/ AddRecommendation(from, to, stored)
          \/ RemoveRecommendation(from, to, stored)
    \/ \E from, to \in User, removes \in BOOLEAN :
          RequestWithoutEffect(from, to, removes)
    \/ \E stored \in BOOLEAN : UpdateTotalRecommendation(stored)
    \/ CrashBeforeTotal
    \/ \E u \in User : SavePersonTotal(u) \/ DeletePersonRecord(u)
    \/ \E u \in User, sent \in BodyTotals : UpdateUser(u, sent)

VotesSpec == VotesInit /\ [][VotesNext]_votesVars

-----------------------------------------------------------------------------
Voters(to) == {from \in User : votes[to][from] > 0}

Owed(to) == IF [to |-> to, delta |-> 1] \in owedTotal THEN 1
            ELSE IF [to |-> to, delta |-> -1] \in owedTotal THEN -1 ELSE 0

(***************************************************************************)
(* OneVoteEach: docs/user_story.txt:25, a user votes another one once:     *)
(* repeated requests, retries after a crash and lost puts never store a    *)
(* second vote, and nobody votes for herself.                              *)
(***************************************************************************)
OneVoteEach ==
    \A to, from \in User : votes[to][from] <= (IF to = from THEN 0 ELSE 1)

(***************************************************************************)
(* TotalCounts: the counter searches rank by is the number of voters in    *)
(* the list, except for what lost writes did to it; profile updates and    *)
(* deleted voters never change it.  The drift is never repaired: no        *)
(* operation recomputes the counter from the list.                         *)
(***************************************************************************)
TotalCounts ==
    \A to \in User :
        total[to] + Owed(to) = Cardinality(Voters(to)) + drift[to]
=============================================================================
