-------------------------------- MODULE Search --------------------------------
(***************************************************************************)
(* GET /search: SearchHandler and search_users_by, over the records and    *)
(* the indexes that ProfileIndexes keeps.  A search changes nothing, so    *)
(* this module has operators and properties and no action of its own.      *)
(*                                                                         *)
(* A query is a record of filters.  The first one that is present, in the  *)
(* order skill, position, mail, name, distance, is answered from an index  *)
(* or by going through all keys; the others are tests on the records it    *)
(* found.  A filter is not tested in the way in which it would be          *)
(* answered, so each one has two meanings.                                 *)
(***************************************************************************)
EXTENDS ProfileIndexes, Integers, SequencesExt

CONSTANTS
    Pattern,            \* what may be searched for in mails and names
    KeyHits,            \* KeyHits[p]: mails whose key user:mail_<mail> matches p
    MailHits,           \* MailHits[p]: mails that match p themselves
    FullNameHits,       \* FullNameHits[p]: whose name, as read from its key, does
    OneNameHits,        \* OneNameHits[p]: whose first or last name alone does
    Place,              \* Place[m]: latitude and longitude
    Votes,              \* Votes[m]: recommendations m has received
    Query               \* the queries to be checked

NoFilter == "none"

(***************************************************************************)
(* A mail is part of its key, and both are in lower case, so a text found  *)
(* in the mail is found in the key.  Nothing is assumed of names: the key  *)
(* has <first>-<last>_<mail>, getCleanName_FromKey cuts it at the first    *)
(* underscore and turns every hyphen into a blank, so a last name with a   *)
(* hyphen matches by itself and not in its key.  The client sends          *)
(* distances that are positive integers (BusquedaRequest.java:92).         *)
(***************************************************************************)
ASSUME HitsAssumption ==
    \A p \in Pattern : MailHits[p] \subseteq KeyHits[p]
ASSUME PlaceAssumption == Place \in [Mail -> Int \X Int]
ASSUME QueryAssumption ==
    /\ NoFilter \notin Pattern
    /\ Query \subseteq [skills : Seq(Word), positions : Seq(Word),
                        mail : Pattern \cup {NoFilter}, name : Pattern \cup {NoFilter},
                        near : (Int \X Int \X (Nat \ {0})) \cup {<<>>}]

-----------------------------------------------------------------------------
HasEverySkill(m, ws) == \A i \in DOMAIN ws : HasSkill(profile[m], Lower[ws[i]])

HasEveryPosition(m, ws) ==
    \A i \in DOMAIN ws : \E k \in DOMAIN profile[m].jobs :
        Lower[profile[m].jobs[k].title] = Lower[ws[i]]

(***************************************************************************)
(* getDistanceFrom: the SQUARE of the distance, in degrees.                *)
(***************************************************************************)
DistanceFrom(m, near) ==
    LET dx == Place[m][1] - near[1]
        dy == Place[m][2] - near[2]
    IN  dx * dx + dy * dy

-----------------------------------------------------------------------------
(***************************************************************************)
(* What each kind of search finds by itself, as a bag: how often each user *)
(* is found.  The two index searches read the list of the first word only  *)
(* and look every mail of it up; the search by name goes through the name  *)
(* keys and looks the mails of those that match up.                        *)
(***************************************************************************)
Once(found) == [m \in Mail |-> IF m \in found THEN 1 ELSE 0]

SkillList(q) == skillIdx[Lower[q.skills[1]]]

PositionList(q) == posIdx[Lower[q.positions[1]]]

SearchBySkillOfFirst(q) == SkillList(q)

SearchBySkill(q) ==
    [m \in Mail |-> IF HasEverySkill(m, q.skills) THEN SkillList(q)[m] ELSE 0]

SearchByJobPosition(q) ==
    [m \in Mail |-> IF HasEveryPosition(m, q.positions) THEN PositionList(q)[m] ELSE 0]

SearchByMail(q) == Once(registered \cap KeyHits[q.mail])

SearchByName(q) == Once(nameKey \cap FullNameHits[q.name])

SearchByDistance(q) ==
    Once({m \in registered : DistanceFrom(m, q.near) <= q.near[3] * q.near[3]})

GetAllUsers == Once(registered)

(***************************************************************************)
(* What each filter asks of a record that another search found.  The limit *)
(* is compared with the square of the distance.                            *)
(***************************************************************************)
MailTest(m, q) == q.mail = NoFilter \/ m \in MailHits[q.mail]

NameTest(m, q) == q.name = NoFilter \/ m \in OneNameHits[q.name]

DistanceTest(m, q) == q.near = <<>> \/ DistanceFrom(m, q.near) <= q.near[3]

(***************************************************************************)
(* search_users_by: the filter that is answered first, what it finds, and  *)
(* what the others ask of that.                                            *)
(***************************************************************************)
First(q) ==
    IF q.skills # <<>> THEN "skill"
    ELSE IF q.positions # <<>> THEN "position"
    ELSE IF q.mail # NoFilter THEN "mail"
    ELSE IF q.name # NoFilter THEN "name"
    ELSE IF q.near # <<>> THEN "distance" ELSE "all"

Found(q) ==
    CASE First(q) = "skill"    -> SearchBySkill(q)
      [] First(q) = "position" -> SearchByJobPosition(q)
      [] First(q) = "mail"     -> SearchByMail(q)
      [] First(q) = "name"     -> SearchByName(q)
      [] First(q) = "distance" -> SearchByDistance(q)
      [] First(q) = "all"      -> GetAllUsers

PassesForgetsDistance(m, q) ==
    /\ HasEveryPosition(m, q.positions)
    /\ First(q) = "mail" \/ MailTest(m, q)
    /\ First(q) = "name" \/ NameTest(m, q)

Passes(m, q) ==
    /\ HasEveryPosition(m, q.positions)
    /\ First(q) = "mail" \/ MailTest(m, q)
    /\ First(q) = "name" \/ NameTest(m, q)
    /\ First(q) = "distance" \/ DistanceTest(m, q)

SearchUsersBy(q) == [m \in Mail |-> IF Passes(m, q) THEN Found(q)[m] ELSE 0]

(***************************************************************************)
(* getUserByMail throws for a mail of a list, or of a name key, that has   *)
(* no record any more: the whole search is then answered with 500.         *)
(***************************************************************************)
LookedUp(q) ==
    CASE First(q) = "skill"    -> SkillList(q)
      [] First(q) = "position" -> PositionList(q)
      [] First(q) = "name"     -> SearchByName(q)
      [] OTHER                 -> NoMails

SearchThrows(q) == \E m \in Mail \ registered : LookedUp(q)[m] > 0

(***************************************************************************)
(* handleGetRequest: the result is sorted by votes, in one of the orders   *)
(* std::sort may leave users with the same votes in; an entry is a user    *)
(* and which of her occurrences it is.  Then page number of it is taken,   *)
(* in pages of size.                                                       *)
(***************************************************************************)
Sorted(found) ==
    SortSeq(SetToSeq(UNION {{m} \X (1 .. found[m]) : m \in Mail}),
            LAMBDA e1, e2 : Votes[e1[1]] > Votes[e2[1]])


ResultPage(found, number, size) ==
    LET start == (number - 1) * size
        end   == IF start + size > Len(found) THEN Len(found) ELSE start + size
    IN  SubSeq(found, start + 1, end)

-----------------------------------------------------------------------------
Answered == {q \in Query : plan = <<>> /\ ~SearchThrows(q)}

Searches(m, q) == SearchUsersBy(q)[m] > 0

(***************************************************************************)
(* What the filter by name asks.  The two ways to match a name differ on   *)
(* full names and on names with a hyphen or an underscore, so it is the    *)
(* one of the search that is made.                                         *)
(***************************************************************************)
NameMatches(m, q) ==
    IF First(q) = "name" THEN m \in FullNameHits[q.name] ELSE NameTest(m, q)

(***************************************************************************)
(* SearchFindsMatches: a search that answers finds a user whose requests   *)
(* lost no write if she passes every filter, and only users whose record   *)
(* has every word asked for ("todos los valores que quieran encontrarse en *)
(* la persona a hallar", SearchHandler.cpp:132): although it reads one     *)
(* list, of the first word, or the name keys, and the lists are put back   *)
(* by the requests of other users.                                         *)
(***************************************************************************)
SearchFindsMatches ==
    \A q \in Answered, m \in Whole :
        LET words == /\ HasEverySkill(m, q.skills) /\ HasEveryPosition(m, q.positions)
                     /\ m \in registered
        IN  /\ words /\ MailTest(m, q) /\ NameMatches(m, q) /\ DistanceTest(m, q)
                  => Searches(m, q)
            /\ Searches(m, q) => words

(***************************************************************************)
(* FiltersNarrow: adding the filter by distance to a search never adds     *)
(* anybody to the result, and what it leaves is also found by a search by  *)
(* distance alone, although one compares with the limit and the other with *)
(* its square (PersonManager.cpp:410 and 551).                             *)
(***************************************************************************)
FiltersNarrow ==
    \A q \in Answered, m \in Whole :
        LET wider == [q EXCEPT !.near = <<>>]
            alone == [skills |-> <<>>, positions |-> <<>>, mail |-> NoFilter,
                      name |-> NoFilter, near |-> q.near]
        IN  q.near # <<>> /\ Searches(m, q) => Searches(m, wider) /\ Searches(m, alone)

(***************************************************************************)
(* What the pages of a result must be: entry k of page number is the one   *)
(* at its place in the result, and every entry of the result is on exactly *)
(* one page.                                                               *)
(***************************************************************************)
PagesPartition(found, size) ==
    /\ \A number \in 1 .. Len(found) + 1 : \A k \in DOMAIN ResultPage(found, number, size) :
          ResultPage(found, number, size)[k] = found[(number - 1) * size + k]
    /\ \A i \in DOMAIN found :
          \E number \in 1 .. Len(found) : \E k \in DOMAIN ResultPage(found, number, size) :
             /\ i = (number - 1) * size + k
             /\ \A other \in 1 .. Len(found) + 1 :
                   \A l \in DOMAIN ResultPage(found, other, size) :
                      i = (other - 1) * size + l => other = number

===============================================================================
