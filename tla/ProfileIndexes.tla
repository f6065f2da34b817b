---------------------------- MODULE ProfileIndexes ----------------------------
(***************************************************************************)
(* The search indexes of profiles (PersonManager): user:skill_<word> and   *)
(* user:jobposition_<word> hold the mails of the users that list the word. *)
(* Registering, updating and deleting a user changes them entry by entry,  *)
(* next to the record, the name key and the id key, with one LevelDB write *)
(* each.  A user keeps her name here; Accounts has updates that change it. *)
(*                                                                         *)
(* plan is what the running request still has to do, one element per step  *)
(* of its loops.  The process may die before any of them, and an index     *)
(* entry that is missing makes the handler throw: both drop the rest of    *)
(* the plan.  A write that fails is not noticed and the plan goes on.      *)
(***************************************************************************)
EXTENDS Naturals, Sequences

CONSTANTS
    Mail,
    Word,               \* skill names and position titles
    Lower,              \* Lower[w]: w after ::tolower
    SkillLists,         \* the skill lists a body may carry (Skill lowers names)
    JobLists,           \* the work histories a body may carry
    MaxRequests,        \* bound: requests in a behaviour
    MaxFaults           \* bound: crashes and failed writes in a behaviour

ASSUME LowerAssumption ==
    Lower \in [Word -> Word] /\ \A w \in Word : Lower[Lower[w]] = Lower[w]
ASSUME BodiesAssumption ==
    /\ \A s \in SkillLists : s \in Seq({w \in Word : Lower[w] = w})
    /\ \A j \in JobLists : j \in Seq([title : Word, current : BOOLEAN])

VARIABLES
    profile,            \* profile[m]: skills and jobs in the record of m
    registered,         \* mails with a user:mail_ record
    nameKey,            \* mails with a user:name_ key
    idKey,              \* mails some user:uuid_ key leads to
    skillIdx,           \* skillIdx[w][m]: times m is in user:skill_<w>
    posIdx,             \* posIdx[w][m]: times m is in user:jobposition_<w>
    job,                \* mail, old and new profile of the running request
    plan,               \* what it still has to do
    requests,           \* number of requests so far
    faults,             \* number of crashes and failed writes so far
    torn                \* history: mails of requests that lost a write

vars == <<profile, registered, nameKey, idKey, skillIdx, posIdx,
          job, plan, requests, faults, torn>>

store == <<profile, registered, nameKey, idKey, skillIdx, posIdx>>

(***************************************************************************)
(* The order of a list is never looked at, so a list is a bag of mails.    *)
(* The key of an empty list does not exist.                                *)
(***************************************************************************)
NoMails == [m \in Mail |-> 0]

Profile == [skills : SkillLists \cup {<<>>}, jobs : JobLists \cup {<<>>}]

NoProfile == [skills |-> <<>>, jobs |-> <<>>]

Operation ==
    [do : {"putRecord", "putName", "putId",
           "deleteId", "deleteName", "deleteRecord", "saveCurrent"}]
    \cup [do : {"saveSkill", "dropSkill", "savePosition", "dropPosition"}, word : Word]

TypeOK ==
    /\ profile \in [Mail -> Profile]
    /\ registered \in SUBSET Mail
    /\ nameKey \in SUBSET Mail
    /\ idKey \in SUBSET Mail
    /\ skillIdx \in [Word -> [Mail -> Nat]]
    /\ posIdx \in [Word -> [Mail -> Nat]]
    /\ job \in [mail : Mail, old : Profile, body : Profile]
    /\ plan \in Seq(Operation)
    /\ requests \in Nat /\ faults \in Nat
    /\ torn \in SUBSET Mail

Init ==
    /\ profile = [m \in Mail |-> NoProfile]
    /\ registered = {}
    /\ nameKey = {}
    /\ idKey = {}
    /\ skillIdx = [w \in Word |-> NoMails]
    /\ posIdx = [w \in Word |-> NoMails]
    /\ job \in {[mail |-> m, old |-> NoProfile, body |-> NoProfile] : m \in Mail}
    /\ plan = <<>>
    /\ requests = 0 /\ faults = 0
    /\ torn = {}

-----------------------------------------------------------------------------
(***************************************************************************)
(* The plan of each request.  Ops(do, ws) does the same to every word.     *)
(***************************************************************************)
Ops(do, ws) == [i \in 1 .. Len(ws) |-> [do |-> do, word |-> ws[i]]]

Only(do) == <<[do |-> do]>>

Titles(p) == [i \in 1 .. Len(p.jobs) |-> p.jobs[i].title]

LowerTitles(p) == [i \in 1 .. Len(p.jobs) |-> Lower[p.jobs[i].title]]

SavePlan(p) ==
    Only("putRecord") \o Only("putName") \o Only("putId")
        \o Ops("saveSkill", p.skills)
        \o Ops("savePosition", LowerTitles(p))
        \o Only("saveCurrent")

(***************************************************************************)
(* updateUser goes through the new and the old list of skills              *)
(* (updateSkills), then of positions (updateWorkHistory).  The record goes *)
(* last.                                                                   *)
(***************************************************************************)
UpdatePlan(old, new) ==
    Ops("saveSkill", new.skills)
        \o Ops("dropSkill", old.skills)
        \o Ops("savePosition", LowerTitles(new))
        \o Ops("dropPosition", Titles(old))
        \o Only("putRecord")

(***************************************************************************)
(* deletePerson: the id and the name key go first and the record last.     *)
(***************************************************************************)
DeletePlanRecordKept(p) ==
    Only("deleteId") \o Only("deleteName") \o Ops("dropSkill", p.skills)
        \o Ops("dropPosition", Titles(p))

DeletePlan(p) ==
    Only("deleteId") \o Only("deleteName") \o Ops("dropSkill", p.skills)
        \o Ops("dropPosition", Titles(p)) \o Only("deleteRecord")

-----------------------------------------------------------------------------
Begin(m, old, new, operations) ==
    /\ plan = <<>>
    /\ requests < MaxRequests
    /\ requests' = requests + 1
    /\ job' = [mail |-> m, old |-> old, body |-> new]
    /\ plan' = operations
    /\ UNCHANGED <<store, faults, torn>>

SavePerson(m, p) == m \notin registered /\ Begin(m, NoProfile, p, SavePlan(p))

UpdateUser(m, p) ==
    /\ m \in registered \cap idKey
    /\ Begin(m, profile[m], p, UpdatePlan(profile[m], p))

DeletePerson(m) ==
    /\ m \in registered \cap idKey
    /\ Begin(m, profile[m], NoProfile, DeletePlan(profile[m]))

-----------------------------------------------------------------------------
(***************************************************************************)
(* One step of the running request.                                        *)
(***************************************************************************)
Doing(do) == plan # <<>> /\ Head(plan).do = do

Proceed == plan' = Tail(plan) /\ UNCHANGED <<job, requests, faults, torn>>

saveUser ==
    /\ Doing("putRecord")
    /\ profile' = [profile EXCEPT ![job.mail] = job.body]
    /\ registered' = registered \cup {job.mail}
    /\ Proceed
    /\ UNCHANGED <<nameKey, idKey, skillIdx, posIdx>>

saveUserNameKey ==
    /\ Doing("putName")
    /\ nameKey' = nameKey \cup {job.mail}
    /\ Proceed
    /\ UNCHANGED <<profile, registered, idKey, skillIdx, posIdx>>

deleteUserNameKey ==
    /\ Doing("deleteName")
    /\ nameKey' = nameKey \ {job.mail}
    /\ Proceed
    /\ UNCHANGED <<profile, registered, idKey, skillIdx, posIdx>>

saveUserIdKey ==
    /\ Doing("putId")
    /\ idKey' = idKey \cup {job.mail}
    /\ Proceed
    /\ UNCHANGED <<profile, registered, nameKey, skillIdx, posIdx>>

deleteUserIdKey ==
    /\ Doing("deleteId")
    /\ idKey' = idKey \ {job.mail}
    /\ Proceed
    /\ UNCHANGED <<profile, registered, nameKey, skillIdx, posIdx>>

deleteUser ==
    /\ Doing("deleteRecord")
    /\ profile' = [profile EXCEPT ![job.mail] = NoProfile]
    /\ registered' = registered \ {job.mail}
    /\ Proceed
    /\ UNCHANGED <<nameKey, idKey, skillIdx, posIdx>>

(***************************************************************************)
(* updateUser saves what the old profile does not list and drops what the  *)
(* new one does not.  A registration has no old profile and a deletion no  *)
(* new one, so they save and drop everything.                              *)
(***************************************************************************)
HasSkill(p, w) == \E i \in DOMAIN p.skills : p.skills[i] = w

HasTitleNever(p, w) == FALSE

HasTitle(p, w) == \E i \in DOMAIN p.jobs : p.jobs[i].title = w

Added(list) == [list EXCEPT ![job.mail] = @ + 1]

saveSkillAgain ==
    /\ Doing("saveSkill")
    /\ skillIdx' = [skillIdx EXCEPT ![Head(plan).word] = Added(@)]
    /\ Proceed
    /\ UNCHANGED <<profile, registered, nameKey, idKey, posIdx>>

saveSkill ==
    LET word == Head(plan).word
    IN  /\ Doing("saveSkill")
        /\ skillIdx' = IF HasSkill(job.old, word) THEN skillIdx
                       ELSE [skillIdx EXCEPT ![word] = Added(@)]
        /\ Proceed
        /\ UNCHANGED <<profile, registered, nameKey, idKey, posIdx>>

savePosition ==
    LET word == Head(plan).word
    IN  /\ Doing("savePosition")
        /\ posIdx' = IF HasTitle(job.old, word) THEN posIdx
                     ELSE [posIdx EXCEPT ![word] = Added(@)]
        /\ Proceed
        /\ UNCHANGED <<profile, registered, nameKey, idKey, skillIdx>>

(***************************************************************************)
(* savePerson saves the first current position a second time, under its    *)
(* title as written, not in lower case.                                    *)
(***************************************************************************)
getCurrentJob(p, i) == p.jobs[i].current /\ \A k \in 1 .. i - 1 : ~p.jobs[k].current

saveCurrentPosition ==
    /\ Doing("saveCurrent")
    /\ \/ \E i \in DOMAIN job.body.jobs :
            /\ getCurrentJob(job.body, i)
            /\ posIdx' = [posIdx EXCEPT ![job.body.jobs[i].title] = Added(@)]
       \/ /\ \A i \in DOMAIN job.body.jobs : ~job.body.jobs[i].current
          /\ UNCHANGED posIdx
    /\ Proceed
    /\ UNCHANGED <<profile, registered, nameKey, idKey, skillIdx>>

(***************************************************************************)
(* The mails of a list that are not the running request's.  A list that    *)
(* becomes empty means that its key is deleted.                            *)
(***************************************************************************)
OthersNone(list) == NoMails

Others(list) == [list EXCEPT ![job.mail] = 0]

deleteUserFromSkill ==
    LET word == Head(plan).word
    IN  /\ Doing("dropSkill")
        /\ \/ HasSkill(job.body, word) /\ UNCHANGED skillIdx
           \/ /\ ~HasSkill(job.body, word)
              /\ skillIdx[word] # NoMails
              /\ skillIdx' = [skillIdx EXCEPT ![word] = Others(@)]
        /\ Proceed
        /\ UNCHANGED <<profile, registered, nameKey, idKey, posIdx>>

(***************************************************************************)
(* deleteUserFromJobPosition reads the list under the title in lower case. *)
(* If nobody else is in it, the key deleted is that of the SKILL of that   *)
(* name and the position's list stays; otherwise the rest is put under the *)
(* title as written.                                                       *)
(***************************************************************************)
deleteUserFromJobPosition ==
    LET title == Head(plan).word
        rest  == Others(posIdx[Lower[title]])
    IN  /\ Doing("dropPosition")
        /\ \/ HasTitle(job.body, title) /\ UNCHANGED <<skillIdx, posIdx>>
           \/ /\ ~HasTitle(job.body, title)
              /\ posIdx[Lower[title]] # NoMails
              /\ rest = NoMails
              /\ skillIdx' = [skillIdx EXCEPT ![title] = NoMails]
              /\ UNCHANGED posIdx
           \/ /\ ~HasTitle(job.body, title)
              /\ rest # NoMails
              /\ posIdx' = [posIdx EXCEPT ![title] = rest]
              /\ UNCHANGED skillIdx
        /\ Proceed
        /\ UNCHANGED <<profile, registered, nameKey, idKey>>

(***************************************************************************)
(* BadImplementationException: the key of the word is missing.  The reply  *)
(* is 404 (deletePerson) or 500 (updateUser).                              *)
(***************************************************************************)
KeyMissing ==
    \/ /\ Doing("dropSkill") /\ ~HasSkill(job.body, Head(plan).word)
       /\ skillIdx[Head(plan).word] = NoMails
    \/ /\ Doing("dropPosition") /\ ~HasTitle(job.body, Head(plan).word)
       /\ posIdx[Lower[Head(plan).word]] = NoMails

BadImplementation ==
    /\ KeyMissing
    /\ plan' = <<>>
    /\ UNCHANGED <<store, job, requests, faults, torn>>

(***************************************************************************)
(* What putKey and deleteKey answer is not looked at (Manager.cpp): a step *)
(* whose write fails changes nothing, and the request goes on.             *)
(***************************************************************************)
Writes ==
    /\ Doing("saveSkill") => ~HasSkill(job.old, Head(plan).word)
    /\ Doing("savePosition") => ~HasTitle(job.old, Head(plan).word)
    /\ Doing("dropSkill") => ~HasSkill(job.body, Head(plan).word)
    /\ Doing("dropPosition") => ~HasTitle(job.body, Head(plan).word)
    /\ Doing("saveCurrent") => \E i \in DOMAIN job.body.jobs : job.body.jobs[i].current

Fault ==
    /\ plan # <<>> /\ faults < MaxFaults
    /\ faults' = faults + 1
    /\ torn' = torn \cup {job.mail}
    /\ UNCHANGED <<store, job, requests>>

WriteFails == Fault /\ Writes /\ ~KeyMissing /\ plan' = Tail(plan)

Crash == Fault /\ plan' = <<>>

(***************************************************************************)
(* Requests that are refused: a mail that is taken (409), an id without a  *)
(* key or a record (404).                                                  *)
(***************************************************************************)
RefusedRequest == plan = <<>> /\ UNCHANGED vars

Next ==
    \/ \E m \in Mail, s \in SkillLists, j \in JobLists :
          \/ SavePerson(m, [skills |-> s, jobs |-> j])
          \/ UpdateUser(m, [skills |-> s, jobs |-> j])
    \/ \E m \in Mail : DeletePerson(m)
    \/ saveUser \/ saveUserNameKey \/ saveUserIdKey
    \/ deleteUserIdKey \/ deleteUserNameKey \/ deleteUser
    \/ saveSkill \/ savePosition \/ saveCurrentPosition
    \/ deleteUserFromSkill \/ deleteUserFromJobPosition
    \/ BadImplementation \/ WriteFails \/ Crash \/ RefusedRequest

Spec == Init /\ [][Next]_vars

-----------------------------------------------------------------------------
Whole == IF plan = <<>> THEN Mail \ torn ELSE Mail \ (torn \cup {job.mail})

(***************************************************************************)
(* SkillIndexExact: a user whose requests lost no write is in the list of  *)
(* a skill once if her record names it and not at all otherwise, whatever  *)
(* other users do or leave half done meanwhile.  searchBySkill answers     *)
(* from these lists (docs/user_story.txt:46).                              *)
(***************************************************************************)
SkillIndexExact ==
    \A m \in Whole, w \in Word :
        skillIdx[w][m] = IF HasSkill(profile[m], w) THEN 1 ELSE 0

(***************************************************************************)
(* PositionsFindable: such a user is in the list of every position of her  *)
(* work history, where searchByJobPosition looks for her                   *)
(* (docs/user_story.txt:42-45).  True as long as titles are in lower case; *)
(* updateWorkHistory compares the new title in lower case with the old one *)
(* as written (PersonManager.cpp:110) and the old with the new as written  *)
(* (line 121), so a change of capitals alone takes the user out of a list  *)
(* that others are in.                                                     *)
(***************************************************************************)
PositionsFindable ==
    \A m \in Whole : \A i \in DOMAIN profile[m].jobs :
        posIdx[Lower[profile[m].jobs[i].title]][m] > 0

(***************************************************************************)
(* DeletedEverywhere: a user whose requests lost no write is reachable by  *)
(* mail exactly when she is by id and when she is by name: no exception of *)
(* the index code stops a deletion half way                                *)
(* (src/tests/testing_ABMUsers.cpp:180).                                   *)
(***************************************************************************)
DeletedEverywhere ==
    \A m \in Whole :
        /\ m \in registered <=> m \in idKey
        /\ m \in registered <=> m \in nameKey

(***************************************************************************)
(* OthersUntouched: no request changes another user's entries in the two   *)
(* indexes (deleteUserFromSkill, deleteUserFromJobPosition put back lists  *)
(* shared by all users).                                                   *)
(***************************************************************************)
OthersUntouched ==
    [][\A m \in Mail \ {job'.mail}, w \in Word :
          /\ skillIdx'[w][m] = skillIdx[w][m]
          /\ posIdx'[w][m] = posIdx[w][m]]_vars

(***************************************************************************)
(* SearchedAreRegistered: the users a search by position looks up are      *)
(* registered (docs/user_story.txt:39); getUserByMail throws on any other. *)
(***************************************************************************)
SearchedAreRegistered ==
    \A w \in Word : \A m \in Whole :
        posIdx[w][m] > 0 => m \in registered
=============================================================================
