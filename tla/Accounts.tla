------------------------------ MODULE Accounts ------------------------------
(***************************************************************************)
(* User accounts: POST, PUT and DELETE /users (UsersHandler,               *)
(* PersonManager, Manager).  One account is spread over several LevelDB    *)
(* keys: lastID, user:mail_<mail> (the record), user:uuid_<id>,            *)
(* user:name_<name>_<mail> and user:password_<mail>, plus the skill and    *)
(* position indexes that module ProfileIndexes models.  The keys of one    *)
(* request are written one after the other, without a LevelDB batch, so    *)
(* the process may die between any two of them, and an exception of the    *)
(* index code abandons the writes that were to follow.  putKey and         *)
(* deleteKey return an error that nobody looks at: each write may fail     *)
(* while the request goes on.                                              *)
(*                                                                         *)
(* Requests are handled one at a time; job is the request in progress and  *)
(* job.step the write it is about to do.                                   *)
(***************************************************************************)
EXTENDS Naturals, FiniteSets

CONSTANTS
    Mail, Name, Password,
    NoMail,             \* value of an absent user:uuid_ key
    NoPassword,         \* value of an absent user:password_ key
    MaxId,              \* bound: ids handed out in a behaviour
    IdPutOutcomes       \* {TRUE}, or BOOLEAN if the put of lastID may fail

ASSUME MaxIdAssumption == MaxId \in Nat \ {0}
ASSUME NoMailAssumption == NoMail \notin Mail
ASSUME NoPasswordAssumption == NoPassword \notin Password
ASSUME IdPutAssumption == IdPutOutcomes \subseteq BOOLEAN
ASSUME NonEmptyAssumption == Mail # {} /\ Name # {} /\ Password # {}

VARIABLES
    lastID,             \* lastID key, 0 when absent
    record,             \* record[m]: the JSON record; id 0 when absent
    idKey,              \* idKey[i]: mail under user:uuid_<i>
    nameKeys,           \* the pairs <<name, mail>> with a user:name_ key
    passwordKey,        \* passwordKey[m]: password under user:password_<m>
    job,                \* the request in progress
    torn,               \* history: mails whose keys a lost write left uneven
    failed,             \* history: those of torn whose put or delete failed
    retired             \* history: ids of deleted accounts

vars == <<lastID, record, idKey, nameKeys, passwordKey, job, torn, failed, retired>>

Id == 1 .. MaxId

Person == [id : 0 .. MaxId, name : Name, password : Password]

NoPerson == [id |-> 0, name |-> CHOOSE n \in Name : TRUE,
             password |-> CHOOSE p \in Password : TRUE]

Steps == {"record", "name", "id", "password", "index", "oldName", "newName",
          "oldPassword", "newPassword"}

Job == [op : {"save", "update", "delete"}, step : Steps, mail : Mail,
        person : Person]

Idle == [op |-> "idle"]

TypeOK ==
    /\ lastID \in 0 .. MaxId
    /\ record \in [Mail -> Person]
    /\ idKey \in [Id -> Mail \cup {NoMail}]
    /\ nameKeys \in SUBSET (Name \X Mail)
    /\ passwordKey \in [Mail -> Password \cup {NoPassword}]
    /\ job \in Job \cup {Idle}
    /\ torn \in SUBSET Mail
    /\ failed \in SUBSET Mail
    /\ retired \in SUBSET Id

Init ==
    /\ lastID = 0
    /\ record = [m \in Mail |-> NoPerson]
    /\ idKey = [i \in Id |-> NoMail]
    /\ nameKeys = {}
    /\ passwordKey = [m \in Mail |-> NoPassword]
    /\ job = Idle
    /\ torn = {}
    /\ failed = {}
    /\ retired = {}

-----------------------------------------------------------------------------
userExistsMail(m) == record[m].id # 0

userExists(i) == idKey[i] # NoMail

Busy(op, step) == job.op = op /\ job.step = step

Goto(step) == job' = [job EXCEPT !.step = step]

(***************************************************************************)
(* savePerson: the mail must be free; generateID then advances lastID.     *)
(* stored is FALSE when that put fails, which generateID does not look at. *)
(***************************************************************************)
GenerateIDStale == IF lastID = 0 THEN 1 ELSE lastID

GenerateIDCounts == Cardinality({i \in Id : userExists(i)}) + 1

GenerateID == lastID + 1

BeginSavePerson(m, n, p, stored) ==
    /\ job = Idle
    /\ ~userExistsMail(m)
    /\ lastID < MaxId
    /\ lastID' = IF stored THEN GenerateID ELSE lastID
    /\ job' = [op |-> "save", step |-> "record", mail |-> m,
               person |-> [id |-> GenerateID, name |-> n, password |-> p]]
    /\ UNCHANGED <<record, idKey, nameKeys, passwordKey, torn, failed, retired>>

SaveUser ==
    /\ Busy("save", "record")
    /\ record' = [record EXCEPT ![job.mail] = job.person]
    /\ Goto("name")
    /\ UNCHANGED <<lastID, idKey, nameKeys, passwordKey, torn, failed, retired>>

SaveUserNameKey ==
    /\ Busy("save", "name")
    /\ nameKeys' = nameKeys \cup {<<job.person.name, job.mail>>}
    /\ Goto("id")
    /\ UNCHANGED <<lastID, record, idKey, passwordKey, torn, failed, retired>>

SaveUserIdKey ==
    /\ Busy("save", "id")
    /\ idKey' = [idKey EXCEPT ![job.person.id] = job.mail]
    /\ Goto("password")
    /\ UNCHANGED <<lastID, record, nameKeys, passwordKey, torn, failed, retired>>

SaveUserPasswordKey ==
    /\ Busy("save", "password")
    /\ passwordKey' = [passwordKey EXCEPT ![job.mail] = job.person.password]
    /\ Goto("index")
    /\ UNCHANGED <<lastID, record, idKey, nameKeys, torn, failed, retired>>

(***************************************************************************)
(* saveSkills and savePositions never fail; the reply follows them.        *)
(***************************************************************************)
FinishSavePerson ==
    /\ Busy("save", "index")
    /\ job' = Idle
    /\ UNCHANGED <<lastID, record, idKey, nameKeys, passwordKey, torn, failed, retired>>

(***************************************************************************)
(* updateUser: the body's name and password against the stored record; the *)
(* body's empty password keeps the old one (p is then the stored one).     *)
(***************************************************************************)
BeginUpdateUser(i, n, p) ==
    /\ job = Idle
    /\ userExists(i)
    /\ userExistsMail(idKey[i])
    /\ job' = [op |-> "update",
               step |-> IF n = record[idKey[i]].name THEN "index" ELSE "oldName",
               mail |-> idKey[i],
               person |-> [id |-> i, name |-> n, password |-> p]]
    /\ UNCHANGED <<lastID, record, idKey, nameKeys, passwordKey, torn, failed, retired>>

UpdateNameDelete ==
    /\ Busy("update", "oldName")
    /\ nameKeys' = nameKeys \ {<<record[job.mail].name, job.mail>>}
    /\ Goto("newName")
    /\ UNCHANGED <<lastID, record, idKey, passwordKey, torn, failed, retired>>

UpdateNameSave ==
    /\ Busy("update", "newName")
    /\ nameKeys' = nameKeys \cup {<<job.person.name, job.mail>>}
    /\ Goto("index")
    /\ UNCHANGED <<lastID, record, idKey, passwordKey, torn, failed, retired>>

(***************************************************************************)
(* updateSkills and updateWorkHistory.                                     *)
(***************************************************************************)
UpdateIndexes ==
    /\ Busy("update", "index")
    /\ Goto(IF job.person.password = record[job.mail].password THEN "record"
            ELSE "oldPassword")
    /\ UNCHANGED <<lastID, record, idKey, nameKeys, passwordKey, torn, failed, retired>>

UpdatePasswordDelete ==
    /\ Busy("update", "oldPassword")
    /\ passwordKey' = [passwordKey EXCEPT ![job.mail] = NoPassword]
    /\ Goto("newPassword")
    /\ UNCHANGED <<lastID, record, idKey, nameKeys, torn, failed, retired>>

UpdatePasswordSavesName ==
    /\ Busy("update", "newPassword")
    /\ passwordKey' = [passwordKey EXCEPT ![job.mail] = job.person.name]
    /\ Goto("record")
    /\ UNCHANGED <<lastID, record, idKey, nameKeys, torn, failed, retired>>

UpdatePasswordSave ==
    /\ Busy("update", "newPassword")
    /\ passwordKey' = [passwordKey EXCEPT ![job.mail] = job.person.password]
    /\ Goto("record")
    /\ UNCHANGED <<lastID, record, idKey, nameKeys, torn, failed, retired>>

FinishUpdateUser ==
    /\ Busy("update", "record")
    /\ record' = [record EXCEPT ![job.mail] = job.person]
    /\ job' = Idle
    /\ UNCHANGED <<lastID, idKey, nameKeys, passwordKey, torn, failed, retired>>

(***************************************************************************)
(* deletePerson: the id key goes first and the record last.  done is FALSE *)
(* when the delete of the id key fails.                                    *)
(***************************************************************************)
BeginDeletePersonKeepsId(i, done) ==
    /\ job = Idle
    /\ userExists(i)
    /\ userExistsMail(idKey[i])
    /\ job' = [op |-> "delete", step |-> "name", mail |-> idKey[i],
               person |-> record[idKey[i]]]
    /\ UNCHANGED <<lastID, record, idKey, nameKeys, passwordKey, torn, failed, retired>>

BeginDeletePerson(i, done) ==
    /\ job = Idle
    /\ userExists(i)
    /\ userExistsMail(idKey[i])
    /\ \/ /\ done
          /\ idKey' = [idKey EXCEPT ![record[idKey[i]].id] = NoMail]
          /\ UNCHANGED <<torn, failed>>
       \/ /\ ~done
          /\ torn' = torn \cup {idKey[i]}
          /\ failed' = failed \cup {idKey[i]}
          /\ UNCHANGED idKey
    /\ retired' = retired \cup {i}
    /\ job' = [op |-> "delete", step |-> "name", mail |-> idKey[i],
               person |-> record[idKey[i]]]
    /\ UNCHANGED <<lastID, record, nameKeys, passwordKey>>

DeleteUserNameKey ==
    /\ Busy("delete", "name")
    /\ nameKeys' = nameKeys \ {<<job.person.name, job.mail>>}
    /\ Goto("password")
    /\ UNCHANGED <<lastID, record, idKey, passwordKey, torn, failed, retired>>

DeleteUserPasswordKeyForgotten ==
    /\ Busy("delete", "password")
    /\ Goto("index")
    /\ UNCHANGED <<lastID, record, idKey, nameKeys, passwordKey, torn, failed, retired>>

DeleteUserPasswordKey ==
    /\ Busy("delete", "password")
    /\ passwordKey' = [passwordKey EXCEPT ![job.mail] = NoPassword]
    /\ Goto("index")
    /\ UNCHANGED <<lastID, record, idKey, nameKeys, torn, failed, retired>>

DeleteIndexes ==
    /\ Busy("delete", "index")
    /\ Goto("record")
    /\ UNCHANGED <<lastID, record, idKey, nameKeys, passwordKey, torn, failed, retired>>

FinishDeletePerson ==
    /\ Busy("delete", "record")
    /\ record' = [record EXCEPT ![job.mail] = NoPerson]
    /\ job' = Idle
    /\ UNCHANGED <<lastID, idKey, nameKeys, passwordKey, torn, failed, retired>>

(***************************************************************************)
(* deleteUserFromSkill and deleteUserFromJobPosition throw when the index  *)
(* has no key for the word (BadImplementationException).  The remaining    *)
(* writes of the request are never done, and the reply is 404 (delete) or  *)
(* 500 (update).                                                           *)
(***************************************************************************)
IndexesThrow ==
    /\ Busy("update", "index") \/ Busy("delete", "index")
    /\ job' = Idle
    /\ torn' = torn \cup {job.mail}
    /\ UNCHANGED <<lastID, record, idKey, nameKeys, passwordKey, failed, retired>>

(***************************************************************************)
(* A put or a delete of the request fails: the key stays as it is and the  *)
(* request goes on.                                                        *)
(***************************************************************************)
WriteFails ==
    /\ \/ Busy("save", "record") /\ Goto("name")
       \/ Busy("save", "name") /\ Goto("id")
       \/ Busy("save", "id") /\ Goto("password")
       \/ Busy("save", "password") /\ Goto("index")
       \/ Busy("update", "oldName") /\ Goto("newName")
       \/ Busy("update", "newName") /\ Goto("index")
       \/ Busy("update", "oldPassword") /\ Goto("newPassword")
       \/ Busy("update", "newPassword") /\ Goto("record")
       \/ Busy("delete", "name") /\ Goto("password")
       \/ Busy("delete", "password") /\ Goto("index")
       \/ (Busy("update", "record") \/ Busy("delete", "record")) /\ job' = Idle
    /\ torn' = torn \cup {job.mail}
    /\ failed' = failed \cup {job.mail}
    /\ UNCHANGED <<lastID, record, idKey, nameKeys, passwordKey, retired>>

(***************************************************************************)
(* Requests that are refused: a mail that is taken (409), an unknown id    *)
(* (404), a session of another user (403), an unreadable body (400).       *)
(***************************************************************************)
RefusedRequest ==
    /\ job = Idle
    /\ UNCHANGED vars

(***************************************************************************)
(* The process dies with the request half done.  Before its first write to *)
(* a key of the account only the id is lost.                               *)
(***************************************************************************)
Crash ==
    /\ job # Idle
    /\ job' = Idle
    /\ torn' = IF Busy("save", "record") THEN torn ELSE torn \cup {job.mail}
    /\ UNCHANGED <<lastID, record, idKey, nameKeys, passwordKey, failed, retired>>

Save ==
    \/ SaveUser \/ SaveUserNameKey \/ SaveUserIdKey \/ SaveUserPasswordKey
    \/ FinishSavePerson

Update ==
    \/ UpdateNameDelete \/ UpdateNameSave \/ UpdateIndexes
    \/ UpdatePasswordDelete \/ UpdatePasswordSave \/ FinishUpdateUser

Delete ==
    \/ DeleteUserNameKey \/ DeleteUserPasswordKey \/ DeleteIndexes
    \/ FinishDeletePerson

Next ==
    \/ \E m \in Mail, n \in Name, p \in Password, stored \in IdPutOutcomes :
          BeginSavePerson(m, n, p, stored)
    \/ \E i \in Id, n \in Name, p \in Password : BeginUpdateUser(i, n, p)
    \/ \E i \in Id, done \in BOOLEAN : BeginDeletePerson(i, done)
    \/ Save \/ Update \/ Delete \/ IndexesThrow \/ WriteFails \/ RefusedRequest
    \/ Crash

Spec == Init /\ [][Next]_vars

-----------------------------------------------------------------------------
(***************************************************************************)
(* UniqueIds: docs/user_story.txt:10, the id that identifies a user is     *)
(* unique: no two records ever share one, whatever crashes, exceptions and *)
(* failed writes of the account's keys happen.                             *)
(***************************************************************************)
UniqueIds ==
    \A m1, m2 \in Mail :
        userExistsMail(m1) /\ record[m1].id = record[m2].id => m1 = m2

(***************************************************************************)
(* IdKeysSound: at every moment, in the middle of a request and after any  *)
(* crash or exception, a user:uuid_ key leads to a record with that id,    *)
(* unless a put or delete for that mail failed.  getUserById and           *)
(* updateTotalRecommendation rely on it without a check.                   *)
(***************************************************************************)
IdKeysSound ==
    \A i \in Id : userExists(i) /\ idKey[i] \notin failed => record[idKey[i]].id = i

(***************************************************************************)
(* AccountComplete: between requests an account whose keys no lost write   *)
(* left uneven has all of its keys or none of them, all telling the same   *)
(* name and password; in particular a record that blocks its mail          *)
(* (userExistsMail) belongs to somebody who can log in.                    *)
(***************************************************************************)
AccountComplete ==
    job = Idle =>
        \A m \in Mail \ torn :
            IF userExistsMail(m)
            THEN /\ idKey[record[m].id] = m
                 /\ passwordKey[m] = record[m].password
                 /\ \A n \in Name : <<n, m>> \in nameKeys <=> n = record[m].name
            ELSE /\ passwordKey[m] = NoPassword
                 /\ \A n \in Name : <<n, m>> \notin nameKeys

(***************************************************************************)
(* RetiredIds: the id of a deleted account never identifies anybody again, *)
(* so the votes, messages and contacts that deletePerson leaves behind     *)
(* under that id are not inherited by a later user.  The exception is a    *)
(* mail for which a write failed: its old id key may still be there.       *)
(***************************************************************************)
RetiredIds == \A i \in retired : userExists(i) => idKey[i] \in failed
=============================================================================
