--------------------------- MODULE AccountsProofs ---------------------------
(***************************************************************************)
(* Proofs about Accounts, for any set of mails, names and passwords and    *)
(* any number of ids.  Typing needs no assumption on the store; the facts  *)
(* about ids assume that the put of lastID never fails.                    *)
(***************************************************************************)
EXTENDS Accounts, TLAPS

(* The value of an absent record is well typed.                              *)
LEMMA NoPersonType == NoPerson \in Person
  <1>1. (CHOOSE n \in Name : TRUE) \in Name
    BY NonEmptyAssumption
  <1>2. (CHOOSE p \in Password : TRUE) \in Password
    BY NonEmptyAssumption
  <1>3. QED
    BY <1>1, <1>2, MaxIdAssumption DEF NoPerson, Person

(***************************************************************************)
(* A job that is busy is a record of Job, and moving it to another step    *)
(* keeps its other fields.                                                 *)
(***************************************************************************)
LEMMA BusyJob ==
    ASSUME TypeOK, NEW op \in {"save", "update", "delete"}, job.op = op
    PROVE  /\ job \in Job /\ job # Idle
           /\ job.mail \in Mail /\ job.person \in Person
           /\ job.person.id \in 0 .. MaxId
           /\ job.person.name \in Name /\ job.person.password \in Password
  BY DEF TypeOK, Job, Idle, Person

(* Goto changes the step of the request in progress and nothing else.        *)
LEMMA GotoJob ==
    ASSUME job \in Job, NEW step \in Steps, Goto(step)
    PROVE  /\ job' \in Job /\ job'.step = step /\ job'.op = job.op
           /\ job'.mail = job.mail /\ job'.person = job.person
  BY DEF Goto, Job

(* After a failed write the request goes on, or it was the last write.       *)
LEMMA WriteFailsJob ==
    ASSUME TypeOK, WriteFails
    PROVE  /\ job \in Job /\ job # Idle /\ job.mail \in Mail
           /\ \/ job' = Idle
              \/ \E step \in Steps :
                    Goto(step) /\ (job.op = "save" => step # "record")
  <1>1. job.op \in {"save", "update", "delete"}
    BY DEF WriteFails, Busy
  <1>2. job \in Job /\ job # Idle /\ job.mail \in Mail
    BY <1>1, BusyJob
  <1>3. \/ job' = Idle
        \/ \E step \in Steps \ {"record"} : Goto(step)
        \/ job.op = "update" /\ Goto("record")
    BY DEF WriteFails, Busy, Steps
  <1>4. QED
    BY <1>2, <1>3 DEF Steps

(* Every write of every request keeps the types.                             *)
LEMMA TypeStep == TypeOK /\ [Next]_vars => TypeOK'
  <1> SUFFICES ASSUME TypeOK, [Next]_vars PROVE TypeOK'
    OBVIOUS
  <1> USE MaxIdAssumption DEF TypeOK
  <1>1. ASSUME NEW m \in Mail, NEW n \in Name, NEW p \in Password,
               NEW stored \in IdPutOutcomes, BeginSavePerson(m, n, p, stored)
        PROVE  TypeOK'
    BY <1>1 DEF BeginSavePerson, GenerateID, Job, Person, Steps
  <1>2. ASSUME NEW i \in Id, NEW n \in Name, NEW p \in Password,
               BeginUpdateUser(i, n, p)
        PROVE  TypeOK'
    <2>1. idKey[i] \in Mail
      BY <1>2 DEF BeginUpdateUser, userExists
    <2>2. QED
      BY <1>2, <2>1 DEF BeginUpdateUser, Job, Person, Steps, Id
  <1>3. ASSUME NEW i \in Id, NEW done \in BOOLEAN, BeginDeletePerson(i, done)
        PROVE  TypeOK'
    <2>1. idKey[i] \in Mail
      BY <1>3 DEF BeginDeletePerson, userExists
    <2>2. record[idKey[i]] \in Person
      BY <2>1
    <2>3. job' \in Job
      BY <1>3, <2>1, <2>2 DEF BeginDeletePerson, Job, Steps
    <2>4. QED
      BY <1>3, <2>1, <2>2, <2>3 DEF BeginDeletePerson
  <1>4. CASE Save
    <2>1. job.op = "save"
      BY <1>4 DEF Save, SaveUser, SaveUserNameKey, SaveUserIdKey,
                  SaveUserPasswordKey, FinishSavePerson, Busy
    <2>2. /\ job \in Job /\ job.mail \in Mail /\ job.person \in Person
          /\ job.person.name \in Name /\ job.person.password \in Password
      BY <2>1, BusyJob
    <2>3. CASE SaveUser
      BY <2>2, <2>3, GotoJob DEF SaveUser, Steps
    <2>4. CASE SaveUserNameKey
      BY <2>2, <2>4, GotoJob DEF SaveUserNameKey, Steps
    <2>5. CASE SaveUserIdKey
      BY <2>2, <2>5, GotoJob DEF SaveUserIdKey, Steps
    <2>6. CASE SaveUserPasswordKey
      BY <2>2, <2>6, GotoJob DEF SaveUserPasswordKey, Steps
    <2>7. CASE FinishSavePerson
      BY <2>7 DEF FinishSavePerson
    <2>8. QED
      BY <1>4, <2>3, <2>4, <2>5, <2>6, <2>7 DEF Save
  <1>5. CASE Update
    <2>1. job.op = "update"
      BY <1>5 DEF Update, UpdateNameDelete, UpdateNameSave, UpdateIndexes,
                  UpdatePasswordDelete, UpdatePasswordSave, FinishUpdateUser, Busy
    <2>2. /\ job \in Job /\ job.mail \in Mail /\ job.person \in Person
          /\ job.person.name \in Name /\ job.person.password \in Password
      BY <2>1, BusyJob
    <2>3. CASE UpdateNameDelete
      BY <2>2, <2>3, GotoJob DEF UpdateNameDelete, Steps
    <2>4. CASE UpdateNameSave
      BY <2>2, <2>4, GotoJob DEF UpdateNameSave, Steps
    <2>5. CASE UpdateIndexes
      BY <2>2, <2>5, GotoJob DEF UpdateIndexes, Steps
    <2>6. CASE UpdatePasswordDelete
      BY <2>2, <2>6, GotoJob DEF UpdatePasswordDelete, Steps
    <2>7. CASE UpdatePasswordSave
      BY <2>2, <2>7, GotoJob DEF UpdatePasswordSave, Steps
    <2>8. CASE FinishUpdateUser
      BY <2>2, <2>8 DEF FinishUpdateUser
    <2>9. QED
      BY <1>5, <2>3, <2>4, <2>5, <2>6, <2>7, <2>8 DEF Update
  <1>6. CASE Delete
    <2>1. job.op = "delete"
      BY <1>6 DEF Delete, DeleteUserNameKey, DeleteUserPasswordKey,
                  DeleteIndexes, FinishDeletePerson, Busy
    <2>2. job \in Job /\ job.mail \in Mail
      BY <2>1, BusyJob
    <2>3. CASE DeleteUserNameKey
      BY <2>2, <2>3, GotoJob DEF DeleteUserNameKey, Steps
    <2>4. CASE DeleteUserPasswordKey
      BY <2>2, <2>4, GotoJob DEF DeleteUserPasswordKey, Steps
    <2>5. CASE DeleteIndexes
      BY <2>2, <2>5, GotoJob DEF DeleteIndexes, Steps
    <2>6. CASE FinishDeletePerson
      BY <2>2, <2>6, NoPersonType DEF FinishDeletePerson
    <2>7. QED
      BY <1>6, <2>3, <2>4, <2>5, <2>6 DEF Delete
  <1>7. CASE IndexesThrow
    BY <1>7, BusyJob DEF IndexesThrow, Busy
  <1>8. CASE Crash
    BY <1>8 DEF Crash, Job
  <1>9. CASE WriteFails
    <2>1. job.mail \in Mail /\ job' \in Job \cup {Idle}
      BY <1>9, WriteFailsJob, GotoJob, BusyJob DEF Job
    <2>2. QED
      BY <1>9, <2>1 DEF WriteFails
  <1>10. CASE UNCHANGED vars
    BY <1>10 DEF vars
  <1>11. QED
    BY <1>1, <1>2, <1>3, <1>4, <1>5, <1>6, <1>7, <1>8, <1>9, <1>10
       DEF Next, RefusedRequest

(* The empty store is well typed.                                            *)
LEMMA InitType == Init => TypeOK
  BY NoPersonType, MaxIdAssumption DEF Init, TypeOK

(***************************************************************************)
(* Every reachable state of Accounts is well typed.                        *)
(***************************************************************************)
THEOREM TypeCorrect == Spec => []TypeOK
  BY InitType, TypeStep, PTL DEF Spec

-----------------------------------------------------------------------------
(***************************************************************************)
(* The identity invariant.  An id belongs to the mail whose record has it, *)
(* whose mail its id key leads to or whose request works with it.  It      *)
(* belongs to one mail at most, even when failed writes leave old keys     *)
(* behind, because generateID only gives out new ones; the id of a         *)
(* registration in progress is lastID itself, which no deleted account     *)
(* ever had.                                                               *)
(***************************************************************************)
Owned(i, m) ==
    \/ record[m].id = i
    \/ idKey[i] = m
    \/ job # Idle /\ job.mail = m /\ job.person.id = i

OneOwner == \A i \in Id, m1, m2 \in Mail : Owned(i, m1) /\ Owned(i, m2) => m1 = m2

OwnedGiven == \A i \in Id, m \in Mail : Owned(i, m) => i <= lastID

RetiredBounded == \A i \in retired : i <= lastID

SaveSound ==
    job.op = "save" =>
        /\ job.person.id = lastID /\ lastID # 0
        /\ lastID \notin retired
        /\ job.step = "record" => record[job.mail].id = 0
        /\ job.step # "record" /\ job.mail \notin failed => record[job.mail].id = lastID

UpdateSound ==
    job.op = "update" =>
        /\ job.person.id # 0
        /\ job.mail \notin failed => record[job.mail].id = job.person.id

DeleteSound ==
    job.op = "delete" /\ job.mail \notin failed => \A i \in Id : idKey[i] # job.mail

FailedAreTorn == failed \subseteq torn

IdInv ==
    /\ TypeOK /\ OneOwner /\ OwnedGiven /\ RetiredBounded /\ FailedAreTorn
    /\ SaveSound /\ UpdateSound /\ DeleteSound
    /\ IdKeysSound /\ RetiredIds

(* One owner per id means that no two records share one.                     *)
LEMMA OwnersUnique == ASSUME TypeOK, OneOwner PROVE UniqueIds
  <1> SUFFICES ASSUME NEW m1 \in Mail, NEW m2 \in Mail, record[m1].id # 0,
                      record[m1].id = record[m2].id
               PROVE  m1 = m2
    BY DEF UniqueIds, userExistsMail
  <1>1. record[m1].id \in Id
    BY MaxIdAssumption DEF TypeOK, Person, Id
  <1>2. QED
    BY <1>1 DEF OneOwner, Owned

(* A step after which nobody owns an id that she did not own before.         *)
LEMMA OwnersKept ==
    ASSUME OneOwner, OwnedGiven, lastID' = lastID,
           \A i \in Id, m \in Mail : Owned(i, m)' => Owned(i, m)
    PROVE  OneOwner' /\ OwnedGiven'
  BY DEF OneOwner, OwnedGiven

(* A step that changes neither ids nor id keys keeps what is said of them.   *)
LEMMA IdsKept ==
    ASSUME IdInv, UNCHANGED <<lastID, idKey, retired>>, failed \subseteq failed',
           \A m \in Mail \ failed' : record'[m].id = record[m].id
    PROVE  IdKeysSound' /\ RetiredIds' /\ RetiredBounded'
  <1>1. IdKeysSound'
    BY DEF IdInv, IdKeysSound, userExists, TypeOK
  <1>2. RetiredIds' /\ RetiredBounded'
    BY DEF IdInv, RetiredIds, RetiredBounded, userExists
  <1>3. QED
    BY <1>1, <1>2

(* A request begins with an id that was never given out.                     *)
LEMMA BeginSaveIds ==
    ASSUME IdPutOutcomes = {TRUE}, IdInv, TypeOK',
           NEW m \in Mail, NEW n \in Name, NEW p \in Password,
           NEW stored \in IdPutOutcomes, BeginSavePerson(m, n, p, stored)
    PROVE  IdInv'
  <1>1. /\ lastID' = lastID + 1 /\ record[m].id = 0 /\ job = Idle
        /\ job'.op = "save" /\ job'.step = "record" /\ job'.mail = m
        /\ job'.person.id = lastID + 1
        /\ UNCHANGED <<record, idKey, torn, failed, retired>>
    BY DEF BeginSavePerson, GenerateID, userExistsMail
  <1>2. lastID \in Nat /\ \A i \in retired : i \in Nat
    BY DEF IdInv, TypeOK, Id
  <1>3. \A i \in Id : i \in Nat
    BY DEF Id
  <1>4. ASSUME NEW i \in Id, NEW x \in Mail, Owned(i, x)'
        PROVE  Owned(i, x) \/ (i = lastID + 1 /\ x = m)
    BY <1>1, <1>4 DEF Owned
  <1>5. \A i \in Id, x \in Mail : Owned(i, x) => i <= lastID /\ i # lastID + 1
    BY <1>2, <1>3 DEF IdInv, OwnedGiven
  <1>6. OneOwner'
    BY <1>4, <1>5 DEF IdInv, OneOwner
  <1>7. OwnedGiven'
    BY <1>1, <1>2, <1>3, <1>4, <1>5 DEF OwnedGiven
  <1>8. RetiredBounded'
    BY <1>1, <1>2 DEF IdInv, RetiredBounded
  <1>9. SaveSound'
    BY <1>1, <1>2 DEF IdInv, SaveSound, RetiredBounded
  <1>10. UpdateSound' /\ DeleteSound' /\ FailedAreTorn'
    BY <1>1 DEF UpdateSound, DeleteSound, IdInv, FailedAreTorn
  <1>11. IdKeysSound' /\ RetiredIds'
    BY <1>1 DEF IdInv, IdKeysSound, RetiredIds, userExists
  <1>12. QED
    BY <1>6, <1>7, <1>8, <1>9, <1>10, <1>11 DEF IdInv

(* A deletion begins: its id is retired, or a failed delete left its key.    *)
LEMMA BeginDeleteIds ==
    ASSUME IdInv, TypeOK', NEW i \in Id, NEW done \in BOOLEAN, BeginDeletePerson(i, done)
    PROVE  IdInv'
  <1>t. TypeOK
    BY DEF IdInv
  <1>m. PICK m \in Mail : m = idKey[i]
    BY <1>t DEF BeginDeletePerson, userExists, TypeOK
  <1>1. /\ job'.op = "delete" /\ job'.mail = m /\ job'.person = record[m] /\ job = Idle
        /\ retired' = retired \cup {i}
        /\ UNCHANGED <<lastID, record>>
        /\ \/ idKey' = [idKey EXCEPT ![record[m].id] = NoMail] /\ UNCHANGED <<torn, failed>>
           \/ /\ torn' = torn \cup {m} /\ failed' = failed \cup {m} /\ idKey' = idKey
    BY <1>m DEF BeginDeletePerson
  <1>2. \A j \in Id : idKey'[j] = idKey[j] \/ (idKey'[j] = NoMail /\ j = record[m].id)
    BY <1>t, <1>1 DEF TypeOK
  <1>3. \A j \in Id : idKey[j] = m /\ m \notin failed => record[m].id = j
    BY NoMailAssumption DEF IdInv, IdKeysSound, userExists
  <1>4. i <= lastID
    BY <1>m DEF IdInv, OwnedGiven, Owned
  <1>5. OneOwner' /\ OwnedGiven'
    <2>1. ASSUME NEW j \in Id, NEW x \in Mail, Owned(j, x)' PROVE Owned(j, x)
      BY <1>1, <1>2, <2>1, NoMailAssumption DEF Owned
    <2>2. QED
      BY <1>1, <2>1, OwnersKept DEF IdInv
  <1>6. RetiredBounded' /\ FailedAreTorn'
    BY <1>1, <1>4 DEF IdInv, RetiredBounded, FailedAreTorn
  <1>7. failed \subseteq failed' /\ (m \in failed' \/ idKey' = [idKey EXCEPT ![record[m].id] = NoMail])
    BY <1>1
  <1>8. IdKeysSound'
    BY <1>1, <1>2, <1>7 DEF IdInv, IdKeysSound, userExists
  <1>9. \A j \in Id : idKey'[j] = m => m \in failed'
    <2> SUFFICES ASSUME NEW j \in Id, idKey'[j] = m, m \notin failed' PROVE FALSE
      OBVIOUS
    <2>1. idKey[j] = m
      BY <1>2, NoMailAssumption
    <2>2. record[m].id = j
      BY <1>3, <1>7, <2>1
    <2>3. idKey'[j] = NoMail
      BY <1>7, <1>t, <2>2 DEF TypeOK
    <2>4. QED
      BY <2>3, NoMailAssumption
  <1>10. RetiredIds'
    <2> SUFFICES ASSUME NEW j \in retired', idKey'[j] # NoMail PROVE idKey'[j] \in failed'
      BY DEF RetiredIds, userExists
    <2>1. j \in Id
      BY <1>1, <1>t DEF TypeOK
    <2>2. idKey'[j] = idKey[j]
      BY <1>2, <2>1
    <2>3. CASE j \in retired
      BY <1>7, <2>2, <2>3 DEF IdInv, RetiredIds, userExists
    <2>4. CASE j = i
      BY <1>m, <1>9, <2>1, <2>2, <2>4
    <2>5. QED
      BY <1>1, <2>3, <2>4
  <1>11. SaveSound' /\ UpdateSound' /\ DeleteSound'
    BY <1>1, <1>9 DEF SaveSound, UpdateSound, DeleteSound
  <1>12. QED
    BY <1>5, <1>6, <1>8, <1>10, <1>11 DEF IdInv

(* Every step keeps the invariant about ids if lastID's put does not fail.   *)
LEMMA IdStep ==
    ASSUME IdPutOutcomes = {TRUE} PROVE IdInv /\ [Next]_vars => IdInv'
  <1> SUFFICES ASSUME IdInv, [Next]_vars PROVE IdInv'
    OBVIOUS
  <1>t. TypeOK /\ TypeOK' /\ OneOwner /\ OwnedGiven /\ FailedAreTorn
    BY TypeStep DEF IdInv
  <1>1. ASSUME NEW m \in Mail, NEW n \in Name, NEW p \in Password,
               NEW stored \in IdPutOutcomes, BeginSavePerson(m, n, p, stored)
        PROVE  IdInv'
    BY <1>1, <1>t, BeginSaveIds
  <1>2. ASSUME NEW i \in Id, NEW n \in Name, NEW p \in Password,
               BeginUpdateUser(i, n, p)
        PROVE  IdInv'
    <2>1. /\ job'.op = "update" /\ job'.mail = idKey[i] /\ job'.person.id = i
          /\ idKey[i] # NoMail /\ i # 0
          /\ UNCHANGED <<lastID, record, idKey, torn, failed, retired>>
      BY <1>2 DEF BeginUpdateUser, userExists, Id
    <2>2. IdKeysSound' /\ RetiredIds' /\ RetiredBounded'
      BY <2>1, IdsKept
    <2>3. OneOwner' /\ OwnedGiven'
      <3>1. ASSUME NEW j \in Id, NEW x \in Mail, Owned(j, x)' PROVE Owned(j, x)
        BY <2>1, <3>1 DEF Owned
      <3>2. QED
        BY <1>t, <2>1, <3>1, OwnersKept
    <2>4. UpdateSound'
      BY <2>1 DEF UpdateSound, IdInv, IdKeysSound, userExists
    <2>5. SaveSound' /\ DeleteSound' /\ FailedAreTorn'
      BY <1>t, <2>1 DEF SaveSound, DeleteSound, FailedAreTorn
    <2>6. QED
      BY <1>t, <2>2, <2>3, <2>4, <2>5 DEF IdInv
  <1>3. ASSUME NEW i \in Id, NEW done \in BOOLEAN, BeginDeletePerson(i, done)
        PROVE  IdInv'
    BY <1>3, <1>t, BeginDeleteIds
  <1>4. CASE SaveUser
    <2>1. /\ job.op = "save" /\ job.step = "record" /\ job # Idle
          /\ job.mail \in Mail /\ job.person \in Person
          /\ record' = [record EXCEPT ![job.mail] = job.person]
          /\ job'.op = "save" /\ job'.step = "name"
          /\ job'.mail = job.mail /\ job'.person = job.person
          /\ UNCHANGED <<lastID, idKey, torn, failed, retired>>
      BY <1>4, <1>t, BusyJob, GotoJob DEF SaveUser, Busy, Steps
    <2>2. /\ job.person.id = lastID /\ lastID # 0 /\ lastID \notin retired
          /\ record[job.mail].id = 0
      BY <2>1 DEF IdInv, SaveSound
    <2>3. \A m \in Mail : record'[m] = IF m = job.mail THEN job.person ELSE record[m]
      BY <1>t, <2>1 DEF TypeOK
    <2>4. OneOwner' /\ OwnedGiven'
      <3>1. ASSUME NEW j \in Id, NEW x \in Mail, Owned(j, x)' PROVE Owned(j, x)
        BY <2>1, <2>3, <3>1 DEF Owned
      <3>2. QED
        BY <1>t, <2>1, <3>1, OwnersKept
    <2>5. IdKeysSound'
      <3> SUFFICES ASSUME NEW i \in Id, userExists(i)', idKey'[i] \notin failed'
                   PROVE  record'[idKey'[i]].id = i
        BY DEF IdKeysSound
      <3>1. idKey[i] \in Mail /\ record[idKey[i]].id = i /\ i # 0
        BY <1>t, <2>1 DEF TypeOK, userExists, IdInv, IdKeysSound, Id
      <3>2. idKey[i] # job.mail
        BY <2>2, <3>1
      <3>3. QED
        BY <2>1, <2>3, <3>1, <3>2
    <2>6. RetiredBounded' /\ RetiredIds' /\ FailedAreTorn'
      BY <1>t, <2>1 DEF IdInv, RetiredBounded, RetiredIds, userExists, FailedAreTorn
    <2>7. SaveSound' /\ UpdateSound' /\ DeleteSound'
      BY <2>1, <2>2, <2>3 DEF SaveSound, UpdateSound, DeleteSound
    <2>8. QED
      BY <1>t, <2>4, <2>5, <2>6, <2>7 DEF IdInv
  <1>5. CASE SaveUserIdKey
    <2>1. /\ job.op = "save" /\ job.step = "id" /\ job # Idle
          /\ job.mail \in Mail
          /\ idKey' = [idKey EXCEPT ![job.person.id] = job.mail]
          /\ job'.op = "save" /\ job'.step = "password"
          /\ job'.mail = job.mail /\ job'.person = job.person
          /\ UNCHANGED <<lastID, record, torn, failed, retired>>
      BY <1>5, <1>t, BusyJob, GotoJob DEF SaveUserIdKey, Busy, Steps
    <2>2. /\ job.person.id = lastID /\ lastID # 0 /\ lastID \notin retired
          /\ job.mail \notin failed => record[job.mail].id = lastID
      BY <2>1 DEF IdInv, SaveSound
    <2>3. \A i \in Id : idKey'[i] = IF i = lastID THEN job.mail ELSE idKey[i]
      BY <1>t, <2>1, <2>2 DEF TypeOK
    <2>4. IdKeysSound'
      BY <2>1, <2>2, <2>3 DEF IdInv, IdKeysSound, userExists
    <2>5. RetiredIds'
      <3>1. retired \subseteq Id
        BY <1>t DEF TypeOK
      <3>2. QED
        BY <2>1, <2>2, <2>3, <3>1 DEF IdInv, RetiredIds, userExists
    <2>6. OneOwner' /\ OwnedGiven'
      <3>1. ASSUME NEW j \in Id, NEW x \in Mail, Owned(j, x)' PROVE Owned(j, x)
        BY <2>1, <2>2, <2>3, <3>1 DEF Owned
      <3>2. QED
        BY <1>t, <2>1, <3>1, OwnersKept
    <2>7. RetiredBounded' /\ FailedAreTorn'
      BY <1>t, <2>1 DEF IdInv, RetiredBounded, FailedAreTorn
    <2>8. SaveSound' /\ UpdateSound' /\ DeleteSound'
      BY <2>1, <2>2 DEF SaveSound, UpdateSound, DeleteSound
    <2>9. QED
      BY <1>t, <2>4, <2>5, <2>6, <2>7, <2>8 DEF IdInv
  <1>6. ASSUME UNCHANGED <<lastID, record, idKey, retired>>, job \in Job, job # Idle,
               job'.op = job.op /\ job'.mail = job.mail
               /\ job'.person = job.person,
               failed' = failed \/ failed' = failed \cup {job.mail}, FailedAreTorn',
               \/ job.op # "save"
               \/ job'.step # "record" /\ (job.mail \in failed' \/ job.step # "record")
        PROVE  IdInv'
    <2>1. IdKeysSound' /\ RetiredIds' /\ RetiredBounded'
      BY <1>6, IdsKept
    <2>2. OneOwner' /\ OwnedGiven'
      <3>1. ASSUME NEW j \in Id, NEW x \in Mail, Owned(j, x)' PROVE Owned(j, x)
        BY <1>6, <3>1 DEF Owned
      <3>2. QED
        BY <1>6, <1>t, <3>1, OwnersKept
    <2>3. SaveSound'
      BY <1>6 DEF IdInv, SaveSound
    <2>4. UpdateSound' /\ DeleteSound'
      BY <1>6 DEF IdInv, UpdateSound, DeleteSound
    <2>5. QED
      BY <1>6, <1>t, <2>1, <2>2, <2>3, <2>4 DEF IdInv
  <1>7. ASSUME UNCHANGED <<lastID, idKey, retired>>, job' = Idle, FailedAreTorn',
               failed \subseteq failed',
               \A m \in Mail \ failed' : record'[m].id = record[m].id,
               \A m \in Mail : \/ record'[m].id = record[m].id
                               \/ job # Idle /\ job.mail = m
                                  /\ record'[m].id = job.person.id
        PROVE  IdInv'
    <2>1. IdKeysSound' /\ RetiredIds' /\ RetiredBounded'
      BY <1>7, IdsKept
    <2>2. OneOwner' /\ OwnedGiven'
      <3>1. ASSUME NEW j \in Id, NEW x \in Mail, Owned(j, x)' PROVE Owned(j, x)
        BY <1>7, <3>1 DEF Owned
      <3>2. QED
        BY <1>7, <1>t, <3>1, OwnersKept
    <2>3. job'.op = "idle"
      BY <1>7 DEF Idle
    <2>4. SaveSound' /\ UpdateSound' /\ DeleteSound'
      BY <2>3 DEF SaveSound, UpdateSound, DeleteSound
    <2>5. QED
      BY <1>7, <1>t, <2>1, <2>2, <2>4 DEF IdInv
  <1>8. CASE SaveUserNameKey \/ SaveUserPasswordKey \/ FinishSavePerson
    <2>1. job.op = "save" /\ job.step # "record" /\ job \in Job /\ job # Idle
      BY <1>8, <1>t, BusyJob
         DEF SaveUserNameKey, SaveUserPasswordKey, FinishSavePerson, Busy
    <2>2. UNCHANGED <<failed, torn>> /\ FailedAreTorn'
      BY <1>8, <1>t DEF SaveUserNameKey, SaveUserPasswordKey, FinishSavePerson, FailedAreTorn
    <2>3. CASE SaveUserNameKey
      BY <1>6, <2>1, <2>2, <2>3, GotoJob DEF SaveUserNameKey, Steps
    <2>4. CASE SaveUserPasswordKey
      BY <1>6, <2>1, <2>2, <2>4, GotoJob DEF SaveUserPasswordKey, Steps
    <2>5. CASE FinishSavePerson
      BY <1>7, <2>2, <2>5 DEF FinishSavePerson
    <2>6. QED
      BY <1>8, <2>3, <2>4, <2>5
  <1>9. CASE Update
    <2>1. job.op = "update" /\ job \in Job /\ job.mail \in Mail /\ job # Idle
      BY <1>9, <1>t, BusyJob
         DEF Update, UpdateNameDelete, UpdateNameSave, UpdateIndexes,
             UpdatePasswordDelete, UpdatePasswordSave, FinishUpdateUser, Busy
    <2>2. UNCHANGED <<failed, torn>> /\ FailedAreTorn'
      BY <1>9, <1>t
         DEF Update, UpdateNameDelete, UpdateNameSave, UpdateIndexes,
             UpdatePasswordDelete, UpdatePasswordSave, FinishUpdateUser, FailedAreTorn
    <2>3. CASE UpdateNameDelete
      BY <1>6, <2>1, <2>2, <2>3, GotoJob DEF UpdateNameDelete, Steps
    <2>4. CASE UpdateNameSave
      BY <1>6, <2>1, <2>2, <2>4, GotoJob DEF UpdateNameSave, Steps
    <2>5. CASE UpdateIndexes
      BY <1>6, <2>1, <2>2, <2>5, GotoJob DEF UpdateIndexes, Steps
    <2>6. CASE UpdatePasswordDelete
      BY <1>6, <2>1, <2>2, <2>6, GotoJob DEF UpdatePasswordDelete, Steps
    <2>7. CASE UpdatePasswordSave
      BY <1>6, <2>1, <2>2, <2>7, GotoJob DEF UpdatePasswordSave, Steps
    <2>8. CASE FinishUpdateUser
      <3>1. /\ record' = [record EXCEPT ![job.mail] = job.person] /\ job' = Idle
            /\ UNCHANGED <<lastID, idKey, retired>>
        BY <2>8 DEF FinishUpdateUser
      <3>2. job.mail \notin failed => record[job.mail].id = job.person.id
        BY <2>1 DEF IdInv, UpdateSound
      <3>3. \A m \in Mail : record'[m] = IF m = job.mail THEN job.person ELSE record[m]
        BY <1>t, <2>1, <3>1 DEF TypeOK
      <3>4. QED
        BY <1>7, <2>1, <2>2, <3>1, <3>2, <3>3
    <2>9. QED
      BY <1>9, <2>3, <2>4, <2>5, <2>6, <2>7, <2>8 DEF Update
  <1>10. CASE Delete
    <2>1. job.op = "delete" /\ job \in Job /\ job.mail \in Mail /\ job # Idle
      BY <1>10, <1>t, BusyJob
         DEF Delete, DeleteUserNameKey, DeleteUserPasswordKey, DeleteIndexes,
             FinishDeletePerson, Busy
    <2>2. UNCHANGED <<failed, torn>> /\ FailedAreTorn'
      BY <1>10, <1>t
         DEF Delete, DeleteUserNameKey, DeleteUserPasswordKey, DeleteIndexes,
             FinishDeletePerson, FailedAreTorn
    <2>3. CASE DeleteUserNameKey
      BY <1>6, <2>1, <2>2, <2>3, GotoJob DEF DeleteUserNameKey, Steps
    <2>4. CASE DeleteUserPasswordKey
      BY <1>6, <2>1, <2>2, <2>4, GotoJob DEF DeleteUserPasswordKey, Steps
    <2>5. CASE DeleteIndexes
      BY <1>6, <2>1, <2>2, <2>5, GotoJob DEF DeleteIndexes, Steps
    <2>6. CASE FinishDeletePerson
      <3>1. /\ record' = [record EXCEPT ![job.mail] = NoPerson] /\ job' = Idle
            /\ UNCHANGED <<lastID, idKey, retired>>
        BY <2>6 DEF FinishDeletePerson
      <3>2. \A m \in Mail : record'[m] = IF m = job.mail THEN NoPerson ELSE record[m]
        BY <1>t, <2>1, <3>1 DEF TypeOK
      <3>3. NoPerson.id = 0 /\ 0 \notin Id
        BY DEF NoPerson, Id
      <3>4. OneOwner' /\ OwnedGiven'
        <4>1. ASSUME NEW j \in Id, NEW x \in Mail, Owned(j, x)' PROVE Owned(j, x)
          BY <3>1, <3>2, <3>3, <4>1 DEF Owned
        <4>2. QED
          BY <1>t, <3>1, <4>1, OwnersKept
      <3>5. IdKeysSound'
        BY <1>t, <2>1, <2>2, <3>1, <3>2
           DEF IdInv, IdKeysSound, DeleteSound, userExists, TypeOK
      <3>6. RetiredIds' /\ RetiredBounded'
        BY <2>2, <3>1 DEF IdInv, RetiredIds, RetiredBounded, userExists
      <3>7. job'.op = "idle"
        BY <3>1 DEF Idle
      <3>8. SaveSound' /\ UpdateSound' /\ DeleteSound'
        BY <3>7 DEF SaveSound, UpdateSound, DeleteSound
      <3>9. QED
        BY <1>t, <2>2, <3>4, <3>5, <3>6, <3>8 DEF IdInv
    <2>7. QED
      BY <1>10, <2>3, <2>4, <2>5, <2>6 DEF Delete
  <1>11. CASE IndexesThrow \/ Crash
    <2>1. /\ UNCHANGED <<lastID, idKey, retired, record, failed>> /\ job' = Idle
          /\ torn \subseteq torn'
      BY <1>11 DEF IndexesThrow, Crash
    <2>2. FailedAreTorn'
      BY <1>t, <2>1 DEF FailedAreTorn
    <2>3. QED
      BY <1>7, <2>1, <2>2
  <1>12. CASE WriteFails
    <2>1. /\ UNCHANGED <<lastID, record, idKey, retired>>
          /\ torn' = torn \cup {job.mail} /\ failed' = failed \cup {job.mail}
      BY <1>12 DEF WriteFails
    <2>2. FailedAreTorn'
      BY <1>t, <2>1 DEF FailedAreTorn
    <2>3. job \in Job /\ job # Idle /\ job.mail \in Mail
      BY <1>12, <1>t, WriteFailsJob
    <2>4. CASE job' = Idle
      BY <1>7, <2>1, <2>2, <2>4
    <2>5. ASSUME NEW step \in Steps, Goto(step), job.op = "save" => step # "record"
          PROVE  IdInv'
      <3>1. /\ job'.op = job.op /\ job'.mail = job.mail /\ job'.person = job.person
            /\ job'.step = step
        BY <2>3, <2>5, GotoJob
      <3>2. QED
        BY <1>6, <2>1, <2>2, <2>3, <2>5, <3>1
    <2>6. QED
      BY <1>12, <1>t, <2>4, <2>5, WriteFailsJob
  <1>13. CASE UNCHANGED vars
    <2>1. UNCHANGED <<lastID, record, idKey, nameKeys, passwordKey, job, torn, failed,
                      retired>>
      BY <1>13 DEF vars
    <2>2. OneOwner' /\ OwnedGiven'
      BY <1>t, <2>1 DEF OneOwner, OwnedGiven, Owned
    <2>3. IdKeysSound' /\ RetiredIds' /\ RetiredBounded'
      BY <2>1, IdsKept
    <2>4. SaveSound' /\ UpdateSound' /\ DeleteSound' /\ FailedAreTorn'
      BY <2>1 DEF IdInv, SaveSound, UpdateSound, DeleteSound, FailedAreTorn
    <2>5. QED
      BY <1>t, <2>2, <2>3, <2>4 DEF IdInv
  <1>14. QED
    BY <1>1, <1>2, <1>3, <1>4, <1>5, <1>8, <1>9, <1>10, <1>11, <1>12, <1>13
       DEF Next, RefusedRequest, Save

(* The empty store satisfies the invariant about ids.                        *)
LEMMA InitId == Init => IdInv
  <1> SUFFICES ASSUME Init PROVE IdInv
    OBVIOUS
  <1>1. \A m \in Mail : record[m].id = 0
    BY DEF Init, NoPerson
  <1>2. job.op = "idle" /\ 0 \notin Id
    BY DEF Init, Idle, Id
  <1>3. \A i \in Id, m \in Mail : ~Owned(i, m)
    BY <1>1, <1>2, NoMailAssumption DEF Init, Owned
  <1>4. OneOwner /\ OwnedGiven /\ FailedAreTorn
    BY <1>3 DEF Init, OneOwner, OwnedGiven, FailedAreTorn
  <1>5. IdKeysSound /\ RetiredIds /\ RetiredBounded
    BY DEF Init, IdKeysSound, RetiredIds, RetiredBounded, userExists
  <1>6. SaveSound /\ UpdateSound /\ DeleteSound
    BY <1>2 DEF SaveSound, UpdateSound, DeleteSound
  <1>7. QED
    BY <1>4, <1>5, <1>6, InitType DEF IdInv

(* The invariant about ids holds in every reachable state.                   *)
LEMMA IdInvariant == ASSUME IdPutOutcomes = {TRUE} PROVE Spec => []IdInv
  <1>1. IdInv /\ [Next]_vars => IdInv'
    BY IdStep
  <1>2. QED
    BY <1>1, InitId, PTL DEF Spec

(***************************************************************************)
(* No two records ever share an id, whatever crashes, exceptions and       *)
(* failed writes leave requests half done, provided that the put of lastID *)
(* never fails.                                                            *)
(***************************************************************************)
THEOREM IdsAreUnique ==
    ASSUME IdPutOutcomes = {TRUE} PROVE Spec => []UniqueIds
  <1>1. IdInv => UniqueIds
    BY OwnersUnique DEF IdInv
  <1>2. QED
    BY <1>1, IdInvariant, PTL

(***************************************************************************)
(* A user:uuid_ key leads to a record with that id, also in the middle of  *)
(* a request and after a crash or an exception, unless a write for its     *)
(* mail failed.                                                            *)
(***************************************************************************)
THEOREM IdKeysLeadToRecords ==
    ASSUME IdPutOutcomes = {TRUE} PROVE Spec => []IdKeysSound
  <1>1. IdInv => IdKeysSound
    BY DEF IdInv
  <1>2. QED
    BY <1>1, IdInvariant, PTL

(***************************************************************************)
(* The id of a deleted account is never given to anybody else, and leads   *)
(* to nobody unless a write for its mail failed.                           *)
(***************************************************************************)
THEOREM IdsStayRetired ==
    ASSUME IdPutOutcomes = {TRUE} PROVE Spec => []RetiredIds
  <1>1. IdInv => RetiredIds
    BY DEF IdInv
  <1>2. QED
    BY <1>1, IdInvariant, PTL

-----------------------------------------------------------------------------
(***************************************************************************)
(* All keys of an account or none.  Complete(m) is what AccountComplete    *)
(* says of one mail between requests; Underway is what is left of it while *)
(* a request is half way through the keys of its mail, step by step.       *)
(***************************************************************************)
NamesAre(m, S) == \A n \in Name : <<n, m>> \in nameKeys <=> n \in S

Complete(m) ==
    IF userExistsMail(m)
    THEN /\ idKey[record[m].id] = m
         /\ passwordKey[m] = record[m].password
         /\ \A n \in Name : <<n, m>> \in nameKeys <=> n = record[m].name
    ELSE /\ passwordKey[m] = NoPassword
         /\ \A n \in Name : <<n, m>> \notin nameKeys

OthersComplete ==
    \A m \in Mail \ torn : job = Idle \/ m # job.mail => Complete(m)

SaveUnderway ==
    /\ job.step \in {"record", "name", "id", "password", "index"}
    /\ NamesAre(job.mail, IF job.step \in {"record", "name"} THEN {} ELSE {job.person.name})
    /\ passwordKey[job.mail] = IF job.step = "index" THEN job.person.password ELSE NoPassword
    /\ job.step \in {"password", "index"} => idKey[job.person.id] = job.mail
    /\ job.step # "record" => record[job.mail] = job.person

UpdateUnderway ==
    /\ job.step \in {"oldName", "newName", "index", "oldPassword", "newPassword", "record"}
    /\ idKey[job.person.id] = job.mail
    /\ NamesAre(job.mail, IF job.step = "oldName" THEN {record[job.mail].name}
                          ELSE IF job.step = "newName" THEN {} ELSE {job.person.name})
    /\ passwordKey[job.mail] = IF job.step = "newPassword" THEN NoPassword
                               ELSE IF job.step = "record" THEN job.person.password
                               ELSE record[job.mail].password

DeleteUnderway ==
    /\ job.step \in {"name", "password", "index", "record"}
    /\ NamesAre(job.mail, IF job.step = "name" THEN {job.person.name} ELSE {})
    /\ job.step \in {"index", "record"} => passwordKey[job.mail] = NoPassword

Underway ==
    job # Idle /\ job.mail \notin torn =>
        /\ job.op = "save" => SaveUnderway
        /\ job.op = "update" => UpdateUnderway
        /\ job.op = "delete" => DeleteUnderway

KeyInv == IdInv /\ OthersComplete /\ Underway

(* A step of a request leaves the keys of all other mails alone.             *)
OnlyAt(m0) ==
    \A m \in Mail \ {m0} :
        /\ record'[m] = record[m] /\ passwordKey'[m] = passwordKey[m]
        /\ \A n \in Name : <<n, m>> \in nameKeys' <=> <<n, m>> \in nameKeys
        /\ record[m].id # 0 => idKey'[record[m].id] = idKey[record[m].id]

(* What a step leaves alone stays complete.                                  *)
LEMMA CompleteKept ==
    ASSUME NEW m0, OnlyAt(m0), NEW m \in Mail, m # m0, Complete(m)
    PROVE  Complete(m)'
  BY DEF OnlyAt, Complete, userExistsMail

(* A request begins: until then its mail was complete as well.               *)
LEMMA Beginning ==
    ASSUME KeyInv, IdInv', job = Idle, job' # Idle, NEW m0 \in Mail, OnlyAt(m0),
           job'.mail = m0, torn \subseteq torn', Underway'
    PROVE  KeyInv'
  <1>1. ASSUME NEW m \in Mail \ torn', m # job'.mail
        PROVE  Complete(m)'
    BY <1>1, CompleteKept DEF KeyInv, OthersComplete
  <1>2. QED
    BY <1>1 DEF KeyInv, OthersComplete

(* The request goes on with its next step.                                   *)
LEMMA GoingOn ==
    ASSUME KeyInv, IdInv', job # Idle, job' # Idle, OnlyAt(job.mail),
           job'.mail = job.mail, torn \subseteq torn', Underway'
    PROVE  KeyInv'
  <1>1. ASSUME NEW m \in Mail \ torn', m # job'.mail
        PROVE  Complete(m)'
    BY <1>1, CompleteKept DEF KeyInv, OthersComplete
  <1>2. QED
    BY <1>1 DEF KeyInv, OthersComplete

(* The request ends, and its mail's keys are complete or given up.           *)
LEMMA Ending ==
    ASSUME KeyInv, IdInv', job # Idle, job' = Idle, NEW m0 \in Mail,
           job.mail = m0, OnlyAt(m0), torn \subseteq torn',
           m0 \notin torn' => Complete(m0)'
    PROVE  KeyInv'
  <1>1. ASSUME NEW m \in Mail \ torn'
        PROVE  Complete(m)'
    <2>1. CASE m = m0
      BY <2>1
    <2>2. CASE m # m0
      BY <2>2, CompleteKept DEF KeyInv, OthersComplete
    <2>3. QED
      BY <2>1, <2>2
  <1>2. QED
    BY <1>1 DEF KeyInv, OthersComplete, Underway

(* Nothing but the request in progress changes, or its mail is given up.     *)
LEMMA GivingUp ==
    ASSUME KeyInv, IdInv', job \in Job, job # Idle, job' = Idle,
           UNCHANGED <<record, idKey, nameKeys, passwordKey>>,
           torn' = torn \cup {job.mail}
    PROVE  KeyInv'
  <1>1. job.mail \in Mail
    BY DEF Job
  <1>2. OnlyAt(job.mail)
    BY DEF OnlyAt
  <1>3. QED
    BY <1>1, <1>2, Ending

(* The three requests begin with the keys of their mail complete.            *)
LEMMA BeginKeys ==
    ASSUME KeyInv, IdInv',
           \/ \E m \in Mail, n \in Name, p \in Password, stored \in IdPutOutcomes :
                 BeginSavePerson(m, n, p, stored)
           \/ \E i \in Id, n \in Name, p \in Password : BeginUpdateUser(i, n, p)
           \/ \E i \in Id, done \in BOOLEAN : BeginDeletePerson(i, done)
    PROVE  KeyInv'
  <1>t. TypeOK /\ IdKeysSound /\ UniqueIds /\ FailedAreTorn
    BY OwnersUnique DEF KeyInv, IdInv
  <1>1. ASSUME NEW m \in Mail, NEW n \in Name, NEW p \in Password,
               NEW stored \in IdPutOutcomes, BeginSavePerson(m, n, p, stored)
        PROVE  KeyInv'
    <2>1. /\ job = Idle /\ record[m].id = 0 /\ torn' = torn
          /\ job'.op = "save" /\ job'.step = "record" /\ job'.mail = m
          /\ UNCHANGED <<record, idKey, nameKeys, passwordKey>>
      BY <1>1 DEF BeginSavePerson, userExistsMail
    <2>2. OnlyAt(m)
      BY <2>1 DEF OnlyAt
    <2>3. ASSUME m \notin torn
          PROVE  SaveUnderway'
      <3>1. Complete(m)
        BY <2>1, <2>3 DEF KeyInv, OthersComplete
      <3>2. /\ passwordKey[m] = NoPassword
            /\ \A x \in Name : <<x, m>> \notin nameKeys
        BY <2>1, <3>1 DEF Complete, userExistsMail
      <3>3. QED
        BY <2>1, <3>2 DEF SaveUnderway, NamesAre
    <2>4. Underway' /\ job' # Idle
      BY <2>1, <2>3 DEF Underway, Idle
    <2>5. QED
      BY <2>1, <2>2, <2>4, Beginning
  <1>2. ASSUME NEW i \in Id, NEW n \in Name, NEW p \in Password,
               BeginUpdateUser(i, n, p)
        PROVE  KeyInv'
    <2>m. PICK m \in Mail : m = idKey[i]
      BY <1>2, <1>t DEF BeginUpdateUser, userExists, TypeOK
    <2>1. /\ job = Idle /\ record[m].id # 0 /\ torn' = torn
          /\ job'.op = "update" /\ job'.mail = m /\ job'.person.id = i
          /\ job'.person.name = n
          /\ job'.step = IF n = record[m].name THEN "index" ELSE "oldName"
          /\ UNCHANGED <<record, idKey, nameKeys, passwordKey>>
      BY <1>2, <2>m DEF BeginUpdateUser, userExistsMail
    <2>2. OnlyAt(m)
      BY <2>1 DEF OnlyAt
    <2>3. ASSUME m \notin torn
          PROVE  UpdateUnderway'
      <3>1. Complete(m)
        BY <2>1, <2>3 DEF KeyInv, OthersComplete
      <3>2. /\ passwordKey[m] = record[m].password
            /\ \A x \in Name : <<x, m>> \in nameKeys <=> x = record[m].name
        BY <2>1, <3>1 DEF Complete, userExistsMail
      <3>3. NamesAre(m, {record[m].name})'
        BY <2>1, <3>2 DEF NamesAre
      <3>4. QED
        BY <2>1, <2>m, <3>2, <3>3 DEF UpdateUnderway, NamesAre
    <2>4. Underway' /\ job' # Idle
      BY <2>1, <2>3 DEF Underway, Idle
    <2>5. QED
      BY <2>1, <2>2, <2>4, Beginning
  <1>3. ASSUME NEW i \in Id, NEW done \in BOOLEAN, BeginDeletePerson(i, done)
        PROVE  KeyInv'
    <2>m. PICK m \in Mail : m = idKey[i]
      BY <1>3, <1>t DEF BeginDeletePerson, userExists, TypeOK
    <2>1. /\ job = Idle /\ record[m].id # 0 /\ torn \subseteq torn'
          /\ job'.op = "delete" /\ job'.mail = m /\ job'.person = record[m]
          /\ job'.step = "name"
          /\ idKey' = idKey \/ idKey' = [idKey EXCEPT ![record[m].id] = NoMail]
          /\ UNCHANGED <<record, nameKeys, passwordKey>>
      BY <1>3, <2>m DEF BeginDeletePerson, userExistsMail
    <2>2. OnlyAt(m)
      <3>1. ASSUME NEW x \in Mail \ {m}, record[x].id # 0
            PROVE  idKey'[record[x].id] = idKey[record[x].id]
        <4>1. record[x].id # record[m].id
          BY <1>t, <2>1, <3>1 DEF UniqueIds, userExistsMail
        <4>2. record[x].id \in Id
          BY <1>t, <3>1 DEF TypeOK, Person, Id
        <4>3. QED
          BY <1>t, <2>1, <4>1, <4>2 DEF TypeOK
      <3>2. QED
        BY <2>1, <3>1 DEF OnlyAt
    <2>3. ASSUME m \notin torn'
          PROVE  DeleteUnderway'
      <3>1. Complete(m)
        BY <2>1, <2>3 DEF KeyInv, OthersComplete
      <3>2. \A x \in Name : <<x, m>> \in nameKeys <=> x = record[m].name
        BY <2>1, <3>1 DEF Complete, userExistsMail
      <3>3. QED
        BY <2>1, <3>2 DEF DeleteUnderway, NamesAre
    <2>4. Underway' /\ job' # Idle
      BY <2>1, <2>3 DEF Underway, Idle
    <2>5. QED
      BY <2>1, <2>2, <2>4, Beginning
  <1>4. QED
    BY <1>1, <1>2, <1>3

(* A registration writes its keys one after the other.                       *)
LEMMA SaveKeys ==
    ASSUME KeyInv, IdInv', Save
    PROVE  KeyInv'
  <1>t. TypeOK /\ TypeOK'
    BY DEF KeyInv, IdInv
  <1>o. job.op = "save"
    BY DEF Save, SaveUser, SaveUserNameKey, SaveUserIdKey,
           SaveUserPasswordKey, FinishSavePerson, Busy
  <1>m. PICK m \in Mail, q \in Person : m = job.mail /\ q = job.person
    BY <1>t, <1>o, BusyJob
  <1>j. /\ job.op = "save" /\ job \in Job /\ job # Idle
        /\ q.name \in Name /\ q.id \in 0 .. MaxId
    BY <1>t, <1>o, <1>m, BusyJob
  <1>u. m \notin torn => SaveUnderway
    BY <1>j, <1>m DEF KeyInv, Underway
  <1>s. q.id = lastID /\ lastID # 0
    BY <1>j, <1>m DEF KeyInv, IdInv, SaveSound
  <1>g. ASSUME NEW step \in Steps, Goto(step), torn' = torn, OnlyAt(m),
               m \notin torn => SaveUnderway'
        PROVE  KeyInv'
    <2>1. job'.op = "save" /\ job' # Idle /\ job'.mail = m
      BY <1>g, <1>j, <1>m, GotoJob DEF Idle
    <2>2. Underway'
      BY <1>g, <2>1 DEF Underway
    <2>3. QED
      BY <1>g, <1>j, <1>m, <2>1, <2>2, GoingOn
  <1>1. CASE SaveUser
    <2>1. /\ job.step = "record" /\ job'.step = "name" /\ torn' = torn
          /\ job'.mail = m /\ job'.person = q /\ Goto("name")
          /\ record' = [record EXCEPT ![m] = q]
          /\ UNCHANGED <<idKey, nameKeys, passwordKey>>
      BY <1>1, <1>j, <1>m, GotoJob DEF SaveUser, Busy, Steps
    <2>2. \A x \in Mail : record'[x] = IF x = m THEN q ELSE record[x]
      BY <1>t, <2>1 DEF TypeOK
    <2>3. OnlyAt(m)
      BY <2>1, <2>2 DEF OnlyAt
    <2>4. m \notin torn => SaveUnderway'
      BY <1>u, <1>j, <1>m, <2>1, <2>2 DEF SaveUnderway, NamesAre
    <2>5. QED
      BY <1>g, <2>1, <2>3, <2>4 DEF Steps
  <1>2. CASE SaveUserNameKey
    <2>1. /\ job.step = "name" /\ job'.step = "id" /\ torn' = torn
          /\ job'.mail = m /\ job'.person = q /\ Goto("id")
          /\ nameKeys' = nameKeys \cup {<<q.name, m>>}
          /\ UNCHANGED <<idKey, record, passwordKey>>
      BY <1>2, <1>j, <1>m, GotoJob DEF SaveUserNameKey, Busy, Steps
    <2>3. OnlyAt(m)
      BY <2>1 DEF OnlyAt
    <2>4. m \notin torn => SaveUnderway'
      BY <1>u, <1>j, <1>m, <2>1 DEF SaveUnderway, NamesAre
    <2>5. QED
      BY <1>g, <2>1, <2>3, <2>4 DEF Steps
  <1>3. CASE SaveUserIdKey
    <2>1. /\ job.step = "id" /\ job'.step = "password" /\ torn' = torn
          /\ job'.mail = m /\ job'.person = q /\ Goto("password")
          /\ idKey' = [idKey EXCEPT ![q.id] = m]
          /\ UNCHANGED <<nameKeys, record, passwordKey>>
      BY <1>3, <1>j, <1>m, GotoJob DEF SaveUserIdKey, Busy, Steps
    <2>2. \A i \in Id : idKey'[i] = IF i = q.id THEN m ELSE idKey[i]
      BY <1>t, <2>1 DEF TypeOK
    <2>3. OnlyAt(m)
      <3>1. ASSUME NEW x \in Mail \ {m}, record[x].id # 0
            PROVE  record[x].id # q.id /\ record[x].id \in Id
        <4>1. record[x].id \in Id
          BY <1>t, <3>1 DEF TypeOK, Person, Id
        <4>2. QED
          BY <1>m, <1>j, <3>1, <4>1 DEF KeyInv, IdInv, OneOwner, Owned
      <3>2. QED
        BY <2>1, <2>2, <3>1 DEF OnlyAt
    <2>4. m \notin torn => SaveUnderway'
      <3>1. q.id \in Id
        BY <1>j, <1>s DEF Id
      <3>2. QED
        BY <1>u, <1>j, <1>m, <2>1, <2>2, <3>1 DEF SaveUnderway, NamesAre
    <2>5. QED
      BY <1>g, <2>1, <2>3, <2>4 DEF Steps
  <1>4. CASE SaveUserPasswordKey
    <2>1. /\ job.step = "password" /\ job'.step = "index" /\ torn' = torn
          /\ job'.mail = m /\ job'.person = q /\ Goto("index")
          /\ passwordKey' = [passwordKey EXCEPT ![m] = q.password]
          /\ UNCHANGED <<nameKeys, record, idKey>>
      BY <1>4, <1>j, <1>m, GotoJob DEF SaveUserPasswordKey, Busy, Steps
    <2>2. \A x \in Mail : passwordKey'[x] = IF x = m THEN q.password ELSE passwordKey[x]
      BY <1>t, <2>1 DEF TypeOK
    <2>3. OnlyAt(m)
      BY <2>1, <2>2 DEF OnlyAt
    <2>4. m \notin torn => SaveUnderway'
      BY <1>u, <1>j, <1>m, <2>1, <2>2 DEF SaveUnderway, NamesAre
    <2>5. QED
      BY <1>g, <2>1, <2>3, <2>4 DEF Steps
  <1>5. CASE FinishSavePerson
    <2>1. /\ job.step = "index" /\ job' = Idle
          /\ UNCHANGED <<torn, nameKeys, record, idKey, passwordKey>>
      BY <1>5 DEF FinishSavePerson, Busy
    <2>2. OnlyAt(m)
      BY <2>1 DEF OnlyAt
    <2>3. ASSUME m \notin torn
          PROVE  Complete(m)'
      <3>1. /\ record[m] = q /\ idKey[q.id] = m /\ passwordKey[m] = q.password
            /\ NamesAre(m, {q.name}) /\ q.id # 0
        BY <1>u, <1>s, <1>m, <2>1, <2>3 DEF SaveUnderway
      <3>2. QED
        BY <2>1, <3>1 DEF Complete, NamesAre, userExistsMail
    <2>4. QED
      BY <1>j, <1>m, <2>1, <2>2, <2>3, Ending
  <1>6. QED
    BY <1>1, <1>2, <1>3, <1>4, <1>5 DEF Save

(* An update replaces the name key and the password key, then the record.    *)
LEMMA UpdateKeys ==
    ASSUME KeyInv, IdInv', Update
    PROVE  KeyInv'
  <1>t. TypeOK /\ TypeOK'
    BY DEF KeyInv, IdInv
  <1>o. job.op = "update"
    BY DEF Update, UpdateNameDelete, UpdateNameSave, UpdateIndexes,
           UpdatePasswordDelete, UpdatePasswordSave, FinishUpdateUser, Busy
  <1>m. PICK m \in Mail, q \in Person : m = job.mail /\ q = job.person
    BY <1>t, <1>o, BusyJob
  <1>j. job \in Job /\ job # Idle /\ q.name \in Name
    BY <1>t, <1>o, <1>m, BusyJob
  <1>u. m \notin torn => UpdateUnderway
    BY <1>j, <1>m, <1>o DEF KeyInv, Underway
  <1>s. q.id # 0
    BY <1>m, <1>o DEF KeyInv, IdInv, UpdateSound
  <1>g. ASSUME NEW step \in Steps, Goto(step), torn' = torn, OnlyAt(m),
               m \notin torn => UpdateUnderway'
        PROVE  KeyInv'
    <2>1. job'.op = "update" /\ job' # Idle /\ job'.mail = m
      BY <1>g, <1>j, <1>m, <1>o, GotoJob DEF Idle
    <2>2. Underway'
      BY <1>g, <2>1 DEF Underway
    <2>3. QED
      BY <1>g, <1>j, <1>m, <2>1, <2>2, GoingOn
  <1>1. CASE UpdateNameDelete
    <2>1. /\ job.step = "oldName" /\ job'.step = "newName" /\ torn' = torn
          /\ job'.mail = m /\ job'.person = q /\ Goto("newName")
          /\ nameKeys' = nameKeys \ {<<record[m].name, m>>}
          /\ UNCHANGED <<idKey, record, passwordKey>>
      BY <1>1, <1>j, <1>m, GotoJob DEF UpdateNameDelete, Busy, Steps
    <2>2. OnlyAt(m)
      BY <2>1 DEF OnlyAt
    <2>3. m \notin torn => UpdateUnderway'
      BY <1>u, <1>m, <2>1 DEF UpdateUnderway, NamesAre
    <2>4. QED
      BY <1>g, <2>1, <2>2, <2>3 DEF Steps
  <1>2. CASE UpdateNameSave
    <2>1. /\ job.step = "newName" /\ job'.step = "index" /\ torn' = torn
          /\ job'.mail = m /\ job'.person = q /\ Goto("index")
          /\ nameKeys' = nameKeys \cup {<<q.name, m>>}
          /\ UNCHANGED <<idKey, record, passwordKey>>
      BY <1>2, <1>j, <1>m, GotoJob DEF UpdateNameSave, Busy, Steps
    <2>2. OnlyAt(m)
      BY <2>1 DEF OnlyAt
    <2>3. m \notin torn => UpdateUnderway'
      BY <1>u, <1>j, <1>m, <2>1 DEF UpdateUnderway, NamesAre
    <2>4. QED
      BY <1>g, <2>1, <2>2, <2>3 DEF Steps
  <1>3. CASE UpdateIndexes
    <2>1. PICK step \in {"record", "oldPassword"} :
             /\ Goto(step)
             /\ step = IF q.password = record[m].password THEN "record"
                       ELSE "oldPassword"
      BY <1>3, <1>m DEF UpdateIndexes
    <2>2. /\ job.step = "index" /\ job'.step = step /\ torn' = torn
          /\ job'.mail = m /\ job'.person = q
          /\ UNCHANGED <<idKey, record, passwordKey, nameKeys>>
      BY <1>3, <1>j, <1>m, <2>1, GotoJob DEF UpdateIndexes, Busy, Steps
    <2>3. OnlyAt(m)
      BY <2>2 DEF OnlyAt
    <2>4. m \notin torn => UpdateUnderway'
      BY <1>u, <1>m, <2>1, <2>2 DEF UpdateUnderway, NamesAre
    <2>5. QED
      BY <1>g, <2>1, <2>2, <2>3, <2>4 DEF Steps
  <1>4. CASE UpdatePasswordDelete
    <2>1. /\ job.step = "oldPassword" /\ job'.step = "newPassword"
          /\ job'.mail = m /\ job'.person = q /\ Goto("newPassword")
          /\ passwordKey' = [passwordKey EXCEPT ![m] = NoPassword]
          /\ torn' = torn /\ UNCHANGED <<idKey, record, nameKeys>>
      BY <1>4, <1>j, <1>m, GotoJob DEF UpdatePasswordDelete, Busy, Steps
    <2>2. \A x \in Mail : passwordKey'[x] = IF x = m THEN NoPassword ELSE passwordKey[x]
      BY <1>t, <2>1 DEF TypeOK
    <2>3. OnlyAt(m)
      BY <2>1, <2>2 DEF OnlyAt
    <2>4. m \notin torn => UpdateUnderway'
      BY <1>u, <1>m, <2>1, <2>2 DEF UpdateUnderway, NamesAre
    <2>5. QED
      BY <1>g, <2>1, <2>3, <2>4 DEF Steps
  <1>5. CASE UpdatePasswordSave
    <2>1. /\ job.step = "newPassword" /\ job'.step = "record"
          /\ job'.mail = m /\ job'.person = q /\ Goto("record")
          /\ passwordKey' = [passwordKey EXCEPT ![m] = q.password]
          /\ torn' = torn /\ UNCHANGED <<idKey, record, nameKeys>>
      BY <1>5, <1>j, <1>m, GotoJob DEF UpdatePasswordSave, Busy, Steps
    <2>2. \A x \in Mail : passwordKey'[x] = IF x = m THEN q.password ELSE passwordKey[x]
      BY <1>t, <2>1 DEF TypeOK
    <2>3. OnlyAt(m)
      BY <2>1, <2>2 DEF OnlyAt
    <2>4. m \notin torn => UpdateUnderway'
      BY <1>u, <1>m, <2>1, <2>2 DEF UpdateUnderway, NamesAre
    <2>5. QED
      BY <1>g, <2>1, <2>3, <2>4 DEF Steps
  <1>6. CASE FinishUpdateUser
    <2>1. /\ job.step = "record" /\ job' = Idle
          /\ record' = [record EXCEPT ![m] = q]
          /\ UNCHANGED <<torn, nameKeys, idKey, passwordKey>>
      BY <1>6, <1>m DEF FinishUpdateUser, Busy
    <2>2. \A x \in Mail : record'[x] = IF x = m THEN q ELSE record[x]
      BY <1>t, <2>1 DEF TypeOK
    <2>3. OnlyAt(m)
      BY <2>1, <2>2 DEF OnlyAt
    <2>4. ASSUME m \notin torn
          PROVE  Complete(m)'
      <3>1. /\ idKey[q.id] = m /\ passwordKey[m] = q.password
            /\ NamesAre(m, {q.name})
        BY <1>u, <1>m, <2>1, <2>4 DEF UpdateUnderway
      <3>2. QED
        BY <1>s, <2>1, <2>2, <3>1 DEF Complete, NamesAre, userExistsMail
    <2>5. QED
      BY <1>j, <1>m, <2>1, <2>3, <2>4, Ending
  <1>7. QED
    BY <1>1, <1>2, <1>3, <1>4, <1>5, <1>6 DEF Update

(* A deletion removes the keys of its mail, the record last.                 *)
LEMMA DeleteKeys ==
    ASSUME KeyInv, IdInv', Delete
    PROVE  KeyInv'
  <1>t. TypeOK /\ TypeOK'
    BY DEF KeyInv, IdInv
  <1>o. job.op = "delete"
    BY DEF Delete, DeleteUserNameKey, DeleteUserPasswordKey, DeleteIndexes,
           FinishDeletePerson, Busy
  <1>m. PICK m \in Mail, q \in Person : m = job.mail /\ q = job.person
    BY <1>t, <1>o, BusyJob
  <1>j. job \in Job /\ job # Idle
    BY <1>t, <1>o, BusyJob
  <1>u. m \notin torn => DeleteUnderway
    BY <1>j, <1>m, <1>o DEF KeyInv, Underway
  <1>g. ASSUME NEW step \in Steps, Goto(step), torn' = torn, OnlyAt(m),
               m \notin torn => DeleteUnderway'
        PROVE  KeyInv'
    <2>1. job'.op = "delete" /\ job' # Idle /\ job'.mail = m
      BY <1>g, <1>j, <1>m, <1>o, GotoJob DEF Idle
    <2>2. Underway'
      BY <1>g, <2>1 DEF Underway
    <2>3. QED
      BY <1>g, <1>j, <1>m, <2>1, <2>2, GoingOn
  <1>1. CASE DeleteUserNameKey
    <2>1. /\ job.step = "name" /\ job'.step = "password" /\ torn' = torn
          /\ job'.mail = m /\ job'.person = q /\ Goto("password")
          /\ nameKeys' = nameKeys \ {<<q.name, m>>}
          /\ UNCHANGED <<idKey, record, passwordKey>>
      BY <1>1, <1>j, <1>m, GotoJob DEF DeleteUserNameKey, Busy, Steps
    <2>2. OnlyAt(m)
      BY <2>1 DEF OnlyAt
    <2>3. m \notin torn => DeleteUnderway'
      BY <1>u, <1>m, <2>1 DEF DeleteUnderway, NamesAre
    <2>4. QED
      BY <1>g, <2>1, <2>2, <2>3 DEF Steps
  <1>2. CASE DeleteUserPasswordKey
    <2>1. /\ job.step = "password" /\ job'.step = "index"
          /\ job'.mail = m /\ job'.person = q /\ Goto("index")
          /\ passwordKey' = [passwordKey EXCEPT ![m] = NoPassword]
          /\ torn' = torn /\ UNCHANGED <<idKey, record, nameKeys>>
      BY <1>2, <1>j, <1>m, GotoJob DEF DeleteUserPasswordKey, Busy, Steps
    <2>2. \A x \in Mail : passwordKey'[x] = IF x = m THEN NoPassword ELSE passwordKey[x]
      BY <1>t, <2>1 DEF TypeOK
    <2>3. OnlyAt(m)
      BY <2>1, <2>2 DEF OnlyAt
    <2>4. m \notin torn => DeleteUnderway'
      BY <1>u, <1>m, <2>1, <2>2 DEF DeleteUnderway, NamesAre
    <2>5. QED
      BY <1>g, <2>1, <2>3, <2>4 DEF Steps
  <1>3. CASE DeleteIndexes
    <2>1. /\ job.step = "index" /\ job'.step = "record" /\ torn' = torn
          /\ job'.mail = m /\ job'.person = q /\ Goto("record")
          /\ UNCHANGED <<idKey, record, passwordKey, nameKeys>>
      BY <1>3, <1>j, <1>m, GotoJob DEF DeleteIndexes, Busy, Steps
    <2>2. OnlyAt(m)
      BY <2>1 DEF OnlyAt
    <2>3. m \notin torn => DeleteUnderway'
      BY <1>u, <1>m, <2>1 DEF DeleteUnderway, NamesAre
    <2>4. QED
      BY <1>g, <2>1, <2>2, <2>3 DEF Steps
  <1>4. CASE FinishDeletePerson
    <2>1. /\ job.step = "record" /\ job' = Idle
          /\ record' = [record EXCEPT ![m] = NoPerson]
          /\ UNCHANGED <<torn, nameKeys, idKey, passwordKey>>
      BY <1>4, <1>m DEF FinishDeletePerson, Busy
    <2>2. \A x \in Mail : record'[x] = IF x = m THEN NoPerson ELSE record[x]
      BY <1>t, <2>1 DEF TypeOK
    <2>3. OnlyAt(m)
      BY <2>1, <2>2 DEF OnlyAt
    <2>4. ASSUME m \notin torn
          PROVE  Complete(m)'
      <3>1. passwordKey[m] = NoPassword /\ NamesAre(m, {})
        BY <1>u, <1>m, <2>1, <2>4 DEF DeleteUnderway
      <3>2. NoPerson.id = 0 /\ record'[m] = NoPerson
        BY <2>2 DEF NoPerson
      <3>3. QED
        BY <2>1, <3>1, <3>2 DEF Complete, NamesAre, userExistsMail
    <2>5. QED
      BY <1>j, <1>m, <2>1, <2>3, <2>4, Ending
  <1>5. QED
    BY <1>1, <1>2, <1>3, <1>4 DEF Delete

(* A request that dies or is abandoned gives its mail up, unless it had not  *)
(* written anything yet.                                                     *)
LEMMA LostKeys ==
    ASSUME KeyInv, IdInv', IndexesThrow \/ Crash
    PROVE  KeyInv'
  <1>t. TypeOK
    BY DEF KeyInv, IdInv
  <1>j. job # Idle /\ job \in Job
    BY <1>t DEF IndexesThrow, Crash, Busy, Idle, TypeOK
  <1>1. CASE torn' = torn \cup {job.mail}
    BY <1>1, <1>j, GivingUp DEF IndexesThrow, Crash
  <1>2. CASE torn' # torn \cup {job.mail}
    <2>1. /\ job.op = "save" /\ job.step = "record" /\ job' = Idle
          /\ UNCHANGED <<torn, record, idKey, nameKeys, passwordKey>>
      BY <1>2 DEF IndexesThrow, Crash, Busy
    <2>2. PICK m \in Mail : m = job.mail
      BY <1>j DEF Job
    <2>3. record[m].id = 0
      BY <2>1, <2>2 DEF KeyInv, IdInv, SaveSound
    <2>4. OnlyAt(m)
      BY <2>1 DEF OnlyAt
    <2>5. ASSUME m \notin torn
          PROVE  Complete(m)'
      <3>1. SaveUnderway
        BY <1>j, <2>1, <2>2, <2>5 DEF KeyInv, Underway
      <3>2. passwordKey[m] = NoPassword /\ NamesAre(m, {})
        BY <2>1, <2>2, <3>1 DEF SaveUnderway
      <3>3. QED
        BY <2>1, <2>3, <3>2 DEF Complete, NamesAre, userExistsMail
    <2>6. QED
      BY <1>j, <2>1, <2>2, <2>4, <2>5, Ending
  <1>3. QED
    BY <1>1, <1>2

(* A failed write gives the mail of the request up, which goes on or ends.   *)
LEMMA FailedKeys ==
    ASSUME KeyInv, IdInv', WriteFails
    PROVE  KeyInv'
  <1>1. TypeOK
    BY DEF KeyInv, IdInv
  <1>2. job \in Job /\ job # Idle /\ job.mail \in Mail
    BY <1>1, WriteFailsJob
  <1>3. /\ UNCHANGED <<record, idKey, nameKeys, passwordKey>>
        /\ torn' = torn \cup {job.mail}
    BY DEF WriteFails
  <1>4. CASE job' = Idle
    BY <1>2, <1>3, <1>4, GivingUp
  <1>5. ASSUME NEW step \in Steps, Goto(step) PROVE KeyInv'
    <2>1. job'.mail = job.mail /\ job' # Idle
      <3>1. job' \in Job /\ job'.mail = job.mail
        BY <1>2, <1>5, GotoJob
      <3>2. QED
        BY <3>1 DEF Job, Idle
    <2>2. OnlyAt(job.mail)
      BY <1>3 DEF OnlyAt
    <2>3. Underway'
      BY <1>3, <2>1 DEF Underway
    <2>4. QED
      BY <1>2, <1>3, <2>1, <2>2, <2>3, GoingOn
  <1>6. QED
    BY <1>1, <1>4, <1>5, WriteFailsJob

(* A refused request and a stuttering step change no key.                    *)
LEMMA SameKeys ==
    ASSUME KeyInv, UNCHANGED vars
    PROVE  OthersComplete' /\ Underway'
  <1>1. UNCHANGED <<lastID, record, idKey, nameKeys, passwordKey, job, torn, failed,
                    retired>>
    BY DEF vars
  <1>2. OthersComplete'
    BY <1>1 DEF KeyInv, OthersComplete, Complete, userExistsMail
  <1>3. SaveUnderway' = SaveUnderway /\ UpdateUnderway' = UpdateUnderway
        /\ DeleteUnderway' = DeleteUnderway
    BY <1>1 DEF SaveUnderway, UpdateUnderway, DeleteUnderway, NamesAre
  <1>4. QED
    BY <1>1, <1>2, <1>3 DEF KeyInv, Underway

(* Every step keeps the invariant about the keys of an account.              *)
LEMMA KeyStep ==
    ASSUME IdPutOutcomes = {TRUE} PROVE KeyInv /\ [Next]_vars => KeyInv'
  <1> SUFFICES ASSUME KeyInv, [Next]_vars PROVE KeyInv'
    OBVIOUS
  <1>1. IdInv'
    BY IdStep DEF KeyInv
  <1>2. CASE UNCHANGED vars
    BY <1>1, <1>2, SameKeys DEF KeyInv
  <1>3. QED
    BY <1>1, <1>2, BeginKeys, SaveKeys, UpdateKeys, DeleteKeys, LostKeys,
       FailedKeys
       DEF Next, RefusedRequest

(* In the empty store every mail has none of the keys.                       *)
LEMMA InitKeys == Init => KeyInv
  <1> SUFFICES ASSUME Init PROVE KeyInv
    OBVIOUS
  <1>1. \A m \in Mail : Complete(m)
    BY DEF Init, Complete, NoPerson, userExistsMail
  <1>2. QED
    BY <1>1, InitId DEF Init, KeyInv, OthersComplete, Underway

(***************************************************************************)
(* Between requests every account that no lost write left uneven has all   *)
(* of its keys or none, telling the same name and password: no order of    *)
(* registrations, changes and deletions, and no crash or exception in a    *)
(* request for another mail, disturbs them.                                *)
(***************************************************************************)
THEOREM AccountsComplete ==
    ASSUME IdPutOutcomes = {TRUE} PROVE Spec => []AccountComplete
  <1>1. KeyInv /\ [Next]_vars => KeyInv'
    BY KeyStep
  <1>2. KeyInv => AccountComplete
    BY DEF KeyInv, OthersComplete, Complete, AccountComplete
  <1>3. QED
    BY <1>1, <1>2, InitKeys, PTL DEF Spec
=============================================================================
