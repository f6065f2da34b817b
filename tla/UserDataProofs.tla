---------------------------- MODULE UserDataProofs ----------------------------
(***************************************************************************)
(* Proofs about UserData, for any phones, pictures, uploads and bounds.    *)
(* What the two properties say of files and pushes holds because it holds  *)
(* of every request and attempt, wherever it is: of a request that waits   *)
(* it speaks of the picture the phone holds, which getBody has yet to read,*)
(* of an attempt on its way it speaks of the picture that was read.        *)
(***************************************************************************)
EXTENDS UserData, TLAPS

(* Picture p may be stored under id i, phone d used for pushes to i.         *)
MayShow(i, p) == p \in Picture => <<i, p>> \in chosen \cup swapped

MayPush(i, d) == <<i, d>> \in used

(* A request that waits, and an attempt that was sent.                       *)
Sound(r) ==
    /\ r.attempts < MaxAttempts
    /\ r.do = "putPicture" => MayShow(r.user, photo[r.phone])
    /\ r.do = "token" => MayPush(r.user, r.phone)

SoundAttempt(w) ==
    /\ w.request.do = "putPicture" => MayShow(w.request.user, w.picture)
    /\ w.request.do = "token" => MayPush(w.request.user, w.request.phone)

RequestsSound == \A r \in queued : Sound(r)

AttemptsSound ==
    /\ \A w \in wire : SoundAttempt(w)
    /\ job # Idle => job.attempt.request.do = "putPicture" /\ SoundAttempt(job.attempt)

TokensSound == \A i \in Id : tokenKey[i] \in Phone => MayPush(i, tokenKey[i])

IInv ==
    /\ TypeOK
    /\ RequestsSound
    /\ AttemptsSound
    /\ TokensSound
    /\ OwnPictures
    /\ PushToOwnPhone

-----------------------------------------------------------------------------
(* The empty server and phones without users satisfy the invariant.          *)
LEMMA InitInv == Init => IInv
<1> SUFFICES ASSUME Init PROVE IInv
  OBVIOUS
<1> USE BoundsAssumption, NoneAssumption DEF Init
<1>1. TypeOK
  BY DEF TypeOK, Id, Content
<1>2. RequestsSound /\ AttemptsSound /\ TokensSound
  BY DEF RequestsSound, AttemptsSound, TokensSound
<1>3. OwnPictures /\ PushToOwnPhone
  BY DEF OwnPictures, PushToOwnPhone
<1>4. QED
  BY <1>1, <1>2, <1>3 DEF IInv

(* The queue after Queue: the old requests and a new one.                    *)
LEMMA QueueInv ==
    ASSUME IInv, NEW do \in {"token", "putPicture", "deletePicture"}, NEW i \in Id,
           NEW d \in Phone, Queue(do, i, d)
    PROVE  /\ queued' \in SUBSET Request /\ count' \in 0 .. MaxRequests
           /\ \A r \in queued' \ queued : r.attempts < MaxAttempts /\ r.do = do
                                          /\ r.user = i /\ r.phone = d
<1> DEFINE new == [no |-> count + 1, do |-> do, user |-> i, phone |-> d, attempts |-> 0]
<1>1. count' \in 1 .. MaxRequests /\ queued' = queued \cup {new}
  BY BoundsAssumption DEF IInv, TypeOK, Queue
<1>2. new \in Request /\ new.attempts < MaxAttempts
  BY <1>1, BoundsAssumption DEF Queue, Request
<1>3. QED
  BY <1>1, <1>2 DEF IInv, TypeOK

(* Attempts stay sound when there are no new ones and the history grows.     *)
LEMMA AttemptsKept ==
    ASSUME IInv, wire' \subseteq wire, job' = Idle \/ job' = job,
           used \subseteq used', chosen \subseteq chosen', swapped \subseteq swapped'
    PROVE  AttemptsSound'
<1>1. \A i, p : MayShow(i, p) => MayShow(i, p)'
  BY DEF MayShow
<1>2. \A i, d : MayPush(i, d) => MayPush(i, d)'
  BY DEF MayPush
<1>3. \A w : SoundAttempt(w) => SoundAttempt(w)'
  BY <1>1, <1>2 DEF SoundAttempt
<1>4. \A w \in wire' : SoundAttempt(w)'
  BY <1>3 DEF IInv, AttemptsSound
<1>5. job' # Idle => job'.attempt.request.do = "putPicture" /\ SoundAttempt(job.attempt)'
  BY <1>3 DEF IInv, AttemptsSound
<1>6. job' # Idle => job'.attempt.request.do = "putPicture" /\ SoundAttempt(job.attempt)' /\ job' = job
  BY <1>5
<1>7. QED
  BY <1>4, <1>6 DEF AttemptsSound, SoundAttempt, MayShow, MayPush, Idle

(* Requests stay sound when none is added and the phones keep their file.    *)
LEMMA RequestsKept ==
    ASSUME IInv, queued' \subseteq queued, UNCHANGED <<photo, past>>
    PROVE  RequestsSound'
BY DEF IInv, RequestsSound, Sound, MayShow, MayPush, past

(* The rest of the invariant when tokens, files and pushes are left alone.   *)
LEMMA StoresKept ==
    ASSUME IInv, UNCHANGED <<tokenKey, file, pushes>>,
           used \subseteq used', chosen \subseteq chosen', swapped \subseteq swapped'
    PROVE  TokensSound' /\ OwnPictures' /\ PushToOwnPhone'
BY DEF IInv, TokensSound, MayPush, OwnPictures, PushToOwnPhone

-----------------------------------------------------------------------------
(* Steps of the phones.                                                      *)
LEMMA SendTokenInv ==
    ASSUME IInv, NEW d \in Phone, NEW i \in Id, SendToken(d, i)
    PROVE  IInv'
<1> USE DEF SendToken, server
<1>1. /\ queued' \in SUBSET Request /\ count' \in 0 .. MaxRequests
      /\ \A r \in queued' \ queued : r.attempts < MaxAttempts /\ r.do = "token"
                                     /\ r.user = i /\ r.phone = d
  BY QueueInv
<1>2. TypeOK'
  BY <1>1 DEF IInv, TypeOK, Id
<1>3. RequestsSound'
  BY <1>1 DEF IInv, RequestsSound, Sound, MayShow, MayPush
<1>4. AttemptsSound'
  BY AttemptsKept
<1>5. TokensSound' /\ OwnPictures' /\ PushToOwnPhone'
  BY StoresKept
<1>6. QED
  BY <1>2, <1>3, <1>4, <1>5 DEF IInv

LEMMA PhoneInv ==
    ASSUME IInv, NEW d \in Phone, StoreSession(d) \/ Logout(d)
    PROVE  IInv'
<1> USE DEF StoreSession, Logout, server, past
<1>1. TypeOK'
  BY BoundsAssumption DEF IInv, TypeOK
<1>2. RequestsSound'
  BY RequestsKept
<1>3. AttemptsSound'
  BY AttemptsKept
<1>4. TokensSound' /\ OwnPictures' /\ PushToOwnPhone'
  BY StoresKept
<1>5. QED
  BY <1>1, <1>2, <1>3, <1>4 DEF IInv

(* What a waiting upload will send is the picture just chosen, by its own    *)
(* user or by somebody who thereby swapped it.                               *)
LEMMA ChoosePictureInv ==
    ASSUME IInv, NEW d \in Phone, NEW p \in Picture, ChoosePicture(d, p)
    PROVE  IInv'
<1> USE DEF ChoosePicture, server
<1>1. logged[d] \in Id
  BY BoundsAssumption DEF IInv, TypeOK, Id
<1>2. /\ queued' \in SUBSET Request /\ count' \in 0 .. MaxRequests
      /\ \A r \in queued' \ queued : r.attempts < MaxAttempts /\ r.do = "putPicture"
                                     /\ r.user = logged[d] /\ r.phone = d
  BY <1>1, QueueInv
<1>3. Uploading(d) \subseteq Id
  BY DEF Uploading, IInv, TypeOK, Request
<1>4. TypeOK'
  BY <1>1, <1>2, <1>3 DEF IInv, TypeOK
<1>5. RequestsSound'
  <2> SUFFICES ASSUME NEW r \in queued' PROVE Sound(r)'
    BY DEF RequestsSound
  <2>1. r \in Request /\ (r \in queued => Sound(r))
    BY <1>2 DEF IInv, RequestsSound
  <2>2. r.attempts < MaxAttempts /\ (r.do = "token" => MayPush(r.user, r.phone)')
    BY <1>2, <2>1 DEF Sound, MayPush
  <2>3. ASSUME r.do = "putPicture" PROVE MayShow(r.user, photo[r.phone])'
    <3>1. CASE r.phone # d
      <4>1. r \in queued /\ photo'[r.phone] = photo[r.phone]
        BY <1>2, <2>1, <3>1 DEF Request, IInv, TypeOK
      <4>2. QED
        BY <2>1, <2>3, <4>1 DEF Sound, MayShow
    <3>2. CASE r.phone = d
      <4>1. photo'[r.phone] = p
        BY <3>2 DEF IInv, TypeOK
      <4>2. r \in queued => r.user \in Uploading(d)
        BY <2>3, <3>2 DEF Uploading
      <4>3. r \notin queued => <<r.user, p>> \in chosen'
        BY <1>2
      <4>4. r.user \in Uploading(d) => <<r.user, p>> \in swapped'
        OBVIOUS
      <4>5. QED
        BY <4>1, <4>2, <4>3, <4>4 DEF MayShow
    <3>3. QED
      BY <3>1, <3>2
  <2>4. QED
    BY <2>2, <2>3 DEF Sound
<1>6. AttemptsSound'
  BY AttemptsKept
<1>7. TokensSound' /\ OwnPictures' /\ PushToOwnPhone'
  BY StoresKept
<1>8. QED
  BY <1>4, <1>5, <1>6, <1>7 DEF IInv

LEMMA RemovePictureInv ==
    ASSUME IInv, NEW d \in Phone, RemovePicture(d)
    PROVE  IInv'
<1> USE DEF RemovePicture, server, phones, past
<1>1. logged[d] \in Id
  BY BoundsAssumption DEF IInv, TypeOK, Id
<1>2. /\ queued' \in SUBSET Request /\ count' \in 0 .. MaxRequests
      /\ \A r \in queued' \ queued : r.attempts < MaxAttempts /\ r.do = "deletePicture"
                                     /\ r.user = logged[d] /\ r.phone = d
  BY <1>1, QueueInv
<1>3. TypeOK'
  BY <1>2 DEF IInv, TypeOK
<1>4. RequestsSound'
  BY <1>2 DEF IInv, RequestsSound, Sound, MayShow, MayPush
<1>5. AttemptsSound'
  BY AttemptsKept
<1>6. TokensSound' /\ OwnPictures' /\ PushToOwnPhone'
  BY StoresKept
<1>7. QED
  BY <1>3, <1>4, <1>5, <1>6 DEF IInv

LEMMA DispatchInv ==
    ASSUME IInv, NEW r \in queued, Dispatch(r)
    PROVE  IInv'
<1> DEFINE sent == [r EXCEPT !.attempts = @ + 1]
           w == [request |-> sent, session |-> stored[r.phone],
                 picture |-> IF r.do = "putPicture" THEN photo[r.phone] ELSE NoPicture]
<1> USE DEF server, phones, past
<1>1. r \in Request /\ Sound(r)
  BY DEF IInv, TypeOK, RequestsSound
<1>2. /\ sent \in Request /\ sent.do = r.do /\ sent.user = r.user /\ sent.phone = r.phone
      /\ r.phone \in Phone
  BY <1>1, BoundsAssumption DEF Request, Sound
<1>3. w \in Attempt
  BY <1>1, <1>2 DEF Attempt, IInv, TypeOK
<1>4. /\ \A q \in queued' : q \in queued \/ (q = sent /\ sent.attempts < MaxAttempts)
      /\ wire' = wire \cup {w}
  BY DEF Dispatch
<1>5. UNCHANGED <<server, phones, count, past>>
  BY DEF Dispatch
<1>6. TypeOK'
  <2>1. queued' \in SUBSET Request /\ wire' \in SUBSET Attempt
    BY <1>2, <1>3, <1>4 DEF IInv, TypeOK
  <2>2. QED
    BY <1>5, <2>1 DEF IInv, TypeOK
<1>7. RequestsSound'
  <2>1. \A q : Sound(q) <=> Sound(q)'
    BY <1>5 DEF Sound, MayShow, MayPush
  <2>2. sent.attempts < MaxAttempts => Sound(sent)
    BY <1>1, <1>2 DEF Sound
  <2>3. QED
    BY <1>4, <2>1, <2>2 DEF IInv, RequestsSound
<1>8. AttemptsSound'
  <2>1. \A v : SoundAttempt(v) <=> SoundAttempt(v)'
    BY <1>5 DEF SoundAttempt, MayShow, MayPush
  <2>2. SoundAttempt(w)
    BY <1>1, <1>2 DEF Sound, SoundAttempt
  <2>3. \A v \in wire' : SoundAttempt(v)
    BY <1>4, <2>2 DEF IInv, AttemptsSound
  <2>4. job' # Idle => job'.attempt.request.do = "putPicture" /\ SoundAttempt(job'.attempt)
    BY <1>5 DEF IInv, AttemptsSound
  <2>5. QED
    BY <2>1, <2>3, <2>4 DEF AttemptsSound
<1>9. TokensSound' /\ OwnPictures' /\ PushToOwnPhone'
  BY <1>5, StoresKept
<1>10. QED
  BY <1>6, <1>7, <1>8, <1>9 DEF IInv

-----------------------------------------------------------------------------
(* Steps of the accounts, and pushes.                                        *)
LEMMA RegisterInv ==
    ASSUME IInv, Register
    PROVE  IInv'
<1> USE DEF Register, GenerateID, phones, past
<1>1. TypeOK'
  BY BoundsAssumption DEF IInv, TypeOK, Id
<1>2. RequestsSound'
  BY RequestsKept
<1>3. AttemptsSound'
  BY AttemptsKept
<1>4. TokensSound' /\ OwnPictures' /\ PushToOwnPhone'
  BY StoresKept
<1>5. QED
  BY <1>1, <1>2, <1>3, <1>4 DEF IInv

LEMMA DeletePersonInv ==
    ASSUME IInv, NEW i \in Id, DeletePerson(i)
    PROVE  IInv'
<1> USE DEF DeletePerson, phones, past
<1>1. TypeOK'
  BY DEF IInv, TypeOK
<1>2. RequestsSound'
  BY RequestsKept
<1>3. AttemptsSound'
  BY AttemptsKept
<1>4. TokensSound' /\ OwnPictures' /\ PushToOwnPhone'
  BY StoresKept
<1>5. QED
  BY <1>1, <1>2, <1>3, <1>4 DEF IInv

LEMMA SendNotificationInv ==
    ASSUME IInv, NEW i \in Id, NEW j \in Id, SendNotification(j, i)
    PROVE  IInv'
<1> USE DEF SendNotification, Push, phones, past
<1>1. tokenKey[i] \in Phone /\ <<i, tokenKey[i]>> \in used
  BY DEF IInv, TypeOK, TokensSound, MayPush
<1>2. TypeOK'
  BY <1>1 DEF IInv, TypeOK
<1>3. RequestsSound'
  BY RequestsKept
<1>4. AttemptsSound'
  BY AttemptsKept
<1>5. TokensSound' /\ OwnPictures'
  BY DEF IInv, TokensSound, OwnPictures, MayPush
<1>6. PushToOwnPhone'
  BY <1>1 DEF IInv, PushToOwnPhone
<1>7. QED
  BY <1>2, <1>3, <1>4, <1>5, <1>6 DEF IInv

-----------------------------------------------------------------------------
(* Steps of the handlers.                                                    *)
LEMMA PutTokenInv ==
    ASSUME IInv, NEW w \in wire, PutToken(w)
    PROVE  IInv'
<1> USE DEF PutToken, phones, past
<1>1. w.request \in Request /\ SoundAttempt(w)
  BY DEF IInv, TypeOK, Attempt, AttemptsSound
<1>2. w.request.user \in Id /\ w.request.phone \in Phone
  BY <1>1 DEF Request
<1>3. queued' \subseteq queued
  BY DEF Answered
<1>4. TypeOK'
  BY <1>2, <1>3 DEF IInv, TypeOK
<1>5. RequestsSound'
  BY <1>3, RequestsKept
<1>6. AttemptsSound'
  BY AttemptsKept
<1>7. TokensSound'
  BY <1>1, <1>2 DEF IInv, TypeOK, TokensSound, SoundAttempt, MayPush
<1>8. OwnPictures' /\ PushToOwnPhone'
  BY DEF IInv, OwnPictures, PushToOwnPhone
<1>9. QED
  BY <1>4, <1>5, <1>6, <1>7, <1>8 DEF IInv

LEMMA RefuseInv ==
    ASSUME IInv, NEW w \in wire, Refuse(w)
    PROVE  IInv'
<1>1. /\ queued' \subseteq queued /\ wire' \subseteq wire
      /\ UNCHANGED <<server, phones, count, past>>
  BY DEF Refuse, Answered
<1> USE DEF server, phones, past
<1>2. TypeOK'
  BY <1>1 DEF IInv, TypeOK
<1>3. RequestsSound'
  BY <1>1, RequestsKept
<1>4. AttemptsSound'
  BY <1>1, AttemptsKept
<1>5. TokensSound' /\ OwnPictures' /\ PushToOwnPhone'
  BY <1>1, StoresKept
<1>6. QED
  BY <1>2, <1>3, <1>4, <1>5 DEF IInv

LEMMA BeginPutInv ==
    ASSUME IInv, NEW w \in wire, BeginPut(w)
    PROVE  IInv'
<1> USE DEF BeginPut, PutFor, phones, past
<1>1. w \in Attempt /\ SoundAttempt(w)
  BY DEF IInv, TypeOK, AttemptsSound
<1>2. w.request \in Request /\ w.request.user \in Id
  BY <1>1 DEF Request, Attempt
<1>3. [w EXCEPT !.request.user = w.request.user] = w
  BY <1>1, <1>2 DEF Request, Attempt
<1>4. job' = [step |-> "open", attempt |-> w]
  BY <1>3
<1>5. TypeOK'
  BY <1>1, <1>2, <1>4 DEF IInv, TypeOK, Content
<1>6. RequestsSound'
  BY RequestsKept
<1>7. AttemptsSound'
  <2>1. \A v : SoundAttempt(v) <=> SoundAttempt(v)'
    BY DEF SoundAttempt, MayShow, MayPush
  <2>2. \A v \in wire' : SoundAttempt(v)
    BY DEF IInv, AttemptsSound
  <2>3. job'.attempt = w /\ w.request.do = "putPicture" /\ SoundAttempt(w)
    BY <1>1, <1>4
  <2>4. QED
    BY <2>1, <2>2, <2>3 DEF AttemptsSound
<1>8. OwnPictures'
  BY <1>2, NoneAssumption DEF IInv, TypeOK, OwnPictures
<1>9. TokensSound' /\ PushToOwnPhone'
  BY DEF IInv, TokensSound, MayPush, PushToOwnPhone
<1>10. QED
  BY <1>5, <1>6, <1>7, <1>8, <1>9 DEF IInv

(* The steps of savePicture store nothing but the picture of the attempt.    *)
LEMMA FileInv ==
    ASSUME IInv, OpenFile \/ (\E f \in Frames : WriteFile(f)) \/ WriteFails \/ Crash
    PROVE  IInv'
<1> DEFINE w == job.attempt
           i == w.request.user
<1>1. job # Idle
  BY DEF OpenFile, WriteFile, WriteFails, Crash, Idle
<1>2. /\ job \in [step : {"open", "write"}, attempt : Attempt]
      /\ w.request.do = "putPicture" /\ SoundAttempt(w)
  BY <1>1 DEF IInv, TypeOK, AttemptsSound
<1>3. w \in Attempt /\ i \in Id /\ w.picture \in Picture \cup {NoPicture}
  BY <1>2 DEF Attempt, Request
<1>4. /\ queued' \subseteq queued
      /\ UNCHANGED <<lastID, users, phones, wire, count, tokenKey, pushes, past>>
  BY DEF OpenFile, WriteFile, WriteFails, Finish, Answered, Crash
<1>5. job' = Idle \/ (job' = [job EXCEPT !.step = "write"])
  BY DEF OpenFile, WriteFile, WriteFails, Finish, Crash
<1>6. \E c \in {NoPicture, "empty", "part", w.picture, file[i]} :
         file' = [file EXCEPT ![i] = c]
  <2>1. CASE OpenFile
    BY <2>1 DEF OpenFile
  <2>2. CASE \E f \in Frames : WriteFile(f)
    BY <2>2 DEF WriteFile, Finish
  <2>3. CASE WriteFails
    BY <2>3 DEF WriteFails, Finish
  <2>4. CASE Crash
    BY <1>3, <2>4 DEF Crash, IInv, TypeOK
  <2>5. QED
    BY <2>1, <2>2, <2>3, <2>4
<1>7. PICK c \in {NoPicture, "empty", "part", w.picture, file[i]} :
         file' = [file EXCEPT ![i] = c]
  BY <1>6
<1>8. TypeOK'
  <2>1. c \in Content
    BY <1>3, <1>7 DEF Content, IInv, TypeOK
  <2>2. job' \in {Idle} \cup [step : {"open", "write"}, attempt : Attempt]
    BY <1>2, <1>5
  <2>3. file' \in [Id -> Content]
    BY <1>3, <1>7, <2>1 DEF IInv, TypeOK
  <2>4. QED
    BY <1>4, <2>2, <2>3 DEF IInv, TypeOK, phones, past
<1>9. RequestsSound'
  BY <1>4, RequestsKept DEF phones
<1>10. AttemptsSound'
  <2>1. \A v : SoundAttempt(v) <=> SoundAttempt(v)'
    BY <1>4 DEF SoundAttempt, MayShow, MayPush, past
  <2>2. job' # Idle => job'.attempt = w
    BY <1>2, <1>5
  <2>3. QED
    BY <1>2, <1>4, <2>1, <2>2 DEF IInv, AttemptsSound
<1>11. OwnPictures'
  <2>1. c \in Picture => <<i, c>> \in chosen \cup swapped
    BY <1>2, <1>3, <1>7, NoneAssumption DEF IInv, OwnPictures, SoundAttempt, MayShow
  <2>2. QED
    BY <1>3, <1>4, <1>7, <2>1 DEF IInv, TypeOK, OwnPictures, past
<1>12. TokensSound' /\ PushToOwnPhone'
  BY <1>4 DEF IInv, TokensSound, MayPush, PushToOwnPhone, past
<1>13. QED
  BY <1>8, <1>9, <1>10, <1>11, <1>12 DEF IInv

LEMMA DeletePictureInv ==
    ASSUME IInv, NEW w \in wire, DeletePicture(w)
    PROVE  IInv'
<1> USE DEF DeletePicture, phones, past
<1>1. w.request \in Request /\ w.request.user \in Id
  BY DEF IInv, TypeOK, Attempt, Request
<1>2. queued' \subseteq queued
  BY DEF Answered
<1>3. TypeOK'
  BY <1>1, <1>2 DEF IInv, TypeOK, Content
<1>4. RequestsSound'
  BY <1>2, RequestsKept
<1>5. AttemptsSound'
  BY AttemptsKept
<1>6. OwnPictures'
  BY <1>1, NoneAssumption DEF IInv, TypeOK, OwnPictures
<1>7. TokensSound' /\ PushToOwnPhone'
  BY DEF IInv, TokensSound, MayPush, PushToOwnPhone
<1>8. QED
  BY <1>3, <1>4, <1>5, <1>6, <1>7 DEF IInv

(* Every step keeps the invariant.                                           *)
LEMMA NextInv == IInv /\ [Next]_vars => IInv'
<1> SUFFICES ASSUME IInv, [Next]_vars PROVE IInv'
  OBVIOUS
<1>1. CASE Next
  <2>1. ASSUME NEW d \in Phone, NEW i \in Id, SendToken(d, i) PROVE IInv'
    BY <2>1, SendTokenInv
  <2>2. ASSUME NEW d \in Phone, StoreSession(d) \/ Logout(d) PROVE IInv'
    BY <2>2, PhoneInv
  <2>3. ASSUME NEW d \in Phone, NEW p \in Picture, ChoosePicture(d, p) PROVE IInv'
    BY <2>3, ChoosePictureInv
  <2>4. ASSUME NEW d \in Phone, RemovePicture(d) PROVE IInv'
    BY <2>4, RemovePictureInv
  <2>5. ASSUME NEW r \in queued, Dispatch(r) PROVE IInv'
    BY <2>5, DispatchInv
  <2>6. CASE Register
    BY <2>6, RegisterInv
  <2>7. ASSUME NEW i \in Id, DeletePerson(i) PROVE IInv'
    BY <2>7, DeletePersonInv
  <2>8. ASSUME NEW i \in Id, NEW j \in Id, SendNotification(j, i) PROVE IInv'
    BY <2>8, SendNotificationInv
  <2>9. ASSUME NEW w \in wire,
               PutToken(w) \/ Refuse(w) \/ BeginPut(w) \/ DeletePicture(w)
        PROVE  IInv'
    BY <2>9, PutTokenInv, RefuseInv, BeginPutInv, DeletePictureInv
  <2>10. CASE OpenFile \/ (\E f \in Frames : WriteFile(f)) \/ WriteFails \/ Crash
    BY <2>10, FileInv
  <2>11. QED
    BY <1>1, <2>1, <2>2, <2>3, <2>4, <2>5, <2>6, <2>7, <2>8, <2>9, <2>10 DEF Next
<1>2. CASE UNCHANGED vars
  <2> USE DEF vars
  <2>1. TypeOK'
    BY <1>2 DEF IInv, TypeOK
  <2>2. RequestsSound'
    BY <1>2, RequestsKept DEF past
  <2>3. AttemptsSound'
    BY <1>2, AttemptsKept
  <2>4. TokensSound' /\ OwnPictures' /\ PushToOwnPhone'
    BY <1>2, StoresKept
  <2>5. QED
    BY <2>1, <2>2, <2>3, <2>4 DEF IInv
<1>3. QED
  BY <1>1, <1>2

-----------------------------------------------------------------------------
(***************************************************************************)
(* The inductive invariant holds in every reachable state of phones,       *)
(* files and tokens.                                                       *)
(***************************************************************************)
THEOREM Inductive == Spec => []IInv
BY InitInv, NextInv, PTL DEF Spec

(***************************************************************************)
(* Every reachable state of UserData is well typed; Volley never has more  *)
(* attempts under way than it was given.                                   *)
(***************************************************************************)
THEOREM TypeCorrect == Spec => []TypeOK
<1>1. IInv => TypeOK
  BY DEF IInv
<1>2. QED
  BY <1>1, Inductive, PTL

(***************************************************************************)
(* The picture that GET /profilepicture shows for a user was chosen by her,*)
(* whoever uses her phone next and however late an upload arrives, or was  *)
(* put on the phone while an upload of hers still waited there.            *)
(***************************************************************************)
THEOREM PicturesAreOwn == Spec => []OwnPictures
<1>1. IInv => OwnPictures
  BY DEF IInv
<1>2. QED
  BY <1>1, Inductive, PTL

(***************************************************************************)
(* sendNotification reaches only phones on which the user logged in.       *)
(***************************************************************************)
THEOREM PushesAreOwn == Spec => []PushToOwnPhone
<1>1. IInv => PushToOwnPhone
  BY DEF IInv
<1>2. QED
  BY <1>1, Inductive, PTL
===============================================================================
