------------------------------- MODULE UserData -------------------------------
(***************************************************************************)
(* What users keep on the server under their id outside of the account:    *)
(* the picture, a file <id>.jpeg (PictureHandler), and the Firebase token  *)
(* of their phone (NotificationTokenHandler), with the phones that send    *)
(* them (LoginActivity, PerfilActivity, Utils).                            *)
(*                                                                         *)
(* A phone queues its requests; Volley's own threads send them, and read   *)
(* the session for the header only then, at every attempt, as they do the  *)
(* picture: all uploads of a phone send the one file new_profile.jpg.  An  *)
(* attempt that timed out may still reach the server, after later requests.*)
(*                                                                         *)
(* deletePerson removes neither file nor token nor session.  The app has   *)
(* no screen that deletes a picture: RemovePicture is a client of the API. *)
(***************************************************************************)
EXTENDS Naturals, FiniteSets

CONSTANTS
    Phone, Picture,
    NoPhone, NoPicture,
    Frames,             \* sizes of uploads: multipart lines, picture, trailer
    MaxId,              \* bound: users registered in a behaviour
    MaxRequests,        \* bound: requests queued in a behaviour
    MaxAttempts,        \* Volley's attempts of one request
    MaxWire             \* bound: attempts on their way at a time

ASSUME NoneAssumption ==
    NoPhone \notin Phone /\ Picture \cap {NoPicture, "empty", "part"} = {}
ASSUME FramesAssumption ==
    Frames \subseteq [head : Nat, size : Nat \ {0}, tail : Nat \ (0 .. 3)]
ASSUME BoundsAssumption ==
    {MaxId, MaxRequests, MaxWire} \subseteq Nat /\ MaxAttempts \in Nat \ {0}

VARIABLES
    lastID, users,      \* ids given out, and those of registered users
    logged,             \* logged[d]: user whose screens phone d shows, 0 if none
    stored,             \* stored[d]: user of the session in d's preferences
    photo,              \* photo[d]: what new_profile.jpg of phone d holds
    queued,             \* requests queued on the phones
    wire,               \* attempts that are on their way
    count,              \* number of requests queued so far
    file,               \* file[i]: what <i>.jpeg holds
    tokenKey,           \* tokenKey[i]: notifications_token_<i>
    job,                \* the PUT of a picture that is under way
    pushes,             \* history: <<i, d>>: phones that got pushes for i
    used, chosen,       \* history: <<i, d>> and <<i, p>>: phones on which the
                        \* person with id i logged in, pictures she chose there
    swapped             \* history: <<i, p>>: p was put in the place of the picture
                        \* of i while an upload of hers waited on the phone

vars == <<lastID, users, logged, stored, photo, queued, wire, count, file, tokenKey, job,
          pushes, used, chosen, swapped>>

past == <<used, chosen, swapped>>

phones == <<logged, stored, photo>>

server == <<lastID, users, file, tokenKey, job, pushes>>

Id == 1 .. MaxId

Request ==
    [no : 1 .. MaxRequests, do : {"token", "putPicture", "deletePicture"}, user : Id,
     phone : Phone, attempts : 0 .. MaxAttempts]

Attempt ==
    [request : Request, session : 0 .. MaxId, picture : Picture \cup {NoPicture}]

Content == Picture \cup {NoPicture, "empty", "part"}

Idle == [step |-> "idle"]

TypeOK ==
    /\ lastID \in 0 .. MaxId /\ users \in SUBSET Id
    /\ logged \in [Phone -> 0 .. MaxId] /\ stored \in [Phone -> 0 .. MaxId]
    /\ photo \in [Phone -> Picture \cup {NoPicture}]
    /\ queued \in SUBSET Request /\ wire \in SUBSET Attempt
    /\ count \in 0 .. MaxRequests
    /\ file \in [Id -> Content] /\ tokenKey \in [Id -> Phone \cup {NoPhone}]
    /\ job \in {Idle} \cup [step : {"open", "write"}, attempt : Attempt]
    /\ pushes \in SUBSET (Id \X Phone) /\ used \in SUBSET (Id \X Phone)
    /\ chosen \in SUBSET (Id \X Picture) /\ swapped \in SUBSET (Id \X Picture)

Init ==
    /\ lastID = 0 /\ users = {}
    /\ logged = [d \in Phone |-> 0] /\ stored = [d \in Phone |-> 0]
    /\ photo = [d \in Phone |-> NoPicture]
    /\ queued = {} /\ wire = {} /\ count = 0
    /\ file = [i \in Id |-> NoPicture] /\ tokenKey = [i \in Id |-> NoPhone]
    /\ job = Idle /\ pushes = {} /\ used = {} /\ chosen = {} /\ swapped = {}

-----------------------------------------------------------------------------
(***************************************************************************)
(* The phones.  guardarConnectedUserData queues the PUT of the Firebase    *)
(* token first and stores the session afterwards.                          *)
(***************************************************************************)
Queue(do, i, d) ==
    /\ count < MaxRequests
    /\ count' = count + 1
    /\ queued' = queued \cup {[no |-> count + 1, do |-> do, user |-> i, phone |-> d,
                               attempts |-> 0]}

SendToken(d, i) ==
    /\ logged[d] = 0 /\ i \in users
    /\ logged' = [logged EXCEPT ![d] = i]
    /\ used' = used \cup {<<i, d>>}
    /\ Queue("token", i, d)
    /\ UNCHANGED <<server, stored, photo, wire, chosen, swapped>>

StoreSession(d) ==
    /\ logged[d] # stored[d]
    /\ stored' = [stored EXCEPT ![d] = logged[d]]
    /\ UNCHANGED <<server, logged, photo, queued, wire, count, past>>

(***************************************************************************)
(* borrarConnectedUserData tells the server nothing.                       *)
(***************************************************************************)
Logout(d) ==
    /\ logged[d] # 0 /\ stored[d] = logged[d]
    /\ logged' = [logged EXCEPT ![d] = 0] /\ stored' = [stored EXCEPT ![d] = 0]
    /\ UNCHANGED <<server, photo, queued, wire, count, past>>

(***************************************************************************)
(* guardarImagen overwrites the file that waiting uploads will read.       *)
(***************************************************************************)
Uploading(d) == {r.user : r \in {q \in queued : q.do = "putPicture" /\ q.phone = d}}

ChoosePicture(d, p) ==
    /\ logged[d] # 0 /\ stored[d] = logged[d]
    /\ photo' = [photo EXCEPT ![d] = p]
    /\ Queue("putPicture", logged[d], d)
    /\ chosen' = chosen \cup {<<logged[d], p>>}
    /\ swapped' = swapped \cup (Uploading(d) \X {p})
    /\ UNCHANGED <<server, logged, stored, wire, used>>

RemovePicture(d) ==
    /\ logged[d] # 0 /\ stored[d] = logged[d]
    /\ Queue("deletePicture", logged[d], d)
    /\ UNCHANGED <<server, phones, wire, past>>

(***************************************************************************)
(* Volley sends a request, or sends it again after a timeout, a 401 or a   *)
(* 403, with the session and the picture that the phone has now; after the *)
(* last attempt it is given up.                                            *)
(***************************************************************************)
Dispatch(r) ==
    LET sent == [r EXCEPT !.attempts = @ + 1]
    IN  /\ Cardinality(wire) < MaxWire
        /\ queued' = (queued \ {r}) \cup {q \in {sent} : q.attempts < MaxAttempts}
        /\ wire' = wire \cup {[request |-> sent, session |-> stored[r.phone],
                               picture |-> IF r.do = "putPicture" THEN photo[r.phone]
                                           ELSE NoPicture]}
        /\ UNCHANGED <<server, phones, count, past>>

-----------------------------------------------------------------------------
(***************************************************************************)
(* Accounts, as far as ids go.                                             *)
(***************************************************************************)
GenerateID == lastID + 1

Register ==
    /\ job = Idle /\ lastID < MaxId
    /\ lastID' = GenerateID
    /\ users' = users \cup {GenerateID}
    /\ UNCHANGED <<phones, queued, wire, count, file, tokenKey, job, pushes, past>>

DeletePerson(i) ==
    /\ job = Idle /\ i \in users
    /\ users' = users \ {i}
    /\ UNCHANGED <<lastID, phones, queued, wire, count, file, tokenKey, job, pushes, past>>

(***************************************************************************)
(* An attempt w reaches a handler.  Its answer, unless it comes too late,  *)
(* ends the request on the phone.                                          *)
(***************************************************************************)
Authorized(w) == w.session = w.request.user

Answered(r) == queued' \in {queued, {q \in queued : q.no # r.no}}

(***************************************************************************)
(* The put of the token may fail: setOrUpdateToken does not look.          *)
(***************************************************************************)
PutToken(w) ==
    /\ job = Idle
    /\ w.request.do = "token" /\ Authorized(w) /\ w.request.user \in users
    /\ tokenKey' \in {tokenKey, [tokenKey EXCEPT ![w.request.user] = w.request.phone]}
    /\ wire' = wire \ {w} /\ Answered(w.request)
    /\ UNCHANGED <<lastID, users, phones, count, file, job, pushes, past>>

(***************************************************************************)
(* Refusals.  A session that has expired (401) or is another user's (403)  *)
(* does not end the request, Volley tries again.  The others do: no        *)
(* session (400), no such user (404), no picture to delete (404), a file   *)
(* that cannot be removed (500).                                           *)
(***************************************************************************)
Refuse(w) ==
    /\ job = Idle
    /\ wire' = wire \ {w}
    /\ \/ w.session # 0 /\ UNCHANGED queued
       \/ /\ \/ w.session = 0
             \/ w.request.do = "token" /\ w.request.user \notin users
             \/ w.request.do = "deletePicture" /\ file[w.request.user] = NoPicture
             \/ /\ w.request.do \in {"putPicture", "deletePicture"} /\ Authorized(w)
                /\ file[w.request.user] # NoPicture
          /\ Answered(w.request)
    /\ UNCHANGED <<server, phones, count, past>>

(***************************************************************************)
(* handlePutRequest of a picture: the old file is removed, the new one     *)
(* created, then written, and the request answered.  The user need not     *)
(* exist any more.  Opening may fail, and a full disk cut the file short:  *)
(* savePicture notices neither.                                            *)
(***************************************************************************)
PutFor(w, i) ==
    /\ job = Idle
    /\ file' = [file EXCEPT ![i] = NoPicture]
    /\ job' = [step |-> "open", attempt |-> [w EXCEPT !.request.user = i]]
    /\ wire' = wire \ {w}
    /\ UNCHANGED <<lastID, users, phones, queued, count, tokenKey, pushes, past>>

BeginPutForSession(w) ==
    /\ w.request.do = "putPicture" /\ w.session # 0
    /\ PutFor(w, w.session)

BeginPut(w) ==
    /\ w.request.do = "putPicture" /\ Authorized(w)
    /\ PutFor(w, w.request.user)

OpenFile ==
    /\ job.step = "open"
    /\ file' = [file EXCEPT ![job.attempt.request.user] = "empty"]
    /\ job' = [job EXCEPT !.step = "write"]
    /\ UNCHANGED <<lastID, users, phones, queued, wire, count, tokenKey, pushes, past>>

(***************************************************************************)
(* savePicture skips the four lines in front of the picture, but at most   *)
(* 200 characters, and leaves out the last four bytes of the body.  With   *)
(* the lines of PhotoMultipartRequest (107 characters, and a trailer of    *)
(* ten) the file is the picture and six bytes of the trailer.              *)
(***************************************************************************)
Skipped(f) == IF f.head > 200 THEN 200 ELSE f.head

Written(f) == f.head + f.size + f.tail - Skipped(f) - 4

HoldsPicture(f) == Skipped(f) = f.head /\ Written(f) >= f.size

Finish(content) ==
    /\ file' = [file EXCEPT ![job.attempt.request.user] = content]
    /\ job' = Idle
    /\ Answered(job.attempt.request)
    /\ UNCHANGED <<lastID, users, phones, wire, count, tokenKey, pushes, past>>

WriteFile(f) ==
    /\ job.step = "write"
    /\ Finish(IF HoldsPicture(f) THEN job.attempt.picture ELSE "part")

WriteFails ==
    \/ job.step = "open" /\ Finish(NoPicture)
    \/ job.step = "write" /\ Finish("part")

(***************************************************************************)
(* The process dies during a PUT and is started again.                     *)
(***************************************************************************)
Crash ==
    /\ job # Idle
    /\ job' = Idle
    /\ UNCHANGED <<lastID, users, phones, queued, wire, count, file, tokenKey, pushes, past>>

DeletePicture(w) ==
    /\ job = Idle
    /\ w.request.do = "deletePicture" /\ Authorized(w)
    /\ file[w.request.user] # NoPicture
    /\ file' = [file EXCEPT ![w.request.user] = NoPicture]
    /\ wire' = wire \ {w} /\ Answered(w.request)
    /\ UNCHANGED <<lastID, users, phones, count, tokenKey, job, pushes, past>>

(***************************************************************************)
(* sendNotification, after user j wrote to user i or asked her for         *)
(* contact: the push goes to the phone whose token is under the id of i.   *)
(***************************************************************************)
Push(i, token) ==
    /\ job = Idle /\ token # NoPhone
    /\ pushes' = pushes \cup {<<i, token>>}
    /\ UNCHANGED <<lastID, users, phones, queued, wire, count, file, tokenKey, job, past>>

SendNotificationOfSender(j, i) == j # i /\ {i, j} \subseteq users /\ Push(i, tokenKey[j])

SendNotification(j, i) == j # i /\ {i, j} \subseteq users /\ Push(i, tokenKey[i])

Next ==
    \/ \E d \in Phone :
          \/ \E i \in Id : SendToken(d, i)
          \/ StoreSession(d)
          \/ Logout(d)
          \/ \E p \in Picture : ChoosePicture(d, p)
          \/ RemovePicture(d)
    \/ \E r \in queued : Dispatch(r)
    \/ Register
    \/ \E i \in Id : DeletePerson(i) \/ \E j \in Id : SendNotification(j, i)
    \/ \E w \in wire : PutToken(w) \/ Refuse(w) \/ BeginPut(w) \/ DeletePicture(w)
    \/ \E f \in Frames : WriteFile(f)
    \/ OpenFile \/ WriteFails \/ Crash

Spec == Init /\ [][Next]_vars

-----------------------------------------------------------------------------
(***************************************************************************)
(* OwnPictures: the picture under an id was chosen by the person who has   *)
(* the id, not by somebody who used the same phone before, whose upload    *)
(* was sent late with the next user's session, nor by the owner of a       *)
(* deleted account, whose file stays (PictureHandler).  The one exception  *)
(* is what getBody does: an upload that waited on the phone while somebody *)
(* chose another picture there sends that one, under the id of the first.  *)
(***************************************************************************)
OwnPictures ==
    \A i \in Id : file[i] \in Picture => <<i, file[i]>> \in chosen \cup swapped

(***************************************************************************)
(* PushToOwnPhone: messages and contact requests for a user are pushed to  *)
(* a phone on which she herself logged in, never to the sender's or to     *)
(* another user's, though tokens outlive logouts and accounts, and late    *)
(* attempts bring back the token of a phone she used before.               *)
(***************************************************************************)
PushToOwnPhone == pushes \subseteq used
===============================================================================
