---------------------------- MODULE RequestPipeline ----------------------------
(***************************************************************************)
(* From the socket to the handlers and back (main.cpp, MainHelper,         *)
(* WebHandler, Response, NotificationSender), with the client's calls at   *)
(* the other end (Volley's BasicNetwork and DefaultRetryPolicy).           *)
(*                                                                         *)
(* Every attempt of a call has its own connection.  Volley repeats a call  *)
(* that timed out or was denied; an attempt it gave up on may still reach  *)
(* a handler.  The server polls its connections in one thread, and a       *)
(* handler that waits for Firebase holds that thread.  ev_handler may run  *)
(* a request twice.  The process may die between any two steps.            *)
(*                                                                         *)
(* What the handlers do is the subject of other modules.  Here a handler   *)
(* is told apart by what a second run does, by when it can fail, by        *)
(* whether it sends a push and by whether its answer has a body.           *)
(***************************************************************************)
EXTENDS Naturals

CONSTANTS
    Call,               \* calls of the client to the server
    Asks,               \* bound: Asks[c]: what call c may ask for
    MaxRetries,         \* Volley's repetitions of a call
    MaxStops            \* bound: stops of the server in a behaviour

ASSUME RetriesAssumption == MaxRetries \in Nat
ASSUME StopsAssumption == MaxStops \in Nat

VARIABLES
    op,                 \* op[c]: what call c asks for
    client,             \* client[c]: how far the client is with call c
    attempt,            \* attempt[c]: connections opened for call c
    conn,               \* conn[a]: state of the connection of attempt a
    sendBuf,            \* sendBuf[a]: the answer in send_mbuf
    applied,            \* applied[a]: how often attempt a changed the store
    thread,             \* what the server's thread does
    up, stops           \* whether the server runs, and how often it stopped

vars == <<op, client, attempt, conn, sendBuf, applied, thread, up, stops>>

(***************************************************************************)
(* append: PUT /messages (which sends a push), POST /login, PUT /users:    *)
(*     every run writes; a body;                                           *)
(* create: POST /users: a second run finds the mail taken; a body;         *)
(* change: PUT /contacts (a push for some actions), /recommendations,      *)
(*     DELETE /users: may fail after a write; no body;                     *)
(* set:    PUT, DELETE /profilepicture, PUT /notificationtokens: all that  *)
(*     can fail comes before the write; no body;                           *)
(* read:   GET requests (what GET /messages marks is left to Messages);    *)
(* static: /profile..., served from a directory by Mongoose;               *)
(* other:  a URL or method nobody handles: an empty 404 or 501.            *)
(***************************************************************************)
Op == {"append", "create", "change", "set", "read", "static", "other"}

ASSUME AsksAssumption == Asks \in [Call -> SUBSET Op]

Status == {"ok", "refused", "denied", "error", "empty"}

Sending == {"refused", "denied", "garbled", "other"}

Attempt == Call \X (1 .. MaxRetries + 1)

Idle == [step |-> "idle"]

TypeOK ==
    /\ op \in [Call -> Op \cup {"none"}]
    /\ client \in [Call -> {"idle", "waiting", "answered", "refused", "failed"}]
    /\ attempt \in [Call -> 0 .. MaxRetries + 1]
    /\ conn \in [Attempt -> {"none", "received", "handled", "answering", "written", "cut"}]
    /\ sendBuf \in [Attempt -> Sending \cup {"none"}]
    /\ applied \in [Attempt -> Nat]
    /\ thread \in {Idle} \cup [step : {"handle", "push", "finish"}, at : Attempt, run : 1 .. 2]
    /\ up \in BOOLEAN
    /\ stops \in 0 .. MaxStops

Init ==
    /\ op = [c \in Call |-> "none"]
    /\ client = [c \in Call |-> "idle"]
    /\ attempt = [c \in Call |-> 0]
    /\ conn = [a \in Attempt |-> "none"]
    /\ sendBuf = [a \in Attempt |-> "none"]
    /\ applied = [a \in Attempt |-> 0]
    /\ thread = Idle
    /\ up = TRUE
    /\ stops = 0

-----------------------------------------------------------------------------
(***************************************************************************)
(* The client.  A call that cannot connect, or whose connection is lost    *)
(* before an answer, fails; one that times out, or loses the connection    *)
(* within the answer, is sent again on a new one, until the retries are    *)
(* used up.                                                                *)
(***************************************************************************)
Send(c, k) ==
    /\ client[c] = "idle"
    /\ op' = [op EXCEPT ![c] = k]
    /\ \/ /\ up
          /\ client' = [client EXCEPT ![c] = "waiting"]
          /\ attempt' = [attempt EXCEPT ![c] = 1]
          /\ conn' = [conn EXCEPT ![<<c, 1>>] = "received"]
       \/ /\ ~up
          /\ client' = [client EXCEPT ![c] = "failed"]
          /\ UNCHANGED <<attempt, conn>>
    /\ UNCHANGED <<sendBuf, applied, thread, up, stops>>

Retry(c) ==
    /\ client[c] = "waiting"
    /\ up
    /\ attempt[c] <= MaxRetries
    /\ attempt' = [attempt EXCEPT ![c] = @ + 1]
    /\ conn' = [conn EXCEPT ![<<c, attempt[c] + 1>>] = "received"]
    /\ UNCHANGED <<op, client, sendBuf, applied, thread, up, stops>>

GiveUp(c) ==
    /\ client[c] = "waiting"
    /\ attempt[c] > MaxRetries \/ conn[<<c, attempt[c]>>] = "cut"
    /\ client' = [client EXCEPT ![c] = "failed"]
    /\ UNCHANGED <<op, attempt, conn, sendBuf, applied, thread, up, stops>>

-----------------------------------------------------------------------------
(***************************************************************************)
(* ev_handler for MG_EV_HTTP_REQUEST takes the thread for the request of   *)
(* attempt a; At, Asked: the attempt and the operation it is busy with.    *)
(***************************************************************************)
EvHandler(a) ==
    /\ up
    /\ thread = Idle
    /\ conn[a] = "received"
    /\ op[a[1]] # "static"
    /\ thread' = [step |-> "handle", at |-> a, run |-> 1]
    /\ conn' = [conn EXCEPT ![a] = "handled"]
    /\ UNCHANGED <<op, client, attempt, sendBuf, applied, up, stops>>

At == thread.at

Asked == op[At[1]]

HasBody(k, s) ==
    \/ s \in {"refused", "denied", "error"}
    \/ s = "ok" /\ k \in {"append", "create", "read"}

(***************************************************************************)
(* Response::getHeader returns the characters of a string it has deleted,  *)
(* so the header that is sent may be anything.  The client tells only 401  *)
(* and 403 (denied) and 409 (refused) from the others.                     *)
(***************************************************************************)
Sent(s) == {IF s \in {"refused", "denied"} THEN s ELSE "other", "garbled"}

(***************************************************************************)
(* validBody compares the body of the response, which processMessage has   *)
(* deleted, with the end of the send buffer.  What it reads then is        *)
(* undefined: any body may compare equal or not, but no byte of an empty   *)
(* one is read.                                                            *)
(***************************************************************************)
ValidBodyReadsOneMore(k, s) == BOOLEAN

ValidBody(k, s) == IF HasBody(k, s) THEN BOOLEAN ELSE {TRUE}

(***************************************************************************)
(* A run ends with answer s.  If validBody objects to it the buffer is     *)
(* emptied and the request run again; the second answer is not looked at.  *)
(***************************************************************************)
Release(s) ==
    /\ \E out \in Sent(s) : sendBuf' = [sendBuf EXCEPT ![At] = out]
    /\ conn' = [conn EXCEPT ![At] = "answering"]
    /\ thread' = Idle

RunAgain ==
    /\ thread' = [thread EXCEPT !.step = "handle", !.run = 2]
    /\ UNCHANGED <<sendBuf, conn>>


Answer(s) ==
    \/ (thread.run = 2 \/ TRUE \in ValidBody(Asked, s)) /\ Release(s)
    \/ thread.run = 1 /\ FALSE \in ValidBody(Asked, s) /\ RunAgain

(***************************************************************************)
(* WebHandler::handleRequest, up to the first write: requests that write   *)
(* nothing are answered, others denied (401, 403) or found wrong.  For a   *)
(* creation this is where savePerson looks for the mail, which nobody but  *)
(* the caller registers.                                                   *)
(***************************************************************************)
TakenUnseen(c) == FALSE

Taken(c) == \E i \in 1 .. MaxRetries + 1 : applied[<<c, i>>] > 0

Respond(s) ==
    /\ thread.step = "handle"
    /\ \/ s = "ok" /\ Asked = "read"
       \/ s = "empty" /\ Asked = "other"
       \/ s = "refused" /\ Asked = "create" /\ Taken(At[1])
       \/ s = "denied" /\ Asked \notin {"create", "other"}
       \/ s = "error" /\ Asked # "other"
    /\ Answer(s)
    /\ UNCHANGED <<op, client, attempt, applied, up, stops>>

(***************************************************************************)
(* The first write; nobody looks whether putKey, fopen or fwrite succeeds. *)
(***************************************************************************)
Write ==
    /\ thread.step = "handle"
    /\ Asked \in {"append", "create", "change", "set"}
    /\ Asked = "create" => ~Taken(At[1])
    /\ applied' \in {applied, [applied EXCEPT ![At] = @ + 1]}
    /\ \/ Asked \in {"append", "change"} /\ thread' = [thread EXCEPT !.step = "push"]
       \/ thread' = [thread EXCEPT !.step = "finish"]
    /\ UNCHANGED <<op, client, attempt, conn, sendBuf, up, stops>>

(***************************************************************************)
(* sendNotification: the thread reads what curl prints until it ends.      *)
(***************************************************************************)
PushEnds ==
    /\ thread.step = "push"
    /\ thread' = [thread EXCEPT !.step = "finish"]
    /\ UNCHANGED <<op, client, attempt, conn, sendBuf, applied, up, stops>>

(***************************************************************************)
(* The other writes of the request and its answer.  popen, or something    *)
(* after the first write, may fail: the change is made and the answer is   *)
(* an error.                                                               *)
(***************************************************************************)
Finish(s) ==
    /\ \/ s = "ok" /\ thread.step = "finish"
       \/ s = "error" /\ thread.step = "push"
       \/ s = "error" /\ thread.step = "finish" /\ Asked \in {"append", "change"}
    /\ Answer(s)
    /\ UNCHANGED <<op, client, attempt, applied, up, stops>>

(***************************************************************************)
(* SpecialRequestException: the request is left to mg_serve_http, which    *)
(* writes its own header.                                                  *)
(***************************************************************************)
ServeHttp(a) ==
    /\ up
    /\ thread = Idle
    /\ conn[a] = "received"
    /\ op[a[1]] = "static"
    /\ conn' = [conn EXCEPT ![a] = "answering"]
    /\ sendBuf' = [sendBuf EXCEPT ![a] = "other"]
    /\ UNCHANGED <<op, client, attempt, applied, thread, up, stops>>

(***************************************************************************)
(* mg_mgr_poll writes the buffer to the socket, and a client that waits on *)
(* this connection takes the answer: a 401 or 403 is tried again, a header *)
(* that cannot be read is a failure.                                       *)
(***************************************************************************)
Received(s) ==
    CASE s = "refused" -> "refused"
      [] s = "garbled" -> "failed"
      [] OTHER -> "answered"

Flush(a) ==
    LET c == a[1]
        waiting == client[c] = "waiting" /\ attempt[c] = a[2]
        again == waiting /\ sendBuf[a] = "denied" /\ attempt[c] <= MaxRetries
        written == [conn EXCEPT ![a] = "written"]
    IN
    /\ up
    /\ thread = Idle
    /\ conn[a] = "answering"
    /\ sendBuf' = [sendBuf EXCEPT ![a] = "none"]
    /\ \/ /\ again
          /\ conn' = [written EXCEPT ![<<c, a[2] + 1>>] = "received"]
          /\ attempt' = [attempt EXCEPT ![c] = @ + 1]
          /\ UNCHANGED client
       \/ /\ ~again
          /\ conn' = written
          /\ client' = IF waiting THEN [client EXCEPT ![c] = Received(sendBuf[a])] ELSE client
          /\ UNCHANGED attempt
    /\ UNCHANGED <<op, applied, thread, up, stops>>

-----------------------------------------------------------------------------
(***************************************************************************)
(* The process dies, at any step of a handler, or a signal ends the loop   *)
(* of main between two requests and mg_mgr_free closes the connections.    *)
(***************************************************************************)
Stop ==
    /\ up
    /\ stops < MaxStops
    /\ up' = FALSE
    /\ stops' = stops + 1
    /\ thread' = Idle
    /\ conn' = [a \in Attempt |->
                   IF conn[a] \in {"received", "handled", "answering"} THEN "cut" ELSE conn[a]]
    /\ sendBuf' = [a \in Attempt |-> "none"]
    /\ UNCHANGED <<op, client, attempt, applied>>

Start ==
    /\ ~up
    /\ up' = TRUE
    /\ UNCHANGED <<op, client, attempt, conn, sendBuf, applied, thread, stops>>

Next ==
    \/ \E c \in Call : (\E k \in Asks[c] : Send(c, k)) \/ Retry(c) \/ GiveUp(c)
    \/ \E a \in Attempt : EvHandler(a) \/ ServeHttp(a) \/ Flush(a)
    \/ \E s \in Status : Respond(s) \/ Finish(s)
    \/ Write \/ PushEnds
    \/ Stop \/ Start

(***************************************************************************)
(* The poll loop serves every connection in turn, and a handler that does  *)
(* not wait for Firebase goes on.  No fairness for PushEnds: curl has no   *)
(* time limit.  None for clients, signals or restarts either.              *)
(***************************************************************************)
Handling == thread.step # "push" /\ (Write \/ \E s \in Status : Respond(s) \/ Finish(s))

Fairness ==
    /\ \A a \in Attempt : WF_vars(EvHandler(a) \/ ServeHttp(a)) /\ WF_vars(Flush(a))
    /\ WF_vars(Handling)

Spec == Init /\ [][Next]_vars

FairSpec == Spec /\ Fairness

-----------------------------------------------------------------------------
(***************************************************************************)
(* BodilessRunOnce: PUT or DELETE of a picture and PUT of a token, whose   *)
(* success has no body and which fail before they write, change the store  *)
(* at most once for each attempt of the client, however validBody errs.    *)
(* Contacts, votes and deletions do not promise it: they may fail after    *)
(* the write, with a body.                                                 *)
(***************************************************************************)
BodilessRunOnce ==
    \A a \in Attempt : op[a[1]] = "set" => applied[a] <= 1

(***************************************************************************)
(* CreatedOnce: POST /users stores the account at most once, through       *)
(* second runs, late attempts, deaths within savePerson and retries, and a *)
(* client that is told that the mail is taken, though nobody else asked    *)
(* for it, has its account: an earlier run of the same call stored it,     *)
(* perhaps without the keys that follow.                                   *)
(***************************************************************************)
CreatedOnce ==
    \A c \in Call : op[c] = "create" =>
        /\ \A i, j \in 1 .. MaxRetries + 1 :
              applied[<<c, i>>] > 0 /\ applied[<<c, j>>] > 0 => i = j /\ applied[<<c, i>>] = 1
        /\ client[c] = "refused" => \E i \in 1 .. MaxRetries + 1 : applied[<<c, i>>] > 0

===============================================================================
