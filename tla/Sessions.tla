------------------------------- MODULE Sessions -------------------------------
(***************************************************************************)
(* Logging in and the sessions of requests: POST /login, POST              *)
(* /facebooklogin and Handler::controlAccess (SessionManager).  A session  *)
(* is two keys, user:token_<mail> and user:token_<token>, put in that      *)
(* order by saveToken and again by every request that uses it              *)
(* (updateToken).  The first is never read and left out; the second is     *)
(* what a request still owes (pending) when the process may die.  Nobody   *)
(* looks at the result of a put or of a delete, so each of them may fail   *)
(* and the request goes on.                                                *)
(*                                                                         *)
(* Tokens come from rand(), seeded with the time at which the process      *)
(* started: the token of a draw is the pair of seed and draw, taken to be  *)
(* different for different pairs.  Requests carry strings of the form of a *)
(* token.  Time is counted in ticks.  DemoUsers adds the users that        *)
(* DbBuilder loads, with their fixed tokens.                               *)
(***************************************************************************)
EXTENDS Integers, FiniteSets

CONSTANTS
    Mail,               \* mails as users type them
    Lower,              \* Lower[m]: m after ::tolower
    Password,
    EmptyPassword,      \* the empty string, the password of Facebook's users
    NoPassword,         \* value of an absent user:password_ key
    MaxIdle,            \* idle time a session survives (14400 s)
    Skews,              \* what mktime may add to it (see TokenExpired)
    MaxClock,           \* bound: ticks in a behaviour
    MaxLogins,          \* bound: logins in a behaviour
    MaxId               \* bound: accounts created in a behaviour

ASSUME LowerAssumption ==
    Lower \in [Mail -> Mail] /\ \A m \in Mail : Lower[Lower[m]] = Lower[m]
ASSUME PasswordAssumption ==
    EmptyPassword \notin Password /\ NoPassword \notin Password \cup {EmptyPassword}
ASSUME MailAssumption == Mail # {}
ASSUME BoundsAssumption ==
    MaxIdle \in Nat /\ MaxClock \in Nat /\ MaxLogins \in Nat /\ MaxId \in Nat
ASSUME SkewsAssumption == Skews \subseteq Nat

VARIABLES
    person,             \* person[m]: id in the record of mail m, 0 if absent, and
                        \* password under user:password_<m>
    lastID,
    entry,              \* entry[t]: user:token_<t>, id 0 if absent
    pending,            \* the second put the running request still owes
    clock, seed, draws, \* time, rand's seed and the tokens drawn since
    logins,             \* number of tokens drawn so far
    reply,              \* reply to the last request
    issuedTo,           \* history: id of the first login that was given t, or 0
    lastUse             \* history: when t was given out or last accepted

vars == <<person, lastID, entry, pending, clock, seed, draws, logins,
          reply, issuedTo, lastUse>>

Token == (0 .. MaxClock) \X (1 .. MaxLogins)

Id == 0 .. MaxId

Typed == Password \cup {EmptyPassword}

Person == [id : Id, password : Typed \cup {NoPassword}]

Entry == [id : Id, mail : Mail, lastUsed : 0 .. MaxClock]

Nobody == [id |-> 0, password |-> NoPassword]

NoEntry == [id |-> 0, mail |-> CHOOSE m \in Mail : TRUE, lastUsed |-> 0]

Reply == [kind : {"none", "created", "conflict", "deleted", "notFound", "error",
                  "unauthorized", "token", "served"},
          idle : 0 .. MaxClock]

Answer(kind, idle) == [kind |-> kind, idle |-> idle]

TypeOK ==
    /\ person \in [Mail -> Person]
    /\ lastID \in Id
    /\ entry \in [Token -> Entry]
    /\ pending \in SUBSET [token : Token, entry : Entry, kind : {"token", "served"}]
    /\ clock \in 0 .. MaxClock /\ seed \in 0 .. MaxClock
    /\ draws \in 0 .. MaxLogins /\ logins \in 0 .. MaxLogins
    /\ reply \in Reply
    /\ issuedTo \in [Token -> Id]
    /\ lastUse \in [Token -> 0 .. MaxClock]

Init ==
    /\ person = [m \in Mail |-> Nobody]
    /\ lastID = 0
    /\ entry = [t \in Token |-> NoEntry]
    /\ pending = {}
    /\ clock = 0 /\ seed = 0 /\ draws = 0 /\ logins = 0
    /\ reply = Answer("none", 0)
    /\ issuedTo = [t \in Token |-> 0]
    /\ lastUse = [t \in Token |-> 0]

time == <<clock, seed>>

people == <<person, lastID>>

tokens == <<entry, draws, logins, issuedTo, lastUse>>

-----------------------------------------------------------------------------
Exists(m) == person[m].id # 0

HasPassword(m) == person[m].password # NoPassword

(***************************************************************************)
(* The record and the password key of the mail m become id and p; either   *)
(* write may fail, or be lost with the process.                            *)
(***************************************************************************)
WritePerson(m, id, p) ==
    \E i \in {id, person[m].id}, q \in {p, person[m].password} :
        person' = [person EXCEPT ![m] = [id |-> i, password |-> q]]

(***************************************************************************)
(* savePerson: Person::deserializeMe lower-cases the mail and takes any    *)
(* password, the empty one too.  The put of lastID does not fail here (see *)
(* IdPutOutcomes of Accounts).                                             *)
(***************************************************************************)
Create(m, p) ==
    /\ lastID < MaxId
    /\ lastID' = lastID + 1
    /\ WritePerson(Lower[m], lastID + 1, p)

SavePerson(m, p) ==
    /\ pending = {}
    /\ \/ /\ ~Exists(Lower[m])
          /\ Create(m, p)
          /\ reply' = Answer("created", 0)
       \/ /\ Exists(Lower[m])
          /\ reply' = Answer("conflict", 0)
          /\ UNCHANGED people
    /\ UNCHANGED <<tokens, pending, time>>

(***************************************************************************)
(* deletePerson leaves the user's session keys where they are.             *)
(***************************************************************************)
DeletePerson(m) ==
    /\ pending = {}
    /\ Exists(m)
    /\ WritePerson(m, 0, NoPassword)
    /\ reply' = Answer("deleted", 0)
    /\ UNCHANGED <<lastID, tokens, pending, time>>

-----------------------------------------------------------------------------
(***************************************************************************)
(* getNewToken and saveToken up to its second put, for the user stored     *)
(* under the mail m.                                                       *)
(***************************************************************************)
GetNewTokenBeforeDraw == <<seed, draws>>

GetNewToken == <<seed, draws + 1>>

Draw ==
    /\ logins < MaxLogins
    /\ logins' = logins + 1
    /\ draws' = draws + 1

SaveToken(m, id) ==
    /\ Draw
    /\ pending' = {[token |-> GetNewToken, kind |-> "token",
                    entry |-> [id |-> id, mail |-> m, lastUsed |-> clock]]}
    /\ issuedTo' = [issuedTo EXCEPT ![GetNewToken] = IF @ = 0 THEN id ELSE @]
    /\ lastUse' = [lastUse EXCEPT ![GetNewToken] = clock]
    /\ reply' = Answer("none", 0)
    /\ UNCHANGED entry

(***************************************************************************)
(* saveToken looks up the record for the id: without one it throws, after  *)
(* the token was drawn.                                                    *)
(***************************************************************************)
SaveTokenThrows(kind) ==
    /\ Draw
    /\ reply' = Answer(kind, 0)
    /\ UNCHANGED <<entry, issuedTo, lastUse, pending>>

(***************************************************************************)
(* POST /login: the keys are looked up under the mail as typed, and the    *)
(* empty password is compared like any other.                              *)
(***************************************************************************)
Login(m, p) ==
    /\ pending = {}
    /\ \/ /\ ~HasPassword(m)
          /\ reply' = Answer("notFound", 0)
          /\ UNCHANGED <<tokens, pending>>
       \/ /\ HasPassword(m) /\ person[m].password # p
          /\ reply' = Answer("unauthorized", 0)
          /\ UNCHANGED <<tokens, pending>>
       \/ /\ person[m].password = p /\ Exists(m)
          /\ SaveToken(m, person[m].id)
       \/ /\ person[m].password = p /\ ~Exists(m)
          /\ SaveTokenThrows("notFound")
    /\ UNCHANGED <<people, time>>

(***************************************************************************)
(* facebookLogin asks for the password key of m, whatever is in it, in the *)
(* state after savePerson.                                                 *)
(***************************************************************************)
FacebookLogin(m) ==
    \/ /\ ~HasPassword(m)'
       /\ reply' = Answer("error", 0)
       /\ UNCHANGED <<tokens, pending>>
    \/ HasPassword(m)' /\ Exists(m)' /\ SaveToken(m, person'[m].id)
    \/ HasPassword(m)' /\ ~Exists(m)' /\ SaveTokenThrows("error")

(***************************************************************************)
(* POST /facebooklogin with the mail that Facebook reports.  savePerson    *)
(* and facebookLogin both run in one request; an exception of either is a  *)
(* 500.                                                                    *)
(***************************************************************************)
LoginWithFacebook(m) ==
    /\ pending = {}
    /\ \/ Exists(m) /\ UNCHANGED people /\ FacebookLogin(m)
       \/ /\ ~Exists(m) /\ Exists(Lower[m])
          /\ reply' = Answer("error", 0)
          /\ UNCHANGED <<people, tokens, pending>>
       \/ /\ ~Exists(m) /\ ~Exists(Lower[m])
          /\ Create(m, EmptyPassword)
          /\ FacebookLogin(m)
    /\ UNCHANGED time

-----------------------------------------------------------------------------
(***************************************************************************)
(* tokenExpired leaves tm_isdst uninitialized, so mktime may take the time *)
(* of the last use for daylight saving time and make it earlier: skew.  It *)
(* never makes it later, because the server runs in a time zone without    *)
(* daylight saving (UTC in the image of the Dockerfile).                   *)
(***************************************************************************)
TokenExpired(t, skew) == clock - entry[t].lastUsed + skew > MaxIdle

(***************************************************************************)
(* getSession: an unknown or expired token is refused, any other one is    *)
(* put again with the time of this request.                                *)
(***************************************************************************)
UpdateTokenAlways(t, skew) == entry[t].id # 0

Accepted(t, skew) == entry[t].id # 0 /\ ~TokenExpired(t, skew)

UpdatedEntryByMail(t) ==
    [entry[t] EXCEPT !.lastUsed = clock, !.id = person[entry[t].mail].id]

UpdatedEntry(t) == [entry[t] EXCEPT !.lastUsed = clock]

GetSession(t, skew) ==
    /\ pending = {}
    /\ Accepted(t, skew)
    /\ pending' = {[token |-> t, kind |-> "served", entry |-> UpdatedEntry(t)]}
    /\ reply' = Answer("none", 0)
    /\ UNCHANGED <<people, entry, draws, logins, issuedTo, lastUse, time>>

GetSessionRefused(t, skew) ==
    /\ pending = {}
    /\ ~Accepted(t, skew)
    /\ reply' = Answer("unauthorized", 0)
    /\ UNCHANGED <<people, tokens, pending, time>>

(***************************************************************************)
(* The second put of saveToken and of updateToken, and the reply.          *)
(***************************************************************************)
PutToken ==
    \E w \in pending :
        /\ entry' \in {entry, [entry EXCEPT ![w.token] = w.entry]}
        /\ pending' = {}
        /\ reply' = Answer(w.kind, w.entry.lastUsed - lastUse[w.token])
        /\ lastUse' = [lastUse EXCEPT ![w.token] = w.entry.lastUsed]
        /\ UNCHANGED <<people, draws, logins, issuedTo, time>>

-----------------------------------------------------------------------------
Tick ==
    /\ clock < MaxClock
    /\ clock' = clock + 1
    /\ UNCHANGED <<people, tokens, pending, seed, reply>>

(***************************************************************************)
(* The process dies and starts again, at a later tick: main seeds rand     *)
(* with the time of the start.                                             *)
(***************************************************************************)
SeedMissing(now) == 0

Seed(now) == now

Restart ==
    /\ clock < MaxClock
    /\ clock' = clock + 1
    /\ seed' = Seed(clock + 1)
    /\ draws' = 0
    /\ pending' = {}
    /\ UNCHANGED <<people, entry, logins, issuedTo, lastUse, reply>>

Requests ==
    \/ \E m \in Mail, p \in Typed : SavePerson(m, p) \/ Login(m, p)
    \/ \E m \in Mail : DeletePerson(m) \/ LoginWithFacebook(m)
    \/ \E t \in Token, skew \in Skews : GetSession(t, skew) \/ GetSessionRefused(t, skew)

Next == Requests \/ PutToken \/ Tick \/ Restart

Spec == Init /\ [][Next]_vars

-----------------------------------------------------------------------------
(***************************************************************************)
(* SessionsKeepTheirUser: a token stands for the account whose login was   *)
(* given it, for as long as it is stored: through restarts, deletions and  *)
(* the mail being registered again under a new id.                         *)
(***************************************************************************)
SessionsKeepTheirUser ==
    \A t \in Token : entry[t].id # 0 => entry[t].id = issuedTo[t]

(***************************************************************************)
(* TokensAreFresh: what makes SessionsKeepTheirUser hold: every token      *)
(* given out so far comes from an earlier seed or an earlier draw of this  *)
(* one, so getNewToken, which never looks whether a token is taken, cannot *)
(* draw it again.                                                          *)
(***************************************************************************)
TokensAreFresh ==
    \A t \in Token : issuedTo[t] # 0 => t[1] < seed \/ (t[1] = seed /\ t[2] <= draws)

(***************************************************************************)
(* IdleSessionsEnd: no request is served whose token was neither given out *)
(* nor accepted within the last MaxIdle ticks, failed puts of the time of  *)
(* the last use included.  MaxIdle is the limit of the code, 14400 s       *)
(* (SessionManager.cpp:162); the comment of getSession                     *)
(* (SessionManager.h:29-30) says "4 m.", which this does not claim.        *)
(***************************************************************************)
IdleSessionsEnd == reply.kind = "served" => reply.idle <= MaxIdle
===============================================================================
