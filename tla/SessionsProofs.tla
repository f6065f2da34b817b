---------------------------- MODULE SessionsProofs ----------------------------
(***************************************************************************)
(* Proofs about Sessions and DemoUsers, for any mails, passwords and       *)
(* bounds.  The inductive invariant adds to the properties what the clocks *)
(* of tokens satisfy and what the put that a request still owes will       *)
(* store.                                                                  *)
(*                                                                         *)
(* What holds of sessions holds with the demo users too, and their fixed   *)
(* tokens open nobody else's account.  The reason is that ids only grow:   *)
(* an id that loadUsers gave is given to nobody else, and between the save *)
(* of a demo user and the save of her token no request is served.          *)
(***************************************************************************)
EXTENDS DemoUsers, TLAPS

(* No use of a token lies in the future, and a seed is an earlier time.      *)
Clocks ==
    /\ draws <= logins
    /\ seed <= clock
    /\ \A t \in Token : lastUse[t] <= clock

(* A stored token was used no later than the history says.                   *)
StoredUses == \A t \in Token : entry[t].id # 0 => entry[t].lastUsed <= lastUse[t]

(* The owed put is for the login's user and, for a request, in time.         *)
Owed(w) ==
    /\ w.entry.id # 0
    /\ issuedTo[w.token] = w.entry.id
    /\ lastUse[w.token] <= w.entry.lastUsed
    /\ w.entry.lastUsed <= clock
    /\ w.kind = "served" => w.entry.lastUsed - lastUse[w.token] <= MaxIdle

OwedPuts == \A w \in pending : Owed(w)

IInv ==
    /\ TypeOK
    /\ Clocks
    /\ StoredUses
    /\ OwedPuts
    /\ SessionsKeepTheirUser
    /\ TokensAreFresh
    /\ IdleSessionsEnd

-----------------------------------------------------------------------------
(* The value of an absent token key is well typed.                           *)
LEMMA NoEntryType == NoEntry \in Entry /\ NoEntry.id = 0
BY MailAssumption, BoundsAssumption DEF NoEntry, Entry, Id

(* An empty store satisfies the invariant.                                   *)
LEMMA InitInv == Init => IInv
<1> SUFFICES ASSUME Init PROVE IInv
  OBVIOUS
<1> USE BoundsAssumption, NoEntryType DEF Init
<1>1. TypeOK
  BY DEF TypeOK, Nobody, Person, Id, Reply, Answer, Entry
<1>2. Clocks /\ StoredUses /\ OwedPuts
  BY DEF Clocks, StoredUses, OwedPuts
<1>3. SessionsKeepTheirUser /\ TokensAreFresh
  BY DEF SessionsKeepTheirUser, TokensAreFresh
<1>4. IdleSessionsEnd
  BY DEF IdleSessionsEnd, Answer
<1>5. QED
  BY <1>1, <1>2, <1>3, <1>4 DEF IInv

(* The token that getNewToken draws next was never given out.                *)
LEMMA NextTokenFresh ==
    ASSUME IInv, logins < MaxLogins
    PROVE  GetNewToken \in Token /\ issuedTo[GetNewToken] = 0 /\ entry[GetNewToken].id = 0
<1> USE BoundsAssumption
<1>1. seed \in 0 .. MaxClock /\ draws + 1 \in 1 .. MaxLogins
  BY DEF IInv, TypeOK, Clocks
<1>2. GetNewToken \in Token
  BY <1>1 DEF GetNewToken, Token
<1>3. GetNewToken[1] = seed /\ GetNewToken[2] = draws + 1
  BY DEF GetNewToken
<1>4. ~(GetNewToken[1] < seed) /\ ~(GetNewToken[2] <= draws)
  <2>1. seed \in Int /\ draws \in Int
    BY DEF IInv, TypeOK
  <2>2. ~(seed < seed) /\ ~(draws + 1 <= draws)
    BY <2>1
  <2>3. QED
    BY <1>3, <2>2
<1>5. issuedTo[GetNewToken] = 0
  BY <1>2, <1>4 DEF IInv, TokensAreFresh
<1>6. entry[GetNewToken].id = 0
  BY <1>2, <1>5 DEF IInv, SessionsKeepTheirUser
<1>7. QED
  BY <1>2, <1>5, <1>6

(* Giving out a token keeps the invariant's parts about tokens.              *)
LEMMA SaveTokenInv ==
    ASSUME IInv, NEW m \in Mail, NEW id \in Id, id # 0, SaveToken(m, id),
           UNCHANGED time
    PROVE  /\ entry' \in [Token -> Entry]
           /\ pending' \in SUBSET [token : Token, entry : Entry, kind : {"token", "served"}]
           /\ clock' \in 0 .. MaxClock /\ seed' \in 0 .. MaxClock
           /\ draws' \in 0 .. MaxLogins /\ logins' \in 0 .. MaxLogins
           /\ reply' \in Reply
           /\ issuedTo' \in [Token -> Id]
           /\ lastUse' \in [Token -> 0 .. MaxClock]
           /\ Clocks' /\ StoredUses' /\ OwedPuts'
           /\ SessionsKeepTheirUser' /\ TokensAreFresh' /\ IdleSessionsEnd'
<1> DEFINE n == GetNewToken
<1> USE BoundsAssumption
<1>1. n \in Token /\ issuedTo[n] = 0 /\ entry[n].id = 0
  BY NextTokenFresh DEF SaveToken, Draw
<1>2. TypeOK /\ Clocks /\ StoredUses /\ SessionsKeepTheirUser /\ TokensAreFresh
  BY DEF IInv
<1>3. /\ logins < MaxLogins /\ logins' = logins + 1 /\ draws' = draws + 1
      /\ pending' = {[token |-> n, kind |-> "token",
                      entry |-> [id |-> id, mail |-> m, lastUsed |-> clock]]}
      /\ lastUse' = [lastUse EXCEPT ![n] = clock]
      /\ reply' = Answer("none", 0)
      /\ entry' = entry /\ clock' = clock /\ seed' = seed
  BY DEF SaveToken, Draw, time
<1>4. issuedTo' = [issuedTo EXCEPT ![n] = id]
  BY <1>1, <1>2 DEF SaveToken, TypeOK
<1> HIDE DEF n
<1>5. n[1] = seed /\ n[2] = draws + 1
  BY DEF n, GetNewToken
<1>6. /\ entry' \in [Token -> Entry]
      /\ clock' \in 0 .. MaxClock /\ seed' \in 0 .. MaxClock
      /\ issuedTo' \in [Token -> Id]
      /\ lastUse' \in [Token -> 0 .. MaxClock]
  BY <1>1, <1>2, <1>3, <1>4 DEF TypeOK
<1>7. draws' \in 0 .. MaxLogins /\ logins' \in 0 .. MaxLogins
  BY <1>2, <1>3 DEF TypeOK, Clocks
<1>8. reply' \in Reply
  BY <1>3 DEF Reply, Answer
<1>9. pending' \in SUBSET [token : Token, entry : Entry, kind : {"token", "served"}]
  BY <1>1, <1>2, <1>3 DEF TypeOK, Entry
<1>10. Clocks'
  BY <1>1, <1>2, <1>3 DEF TypeOK, Clocks
<1>11. StoredUses'
  BY <1>1, <1>2, <1>3 DEF TypeOK, StoredUses
<1>12. OwedPuts'
  <2> SUFFICES ASSUME NEW w \in pending' PROVE Owed(w)'
    BY DEF OwedPuts
  <2>1. w.token = n /\ w.kind = "token" /\ w.entry.id = id /\ w.entry.lastUsed = clock
    BY <1>3
  <2>2. issuedTo'[n] = id /\ lastUse'[n] = clock
    BY <1>1, <1>2, <1>3, <1>4 DEF TypeOK
  <2>3. clock <= clock
    BY <1>2 DEF TypeOK
  <2>4. QED
    BY <1>3, <2>1, <2>2, <2>3 DEF Owed
<1>13. SessionsKeepTheirUser'
  BY <1>1, <1>2, <1>3, <1>4 DEF TypeOK, SessionsKeepTheirUser
<1>14. TokensAreFresh'
  <2> SUFFICES ASSUME NEW t \in Token, issuedTo'[t] # 0
               PROVE  t[1] < seed' \/ (t[1] = seed' /\ t[2] <= draws')
    BY DEF TokensAreFresh
  <2>1. t[1] \in Int /\ t[2] \in Int
    BY DEF Token
  <2>2. CASE t = n
    BY <1>2, <1>3, <1>5, <2>1, <2>2 DEF TypeOK
  <2>3. CASE t # n
    <3>1. issuedTo[t] # 0
      BY <1>2, <1>4, <2>3 DEF TypeOK
    <3>2. t[1] < seed \/ (t[1] = seed /\ t[2] <= draws)
      BY <1>2, <3>1 DEF TokensAreFresh
    <3>3. QED
      BY <1>2, <1>3, <2>1, <3>2 DEF TypeOK
  <2>4. QED
    BY <2>2, <2>3
<1>15. IdleSessionsEnd'
  BY <1>3 DEF IdleSessionsEnd, Answer
<1>16. QED
  BY <1>6, <1>7, <1>8, <1>9, <1>10, <1>11, <1>12, <1>13, <1>14, <1>15

(* A step that leaves every session key and clock alone only has to answer   *)
(* with something that is no served request.                                 *)
LEMMA TokensUntouched ==
    ASSUME IInv, UNCHANGED <<tokens, pending, time>>,
           reply' \in Reply, reply'.kind # "served",
           person' \in [Mail -> Person], lastID' \in Id
    PROVE  IInv'
<1>1. TypeOK'
  BY DEF IInv, TypeOK, tokens, time
<1>2. Clocks' /\ StoredUses'
  BY DEF IInv, Clocks, StoredUses, tokens, time
<1>3. OwedPuts'
  BY DEF IInv, OwedPuts, Owed, tokens, time
<1>4. SessionsKeepTheirUser' /\ TokensAreFresh' /\ IdleSessionsEnd'
  BY DEF IInv, SessionsKeepTheirUser, TokensAreFresh, IdleSessionsEnd, tokens, time
<1>5. QED
  BY <1>1, <1>2, <1>3, <1>4 DEF IInv

(* Every reply that a handler gives without serving a request is well typed. *)
LEMMA AnswerType ==
    ASSUME NEW k \in {"created", "conflict", "deleted", "notFound", "error",
                      "unauthorized", "none"}
    PROVE  Answer(k, 0) \in Reply /\ Answer(k, 0).kind # "served"
BY BoundsAssumption DEF Answer, Reply

(* Writing the keys of an account, all or some of them, keeps their types.   *)
LEMMA WritePersonType ==
    ASSUME IInv, NEW m \in Mail, NEW id \in Id, NEW p \in Typed \cup {NoPassword},
           WritePerson(m, id, p)
    PROVE  person' \in [Mail -> Person]
<1>1. PICK i \in {id, person[m].id}, q \in {p, person[m].password} :
        person' = [person EXCEPT ![m] = [id |-> i, password |-> q]]
  BY DEF WritePerson
<1>2. person \in [Mail -> Person] /\ person[m] \in Person
  BY DEF IInv, TypeOK
<1>3. [id |-> i, password |-> q] \in Person
  BY <1>1, <1>2 DEF Person
<1>4. QED
  BY <1>1, <1>2, <1>3

(* Creating an account keeps the types of the accounts.                      *)
LEMMA CreateType ==
    ASSUME IInv, NEW m \in Mail, NEW p \in Typed, Create(m, p)
    PROVE  /\ person' \in [Mail -> Person] /\ lastID' \in Id
           /\ lastID + 1 \in Id /\ lastID + 1 # 0
<1> USE BoundsAssumption, LowerAssumption
<1>1. lastID + 1 \in Id /\ lastID + 1 # 0
  BY DEF IInv, TypeOK, Create, Id
<1>2. lastID' \in Id
  BY <1>1 DEF IInv, TypeOK, Create
<1>3. Lower[m] \in Mail
  OBVIOUS
<1>4. person' \in [Mail -> Person]
  BY <1>1, <1>3, WritePersonType DEF Create
<1>5. QED
  BY <1>1, <1>2, <1>4

(* With SaveTokenInv, a login keeps the whole invariant.                     *)
LEMMA LoginInv ==
    ASSUME IInv, NEW m \in Mail, NEW id \in Id, id # 0, SaveToken(m, id),
           UNCHANGED time,
           person' \in [Mail -> Person], lastID' \in Id
    PROVE  IInv'
BY SaveTokenInv DEF IInv, TypeOK

(* A login that finds no record has drawn a token and given it to nobody.    *)
LEMMA SaveTokenThrowsInv ==
    ASSUME IInv, NEW k \in {"notFound", "error"}, SaveTokenThrows(k), UNCHANGED time,
           person' \in [Mail -> Person], lastID' \in Id
    PROVE  IInv'
<1> USE BoundsAssumption
<1>1. TypeOK /\ Clocks /\ StoredUses /\ OwedPuts /\ SessionsKeepTheirUser /\ TokensAreFresh
  BY DEF IInv
<1>2. /\ logins < MaxLogins /\ logins' = logins + 1 /\ draws' = draws + 1
      /\ reply' = Answer(k, 0)
      /\ UNCHANGED <<entry, issuedTo, lastUse, pending, clock, seed>>
  BY DEF SaveTokenThrows, Draw, time
<1>3. draws' \in 0 .. MaxLogins /\ logins' \in 0 .. MaxLogins
  BY <1>1, <1>2 DEF TypeOK, Clocks
<1>4. reply' \in Reply /\ reply'.kind # "served"
  BY <1>2, AnswerType
<1>5. TypeOK'
  BY <1>1, <1>2, <1>3, <1>4 DEF TypeOK
<1>6. Clocks'
  BY <1>1, <1>2 DEF TypeOK, Clocks
<1>7. StoredUses' /\ SessionsKeepTheirUser' /\ IdleSessionsEnd'
  BY <1>1, <1>2, <1>4 DEF StoredUses, SessionsKeepTheirUser, IdleSessionsEnd
<1>8. OwedPuts'
  BY <1>1, <1>2 DEF OwedPuts, Owed
<1>9. TokensAreFresh'
  <2> SUFFICES ASSUME NEW t \in Token, issuedTo[t] # 0
               PROVE  t[1] < seed \/ (t[1] = seed /\ t[2] <= draws + 1)
    BY <1>2 DEF TokensAreFresh
  <2>1. t[2] \in Int /\ draws \in Int
    BY <1>1 DEF Token, TypeOK
  <2>2. t[1] < seed \/ (t[1] = seed /\ t[2] <= draws)
    BY <1>1 DEF TokensAreFresh
  <2>3. QED
    BY <2>1, <2>2
<1>10. QED
  BY <1>5, <1>6, <1>7, <1>8, <1>9 DEF IInv

(* facebookLogin keeps the invariant, whatever savePerson stored before it.  *)
LEMMA FacebookLoginInv ==
    ASSUME IInv, NEW m \in Mail, FacebookLogin(m), UNCHANGED time,
           person' \in [Mail -> Person], lastID' \in Id
    PROVE  IInv'
<1>1. CASE reply' = Answer("error", 0) /\ UNCHANGED <<tokens, pending>>
  BY <1>1, AnswerType, TokensUntouched
<1>2. CASE Exists(m)' /\ SaveToken(m, person'[m].id)
  <2>1. person'[m].id \in Id /\ person'[m].id # 0
    BY <1>2 DEF Person, Exists
  <2>2. QED
    BY <1>2, <2>1, LoginInv
<1>3. CASE SaveTokenThrows("error")
  BY <1>3, SaveTokenThrowsInv
<1>4. QED
  BY <1>1, <1>2, <1>3 DEF FacebookLogin

(* getSession owes the put of an entry that is still in time.                *)
LEMMA GetSessionInv ==
    ASSUME IInv, NEW t \in Token, NEW skew \in Skews, GetSession(t, skew)
    PROVE  IInv'
<1> USE BoundsAssumption, SkewsAssumption
<1>1. TypeOK /\ Clocks /\ StoredUses /\ SessionsKeepTheirUser /\ TokensAreFresh
  BY DEF IInv
<1>2. /\ entry[t].id # 0 /\ ~(clock - entry[t].lastUsed + skew > MaxIdle)
      /\ pending' = {[token |-> t, kind |-> "served", entry |-> UpdatedEntry(t)]}
      /\ reply' = Answer("none", 0)
      /\ UNCHANGED <<person, lastID, entry, draws, logins, issuedTo, lastUse,
                     clock, seed>>
  BY DEF GetSession, Accepted, TokenExpired, people, time
<1>3. entry[t] \in Entry /\ entry[t].mail \in Mail
  BY <1>1 DEF TypeOK, Entry
<1>4. /\ UpdatedEntry(t) \in Entry /\ UpdatedEntry(t).id = entry[t].id
      /\ UpdatedEntry(t).lastUsed = clock
  BY <1>1, <1>3 DEF TypeOK, Entry, UpdatedEntry
<1>5. TypeOK'
  <2>1. reply' \in Reply
    BY <1>2, <1>3, AnswerType
  <2>2. pending' \in SUBSET [token : Token, entry : Entry, kind : {"token", "served"}]
    BY <1>2, <1>4
  <2>3. QED
    BY <1>1, <1>2, <2>1, <2>2 DEF TypeOK
<1>6. Clocks' /\ StoredUses' /\ SessionsKeepTheirUser' /\ TokensAreFresh'
  BY <1>1, <1>2 DEF Clocks, StoredUses, SessionsKeepTheirUser, TokensAreFresh
<1>7. OwedPuts'
  <2> SUFFICES ASSUME NEW w \in pending' PROVE Owed(w)'
    BY DEF OwedPuts
  <2>1. w.token = t /\ w.entry.id = entry[t].id /\ w.entry.lastUsed = clock
    BY <1>2, <1>4
  <2>2. issuedTo[t] = entry[t].id
    BY <1>1, <1>2 DEF SessionsKeepTheirUser
  <2>3. lastUse[t] <= clock /\ entry[t].lastUsed <= lastUse[t]
    BY <1>1, <1>2 DEF Clocks, StoredUses
  <2>4. clock \in Int /\ lastUse[t] \in Int /\ entry[t].lastUsed \in Int
    BY <1>1, <1>3 DEF TypeOK, Entry
  <2>5. clock - lastUse[t] <= MaxIdle /\ clock <= clock
    BY <1>2, <2>3, <2>4
  <2>6. QED
    BY <1>2, <2>1, <2>2, <2>3, <2>5 DEF Owed
<1>8. IdleSessionsEnd'
  BY <1>2, <1>3, AnswerType DEF IdleSessionsEnd
<1>9. QED
  BY <1>5, <1>6, <1>7, <1>8 DEF IInv

(* The second put stores what OwedPuts says of it.                           *)
LEMMA PutTokenInv ==
    ASSUME IInv, PutToken
    PROVE  IInv'
<1> USE BoundsAssumption
<1>1. TypeOK /\ Clocks /\ StoredUses /\ OwedPuts /\ SessionsKeepTheirUser /\ TokensAreFresh
  BY DEF IInv
<1>2. PICK w \in pending :
        /\ entry' \in {entry, [entry EXCEPT ![w.token] = w.entry]}
        /\ pending' = {}
        /\ reply' = Answer(w.kind, w.entry.lastUsed - lastUse[w.token])
        /\ lastUse' = [lastUse EXCEPT ![w.token] = w.entry.lastUsed]
        /\ UNCHANGED <<person, lastID, draws, logins, issuedTo, clock, seed>>
  BY DEF PutToken, people, time
<1>3. /\ w.token \in Token /\ w.entry \in Entry /\ w.kind \in {"token", "served"}
      /\ w.entry.mail \in Mail /\ w.entry.lastUsed \in 0 .. MaxClock
      /\ lastUse[w.token] \in 0 .. MaxClock
  BY <1>1 DEF TypeOK, Entry
<1>4. Owed(w)
  BY <1>1 DEF OwedPuts
<1>5. w.entry.lastUsed - lastUse[w.token] \in 0 .. MaxClock
  BY <1>3, <1>4 DEF Owed
<1>6. TypeOK'
  <2>1. reply' \in Reply
    BY <1>2, <1>3, <1>5 DEF Reply, Answer
  <2>2. QED
    BY <1>1, <1>2, <1>3, <2>1 DEF TypeOK
<1>7. Clocks'
  BY <1>1, <1>2, <1>3, <1>4 DEF TypeOK, Clocks, Owed
<1>8. StoredUses'
  <2> SUFFICES ASSUME NEW t \in Token, entry'[t].id # 0
               PROVE  entry'[t].lastUsed <= lastUse'[t]
    BY DEF StoredUses
  <2>1. CASE t # w.token
    BY <1>1, <1>2, <1>3, <2>1 DEF TypeOK, StoredUses
  <2>2. CASE t = w.token
    <3>1. lastUse'[t] = w.entry.lastUsed /\ lastUse[t] <= w.entry.lastUsed
      BY <1>1, <1>2, <1>3, <1>4, <2>2 DEF TypeOK, Owed
    <3>2. CASE entry' = [entry EXCEPT ![w.token] = w.entry]
      BY <1>1, <1>3, <2>2, <3>1, <3>2 DEF TypeOK
    <3>3. CASE entry' = entry
      <4>1. entry[t].lastUsed <= lastUse[t] /\ entry[t].lastUsed \in Int
        BY <1>1, <3>3 DEF StoredUses, TypeOK, Entry
      <4>2. QED
        BY <1>3, <2>2, <3>1, <3>3, <4>1
    <3>4. QED
      BY <1>2, <3>2, <3>3
  <2>3. QED
    BY <2>1, <2>2
<1>9. OwedPuts'
  BY <1>2 DEF OwedPuts
<1>10. SessionsKeepTheirUser'
  BY <1>1, <1>2, <1>3, <1>4 DEF TypeOK, SessionsKeepTheirUser, Owed
<1>11. TokensAreFresh'
  BY <1>1, <1>2 DEF TokensAreFresh
<1>12. IdleSessionsEnd'
  BY <1>2, <1>4 DEF IdleSessionsEnd, Owed, Answer
<1>13. QED
  BY <1>6, <1>7, <1>8, <1>9, <1>10, <1>11, <1>12 DEF IInv

(* Time passes: a restart moves the seed past every token given out.         *)
LEMMA TickInv ==
    ASSUME IInv, Tick \/ Restart
    PROVE  IInv'
<1> USE BoundsAssumption
<1>1. TypeOK /\ Clocks /\ StoredUses /\ OwedPuts /\ SessionsKeepTheirUser /\ TokensAreFresh
      /\ IdleSessionsEnd
  BY DEF IInv
<1>2. /\ clock < MaxClock /\ clock' = clock + 1
      /\ UNCHANGED <<person, lastID, entry, logins, issuedTo, lastUse, reply>>
      /\ \/ seed' = seed /\ draws' = draws /\ pending' = pending
         \/ seed' = clock + 1 /\ draws' = 0 /\ pending' = {}
  BY DEF Tick, Restart, Seed, people, tokens
<1>3. clock \in 0 .. MaxClock /\ clock + 1 \in 0 .. MaxClock
  BY <1>1, <1>2 DEF TypeOK
<1>4. TypeOK'
  BY <1>1, <1>2, <1>3 DEF TypeOK
<1>5. Clocks'
  BY <1>1, <1>2, <1>3 DEF TypeOK, Clocks
<1>6. StoredUses' /\ SessionsKeepTheirUser' /\ IdleSessionsEnd'
  BY <1>1, <1>2 DEF StoredUses, SessionsKeepTheirUser, IdleSessionsEnd
<1>7. OwedPuts'
  <2> SUFFICES ASSUME NEW w \in pending' PROVE Owed(w)'
    BY DEF OwedPuts
  <2>1. w \in pending /\ Owed(w)
    BY <1>1, <1>2 DEF OwedPuts
  <2>2. w.entry.lastUsed \in Int
    BY <1>1, <2>1 DEF TypeOK, Entry
  <2>3. w.entry.lastUsed <= clock + 1
    BY <1>3, <2>1, <2>2 DEF Owed
  <2>4. QED
    BY <1>2, <2>1, <2>3 DEF Owed
<1>8. TokensAreFresh'
  <2> SUFFICES ASSUME NEW t \in Token, issuedTo[t] # 0
               PROVE  t[1] < seed' \/ (t[1] = seed' /\ t[2] <= draws')
    BY <1>2 DEF TokensAreFresh
  <2>1. t[1] \in Int /\ t[2] \in Int
    BY DEF Token
  <2>2. t[1] < seed \/ (t[1] = seed /\ t[2] <= draws)
    BY <1>1 DEF TokensAreFresh
  <2>3. CASE seed' = clock + 1
    BY <1>1, <1>3, <2>1, <2>2, <2>3 DEF TypeOK, Clocks
  <2>4. CASE seed' = seed /\ draws' = draws
    BY <2>2, <2>4
  <2>5. QED
    BY <1>2, <2>3, <2>4
<1>9. QED
  BY <1>4, <1>5, <1>6, <1>7, <1>8 DEF IInv

-----------------------------------------------------------------------------
(* Every request, put, tick and restart keeps the invariant.                 *)
LEMMA NextInv == IInv /\ [Next]_vars => IInv'
<1> SUFFICES ASSUME IInv, [Next]_vars PROVE IInv'
  OBVIOUS
<1>0. /\ person \in [Mail -> Person] /\ lastID \in Id
      /\ \A m \in Mail : person[m].id \in Id
  BY DEF IInv, TypeOK, Person
<1>1. ASSUME NEW m \in Mail, NEW p \in Typed, SavePerson(m, p) PROVE IInv'
  <2>1. CASE Create(m, p) /\ reply' = Answer("created", 0)
    BY <1>1, <2>1, CreateType, AnswerType, TokensUntouched DEF SavePerson
  <2>2. CASE reply' = Answer("conflict", 0) /\ UNCHANGED people
    BY <1>0, <1>1, <2>2, AnswerType, TokensUntouched DEF SavePerson, people
  <2>3. QED
    BY <1>1, <2>1, <2>2 DEF SavePerson
<1>2. ASSUME NEW m \in Mail, NEW p \in Typed, Login(m, p) PROVE IInv'
  <2>1. UNCHANGED <<person, lastID>> /\ UNCHANGED time
    BY <1>2 DEF Login, people
  <2>2. CASE Exists(m) /\ SaveToken(m, person[m].id)
    BY <1>0, <2>1, <2>2, LoginInv DEF Exists
  <2>3. CASE reply' = Answer("notFound", 0) /\ UNCHANGED <<tokens, pending>>
    BY <1>0, <2>1, <2>3, AnswerType, TokensUntouched
  <2>4. CASE reply' = Answer("unauthorized", 0) /\ UNCHANGED <<tokens, pending>>
    BY <1>0, <2>1, <2>4, AnswerType, TokensUntouched
  <2>5. CASE SaveTokenThrows("notFound")
    BY <1>0, <2>1, <2>5, SaveTokenThrowsInv
  <2>6. QED
    BY <1>2, <2>2, <2>3, <2>4, <2>5 DEF Login
<1>3. ASSUME NEW m \in Mail, DeletePerson(m) PROVE IInv'
  <2>1. 0 \in Id /\ NoPassword \in Typed \cup {NoPassword}
    BY BoundsAssumption DEF Id
  <2>2. person' \in [Mail -> Person]
    BY <1>3, <2>1, WritePersonType DEF DeletePerson
  <2>3. QED
    BY <1>0, <1>3, <2>2, AnswerType, TokensUntouched DEF DeletePerson
<1>4. ASSUME NEW m \in Mail, LoginWithFacebook(m) PROVE IInv'
  <2>1. UNCHANGED time
    BY <1>4 DEF LoginWithFacebook
  <2>2. CASE UNCHANGED people /\ FacebookLogin(m)
    BY <1>0, <2>1, <2>2, FacebookLoginInv DEF people
  <2>3. CASE reply' = Answer("error", 0) /\ UNCHANGED <<people, tokens, pending>>
    BY <1>0, <2>1, <2>3, AnswerType, TokensUntouched DEF people
  <2>4. CASE Create(m, EmptyPassword) /\ FacebookLogin(m)
    <3>1. EmptyPassword \in Typed
      BY DEF Typed
    <3>2. person' \in [Mail -> Person] /\ lastID' \in Id
      BY <2>4, <3>1, CreateType
    <3>3. QED
      BY <2>1, <2>4, <3>2, FacebookLoginInv
  <2>5. QED
    BY <1>4, <2>2, <2>3, <2>4 DEF LoginWithFacebook
<1>5. ASSUME NEW t \in Token, NEW skew \in Skews, GetSession(t, skew) PROVE IInv'
  BY <1>5, GetSessionInv
<1>6. ASSUME NEW t \in Token, NEW skew \in Skews, GetSessionRefused(t, skew) PROVE IInv'
  <2>1. entry[t].mail \in Mail
    BY DEF IInv, TypeOK, Entry
  <2>2. QED
    BY <1>0, <1>6, <2>1, AnswerType, TokensUntouched DEF GetSessionRefused, people
<1>7. CASE PutToken
  BY <1>7, PutTokenInv
<1>8. CASE Tick \/ Restart
  BY <1>8, TickInv
<1>9. CASE UNCHANGED vars
  <2>1. TypeOK'
    BY <1>9 DEF vars, IInv, TypeOK
  <2>2. Clocks' /\ StoredUses' /\ SessionsKeepTheirUser' /\ TokensAreFresh' /\ IdleSessionsEnd'
    BY <1>9 DEF vars, IInv, Clocks, StoredUses, SessionsKeepTheirUser, TokensAreFresh,
                IdleSessionsEnd
  <2>3. OwedPuts'
    BY <1>9 DEF vars, IInv, OwedPuts, Owed
  <2>4. QED
    BY <2>1, <2>2, <2>3 DEF IInv
<1>10. QED
  BY <1>1, <1>2, <1>3, <1>4, <1>5, <1>6, <1>7, <1>8, <1>9 DEF Next, Requests

(***************************************************************************)
(* The inductive invariant holds in every reachable state: what getSession *)
(* and saveToken leave owed is always what SessionManager's second put may *)
(* store.                                                                  *)
(***************************************************************************)
THEOREM Inductive == Spec => []IInv
BY InitInv, NextInv, PTL DEF Spec

(***************************************************************************)
(* Every reachable state of logins, requests, restarts and deletions is    *)
(* well typed; in particular getNewToken never runs out of its domain.     *)
(***************************************************************************)
THEOREM TypeCorrect == Spec => []TypeOK
<1>1. IInv => TypeOK
  BY DEF IInv
<1>2. QED
  BY <1>1, Inductive, PTL

(***************************************************************************)
(* A stored token stands for the account whose login was given it, however *)
(* restarts cut saveToken and updateToken short and mails change hands.    *)
(***************************************************************************)
THEOREM SessionsKeep == Spec => []SessionsKeepTheirUser
<1>1. IInv => SessionsKeepTheirUser
  BY DEF IInv
<1>2. QED
  BY <1>1, Inductive, PTL

(***************************************************************************)
(* A token that was given out cannot be drawn again by getNewToken as long *)
(* as every start of the process seeds rand with a later time.             *)
(***************************************************************************)
THEOREM FreshTokens == Spec => []TokensAreFresh
<1>1. IInv => TokensAreFresh
  BY DEF IInv
<1>2. QED
  BY <1>1, Inductive, PTL

(***************************************************************************)
(* getSession serves no request whose token was idle for longer than       *)
(* MaxIdle, for any skew that mktime adds.                                 *)
(***************************************************************************)
THEOREM IdleEnds == Spec => []IdleSessionsEnd
<1>1. IInv => IdleSessionsEnd
  BY DEF IInv
<1>2. QED
  BY <1>1, Inductive, PTL

-----------------------------------------------------------------------------
(* Ids were given out by generateID, and so were those of demo users.        *)
IdsGiven ==
    /\ \A m \in Mail : person[m].id <= lastID
    /\ \A i \in demoIds : 0 < i /\ i <= lastID

(* Between the two writes of loadUsers nobody but the demo user is there.    *)
Loading ==
    boot = "token" /\ Exists(DemoMail) => person[DemoMail].id \in demoIds

DemoInv ==
    /\ IInv
    /\ boot \in {"save", "token", "up", "dead"}
    /\ demoEntry \in Entry /\ demoEntry.lastUsed <= clock
    /\ demoIds \in SUBSET Id
    /\ IdsGiven
    /\ Loading
    /\ DemoTokenOpensDemoUsers

-----------------------------------------------------------------------------
(* The first start of the server satisfies the invariant.                    *)
LEMMA DemoInitInv == DemoInit => DemoInv
<1> SUFFICES ASSUME DemoInit PROVE DemoInv
  OBVIOUS
<1> USE DEF DemoInit
<1>1. IInv
  BY InitInv
<1>2. demoEntry \in Entry /\ demoEntry.id = 0
  BY NoEntryType
<1>3. demoEntry.lastUsed <= clock
  BY DEF Init, NoEntry
<1>4. IdsGiven /\ Loading /\ DemoTokenOpensDemoUsers
  BY <1>2 DEF Init, IdsGiven, Loading, DemoTokenOpensDemoUsers, Nobody
<1>5. QED
  BY <1>1, <1>2, <1>3, <1>4 DEF DemoInv

(* The accounts stay as they are, one is created or one is deleted.          *)
PeopleStep ==
    \/ UNCHANGED people
    \/ \E m \in Mail, p \in Typed : Create(m, p)
    \/ \E m \in Mail : WritePerson(m, 0, NoPassword) /\ lastID' = lastID

LEMMA RequestsPeople ==
    ASSUME Requests PROVE PeopleStep
<1>1. ASSUME NEW m \in Mail, NEW p \in Typed, SavePerson(m, p) \/ Login(m, p)
      PROVE  PeopleStep
  BY <1>1 DEF SavePerson, Login, PeopleStep
<1>2. ASSUME NEW m \in Mail, DeletePerson(m) \/ LoginWithFacebook(m)
      PROVE  PeopleStep
  BY <1>2 DEF DeletePerson, LoginWithFacebook, PeopleStep, Typed
<1>3. ASSUME NEW t \in Token, NEW skew \in Skews,
             GetSession(t, skew) \/ GetSessionRefused(t, skew)
      PROVE  PeopleStep
  BY <1>3 DEF GetSession, GetSessionRefused, PeopleStep
<1>4. QED
  BY <1>1, <1>2, <1>3 DEF Requests

(* Nobody gets an id that a demo user has or had.                            *)
LEMMA PeopleKept ==
    ASSUME DemoInv, PeopleStep, demoIds' = demoIds, demoEntry'.id = demoEntry.id
    PROVE  IdsGiven' /\ DemoTokenOpensDemoUsers'
<1>0. /\ person \in [Mail -> Person] /\ lastID \in Nat /\ demoIds \subseteq Nat
      /\ \A m \in Mail : person[m].id \in Nat
  BY BoundsAssumption DEF DemoInv, IInv, TypeOK, Person, Id
<1>1. /\ lastID' \in Nat /\ lastID' >= lastID
      /\ \A m \in Mail : \/ person'[m].id = person[m].id
                         \/ person'[m].id = 0
                         \/ person'[m].id = lastID + 1 /\ lastID' = lastID + 1
  <2>1. CASE UNCHANGED people
    BY <1>0, <2>1 DEF people
  <2>2. ASSUME NEW m \in Mail, NEW p \in Typed, Create(m, p)
        PROVE  <1>1!:
    BY <1>0, <2>2, LowerAssumption DEF Create, WritePerson
  <2>3. ASSUME NEW m \in Mail, WritePerson(m, 0, NoPassword), lastID' = lastID
        PROVE  <1>1!:
    BY <1>0, <2>3 DEF WritePerson
  <2>4. QED
    BY <2>1, <2>2, <2>3 DEF PeopleStep
<1>2. \A m \in Mail : person[m].id <= lastID
  BY DEF DemoInv, IdsGiven
<1>3. \A i \in demoIds : 0 < i /\ i <= lastID /\ i \in Nat
  BY <1>0 DEF DemoInv, IdsGiven
<1>4. \A m \in Mail : person'[m].id <= lastID'
  BY <1>0, <1>1, <1>2
<1>5. \A i \in demoIds' : 0 < i /\ i <= lastID'
  BY <1>0, <1>1, <1>3
<1>6. \A m \in Mail, i \in demoIds : person'[m].id = i => person[m].id = i
  BY <1>0, <1>1, <1>3
<1>7. QED
  BY <1>4, <1>5, <1>6 DEF IdsGiven, DemoInv, DemoTokenOpensDemoUsers

(* Steps that change no session but perhaps the accounts and the reply.      *)
LEMMA SessionsKept ==
    ASSUME IInv, UNCHANGED <<entry, draws, logins, issuedTo, lastUse, pending, time>>,
           person' \in [Mail -> Person], lastID' \in Id,
           reply' \in Reply, reply'.kind = "served" => reply'.idle <= MaxIdle
    PROVE  IInv'
<1>1. TypeOK'
  BY DEF IInv, TypeOK, time
<1>2. Clocks' /\ StoredUses' /\ SessionsKeepTheirUser' /\ TokensAreFresh' /\ IdleSessionsEnd'
  BY DEF IInv, Clocks, StoredUses, SessionsKeepTheirUser, TokensAreFresh, IdleSessionsEnd,
         time
<1>3. OwedPuts'
  BY DEF IInv, OwedPuts, Owed, time
<1>4. QED
  BY <1>1, <1>2, <1>3 DEF IInv

-----------------------------------------------------------------------------
LEMMA RequestsInv ==
    ASSUME DemoInv, boot = "up", Requests, UNCHANGED <<boot, demo>>
    PROVE  DemoInv'
<1>1. IInv'
  BY NextInv DEF Next, DemoInv
<1>2. IdsGiven' /\ DemoTokenOpensDemoUsers'
  BY RequestsPeople, PeopleKept DEF demo
<1>3. clock' = clock
  BY DEF Requests, SavePerson, Login, DeletePerson, LoginWithFacebook, GetSession,
         GetSessionRefused, time
<1>4. Loading'
  BY DEF Loading
<1>5. QED
  BY <1>1, <1>2, <1>3, <1>4 DEF DemoInv, demo

LEMMA TimeInv ==
    ASSUME DemoInv, UNCHANGED demo,
           \/ (PutToken \/ Tick) /\ UNCHANGED boot
           \/ Restart /\ boot' = "save"
    PROVE  DemoInv'
<1>1. IInv'
  BY NextInv DEF Next, DemoInv
<1>2. UNCHANGED people
  BY DEF PutToken, Tick, Restart
<1>3. IdsGiven' /\ DemoTokenOpensDemoUsers'
  BY <1>2, PeopleKept DEF demo, PeopleStep
<1>4. Loading'
  BY <1>2 DEF DemoInv, Loading, Exists, demo, people
<1>5. demoEntry'.lastUsed <= clock'
  <2>1. clock' = clock \/ clock' = clock + 1
    BY DEF PutToken, Tick, Restart, time
  <2>2. clock \in Nat /\ demoEntry.lastUsed \in Nat /\ demoEntry' = demoEntry
    BY BoundsAssumption DEF DemoInv, IInv, TypeOK, Entry, demo
  <2>3. QED
    BY <2>1, <2>2 DEF DemoInv
<1>6. QED
  BY <1>1, <1>3, <1>4, <1>5 DEF DemoInv, demo

LEMMA LoadUserInv ==
    ASSUME DemoInv, LoadUser
    PROVE  DemoInv'
<1> USE DEF LoadUser
<1>0. UNCHANGED <<tokens, pending, time, reply, demoEntry>>
  OBVIOUS
<1>1. CASE boot' = "up" /\ UNCHANGED <<people, demoIds>>
  <2>1. IInv'
    BY <1>0, <1>1, SessionsKept DEF DemoInv, IInv, TypeOK, IdleSessionsEnd, people, tokens
  <2>2. IdsGiven' /\ DemoTokenOpensDemoUsers'
    BY <1>1, PeopleKept DEF PeopleStep
  <2>3. QED
    BY <1>0, <1>1, <2>1, <2>2 DEF DemoInv, Loading, time
<1>2. CASE /\ ~Exists(DemoMail) /\ Create(DemoMail, DemoPassword)
           /\ boot' = "token" /\ demoIds' = demoIds \cup {lastID + 1}
  <2>0. DemoMail \in Mail /\ DemoPassword \in Typed
    BY DemoAssumption DEF Typed
  <2>1. /\ person' \in [Mail -> Person] /\ lastID' \in Id
        /\ lastID + 1 \in Id /\ lastID + 1 # 0
    BY <1>2, <2>0, CreateType DEF DemoInv
  <2>2. IInv'
    BY <1>0, <2>1, SessionsKept DEF DemoInv, IInv, TypeOK, IdleSessionsEnd, tokens
  <2>3. /\ person \in [Mail -> Person] /\ lastID \in Nat /\ lastID' = lastID + 1
        /\ \A m \in Mail : person[m].id \in Nat /\ person[m].id <= lastID
        /\ person'[DemoMail].id \in {0, lastID + 1}
        /\ \A m \in Mail : m # DemoMail => person'[m] = person[m]
    BY <1>2, DemoAssumption, BoundsAssumption
       DEF DemoInv, IInv, TypeOK, Person, Id, Create, WritePerson, Exists, IdsGiven
  <2>4. IdsGiven'
    <3>1. \A m \in Mail : person'[m].id <= lastID'
      BY <2>3
    <3>2. \A i \in demoIds : i \in Nat /\ 0 < i /\ i <= lastID
      <4>1. demoIds \subseteq Id /\ IdsGiven
        BY DEF DemoInv
      <4>2. QED
        BY <4>1, BoundsAssumption DEF IdsGiven, Id
    <3>3. \A i \in demoIds' : 0 < i /\ i <= lastID'
      BY <1>2, <2>3, <3>2
    <3>4. QED
      BY <3>1, <3>3 DEF IdsGiven
  <2>5. DemoTokenOpensDemoUsers'
    <3>1. \A m \in Mail, i \in demoIds' : person'[m].id = i => m = DemoMail
      BY <1>2, <2>3 DEF DemoInv, DemoTokenOpensDemoUsers
    <3>2. QED
      BY <1>0, <1>2, <3>1 DEF DemoInv, DemoTokenOpensDemoUsers
  <2>6. Loading' /\ demoIds' \in SUBSET Id
    BY <1>2, <2>1, <2>3 DEF Loading, Exists, DemoInv
  <2>7. QED
    BY <1>0, <1>2, <2>2, <2>4, <2>5, <2>6 DEF DemoInv, time
<1>3. QED
  BY <1>1, <1>2

LEMMA LoadTokenInv ==
    ASSUME DemoInv, LoadToken
    PROVE  DemoInv'
<1> USE DEF LoadToken, PutDemoToken
<1>0. DemoMail \in Mail /\ person[DemoMail].id \in Id /\ clock \in 0 .. MaxClock
  BY DemoAssumption DEF DemoInv, IInv, TypeOK, Person
<1>1. IInv'
  BY SessionsKept DEF DemoInv, IInv, TypeOK, IdleSessionsEnd, people
<1>2. demoEntry' \in Entry /\ demoEntry'.lastUsed <= clock'
  BY <1>0, BoundsAssumption DEF DemoInv, Entry, time
<1>3. IdsGiven'
  BY DEF DemoInv, IdsGiven, people
<1>4. DemoTokenOpensDemoUsers'
  BY DEF DemoInv, Loading, DemoTokenOpensDemoUsers, people
<1>5. QED
  BY <1>1, <1>2, <1>3, <1>4 DEF DemoInv, Loading

LEMMA LoadTokenThrowsInv ==
    ASSUME DemoInv, LoadTokenThrows
    PROVE  DemoInv'
<1> USE DEF LoadTokenThrows
<1>1. IInv'
  BY SessionsKept DEF DemoInv, IInv, TypeOK, IdleSessionsEnd, people, tokens
<1>2. IdsGiven' /\ DemoTokenOpensDemoUsers'
  BY PeopleKept DEF PeopleStep, demo
<1>3. QED
  BY <1>1, <1>2 DEF DemoInv, Loading, demo, time

LEMMA UseDemoTokenInv ==
    ASSUME DemoInv, NEW skew \in Skews, UseDemoToken(skew)
    PROVE  DemoInv'
<1> USE DEF UseDemoToken, PutDemoToken
<1>0. /\ clock \in 0 .. MaxClock /\ demoEntry.lastUsed \in 0 .. MaxClock
      /\ demoEntry.lastUsed <= clock /\ skew \in Nat /\ demoEntry.id \in Id
      /\ DemoMail \in Mail
  BY SkewsAssumption, DemoAssumption DEF DemoInv, IInv, TypeOK, Entry
<1>1. IInv'
  <2>1. /\ clock - demoEntry.lastUsed \in 0 .. MaxClock
        /\ clock - demoEntry.lastUsed <= MaxIdle
    BY <1>0, BoundsAssumption
  <2>2. reply' \in Reply /\ reply'.idle <= MaxIdle
    BY <1>0, <2>1 DEF Reply, Answer
  <2>3. QED
    BY <2>2, SessionsKept DEF DemoInv, IInv, TypeOK, people
<1>2. /\ demoEntry' \in Entry /\ demoEntry'.lastUsed <= clock'
      /\ demoEntry'.id = demoEntry.id
  BY <1>0, BoundsAssumption DEF DemoInv, Entry, time
<1>3. IdsGiven' /\ DemoTokenOpensDemoUsers'
  BY <1>2, PeopleKept DEF PeopleStep
<1>4. QED
  BY <1>1, <1>2, <1>3 DEF DemoInv, Loading

(* Every step keeps the invariant.                                           *)
LEMMA DemoNextInv == DemoInv /\ [DemoNext]_<<vars, boot, demo>> => DemoInv'
<1> SUFFICES ASSUME DemoInv, [DemoNext]_<<vars, boot, demo>> PROVE DemoInv'
  OBVIOUS
<1>1. CASE boot = "up" /\ Requests /\ UNCHANGED <<boot, demo>>
  BY <1>1, RequestsInv
<1>2. CASE (PutToken \/ Tick) /\ UNCHANGED <<boot, demo>>
  BY <1>2, TimeInv
<1>3. CASE LoadUser
  BY <1>3, LoadUserInv
<1>4. CASE LoadToken
  BY <1>4, LoadTokenInv
<1>5. ASSUME NEW skew \in Skews, UseDemoToken(skew) PROVE DemoInv'
  BY <1>5, UseDemoTokenInv
<1>8. CASE LoadTokenThrows
  BY <1>8, LoadTokenThrowsInv
<1>6. CASE Start
  BY <1>6, TimeInv DEF Start
<1>7. CASE UNCHANGED <<vars, boot, demo>>
  <2>1. IInv'
    BY <1>7, NextInv DEF DemoInv
  <2>2. QED
    BY <1>7, <2>1
       DEF vars, demo, DemoInv, IdsGiven, Loading, Exists, DemoTokenOpensDemoUsers
<1>9. QED
  BY <1>1, <1>2, <1>3, <1>4, <1>5, <1>6, <1>7, <1>8 DEF DemoNext

-----------------------------------------------------------------------------
(***************************************************************************)
(* The inductive invariant holds in every reachable state of sessions,     *)
(* starts and demo users.                                                  *)
(***************************************************************************)
THEOREM DemoInductive == DemoSpec => []DemoInv
BY DemoInitInv, DemoNextInv, PTL DEF DemoSpec

(***************************************************************************)
(* Sessions and what loadUsers keeps have their types, through every start *)
(* of the process.                                                         *)
(***************************************************************************)
THEOREM DemoTypeCorrect == DemoSpec => []DemoTypeOK
<1>1. DemoInv => DemoTypeOK
  BY DEF DemoInv, IInv, DemoTypeOK
<1>2. QED
  BY <1>1, DemoInductive, PTL

(***************************************************************************)
(* The fixed tokens of loadUsers never open the account of somebody who    *)
(* registered a demo user's mail, wherever deletions and deaths of the     *)
(* process fall.                                                           *)
(***************************************************************************)
THEOREM FixedTokensOpenDemoUsers == DemoSpec => []DemoTokenOpensDemoUsers
<1>1. DemoInv => DemoTokenOpensDemoUsers
  BY DEF DemoInv
<1>2. QED
  BY <1>1, DemoInductive, PTL

(***************************************************************************)
(* What getSession and saveToken guarantee holds with the demo users in    *)
(* the same store.                                                         *)
(***************************************************************************)
THEOREM SessionsWithDemoUsers ==
    DemoSpec => [](SessionsKeepTheirUser /\ TokensAreFresh /\ IdleSessionsEnd)
<1>1. DemoInv => SessionsKeepTheirUser /\ TokensAreFresh /\ IdleSessionsEnd
  BY DEF DemoInv, IInv
<1>2. QED
  BY <1>1, DemoInductive, PTL
===============================================================================
