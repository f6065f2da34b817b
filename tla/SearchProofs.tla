----------------------------- MODULE SearchProofs -----------------------------
(***************************************************************************)
(* Proofs about ProfileIndexes and Search, for any mails, words and        *)
(* queries and any number of requests.                                     *)
(*                                                                         *)
(* The invariant says what the rest of a plan still owes.  A skill whose   *)
(* step is to come is in the state its step starts from, one whose step    *)
(* is done, or was not needed, is as the new profile says; when the plan   *)
(* is empty nothing is owed and the indexes match the record.  No step     *)
(* throws: what is to be dropped was listed when the request began, and a  *)
(* request of another user never empties it.  Nothing is claimed of a user *)
(* one of whose writes failed or was cut off, but for what she can do to   *)
(* others.                                                                 *)
(***************************************************************************)
EXTENDS Search, TLAPS

(***************************************************************************)
(* PlainBodies: no body lists a skill twice, and titles are in lower case  *)
(* and are no skills.  Without it the code does not keep its indexes: a    *)
(* title that differs in case from its key, or that names a skill, makes   *)
(* deleteUserFromJobPosition write to the wrong key.                       *)
(***************************************************************************)
IsSkill(w) == \E s \in SkillLists : \E i \in DOMAIN s : s[i] = w

PlainBodies ==
    /\ \A s \in SkillLists : \A i, j \in DOMAIN s : s[i] = s[j] => i = j
    /\ \A jobs \in JobLists : \A i \in DOMAIN jobs :
          Lower[jobs[i].title] = jobs[i].title /\ ~IsSkill(jobs[i].title)

(***************************************************************************)
(* The elements of a plan, and that no step on a skill is in it twice.     *)
(***************************************************************************)
Elements(s) == {s[i] : i \in DOMAIN s}

SkillStep(op) == op.do \in {"saveSkill", "dropSkill"}

Unique(s) == \A i, j \in DOMAIN s : s[i] = s[j] /\ SkillStep(s[i]) => i = j

Step(do, w) == [do |-> do, word |-> w]

Key(do) == [do |-> do]

Todo(op) == op \in Elements(plan)

(***************************************************************************)
(* PlanSound: every step of the plan comes from the profile it should, and *)
(* a plan that deletes a key does not put it.                              *)
(***************************************************************************)
PlanSound ==
    /\ Unique(plan)
    /\ \A w \in Word :
          /\ Todo(Step("saveSkill", w)) => HasSkill(job.body, w)
          /\ Todo(Step("dropSkill", w)) => HasSkill(job.old, w)
          /\ Todo(Step("dropPosition", w)) => HasTitle(job.old, w)
    /\ ~(Todo(Key("putRecord")) /\ Todo(Key("deleteRecord")))
    /\ ~(Todo(Key("putId")) /\ Todo(Key("deleteId")))
    /\ ~(Todo(Key("putName")) /\ Todo(Key("deleteName")))
    /\ Todo(Key("deleteRecord")) => job.body = NoProfile

(***************************************************************************)
(* What the running request has done and what it owes.                     *)
(***************************************************************************)
SkillCount(w) ==
    IF Todo(Step("saveSkill", w)) /\ ~HasSkill(job.old, w) THEN 0
    ELSE IF Todo(Step("dropSkill", w)) /\ ~HasSkill(job.body, w) THEN 1
    ELSE IF HasSkill(job.body, w) THEN 1 ELSE 0

SkillsOwed == \A w \in Word : skillIdx[w][job.mail] = SkillCount(w)

PositionsOwed ==
    \A w \in Word :
        /\ HasTitle(job.body, w) =>
              \/ posIdx[w][job.mail] > 0
              \/ Todo(Step("savePosition", w)) /\ ~HasTitle(job.old, w)
        /\ Todo(Step("dropPosition", w)) => posIdx[w] # NoMails

RecordOwed ==
    \/ Todo(Key("putRecord")) \/ Todo(Key("deleteRecord"))
    \/ profile[job.mail] = job.body

KeysOwed ==
    \/ Todo(Key("putRecord"))
    \/ ~Todo(Key("deleteRecord")) /\ job.mail \in registered
  <=>
    \/ Todo(Key("putId"))
    \/ ~Todo(Key("deleteId")) /\ job.mail \in idKey

NamesOwed ==
    \/ Todo(Key("putRecord"))
    \/ ~Todo(Key("deleteRecord")) /\ job.mail \in registered
  <=>
    \/ Todo(Key("putName"))
    \/ ~Todo(Key("deleteName")) /\ job.mail \in nameKey

Owed == SkillsOwed /\ PositionsOwed /\ RecordOwed /\ KeysOwed /\ NamesOwed

(***************************************************************************)
(* What holds of a user who has no request running, and of all.            *)
(***************************************************************************)
SettledUser(m) ==
    /\ \A w \in Word : skillIdx[w][m] = IF HasSkill(profile[m], w) THEN 1 ELSE 0
    /\ \A w \in Word : HasTitle(profile[m], w) => posIdx[w][m] > 0
    /\ m \in registered <=> m \in idKey
    /\ m \in registered <=> m \in nameKey

NoRecordNoProfile == \A m \in Mail \ registered : profile[m] = NoProfile

OnlySkillsListed == \A w \in Word : ~IsSkill(w) => skillIdx[w] = NoMails

IInv ==
    /\ TypeOK /\ PlanSound /\ NoRecordNoProfile /\ OnlySkillsListed
    /\ \A m \in Whole : SettledUser(m)
    /\ plan # <<>> /\ job.mail \notin torn => Owed

-----------------------------------------------------------------------------
(* What a plan that two loops make, and the rest of a plan, consist of.      *)
LEMMA ElementsOfCat ==
    ASSUME NEW S, NEW s \in Seq(S), NEW t \in Seq(S)
    PROVE  Elements(s \o t) = Elements(s) \cup Elements(t)
  <1>1. Elements(s \o t) \subseteq Elements(s) \cup Elements(t)
    <2> SUFFICES ASSUME NEW i \in DOMAIN (s \o t)
                 PROVE  (s \o t)[i] \in Elements(s) \cup Elements(t)
      BY DEF Elements
    <2>1. CASE i <= Len(s)
      BY <2>1 DEF Elements
    <2>2. CASE i > Len(s)
      <3>1. i - Len(s) \in DOMAIN t /\ (s \o t)[i] = t[i - Len(s)]
        BY <2>2
      <3> QED BY <3>1 DEF Elements
    <2> QED BY <2>1, <2>2
  <1>2. ASSUME NEW i \in DOMAIN s PROVE s[i] \in Elements(s \o t)
    <2>1. i \in DOMAIN (s \o t) /\ (s \o t)[i] = s[i]
      OBVIOUS
    <2> QED BY <2>1 DEF Elements
  <1>3. ASSUME NEW i \in DOMAIN t PROVE t[i] \in Elements(s \o t)
    <2>1. i + Len(s) \in DOMAIN (s \o t) /\ (s \o t)[i + Len(s)] = t[i]
      OBVIOUS
    <2> QED BY <2>1 DEF Elements
  <1> QED BY <1>1, <1>2, <1>3 DEF Elements

(* A plan made of two without a common step on a skill.                      *)
LEMMA UniqueCat ==
    ASSUME NEW S, NEW s \in Seq(S), NEW t \in Seq(S), Unique(s), Unique(t),
           \A op \in Elements(s) \cap Elements(t) : ~SkillStep(op)
    PROVE  Unique(s \o t)
  <1> SUFFICES ASSUME NEW i \in DOMAIN (s \o t), NEW j \in DOMAIN (s \o t),
                      (s \o t)[i] = (s \o t)[j], SkillStep((s \o t)[i])
               PROVE  i = j
    BY DEF Unique
  <1>a. \A k \in DOMAIN (s \o t) : \/ k \in DOMAIN s /\ (s \o t)[k] = s[k]
                                   \/ /\ k > Len(s) /\ k - Len(s) \in DOMAIN t
                                      /\ (s \o t)[k] = t[k - Len(s)]
    OBVIOUS
  <1>0. i \in Int /\ j \in Int /\ Len(s) \in Int
    OBVIOUS
  <1>1. CASE i \in DOMAIN s /\ (s \o t)[i] = s[i] /\ j \in DOMAIN s /\ (s \o t)[j] = s[j]
    BY <1>1 DEF Unique
  <1>2. CASE /\ i \in DOMAIN s /\ (s \o t)[i] = s[i]
             /\ j - Len(s) \in DOMAIN t /\ (s \o t)[j] = t[j - Len(s)]
    BY <1>2 DEF Elements
  <1>3. CASE /\ j \in DOMAIN s /\ (s \o t)[j] = s[j]
             /\ i - Len(s) \in DOMAIN t /\ (s \o t)[i] = t[i - Len(s)]
    BY <1>3 DEF Elements
  <1>4. CASE /\ i - Len(s) \in DOMAIN t /\ (s \o t)[i] = t[i - Len(s)]
             /\ j - Len(s) \in DOMAIN t /\ (s \o t)[j] = t[j - Len(s)]
    <2>1. i - Len(s) = j - Len(s)
      BY <1>4 DEF Unique
    <2> QED BY <2>1, <1>0
  <1> QED BY <1>a, <1>1, <1>2, <1>3, <1>4

(* After one step the rest of the plan is to be done, and a step on a skill  *)
(* is done for good.                                                         *)
LEMMA ElementsOfTail ==
    ASSUME NEW S, NEW s \in Seq(S), s # <<>>
    PROVE  /\ Tail(s) \in Seq(S) /\ Head(s) \in S
           /\ Elements(s) = {Head(s)} \cup Elements(Tail(s))
           /\ Unique(s) => /\ Unique(Tail(s))
                           /\ SkillStep(Head(s)) => Head(s) \notin Elements(Tail(s))
  <1>1. Tail(s) \in Seq(S) /\ Head(s) \in S /\ Head(s) = s[1] /\ 1 \in DOMAIN s
    OBVIOUS
  <1>2. \A i \in DOMAIN Tail(s) : i + 1 \in DOMAIN s /\ Tail(s)[i] = s[i + 1] /\ i \in Nat \ {0}
    OBVIOUS
  <1>3. \A i \in DOMAIN s : i = 1 \/ (i - 1 \in DOMAIN Tail(s) /\ Tail(s)[i - 1] = s[i])
    OBVIOUS
  <1>4. Elements(s) = {Head(s)} \cup Elements(Tail(s))
    <2>1. ASSUME NEW i \in DOMAIN s PROVE s[i] \in {Head(s)} \cup Elements(Tail(s))
      <3>1. CASE i = 1
        BY <1>1, <3>1
      <3>2. CASE i - 1 \in DOMAIN Tail(s) /\ Tail(s)[i - 1] = s[i]
        BY <3>2 DEF Elements
      <3> QED BY <1>3, <3>1, <3>2
    <2>2. Elements(Tail(s)) \subseteq Elements(s)
      BY <1>2 DEF Elements
    <2> QED BY <1>1, <2>1, <2>2 DEF Elements
  <1>5. ASSUME Unique(s) PROVE Unique(Tail(s))
    <2> SUFFICES ASSUME NEW i \in DOMAIN Tail(s), NEW j \in DOMAIN Tail(s),
                        Tail(s)[i] = Tail(s)[j], SkillStep(Tail(s)[i])
                 PROVE  i = j
      BY DEF Unique
    <2>1. i + 1 = j + 1
      BY <1>2, <1>5 DEF Unique
    <2> QED BY <1>2, <2>1
  <1>6. ASSUME Unique(s), SkillStep(Head(s)), Head(s) \in Elements(Tail(s)) PROVE FALSE
    <2>1. PICK i \in DOMAIN Tail(s) : Tail(s)[i] = Head(s)
      BY <1>6 DEF Elements
    <2>2. i + 1 = 1
      BY <1>1, <1>2, <1>6, <2>1 DEF Unique
    <2> QED BY <1>2, <2>2
  <1> QED BY <1>1, <1>4, <1>5, <1>6

-----------------------------------------------------------------------------
LEMMA ElementIsTyped ==
    ASSUME NEW S, NEW s \in Seq(S), NEW i \in DOMAIN s
    PROVE  s[i] \in S
  OBVIOUS

(* The lists of a profile, and what they mean in plain bodies.               *)
LEMMA ProfileLists ==
    ASSUME NEW p \in Profile
    PROVE  /\ p.skills \in Seq(Word) /\ p.jobs \in Seq([title : Word, current : BOOLEAN])
           /\ Titles(p) \in Seq(Word) /\ LowerTitles(p) \in Seq(Word)
           /\ DOMAIN Titles(p) = DOMAIN p.jobs /\ DOMAIN LowerTitles(p) = DOMAIN p.jobs
           /\ \A i \in DOMAIN p.jobs : /\ p.jobs[i].title \in Word
                                       /\ Titles(p)[i] = p.jobs[i].title
                                       /\ LowerTitles(p)[i] = Lower[p.jobs[i].title]
  <1>1. p.skills \in Seq(Word)
    <2>1. \A s \in SkillLists : s \in Seq(Word)
      <3> SUFFICES ASSUME NEW s \in SkillLists PROVE s \in Seq(Word)
        OBVIOUS
      <3> DEFINE LowerWord == {w \in Word : Lower[w] = w}
      <3>1. s \in Seq(LowerWord)
        BY BodiesAssumption
      <3>2. LowerWord \subseteq Word
        OBVIOUS
      <3> HIDE DEF LowerWord
      <3>3. /\ DOMAIN s = 1 .. Len(s) /\ Len(s) \in Nat
            /\ s \in [1 .. Len(s) -> LowerWord]
        BY <3>1
      <3>4. s \in [1 .. Len(s) -> Word]
        BY <3>2, <3>3
      <3> QED BY <3>3, <3>4
    <2>2. p.skills \in SkillLists \cup {<<>>}
      BY DEF Profile
    <2>3. <<>> \in Seq(Word)
      OBVIOUS
    <2> QED BY <2>1, <2>2, <2>3
  <1>2. p.jobs \in Seq([title : Word, current : BOOLEAN])
    <2>1. p.jobs \in JobLists \cup {<<>>}
      BY DEF Profile
    <2>2. <<>> \in Seq([title : Word, current : BOOLEAN])
      OBVIOUS
    <2> QED BY <2>1, <2>2, BodiesAssumption
  <1>3. \A i \in DOMAIN p.jobs : p.jobs[i].title \in Word
    <2> SUFFICES ASSUME NEW i \in DOMAIN p.jobs PROVE p.jobs[i].title \in Word
      OBVIOUS
    <2>1. p.jobs[i] \in [title : Word, current : BOOLEAN]
      BY <1>2, ElementIsTyped
    <2> QED BY <2>1
  <1>4. DOMAIN p.jobs = 1 .. Len(p.jobs) /\ Len(p.jobs) \in Nat
    BY <1>2
  <1>5. Titles(p) \in [1 .. Len(p.jobs) -> Word] /\ LowerTitles(p) \in [1 .. Len(p.jobs) -> Word]
    BY <1>3, <1>4, LowerAssumption DEF Titles, LowerTitles
  <1>6. Titles(p) \in Seq(Word) /\ LowerTitles(p) \in Seq(Word)
    BY <1>4, <1>5
  <1> QED BY <1>1, <1>2, <1>3, <1>4, <1>6 DEF Titles, LowerTitles

LEMMA PlainProfiles ==
    ASSUME PlainBodies, NEW p \in Profile
    PROVE  /\ \A w : HasTitle(p, w) => w \in Word /\ Lower[w] = w /\ ~IsSkill(w)
           /\ \A w : HasSkill(p, w) => w \in Word /\ IsSkill(w)
           /\ \A i, j \in DOMAIN p.skills : p.skills[i] = p.skills[j] => i = j
           /\ \A i \in DOMAIN p.jobs : Lower[p.jobs[i].title] = p.jobs[i].title
  <1>1. p.jobs = <<>> \/ p.jobs \in JobLists
    BY DEF Profile
  <1>2. p.skills = <<>> \/ p.skills \in SkillLists
    BY DEF Profile
  <1>3. \A i \in DOMAIN p.jobs : Lower[p.jobs[i].title] = p.jobs[i].title
                                 /\ ~IsSkill(p.jobs[i].title)
    BY <1>1 DEF PlainBodies
  <1>4. \A i \in DOMAIN p.skills : IsSkill(p.skills[i]) /\ p.skills[i] \in Word
    BY <1>2, ProfileLists DEF IsSkill
  <1>5. \A i, j \in DOMAIN p.skills : p.skills[i] = p.skills[j] => i = j
    BY <1>2 DEF PlainBodies
  <1> QED BY <1>3, <1>4, <1>5, ProfileLists DEF HasTitle, HasSkill

LEMMA EmptyProfile ==
    /\ NoProfile \in Profile
    /\ \A w : ~HasSkill(NoProfile, w) /\ ~HasTitle(NoProfile, w)
  BY DEF NoProfile, Profile, HasSkill, HasTitle

(***************************************************************************)
(* The parts a plan is put together of.                                    *)
(***************************************************************************)
WordSteps == {"saveSkill", "dropSkill", "savePosition", "dropPosition"}

KeySteps == {"putRecord", "putName", "putId",
             "deleteId", "deleteName", "deleteRecord", "saveCurrent"}

LEMMA OpsPart ==
    ASSUME NEW do \in WordSteps, NEW ws \in Seq(Word)
    PROVE  /\ Ops(do, ws) \in Seq(Operation)
           /\ Elements(Ops(do, ws)) = {Step(do, ws[i]) : i \in DOMAIN ws}
           /\ (\A i, j \in DOMAIN ws : ws[i] = ws[j] => i = j) => Unique(Ops(do, ws))
           /\ do \in {"savePosition", "dropPosition"} => Unique(Ops(do, ws))
  <1>1. DOMAIN ws = 1 .. Len(ws) /\ Len(ws) \in Nat
    OBVIOUS
  <1>2. /\ DOMAIN Ops(do, ws) = DOMAIN ws
        /\ \A i \in DOMAIN ws : Ops(do, ws)[i] = Step(do, ws[i])
    BY <1>1 DEF Ops, Step
  <1>3. \A i \in DOMAIN ws : Step(do, ws[i]) \in Operation
    BY DEF Step, Operation, WordSteps
  <1>4. Ops(do, ws) \in [1 .. Len(ws) -> Operation]
    BY <1>1, <1>3 DEF Ops, Step
  <1>5. Ops(do, ws) \in Seq(Operation)
    BY <1>1, <1>4
  <1>6. Elements(Ops(do, ws)) = {Step(do, ws[i]) : i \in DOMAIN ws}
    BY <1>2 DEF Elements
  <1>7. \A i, j \in DOMAIN ws : Step(do, ws[i]) = Step(do, ws[j]) => ws[i] = ws[j]
    BY DEF Step
  <1>8. \A i \in DOMAIN ws : Step(do, ws[i]).do = do
    BY DEF Step
  <1> QED BY <1>2, <1>5, <1>6, <1>7, <1>8 DEF Unique, SkillStep

LEMMA OnlyPart ==
    ASSUME NEW do \in KeySteps
    PROVE  /\ Only(do) \in Seq(Operation)
           /\ Elements(Only(do)) = {Key(do)}
           /\ Unique(Only(do))
  <1>1. Key(do) \in Operation
    BY DEF Key, Operation, KeySteps
  <1>2. Only(do) = <<Key(do)>>
    BY DEF Only, Key
  <1> QED BY <1>1, <1>2 DEF Elements, Unique

(* The kinds of steps differ from each other.                                *)
LEMMA StepsDiffer ==
    /\ \A d1, w1, d2, w2 : Step(d1, w1) = Step(d2, w2) => d1 = d2 /\ w1 = w2
    /\ \A d1, d2 : Key(d1) = Key(d2) => d1 = d2
    /\ \A d1 \in WordSteps, d2 \in KeySteps : \A w : Step(d1, w) # Key(d2)
    /\ \A d, w : SkillStep(Step(d, w)) <=> d \in {"saveSkill", "dropSkill"}
    /\ \A d \in KeySteps : ~SkillStep(Key(d))
  <1>1. \A d, w : Step(d, w).do = d /\ Step(d, w).word = w
    BY DEF Step
  <1>2. \A d : Key(d).do = d
    BY DEF Key
  <1>3. \A d1 \in WordSteps, d2 \in KeySteps : d1 # d2
    BY DEF WordSteps, KeySteps
  <1>4. \A d \in KeySteps : d \notin {"saveSkill", "dropSkill"}
    BY DEF KeySteps
  <1>5. /\ \A d1, w1, d2, w2 : Step(d1, w1) = Step(d2, w2) => d1 = d2 /\ w1 = w2
        /\ \A d1, d2 : Key(d1) = Key(d2) => d1 = d2
    BY <1>1, <1>2
  <1>6. \A d1 \in WordSteps, d2 \in KeySteps : \A w : Step(d1, w) # Key(d2)
    BY <1>1, <1>2, <1>3
  <1>7. \A d, w : SkillStep(Step(d, w)) <=> d \in {"saveSkill", "dropSkill"}
    BY <1>1 DEF SkillStep
  <1>8. \A d \in KeySteps : ~SkillStep(Key(d))
    BY <1>2, <1>4 DEF SkillStep
  <1> QED BY <1>5, <1>6, <1>7, <1>8

(* A step of a plan is one of the two kinds.                                 *)
LEMMA StepKinds ==
    ASSUME NEW op \in Operation
    PROVE  /\ op.do \in WordSteps => op.word \in Word /\ op = Step(op.do, op.word)
           /\ op.do \in KeySteps => op = Key(op.do)
           /\ op.do \in WordSteps \cup KeySteps
  BY DEF Operation, WordSteps, KeySteps, Step, Key

(***************************************************************************)
(* What each of the three plans consists of.                               *)
(***************************************************************************)
Members(P, saves, drops, positions, dropped, keys) ==
    /\ \A w \in Word :
          /\ Step("saveSkill", w) \in Elements(P) <=> HasSkill(saves, w)
          /\ Step("dropSkill", w) \in Elements(P) <=> HasSkill(drops, w)
          /\ Step("savePosition", w) \in Elements(P)
                <=> \E i \in DOMAIN positions.jobs : Lower[positions.jobs[i].title] = w
          /\ Step("dropPosition", w) \in Elements(P) <=> HasTitle(dropped, w)
    /\ \A k \in KeySteps : Key(k) \in Elements(P) <=> k \in keys

(* The steps on the words of a profile, as they are when a plan is made.     *)
LEMMA ProfileParts ==
    ASSUME NEW p \in Profile
    PROVE  /\ \A do \in WordSteps :
                 /\ Ops(do, p.skills) \in Seq(Operation)
                 /\ Ops(do, Titles(p)) \in Seq(Operation)
                 /\ Ops(do, LowerTitles(p)) \in Seq(Operation)
                 /\ PlainBodies => Unique(Ops(do, p.skills))
                 /\ \A op \in Elements(Ops(do, p.skills)) : \E w \in Word : op = Step(do, w)
                 /\ \A op \in Elements(Ops(do, Titles(p))) : \E w \in Word : op = Step(do, w)
                 /\ \A op \in Elements(Ops(do, LowerTitles(p))) :
                       \E w \in Word : op = Step(do, w)
                 /\ \A w \in Word :
                       /\ Step(do, w) \in Elements(Ops(do, p.skills)) <=> HasSkill(p, w)
                       /\ Step(do, w) \in Elements(Ops(do, Titles(p))) <=> HasTitle(p, w)
                       /\ Step(do, w) \in Elements(Ops(do, LowerTitles(p)))
                             <=> \E i \in DOMAIN p.jobs : Lower[p.jobs[i].title] = w
           /\ Unique(Ops("savePosition", LowerTitles(p)))
           /\ Unique(Ops("dropPosition", Titles(p)))
  <1>1. /\ p.skills \in Seq(Word) /\ Titles(p) \in Seq(Word) /\ LowerTitles(p) \in Seq(Word)
        /\ DOMAIN Titles(p) = DOMAIN p.jobs /\ DOMAIN LowerTitles(p) = DOMAIN p.jobs
        /\ \A i \in DOMAIN p.jobs : Titles(p)[i] = p.jobs[i].title
                                    /\ LowerTitles(p)[i] = Lower[p.jobs[i].title]
    BY ProfileLists
  <1>2. Unique(Ops("savePosition", LowerTitles(p))) /\ Unique(Ops("dropPosition", Titles(p)))
    BY <1>1, OpsPart DEF WordSteps
  <1>3. ASSUME NEW do \in WordSteps, PlainBodies PROVE Unique(Ops(do, p.skills))
    BY <1>1, <1>3, OpsPart, PlainProfiles
  <1>4. ASSUME NEW do \in WordSteps, NEW ws \in Seq(Word)
        PROVE  /\ Ops(do, ws) \in Seq(Operation)
               /\ \A op \in Elements(Ops(do, ws)) : \E w \in Word : op = Step(do, w)
               /\ \A w \in Word : Step(do, w) \in Elements(Ops(do, ws))
                                    <=> \E i \in DOMAIN ws : ws[i] = w
    <2>1. /\ Ops(do, ws) \in Seq(Operation)
          /\ Elements(Ops(do, ws)) = {Step(do, ws[i]) : i \in DOMAIN ws}
      BY OpsPart
    <2>2. \A i \in DOMAIN ws : ws[i] \in Word
      BY ElementIsTyped
    <2> QED BY <2>1, <2>2, StepsDiffer
  <1>5. ASSUME NEW do \in WordSteps, NEW w \in Word
        PROVE  /\ Step(do, w) \in Elements(Ops(do, p.skills)) <=> HasSkill(p, w)
               /\ Step(do, w) \in Elements(Ops(do, Titles(p))) <=> HasTitle(p, w)
               /\ Step(do, w) \in Elements(Ops(do, LowerTitles(p)))
                     <=> \E i \in DOMAIN p.jobs : Lower[p.jobs[i].title] = w
    <2>1. Step(do, w) \in Elements(Ops(do, p.skills)) <=> HasSkill(p, w)
      BY <1>1, <1>4 DEF HasSkill
    <2>2. Step(do, w) \in Elements(Ops(do, Titles(p))) <=> HasTitle(p, w)
      <3>1. Step(do, w) \in Elements(Ops(do, Titles(p)))
              <=> \E i \in DOMAIN Titles(p) : Titles(p)[i] = w
        BY <1>1, <1>4
      <3> QED BY <1>1, <3>1 DEF HasTitle
    <2>3. Step(do, w) \in Elements(Ops(do, LowerTitles(p)))
            <=> \E i \in DOMAIN p.jobs : Lower[p.jobs[i].title] = w
      <3>1. Step(do, w) \in Elements(Ops(do, LowerTitles(p)))
              <=> \E i \in DOMAIN LowerTitles(p) : LowerTitles(p)[i] = w
        BY <1>1, <1>4
      <3> QED BY <1>1, <3>1
    <2> QED BY <2>1, <2>2, <2>3
  <1> QED BY <1>1, <1>2, <1>3, <1>4, <1>5

LEMMA CatPart ==
    ASSUME NEW s \in Seq(Operation), NEW t \in Seq(Operation)
    PROVE  /\ s \o t \in Seq(Operation)
           /\ Elements(s \o t) = Elements(s) \cup Elements(t)
           /\ Unique(s) /\ Unique(t)
                 /\ (\A op \in Elements(s) \cap Elements(t) : ~SkillStep(op))
              => Unique(s \o t)
  <1>1. s \o t \in Seq(Operation)
    OBVIOUS
  <1>2. Elements(s \o t) = Elements(s) \cup Elements(t)
    BY ElementsOfCat
  <1>3. ASSUME Unique(s), Unique(t), \A op \in Elements(s) \cap Elements(t) : ~SkillStep(op)
        PROVE  Unique(s \o t)
    BY <1>3, UniqueCat
  <1> QED BY <1>1, <1>2, <1>3

LEMMA UpdatePlanIs ==
    ASSUME NEW old \in Profile, NEW new \in Profile
    PROVE  /\ UpdatePlan(old, new) \in Seq(Operation)
           /\ Members(UpdatePlan(old, new), new, old, new, old, {"putRecord"})
           /\ PlainBodies => Unique(UpdatePlan(old, new))
  <1> DEFINE A == Ops("saveSkill", new.skills)
             B == Ops("dropSkill", old.skills)
             C == Ops("savePosition", LowerTitles(new))
             D == Ops("dropPosition", Titles(old))
             E == Only("putRecord")
  <1> USE DEF WordSteps, KeySteps
  <1>1. A \in Seq(Operation) /\ B \in Seq(Operation) /\ C \in Seq(Operation)
        /\ D \in Seq(Operation) /\ E \in Seq(Operation)
    BY ProfileParts, OnlyPart
  <1>2. /\ \A op \in Elements(A) : \E w \in Word : op = Step("saveSkill", w)
        /\ \A op \in Elements(B) : \E w \in Word : op = Step("dropSkill", w)
        /\ \A op \in Elements(C) : \E w \in Word : op = Step("savePosition", w)
        /\ \A op \in Elements(D) : \E w \in Word : op = Step("dropPosition", w)
        /\ Elements(E) = {Key("putRecord")}
    <2>1. \A op \in Elements(A) : \E w \in Word : op = Step("saveSkill", w)
      BY ProfileParts
    <2>2. \A op \in Elements(B) : \E w \in Word : op = Step("dropSkill", w)
      BY ProfileParts
    <2>3. \A op \in Elements(C) : \E w \in Word : op = Step("savePosition", w)
      BY ProfileParts
    <2>4. \A op \in Elements(D) : \E w \in Word : op = Step("dropPosition", w)
      BY ProfileParts
    <2>5. Elements(E) = {Key("putRecord")}
      BY OnlyPart
    <2> QED BY <2>1, <2>2, <2>3, <2>4, <2>5
  <1>3. \A w \in Word :
           /\ Step("saveSkill", w) \in Elements(A) <=> HasSkill(new, w)
           /\ Step("dropSkill", w) \in Elements(B) <=> HasSkill(old, w)
           /\ Step("savePosition", w) \in Elements(C)
                 <=> \E i \in DOMAIN new.jobs : Lower[new.jobs[i].title] = w
           /\ Step("dropPosition", w) \in Elements(D) <=> HasTitle(old, w)
    BY ProfileParts
  <1>4. Unique(C) /\ Unique(D) /\ Unique(E) /\ (PlainBodies => Unique(A) /\ Unique(B))
    BY ProfileParts, OnlyPart
  <1>5. UpdatePlan(old, new) = A \o B \o C \o D \o E
    BY DEF UpdatePlan
  <1> HIDE DEF A, B, C, D, E, WordSteps, KeySteps
  <1>6. /\ A \o B \in Seq(Operation) /\ A \o B \o C \in Seq(Operation)
        /\ A \o B \o C \o D \in Seq(Operation) /\ A \o B \o C \o D \o E \in Seq(Operation)
    BY <1>1
  <1>7. /\ Elements(A \o B) = Elements(A) \cup Elements(B)
        /\ Elements(A \o B \o C) = Elements(A \o B) \cup Elements(C)
        /\ Elements(A \o B \o C \o D) = Elements(A \o B \o C) \cup Elements(D)
        /\ Elements(A \o B \o C \o D \o E) = Elements(A \o B \o C \o D) \cup Elements(E)
    BY <1>1, <1>6, CatPart
  <1>8. Members(UpdatePlan(old, new), new, old, new, old, {"putRecord"})
    <2>1. ASSUME NEW w \in Word
          PROVE  /\ Step("saveSkill", w) \in Elements(UpdatePlan(old, new)) <=> HasSkill(new, w)
                 /\ Step("dropSkill", w) \in Elements(UpdatePlan(old, new)) <=> HasSkill(old, w)
                 /\ Step("savePosition", w) \in Elements(UpdatePlan(old, new))
                       <=> \E i \in DOMAIN new.jobs : Lower[new.jobs[i].title] = w
                 /\ Step("dropPosition", w) \in Elements(UpdatePlan(old, new)) <=> HasTitle(old, w)
      <3>1. /\ Step("saveSkill", w) \notin Elements(B) \cup Elements(C) \cup Elements(D) \cup Elements(E)
            /\ Step("dropSkill", w) \notin Elements(A) \cup Elements(C) \cup Elements(D) \cup Elements(E)
            /\ Step("savePosition", w) \notin Elements(A) \cup Elements(B) \cup Elements(D) \cup Elements(E)
            /\ Step("dropPosition", w) \notin Elements(A) \cup Elements(B) \cup Elements(C) \cup Elements(E)
        BY <1>2, StepsDiffer DEF WordSteps, KeySteps
      <3> QED BY <1>3, <1>5, <1>7, <3>1
    <2>2. ASSUME NEW k \in KeySteps
          PROVE  Key(k) \in Elements(UpdatePlan(old, new)) <=> k = "putRecord"
      <3>1. Key(k) \notin Elements(A) \cup Elements(B) \cup Elements(C) \cup Elements(D)
        BY <1>2, StepsDiffer DEF WordSteps
      <3> QED BY <1>2, <1>5, <1>7, <3>1, StepsDiffer
    <2> QED BY <2>1, <2>2 DEF Members
  <1>9. ASSUME PlainBodies PROVE Unique(UpdatePlan(old, new))
    <2>1. Unique(A \o B)
      <3>1. Elements(A) \cap Elements(B) = {}
        BY <1>2, StepsDiffer
      <3> QED BY <1>1, <1>4, <1>9, <3>1, CatPart
    <2>2. \A op \in Elements(C) \cup Elements(D) \cup Elements(E) : ~SkillStep(op)
      BY <1>2, StepsDiffer DEF KeySteps
    <2>3. Unique(A \o B \o C)
      BY <1>1, <1>4, <1>6, <2>1, <2>2, CatPart
    <2>4. Unique(A \o B \o C \o D)
      BY <1>1, <1>4, <1>6, <2>3, <2>2, CatPart
    <2>5. Unique(A \o B \o C \o D \o E)
      BY <1>1, <1>4, <1>6, <2>4, <2>2, CatPart
    <2> QED BY <2>5, <1>5
  <1> QED BY <1>5, <1>6, <1>8, <1>9

LEMMA SavePlanIs ==
    ASSUME NEW new \in Profile
    PROVE  /\ SavePlan(new) \in Seq(Operation)
           /\ Members(SavePlan(new), new, NoProfile, new, NoProfile,
                      {"putRecord", "putName", "putId", "saveCurrent"})
           /\ PlainBodies => Unique(SavePlan(new))
  <1> DEFINE A == Only("putRecord")
             N == Only("putName")
             B == Only("putId")
             C == Ops("saveSkill", new.skills)
             D == Ops("savePosition", LowerTitles(new))
             E == Only("saveCurrent")
  <1> USE DEF WordSteps, KeySteps
  <1>1. A \in Seq(Operation) /\ N \in Seq(Operation) /\ B \in Seq(Operation) /\ C \in Seq(Operation)
        /\ D \in Seq(Operation) /\ E \in Seq(Operation)
    BY ProfileParts, OnlyPart
  <1>2. /\ Elements(A) = {Key("putRecord")}
        /\ Elements(N) = {Key("putName")}
        /\ Elements(B) = {Key("putId")}
        /\ \A op \in Elements(C) : \E w \in Word : op = Step("saveSkill", w)
        /\ \A op \in Elements(D) : \E w \in Word : op = Step("savePosition", w)
        /\ Elements(E) = {Key("saveCurrent")}
    <2>1. \A op \in Elements(C) : \E w \in Word : op = Step("saveSkill", w)
      BY ProfileParts
    <2>2. \A op \in Elements(D) : \E w \in Word : op = Step("savePosition", w)
      BY ProfileParts
    <2>3. Elements(A) = {Key("putRecord")} /\ Elements(N) = {Key("putName")}
          /\ Elements(B) = {Key("putId")} /\ Elements(E) = {Key("saveCurrent")}
      BY OnlyPart
    <2> QED BY <2>1, <2>2, <2>3
  <1>3. \A w \in Word :
           /\ Step("saveSkill", w) \in Elements(C) <=> HasSkill(new, w)
           /\ Step("savePosition", w) \in Elements(D)
                 <=> \E i \in DOMAIN new.jobs : Lower[new.jobs[i].title] = w
    BY ProfileParts
  <1>4. Unique(A) /\ Unique(N) /\ Unique(B) /\ (PlainBodies => Unique(C)) /\ Unique(D) /\ Unique(E)
    BY ProfileParts, OnlyPart
  <1>5. SavePlan(new) = A \o N \o B \o C \o D \o E
    BY DEF SavePlan
  <1> HIDE DEF A, N, B, C, D, E, WordSteps, KeySteps
  <1>6. /\ A \o N \in Seq(Operation) /\ A \o N \o B \in Seq(Operation)
        /\ A \o N \o B \o C \in Seq(Operation)
        /\ A \o N \o B \o C \o D \in Seq(Operation) /\ A \o N \o B \o C \o D \o E \in Seq(Operation)
    BY <1>1
  <1>7. /\ Elements(A \o N) = Elements(A) \cup Elements(N)
        /\ Elements(A \o N \o B) = Elements(A \o N) \cup Elements(B)
        /\ Elements(A \o N \o B \o C) = Elements(A \o N \o B) \cup Elements(C)
        /\ Elements(A \o N \o B \o C \o D) = Elements(A \o N \o B \o C) \cup Elements(D)
        /\ Elements(A \o N \o B \o C \o D \o E) = Elements(A \o N \o B \o C \o D) \cup Elements(E)
    BY <1>1, <1>6, CatPart
  <1>8. Members(SavePlan(new), new, NoProfile, new, NoProfile,
                {"putRecord", "putName", "putId", "saveCurrent"})
    <2>1. ASSUME NEW w \in Word
          PROVE  /\ Step("saveSkill", w) \in Elements(SavePlan(new)) <=> HasSkill(new, w)
                 /\ Step("dropSkill", w) \notin Elements(SavePlan(new))
                 /\ Step("savePosition", w) \in Elements(SavePlan(new))
                       <=> \E i \in DOMAIN new.jobs : Lower[new.jobs[i].title] = w
                 /\ Step("dropPosition", w) \notin Elements(SavePlan(new))
      <3>1. /\ Step("saveSkill", w) \notin Elements(A) \cup Elements(N) \cup Elements(B) \cup Elements(D) \cup Elements(E)
            /\ Step("savePosition", w) \notin Elements(A) \cup Elements(N) \cup Elements(B) \cup Elements(C) \cup Elements(E)
            /\ Step("dropSkill", w) \notin Elements(A) \cup Elements(N) \cup Elements(B) \cup Elements(C)
                                           \cup Elements(D) \cup Elements(E)
            /\ Step("dropPosition", w) \notin Elements(A) \cup Elements(N) \cup Elements(B) \cup Elements(C)
                                              \cup Elements(D) \cup Elements(E)
        BY <1>2, StepsDiffer DEF WordSteps, KeySteps
      <3> QED BY <1>3, <1>5, <1>7, <3>1
    <2>2. ASSUME NEW k \in KeySteps
          PROVE  Key(k) \in Elements(SavePlan(new))
                    <=> k \in {"putRecord", "putName", "putId", "saveCurrent"}
      <3>1. Key(k) \notin Elements(C) \cup Elements(D)
        BY <1>2, StepsDiffer DEF WordSteps
      <3> QED BY <1>2, <1>5, <1>7, <3>1, StepsDiffer
    <2> QED BY <2>1, <2>2, EmptyProfile DEF Members
  <1>9. ASSUME PlainBodies PROVE Unique(SavePlan(new))
    <2>1. \A op \in Elements(A) \cup Elements(N) \cup Elements(B) \cup Elements(D) \cup Elements(E) : ~SkillStep(op)
      BY <1>2, StepsDiffer DEF KeySteps
    <2>0. Unique(A \o N)
      BY <1>1, <1>4, <2>1, CatPart
    <2>2. Unique(A \o N \o B)
      BY <1>1, <1>4, <1>6, <2>0, <2>1, CatPart
    <2>3. Unique(A \o N \o B \o C)
      BY <1>1, <1>4, <1>6, <1>7, <1>9, <2>1, <2>2, CatPart
    <2>4. Unique(A \o N \o B \o C \o D)
      BY <1>1, <1>4, <1>6, <2>3, <2>1, CatPart
    <2>5. Unique(A \o N \o B \o C \o D \o E)
      BY <1>1, <1>4, <1>6, <2>4, <2>1, CatPart
    <2> QED BY <2>5, <1>5
  <1> QED BY <1>5, <1>6, <1>8, <1>9

LEMMA DeletePlanIs ==
    ASSUME NEW old \in Profile
    PROVE  /\ DeletePlan(old) \in Seq(Operation)
           /\ Members(DeletePlan(old), NoProfile, old, NoProfile, old,
                      {"deleteId", "deleteName", "deleteRecord"})
           /\ PlainBodies => Unique(DeletePlan(old))
  <1> DEFINE A == Only("deleteId")
             N == Only("deleteName")
             B == Ops("dropSkill", old.skills)
             C == Ops("dropPosition", Titles(old))
             D == Only("deleteRecord")
  <1> USE DEF WordSteps, KeySteps
  <1>1. A \in Seq(Operation) /\ N \in Seq(Operation) /\ B \in Seq(Operation) /\ C \in Seq(Operation)
        /\ D \in Seq(Operation)
    BY ProfileParts, OnlyPart
  <1>2. /\ Elements(A) = {Key("deleteId")}
        /\ Elements(N) = {Key("deleteName")}
        /\ \A op \in Elements(B) : \E w \in Word : op = Step("dropSkill", w)
        /\ \A op \in Elements(C) : \E w \in Word : op = Step("dropPosition", w)
        /\ Elements(D) = {Key("deleteRecord")}
    <2>1. \A op \in Elements(B) : \E w \in Word : op = Step("dropSkill", w)
      BY ProfileParts
    <2>2. \A op \in Elements(C) : \E w \in Word : op = Step("dropPosition", w)
      BY ProfileParts
    <2>3. Elements(A) = {Key("deleteId")} /\ Elements(N) = {Key("deleteName")}
          /\ Elements(D) = {Key("deleteRecord")}
      BY OnlyPart
    <2> QED BY <2>1, <2>2, <2>3
  <1>3. \A w \in Word :
           /\ Step("dropSkill", w) \in Elements(B) <=> HasSkill(old, w)
           /\ Step("dropPosition", w) \in Elements(C) <=> HasTitle(old, w)
    BY ProfileParts
  <1>4. Unique(A) /\ Unique(N) /\ (PlainBodies => Unique(B)) /\ Unique(C) /\ Unique(D)
    BY ProfileParts, OnlyPart
  <1>5. DeletePlan(old) = A \o N \o B \o C \o D
    BY DEF DeletePlan
  <1> HIDE DEF A, N, B, C, D, WordSteps, KeySteps
  <1>6. /\ A \o N \in Seq(Operation) /\ A \o N \o B \in Seq(Operation)
        /\ A \o N \o B \o C \in Seq(Operation)
        /\ A \o N \o B \o C \o D \in Seq(Operation)
    BY <1>1
  <1>7. /\ Elements(A \o N) = Elements(A) \cup Elements(N)
        /\ Elements(A \o N \o B) = Elements(A \o N) \cup Elements(B)
        /\ Elements(A \o N \o B \o C) = Elements(A \o N \o B) \cup Elements(C)
        /\ Elements(A \o N \o B \o C \o D) = Elements(A \o N \o B \o C) \cup Elements(D)
    BY <1>1, <1>6, CatPart
  <1>8. Members(DeletePlan(old), NoProfile, old, NoProfile, old, {"deleteId", "deleteName", "deleteRecord"})
    <2>1. ASSUME NEW w \in Word
          PROVE  /\ Step("dropSkill", w) \in Elements(DeletePlan(old)) <=> HasSkill(old, w)
                 /\ Step("saveSkill", w) \notin Elements(DeletePlan(old))
                 /\ Step("dropPosition", w) \in Elements(DeletePlan(old)) <=> HasTitle(old, w)
                 /\ Step("savePosition", w) \notin Elements(DeletePlan(old))
      <3>1. /\ Step("dropSkill", w) \notin Elements(A) \cup Elements(N) \cup Elements(C) \cup Elements(D)
            /\ Step("dropPosition", w) \notin Elements(A) \cup Elements(N) \cup Elements(B) \cup Elements(D)
            /\ Step("saveSkill", w) \notin Elements(A) \cup Elements(N) \cup Elements(B) \cup Elements(C) \cup Elements(D)
            /\ Step("savePosition", w) \notin Elements(A) \cup Elements(N) \cup Elements(B) \cup Elements(C) \cup Elements(D)
        BY <1>2, StepsDiffer DEF WordSteps, KeySteps
      <3> QED BY <1>3, <1>5, <1>7, <3>1
    <2>2. ASSUME NEW k \in KeySteps
          PROVE  Key(k) \in Elements(DeletePlan(old)) <=> k \in {"deleteId", "deleteName", "deleteRecord"}
      <3>1. Key(k) \notin Elements(B) \cup Elements(C)
        BY <1>2, StepsDiffer DEF WordSteps
      <3> QED BY <1>2, <1>5, <1>7, <3>1, StepsDiffer
    <2>3. NoProfile.jobs = <<>>
      BY DEF NoProfile
    <2> QED BY <2>1, <2>2, <2>3, EmptyProfile DEF Members
  <1>9. ASSUME PlainBodies PROVE Unique(DeletePlan(old))
    <2>1. \A op \in Elements(A) \cup Elements(N) \cup Elements(C) \cup Elements(D) : ~SkillStep(op)
      BY <1>2, StepsDiffer DEF KeySteps
    <2>0. Unique(A \o N)
      BY <1>1, <1>4, <2>1, CatPart
    <2>2. Unique(A \o N \o B)
      BY <1>1, <1>4, <1>6, <1>7, <1>9, <2>0, <2>1, CatPart
    <2>3. Unique(A \o N \o B \o C)
      BY <1>1, <1>4, <1>6, <2>1, <2>2, CatPart
    <2>4. Unique(A \o N \o B \o C \o D)
      BY <1>1, <1>4, <1>6, <2>3, <2>1, CatPart
    <2> QED BY <2>4, <1>5
  <1> QED BY <1>5, <1>6, <1>8, <1>9

-----------------------------------------------------------------------------
(***************************************************************************)
(* The next step of a plan.                                                *)
(***************************************************************************)
LEMMA HeadOfPlan ==
    ASSUME TypeOK, plan # <<>>
    PROVE  /\ Head(plan) \in Operation /\ Tail(plan) \in Seq(Operation)
           /\ Head(plan).do \in WordSteps =>
                 Head(plan).word \in Word /\ Head(plan) = Step(Head(plan).do, Head(plan).word)
           /\ Head(plan).do \in KeySteps => Head(plan) = Key(Head(plan).do)
           /\ Todo(Head(plan))
  <1>1. plan \in Seq(Operation)
    BY DEF TypeOK
  <1>2. Head(plan) \in Operation /\ Tail(plan) \in Seq(Operation) /\ Head(plan) \in Elements(plan)
    BY <1>1, ElementsOfTail
  <1> QED BY <1>2, StepKinds DEF Todo

LEMMA AddedTyped ==
    ASSUME NEW index \in [Word -> [Mail -> Nat]], NEW w \in Word, job.mail \in Mail
    PROVE  /\ [index EXCEPT ![w] = Added(@)] \in [Word -> [Mail -> Nat]]
           /\ [index EXCEPT ![w] = Others(@)] \in [Word -> [Mail -> Nat]]
           /\ [index EXCEPT ![w] = NoMails] \in [Word -> [Mail -> Nat]]
           /\ \A v \in Word : Others(index[v]) \in [Mail -> Nat]
  <1>1. \A v \in Word : index[v] \in [Mail -> Nat]
    OBVIOUS
  <1>2. \A v \in Word : Added(index[v]) \in [Mail -> Nat] /\ Others(index[v]) \in [Mail -> Nat]
    BY <1>1 DEF Added, Others
  <1>3. NoMails \in [Mail -> Nat]
    BY DEF NoMails
  <1> QED BY <1>2, <1>3

(* The steps on the record, the name key and the id key.                     *)
KeyStep ==
    \/ saveUser \/ saveUserNameKey \/ saveUserIdKey
    \/ deleteUserIdKey \/ deleteUserNameKey \/ deleteUser

(* Every request, write, exception and crash keeps the types.                *)
LEMMA IndexTypeStep == TypeOK /\ [Next]_vars => TypeOK'
  <1> SUFFICES ASSUME TypeOK, [Next]_vars PROVE TypeOK'
    OBVIOUS
  <1>0. job.mail \in Mail /\ job.body \in Profile /\ job.old \in Profile
    BY DEF TypeOK
  <1>1. ASSUME NEW m \in Mail, NEW s \in SkillLists, NEW j \in JobLists,
               SavePerson(m, [skills |-> s, jobs |-> j])
        PROVE  TypeOK'
    <2> DEFINE p == [skills |-> s, jobs |-> j]
    <2>1. p \in Profile
      BY DEF Profile
    <2> HIDE DEF p
    <2>2. SavePlan(p) \in Seq(Operation) /\ NoProfile \in Profile
      BY <2>1, SavePlanIs, EmptyProfile
    <2>3. job' \in [mail : Mail, old : Profile, body : Profile] /\ plan' \in Seq(Operation)
          /\ requests' = requests + 1 /\ UNCHANGED <<store, faults, torn>>
      BY <1>1, <2>1, <2>2 DEF SavePerson, Begin, p
    <2> QED BY <2>3 DEF TypeOK, store
  <1>2. ASSUME NEW m \in Mail, NEW s \in SkillLists, NEW j \in JobLists,
               UpdateUser(m, [skills |-> s, jobs |-> j])
        PROVE  TypeOK'
    <2> DEFINE p == [skills |-> s, jobs |-> j]
    <2>1. p \in Profile
      BY DEF Profile
    <2> HIDE DEF p
    <2>2. profile[m] \in Profile
      BY DEF TypeOK
    <2>3. UpdatePlan(profile[m], p) \in Seq(Operation)
      BY <2>1, <2>2, UpdatePlanIs
    <2>4. job' \in [mail : Mail, old : Profile, body : Profile] /\ plan' \in Seq(Operation)
          /\ requests' = requests + 1 /\ UNCHANGED <<store, faults, torn>>
      BY <1>2, <2>1, <2>2, <2>3 DEF UpdateUser, Begin, p
    <2> QED BY <2>4 DEF TypeOK, store
  <1>3. ASSUME NEW m \in Mail, DeletePerson(m) PROVE TypeOK'
    <2>1. profile[m] \in Profile
      BY DEF TypeOK
    <2>2. DeletePlan(profile[m]) \in Seq(Operation) /\ NoProfile \in Profile
      BY <2>1, DeletePlanIs, EmptyProfile
    <2>3. job' \in [mail : Mail, old : Profile, body : Profile] /\ plan' \in Seq(Operation)
          /\ requests' = requests + 1 /\ UNCHANGED <<store, faults, torn>>
      BY <1>3, <2>1, <2>2 DEF DeletePerson, Begin
    <2> QED BY <2>3 DEF TypeOK, store
  <1>4. ASSUME plan # <<>>, Proceed
        PROVE  /\ plan' \in Seq(Operation) /\ job' = job /\ requests' = requests
               /\ faults' = faults /\ torn' = torn
    BY <1>4, HeadOfPlan DEF Proceed
  <1>5. CASE KeyStep
    <2>1. /\ plan # <<>> /\ Proceed /\ UNCHANGED <<skillIdx, posIdx>>
          /\ registered' \subseteq registered \cup {job.mail}
          /\ nameKey' \subseteq nameKey \cup {job.mail}
          /\ idKey' \subseteq idKey \cup {job.mail}
      BY <1>5 DEF KeyStep, saveUser, saveUserNameKey, saveUserIdKey, deleteUserIdKey,
                  deleteUserNameKey, deleteUser, Doing
    <2>2. \/ profile' = profile
          \/ profile' = [profile EXCEPT ![job.mail] = job.body]
          \/ profile' = [profile EXCEPT ![job.mail] = NoProfile]
      BY <1>5 DEF KeyStep, saveUser, saveUserNameKey, saveUserIdKey, deleteUserIdKey,
                  deleteUserNameKey, deleteUser
    <2>3. profile' \in [Mail -> Profile]
      BY <1>0, <2>2, EmptyProfile DEF TypeOK
    <2> QED BY <1>0, <1>4, <2>1, <2>3 DEF TypeOK
  <1>6. CASE saveSkill
    <2>1. Head(plan).word \in Word /\ plan # <<>> /\ Proceed
      BY <1>6, HeadOfPlan DEF saveSkill, Doing, WordSteps
    <2>2. skillIdx' \in [Word -> [Mail -> Nat]]
      BY <1>0, <1>6, <2>1, AddedTyped DEF saveSkill, TypeOK
    <2> QED BY <1>4, <1>6, <2>1, <2>2 DEF saveSkill, TypeOK
  <1>7. CASE savePosition
    <2>1. Head(plan).word \in Word /\ plan # <<>> /\ Proceed
      BY <1>7, HeadOfPlan DEF savePosition, Doing, WordSteps
    <2>2. posIdx' \in [Word -> [Mail -> Nat]]
      BY <1>0, <1>7, <2>1, AddedTyped DEF savePosition, TypeOK
    <2> QED BY <1>4, <1>7, <2>1, <2>2 DEF savePosition, TypeOK
  <1>8. CASE saveCurrentPosition
    <2>1. plan # <<>> /\ Proceed
      BY <1>8 DEF saveCurrentPosition, Doing
    <2>2. \A i \in DOMAIN job.body.jobs : job.body.jobs[i].title \in Word
      BY <1>0, ProfileLists
    <2>4. CASE UNCHANGED posIdx
      BY <1>4, <1>8, <2>1, <2>4 DEF saveCurrentPosition, TypeOK
    <2>5. ASSUME NEW i \in DOMAIN job.body.jobs,
                 posIdx' = [posIdx EXCEPT ![job.body.jobs[i].title] = Added(@)]
          PROVE  TypeOK'
      <3>1. posIdx' \in [Word -> [Mail -> Nat]]
        BY <1>0, <2>2, <2>5, AddedTyped DEF TypeOK
      <3> QED BY <1>4, <1>8, <2>1, <3>1 DEF saveCurrentPosition, TypeOK
    <2> QED BY <1>8, <2>4, <2>5 DEF saveCurrentPosition
  <1>9. CASE deleteUserFromSkill
    <2>1. Head(plan).word \in Word /\ plan # <<>> /\ Proceed
      BY <1>9, HeadOfPlan DEF deleteUserFromSkill, Doing, WordSteps
    <2>2. [skillIdx EXCEPT ![Head(plan).word] = Others(@)] \in [Word -> [Mail -> Nat]]
      BY <1>0, <2>1, AddedTyped DEF TypeOK
    <2>3. skillIdx' = skillIdx \/ skillIdx' = [skillIdx EXCEPT ![Head(plan).word] = Others(@)]
      BY <1>9 DEF deleteUserFromSkill
    <2>4. skillIdx' \in [Word -> [Mail -> Nat]]
      BY <2>2, <2>3 DEF TypeOK
    <2> QED BY <1>4, <1>9, <2>1, <2>4 DEF deleteUserFromSkill, TypeOK
  <1>10. CASE deleteUserFromJobPosition
    <2>1. Head(plan).word \in Word /\ plan # <<>> /\ Proceed
      BY <1>10, HeadOfPlan DEF deleteUserFromJobPosition, Doing, WordSteps
    <2>2. Lower[Head(plan).word] \in Word
      BY <2>1, LowerAssumption
    <2>3. Others(posIdx[Lower[Head(plan).word]]) \in [Mail -> Nat]
      BY <1>0, <2>2, AddedTyped DEF TypeOK
    <2> DEFINE rest == Others(posIdx[Lower[Head(plan).word]])
    <2>5. [skillIdx EXCEPT ![Head(plan).word] = NoMails] \in [Word -> [Mail -> Nat]]
      BY <1>0, <2>1, AddedTyped DEF TypeOK
    <2>6. \/ skillIdx' = skillIdx
          \/ skillIdx' = [skillIdx EXCEPT ![Head(plan).word] = NoMails]
      BY <1>10 DEF deleteUserFromJobPosition
    <2>7. posIdx' = posIdx \/ posIdx' = [posIdx EXCEPT ![Head(plan).word] = rest]
      BY <1>10 DEF deleteUserFromJobPosition
    <2> HIDE DEF rest
    <2>8. rest \in [Mail -> Nat]
      BY <2>3 DEF rest
    <2>4. skillIdx' \in [Word -> [Mail -> Nat]] /\ posIdx' \in [Word -> [Mail -> Nat]]
      <3>1. skillIdx \in [Word -> [Mail -> Nat]] /\ posIdx \in [Word -> [Mail -> Nat]]
        BY DEF TypeOK
      <3>2. skillIdx' \in [Word -> [Mail -> Nat]]
        BY <2>5, <2>6, <3>1
      <3>3. [posIdx EXCEPT ![Head(plan).word] = rest] \in [Word -> [Mail -> Nat]]
        BY <2>8, <3>1
      <3> QED BY <2>7, <3>1, <3>2, <3>3
    <2> QED BY <1>4, <1>10, <2>1, <2>4 DEF deleteUserFromJobPosition, TypeOK
  <1>11. CASE BadImplementation \/ WriteFails \/ Crash
    <2>1. plan # <<>> /\ plan' \in {<<>>, Tail(plan)} /\ UNCHANGED <<store, job, requests>>
      BY <1>11 DEF BadImplementation, KeyMissing, WriteFails, Crash, Fault, Doing
    <2>2. torn' \in SUBSET Mail
      BY <1>0, <1>11 DEF BadImplementation, WriteFails, Crash, Fault, TypeOK
    <2>3. faults' \in Nat
      BY <1>11 DEF BadImplementation, WriteFails, Crash, Fault, TypeOK
    <2>4. <<>> \in Seq(Operation)
      OBVIOUS
    <2>5. plan' \in Seq(Operation)
      BY <2>1, <2>4, HeadOfPlan
    <2> QED BY <2>1, <2>2, <2>3, <2>5 DEF TypeOK, store
  <1>12. CASE RefusedRequest \/ UNCHANGED vars
    BY <1>12 DEF RefusedRequest, vars, TypeOK
  <1> QED BY <1>1, <1>2, <1>3, <1>5, <1>6, <1>7, <1>8, <1>9, <1>10, <1>11, <1>12 DEF Next, KeyStep

LEMMA IndexTypeInit == Init => TypeOK
  BY EmptyProfile DEF Init, TypeOK, NoMails

(***************************************************************************)
(* The type invariant of ProfileIndexes: lists of mails, profiles and      *)
(* plans keep their types whatever bodies requests carry.                  *)
(***************************************************************************)
THEOREM IndexTypeCorrect == Spec => []TypeOK
  BY IndexTypeInit, IndexTypeStep, PTL DEF Spec

-----------------------------------------------------------------------------
(***************************************************************************)
(* The rest of a sound plan is sound, and only the step just done is gone. *)
(***************************************************************************)
LEMMA PlanStep ==
    ASSUME TypeOK, PlanSound, plan # <<>>, plan' = Tail(plan), job' = job
    PROVE  /\ PlanSound'
           /\ \A op : Todo(op) <=> op = Head(plan) \/ Todo(op)'
           /\ SkillStep(Head(plan)) => Head(plan) \notin Elements(plan')
  <1>1. plan \in Seq(Operation)
    BY DEF TypeOK
  <1>2. /\ Elements(plan) = {Head(plan)} \cup Elements(Tail(plan))
        /\ Unique(plan) => /\ Unique(Tail(plan))
                           /\ SkillStep(Head(plan)) => Head(plan) \notin Elements(Tail(plan))
    BY <1>1, ElementsOfTail
  <1>3. \A op : Todo(op) <=> op = Head(plan) \/ Todo(op)'
    BY <1>1, <1>2 DEF Todo
  <1>4. Unique(plan') /\ (SkillStep(Head(plan)) => Head(plan) \notin Elements(plan'))
    BY <1>1, <1>2 DEF Todo, PlanSound
  <1>5. PlanSound'
    <2>1. \A op : Todo(op)' => Todo(op)
      BY <1>3
    <2>2. \A w \in Word :
             /\ Todo(Step("saveSkill", w))' => HasSkill(job.body, w)
             /\ Todo(Step("dropSkill", w))' => HasSkill(job.old, w)
             /\ Todo(Step("dropPosition", w))' => HasTitle(job.old, w)
      BY <2>1 DEF PlanSound
    <2>3. /\ ~(Todo(Key("putRecord"))' /\ Todo(Key("deleteRecord"))')
          /\ ~(Todo(Key("putId"))' /\ Todo(Key("deleteId"))')
          /\ ~(Todo(Key("putName"))' /\ Todo(Key("deleteName"))')
          /\ Todo(Key("deleteRecord"))' => job.body = NoProfile
      BY <2>1 DEF PlanSound
    <2> QED BY <1>1, <1>4, <2>2, <2>3 DEF PlanSound, HasSkill, HasTitle
  <1> QED BY <1>1, <1>3, <1>4, <1>5

(***************************************************************************)
(* What each step does to the two indexes, user by user.                   *)
(***************************************************************************)
LEMMA BagsDiffer ==
    ASSUME NEW b \in [Mail -> Nat]
    PROVE  b # NoMails <=> \E m \in Mail : b[m] > 0
  <1>1. b = NoMails <=> \A m \in Mail : b[m] = 0
    BY DEF NoMails
  <1>2. \A m \in Mail : b[m] \in Nat
    OBVIOUS
  <1> QED BY <1>1, <1>2

LEMMA SkillSaved ==
    ASSUME TypeOK, saveSkill
    PROVE  LET w == Head(plan).word
           IN  /\ plan # <<>> /\ Proceed /\ w \in Word /\ Head(plan) = Step("saveSkill", w)
               /\ UNCHANGED <<profile, registered, nameKey, idKey, posIdx>>
               /\ \A v \in Word, m \in Mail : v # w \/ m # job.mail =>
                                                 skillIdx'[v][m] = skillIdx[v][m]
               /\ skillIdx'[w][job.mail] = IF HasSkill(job.old, w) THEN skillIdx[w][job.mail]
                                           ELSE skillIdx[w][job.mail] + 1
               /\ \A v \in Word : v # w => skillIdx'[v] = skillIdx[v]
  <1>1. /\ plan # <<>> /\ Proceed /\ Head(plan).word \in Word
        /\ Head(plan) = Step("saveSkill", Head(plan).word)
        /\ UNCHANGED <<profile, registered, nameKey, idKey, posIdx>>
    BY HeadOfPlan DEF saveSkill, Doing, WordSteps
  <1>2. skillIdx \in [Word -> [Mail -> Nat]] /\ job.mail \in Mail
    BY DEF TypeOK
  <1>3. CASE HasSkill(job.old, Head(plan).word)
    BY <1>1, <1>2, <1>3 DEF saveSkill
  <1>4. CASE ~HasSkill(job.old, Head(plan).word)
    <2>1. skillIdx' = [skillIdx EXCEPT ![Head(plan).word] = Added(@)]
      BY <1>4 DEF saveSkill
    <2>2. \A v \in Word : skillIdx'[v] = IF v = Head(plan).word THEN Added(skillIdx[v])
                                         ELSE skillIdx[v]
      BY <1>1, <1>2, <2>1
    <2>3. \A v \in Word, m \in Mail : Added(skillIdx[v])[m] =
              IF m = job.mail THEN skillIdx[v][m] + 1 ELSE skillIdx[v][m]
      BY <1>2 DEF Added
    <2> QED BY <1>1, <1>2, <1>4, <2>2, <2>3
  <1> QED BY <1>3, <1>4

LEMMA SkillDropped ==
    ASSUME TypeOK, deleteUserFromSkill
    PROVE  LET w == Head(plan).word
           IN  /\ plan # <<>> /\ Proceed /\ w \in Word /\ Head(plan) = Step("dropSkill", w)
               /\ UNCHANGED <<profile, registered, nameKey, idKey, posIdx>>
               /\ \A v \in Word, m \in Mail : v # w \/ m # job.mail =>
                                                 skillIdx'[v][m] = skillIdx[v][m]
               /\ skillIdx'[w][job.mail] = IF HasSkill(job.body, w) THEN skillIdx[w][job.mail]
                                           ELSE 0
               /\ \A v \in Word : v # w => skillIdx'[v] = skillIdx[v]
  <1>1. /\ plan # <<>> /\ Proceed /\ Head(plan).word \in Word
        /\ Head(plan) = Step("dropSkill", Head(plan).word)
        /\ UNCHANGED <<profile, registered, nameKey, idKey, posIdx>>
    BY HeadOfPlan DEF deleteUserFromSkill, Doing, WordSteps
  <1>2. skillIdx \in [Word -> [Mail -> Nat]] /\ job.mail \in Mail
    BY DEF TypeOK
  <1>3. CASE HasSkill(job.body, Head(plan).word)
    BY <1>1, <1>2, <1>3 DEF deleteUserFromSkill
  <1>4. CASE ~HasSkill(job.body, Head(plan).word)
    <2>1. skillIdx' = [skillIdx EXCEPT ![Head(plan).word] = Others(@)]
      BY <1>4 DEF deleteUserFromSkill
    <2>2. \A v \in Word : skillIdx'[v] = IF v = Head(plan).word THEN Others(skillIdx[v])
                                         ELSE skillIdx[v]
      BY <1>1, <1>2, <2>1
    <2>3. \A v \in Word, m \in Mail : Others(skillIdx[v])[m] =
              IF m = job.mail THEN 0 ELSE skillIdx[v][m]
      BY <1>2 DEF Others
    <2> QED BY <1>1, <1>2, <1>4, <2>2, <2>3
  <1> QED BY <1>3, <1>4

(* A position saved: its list grows by the mail of the request, or stays.    *)
GrowsAt(w) ==
    /\ \A v \in Word, m \in Mail : v # w \/ m # job.mail => posIdx'[v][m] = posIdx[v][m]
    /\ posIdx'[w][job.mail] = posIdx[w][job.mail] + 1

LEMMA PositionGrows ==
    ASSUME TypeOK, NEW w \in Word, posIdx' = [posIdx EXCEPT ![w] = Added(@)]
    PROVE  GrowsAt(w)
  <1>1. posIdx \in [Word -> [Mail -> Nat]] /\ job.mail \in Mail
    BY DEF TypeOK
  <1>2. \A v \in Word : posIdx'[v] = IF v = w THEN Added(posIdx[v]) ELSE posIdx[v]
    BY <1>1
  <1>3. \A v \in Word, m \in Mail : Added(posIdx[v])[m] =
            IF m = job.mail THEN posIdx[v][m] + 1 ELSE posIdx[v][m]
    BY <1>1 DEF Added
  <1> QED BY <1>1, <1>2, <1>3 DEF GrowsAt

LEMMA PositionSaved ==
    ASSUME TypeOK, savePosition
    PROVE  LET w == Head(plan).word
           IN  /\ plan # <<>> /\ Proceed /\ w \in Word /\ Head(plan) = Step("savePosition", w)
               /\ UNCHANGED <<profile, registered, nameKey, idKey, skillIdx>>
               /\ IF HasTitle(job.old, w) THEN posIdx' = posIdx ELSE GrowsAt(w)
  <1>1. /\ plan # <<>> /\ Proceed /\ Head(plan).word \in Word
        /\ Head(plan) = Step("savePosition", Head(plan).word)
        /\ UNCHANGED <<profile, registered, nameKey, idKey, skillIdx>>
    BY HeadOfPlan DEF savePosition, Doing, WordSteps
  <1>2. CASE HasTitle(job.old, Head(plan).word)
    BY <1>1, <1>2 DEF savePosition
  <1>3. CASE ~HasTitle(job.old, Head(plan).word)
    <2>1. posIdx' = [posIdx EXCEPT ![Head(plan).word] = Added(@)]
      BY <1>3 DEF savePosition
    <2>2. GrowsAt(Head(plan).word)
      BY <1>1, <2>1, PositionGrows
    <2> QED BY <1>1, <1>3, <2>2
  <1> QED BY <1>2, <1>3

LEMMA CurrentSaved ==
    ASSUME TypeOK, saveCurrentPosition
    PROVE  /\ plan # <<>> /\ Proceed /\ Head(plan) = Key("saveCurrent")
           /\ UNCHANGED <<profile, registered, nameKey, idKey, skillIdx>>
           /\ posIdx' = posIdx \/ \E w \in Word : GrowsAt(w)
  <1>1. /\ plan # <<>> /\ Proceed /\ Head(plan) = Key("saveCurrent")
        /\ UNCHANGED <<profile, registered, nameKey, idKey, skillIdx>>
    BY HeadOfPlan DEF saveCurrentPosition, Doing, KeySteps
  <1>2. job.body \in Profile
    BY DEF TypeOK
  <1>3. \A i \in DOMAIN job.body.jobs : job.body.jobs[i].title \in Word
    BY <1>2, ProfileLists
  <1>4. ASSUME NEW i \in DOMAIN job.body.jobs,
               posIdx' = [posIdx EXCEPT ![job.body.jobs[i].title] = Added(@)]
        PROVE  GrowsAt(job.body.jobs[i].title) /\ job.body.jobs[i].title \in Word
    BY <1>3, <1>4, PositionGrows
  <1>5. posIdx' = posIdx \/ \E w \in Word : GrowsAt(w)
    BY <1>4 DEF saveCurrentPosition
  <1> QED BY <1>1, <1>5

(***************************************************************************)
(* A position dropped.  In plain bodies the key that is deleted by mistake *)
(* is one of no skill, and never exists.                                   *)
(***************************************************************************)
LEMMA PositionDropped ==
    ASSUME PlainBodies, TypeOK, PlanSound, OnlySkillsListed, deleteUserFromJobPosition
    PROVE  LET w == Head(plan).word
           IN  /\ plan # <<>> /\ Proceed /\ w \in Word /\ Head(plan) = Step("dropPosition", w)
               /\ UNCHANGED <<profile, registered, nameKey, idKey, skillIdx>>
               /\ \/ posIdx' = posIdx
                  \/ /\ ~HasTitle(job.body, w)
                     /\ posIdx'[w] # NoMails
                     /\ \A v \in Word, m \in Mail : v # w \/ m # job.mail =>
                                                       posIdx'[v][m] = posIdx[v][m]
  <1> DEFINE w == Head(plan).word
             rest == Others(posIdx[Lower[w]])
  <1>1. /\ plan # <<>> /\ Proceed /\ w \in Word /\ Head(plan) = Step("dropPosition", w)
        /\ UNCHANGED <<profile, registered, nameKey, idKey>> /\ Todo(Head(plan))
    BY HeadOfPlan DEF deleteUserFromJobPosition, Doing, WordSteps
  <1>2. /\ posIdx \in [Word -> [Mail -> Nat]] /\ job.mail \in Mail
        /\ skillIdx \in [Word -> [Mail -> Nat]] /\ job.old \in Profile
    BY DEF TypeOK
  <1>3. HasTitle(job.old, w)
    BY <1>1 DEF PlanSound
  <1>4. Lower[w] = w /\ ~IsSkill(w)
    BY <1>2, <1>3, PlainProfiles
  <1>5. skillIdx[w] = NoMails
    BY <1>1, <1>4 DEF OnlySkillsListed
  <1>6. \/ skillIdx' = skillIdx /\ posIdx' = posIdx
        \/ skillIdx' = [skillIdx EXCEPT ![w] = NoMails] /\ posIdx' = posIdx
        \/ /\ ~HasTitle(job.body, w) /\ rest # NoMails /\ skillIdx' = skillIdx
           /\ posIdx' = [posIdx EXCEPT ![w] = rest]
    BY DEF deleteUserFromJobPosition
  <1>7. [skillIdx EXCEPT ![w] = NoMails] = skillIdx
    BY <1>1, <1>2, <1>5
  <1>8. skillIdx' = skillIdx
    BY <1>6, <1>7
  <1>9. ASSUME ~HasTitle(job.body, w), rest # NoMails, posIdx' = [posIdx EXCEPT ![w] = rest]
        PROVE  /\ posIdx'[w] # NoMails
               /\ \A v \in Word, m \in Mail : v # w \/ m # job.mail => posIdx'[v][m] = posIdx[v][m]
    <2>1. \A m \in Mail : m # job.mail => rest[m] = posIdx[w][m]
      BY <1>1, <1>2, <1>4 DEF Others
    <2>2. \A v \in Word : posIdx'[v] = IF v = w THEN rest ELSE posIdx[v]
      BY <1>1, <1>2, <1>9
    <2> QED BY <1>1, <1>9, <2>1, <2>2
  <1> QED BY <1>1, <1>6, <1>8, <1>9

-----------------------------------------------------------------------------
(***************************************************************************)
(* What is owed after a step, part by part.                                *)
(***************************************************************************)
Running == TypeOK /\ PlanSound /\ plan # <<>> /\ Proceed

LEMMA SkillsStay ==
    ASSUME Running, SkillsOwed, ~SkillStep(Head(plan)), skillIdx' = skillIdx
    PROVE  SkillsOwed'
  <1>1. /\ \A op : Todo(op) <=> op = Head(plan) \/ Todo(op)'
        /\ job' = job
    BY PlanStep DEF Running, Proceed
  <1>2. \A w : /\ Head(plan) # Step("saveSkill", w)
               /\ Head(plan) # Step("dropSkill", w)
    BY StepsDiffer
  <1>3. \A w \in Word : /\ Todo(Step("saveSkill", w)) <=> Todo(Step("saveSkill", w))'
                        /\ Todo(Step("dropSkill", w)) <=> Todo(Step("dropSkill", w))'
    BY <1>1, <1>2
  <1>4. \A w \in Word : SkillCount(w)' = SkillCount(w)
    BY <1>1, <1>3 DEF SkillCount, HasSkill
  <1> QED BY <1>1, <1>4 DEF SkillsOwed

LEMMA PositionsStay ==
    ASSUME Running, PositionsOwed,
           \A w \in Word : HasTitle(job.body, w) /\ posIdx[w][job.mail] > 0
                              => posIdx'[w][job.mail] > 0,
           \A w \in Word : posIdx[w] # NoMails => posIdx'[w] # NoMails,
           \A w \in Word : Head(plan) = Step("savePosition", w)
                              => HasTitle(job.old, w) \/ posIdx'[w][job.mail] > 0
    PROVE  PositionsOwed'
  <1>1. /\ \A op : Todo(op) <=> op = Head(plan) \/ Todo(op)'
        /\ job' = job
    BY PlanStep DEF Running, Proceed
  <1>2. ASSUME NEW w \in Word, HasTitle(job.body, w)
        PROVE  \/ posIdx'[w][job.mail] > 0
               \/ Todo(Step("savePosition", w))' /\ ~HasTitle(job.old, w)
    BY <1>1, <1>2 DEF PositionsOwed
  <1>3. ASSUME NEW w \in Word, Todo(Step("dropPosition", w))'
        PROVE  posIdx'[w] # NoMails
    BY <1>1, <1>3 DEF PositionsOwed
  <1>4. \A w \in Word : /\ HasTitle(job.body, w)' <=> HasTitle(job.body, w)
                        /\ HasTitle(job.old, w)' <=> HasTitle(job.old, w)
    BY <1>1 DEF HasTitle
  <1> QED BY <1>1, <1>2, <1>3, <1>4 DEF PositionsOwed, NoMails

LEMMA RecordStays ==
    ASSUME Running, RecordOwed, profile' = profile,
           Head(plan) # Key("putRecord"), Head(plan) # Key("deleteRecord")
    PROVE  RecordOwed'
  <1>1. /\ \A op : Todo(op) <=> op = Head(plan) \/ Todo(op)'
        /\ job' = job
    BY PlanStep DEF Running, Proceed
  <1> QED BY <1>1 DEF RecordOwed

LEMMA KeysStay ==
    ASSUME Running, KeysOwed, registered' = registered, idKey' = idKey,
           Head(plan) # Key("putRecord"), Head(plan) # Key("deleteRecord"),
           Head(plan) # Key("putId"), Head(plan) # Key("deleteId")
    PROVE  KeysOwed'
  <1>1. /\ \A op : Todo(op) <=> op = Head(plan) \/ Todo(op)'
        /\ job' = job
    BY PlanStep DEF Running, Proceed
  <1>2. /\ Todo(Key("putRecord"))' <=> Todo(Key("putRecord"))
        /\ Todo(Key("deleteRecord"))' <=> Todo(Key("deleteRecord"))
        /\ Todo(Key("putId"))' <=> Todo(Key("putId"))
        /\ Todo(Key("deleteId"))' <=> Todo(Key("deleteId"))
    BY <1>1
  <1> QED BY <1>1, <1>2 DEF KeysOwed

LEMMA NamesStay ==
    ASSUME Running, NamesOwed, registered' = registered, nameKey' = nameKey,
           Head(plan) # Key("putRecord"), Head(plan) # Key("deleteRecord"),
           Head(plan) # Key("putName"), Head(plan) # Key("deleteName")
    PROVE  NamesOwed'
  <1>1. /\ \A op : Todo(op) <=> op = Head(plan) \/ Todo(op)'
        /\ job' = job
    BY PlanStep DEF Running, Proceed
  <1>2. /\ Todo(Key("putRecord"))' <=> Todo(Key("putRecord"))
        /\ Todo(Key("deleteRecord"))' <=> Todo(Key("deleteRecord"))
        /\ Todo(Key("putName"))' <=> Todo(Key("putName"))
        /\ Todo(Key("deleteName"))' <=> Todo(Key("deleteName"))
    BY <1>1
  <1> QED BY <1>1, <1>2 DEF NamesOwed

(* A position's list that grows.                                             *)
LEMMA PositionsGrow ==
    ASSUME TypeOK, TypeOK', NEW v \in Word, GrowsAt(v)
    PROVE  /\ \A w \in Word : posIdx[w][job.mail] > 0 => posIdx'[w][job.mail] > 0
           /\ \A w \in Word : posIdx[w] # NoMails => posIdx'[w] # NoMails
           /\ posIdx'[v][job.mail] > 0
  <1>1. /\ posIdx \in [Word -> [Mail -> Nat]] /\ job.mail \in Mail
        /\ posIdx' \in [Word -> [Mail -> Nat]]
    BY DEF TypeOK
  <1>2. \A w \in Word, m \in Mail : posIdx[w][m] \in Nat /\ posIdx'[w][m] \in Nat
    BY <1>1
  <1>3. \A w \in Word, m \in Mail : posIdx[w][m] > 0 => posIdx'[w][m] > 0
    BY <1>1, <1>2 DEF GrowsAt
  <1>4. \A w \in Word : posIdx[w] # NoMails => posIdx'[w] # NoMails
    <2> SUFFICES ASSUME NEW w \in Word, posIdx[w] # NoMails PROVE posIdx'[w] # NoMails
      OBVIOUS
    <2>1. posIdx[w] \in [Mail -> Nat] /\ posIdx'[w] \in [Mail -> Nat]
      BY <1>1
    <2>2. \E m \in Mail : posIdx[w][m] > 0
      BY <2>1, BagsDiffer
    <2>3. \E m \in Mail : posIdx'[w][m] > 0
      BY <2>2, <1>3
    <2> QED BY <2>1, <2>3, BagsDiffer
  <1>5. posIdx'[v][job.mail] > 0
    BY <1>1, <1>2 DEF GrowsAt
  <1> QED BY <1>1, <1>3, <1>4, <1>5

(***************************************************************************)
(* Every step of a request that has lost no write leaves the user with     *)
(* what the rest of the plan needs.                                        *)
(***************************************************************************)
RequestStep ==
    \/ KeyStep
    \/ saveSkill \/ savePosition \/ saveCurrentPosition
    \/ deleteUserFromSkill \/ deleteUserFromJobPosition

LEMMA RequestStepRuns ==
    ASSUME TypeOK, PlanSound, RequestStep
    PROVE  Running
  BY DEF RequestStep, KeyStep, Running, saveUser, saveUserNameKey, saveUserIdKey,
         deleteUserIdKey, deleteUserNameKey, deleteUser, saveSkill, savePosition,
         saveCurrentPosition, deleteUserFromSkill, deleteUserFromJobPosition, Doing

LEMMA KeyStepOwed ==
    ASSUME TypeOK, PlanSound, Owed, KeyStep
    PROVE  Owed'
  <1>1. Running
    BY RequestStepRuns DEF RequestStep
  <1>2. /\ \A op : Todo(op) <=> op = Head(plan) \/ Todo(op)'
        /\ job' = job /\ Todo(Head(plan)) /\ job.mail \in Mail
    BY <1>1, PlanStep, HeadOfPlan DEF Running, Proceed, TypeOK
  <1>3. /\ skillIdx' = skillIdx /\ posIdx' = posIdx
        /\ Head(plan).do \in KeySteps
    BY DEF KeyStep, saveUser, saveUserNameKey, saveUserIdKey, deleteUserIdKey,
           deleteUserNameKey, deleteUser, Doing, KeySteps
  <1>4. Head(plan) = Key(Head(plan).do) /\ Head(plan).do \in KeySteps
    BY <1>1, <1>3, HeadOfPlan DEF Running
  <1>5. ~SkillStep(Head(plan)) /\ \A w : Head(plan) # Step("savePosition", w)
    BY <1>4, StepsDiffer DEF WordSteps
  <1>6. SkillsOwed' /\ PositionsOwed'
    BY <1>1, <1>3, <1>5, SkillsStay, PositionsStay DEF Owed
  <1>7. CASE saveUser
    <2>1. Head(plan) = Key("putRecord") /\ profile'[job.mail] = job.body
          /\ job.mail \in registered' /\ UNCHANGED <<nameKey, idKey>>
      BY <1>2, <1>4, <1>7 DEF saveUser, Doing, TypeOK
    <2>2. /\ Key("putRecord") # Key("putId") /\ Key("putRecord") # Key("deleteId")
          /\ Key("putRecord") # Key("putName") /\ Key("putRecord") # Key("deleteName")
      BY StepsDiffer
    <2>3. ~Todo(Key("deleteRecord")) /\ ~Todo(Key("deleteRecord"))'
      BY <1>2, <2>1 DEF PlanSound
    <2>4. /\ Todo(Key("putId"))' <=> Todo(Key("putId"))
          /\ Todo(Key("deleteId"))' <=> Todo(Key("deleteId"))
          /\ Todo(Key("putName"))' <=> Todo(Key("putName"))
          /\ Todo(Key("deleteName"))' <=> Todo(Key("deleteName"))
      BY <1>2, <2>1, <2>2
    <2>5. RecordOwed'
      BY <1>2, <2>1 DEF RecordOwed
    <2>6. KeysOwed'
      BY <1>2, <2>1, <2>3, <2>4 DEF KeysOwed, Owed
    <2>7. NamesOwed'
      BY <1>2, <2>1, <2>3, <2>4 DEF NamesOwed, Owed
    <2> QED BY <1>6, <2>5, <2>6, <2>7 DEF Owed
  <1>8. CASE saveUserIdKey
    <2>1. Head(plan) = Key("putId") /\ profile' = profile /\ UNCHANGED <<registered, nameKey>>
          /\ job.mail \in idKey'
      BY <1>2, <1>4, <1>8 DEF saveUserIdKey, Doing
    <2>2. /\ Key("putId") # Key("putRecord") /\ Key("putId") # Key("deleteRecord")
          /\ Key("putId") # Key("putName") /\ Key("putId") # Key("deleteName")
      BY StepsDiffer
    <2>3. ~Todo(Key("deleteId")) /\ ~Todo(Key("deleteId"))'
      BY <1>2, <2>1 DEF PlanSound
    <2>4. /\ Todo(Key("putRecord"))' <=> Todo(Key("putRecord"))
          /\ Todo(Key("deleteRecord"))' <=> Todo(Key("deleteRecord"))
      BY <1>2, <2>1, <2>2
    <2>5. RecordOwed'
      BY <1>1, <2>1, <2>2, RecordStays DEF Owed
    <2>6. KeysOwed'
      BY <1>2, <2>1, <2>3, <2>4 DEF KeysOwed, Owed
    <2>7. NamesOwed'
      BY <1>1, <2>1, <2>2, NamesStay DEF Owed
    <2> QED BY <1>6, <2>5, <2>6, <2>7 DEF Owed
  <1>9. CASE deleteUserIdKey
    <2>1. Head(plan) = Key("deleteId") /\ profile' = profile /\ UNCHANGED <<registered, nameKey>>
          /\ job.mail \notin idKey'
      BY <1>2, <1>4, <1>9 DEF deleteUserIdKey, Doing
    <2>2. /\ Key("deleteId") # Key("putRecord") /\ Key("deleteId") # Key("deleteRecord")
          /\ Key("deleteId") # Key("putName") /\ Key("deleteId") # Key("deleteName")
      BY StepsDiffer
    <2>3. ~Todo(Key("putId")) /\ ~Todo(Key("putId"))'
      BY <1>2, <2>1 DEF PlanSound
    <2>4. /\ Todo(Key("putRecord"))' <=> Todo(Key("putRecord"))
          /\ Todo(Key("deleteRecord"))' <=> Todo(Key("deleteRecord"))
      BY <1>2, <2>1, <2>2
    <2>5. RecordOwed'
      BY <1>1, <2>1, <2>2, RecordStays DEF Owed
    <2>6. KeysOwed'
      BY <1>2, <2>1, <2>3, <2>4 DEF KeysOwed, Owed
    <2>7. NamesOwed'
      BY <1>1, <2>1, <2>2, NamesStay DEF Owed
    <2> QED BY <1>6, <2>5, <2>6, <2>7 DEF Owed
  <1>10. CASE deleteUser
    <2>1. Head(plan) = Key("deleteRecord") /\ profile'[job.mail] = NoProfile
          /\ job.mail \notin registered' /\ UNCHANGED <<nameKey, idKey>>
      BY <1>2, <1>4, <1>10 DEF deleteUser, Doing, TypeOK
    <2>2. /\ Key("deleteRecord") # Key("putId") /\ Key("deleteRecord") # Key("deleteId")
          /\ Key("deleteRecord") # Key("putName") /\ Key("deleteRecord") # Key("deleteName")
      BY StepsDiffer
    <2>3. ~Todo(Key("putRecord")) /\ ~Todo(Key("putRecord"))' /\ job.body = NoProfile
      BY <1>2, <2>1 DEF PlanSound
    <2>4. /\ Todo(Key("putId"))' <=> Todo(Key("putId"))
          /\ Todo(Key("deleteId"))' <=> Todo(Key("deleteId"))
          /\ Todo(Key("putName"))' <=> Todo(Key("putName"))
          /\ Todo(Key("deleteName"))' <=> Todo(Key("deleteName"))
      BY <1>2, <2>1, <2>2
    <2>5. RecordOwed'
      BY <1>2, <2>1, <2>3 DEF RecordOwed
    <2>6. KeysOwed'
      BY <1>2, <2>1, <2>3, <2>4 DEF KeysOwed, Owed
    <2>7. NamesOwed'
      BY <1>2, <2>1, <2>3, <2>4 DEF NamesOwed, Owed
    <2> QED BY <1>6, <2>5, <2>6, <2>7 DEF Owed
  <1>11. CASE saveUserNameKey
    <2>1. Head(plan) = Key("putName") /\ profile' = profile /\ UNCHANGED <<registered, idKey>>
          /\ job.mail \in nameKey'
      BY <1>2, <1>4, <1>11 DEF saveUserNameKey, Doing
    <2>2. /\ Key("putName") # Key("putRecord") /\ Key("putName") # Key("deleteRecord")
          /\ Key("putName") # Key("putId") /\ Key("putName") # Key("deleteId")
      BY StepsDiffer
    <2>3. ~Todo(Key("deleteName")) /\ ~Todo(Key("deleteName"))'
      BY <1>2, <2>1 DEF PlanSound
    <2>4. /\ Todo(Key("putRecord"))' <=> Todo(Key("putRecord"))
          /\ Todo(Key("deleteRecord"))' <=> Todo(Key("deleteRecord"))
      BY <1>2, <2>1, <2>2
    <2>5. RecordOwed'
      BY <1>1, <2>1, <2>2, RecordStays DEF Owed
    <2>6. NamesOwed'
      BY <1>2, <2>1, <2>3, <2>4 DEF NamesOwed, Owed
    <2>7. KeysOwed'
      BY <1>1, <2>1, <2>2, KeysStay DEF Owed
    <2> QED BY <1>6, <2>5, <2>6, <2>7 DEF Owed
  <1>12. CASE deleteUserNameKey
    <2>1. Head(plan) = Key("deleteName") /\ profile' = profile /\ UNCHANGED <<registered, idKey>>
          /\ job.mail \notin nameKey'
      BY <1>2, <1>4, <1>12 DEF deleteUserNameKey, Doing
    <2>2. /\ Key("deleteName") # Key("putRecord") /\ Key("deleteName") # Key("deleteRecord")
          /\ Key("deleteName") # Key("putId") /\ Key("deleteName") # Key("deleteId")
      BY StepsDiffer
    <2>3. ~Todo(Key("putName")) /\ ~Todo(Key("putName"))'
      BY <1>2, <2>1 DEF PlanSound
    <2>4. /\ Todo(Key("putRecord"))' <=> Todo(Key("putRecord"))
          /\ Todo(Key("deleteRecord"))' <=> Todo(Key("deleteRecord"))
      BY <1>2, <2>1, <2>2
    <2>5. RecordOwed'
      BY <1>1, <2>1, <2>2, RecordStays DEF Owed
    <2>6. NamesOwed'
      BY <1>2, <2>1, <2>3, <2>4 DEF NamesOwed, Owed
    <2>7. KeysOwed'
      BY <1>1, <2>1, <2>2, KeysStay DEF Owed
    <2> QED BY <1>6, <2>5, <2>6, <2>7 DEF Owed
  <1> QED BY <1>7, <1>8, <1>9, <1>10, <1>11, <1>12 DEF KeyStep

(* The two steps on the list of a skill.                                     *)
LEMMA SkillStepOwed ==
    ASSUME TypeOK, PlanSound, Owed, saveSkill \/ deleteUserFromSkill
    PROVE  Owed'
  <1> DEFINE w == Head(plan).word
  <1>1. Running
    BY RequestStepRuns DEF RequestStep
  <1>2. /\ \A op : Todo(op) <=> op = Head(plan) \/ Todo(op)'
        /\ job' = job /\ Todo(Head(plan)) /\ job.mail \in Mail
        /\ SkillStep(Head(plan)) => Head(plan) \notin Elements(plan')
    BY <1>1, PlanStep, HeadOfPlan DEF Running, Proceed, TypeOK
  <1>3. /\ w \in Word /\ UNCHANGED <<profile, registered, nameKey, idKey, posIdx>>
        /\ Head(plan) \in {Step("saveSkill", w), Step("dropSkill", w)}
        /\ \A v \in Word : v # w => skillIdx'[v][job.mail] = skillIdx[v][job.mail]
    BY <1>2, SkillSaved, SkillDropped
  <1>4. /\ \A v : Head(plan) # Step("savePosition", v)
        /\ \A k \in KeySteps : Head(plan) # Key(k)
    BY <1>3, StepsDiffer DEF WordSteps
  <1>5. SkillStep(Head(plan))
    BY <1>3, StepsDiffer
  <1>6. /\ Head(plan) # Key("putRecord") /\ Head(plan) # Key("deleteRecord")
        /\ Head(plan) # Key("putId") /\ Head(plan) # Key("deleteId")
        /\ Head(plan) # Key("putName") /\ Head(plan) # Key("deleteName")
    BY <1>4 DEF KeySteps
  <1>7. PositionsOwed' /\ RecordOwed' /\ KeysOwed' /\ NamesOwed'
    BY <1>1, <1>3, <1>4, <1>6, PositionsStay, RecordStays, KeysStay, NamesStay DEF Owed
  <1>8. ASSUME NEW v \in Word, v # w
        PROVE  skillIdx'[v][job.mail] = SkillCount(v)'
    <2>1. Head(plan) # Step("saveSkill", v) /\ Head(plan) # Step("dropSkill", v)
      BY <1>3, <1>8, StepsDiffer
    <2>2. /\ Todo(Step("saveSkill", v)) <=> Todo(Step("saveSkill", v))'
          /\ Todo(Step("dropSkill", v)) <=> Todo(Step("dropSkill", v))'
      BY <1>2, <2>1
    <2>3. SkillCount(v)' = SkillCount(v)
      BY <1>2, <2>2 DEF SkillCount, HasSkill
    <2> QED BY <1>3, <1>8, <2>3 DEF Owed, SkillsOwed
  <1>9. ASSUME saveSkill, NEW v \in Word, v = w
        PROVE  skillIdx'[v][job.mail] = SkillCount(v)'
    <2>1. Head(plan) = Step("saveSkill", v) /\ Step("saveSkill", v) \notin Elements(plan')
      BY <1>2, <1>5, <1>9, SkillSaved
    <2>2. HasSkill(job.body, v) /\ Todo(Step("saveSkill", v))
      BY <1>2, <2>1 DEF PlanSound
    <2>3. SkillCount(v) = IF HasSkill(job.old, v) THEN 1 ELSE 0
      BY <2>2 DEF SkillCount
    <2>4. ~Todo(Step("saveSkill", v))'
      BY <2>1 DEF Todo
    <2>5. HasSkill(job.body, v)'
      BY <1>2, <2>2 DEF HasSkill
    <2>6. SkillCount(v)' = 1
      BY <2>4, <2>5 DEF SkillCount
    <2>7. skillIdx'[v][job.mail] = IF HasSkill(job.old, v) THEN skillIdx[v][job.mail]
                                   ELSE skillIdx[v][job.mail] + 1
      BY <1>9, SkillSaved
    <2>8. skillIdx[v][job.mail] = SkillCount(v)
      BY DEF Owed, SkillsOwed
    <2> QED BY <2>3, <2>6, <2>7, <2>8
  <1>10. ASSUME deleteUserFromSkill, NEW v \in Word, v = w
         PROVE  skillIdx'[v][job.mail] = SkillCount(v)'
    <2>1. Head(plan) = Step("dropSkill", v) /\ Step("dropSkill", v) \notin Elements(plan')
      BY <1>2, <1>5, <1>10, SkillDropped
    <2>2. HasSkill(job.old, v) /\ Todo(Step("dropSkill", v))
      BY <1>2, <2>1 DEF PlanSound
    <2>3. SkillCount(v) = 1
      BY <2>2 DEF SkillCount
    <2>4. ~Todo(Step("dropSkill", v))'
      BY <2>1 DEF Todo
    <2>5. HasSkill(job.old, v)' /\ (HasSkill(job.body, v)' <=> HasSkill(job.body, v))
      BY <1>2, <2>2 DEF HasSkill
    <2>6. SkillCount(v)' = IF HasSkill(job.body, v) THEN 1 ELSE 0
      BY <2>4, <2>5 DEF SkillCount
    <2>7. skillIdx'[v][job.mail] = IF HasSkill(job.body, v) THEN skillIdx[v][job.mail] ELSE 0
      BY <1>10, SkillDropped
    <2>8. skillIdx[v][job.mail] = SkillCount(v)
      BY DEF Owed, SkillsOwed
    <2> QED BY <2>3, <2>6, <2>7, <2>8
  <1>11. \A v \in Word : skillIdx'[v][job.mail] = SkillCount(v)'
    BY <1>8, <1>9, <1>10
  <1>12. SkillsOwed'
    BY <1>2, <1>11 DEF SkillsOwed
  <1> QED BY <1>7, <1>12 DEF Owed

(* The three steps on the list of a position.                                *)
LEMMA PositionStepOwed ==
    ASSUME PlainBodies, TypeOK, TypeOK', PlanSound, OnlySkillsListed, Owed,
           savePosition \/ saveCurrentPosition \/ deleteUserFromJobPosition
    PROVE  Owed'
  <1> DEFINE w == Head(plan).word
  <1>1. Running
    BY RequestStepRuns DEF RequestStep
  <1>2. /\ UNCHANGED <<profile, registered, nameKey, idKey, skillIdx>>
        /\ \/ w \in Word /\ Head(plan) \in {Step("savePosition", w), Step("dropPosition", w)}
           \/ Head(plan) = Key("saveCurrent")
    BY SkillSaved, PositionSaved, CurrentSaved, PositionDropped
  <1>3. ~SkillStep(Head(plan))
    BY <1>2, StepsDiffer DEF KeySteps
  <1>4. /\ Head(plan) # Key("putRecord") /\ Head(plan) # Key("deleteRecord")
        /\ Head(plan) # Key("putId") /\ Head(plan) # Key("deleteId")
        /\ Head(plan) # Key("putName") /\ Head(plan) # Key("deleteName")
    BY <1>2, StepsDiffer DEF KeySteps, WordSteps
  <1>5. SkillsOwed' /\ RecordOwed' /\ KeysOwed' /\ NamesOwed'
    BY <1>1, <1>2, <1>3, <1>4, SkillsStay, RecordStays, KeysStay, NamesStay DEF Owed
  <1>6. CASE savePosition
    <2>1. \A v \in Word : Head(plan) = Step("savePosition", v) => v = w
      BY <1>6, PositionSaved, StepsDiffer
    <2>2. CASE HasTitle(job.old, w)
      <3>1. posIdx' = posIdx
        BY <1>6, <2>2, PositionSaved
      <3>2. PositionsOwed'
        BY <1>1, <2>1, <2>2, <3>1, PositionsStay DEF Owed
      <3> QED BY <1>5, <3>2 DEF Owed
    <2>3. CASE ~HasTitle(job.old, w)
      <3>1. w \in Word /\ GrowsAt(w)
        BY <1>6, <2>3, PositionSaved
      <3>2. /\ \A v \in Word : posIdx[v][job.mail] > 0 => posIdx'[v][job.mail] > 0
            /\ \A v \in Word : posIdx[v] # NoMails => posIdx'[v] # NoMails
            /\ posIdx'[w][job.mail] > 0
        BY <3>1, PositionsGrow
      <3>3. PositionsOwed'
        BY <1>1, <2>1, <3>2, PositionsStay DEF Owed
      <3> QED BY <1>5, <3>3 DEF Owed
    <2> QED BY <2>2, <2>3
  <1>7. CASE saveCurrentPosition
    <2>1. \A v : Head(plan) # Step("savePosition", v)
      BY <1>7, CurrentSaved, StepsDiffer DEF KeySteps, WordSteps
    <2>2. /\ \A v \in Word : posIdx[v][job.mail] > 0 => posIdx'[v][job.mail] > 0
          /\ \A v \in Word : posIdx[v] # NoMails => posIdx'[v] # NoMails
      BY <1>7, CurrentSaved, PositionsGrow
    <2>3. PositionsOwed'
      BY <1>1, <2>1, <2>2, PositionsStay DEF Owed
    <2> QED BY <1>5, <2>3 DEF Owed
  <1>8. CASE deleteUserFromJobPosition
    <2>1. /\ w \in Word /\ Head(plan) = Step("dropPosition", w)
          /\ \/ posIdx' = posIdx
             \/ /\ ~HasTitle(job.body, w)
                /\ posIdx'[w] # NoMails
                /\ \A v \in Word, m \in Mail : v # w \/ m # job.mail =>
                                                  posIdx'[v][m] = posIdx[v][m]
      BY <1>8, PositionDropped
    <2>2. /\ posIdx \in [Word -> [Mail -> Nat]] /\ posIdx' \in [Word -> [Mail -> Nat]]
          /\ job.mail \in Mail
      BY DEF TypeOK
    <2>3. \A v \in Word : posIdx[v] # NoMails => posIdx'[v] # NoMails
      <3> SUFFICES ASSUME NEW v \in Word, posIdx[v] # NoMails, v # w, posIdx' # posIdx
                   PROVE  posIdx'[v] # NoMails
        BY <2>1
      <3>1. \A m \in Mail : posIdx'[v][m] = posIdx[v][m]
        BY <2>1
      <3>2. posIdx[v] \in [Mail -> Nat] /\ posIdx'[v] \in [Mail -> Nat]
        BY <2>2
      <3> QED BY <3>1, <3>2, BagsDiffer
    <2>4. \A v \in Word : HasTitle(job.body, v) /\ posIdx[v][job.mail] > 0
                             => posIdx'[v][job.mail] > 0
      BY <2>1, <2>2
    <2>5. \A v : Head(plan) # Step("savePosition", v)
      BY <2>1, StepsDiffer
    <2>6. PositionsOwed'
      BY <1>1, <2>3, <2>4, <2>5, PositionsStay DEF Owed
    <2> QED BY <1>5, <2>6 DEF Owed
  <1> QED BY <1>6, <1>7, <1>8

LEMMA OwedStep ==
    ASSUME PlainBodies, TypeOK, TypeOK', PlanSound, OnlySkillsListed, Owed, RequestStep
    PROVE  Owed'
  BY KeyStepOwed, SkillStepOwed, PositionStepOwed DEF RequestStep

-----------------------------------------------------------------------------
(***************************************************************************)
(* A step of a request leaves the record, the keys and the index entries   *)
(* of every other user as they are.                                        *)
(***************************************************************************)
LEMMA OthersStay ==
    ASSUME PlainBodies, TypeOK, PlanSound, OnlySkillsListed, RequestStep,
           NEW m \in Mail, m # job.mail
    PROVE  /\ profile'[m] = profile[m]
           /\ m \in registered' <=> m \in registered
           /\ m \in idKey' <=> m \in idKey
           /\ m \in nameKey' <=> m \in nameKey
           /\ \A w \in Word : skillIdx'[w][m] = skillIdx[w][m] /\ posIdx'[w][m] = posIdx[w][m]
  <1>1. profile \in [Mail -> Profile]
    BY DEF TypeOK
  <1>2. CASE KeyStep
    BY <1>1, <1>2 DEF KeyStep, saveUser, saveUserNameKey, saveUserIdKey, deleteUserIdKey,
                      deleteUserNameKey, deleteUser
  <1>3. CASE saveSkill
    BY <1>3, SkillSaved
  <1>4. CASE savePosition
    <2>1. UNCHANGED <<profile, registered, nameKey, idKey, skillIdx>>
      BY <1>4, PositionSaved
    <2>2. posIdx' = posIdx \/ GrowsAt(Head(plan).word)
      BY <1>4, PositionSaved
    <2> QED BY <2>1, <2>2 DEF GrowsAt
  <1>5. CASE saveCurrentPosition
    BY <1>5, CurrentSaved DEF GrowsAt
  <1>6. CASE deleteUserFromSkill
    BY <1>6, SkillDropped
  <1>7. CASE deleteUserFromJobPosition
    BY <1>7, PositionDropped
  <1> QED BY <1>2, <1>3, <1>4, <1>5, <1>6, <1>7 DEF RequestStep

LEMMA OthersSettled ==
    ASSUME PlainBodies, TypeOK, PlanSound, OnlySkillsListed, RequestStep,
           NEW m \in Mail, m # job.mail, SettledUser(m)
    PROVE  SettledUser(m)'
  <1>1. /\ profile'[m] = profile[m]
        /\ m \in registered' <=> m \in registered
        /\ m \in idKey' <=> m \in idKey
        /\ m \in nameKey' <=> m \in nameKey
        /\ \A w \in Word : skillIdx'[w][m] = skillIdx[w][m] /\ posIdx'[w][m] = posIdx[w][m]
    BY OthersStay
  <1>2. \A w : /\ HasSkill(profile[m], w)' <=> HasSkill(profile[m], w)
               /\ HasTitle(profile[m], w)' <=> HasTitle(profile[m], w)
    BY <1>1 DEF HasSkill, HasTitle
  <1> QED BY <1>1, <1>2 DEF SettledUser

(* Nothing is listed that is no skill, and who has no record has no profile. *)
LEMMA BackgroundStep ==
    ASSUME PlainBodies, TypeOK, PlanSound, OnlySkillsListed, NoRecordNoProfile, RequestStep
    PROVE  OnlySkillsListed' /\ NoRecordNoProfile'
  <1>1. /\ job.body \in Profile /\ job.old \in Profile /\ job.mail \in Mail
        /\ profile \in [Mail -> Profile]
    BY DEF TypeOK
  <1>2. CASE KeyStep
    BY <1>1, <1>2 DEF KeyStep, saveUser, saveUserNameKey, saveUserIdKey, deleteUserIdKey,
                      deleteUserNameKey, deleteUser, OnlySkillsListed, NoRecordNoProfile,
                      IsSkill, NoMails
  <1>3. CASE saveSkill \/ deleteUserFromSkill
    <2> DEFINE v == Head(plan).word
    <2>1. /\ v \in Word /\ UNCHANGED <<profile, registered>>
          /\ plan # <<>> /\ Head(plan) \in {Step("saveSkill", v), Step("dropSkill", v)}
          /\ \A w \in Word : w # v => skillIdx'[w] = skillIdx[w]
      BY <1>3, SkillSaved, SkillDropped
    <2>2. Todo(Head(plan))
      BY <2>1, HeadOfPlan
    <2>3. IsSkill(v)
      BY <1>1, <2>1, <2>2, PlainProfiles DEF PlanSound
    <2> QED BY <2>1, <2>3 DEF OnlySkillsListed, NoRecordNoProfile, IsSkill, NoMails
  <1>4. CASE savePosition \/ saveCurrentPosition \/ deleteUserFromJobPosition
    <2>1. UNCHANGED <<profile, registered, skillIdx>>
      BY <1>4, PositionSaved, CurrentSaved, PositionDropped
    <2> QED BY <2>1 DEF OnlySkillsListed, NoRecordNoProfile, IsSkill, NoMails
  <1> QED BY <1>2, <1>3, <1>4 DEF RequestStep

(* A plan that is done owes nothing: the indexes match the record.           *)
LEMMA NothingOwed ==
    ASSUME plan' = <<>>, Owed'
    PROVE  SettledUser(job.mail)'
  <1>1. \A op : ~Todo(op)'
    BY DEF Todo, Elements
  <1>2. profile'[job'.mail] = job'.body
    BY <1>1 DEF Owed, RecordOwed
  <1>3. job'.mail \in registered' <=> job'.mail \in idKey'
    BY <1>1 DEF Owed, KeysOwed
  <1>7. job'.mail \in registered' <=> job'.mail \in nameKey'
    BY <1>1 DEF Owed, NamesOwed
  <1>4. \A w \in Word : skillIdx'[w][job'.mail] = IF HasSkill(job.body, w)' THEN 1 ELSE 0
    BY <1>1 DEF Owed, SkillsOwed, SkillCount
  <1>5. \A w \in Word : HasTitle(job.body, w)' => posIdx'[w][job'.mail] > 0
    BY <1>1 DEF Owed, PositionsOwed
  <1>6. \A w \in Word : /\ HasSkill(profile[job.mail], w)' <=> HasSkill(job.body, w)'
                        /\ HasTitle(profile[job.mail], w)' <=> HasTitle(job.body, w)'
    BY <1>2 DEF HasSkill, HasTitle
  <1> QED BY <1>3, <1>4, <1>5, <1>6, <1>7 DEF SettledUser

LEMMA EmptyPlanSound ==
    /\ plan = <<>> => PlanSound
    /\ plan' = <<>> => PlanSound'
  <1>1. ASSUME plan = <<>> PROVE PlanSound
    <2>1. Unique(plan) /\ \A op : ~Todo(op)
      BY <1>1 DEF Todo, Elements, Unique
    <2> QED BY <2>1 DEF PlanSound
  <1>2. ASSUME plan' = <<>> PROVE PlanSound'
    <2>1. Unique(plan)' /\ \A op : ~Todo(op)'
      BY <1>2 DEF Todo, Elements, Unique
    <2> QED BY <2>1 DEF PlanSound
  <1> QED BY <1>1, <1>2

(* The missing key that makes a handler throw: what is still to be dropped   *)
(* is listed, unless a write was lost.                                       *)
LEMMA NothingMissing ==
    ASSUME PlainBodies, TypeOK, PlanSound, Owed
    PROVE  ~KeyMissing
  <1> SUFFICES ASSUME KeyMissing PROVE FALSE
    OBVIOUS
  <1> DEFINE w == Head(plan).word
  <1>1. plan # <<>> /\ Head(plan).do \in {"dropSkill", "dropPosition"}
    BY DEF KeyMissing, Doing
  <1>2. /\ w \in Word /\ Head(plan) = Step(Head(plan).do, w) /\ Todo(Head(plan))
        /\ job.old \in Profile /\ job.mail \in Mail
    BY <1>1, HeadOfPlan DEF WordSteps, TypeOK
  <1>3. CASE Head(plan).do = "dropSkill"
    <2>1. ~HasSkill(job.body, w) /\ skillIdx[w] = NoMails
      BY <1>3 DEF KeyMissing, Doing
    <2>2. Todo(Step("dropSkill", w)) /\ HasSkill(job.old, w)
      BY <1>2, <1>3 DEF PlanSound
    <2>3. skillIdx[w][job.mail] = 1
      BY <1>2, <2>1, <2>2 DEF Owed, SkillsOwed, SkillCount
    <2> QED BY <1>2, <2>1, <2>3 DEF NoMails
  <1>4. CASE Head(plan).do = "dropPosition"
    <2>1. posIdx[Lower[w]] = NoMails
      BY <1>4 DEF KeyMissing, Doing
    <2>2. Todo(Step("dropPosition", w)) /\ HasTitle(job.old, w)
      BY <1>2, <1>4 DEF PlanSound
    <2>3. Lower[w] = w
      BY <1>2, <2>2, PlainProfiles
    <2> QED BY <1>2, <2>1, <2>2, <2>3 DEF Owed, PositionsOwed
  <1> QED BY <1>1, <1>3, <1>4

(***************************************************************************)
(* A request that begins: its plan is sound, and owes what changes her     *)
(* record into the new profile if all was well before.                     *)
(***************************************************************************)
KeysPlanned(m, new, keys) ==
    \/ keys = {"putRecord", "putName", "putId", "saveCurrent"}
    \/ keys = {"putRecord"} /\ m \in registered \cap idKey
    \/ keys = {"deleteId", "deleteName", "deleteRecord"} /\ new = NoProfile

LEMMA BeginOwed ==
    ASSUME PlainBodies, TypeOK, NEW m \in Mail, NEW new \in Profile, NEW P, NEW keys,
           Begin(m, profile[m], new, P), Members(P, new, profile[m], new, profile[m], keys),
           Unique(P), KeysPlanned(m, new, keys)
    PROVE  PlanSound' /\ (SettledUser(m) => Owed')
  <1> DEFINE old == profile[m]
  <1>1. /\ job'.mail = m /\ job'.old = old /\ job'.body = new /\ plan' = P
        /\ UNCHANGED store /\ old \in Profile
    BY DEF Begin, TypeOK
  <1>2. \A w \in Word :
           /\ Todo(Step("saveSkill", w))' <=> HasSkill(new, w)
           /\ Todo(Step("dropSkill", w))' <=> HasSkill(old, w)
           /\ Todo(Step("savePosition", w))'
                 <=> \E i \in DOMAIN new.jobs : Lower[new.jobs[i].title] = w
           /\ Todo(Step("dropPosition", w))' <=> HasTitle(old, w)
    BY <1>1 DEF Members, Todo
  <1>3. /\ Todo(Key("putRecord"))' <=> "putRecord" \in keys
        /\ Todo(Key("putId"))' <=> "putId" \in keys
        /\ Todo(Key("deleteId"))' <=> "deleteId" \in keys
        /\ Todo(Key("putName"))' <=> "putName" \in keys
        /\ Todo(Key("deleteName"))' <=> "deleteName" \in keys
        /\ Todo(Key("deleteRecord"))' <=> "deleteRecord" \in keys
    BY <1>1 DEF Members, Todo, KeySteps
  <1>4. \A w : /\ HasSkill(job.body, w)' <=> HasSkill(new, w)
               /\ HasSkill(job.old, w)' <=> HasSkill(old, w)
               /\ HasTitle(job.body, w)' <=> HasTitle(new, w)
               /\ HasTitle(job.old, w)' <=> HasTitle(old, w)
    BY <1>1 DEF HasSkill, HasTitle
  <1>5. Unique(plan)'
    BY <1>1 DEF Unique, SkillStep
  <1>6. /\ ~(Todo(Key("putRecord"))' /\ Todo(Key("deleteRecord"))')
        /\ ~(Todo(Key("putId"))' /\ Todo(Key("deleteId"))')
        /\ ~(Todo(Key("putName"))' /\ Todo(Key("deleteName"))')
        /\ Todo(Key("deleteRecord"))' => new = NoProfile
    BY <1>3 DEF KeysPlanned
  <1>7. PlanSound'
    BY <1>1, <1>2, <1>4, <1>5, <1>6 DEF PlanSound, NoProfile
  <1>8. ASSUME SettledUser(m) PROVE Owed'
    <2>1. \A w \in Word : SkillCount(w)' = IF HasSkill(old, w) THEN 1 ELSE 0
      BY <1>2, <1>4 DEF SkillCount
    <2>2. SkillsOwed'
      BY <1>1, <1>8, <2>1 DEF SkillsOwed, SettledUser, store
    <2>3. \A w \in Word : HasTitle(new, w) => Todo(Step("savePosition", w))'
      BY <1>2, PlainProfiles DEF HasTitle
    <2>4. \A w \in Word : HasTitle(old, w) => posIdx[w][m] > 0
      BY <1>8 DEF SettledUser
    <2>5. \A w \in Word : posIdx[w][m] > 0 => posIdx[w] # NoMails
      BY DEF NoMails
    <2>6. PositionsOwed'
      BY <1>1, <1>2, <1>4, <2>3, <2>4, <2>5 DEF PositionsOwed, store, NoMails
    <2>7. RecordOwed'
      BY <1>3 DEF RecordOwed, KeysPlanned
    <2>8. m \in registered' <=> m \in registered
      BY <1>1 DEF store
    <2>9. m \in idKey' <=> m \in idKey
      BY <1>1 DEF store
    <2>10. KeysOwed'
      BY <1>1, <1>3, <2>8, <2>9 DEF KeysOwed, KeysPlanned
    <2>11. (m \in nameKey' <=> m \in nameKey) /\ (m \in registered <=> m \in nameKey)
      BY <1>1, <1>8 DEF store, SettledUser
    <2>12. NamesOwed'
      BY <1>1, <1>3, <2>8, <2>11 DEF NamesOwed, KeysPlanned
    <2> QED BY <2>2, <2>6, <2>7, <2>10, <2>12 DEF Owed
  <1> QED BY <1>7, <1>8

-----------------------------------------------------------------------------
(***************************************************************************)
(* The invariant holds at the start and after every step.                  *)
(***************************************************************************)
LEMMA IInvInit == PlainBodies /\ Init => IInv
  <1> SUFFICES ASSUME Init PROVE IInv
    OBVIOUS
  <1>1. TypeOK /\ PlanSound
    BY IndexTypeInit, EmptyPlanSound DEF Init
  <1>2. /\ profile = [m \in Mail |-> NoProfile] /\ registered = {} /\ nameKey = {} /\ idKey = {}
        /\ skillIdx = [w \in Word |-> NoMails] /\ plan = <<>>
    BY DEF Init
  <1>3. NoRecordNoProfile /\ OnlySkillsListed
    BY <1>2 DEF NoRecordNoProfile, OnlySkillsListed
  <1>4. \A m \in Mail, w \in Word : profile[m] = NoProfile /\ skillIdx[w] = NoMails
    BY <1>2
  <1>5. ASSUME NEW m \in Mail PROVE SettledUser(m)
    <2>1. \A w \in Word : ~HasSkill(profile[m], w) /\ ~HasTitle(profile[m], w)
      BY <1>2, EmptyProfile
    <2>2. \A w \in Word : skillIdx[w][m] = 0
      BY <1>4 DEF NoMails
    <2> QED BY <1>2, <2>1, <2>2 DEF SettledUser
  <1> QED BY <1>1, <1>2, <1>3, <1>5 DEF IInv, Whole

LEMMA RequestStepIInv ==
    ASSUME PlainBodies, IInv, TypeOK', RequestStep
    PROVE  IInv'
  <1>1. /\ TypeOK /\ PlanSound /\ OnlySkillsListed /\ NoRecordNoProfile
        /\ \A m \in Whole : SettledUser(m)
        /\ plan # <<>> /\ job.mail \notin torn => Owed
    BY DEF IInv
  <1>2. plan # <<>> /\ PlanSound' /\ job' = job /\ torn' = torn
    BY <1>1, RequestStepRuns, PlanStep DEF Running, Proceed
  <1>3. OnlySkillsListed' /\ NoRecordNoProfile'
    BY <1>1, BackgroundStep
  <1>4. job.mail \notin torn => Owed'
    BY <1>1, <1>2, OwedStep
  <1>5. plan' # <<>> /\ job'.mail \notin torn' => Owed'
    BY <1>2, <1>4
  <1>6. ASSUME NEW m \in Whole' PROVE SettledUser(m)'
    <2>1. m \in Mail /\ m \notin torn /\ (m # job.mail \/ plan' = <<>>)
      BY <1>2, <1>6 DEF Whole
    <2>2. CASE m # job.mail
      <3>1. m \in Whole
        BY <1>2, <2>1, <2>2 DEF Whole
      <3> QED BY <1>1, <2>1, <2>2, <3>1, OthersSettled
    <2>3. CASE m = job.mail
      <3>1. Owed' /\ plan' = <<>> /\ TypeOK'
        BY <1>4, <2>1, <2>3
      <3>2. SettledUser(job.mail)'
        BY <3>1, NothingOwed
      <3> QED BY <1>2, <2>3, <3>2 DEF SettledUser
    <2> QED BY <2>2, <2>3
  <1> QED BY <1>2, <1>3, <1>5, <1>6 DEF IInv

(* What depends on the store only.                                           *)
LEMMA StoreSame ==
    ASSUME UNCHANGED store, NEW m
    PROVE  /\ SettledUser(m)' <=> SettledUser(m)
           /\ NoRecordNoProfile' <=> NoRecordNoProfile
           /\ OnlySkillsListed' <=> OnlySkillsListed
  BY DEF store, SettledUser, NoRecordNoProfile, OnlySkillsListed, IsSkill, HasSkill, HasTitle,
         NoMails

LEMMA BeginIInv ==
    ASSUME PlainBodies, IInv, TypeOK', NEW m \in Mail, NEW new \in Profile, NEW P, NEW keys,
           Begin(m, profile[m], new, P), Members(P, new, profile[m], new, profile[m], keys),
           Unique(P), KeysPlanned(m, new, keys)
    PROVE  IInv'
  <1>1. /\ TypeOK /\ OnlySkillsListed /\ NoRecordNoProfile
        /\ \A u \in Whole : SettledUser(u)
    BY DEF IInv
  <1>2. plan = <<>> /\ UNCHANGED <<store, torn>> /\ job'.mail = m
    BY DEF Begin
  <1>3. PlanSound' /\ (SettledUser(m) => Owed')
    BY <1>1, BeginOwed
  <1>4. NoRecordNoProfile' /\ OnlySkillsListed'
    BY <1>1, <1>2, StoreSame
  <1>5. ASSUME NEW u \in Whole' PROVE SettledUser(u)'
    <2>1. u \in Whole
      BY <1>2 DEF Whole
    <2> QED BY <1>1, <1>2, <2>1, StoreSame
  <1>6. job'.mail \notin torn' => Owed'
    BY <1>1, <1>2, <1>3 DEF Whole
  <1> QED BY <1>3, <1>4, <1>5, <1>6 DEF IInv

(* A request that stops, by an exception, which only a user with a torn      *)
(* request can meet, or by the end of the process, or that goes on without   *)
(* a write.                                                                  *)
LEMMA LostIInv ==
    ASSUME PlainBodies, IInv, TypeOK', BadImplementation \/ WriteFails \/ Crash
    PROVE  IInv'
  <1>1. /\ TypeOK /\ PlanSound /\ OnlySkillsListed /\ NoRecordNoProfile
        /\ \A m \in Whole : SettledUser(m)
        /\ plan # <<>> /\ job.mail \notin torn => Owed
    BY DEF IInv
  <1>2. plan # <<>> /\ plan' \in {<<>>, Tail(plan)} /\ UNCHANGED <<store, job>>
    BY DEF BadImplementation, KeyMissing, WriteFails, Crash, Fault, Doing
  <1>3. job.mail \in torn' /\ torn' = torn \cup {job.mail}
    BY <1>1, <1>2, NothingMissing DEF BadImplementation, WriteFails, Crash, Fault
  <1>4. PlanSound'
    BY <1>1, <1>2, EmptyPlanSound, PlanStep
  <1>5. NoRecordNoProfile' /\ OnlySkillsListed'
    BY <1>1, <1>2, StoreSame
  <1>6. ASSUME NEW m \in Whole' PROVE SettledUser(m)'
    <2>1. m \in Whole
      BY <1>2, <1>3 DEF Whole
    <2> QED BY <1>1, <1>2, <2>1, StoreSame
  <1> QED BY <1>2, <1>3, <1>4, <1>5, <1>6 DEF IInv

LEMMA IInvStep == PlainBodies /\ IInv /\ [Next]_vars => IInv'
  <1> SUFFICES ASSUME PlainBodies, IInv, [Next]_vars PROVE IInv'
    OBVIOUS
  <1>0. TypeOK /\ TypeOK' /\ NoRecordNoProfile
    BY IndexTypeStep DEF IInv
  <1>1. ASSUME NEW m \in Mail, NEW s \in SkillLists, NEW j \in JobLists,
               SavePerson(m, [skills |-> s, jobs |-> j])
        PROVE  IInv'
    <2> DEFINE new == [skills |-> s, jobs |-> j]
               keys == {"putRecord", "putName", "putId", "saveCurrent"}
    <2>1. new \in Profile
      BY DEF Profile
    <2>2. profile[m] = NoProfile /\ Begin(m, profile[m], new, SavePlan(new))
      BY <1>0, <1>1 DEF SavePerson, NoRecordNoProfile
    <2>3. /\ Members(SavePlan(new), new, profile[m], new, profile[m], keys)
          /\ Unique(SavePlan(new))
      BY <2>1, <2>2, SavePlanIs
    <2>4. KeysPlanned(m, new, keys)
      BY DEF KeysPlanned
    <2> HIDE DEF new, keys
    <2> QED BY <1>0, <2>1, <2>2, <2>3, <2>4, BeginIInv
  <1>2. ASSUME NEW m \in Mail, NEW s \in SkillLists, NEW j \in JobLists,
               UpdateUser(m, [skills |-> s, jobs |-> j])
        PROVE  IInv'
    <2> DEFINE new == [skills |-> s, jobs |-> j]
               keys == {"putRecord"}
    <2>1. new \in Profile /\ profile[m] \in Profile
      BY <1>0 DEF Profile, TypeOK
    <2>2. m \in registered \cap idKey /\ Begin(m, profile[m], new, UpdatePlan(profile[m], new))
      BY <1>2 DEF UpdateUser
    <2>3. /\ Members(UpdatePlan(profile[m], new), new, profile[m], new, profile[m], keys)
          /\ Unique(UpdatePlan(profile[m], new))
      BY <2>1, UpdatePlanIs
    <2>4. KeysPlanned(m, new, keys)
      BY <2>2 DEF KeysPlanned
    <2> HIDE DEF new, keys
    <2> QED BY <1>0, <2>1, <2>2, <2>3, <2>4, BeginIInv
  <1>3. ASSUME NEW m \in Mail, DeletePerson(m) PROVE IInv'
    <2> DEFINE keys == {"deleteId", "deleteName", "deleteRecord"}
    <2>1. NoProfile \in Profile /\ profile[m] \in Profile
      BY <1>0, EmptyProfile DEF TypeOK
    <2>2. Begin(m, profile[m], NoProfile, DeletePlan(profile[m]))
      BY <1>3 DEF DeletePerson
    <2>3. /\ Members(DeletePlan(profile[m]), NoProfile, profile[m], NoProfile, profile[m], keys)
          /\ Unique(DeletePlan(profile[m]))
      BY <2>1, DeletePlanIs
    <2>4. KeysPlanned(m, NoProfile, keys)
      BY DEF KeysPlanned
    <2> HIDE DEF keys
    <2> QED BY <1>0, <2>1, <2>2, <2>3, <2>4, BeginIInv
  <1>4. ASSUME RequestStep PROVE IInv'
    BY <1>0, <1>4, RequestStepIInv
  <1>5. ASSUME BadImplementation \/ WriteFails \/ Crash PROVE IInv'
    BY <1>0, <1>5, LostIInv
  <1>6. ASSUME RefusedRequest \/ UNCHANGED vars PROVE IInv'
    <2>1. UNCHANGED vars
      BY <1>6 DEF RefusedRequest
    <2>2. UNCHANGED <<store, plan, job, torn>>
      BY <2>1 DEF vars, store
    <2>3. PlanSound'
      BY <2>2 DEF IInv, PlanSound, Todo, HasSkill, HasTitle
    <2>4. NoRecordNoProfile' /\ OnlySkillsListed'
      BY <2>2, StoreSame DEF IInv
    <2>5. ASSUME NEW m \in Whole' PROVE SettledUser(m)'
      <3>1. m \in Whole
        BY <2>2 DEF Whole
      <3> QED BY <2>2, <3>1, StoreSame DEF IInv
    <2>6. Owed => Owed'
      BY <2>2 DEF Owed, SkillsOwed, SkillCount, PositionsOwed, RecordOwed, KeysOwed,
                  NamesOwed, Todo,
                  HasSkill, HasTitle, NoMails, store
    <2> QED BY <1>0, <2>2, <2>3, <2>4, <2>5, <2>6 DEF IInv
  <1> QED BY <1>1, <1>2, <1>3, <1>4, <1>5, <1>6 DEF Next, RequestStep, KeyStep

LEMMA IInvHolds == ASSUME PlainBodies PROVE Spec => []IInv
  <1>1. Init => IInv
    BY IInvInit
  <1>2. IInv /\ [Next]_vars => IInv'
    BY IInvStep
  <1> QED BY <1>1, <1>2, PTL DEF Spec

(***************************************************************************)
(* Where bodies are plain, a user whose requests lost no write is in the   *)
(* list of each skill of her record once and in no other, after any        *)
(* requests of any users (saveSkill, deleteUserFromSkill).                 *)
(***************************************************************************)
THEOREM SkillIndexCorrect == ASSUME PlainBodies PROVE Spec => []SkillIndexExact
  <1>1. IInv => SkillIndexExact
    BY DEF IInv, SettledUser, SkillIndexExact
  <1> QED BY <1>1, IInvHolds, PTL

(***************************************************************************)
(* Where bodies are plain, such a user is in the list of each position of  *)
(* her work history, under the key that searchByJobPosition reads: the     *)
(* lists that deleteUserFromJobPosition puts back never lose her.          *)
(***************************************************************************)
THEOREM PositionsCorrect == ASSUME PlainBodies PROVE Spec => []PositionsFindable
  <1>1. IInv => PositionsFindable
    <2> SUFFICES ASSUME IInv, NEW m \in Whole, NEW i \in DOMAIN profile[m].jobs
                 PROVE  posIdx[Lower[profile[m].jobs[i].title]][m] > 0
      BY DEF PositionsFindable
    <2> DEFINE title == profile[m].jobs[i].title
    <2>1. m \in Mail /\ profile[m] \in Profile /\ SettledUser(m)
      BY DEF IInv, TypeOK, Whole
    <2>2. HasTitle(profile[m], title)
      BY DEF HasTitle
    <2>3. title \in Word /\ Lower[title] = title
      BY <2>1, <2>2, PlainProfiles
    <2> QED BY <2>1, <2>2, <2>3 DEF SettledUser
  <1> QED BY <1>1, IInvHolds, PTL

(***************************************************************************)
(* Where bodies are plain, the record, the name key and the id key of such *)
(* a user are there together or not at all: no deletion or update of hers  *)
(* ends in a BadImplementationException half way.                          *)
(***************************************************************************)
THEOREM DeletedEverywhereCorrect == ASSUME PlainBodies PROVE Spec => []DeletedEverywhere
  <1>1. IInv => DeletedEverywhere
    BY DEF IInv, SettledUser, DeletedEverywhere
  <1> QED BY <1>1, IInvHolds, PTL

(***************************************************************************)
(* Where bodies are plain, no step of a request changes another user's     *)
(* entries in the two indexes (deleteUserFromSkill and                     *)
(* deleteUserFromJobPosition put back lists all users share).              *)
(***************************************************************************)
THEOREM OthersUntouchedCorrect == ASSUME PlainBodies PROVE Spec => OthersUntouched
  <1> DEFINE Untouched == \A m \in Mail \ {job'.mail}, w \in Word :
                             /\ skillIdx'[w][m] = skillIdx[w][m]
                             /\ posIdx'[w][m] = posIdx[w][m]
  <1>1. IInv /\ [Next]_vars => [Untouched]_vars
    <2> SUFFICES ASSUME IInv, Next PROVE Untouched
      OBVIOUS
    <2>1. CASE RequestStep
      <3>1. TypeOK /\ PlanSound /\ OnlySkillsListed /\ plan # <<>>
        BY <2>1, RequestStepRuns DEF IInv, Running
      <3>2. job' = job
        BY <2>1, <3>1, RequestStepRuns DEF Running, Proceed
      <3> QED BY <2>1, <3>1, <3>2, OthersStay
    <2>2. CASE UNCHANGED <<skillIdx, posIdx>>
      BY <2>2
    <2>3. RequestStep \/ UNCHANGED <<skillIdx, posIdx>>
      BY DEF Next, RequestStep, KeyStep, SavePerson, UpdateUser, DeletePerson, Begin,
             BadImplementation, WriteFails, Crash, Fault, RefusedRequest, store, vars
    <2> QED BY <2>1, <2>2, <2>3
  <1> QED BY <1>1, IInvHolds, PTL DEF Spec, OthersUntouched

-----------------------------------------------------------------------------
(***************************************************************************)
(* Searches.  The parts of a query, and what the search that answers it    *)
(* first finds.                                                            *)
(***************************************************************************)
LEMMA QueryParts ==
    ASSUME NEW q \in Query
    PROVE  /\ q.skills \in Seq(Word) /\ q.positions \in Seq(Word)
           /\ q.mail # NoFilter => q.mail \in Pattern
           /\ q.name # NoFilter => q.name \in Pattern
           /\ q.near # <<>> => q.near \in Int \X Int \X (Nat \ {0})
           /\ DOMAIN q = {"skills", "positions", "mail", "name", "near"}
           /\ q = [skills |-> q.skills, positions |-> q.positions, mail |-> q.mail,
                   name |-> q.name, near |-> q.near]
  BY QueryAssumption

LEMMA FirstWord ==
    ASSUME NEW ws \in Seq(Word), ws # <<>>
    PROVE  1 \in DOMAIN ws /\ ws[1] \in Word /\ Lower[ws[1]] \in Word
  BY LowerAssumption

(* The limit, a positive integer, is no more than its square.                *)
LEMMA SquareOfLimit ==
    ASSUME NEW m \in Mail, NEW near \in Int \X Int \X (Nat \ {0})
    PROVE  /\ DistanceFrom(m, near) \in Int
           /\ DistanceFrom(m, near) <= near[3] => DistanceFrom(m, near) <= near[3] * near[3]
  <1>1. \A x \in Int : x * x \in Int
    OBVIOUS
  <1>2. Place[m] \in Int \X Int
    BY PlaceAssumption
  <1>3. near[1] \in Int /\ near[2] \in Int /\ near[3] \in Nat \ {0}
    OBVIOUS
  <1>4. Place[m][1] - near[1] \in Int /\ Place[m][2] - near[2] \in Int
    BY <1>2, <1>3
  <1>5. /\ (Place[m][1] - near[1]) * (Place[m][1] - near[1]) \in Int
        /\ (Place[m][2] - near[2]) * (Place[m][2] - near[2]) \in Int
    BY <1>1, <1>4
  <1>6. DistanceFrom(m, near) \in Int
    BY <1>5 DEF DistanceFrom
  <1>7. \A d \in Nat \ {0} : d * d \in Int /\ d <= d * d
    OBVIOUS
  <1> HIDE DEF DistanceFrom
  <1>8. \A a, b, c \in Int : a <= b /\ b <= c => a <= c
    OBVIOUS
  <1> QED BY <1>3, <1>6, <1>7, <1>8

LEMMA FirstIs ==
    ASSUME NEW q
    PROVE  /\ First(q) \in {"skill", "position", "mail", "name", "distance", "all"}
           /\ First(q) = "skill" <=> q.skills # <<>>
           /\ First(q) # "skill" => q.skills = <<>>
           /\ First(q) = "position" => q.positions # <<>>
           /\ First(q) \notin {"skill", "position"} => q.positions = <<>>
           /\ First(q) = "mail" => q.mail # NoFilter
           /\ First(q) \in {"name", "distance", "all"} => q.mail = NoFilter
           /\ First(q) = "name" => q.name # NoFilter
           /\ First(q) \in {"distance", "all"} => q.name = NoFilter
           /\ First(q) = "distance" => q.near # <<>>
           /\ First(q) = "all" => q.near = <<>>
  BY DEF First

LEMMA FoundIs ==
    ASSUME NEW q
    PROVE  /\ First(q) = "skill" => Found(q) = SearchBySkill(q)
           /\ First(q) = "position" => Found(q) = SearchByJobPosition(q)
           /\ First(q) = "mail" => Found(q) = SearchByMail(q)
           /\ First(q) = "name" => Found(q) = SearchByName(q)
           /\ First(q) = "distance" => Found(q) = SearchByDistance(q)
           /\ First(q) = "all" => Found(q) = GetAllUsers
  BY DEF Found

LEMMA SearchesIs ==
    ASSUME NEW m \in Mail, NEW q
    PROVE  Searches(m, q) <=> Passes(m, q) /\ Found(q)[m] > 0
  <1>1. SearchUsersBy(q)[m] = IF Passes(m, q) THEN Found(q)[m] ELSE 0
    BY DEF SearchUsersBy
  <1> QED BY <1>1 DEF Searches

(* Who is found by each kind of search.                                      *)
LEMMA WhoIsFound ==
    ASSUME NEW m \in Mail, NEW q
    PROVE  /\ First(q) = "skill" =>
                 (Found(q)[m] > 0 <=> HasEverySkill(m, q.skills) /\ SkillList(q)[m] > 0)
           /\ First(q) = "position" =>
                 (Found(q)[m] > 0 <=> HasEveryPosition(m, q.positions) /\ PositionList(q)[m] > 0)
           /\ First(q) = "mail" => (Found(q)[m] > 0 <=> m \in registered \cap KeyHits[q.mail])
           /\ First(q) = "name" => (Found(q)[m] > 0 <=> m \in nameKey \cap FullNameHits[q.name])
           /\ First(q) = "distance" =>
                 (Found(q)[m] > 0 <=> /\ m \in registered
                                      /\ DistanceFrom(m, q.near) <= q.near[3] * q.near[3])
           /\ First(q) = "all" => (Found(q)[m] > 0 <=> m \in registered)
  <1>1. \A S : Once(S)[m] > 0 <=> m \in S
    BY DEF Once
  <1>2. SearchBySkill(q)[m] > 0 <=> HasEverySkill(m, q.skills) /\ SkillList(q)[m] > 0
    <2>1. SearchBySkill(q)[m] = IF HasEverySkill(m, q.skills) THEN SkillList(q)[m] ELSE 0
      BY DEF SearchBySkill
    <2> QED BY <2>1
  <1>3. SearchByJobPosition(q)[m] > 0
            <=> HasEveryPosition(m, q.positions) /\ PositionList(q)[m] > 0
    <2>1. SearchByJobPosition(q)[m]
            = IF HasEveryPosition(m, q.positions) THEN PositionList(q)[m] ELSE 0
      BY DEF SearchByJobPosition
    <2> QED BY <2>1
  <1>4. SearchByMail(q)[m] > 0 <=> m \in registered \cap KeyHits[q.mail]
    BY <1>1 DEF SearchByMail
  <1>5. SearchByName(q)[m] > 0 <=> m \in nameKey \cap FullNameHits[q.name]
    BY <1>1 DEF SearchByName
  <1>6. SearchByDistance(q)[m] > 0
            <=> m \in {u \in registered : DistanceFrom(u, q.near) <= q.near[3] * q.near[3]}
    BY <1>1 DEF SearchByDistance
  <1>7. m \in {u \in registered : DistanceFrom(u, q.near) <= q.near[3] * q.near[3]}
            <=> m \in registered /\ DistanceFrom(m, q.near) <= q.near[3] * q.near[3]
    OBVIOUS
  <1>8. GetAllUsers[m] > 0 <=> m \in registered
    BY <1>1 DEF GetAllUsers
  <1> QED BY <1>2, <1>3, <1>4, <1>5, <1>6, <1>7, <1>8, FoundIs

(* Whoever an answered search finds is registered.                           *)
LEMMA FoundAreRegistered ==
    ASSUME NEW q \in Answered, NEW m \in Mail, Found(q)[m] > 0
    PROVE  m \in registered
  <1>0. LookedUp(q)[m] > 0 => m \in registered
    BY DEF Answered, SearchThrows
  <1>1. CASE First(q) = "skill"
    <2>1. SkillList(q)[m] > 0 /\ LookedUp(q) = SkillList(q)
      BY <1>1, WhoIsFound DEF LookedUp
    <2> QED BY <1>0, <2>1
  <1>2. CASE First(q) = "position"
    <2>1. PositionList(q)[m] > 0 /\ LookedUp(q) = PositionList(q)
      BY <1>2, WhoIsFound DEF LookedUp
    <2> QED BY <1>0, <2>1
  <1>3. CASE First(q) = "name"
    <2>1. Found(q) = SearchByName(q) /\ LookedUp(q) = SearchByName(q)
      BY <1>3, FoundIs DEF LookedUp
    <2> QED BY <1>0, <2>1
  <1>4. CASE First(q) \in {"mail", "distance", "all"}
    BY <1>4, WhoIsFound
  <1> QED BY <1>1, <1>2, <1>3, <1>4, FirstIs

(***************************************************************************)
(* Where bodies are plain, a search that answers finds every user whose    *)
(* requests lost no write and who passes all its filters, and only users   *)
(* whose record has all the words: one list, that of the first word, or    *)
(* the name keys are enough (search_users_by).  Of names nothing is        *)
(* assumed; each way to search for them is taken as it is.                 *)
(***************************************************************************)
THEOREM SearchCorrect == ASSUME PlainBodies PROVE Spec => []SearchFindsMatches
  <1>1. IInv => SearchFindsMatches
    <2> SUFFICES ASSUME IInv, NEW q \in Answered, NEW m \in Whole
                 PROVE  LET words == /\ HasEverySkill(m, q.skills)
                                     /\ HasEveryPosition(m, q.positions) /\ m \in registered
                        IN  /\ words /\ MailTest(m, q) /\ NameMatches(m, q)
                                  /\ DistanceTest(m, q)
                                  => Searches(m, q)
                            /\ Searches(m, q) => words
      BY DEF SearchFindsMatches
    <2>1. m \in Mail /\ q \in Query /\ SettledUser(m) /\ profile[m] \in Profile
      BY DEF Whole, Answered, IInv, TypeOK
    <2>2. ASSUME HasEverySkill(m, q.skills), HasEveryPosition(m, q.positions), m \in registered,
                 MailTest(m, q), NameMatches(m, q), DistanceTest(m, q)
          PROVE  Searches(m, q)
      <3>1. Passes(m, q)
        BY <2>2 DEF Passes, NameMatches
      <3>2. CASE First(q) = "skill"
        <4>1. 1 \in DOMAIN q.skills /\ Lower[q.skills[1]] \in Word
          BY <2>1, <3>2, FirstIs, QueryParts, FirstWord
        <4>2. HasSkill(profile[m], Lower[q.skills[1]])
          BY <2>2, <4>1 DEF HasEverySkill
        <4>3. SkillList(q)[m] = 1
          BY <2>1, <4>1, <4>2 DEF SkillList, SettledUser
        <4> QED BY <2>1, <2>2, <3>1, <3>2, <4>3, WhoIsFound, SearchesIs
      <3>3. CASE First(q) = "position"
        <4>1. 1 \in DOMAIN q.positions /\ Lower[q.positions[1]] \in Word
          BY <2>1, <3>3, FirstIs, QueryParts, FirstWord
        <4>2. HasTitle(profile[m], Lower[q.positions[1]])
          BY <2>1, <2>2, <4>1, PlainProfiles DEF HasEveryPosition, HasTitle
        <4>3. PositionList(q)[m] > 0
          BY <2>1, <4>1, <4>2 DEF PositionList, SettledUser
        <4> QED BY <2>1, <2>2, <3>1, <3>3, <4>3, WhoIsFound, SearchesIs
      <3>4. CASE First(q) = "mail"
        <4>1. m \in KeyHits[q.mail]
          BY <2>1, <2>2, <3>4, FirstIs, QueryParts, HitsAssumption DEF MailTest
        <4> QED BY <2>1, <2>2, <3>1, <3>4, <4>1, WhoIsFound, SearchesIs
      <3>5. CASE First(q) = "name"
        <4>1. m \in FullNameHits[q.name] /\ m \in nameKey
          BY <2>1, <2>2, <3>5 DEF NameMatches, SettledUser
        <4> QED BY <2>1, <2>2, <3>1, <3>5, <4>1, WhoIsFound, SearchesIs
      <3>6. CASE First(q) = "distance"
        <4>1. q.near # <<>> /\ q.near \in Int \X Int \X (Nat \ {0})
          BY <2>1, <3>6, FirstIs, QueryParts
        <4>2. DistanceFrom(m, q.near) <= q.near[3] * q.near[3]
          BY <2>1, <2>2, <4>1, SquareOfLimit DEF DistanceTest
        <4> QED BY <2>1, <2>2, <3>1, <3>6, <4>2, WhoIsFound, SearchesIs
      <3>7. CASE First(q) = "all"
        BY <2>1, <2>2, <3>1, <3>7, WhoIsFound, SearchesIs
      <3> QED BY <3>2, <3>3, <3>4, <3>5, <3>6, <3>7, FirstIs
    <2>3. ASSUME Searches(m, q)
          PROVE  /\ HasEverySkill(m, q.skills) /\ HasEveryPosition(m, q.positions)
                 /\ m \in registered
      <3>1. Passes(m, q) /\ Found(q)[m] > 0
        BY <2>1, <2>3, SearchesIs
      <3>2. HasEveryPosition(m, q.positions) /\ m \in registered
        BY <2>1, <3>1, FoundAreRegistered DEF Passes
      <3>3. HasEverySkill(m, q.skills)
        <4>1. CASE First(q) = "skill"
          BY <2>1, <3>1, <4>1, WhoIsFound
        <4>2. CASE First(q) # "skill"
          BY <4>2, FirstIs DEF HasEverySkill
        <4> QED BY <4>1, <4>2
      <3> QED BY <3>2, <3>3
    <2> QED BY <2>2, <2>3
  <1> QED BY <1>1, IInvHolds, PTL

(***************************************************************************)
(* The filter by distance only narrows a search, and what it leaves is     *)
(* found by a search by distance alone, whatever the state of the indexes: *)
(* one compares the square of the distance with the limit, the other with  *)
(* its square, which is no less for the positive integers clients send     *)
(* (search_users_by, searchByDistance).                                    *)
(***************************************************************************)
THEOREM FiltersCorrect == Spec => []FiltersNarrow
  <1>1. FiltersNarrow
    <2> SUFFICES ASSUME NEW q \in Answered, NEW m \in Whole, q.near # <<>>, Searches(m, q)
                 PROVE  /\ Searches(m, [q EXCEPT !.near = <<>>])
                        /\ Searches(m, [skills |-> <<>>, positions |-> <<>>, mail |-> NoFilter,
                                        name |-> NoFilter, near |-> q.near])
      BY DEF FiltersNarrow
    <2> DEFINE wider == [q EXCEPT !.near = <<>>]
               alone == [skills |-> <<>>, positions |-> <<>>, mail |-> NoFilter,
                         name |-> NoFilter, near |-> q.near]
    <2>1. m \in Mail /\ q \in Query
      BY DEF Whole, Answered
    <2>2. Passes(m, q) /\ Found(q)[m] > 0 /\ m \in registered
      BY <2>1, SearchesIs, FoundAreRegistered
    <2>3. q.near \in Int \X Int \X (Nat \ {0})
      BY <2>1, QueryParts
    <2>4. Searches(m, wider)
      <3>1. /\ wider.skills = q.skills /\ wider.positions = q.positions /\ wider.mail = q.mail
            /\ wider.name = q.name /\ wider.near = <<>>
        BY <2>1, QueryParts
      <3> HIDE DEF wider
      <3>2. First(wider) = IF First(q) = "distance" THEN "all" ELSE First(q)
        BY <3>1 DEF First
      <3>3. Passes(m, wider)
        BY <2>2, <3>1, <3>2, FirstIs DEF Passes, MailTest, NameTest, DistanceTest
      <3>4. CASE First(q) = "distance"
        BY <2>1, <2>2, <3>2, <3>3, <3>4, WhoIsFound, SearchesIs
      <3>5. CASE First(q) # "distance"
        <4>1. First(wider) = First(q)
          BY <3>2, <3>5
        <4>2. SkillList(wider) = SkillList(q) /\ PositionList(wider) = PositionList(q)
          BY <3>1 DEF SkillList, PositionList
        <4>3. Found(wider)[m] > 0
          BY <2>1, <2>2, <3>1, <3>5, <4>1, <4>2, FirstIs, WhoIsFound
        <4> QED BY <2>1, <3>3, <4>3, SearchesIs
      <3> QED BY <3>4, <3>5
    <2>5. Searches(m, alone)
      <3>1. /\ alone.skills = <<>> /\ alone.positions = <<>> /\ alone.mail = NoFilter
            /\ alone.name = NoFilter /\ alone.near = q.near
        OBVIOUS
      <3> HIDE DEF alone
      <3>2. First(alone) = "distance"
        BY <3>1 DEF First
      <3>3. Passes(m, alone)
        BY <3>1, <3>2 DEF Passes, MailTest, NameTest, HasEveryPosition
      <3>4. DistanceFrom(m, q.near) <= q.near[3] * q.near[3]
        <4>1. CASE First(q) = "distance"
          BY <2>1, <2>2, <4>1, WhoIsFound
        <4>2. CASE First(q) # "distance"
          BY <2>1, <2>2, <2>3, <4>2, SquareOfLimit DEF Passes, DistanceTest
        <4> QED BY <4>1, <4>2
      <3> QED BY <2>1, <2>2, <3>1, <3>2, <3>3, <3>4, WhoIsFound, SearchesIs
    <2> QED BY <2>4, <2>5
  <1> QED BY <1>1, PTL

-----------------------------------------------------------------------------
(* Page number of a result of any length: where it starts and ends.          *)
LEMMA PageIs ==
    ASSUME NEW S, NEW found \in Seq(S), NEW size \in Nat \ {0}, NEW number \in Nat \ {0}
    PROVE  LET start == (number - 1) * size
               page  == ResultPage(found, number, size)
           IN  /\ start \in Nat
               /\ \A k : k \in DOMAIN page <=> k \in 1 .. size /\ start + k <= Len(found)
               /\ \A k \in DOMAIN page : page[k] = found[start + k]
  <1> DEFINE start == (number - 1) * size
             end == IF start + size > Len(found) THEN Len(found) ELSE start + size
             page == SubSeq(found, start + 1, end)
  <1>1. ResultPage(found, number, size) = page
    BY DEF ResultPage
  <1>2. start \in Nat
    <2>1. \A a, b \in Nat : a * b \in Nat
      OBVIOUS
    <2>2. number - 1 \in Nat
      OBVIOUS
    <2> QED BY <2>1, <2>2
  <1>3. ASSUME NEW a \in Nat
        PROVE  LET e == IF a + size > Len(found) THEN Len(found) ELSE a + size
               IN  /\ e \in Nat /\ e <= Len(found)
                   /\ \A k : k \in 1 .. e - a <=> k \in 1 .. size /\ a + k <= Len(found)
                   /\ DOMAIN SubSeq(found, a + 1, e) = 1 .. e - a
                   /\ \A k \in 1 .. e - a : SubSeq(found, a + 1, e)[k] = found[a + k]
    <2> DEFINE e == IF a + size > Len(found) THEN Len(found) ELSE a + size
    <2>1. e \in Nat /\ e <= Len(found)
      OBVIOUS
    <2>2. \A k : k \in 1 .. e - a <=> k \in 1 .. size /\ a + k <= Len(found)
      OBVIOUS
    <2>3. ASSUME NEW n \in Nat, n <= Len(found)
          PROVE  /\ DOMAIN SubSeq(found, a + 1, n) = 1 .. n - a
                 /\ \A k \in 1 .. n - a : SubSeq(found, a + 1, n)[k] = found[a + k]
      BY <2>3
    <2> QED BY <2>1, <2>2, <2>3
  <1> HIDE DEF start
  <1>4. /\ \A k : k \in 1 .. end - start <=> k \in 1 .. size /\ start + k <= Len(found)
        /\ DOMAIN page = 1 .. end - start
        /\ \A k \in 1 .. end - start : page[k] = found[start + k]
    BY <1>2, <1>3
  <1> QED BY <1>1, <1>2, <1>4 DEF start

(***************************************************************************)
(* For a result of any length and any size of pages, every entry is on     *)
(* exactly one page and every page holds the entries of its places, in     *)
(* order (SearchHandler::handleGetRequest).                                *)
(***************************************************************************)
THEOREM PagesCorrect ==
    ASSUME NEW S, NEW found \in Seq(S), NEW size \in Nat \ {0}
    PROVE  PagesPartition(found, size)
  <1>1. ASSUME NEW number \in 1 .. Len(found) + 1,
               NEW k \in DOMAIN ResultPage(found, number, size)
        PROVE  ResultPage(found, number, size)[k] = found[(number - 1) * size + k]
    BY PageIs
  <1>2. ASSUME NEW i \in DOMAIN found
        PROVE  \E number \in 1 .. Len(found) : \E k \in DOMAIN ResultPage(found, number, size) :
                  /\ i = (number - 1) * size + k
                  /\ \A other \in 1 .. Len(found) + 1 :
                        \A l \in DOMAIN ResultPage(found, other, size) :
                           i = (other - 1) * size + l => other = number
    <2>1. i \in Nat \ {0} /\ i <= Len(found) /\ i - 1 \in Nat /\ Len(found) \in Nat
      OBVIOUS
    <2>2. ASSUME NEW n \in Nat
          PROVE  \E a \in Nat, r \in 0 .. size - 1 : n = a * size + r /\ a <= n
      <3>1. /\ n \div size \in Nat /\ n % size \in 0 .. size - 1
            /\ n = size * (n \div size) + (n % size)
        OBVIOUS
      <3>2. ASSUME NEW a \in Nat PROVE size * a = a * size /\ a <= a * size /\ a * size \in Nat
        OBVIOUS
      <3>3. ASSUME NEW a \in Nat, NEW r \in 0 .. size - 1, n = size * a + r
            PROVE  n = a * size + r /\ a <= n
        BY <3>2, <3>3
      <3> QED BY <3>1, <3>3
    <2>3. PICK a \in Nat, r \in 0 .. size - 1 : i - 1 = a * size + r /\ a <= i - 1
      BY <2>1, <2>2
    <2> DEFINE number == a + 1
               k == r + 1
    <2>4. /\ number \in 1 .. Len(found) /\ number \in Nat \ {0} /\ k \in 1 .. size
          /\ number - 1 = a
      BY <2>1, <2>3
    <2>5. a * size \in Nat
      OBVIOUS
    <2>6. i = (number - 1) * size + k
      <3> HIDE DEF number
      <3>1. (number - 1) * size = a * size
        BY <2>4
      <3>2. ASSUME NEW x \in Nat, i - 1 = x + r PROVE i = x + k
        BY <2>1, <3>2
      <3> QED BY <2>3, <2>5, <3>1, <3>2
    <2> HIDE DEF number, k
    <2>7. k \in DOMAIN ResultPage(found, number, size)
      BY <2>1, <2>4, <2>6, PageIs
    <2>8. ASSUME NEW other \in 1 .. Len(found) + 1,
                 NEW l \in DOMAIN ResultPage(found, other, size),
                 i = (other - 1) * size + l
          PROVE  other = number
      <3>1. other \in Nat \ {0} /\ l \in 1 .. size
        <4>1. other \in Nat \ {0}
          BY <2>1
        <4> QED BY <4>1, PageIs
      <3>2. ASSUME NEW x \in Nat, NEW y \in Nat, x < y
            PROVE  x * size + size <= y * size /\ x * size \in Nat /\ y * size \in Nat
        BY <3>2
      <3>3. number - 1 \in Nat /\ other - 1 \in Nat
        BY <2>4, <3>1
      <3>4. ~(number - 1 < other - 1)
        BY <2>4, <2>6, <2>8, <3>1, <3>2, <3>3
      <3>5. ~(other - 1 < number - 1)
        BY <2>4, <2>6, <2>8, <3>1, <3>2, <3>3
      <3> QED BY <2>4, <3>1, <3>3, <3>4, <3>5
    <2> QED BY <2>4, <2>6, <2>7, <2>8
  <1> QED BY <1>1, <1>2 DEF PagesPartition
=============================================================================
