------------------------------- MODULE DemoUsers -------------------------------
(***************************************************************************)
(* The demonstration users that DbBuilder::loadUsers saves at every start  *)
(* of the process, each with a fixed token, next to the sessions of people *)
(* who register.  One of the sixteen users stands for all.  They are       *)
(* loaded before the first request is polled, in two writes between which  *)
(* the process may die, and any put of which may fail.                     *)
(***************************************************************************)
EXTENDS Sessions

CONSTANTS DemoMail, DemoPassword

ASSUME DemoAssumption ==
    DemoMail \in Mail /\ Lower[DemoMail] = DemoMail /\ DemoPassword \in Password

VARIABLES
    boot,               \* what main still has to do: save, token, or nothing;
                        \* dead once loadUsers threw
    demoEntry,          \* user:token_tokenUser<i>, id 0 if absent
    demoIds             \* history: ids that loadUsers gave

demo == <<demoEntry, demoIds>>

DemoTypeOK ==
    /\ TypeOK
    /\ boot \in {"save", "token", "up", "dead"}
    /\ demoEntry \in Entry
    /\ demoIds \in SUBSET Id

DemoInit == Init /\ boot = "save" /\ demoEntry = NoEntry /\ demoIds = {}

(***************************************************************************)
(* savePerson of the demo user; UserAlreadyExistsException skips the token.*)
(***************************************************************************)
LoadUserTokenAnyway ==
    /\ boot = "save"
    /\ \/ Exists(DemoMail) /\ UNCHANGED <<people, demoIds>>
       \/ /\ ~Exists(DemoMail) /\ Create(DemoMail, DemoPassword)
          /\ demoIds' = demoIds \cup {lastID + 1}
    /\ boot' = "token"
    /\ UNCHANGED <<tokens, pending, time, reply, demoEntry>>

LoadUser ==
    /\ boot = "save"
    /\ \/ /\ Exists(DemoMail)
          /\ boot' = "up"
          /\ UNCHANGED <<people, demoIds>>
       \/ /\ ~Exists(DemoMail)
          /\ Create(DemoMail, DemoPassword)
          /\ boot' = "token"
          /\ demoIds' = demoIds \cup {lastID + 1}
    /\ UNCHANGED <<tokens, pending, time, reply, demoEntry>>

(***************************************************************************)
(* saveToken with the fixed token, which is no draw of rand.               *)
(***************************************************************************)
PutDemoToken(id) ==
    /\ demoEntry' \in {demoEntry, [id |-> id, mail |-> DemoMail, lastUsed |-> clock]}
    /\ UNCHANGED <<people, entry, draws, logins, issuedTo, lastUse, pending, time, demoIds>>

LoadToken ==
    /\ boot = "token" /\ Exists(DemoMail)
    /\ boot' = "up"
    /\ PutDemoToken(person[DemoMail].id)
    /\ UNCHANGED reply

(***************************************************************************)
(* The put of the record failed: saveToken throws UserNotFoundException,   *)
(* which neither loadUsers nor main catches, and the process dies.         *)
(***************************************************************************)
LoadTokenThrows ==
    /\ boot = "token" /\ ~Exists(DemoMail)
    /\ boot' = "dead"
    /\ UNCHANGED <<people, tokens, pending, time, reply, demo>>

(***************************************************************************)
(* A request with the fixed token: getSession, as for any other token.     *)
(***************************************************************************)
UseDemoToken(skew) ==
    /\ boot = "up" /\ pending = {}
    /\ demoEntry.id # 0 /\ clock - demoEntry.lastUsed + skew <= MaxIdle
    /\ PutDemoToken(demoEntry.id)
    /\ reply' = Answer("served", clock - demoEntry.lastUsed)
    /\ UNCHANGED boot

(***************************************************************************)
(* The process dies, at any point of the above, and starts again.          *)
(***************************************************************************)
Start == lastID < MaxId /\ Restart /\ boot' = "save" /\ UNCHANGED demo

DemoNext ==
    \/ boot = "up" /\ Requests /\ UNCHANGED <<boot, demo>>
    \/ (PutToken \/ Tick) /\ UNCHANGED <<boot, demo>>
    \/ LoadUser
    \/ LoadToken
    \/ LoadTokenThrows
    \/ \E skew \in Skews : UseDemoToken(skew)
    \/ Start

DemoSpec == DemoInit /\ [][DemoNext]_<<vars, boot, demo>>

-----------------------------------------------------------------------------
(***************************************************************************)
(* DemoTokenOpensDemoUsers: the fixed tokens, which are in the source,     *)
(* open only accounts that loadUsers made: never the account of somebody   *)
(* who registered the mail after the demo user was deleted, whenever the   *)
(* server dies or starts.                                                  *)
(***************************************************************************)
DemoTokenOpensDemoUsers ==
    /\ demoEntry.id # 0 => demoEntry.id \in demoIds
    /\ \A m \in Mail, i \in demoIds : person[m].id = i => m = DemoMail
===============================================================================
