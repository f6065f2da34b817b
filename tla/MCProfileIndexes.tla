--------------------------- MODULE MCProfileIndexes ---------------------------
(* Instances of ProfileIndexes and Search: which words bodies carry differs  *)
(* per run.                                                                  *)
EXTENDS Search

AllLower == [w \in Word |-> w]

Job(title) == [title |-> title, current |-> FALSE]

CurrentJob(title) == [title |-> title, current |-> TRUE]

\* Lower case, no skill twice, no title that is also a skill.
PlainSkills == {<<"java">>, <<"sql", "java">>}

PlainJobs == {<<CurrentJob("dev")>>, <<Job("qa"), CurrentJob("dev")>>, <<>>}

\* Two users of one position, whose title may have a capital.
CapitalLower == [w \in Word |-> IF w = "Dev" THEN "dev" ELSE w]

CapitalJobs == {<<Job("dev")>>, <<Job("Dev")>>}

\* "mail" is part of every key; "ana paz" is a full name, "ana" a first name
\* and "paz-rey" a last name, whose hyphen the name of the key loses.
Patterns == {"mail", "ana paz", "ana", "paz-rey"}

Keys == [p \in Pattern |-> IF p = "mail" THEN {"m1", "m2"} ELSE IF p = "ana" THEN {"m1"} ELSE {}]

Mails == [p \in Pattern |-> IF p = "ana" THEN {"m1"} ELSE {}]

FullNames == [p \in Pattern |-> IF p \in {"ana paz", "ana"} THEN {"m1"} ELSE {}]

OneNames == [p \in Pattern |-> IF p \in {"ana", "paz-rey"} THEN {"m1"} ELSE {}]

\* m1 is at distance 2 from the origin, m2 at the square root of 2.
Places == [m \in Mail |-> IF m = "m1" THEN <<2, 0>> ELSE <<1, 1>>]

SecondHasMore == [m \in Mail |-> IF m = "m1" THEN 0 ELSE 1]

Ask(s, p, m, n, d) ==
    [skills |-> s, positions |-> p, mail |-> m, name |-> n,
     near |-> IF d = 0 THEN <<>> ELSE <<0, 0, d>>]

Queries ==
    {Ask(s, <<>>, NoFilter, n, d) :
        s \in {<<>>, <<"java", "sql">>}, n \in {NoFilter, "ana paz", "paz-rey"}, d \in {0, 1, 2}}
    \cup {Ask(<<"java">>, <<"dev">>, NoFilter, NoFilter, 2),
          Ask(<<>>, <<"dev">>, "mail", NoFilter, 0),
          Ask(<<>>, <<"dev">>, NoFilter, "ana", 2),
          Ask(<<>>, <<>>, "mail", NoFilter, 2),
          Ask(<<>>, <<>>, "ana", "ana paz", 0)}
===============================================================================
