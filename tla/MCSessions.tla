------------------------------ MODULE MCSessions ------------------------------
(* Instances of Sessions with the demo users.                                *)
EXTENDS DemoUsers, TLC

OneCapital == [m \in Mail |-> IF m = "Ana" THEN "ana" ELSE m]
===============================================================================
