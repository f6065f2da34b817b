------------------------------ MODULE MCUserData ------------------------------
(* Instances of UserData: the upload of the app, and that of a client whose  *)
(* lines in front of the picture are longer than savePicture skips.          *)
EXTENDS UserData, TLC

BothFrames ==
    {[head |-> 107, size |-> 50, tail |-> 10], [head |-> 230, size |-> 50, tail |-> 10]}

Phones == Permutations(Phone)
===============================================================================
