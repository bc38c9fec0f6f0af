---------------------------- MODULE MCConnection ----------------------------
(* Constants of the TLC run of SessionObjects.                             *)
EXTENDS SessionObjects

FewLengths == {0, 1, 3}
AllLogins == {"upload", "chunk", "recipe", "absent"}
=============================================================================
