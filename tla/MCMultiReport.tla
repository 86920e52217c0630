---------------------------- MODULE MCMultiReport ---------------------------
(* Two lengths of reports: the keyboard's and the others'.                 *)
EXTENDS MultiReport

MCDataLen(id) == IF id = "keyboard" THEN 2 ELSE 1
=============================================================================
