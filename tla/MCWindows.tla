----------------------------- MODULE MCWindows -----------------------------
(* Two tasks; the first has two windows of Android, the second has one.    *)
EXTENDS Windows

MCTasks == {1, 2}
MCAWindows == {"main", "popup", "other"}
MCTaskOf == [a \in MCAWindows |-> IF a = "other" THEN 2 ELSE 1]
=============================================================================
