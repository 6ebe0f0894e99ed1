------------------------------ MODULE MCBackup ------------------------------
(* Small instances of Backup for TLC.                                       *)
EXTENDS Backup

CONSTANTS f1, f2

NoFolders == [f \in File |-> {}]

(* f2 is a file in a folder named f1.                                       *)
F1IsFolderOfF2 == [f \in File |-> IF f = f2 THEN {f1} ELSE {}]

TwoSlots == 1 .. 2
=============================================================================
