--------------------------- MODULE MCSharedQueue ----------------------------
(* Small instances of SharedQueue for TLC. *)
EXTENDS SharedQueue

CONSTANTS s1, s2, s3, s4

ThreeSippers == {s1, s2, s3}
FourSippers == {s1, s2, s3, s4}
NoSipper == {}
OneSilent == {s1}
=============================================================================
