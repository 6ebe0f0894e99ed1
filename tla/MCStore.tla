------------------------------ MODULE MCStore -------------------------------
(* A small instance of Store for TLC: d1/f1, d1/d2/f2, of whose name the    *)
(* other's is taken to be a beginning.                                      *)
EXTENDS Store

CONSTANTS d1, d2, f1, f2, t1, t2, r1, r2, u1

SmallPath == [x \in {d1, f1, d2, f2} |->
                CASE x = d1 -> <<>> [] x \in {d2, f1} -> <<d1>> [] OTHER -> <<d1, d2>>]

SmallList == [r \in Removal |-> IF r = r1 THEN <<f1, f2>> ELSE <<f2>>]

SmallTarget == [u \in Upload |-> f2]

SmallShortened == [f \in File |-> IF f = f2 THEN {f1} ELSE {}]
=============================================================================
