----------------------------- MODULE MCSession ------------------------------
(***************************************************************************)
(* The instances of Session: an installation whose second process may be   *)
(* started with -c, and one process that may have a wrong password.        *)
(***************************************************************************)
EXTENDS Session, TLC

CONSTANTS c1, c2, alice, bob, ha, hb

TwoAccounts == {<<alice, ha>>, <<bob, hb>>}

OneAccount == {<<alice, ha>>}

NoOptions == c1 :> <<>>

NoneAndUsername == c1 :> <<>> @@ c2 :> <<<<"username", bob>>>>
=============================================================================
