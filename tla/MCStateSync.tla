------------------------------ MODULE MCStateSync ------------------------------
(***************************************************************************)
(* StateSync for TLC.  Contract 1 is a local one, contract 2 is escrowed;    *)
(* the escrowed slots start with the word 1.                                 *)
(***************************************************************************)
EXTENDS StateSync

OneContract == [c \in {1} |-> "SOLIDITY"]
OneLocal    == [c \in {1, 2} |-> IF c = 1 THEN "BASIC" ELSE "SOLIDITY"]

SyncInit == Init /\ onchain = [s \in Slots |-> 1]

SyncSpec == SyncInit /\ [][Next]_vars /\ Fairness
===============================================================================
