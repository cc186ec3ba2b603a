------------------------------ MODULE MCAppSync ------------------------------
(* Instances of AppSync for TLC.                                           *)
EXTENDS AppSync, TLC

CONSTANTS a, b, c

(* Names are compared exactly; or c is a with other letter case.           *)
ExactFold == [n \in Names |-> n]
CaseFold  == [n \in Names |-> IF n = c THEN a ELSE n]

SeedA  == (a :> 1)
=============================================================================
