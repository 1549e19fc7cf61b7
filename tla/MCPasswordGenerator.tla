------------------------- MODULE MCPasswordGenerator -------------------------
(* The values TLC gives the constants of PasswordGenerator: one category of  *)
(* one character, so that only the lengths matter.                            *)
EXTENDS PasswordGenerator

CONSTANT a

OneAlphabet == <<<<a>>>>
=============================================================================
