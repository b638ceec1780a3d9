---------------------------- MODULE MCDatabaseStart ---------------------------
(* Instances of DatabaseStart, and with it of SmtpSettings, for TLC.         *)
EXTENDS DatabaseStart, TLC

Symmetry == Permutations(Admin) \cup Permutations(Web) \cup Permutations(Pair)
===============================================================================
