------------------------------ MODULE MCLogStore ------------------------------
(* LogStore for TLC; the constants are in MCLogStore.cfg.                    *)
EXTENDS LogStore

===============================================================================
