---------------------------- MODULE MCRuleExecution ----------------------------
(* An instance of RuleExecution for TLC; its constants are in the cfg.       *)
EXTENDS RuleExecution
================================================================================
