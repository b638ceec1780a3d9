---------------------------- MODULE MCRuleEditing ----------------------------
(* Instances of RuleEditing for TLC.                                         *)
EXTENDS RuleEditing, TLC

SubmittedForm(mode, dynamic, fixed, source) ==
    [mode |-> mode, dynamic |-> dynamic, fixed |-> fixed, enabled |-> fixed, source |-> source]

(* Two valid forms that differ in every column, and one that is refused.     *)
MCForms == {SubmittedForm("summary", FALSE, TRUE, 1),
            SubmittedForm("per_row", TRUE, FALSE, 2),
            SubmittedForm("summary", TRUE, TRUE, 1)}

(* Valid forms whose columns do not fit each other.                          *)
MixForms == {SubmittedForm("summary", FALSE, TRUE, 1),
             SubmittedForm("per_row", FALSE, TRUE, 1),
             SubmittedForm("per_row", TRUE, TRUE, 1)}

Symmetry == Permutations(Admin)
===============================================================================
