\* Overlapping edits of one rule by forms that each pass validation.
CONSTANTS
    Admin = {a1, a2}
    Forms <- MixForms
    None = None
    MaxSources = 1
    MaxRules = 1
    MaxVersions = 2
    MaxImport = 1
SPECIFICATION Spec
INVARIANTS
    StoredRulesAreSendable
