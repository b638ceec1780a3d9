\* Two requests at once, two rules that a file may bring together, three edits.
CONSTANTS
    Admin = {a1, a2}
    Forms <- MCForms
    None = None
    MaxSources = 2
    MaxRules = 2
    MaxVersions = 3
    MaxImport = 2
SPECIFICATION Spec
SYMMETRY Symmetry
INVARIANTS
    SourceOfRuleExists
    VersionsHaveNoGaps
    UnmixedRulesAreSendable
PROPERTIES
    EditsAreTold
    ArchivalIsFinal
