SPECIFICATION Spec
CONSTANTS
    Configs <- MCConfigs
    Unreadable <- MCUnreadable
    Overrides = {"", "B"}
    Unresolvable = {"nowhere"}
    Reactions <- MCReactions
INVARIANTS
    VerdictExplained
    
    ExitTells
