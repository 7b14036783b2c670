SPECIFICATION FairSpec
CONSTANTS
    Apps = {"pkce", "secret", "dance"}
    Handlers = {h1, h2, h3}
    Paths = {"login", "callback", "me", "home"}
    Code = {c1, c2}
    NoHandler = none
    NoCode = noCode
INVARIANTS
    StateSpentOnce
    StateHonoured
    SessionOfItsLogin
    CookieHonoured
PROPERTIES
    ServedWhileProviderSilent
    IssuesSingleUseStates
