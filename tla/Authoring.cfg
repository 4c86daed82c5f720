SPECIFICATION Spec
CONSTANTS
    NoFile = NoFile
    ann = ann
    bob = bob
    AllowedHosts = {"localhost"}
    AllowedActions = {"click", "type", "extract"}
    RiskyNames = {"confirm"}
    AllowedRoutes <- MCAllowed
    DeniedRoutes <- MCDenied
    Controls = {"confirm", "confirm now"}
    Buttons = {"confirm"}
    Irreversible = {"confirm", "confirm now"}
    Actions = {"click", "extract", "submit"}
    Names = {"balance"}
    Pages <- MCPages
    Redirects <- MCRedirects
    ErrorPage <- MCErrorPage
    Operators = {"cat"}
    People = {ann, bob}
    Blank = ""
    Files <- MCFiles
    Bindings <- MCBindings
    MaxSteps = 2
    MaxStuck = 1
    MaxDiscoveries = 1
INVARIANT
    RunsAsApproved
    MisjudgedOnlyByHand
    
    FixNamesTheFile
SYMMETRY Symmetry
\* Nothing is left to do once the discoveries are used up.
CHECK_DEADLOCK FALSE
