SPECIFICATION Spec
CONSTANTS
    None = None
    Number <- MCNumber
    Runs <- MCRuns
    DefaultNs = "cfd"
    Sources <- MCSources
    Page <- MCPage
    Menus <- MCMenus
    ConfigMaps <- MCConfigMaps
INVARIANTS
    TypeOK
    ParsersReadTheForm
PROPERTIES
    ImplementsRuleBook
