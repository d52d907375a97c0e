SPECIFICATION Spec
CONSTANTS
    None = None
    Number <- MCNumber
    Runs <- ShownRuns
    DefaultNs = "cfd"
    Sources <- ShownSources
    Page <- ShownPage
    Menus <- ShownMenus
    ConfigMaps <- ShownConfigMaps
INVARIANTS
    OneShownIngressIsServed
