SPECIFICATION Spec
CONSTANTS
    Imports <- MCImports
    TailnetPeers <- MCTailnetPeers
    Hosts <- MCHosts
    Atoi <- MCAtoi
    Itoa <- MCItoa
    Services <- MCServices
    AddrsOf <- MCAddrsOf
    Sources <- MCSources
    Infos <- MCInfos
INVARIANTS
    TypeOK
    NoClashAfterValidation
    SandboxFitsConfig
    NothingDropped
    LayoutIrrelevant
    ImportKeepsIdentity
    RoutedAsConfigured
    
    FamilyAsConfigured
\* A rejected configuration, or one that is up, makes no further step.
CHECK_DEADLOCK FALSE
