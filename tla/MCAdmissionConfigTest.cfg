SPECIFICATION Spec
CONSTANTS
    Imports <- MCImports
    TailnetPeers <- MCTailnetPeers
    Hosts <- MCHosts
    Atoi <- MCAtoi
    Itoa <- MCItoa
    Services <- MCServices
    AddrsOf <- MCAddrsOf
    Sources <- MCTargetSources
    Infos <- MCNoInfos
INVARIANTS
    ConfigTestSettles
CHECK_DEADLOCK FALSE
