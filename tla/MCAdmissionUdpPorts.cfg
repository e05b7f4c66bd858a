SPECIFICATION Spec
CONSTANTS
    Imports <- MCImports
    TailnetPeers <- MCTailnetPeers
    Hosts <- MCHosts
    Atoi <- MCAtoi
    Itoa <- MCItoa
    Services <- MCServices
    AddrsOf <- MCAddrsOf
    Sources <- MCUdpSources
    Infos <- MCNoInfos
INVARIANTS
    NoClashAfterValidation
CHECK_DEADLOCK FALSE
