SPECIFICATION Spec
CONSTANTS
    Imports <- MCImports
    TailnetPeers <- MCTailnetPeers
    Hosts <- MCHosts
    Atoi <- MCAtoi
    Itoa <- MCItoa
    Services <- MCServices
    AddrsOf <- MCAddrsOf
    Sources <- MCReadme
    Infos <- MCNoInfos
INVARIANTS
    ExamplesLoad
CHECK_DEADLOCK FALSE
