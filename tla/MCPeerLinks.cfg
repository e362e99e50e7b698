\* Three nodes that come to know each other, or two with faults between them.
SPECIFICATION FairLinksSpec
CONSTANTS
    Nodes <- MCNodes
    Conns <- MCConns
    Bootstrap <- MCBootstrap
    Networks <- MCNetworks
    FAULTS = 1
    MORE_FAULTS = 3
    MAX_PEERS = 2
INVARIANTS
    QuietLinksAgree
PROPERTIES
    MeshForms
CHECK_DEADLOCK FALSE
