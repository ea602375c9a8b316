SPECIFICATION OrderedSpec
CONSTANTS
    Conn <- ThreeConns
    Handler = {h1}
    Stamp = {s1}
    UIDLimit = 2
    None = None
INVARIANTS GwSafe RegistryExact KickedSilent
PROPERTIES DirectorySafety AgentSafety Finalized Announced
CHECK_DEADLOCK FALSE
