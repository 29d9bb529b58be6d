\* One edit and any two of: a binding change, a refresh, a discovery cycle, two presets, a throwing call.
CONSTANTS
    Bindings = {b1, b2}
    Configs = {on, off}
    Off = off
    None = None
    Endpoints = {e1}
    Static = static
    MaxEdits = 1
    MaxKinds = 2
    Limit <- EveryKind
SPECIFICATION FairSpec
CHECK_DEADLOCK FALSE
INVARIANTS SnapshotNotBehindRoutes
PROPERTIES CompletedMutationVisible MutationEnds
