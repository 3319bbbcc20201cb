SPECIFICATION Spec
CONSTANTS
    Builds = {"amd64", "amd64simd", "arm64", "generic"}
    Processors <- MCProcessors
INVARIANTS
    TypeOK
    PanicsOnlyOnBadForce
    CompleteHostsNeverFault
