SPECIFICATION Spec
CONSTANTS
    v1 = v1
    v2 = v2
    v3 = v3
    Validators = {v1, v2, v3}
    Honest = {v3}
    Nodes = {stays, restarts}
    Votes <- MCVotes
    ZeroHash = "zero"
    Nobody = Nobody
    Powers <- MCPowers
    JailTime = 3
    DelegationDelay = 1
    MaxBlock = 5
    MaxCalls = 3
SYMMETRY NodeSymmetry
INVARIANTS
    JailedOnlyByProof
    EligibleVotesExact
    NodesAgreeOnJail
CHECK_DEADLOCK FALSE
