CONSTANTS
    Commitments = {p, q, r, s, t, u, bad}
    WellFormed = {p, q, r, s, t, u}
SPECIFICATION UtxoSpec
INVARIANTS CommitmentSumExact ProjectionExact
