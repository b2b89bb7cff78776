CONSTANTS
    Creates = {c1}
    Updates = {u1}
    Removals = {d1}
    Proposals = {q1}
    Ids = {i1}
    Vaults = {v1, v2, v3}
    Keys = {k1, k2}
    v1 = v1
    v2 = v2
    v3 = v3
    k1 = k1
    k2 = k2
    KeyOf <- TwoOwners
    Contents = {a, b}
    Parsable = {a}
    NoRow = NoRow
    Forged = Forged
SPECIFICATION ProposalsSpec
INVARIANT ProposalTypeOK ContentIsSigned DeletionWasSigned ProposalHasConsent
PROPERTY BookSpec
