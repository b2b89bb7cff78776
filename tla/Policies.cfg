CONSTANTS
    Creates = {c1, c2}
    Updates = {u1}
    Removals = {d1}
    Ids = {i1}
    Vaults = {v1}
    Keys = {k1}
    KeyOf <- OneKey
    Contents = {a, b}
    Parsable = {a}
    NoRow = NoRow
    Forged = Forged
SPECIFICATION Spec
INVARIANT TypeOK CreatedOnce UnrecordedHasCause
PROPERTY DeletionIsFinal
SYMMETRY Interchangeable
