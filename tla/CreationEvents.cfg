CONSTANTS
    Creates = {c1}
    Updates = {}
    Removals = {}
    Ids = {i1}
    Vaults = {v1}
    Keys = {k1}
    KeyOf <- OneKey
    Contents = {a, b}
    Parsable = {a}
    NoRow = NoRow
    Forged = Forged
SPECIFICATION Spec
INVARIANT CreationIsRecorded
