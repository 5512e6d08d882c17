SPECIFICATION Spec
CONSTANTS
    Cases = {c1, c2}
    Attempts = {a1, a2, a3}
    Nobody = Nobody
    AsyncDraft = TRUE
SYMMETRY MCSymmetry
INVARIANTS
    TypeOK
    ShowsOwnVerdict
    RefusedForGood
PROPERTIES
    ImplementsLedger
