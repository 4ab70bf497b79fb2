SPECIFICATION Spec
CONSTANTS
    MaxPayload <- MCMaxPayload
    Messages <- MCMessages
    Changes <- MCChanges
    Tails <- MCTails
INVARIANTS
    IntactArrives
    DamageIsRejected
    DamageMovesOnlyTheEnd
