SPECIFICATION Spec
CONSTANTS
    owner = owner
    ann = ann
    bob = bob
    i1 = i1
    i2 = i2
    c1 = c1
    c2 = c2
    NoOne = NoOne
    Users <- Everyone
    Owner = owner
    Invites <- TwoInvites
    InviteRole <- WriterAndReaderLinks
    MaxUses <- OneSeat
    Calls = {c1, c2}
    AdminRoles = {1}
CHECK_DEADLOCK FALSE
SYMMETRY Symmetry
INVARIANTS
    SeatsCounted
    SomebodyProceeds
PROPERTIES
    RevokedIsFinal
