CONSTANTS
    ada = ada
    bob = bob
    None = None
    Planners = {ada, bob}
    Offers <- MCOffers
    MaxDay = 4
    Week = 2
    Noons = {0, 1}
    Horizon = 1
    Closures = {1}
    MaxStamp = 2
SYMMETRY PlannerSymmetry
SPECIFICATION Spec
INVARIANTS
    TypeOK
    NoDoubleBooking
    GridAgrees
PROPERTY BookedSlotKept
