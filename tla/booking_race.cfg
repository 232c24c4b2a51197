CONSTANTS
    ada = ada
    bob = bob
    None = None
    Planners = {ada, bob}
    Offers <- MCOffers
    MaxDay = 4
    Week = 2
    Noons = {0, 1}
    Horizon = 4
    Closures = {1}
    MaxStamp = 2
SPECIFICATION Spec
INVARIANT NobodyTwice
