CONSTANTS
    s1 = s1
    s2 = s2
    None = None
    Spaces = {s1, s2}
    Midnight <- MCMidnight
    Week = 2
    BaselineWeeks = 2
    Sigma = 2
    Histories <- MCHistories
    Payloads <- MCPayloads
    Exclusions <- MCExclusions
    Archivals <- MCArchivals
    Periods <- MCPeriods
    Scale = 840
    MaxIngests = 0
SPECIFICATION Spec
INVARIANTS
    ExcludedDaysDropped
