SPECIFICATION Spec
CONSTANTS
    None = None
    MinSats = 2
    MaxSats = 20
    ThresholdChangeBlock = 5
    EarlyThreshold = 3
    LateThreshold = 2
    EnoughAddresses = 2
    AllowedAddressTypes = {"WITNESS"}
    ExcludedValues = {4}
    WindowCoinjoins = 1
    LargeShare <- MCLargeShare
    ParseabilityInputs = 2
    ImageComponents = {"blocksci"}
    TipMargin = 1
    Host = {1, 2, 3}
    MaxKills = 1
    PbsIds = {1, 2, 9}
    Lines = 2
    Replay = 1
    IdlePolls = 2
INVARIANTS DetectorsAgree LiquidityAddsUp ReportIsSound InputsArePresent OptionsAreSound FolderHolds WatchHolds
PROPERTIES ProvenanceKept WatchReturns
CHECK_DEADLOCK FALSE
