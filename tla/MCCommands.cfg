SPECIFICATION Spec
CONSTANTS
    Modules = {"pass", "ts6init", "nick", "module", "other", "extra"}
    Core = {"pass", "ts6init", "nick", "module"}
    Manager = "module"
    Alias = "extra"
    Table <- MCTable
    Info <- MCInfo
    Aliases = {"alias"}
    FloodTokens = 2
    RefillPeriod = 2
    Wrap = 8
    MaxNow = 2
    None = None
INVARIANTS
    TypeOK RegistrySound NoRepeatAbort
PROPERTIES
    OthersStay
