\* One application of each plugin; a count is followed up to two hits.
CONSTANTS
    Applications <- MCApplications
    Frozen <- MCFrozen
    MaxHits = 2
    Folded <- MCFolded
    IntOf <- MCIntOf
    FullMatches = {}
    RegexKeys = {"cmd-regex"}
    Floats = {"1.5"}
    Documents = {"{}"}
    Importable <- MCImportable
    Unloadable = {".Lost"}
    Builtins = {}
    Picky = {"lib.Picky"}
    Demanding = {"lib.Picky"}
    LongestSleep = 5
SPECIFICATION Spec
INVARIANTS
    TypeOK
    FaultsAsAsked
    LimitKept
    HitsAreFaults
    CallerSeesFault
PROPERTIES
    RefusedLeavesNoRule
    DestroyIsByName
