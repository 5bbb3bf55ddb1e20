CONSTANTS
    LittleEndian = TRUE
    IdModulus = 8
    LongModulus = 32
    IPv4Inputs <- MCIPv4Inputs
    IPv6Inputs <- MCIPv6Inputs
    TextInputs <- MCTextInputs
    Hosts <- MCHosts
    ScopeTexts <- MCScopeTexts
    KernelTables <- MCKernelTables
    MacTexts <- MCMacTexts
    MacData <- MCMacData
    FlagWords <- MCFlagWords
    FlagConstants <- MCFlagConstants
    Platforms <- MCPlatforms
    Installations <- MCInstallations
    AddressLists <- MCAddressLists
SPECIFICATION Spec
INVARIANTS AddressesAsDocumented TextSurvives ScopeTravels TextDenotesAddress MacTextsAgree PrefixLengthsKept FlagsReported BestLibraryLoaded IteratesInOrder
PROPERTY IterationEnds
