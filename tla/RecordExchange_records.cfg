CONSTANTS
    U32 = 2
    Reasons <- GivenReasons
    SignableRecords <- Variations
    Devices <- TwoDevices
    MaxReaders = 2
SPECIFICATION Spec
INVARIANTS
    LoadedIsWhatWasSigned
    TornFileIsRefused
    OpensForItsReaders
    SignatureBindsTheRecord
    RelayVerifiesWhatWasSigned
    RelayReadsTheFile
CHECK_DEADLOCK FALSE
