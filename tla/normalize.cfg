SPECIFICATION Spec
CONSTANTS
    Letters <- MCLetters
    Number <- MCNumber
    Month <- MCMonth
    IsoTime <- MCIsoTime
    Wide = {}
    Addr <- MCAddr
    Now <- MCNow
    Instant <- MCInstant
    Styles <- MCStyles
    Setups <- MCSetups
    Default <- MCDefault
    Firewall <- MCFirewall
    KeyPairs <- MCKeyPairs
    Marks <- MCMarks
    MaxMarks = 2
    MaxInSetup = 2
INVARIANTS
    FieldsAreReadBack
    LabelsKeepTheirOrder
CHECK_DEADLOCK FALSE
