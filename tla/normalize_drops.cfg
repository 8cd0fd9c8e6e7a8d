SPECIFICATION Spec
CONSTANTS
    Letters <- MCLetters
    Number <- MCNumber
    Month <- MCMonth
    IsoTime <- MCIsoTime
    Wide <- MCWide
    Addr <- MCAddr
    Now <- MCNow
    Instant <- MCInstant
    Styles <- MCProse
    Setups <- MCSetups
    Default <- MCDefault
    Firewall <- MCFirewall
    KeyPairs <- MCKeyPairs
    Marks <- MCProseMarks
    MaxMarks = 3
    MaxInSetup = 2
INVARIANT NothingIsDropped
CHECK_DEADLOCK FALSE
