SPECIFICATION FairSpec
CONSTANTS
    udp = udp
    tcp = tcp
    brute = brute
    sudo = sudo
    k = k
    Thread = {udp, tcp}
    NoThread = NoThread
    Rule = {brute, sudo}
    Detections <- MCDetections
    Key = {k}
    DedupKey <- MCDedupKey
    DedupWindow = 1
    Word = 8
    NoTime = NoTime
    PipeSize = 1
    MaxEvents = 3
    MaxTime = 1
    MaxKills = 1
    MaxErrors = 1
INVARIANTS
    LossIsBounded
    CascadeDiesOut
    RepeatsHaveATwin
    SinksFollowDetection
PROPERTIES
    UndisturbedDelivery
    PipelineRecovers
CHECK_DEADLOCK FALSE
