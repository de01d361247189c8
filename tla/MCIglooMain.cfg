SPECIFICATION ProgramSpec
CONSTANTS
    Unset = Unset
    NotUnicode = NotUnicode
    Absent = Absent
    Broken = Broken
    Malformed = Malformed
    NoConfig = NoConfig
    Blank = {"", " "}
    Trim <- TrimText
    Upper <- UpperText
    Csv <- SplitCsv
    Number <- NumberOf
    Identifiers = {"erp", "crm", "datafusion", "postgres"}
    ConnectionStrings = {"postgres://env", "postgres://other", "postgres://file", "postgres://flat"}
    SocketAddresses = {"localhost:5442", "localhost:1"}
    Usize = 2048
    Runs = {r1, r2}
    FirstRun = r1
    Pieces = 3
    Metrics = 2
    Connections = {c1}
    Launches <- AllLaunches
INVARIANTS
    ProgramTypeOK
    ConfigurationUsable
    OwnCredentials
    EnvironmentWins
    NoPanic
    ServersPoll
    ExitTellsWork
    SampleWhole
PROPERTY
    FailureExplained
CHECK_DEADLOCK FALSE
