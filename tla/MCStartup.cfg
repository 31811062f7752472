CONSTANTS
    Launches <- MCLaunches
    Files <- MCFiles
    Poor = {"short"}
    ShortPasswords = {"pw"}
    ConnectAttempts = 2
    Request = {r1, r2}
SPECIFICATION Spec
INVARIANTS TypeOK ProductionSecrets
PROPERTIES EndsAfterThreeRetries LaunchSettles ServesWithoutRedis CommandsSettle
