\* Two places for the worker's requests, one local client, jobs that are tried
\* twice. An error pauses the worker, an accepted answer takes a pause back, two
\* pauses end it. It may stop then.
CONSTANTS
    Jobs = {j1, j2}
    Posts = {p1, p2}
    Locals = {c1}
    ExitLimit = 2
    Closing = 9
    PunishLimit = 1
    RewardLimit = 0
    Tries = 1
    NoJob = NoJob
    NoPost = NoPost
    Nobody = Nobody
SPECIFICATION FairSpec
INVARIANTS TypeOK AnswersItsJob StopsOnErrors
PROPERTIES JobEnds EndsWithoutCluster
CHECK_DEADLOCK FALSE
