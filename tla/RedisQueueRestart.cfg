CONSTANTS
    Tasks = {t1, t2}
    Replicas = {r1, r2}
    Workers = {w1}
    NoTask = NoTask
    MaxLen = 2
    MaxRetries = 2
    MaxRedisFaults = 0
    MaxStops = 1
SPECIFICATION RedisSpec
INVARIANTS SurvivesRestart
CHECK_DEADLOCK FALSE
