CONSTANTS
    Thread = {t1, t2}
    Handle = {h1}
    Awake = Awake
    MaxTime = 2
    MaxWakeUps = 1
SPECIFICATION SleepSpec
PROPERTY StaleTimerIsSkipped
CHECK_DEADLOCK FALSE
