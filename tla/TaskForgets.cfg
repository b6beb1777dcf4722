SPECIFICATION Spec
CONSTANTS
    Tasks = {t1, t2}
    Others = {o1}
    Logged = {t1, o1}
    Casts = {{t1}}
    Lulls = {{t1}}
    MaxEndedTasks = 1
PROPERTY
    KeepsOutcome
CHECK_DEADLOCK FALSE
