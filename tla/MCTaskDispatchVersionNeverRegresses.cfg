SPECIFICATION Spec
CONSTANTS
    t1 = t1  t2 = t2
    Tasks = {t1, t2}
    Topics = {"Created", "Updated", "Cancelled"}
    Log <- MCLog
    MaxFailures = 1
    MaxRestarts = 1
    NoRow = NoRow  NoOperator = NoOperator
CHECK_DEADLOCK FALSE
PROPERTY VersionNeverRegresses
