SPECIFICATION Spec
CONSTANTS
    u1 = u1
    u2 = u2
    Users = {u1, u2}
    MaxDocs = 1
    MaxTasks = 2
    MaxRounds = 1
    Budgets <- OneJoin
INVARIANT SeesEveryChange
CHECK_DEADLOCK FALSE
