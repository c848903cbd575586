SPECIFICATION Spec
CONSTANTS
    t1 = t1
    t2 = t2
    u1 = u1
    u2 = u2
    Nobody = Nobody
    Tabs = {t1, t2}
    Users = {u1, u2}
    Before = {u1, Nobody}
    Budgets <- MCBudgets
INVARIANTS
    ShownIsActing
    FeedIsToken
    QueueDrained
PROPERTIES
    ActsForItsOwn
    FeedComesBack
CHECK_DEADLOCK FALSE
