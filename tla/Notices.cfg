SPECIFICATION NoticesSpec
CONSTANTS
    Senders = {"clerk"}
    Retrier = "retry"
    Reminder = "reminder"
    Notices = {1, 2}
    Expected = {"b1"}
    Templates <- DefaultTemplates
    Limit = 2
    MaxUpset = 1
INVARIANTS
    SentOnce
    CopiesBounded
    RemindedOnce
PROPERTY
    FailedIsRetried
CHECK_DEADLOCK FALSE
