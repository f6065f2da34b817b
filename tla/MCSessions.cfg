SPECIFICATION DemoSpec
CONSTANTS
    Mail = {"ana", "Ana"}
    Lower <- OneCapital
    Password = {p1}
    EmptyPassword = EmptyPassword
    NoPassword = NoPassword
    MaxIdle = 1
    Skews = {0, 1}
    MaxClock = 2
    MaxLogins = 2
    MaxId = 3
    DemoMail = "ana"
    DemoPassword = p1
CHECK_DEADLOCK FALSE
INVARIANTS DemoTypeOK SessionsKeepTheirUser IdleSessionsEnd TokensAreFresh
           DemoTokenOpensDemoUsers
