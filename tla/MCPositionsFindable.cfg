SPECIFICATION Spec
CONSTANTS
    Mail = {"m1", "m2"}
    Word = {"java", "sql", "dev", "Dev"}
    Lower <- CapitalLower
    SkillLists <- PlainSkills
    JobLists <- CapitalJobs
    MaxRequests = 3
    MaxFaults = 0
    Pattern <- Patterns
    KeyHits <- Keys
    MailHits <- Mails
    FullNameHits <- FullNames
    OneNameHits <- OneNames
    Place <- Places
    Votes <- SecondHasMore
    Query <- Queries
INVARIANT PositionsFindable
