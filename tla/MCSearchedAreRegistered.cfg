SPECIFICATION Spec
CONSTANTS
    Mail = {"m1", "m2"}
    Word = {"java", "sql", "dev", "qa"}
    Lower <- AllLower
    SkillLists <- PlainSkills
    JobLists <- PlainJobs
    MaxRequests = 3
    MaxFaults = 0
    Pattern <- Patterns
    KeyHits <- Keys
    MailHits <- Mails
    FullNameHits <- FullNames
    OneNameHits <- OneNames
    Place <- Places
    Votes <- SecondHasMore
    Query <- Queries
INVARIANT SearchedAreRegistered
