\* The administrator's challenges, in minutes, and a job that is never late.
SPECIFICATION ChFairSpec
CONSTANTS
    Client = {admin}
    Lifetime <- Seeded
    Period = 5
    MaxLate = 0
PROPERTIES
    ChallengeRenewed
