SPECIFICATION FairSpec
CONSTANTS
    Shell = {s1, s2, s3}
    MaxRestarts = 2
    MaxKills = 1
INVARIANT CountFollowsShells
PROPERTY StreamingResumes
CHECK_DEADLOCK FALSE
