SPECIFICATION FairTranscodeSpec
CONSTANTS
    Players = {p1}
    MaxJobs = 2
    MaxPolls = 2
    MaxResumes = 1
PROPERTY
    LeftJobsEnd
CHECK_DEADLOCK FALSE
