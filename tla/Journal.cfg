\* Crashes, torn lines and write errors, under the fairness of the event loop.
SPECIFICATION FairSpec
CONSTANTS
    Facts = {f1, f2}
    Torn = Torn
    MaxSeq = 5
    MaxFailures = 1
    MaxCrashes = 2
PROPERTIES
    ResumeNeverSkips
    AppendsSettle
    
