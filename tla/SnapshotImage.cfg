CONSTANTS
    OutputLimit = 4
    Users = {u1}
    MaxLeft = 1
SPECIFICATION SourcesSpec
PROPERTY PrintedIsAnswered
