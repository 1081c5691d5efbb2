CONSTANTS
    N = 4
    Tabled = {2, 3, 4}
    Irreversible = {1}
    MaxFaults = 3
SPECIFICATION FairSpec
INVARIANTS AnswerIsTruthful WatermarkIsReal 
PROPERTY Converges
