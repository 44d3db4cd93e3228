\* The comment on the loop, which a crash of a camera task refutes.
SPECIFICATION FairSpec
CONSTANT MaxCrash = 1
PROPERTY KeepsScheduling
