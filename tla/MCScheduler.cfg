\* Camera tasks may crash, at any time, or none does.
SPECIFICATION FairSpec
CONSTANT MaxCrash = 2
INVARIANTS TypeOK StalledByCrash
PROPERTIES TakesTurns EveryFeatureServed PhotoTaken
