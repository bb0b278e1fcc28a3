\* The promise of c64_schedule_retry's comment.
CONSTANT CreateMayFail = FALSE
SPECIFICATION FairSpec
PROPERTY SettingsChangeServed
