\* pthread_create may fail; nothing else is bounded.
CONSTANT CreateMayFail = TRUE
SPECIFICATION FairSpec
INVARIANTS
    IInv
    SlotExclusive
    NoUseAfterFree
PROPERTIES
    NoStrayWorker
    DestroyEnds
    OwnedRequestServed
