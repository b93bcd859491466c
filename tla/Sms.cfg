SPECIFICATION FairSpec
CONSTANTS
    MO = MO
    MT = MT
    MaxRetr = 2
    Destroys = TRUE
    Environments <- Transactions
INVARIANTS NoUseAfterDestroy NeverHappens HonestReport DeliveredOnce
PROPERTIES EverySubmissionReported TransactionsEnd
CHECK_DEADLOCK FALSE
