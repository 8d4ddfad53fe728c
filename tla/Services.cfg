SPECIFICATION Spec
CONSTANT None = None
INVARIANTS
    LoadsWhatWasStored LinesArriveWhole  AnswersAreOwn
    ReportedIsConfirmed SubAccountsAreServed TransactionBalances
    PairedIsConfirmed 
CHECK_DEADLOCK FALSE
