CONSTANTS
    Askers = {"web"}
    Buttons = {TRUE, FALSE}
    Prices = {100, 105}
    Trends = {"side", "down"}
    TakeProfit <- MCTakeProfit
    MaxLoss <- MCMaxLoss

SPECIFICATION FairSpec

INVARIANTS
    TypeOK
    OneAlertPerFetcher
    NewAnchorNotSilenced
    RangeEnclosesPrice

PROPERTY MailboxRests
