CONSTANTS
    Askers = {"web"}
    Buttons = {TRUE}
    Prices = {100, 105}
    Trends = {"side"}
    TakeProfit <- MCTakeProfit
    MaxLoss <- MCMaxLoss

SPECIFICATION Spec

INVARIANT OneAlertPerAnchor
