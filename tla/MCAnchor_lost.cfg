CONSTANTS
    Askers = {"web", "mqtt"}
    Buttons = {TRUE, FALSE}
    Prices = {100, 104}
    Trends = {"side"}
    TakeProfit <- MCTakeProfit
    MaxLoss <- MCMaxLoss

SPECIFICATION Spec

INVARIANT LastRequestIsTaken
