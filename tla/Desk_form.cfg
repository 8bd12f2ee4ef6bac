SPECIFICATION DeskSpec
CONSTANTS
    laptop = laptop
    Clones = {laptop}
    Knows = {laptop}
    Ways = {"merge", "offline"}
    MaxEdits = 1
    MaxCommits = 1
    desktop = desktop
    phone = phone
    Pages = {desktop, phone}
    Grids <- GridsMC
    Start <- StartMC
    Serial = TRUE
    Spaced = TRUE
    MaxThreads = 0
    MaxDrops = 1
    Projects <- Listed2
    Cockpit = "hub"
    CardsOf <- Cards2
    Ready <- Ready1
    Accounts <- Accounts2
    Models <- Models3
    Postures <- Postures2
    Recorded <- Recorded1
    MaxKeys = 8
INVARIANTS EnterFindsItsRow
CHECK_DEADLOCK FALSE
