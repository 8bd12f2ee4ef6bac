SPECIFICATION DeskSpec
CONSTANTS
    laptop = laptop
    Clones = {laptop}
    Knows = {laptop}
    Ways = {"merge", "offline"}
    MaxEdits = 2
    MaxCommits = 4
    desktop = desktop
    phone = phone
    Pages = {desktop, phone}
    Grids <- GridsMC
    Start <- StartMC
    Serial = TRUE
    Spaced = TRUE
    MaxThreads = 5
    MaxDrops = 1
    Projects <- Listed2
    Cockpit = "hub"
    CardsOf <- Cards2
    Ready <- Ready1
    Accounts <- Accounts2
    Models <- Models0
    Postures <- Postures2
    Recorded <- Recorded1
    MaxKeys = 9
INVARIANTS MainIsReviewed  FreshIsShared GridFitsViewers 
CHECK_DEADLOCK FALSE
