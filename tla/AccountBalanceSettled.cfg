SPECIFICATION Spec
CONSTANTS
    pay = pay
    rival = rival
    spend = spend
    dust = dust
    reward = reward
    x = x
    a = a
    b = b
    c = c
    d = d
    r = r
    Tx = {pay, rival, spend, dust, reward}
    Output = {x, a, b, c, d, r}
    Mine = {a, b, c, d, r}
    Creates <- TxCreates
    Spends <- TxSpends
    Amount <- OutputAmount
    Nonfinal = {dust}
    Coinbase <- RewardHeight
    Maturity = 1
    MaxHeight = 2
INVARIANT TypeOK
INVARIANT SettledBalance
INVARIANT SpentIsNotCounted
INVARIANT InvalidHasCause
INVARIANT ConfirmedIsCounted
PROPERTY ConfirmedCreditsStay
PROPERTY RemovesDependents
