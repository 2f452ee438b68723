SPECIFICATION MCSpec
CONSTANTS
    credential = credential
    bot = bot
    order = order
    i1 = i1
    i2 = i2
    h1 = h1
    h2 = h2
    null = null
    nothing = nothing
    binance = binance
    bybit = bybit
    candles = candles
    symbols = symbols
    price = price
    btc = btc
    Credentials <- OneCredential
    Bots <- OneBot
    Orders <- OneOrder
    Items <- TwoItems
    NoBot = null
    Nothing = nothing
    Handlers <- TwoHandlers
    Payloads <- SomePayloads
    MaxEvents = 2
    MaxFaults = 1
    Keys <- CacheKeys
    KindOf <- KindsOfKeys
    ExchangeOf <- Exchanges
    Binance = binance
    NoExchange = nothing
    Ttl <- TimesToLive
    MaxDelay = 1
    Queries <- SomeQueries
    Readers <- TwoHandlers
    MaxLost = 1
INVARIANTS
    KeysHold
    UpdatesAreWhole
    PushedIsRecorded
    BoundedStaleness
    SkippedHaveNoSource
PROPERTIES
    ShownAdvances
    SubscriberKeepsUp
    ImplementsSubscription
CHECK_DEADLOCK FALSE
