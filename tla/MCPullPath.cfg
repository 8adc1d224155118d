\* An instant is five minutes: ticketTTL 5, the minter's ttl 10, rank 5, converse 15.
CONSTANTS
    j1 = j1
    j2 = j2
    u1 = u1
    u2 = u2
    Job = {j1, j2}
    ExchangeJob = exch
    User = {u1, u2}
    Type = {"rank", "converse"}
    TypeOf <- MCTypeOf
    UserOf <- MCUserOf
    DefaultDeadline = 1
    RankDeadline = 1
    ConverseDeadline = 3
    NoToken = NoToken
    ExchangedTypes = {"rank"}
    TicketTTL = 1
    TokenTTL = 2
    MaxTime = 3
    MaxCalls = 2
SPECIFICATION Spec
INVARIANTS TypeOK RunsOnce TokenWindow LiveTokensValid
PROPERTIES SuccessIsReported ContractKept
\* Every job may be settled and the clock at its bound.
CHECK_DEADLOCK FALSE
