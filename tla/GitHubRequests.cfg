\* Two requests of one installation and one of another, of which only one
\* can keep its token and only one its cooldown.
CONSTANTS
    Installation = {i1, i2}
    Lifetime = 3
    Skew = 2
    MintTimeout = 1
    MaxTokens = 1
    MaxMints = 3
    None = None
    Request = {r1, r2, r3}
    InstallationOf <- OneElsewhere
    RequestTimeout = 2
    TransientCooldown = 2
    Cooldowns = {2}
    MaxCooldowns = 1
    MaxTime = 3
SPECIFICATION FairSpec
INVARIANTS
    OneAtATime
    TokensAreGood
PROPERTIES
    CooldownsHold
    RequestsEnd
