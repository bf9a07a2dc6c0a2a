\* Requirements and properties under two requests.
CONSTANTS
    Null = Null
    mty = mty
    spgg = spgg
    centro = centro
    valle = valle
    house = house
    flat = flat
    pool = pool
    gym = gym
    mxn = mxn
    usd = usd
    Features = {pool, gym}
    Types = {house, flat}
    Currencies = {mxn, usd}
    Cities = {mty, spgg}
    Neighborhoods = {centro, valle}
    Places <- MCPlaces
    StartRequirements <- MCStartRequirements
    StartProperties <- MCStartProperties
    RequirementPatches <- MCRequirementPatches
    PropertyPatches <- MCPropertyPatches
    Edits = {r1, r2}
SYMMETRY Symmetry
CHECK_DEADLOCK FALSE
SPECIFICATION MatchingSpec
INVARIANTS
    MatchIsFound
    FoundIsRuledOutKnowingly
