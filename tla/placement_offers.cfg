SPECIFICATION Spec
CONSTANTS
    Requests = {r1}
    Users <- MCStaff
    Players <- MCUsers
    Agents <- MCAgents
    Admins <- MCAdmins
    AgentOf <- MCAgentless
    AdminOf <- MCAdminOf
    None = none
    Games <- MCGames
    OpensAt <- MCOpensAt
    ClosesAt <- MCClosesAt
    MinStake <- MCMinStake
    MaxStake <- MCMaxStake
    Types = {"OPEN_SINGLE", "CLOSE_SINGLE", "JODI", "UNKNOWN"}
    Stakes = {0, 3, 4, 5}
    Families = {"SINGLE", "JODI"}
    Odds = {2, 3}
    Playing <- MCOwnRate
    Giving0 <- MCGiving
    Given0 <- MCGiven
    Opening <- MCOpening
    MaxPayout = 9
    Buffer = 2
    Timeout = 1
    Skew = 1
    Environment = {"results", "cancel", "status", "enablement", "rates"}
    CoreDeltas <- MCNoDeltas
    MaxClock = 3
    MaxSeq = 0
    PageSizes = {}
    MaxConns = 1
    r1 = r1
    p1 = p1
    p2 = p2
    staff = staff
    agent = agent
    boss = boss
    g1 = g1
CONSTRAINT RatesOrClosings
INVARIANTS
    StaleReadsAreBounded
    ResultsCloseTheirSide
    StrandedOnlyEarly
    NoLateBet
    EachPayoutFits
PROPERTIES
    OfferedBetsGoOn
    OddsAreEffective
    CardIsHonest
