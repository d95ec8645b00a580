SPECIFICATION Spec
CONSTANTS
    Requests = {r1, r2}
    Users <- MCUsers
    Players <- MCUsers
    Agents <- MCAgents
    Admins <- MCAdmins
    AgentOf <- MCAgentOf
    AdminOf <- MCAdminOf
    None = none
    Games <- MCGames
    OpensAt <- MCOpensAt
    ClosesAt <- MCClosesAt
    MinStake <- MCMinStake
    MaxStake <- MCMaxStake
    Types = {"OPEN_SINGLE"}
    Stakes = {1, 3}
    Families = {"SINGLE", "JODI"}
    Odds = {2, 3}
    Playing <- MCNoOverride
    Giving0 <- MCGiving
    Given0 <- MCGiven
    Opening <- MCOpening
    MaxPayout = 9
    Buffer = 2
    Timeout = 1
    Skew = 0
    Environment = {"crash"}
    CoreDeltas <- MCDeltas
    MaxClock = 0
    MaxSeq = 3
    PageSizes <- MCPageSizes
    MaxConns = 1
    r1 = r1
    r2 = r2
    p1 = p1
    p2 = p2
    staff = staff
    agent = agent
    boss = boss
    g1 = g1
SYMMETRY Symmetry
INVARIANTS
    TypeOK
    LedgerExplainsBalance
    StakeTakenOnce
    MainWalletFirst
    ViewsAgree
PROPERTIES
    AnswerIsBalance
    ImplementsBetBook
    PagesGrowAtTheTop
