SPECIFICATION Spec
CONSTANTS
    Accounts = {"a", "b"}
    Span = 2
    MaxPeriod = 4
    MaxHeight = 4
    DIV = 10
    Proposals = {"p"}
    Deposits = {1, 2}
    VoteBalances = {4, 5}
    LockAmounts = {8}
    UserFunds = 20
    Delays = {0}
    EnactmentPeriod = 2
    VotingPeriod = 3
    FastTrackVotingPeriod = 1
    LaunchPeriod = 2
    MinimumDeposit = 1
    MaxVotes = 1
    MaxProposals = 2
    MaxDeposits = 2
    TimeSteps = {1, 5}
    Treasury = 1
    MaxCandidates = 2
    MinCandidates = 1
    MaxInvulnerables = 1
    KickThreshold = 1
    ExistentialDeposit = 1
    SessionPeriod = 2
    Bonds = {1, 2}
    DesiredCounts = {2}
    Pot = 3
    Authors = {"a"}
    MaxCalls = 4
INVARIANTS VotesHeldOnce
PROPERTIES ReferendaInOrder MinimumOfCandidates
CHECK_DEADLOCK FALSE
