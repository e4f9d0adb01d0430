SPECIFICATION DashboardSpec
CONSTANTS
    p1 = p1
    p2 = p2
    Members = {"ann", "bob"}
    Procs = {p1, p2}
    Email <- MCEmail
    Scenarios <- MCScenarios
    Labels = {"coding", "writing"}
    RunLimit = 2
    BatchSize = 1
    DayLength = 2
    AnthropicCards <- MCAnthropicCards
    OpenAIRates <- MCOpenAIRates
    VertexRates <- MCVertexRates
    VolumeFloor = 4
    PageSize = 2
    Windows <- MCWindows
    UsageFilters <- MCUsageFilters
    Wire <- MCWire
INVARIANTS
    DashboardTypeOK
    PagesWhole
    ViewsAgree
    DirectorySound
PROPERTIES
    LinksKept
SYMMETRY DashboardSymmetry
CHECK_DEADLOCK FALSE
