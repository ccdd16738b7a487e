SPECIFICATION DashboardSpec
CONSTANTS
    HourLength = 12
    Pad = 14
    NoKey = 0
    MaxHeatmapDays = 3
    ScanLimit = 3
    pgScanLimit = 4
    TopCount = 2
    MaxTrendTerms = 12
    MaxTrendTermVariants = 8
    Blanks = {" "}
    Now = 22528
    Claude = 1
    Rates <- MCRates
    SessionIds <- MCSessionIds
    Parsed <- MCParsed
    Queries <- MCQueries
    Terms <- MCTerms
INVARIANTS
    PanelsCoverTheWindow
    UsageIsBilledOnce
    StoresAgree
    ReportsAreComplete
