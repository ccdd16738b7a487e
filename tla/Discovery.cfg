CONSTANTS
    Agents = {"claude", "codex", "copilot", "gemini", "opencode", "openhands", "cursor", "vscode", "positron", "openclaw", "cortex", "kimi", "amp", "zencoder", "pi", "iflow", "kiro", "kiro-ide", "hermes"}
    Homes <- MCHomes
    Unfit = {"bad"}
    Headless = {"plain"}
    Split = {}
    PartSession <- MCPartSession
    Digits = {"2026", "01", "02"}
    MaxTime = 3
    MaxFlushes = 1
SPECIFICATION Spec
INVARIANTS WaysAgree AnnouncedIsRead
PROPERTY EverySourceIsRead
CHECK_DEADLOCK FALSE
