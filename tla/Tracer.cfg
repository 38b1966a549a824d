SPECIFICATION Spec
CONSTANTS
    Programs <- MCPrograms
    Callbacks <- MCCallbacks
    Filters <- MCFilters
    Files <- MCFiles
    MaxCalls = 2
    MaxRestarts = 2
    Word = 4
    FilterRequests <- MCFilterRequests
    Names = {"a", "."}
    MaxPath = 4
    PATH_MAX = 12
    NAME_MAX = 4
    GuestPaths <- MCGuestPaths
    HostPaths <- MCHostPaths
    LookupPaths <- MCLookups
    MaxBindings = 2
    WordBytes = 2
    PageBytes = 4
    Pages = 2
    MaxBytes = 5
    MaxBuffers = 3
    BINPRM_BUF_SIZE = 8
    MAXSYMLINKS = 2
    MaxText = 6
    ProgramFiles = 3
    MaxHeaders = 3
    PAGE_SIZE = 4
    WORD_SIZE = 2
    SCRIPT_ALIGNMENT = 4
    EXEC_PIC_ADDRESS = 4
    INTERP_PIC_ADDRESS = 40
    MaxSegment = 5
    SunPath = 4
    SocketPaths <- MCSocketPaths
    Known = {1}
    SetSize = 3
    Texts = {"s", "t"}
    SizeOfText <- MCSizeOfText
    MaxArray = 3
    MaxEdits = 3
    HeapPage = 4
    IntSize = 32
    Top = 40
    BssEnd = 20
    Dirs <- MCDirs
    HostFiles <- MCHostFiles
    InitialPath <- MCInitialPath
    SystemPath <- MCSystemPath
    FirstEnvs <- MCFirstEnvs
    RootfsSize = 2
    PrefixSize = 4
    ARG_MAX = 20
    MaxExecs = 4
INVARIANTS TracedTypeOK RegistersKept ErrorIsResult NewProgramKnown CallsReported PathsExact BindingsExact MemoryExact ProgramFileExact ProgramLoaded NamesExact  ArrayPushed HeapHonest LinkerPaths
CHECK_DEADLOCK FALSE
