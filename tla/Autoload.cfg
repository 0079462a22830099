SPECIFICATION SpecAutoload
INVARIANT HookTypeOK
INVARIANT IndexExact
PROPERTY ReadsLoadedCode
PROPERTY NoCallTwice
PROPERTY DispatchReturns
PROPERTY NoticedIsLoaded
CONSTANTS
    r1 = r1
    Plugins <- MCPlugins
    Directory <- MCDirectory
    Registers <- MCRegisters
    MayFail <- MCMayFail
    Broken <- MCBroken
    Autoload = "autoload"
    Callbacks <- MCCallbacks
    Names <- MCNames
    Event <- MCEvent
    Priority <- MCPriority
    Owner <- MCOwner
    Results <- MCResults
    Raises <- MCRaises
    Roots <- MCRoots
    Executed = "executed"
    Readers <- OneReader
    Loader = Loader
    MaxReloads = 2
    None = None
    Written <- MCWritten
    Directories = {"dir"}
CHECK_DEADLOCK FALSE
