SPECIFICATION Spec
PROPERTY FeaturesStay
CONSTANTS
    r1 = r1
    Plugins <- MCPlugins
    Directory <- MCDirectory
    Registers <- MCRegisters
    MayFail <- MCMayFail
    Broken = {}
    Autoload = "autoload"
    Callbacks <- MCCallbacks
    Names <- MCNames
    Event <- MCEvent
    Priority <- MCPriority
    Owner <- MCOwner
    Results <- MCResults
    Raises <- MCRaises
    Roots <- MCRoots
    Executed = "executed"
    Readers <- OneReader
    Loader = Loader
    MaxReloads = 0
    None = None
CHECK_DEADLOCK FALSE
