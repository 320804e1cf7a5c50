SPECIFICATION Spec
CONSTANTS
    Null = Null
    Character <- MCCharacter
    Argvs <- MCArgvs
    Envs <- MCEnvs
    CmdIds <- MCCmdIds
    Classes <- MCClasses
    Errors <- MCErrors
    Environs <- MCEnvirons
    ClassLists <- MCClassLists
    OwnClass <- MCOwnClass
    Path <- MCPath
INVARIANTS ArgvAsQueued  NotifiedCmdIsMeant ChangeIsHeard 
CHECK_DEADLOCK FALSE
