CONSTANTS
    NoVal = NoValue
    NoValue = NoValue
    Keys <- MCKeys
    Confs <- MCConfs
    CpSplit <- MCCpSplit
    ParseInt <- MCParseInt
    TempJar = TempJar
    TempJni = TempJni
    ConfArgs <- MCConfArgs
    ConfJProps <- MCConfJProps
    Tpl <- MCTpl
    ExePath <- MCExePath
    ExpandEnv <- MCExpandEnv
    KeyLen <- MCKeyLen
    ValLen <- MCValLen
    Tokens <- MCTokens
    ArgLists <- MCArgLists
    MaxCalls = 3
    FS <- MCFS
    VmParamWords <- MCVmParamWords
    DashName <- MCDashName
    ZipPattern = {"src.zip", "classes.zip", "x.zip"}
    JarPattern = {"tools.jar", "rt.jar", "a.jar"}
SPECIFICATION Spec
INVARIANTS TypeOK ArgumentsForwarded OverridesApplied ClasspathResolved CommandCarriesStore
CHECK_DEADLOCK FALSE
