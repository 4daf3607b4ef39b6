SPECIFICATION Spec
CONSTANTS
    Alphabet <- MCAlphabet
    Scalars <- MCScalars
    Names <- MCNames
    MaxSteps = 2
    Leaves <- MCLeaves
    MaxLeaves = 4
    Servers <- MCServers
    Segments <- MCSegments
    MaxSegments = 5
    Configs <- MCConfigs
    StoreKeys <- MCStoreKeys
    Uuids <- MCUuids
    MaxOps = 3
    ScriptPaths <- MCScriptPaths
    Threads = {t1, t2}
    MaxSequence = 6
    Prices = {1, 2}
    Directives <- MCDirectives
    Exchanges <- MCExchanges
INVARIANTS
    ValuesKeep
    RemoteCallsAgree
    RequestsFind
    TablesKeep
    ItemsKeep
    LanguagesCallAlike
    ProcessesKeep
\* Inputs of full size are not built further.
CHECK_DEADLOCK FALSE
