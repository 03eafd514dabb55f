CONSTANTS
    Codes = {0, 97, 255, 300}
    CodeLength = 3
    Chars <- SomeChars
    TextLength = 4
    Tags = {"iq", "body"}
    Texts <- SomeTexts
    AttrSets <- SomeAttrs
    ChainLength = 2
    Listeners = {"a", "b", "c"}
    Early = {"a"}
    Registers <- SomeRegisters
    Features = {"f"}
    MaxCalls = 3
    MaxAnswers = 2
    MaxEvents = 1
    MaxReads = 3
    MaxSize = 2
    MaxWrites = 2
    Keys = {"k", "l"}
    Values = {"v", "w"}
    MaxTxs = 3
    MaxQueries = 6
    Frequencies = {0, 1, 3}
    Margin = 1
    FirstTimeout = 3
    MaxWatches = 2
    MaxAsks = 3
    Given = {"a", "b"}
    MaxCallbacks = 2
    MaxHolds = 2
    MaxRequests = 2
    DataTypes = {"*", "json"}
    ContentTypes = {"unknown", "json"}
    MaxElems = 2
    MaxAnims = 2
    MaxPromises = 1
    MaxLooks = 1
    Hows <- SomeHows
    Depth = 3
    MaxBinds = 2
    Shapes <- SomeShapes
    Pages = {"first", "d"}
    Dialogs = {"d"}
    Loadable = {"f"}
    MaxMoves = 3
    Paths <- SomePaths
    Layouts <- SomeLayouts
    Places = {1}
    MaxGestures = 2
    CallbackIds = {"p1", "p2", "p3"}
    MaxBroadcasts = 2
SPECIFICATION Spec
CHECK_DEADLOCK FALSE
INVARIANTS
    
    BridgeRight
    
    
    
    CallbacksRight
    AjaxSettles
    
    MobileRight
