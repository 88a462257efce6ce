SPECIFICATION Spec
CONSTANTS
    Sizes = {4, 7, 10}
    Nums = {1, 2, 3}
    TypeSizes = {2, 3}
    OneType = TRUE
    Word = 32
    MaxNames = 6
    Name = {Default, other}
    Default = Default
    Text = {NoText, t1}
    NoText = NoText
    Window = {w1}
    Lengths = {2, 3}
    Shortest = 2
    Shown = 5
    MinCandles = 2
    MaxFrame = 5
    MaxSections = 4
    MaxFrames = 2
    LastTime = 3
    Dir = {root, sub}
    File = {f, g}
    Root = root
    MaxEntries = 2
    MaxText = 5
    MaxLines = 4
    Vertex = {a, b, c, d}
    Near = {a, b}
    MaxVertices = 5
INVARIANTS
    MappedIsFree
    ObjectsAccounted
    SavedSurvives
    FramesExist
    SectionsDrawn
    GathersReached
    TextRight
    IndexRight
PROPERTIES
    RestoresWindows
    ShowsRange
    WalkShrinks
CHECK_DEADLOCK FALSE
