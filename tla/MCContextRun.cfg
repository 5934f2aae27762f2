\* One outside change while the context is loaded, every budget around the edges.
SPECIFICATION Spec
CONSTANTS
    None = None
    root = root
    dir = dir
    guide = guide
    local = local
    alpha = alpha
    beta = beta
    short = short
    long = long
    makeA = makeA
    makeB = makeB
    broken = broken
    A = A
    B = B
    Paths = {root, dir, guide, local, alpha, beta}
    Root = root
    Parent <- MCParent
    Contents = {short, long, makeA, makeB, broken}
    Size <- MCSize
    Hidden <- MCHidden
    Editable = {local, alpha}
    InitialFiles <- MCInitialFiles
    MaxEdits = 1
    Chain <- MCChain
    Skills <- MCSkills
    Selectable = {None, A, B}
    Key <- MCKey
    LoadLimits <- MCLoadLimits
    Summarizers = {"structural", "model"}
    Header = 1
    Escapes = {0, 2}
    Framing = 1
    Transcripts <- MCTranscripts
    Prompts = {0, 1}
    Memories <- MCMemories
    Requests <- MCRequests
    Budgets <- MCBudgets
INVARIANTS TypeOK LoadedAsIs WindowFits SummaryIsHonest
