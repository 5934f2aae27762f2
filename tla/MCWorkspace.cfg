\* Two captures around one patch call, one outside change, one failing operation.
SPECIFICATION Spec
CONSTANTS
    None = None
    root = root
    note = note
    dir = dir
    target = target
    temp = temp
    key1 = key1
    key2 = key2
    old = old
    new = new
    long = long
    empty = empty
    Paths = {root, note, dir, target, temp, key1, key2}
    Root = root
    Target = target
    Temp = temp
    Parent <- MCParent
    Order <- MCOrder
    Contents = {old, new, long, empty}
    Size <- MCSize
    Hidden <- MCHidden
    Editable = {note, dir, target, key1}
    InitialFiles <- MCInitialFiles
    MaxEdits = 1
    LimitChoices <- MCLimitChoices
    Stops = {"cancelled"}
    MaxFaults = 1
    Operations = {"create", "update", "delete"}
    Requests = {old}
    Patched <- MCPatched
    Created = new
    Empty = empty
    MaxPatchBytes = 1
INVARIANTS TypeOK EffectIsTrue StaleNotReplaced DiffIsExact
