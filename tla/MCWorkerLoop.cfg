\* Two collections at a time, of any kind; the extension moves or changes its
\* columns once.
SPECIFICATION Spec
CONSTANTS
    None = None
    Collectors = {j1, j2}
    public = public
    ext = ext
    old = old
    new = new
    Schemas = {public, ext}
    Columns = {old, new}
    Found <- FoundForms
    MaxChanges = 1
    Words <- CommandWords
INVARIANTS ExitIsHonest SamplesReachReport NoInvalidatedSnapshot
PROPERTIES RunEnds CapabilitiesHeal
CHECK_DEADLOCK FALSE
