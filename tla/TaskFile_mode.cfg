CONSTANT MaxDraft = 2
SPECIFICATION TaskFileSpec
INVARIANT NoOptionDropped
CHECK_DEADLOCK FALSE
