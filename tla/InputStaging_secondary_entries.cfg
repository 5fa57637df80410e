\* get_secondary_files on non-object entries (expected to fail).
CONSTANTS
    Locs <- MCLocs
    Sanitize <- MCSanitize
    Bindings <- MCBindings
SPECIFICATION Spec
INVARIANT SecondaryEntriesValidated
CHECK_DEADLOCK FALSE
