\* get_files_from_binding on array-valued entries (expected to fail).
CONSTANTS
    Locs <- MCLocs
    Sanitize <- MCSanitize
    Bindings <- MCBindings
SPECIFICATION Spec
INVARIANT ArrayEntriesResolved
CHECK_DEADLOCK FALSE
