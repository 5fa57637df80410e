\* Staging rewrites every File location to its own copy in work/.
CONSTANTS
    Locs <- MCLocs
    Sanitize <- MCSanitize
    Bindings <- MCBindings
SPECIFICATION Spec
INVARIANT TypeOK
INVARIANT StagedInputsFaithful
CHECK_DEADLOCK FALSE
