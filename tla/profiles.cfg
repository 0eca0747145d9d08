\* Any four of the five operations on one user, with failures.
CONSTANTS
    None = None
    Req = {1, 2, 3, 4}
    Faults = TRUE
SPECIFICATION RepresentativeSpec
CHECK_DEADLOCK FALSE
INVARIANTS
    TypeOK
PROPERTIES
    UpdateSticks
    DeletedStaysDeleted
    PhotosStick
