\* Three items, pages of one, at most two items per answer.
SPECIFICATION Spec
CONSTANTS
    N = 3
    Mine = {2}
    Page = 1
    Cap = 2
    MaxModerations = 1
    MaxNudges = 1
INVARIANT TypeOK
INVARIANT ArchiveComplete
PROPERTY GalleryConverges
CHECK_DEADLOCK FALSE
