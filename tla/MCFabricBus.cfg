CONSTANTS
    Words = {0, 1}
    Lanes = {0, 1}
    Bytes = {0, 1}
    Issued <- MCIssued
    Uploads <- MCUploads
    DEADBEEF = DEADBEEF
    None = None
SPECIFICATION Spec
INVARIANTS
    ReadsCurrent
PROPERTIES
    DmemFollowsBus
    ExitHeld
