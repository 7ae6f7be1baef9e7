SPECIFICATION FairSpec
CONSTANTS
    Uploads = {k1}
    Deletes = {k2}
    Reads = {}
    Flows = {f1}
    Boot = boot
    LegacyGrant = g0
    Clients = {f1, boot}
    Grants = {f1, g0}
    MaxAttempts = 2
    MaxUploads = 2
INVARIANTS AcknowledgedIsWhole
PROPERTIES RevokedMeansRevoked DisconnectHolds EveryCallEnds
CHECK_DEADLOCK FALSE
