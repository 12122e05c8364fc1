\* Two rotations, two tenants, one save and a stop of the server.
SPECIFICATION Spec
CONSTANTS
    r1 = r1  r2 = r2
    a = a  b = b
    Rotation = {r1, r2}
    Tenant = {a, b}
    Value = {v1, v2}
    Algorithm = {"fernet", "aes256gcm"}
    EnvKey = None
    None = None
    MaxKeys = 4
    MaxStops = 1
    MaxSaves = 1
SYMMETRY Symmetric
INVARIANTS
    KeptReadable
    SavedSecretsStay
\* The bounds are used up, or the database cannot be opened any more.
CHECK_DEADLOCK FALSE
