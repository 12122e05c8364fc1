--------------------------- MODULE MCKeyRotation ---------------------------
EXTENDS KeyRotation, TLC

CONSTANTS r1, r2, a, b

\* Rotations and tenants are interchangeable; no liveness is checked.
Symmetric == Permutations(Rotation) \cup Permutations(Tenant)
=============================================================================
