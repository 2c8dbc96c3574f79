SPECIFICATION Spec
CONSTANTS
    KeyPairs = {k1}
    Endpoints = {minio}
    Plain = {minio}
    Regions = {r1}
    None = None
    Unset = Unset
INVARIANT FallsBackToDefaultChain
