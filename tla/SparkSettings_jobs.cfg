SPECIFICATION Spec
CONSTANTS
    KeyPairs = {k1, k2}
    Endpoints = {minio, gateway}
    Plain = {minio}
    Regions = {r1}
    None = None
    Unset = Unset
INVARIANT ReadsAsItself
