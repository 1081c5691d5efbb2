CONSTANTS
    Users = {u1}
    Kinds = {database}
    MaxLease = 2
    None = None
SPECIFICATION Spec
INVARIANT SuccessIsReported
