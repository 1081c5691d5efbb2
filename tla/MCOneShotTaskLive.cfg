CONSTANTS
    Users = {u1}
    Kinds = {database}
    MaxLease = 1
    None = None
SPECIFICATION FairSpec
PROPERTIES EventuallyExits GettersReturn
