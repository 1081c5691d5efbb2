CONSTANTS
    Users = {u1, u2}
    Kinds = {database}
    MaxLease = 2
    None = None
SPECIFICATION Spec
SYMMETRY Symmetry
INVARIANTS NothingAfterTerminal TerminalUsesLatestLease CompletionIsHonest 
