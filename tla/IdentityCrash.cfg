SPECIFICATION Spec
CONSTANTS
    Procs = {p, q}
    Keys = {k1, k2, k3}
    Names = {alice}
    Addrs = {a1, a2}
    NoKey = NoKey
    NoAddr = NoAddr
SYMMETRY Symmetry
INVARIANTS TypeOK IdentityIsWhole MemoryFollowsTable
PROPERTY ImplementsRegistry
