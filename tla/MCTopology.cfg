\* Three devices and up to four mounts: the host, /var, the store, a domain.
SPECIFICATION Spec
CONSTANTS
    None = None
    d0 = d0
    d1 = d1
    d2 = d2
    Devices <- MCDevices
    RootDevice = d0
    Points <- MCPoints
    Trees <- MCTrees
    StoreRoots <- MCRoots
    WATCHDOG_MOUNT_ROOT <- MCStore
    PROTECTED_DOMAIN_PATHS <- MCDomains
    Layout <- MCLayout
    STORE_DIR_MODE = "0700"
    Stamps <- MCStamps
    MaxMounts = 4
    MaxRaces = 1
    MaxResidue = 2
SYMMETRY MCSymmetry
INVARIANTS
    AcceptedIsSeparate
