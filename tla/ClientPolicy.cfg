SPECIFICATION Spec
CONSTANTS
    Requests = {r1}
    Clients = {"tablet"}
    Admins = {alice, bob}
    Groups = {"kids"}
    Default = "default"
    Global = "everybody"
    Direct <- MCDirect
    RangesOf <- MCRangesOf
    RangeOrder <- MCRangeOrder
    Line <- MCLine
    Whitelisted = {"www.shop.example"}
    Threats <- MCThreats
    Settings <- MCSettings
    Failing = {"store", "reload", "foreignKeys", "restart"}
    MaxChanges = 3
SYMMETRY MCSymmetry
INVARIANTS
    
    DecidesByTables
    ListFollowsTable
PROPERTIES
    NewGroupsStartEmpty
