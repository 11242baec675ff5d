SPECIFICATION Spec
CONSTANTS
    Ips = {ip1, ip2}
    MinLog = 2
    MaxLog = 2
    Stable = 1
    Full = 2
    MaxRecords = 3
    MaxDay = 2
    MaxCohorts = 3
SYMMETRY IpSymmetry
PROPERTY BanFlagsCohort
