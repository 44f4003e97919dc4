\* A reset, or a failed nvs_set or fopen, inside MQTTConfig_Save.
CONSTANTS
    address = address
    user = user
    defAddr = defAddr
    newAddr = newAddr
    defUser = defUser
    newUser = newUser
    Entries <- MCEntries
    Values <- MCValues
    Default <- MCDefault
    Certs = {noCert, cert1}
    NoCert = noCert
    Absent = Absent
    NoFile = NoFile
    MaxSaves = 2
SPECIFICATION Spec
INVARIANT LoadedConfigWasSaved
