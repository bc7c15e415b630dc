CONSTANTS
    None = None
    MaxCalls = 2
    MaxToggles = 1
    MaxTasks = 3
    Players = {"p", "q"}
    MaxStreams = 2
    MaxPlays = 3
    Ids = {1}
    MaxWire = 2
    MaxCuts = 2
    Parts = 2
    MaxSends = 1
    MaxFaults = 1
INIT Init
NEXT Next
INVARIANTS
    
    
    CallerHeard
    MicReleased
    
    E2eeAgrees
    DeliveredKept
    GroupsAgree
    CopiesAgree
    
    NewestTabOnline
    PluginsAsListed
    LobbiesTrue
    
    NotesHonest
    ChannelHonest
    StoreKeeps
    
CHECK_DEADLOCK FALSE
