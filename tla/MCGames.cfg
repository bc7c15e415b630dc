SPECIFICATION Spec
CONSTANTS
    HostPeer = HostPeer
    GuestPeer = GuestPeer
    BotPlayer = BotPlayer
    None = None
    N = 8
    Grid = 1
    Checkpoints = 2
    Laps = 2
    Trials = {TRUE, FALSE}
    MaxStep = 2
    MaxTime = 13
    Behind = 2
    Host = "h"
    Guests = {"a"}
    Bot = "bot"
    MaxRaces = 2
    BoardWire = 2
    Linger = 3
    MaxItems = 1
    RaceWire = 1
INVARIANTS
     HardNeverLoses ChessHonest  CardsConserved  RaceRuns 
CHECK_DEADLOCK FALSE
