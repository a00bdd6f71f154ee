CONSTANTS
    Topics = {cmd, hc}
    Health = hc
    Clients = {c1, c2}
    Publishers = {pub}
    Owner = owner
    Watchdog = watchdog
    NoOne = noone
    MaxFaults = 2
SPECIFICATION FairSpec
INVARIANTS NoOrphan EveryTopicAsked
PROPERTY HearsAgain
