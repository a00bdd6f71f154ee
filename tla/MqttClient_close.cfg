CONSTANTS
    Topics = {cmd, hc}
    Health = hc
    Clients = {c1, c2}
    Publishers = {pub}
    Owner = owner
    Watchdog = watchdog
    NoOne = noone
    MaxFaults = 1
SPECIFICATION Spec
INVARIANT ClosedForGood
