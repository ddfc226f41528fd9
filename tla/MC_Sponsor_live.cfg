CONSTANTS
    c1 = c1
    c2 = c2
    s1 = s1
    a1 = a1
    a2 = a2
    k1 = k1
    k2 = k2
    k3 = k3
    NoAddr = NoAddr
    Calls <- MC_Calls
    Senders <- MC_Senders
    SponsorAddrs <- MC_SponsorAddrs
    Coins <- MC_Coins
    MaxRetries = 2
SPECIFICATION Spec

PROPERTY Termination
PROPERTY Refinement
