CONSTANTS
    Sessions = {alice, bob}
    Admin = alice
    Tabs = 2
    ProfileIds = {p1, p2}
    NoProfile = NoProfile
    MaxProfiles = 2
    StaysConnected = {}
SPECIFICATION Spec
INVARIANTS
    ProfileIsExclusive
