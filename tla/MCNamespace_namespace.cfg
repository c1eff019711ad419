\* Six stories of two machines; three hours stand for ACTIVE_TTL_MS and beyond.
CONSTANTS
    old = old  new = new  u1 = u1  u2 = u2  u3 = u3  None = None
    Machines = {old, new}
    Stories <- MCStories
    Ids = {u1, u2, u3}
    Home <- MCHome
    TTL = 2
    MaxSeq = 3
SPECIFICATION FairSpec
INVARIANTS TypeOK ResumeMissesNothing
PROPERTIES SplitIsNoticed DeadMachineUnblocks
