\* Two requests on a timetable of two rules, every endpoint.
CONSTANTS
    g1 = g1  g2 = g2  p1 = p1  p2 = p2  stu = stu  hall = hall  k1 = k1  k2 = k2  k3 = k3  early = early  late = late  r1 = r1  r2 = r2
    Callers = {r1, r2}
    Keys <- MCKeys
    NoCaller = NoCaller
    Groups = {g1, g2}
    Profs = {p1, p2}
    Students = {stu}
    Roster <- MCRoster
    Owner <- MCOwner
    Rooms = {hall}
    NoRoom = NoRoom
    NoProf = NoProf
    Windows <- MCWindows
    NoWindow = NoWindow
    SlotIds = {k1, k2, k3}
    SlotsAtFirst <- MCSlots
    Seeds = {early, late}
    RulesAtFirst <- MCRules
    NoEntry = NoEntry
    NoOverride = NoOverride
    NoJob = NoJob
    NoPlan = NoPlan
    Menus <- MCMenus
    Week = 3
    Today = 0
    Horizon = 4
    Starts = {0, 3}
    Tiles <- MCTiles
    Ops = {"create", "split", "sync", "except", "end", "update", "archive", "remove", "restore", "hours", "slot", "room"}
SYMMETRY MCSymmetry
SPECIFICATION Spec
INVARIANTS TypeOK TakesTurns SplitOnce CountIsLength
PROPERTIES AddedRuleFitsIn SaveMatchesSubmission ReassignedAreFree
