SPECIFICATION Spec

CONSTANTS
    MaxRooms = 5
    Handlers = {h1, h2}
    Faults = {"error", "lost", "crash", "view", "removed"}
    MaxMishaps = 2
    MaxRestarts = 1

SYMMETRY HandlerSymmetry

INVARIANTS
    TypeOK
    OneOfEachButForMishaps
    SavedPairLinked
    AnswersKept

CHECK_DEADLOCK FALSE
