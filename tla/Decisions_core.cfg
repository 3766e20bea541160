SPECIFICATION Spec
CONSTANTS
    nobody = nobody  db = db  ui = ui  pg = pg  lite = lite
    Id = {1, 2, 3}
    Topic = {db, ui}
    Text = {pg, lite}
    Human = {"h1"}
    NoId = nobody
    InitialRows <- AnyMemory
    Rooms = {2, 9}
    Horizon = 0
    MaxClock = 1
INVARIANTS RowsReadable OneVoice
PROPERTIES HumanDecisionsStand QuarantineHolds OnlyReviewedIsTrusted HumanActsTakeEffect MergesSettle TopicsStaySettled
CHECK_DEADLOCK FALSE
