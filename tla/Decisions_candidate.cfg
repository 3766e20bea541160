SPECIFICATION Spec
CONSTANTS
    nobody = nobody  db = db  ui = ui  pg = pg  lite = lite
    Id = {1, 2, 3}
    Topic = {db}
    Text = {pg, lite}
    Human = {"h1"}
    NoId = nobody
    InitialRows <- OneHuman
    Rooms = {9}
    Horizon = 1
    MaxClock = 0
PROPERTIES CandidatesReachTheHuman
CHECK_DEADLOCK FALSE
