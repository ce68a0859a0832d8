\* Only the main lua_State uses Java objects; one thread also pushes outside.
CONSTANTS
    Threads = {ui, worker}
    States = {main, co}
    Main = main
    Users = {main}
    Outside = {worker}
    Objects = {o1, o2}
    Userdata = {u1, u2}
    MaxIdx = 3
SPECIFICATION Spec
SYMMETRY ObjectSymmetry
CONSTRAINT NotOverlapped
VIEW MainOnly
INVARIANTS
    RightUnlessRaced
