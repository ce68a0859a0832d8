\* Coroutines use Java objects too.
CONSTANTS
    Threads = {ui}
    States = {main, co}
    Main = main
    Users = {main, co}
    Outside = {}
    Objects = {o1, o2}
    Userdata = {u1, u2}
    MaxIdx = 2
SPECIFICATION Spec
INVARIANT
    RightObject
