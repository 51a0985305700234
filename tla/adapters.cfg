SPECIFICATION Spec
CONSTANTS
    Ref = {r1, r2, r3}
    App = {r1, r3}
    Blank = {r2}
    Filter = {r3}
INVARIANTS TypeOK Bracketed CalmSucceeds
