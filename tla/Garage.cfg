SPECIFICATION Spec
CONSTANTS
    h1 = h1
    h2 = h2
    m1 = m1
    m2 = m2
    m3 = m3
    NoVehicle = NoVehicle
    NoModel = NoModel
    Handler = {h1, h2}
    Model = {m1, m2, m3}
SYMMETRY Symmetry
INVARIANTS OnePrimaryInTurn SomePrimaryAtRest
PROPERTIES SettingRepairs
CHECK_DEADLOCK FALSE
