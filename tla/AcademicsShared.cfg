SPECIFICATION Spec
CONSTANTS
    r1 = r1  r2 = r2  r3 = r3
    mon = mon  tue = tue  maths = maths  hindi = hindi  unit = unit
    elder = elder  mother = mother  pupil = pupil
    Requests = {r1, r2, r3}
    Periods = {mon, tue}
    Marks = {maths, hindi}
    Units = {unit}
    Weeks <- MCWeeks
    Sheets <- MCSheets
    Roll <- MCRoll
    Parents = {mother}
    Pupils = {pupil}
    OwnRecord <- MCOwnRecord
    Sections = {"5A", "6A"}
    Classes = {"5", "6"}
    ClassOf <- MCClassOf
    School = School
    Records <- MCRecords
    PoolSize = 2
    NoValue = NoValue
SYMMETRY RequestSymmetry
INVARIANTS TypeOK WeekIsReplaced SheetsDoNotMix ViewersSeeTheirs
CHECK_DEADLOCK FALSE
