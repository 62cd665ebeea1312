SPECIFICATION Spec
CONSTANTS
    Threads = {t1, t2}
    Handlers = {h1, h2, deadly}
    Deadly = deadly
    Dfl = Dfl
    Ign = Ign
    Null = Null
    Nobody = Nobody
SYMMETRY Symmetry
INVARIANTS
    TypeOK
    HandlerIsCallable
    Agreement
PROPERTIES
    OldactIsLast
    OldactIsUsable
