\* connect() on a refused connection.
CONSTANTS
    Flight1 = 1
    Flight2 = 1
    Faults <- NoFaults
SPECIFICATION Spec
INVARIANTS
    ConnectedWhenTrue
