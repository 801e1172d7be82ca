SPECIFICATION Spec
CONSTANTS
    Entries = {e1, e2}
    Inputs = {d1}
    None = None
    NativeSteer = {TRUE, FALSE}
    Races = {}
    MaxSessions = 2
INVARIANTS ReservationsBalance NothingLost NoReplay WithdrawnStaysWithdrawn  AdmissionIsOwed
  
