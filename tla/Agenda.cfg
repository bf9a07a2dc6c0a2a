\* Three requests on an appointment, a task and the history of a contact.
CONSTANTS
    Null = Null
    ana = ana
    luis = luis
    meeting = meeting
    call = call
    visit = visit
    old = old
    edited = edited
    Contacts <- MCContacts
    Appointments <- MCAppointments
    Tasks <- MCTasks
    AppointmentPatches <- MCAppointmentPatches
    TaskPatches <- MCTaskPatches
    NewAppointments <- MCNewAppointments
    NewTasks <- MCNewTasks
    Contents <- MCContents
    Requests = {r1, r2, r3}
    MaxClock = 4
SYMMETRY Symmetry
CHECK_DEADLOCK FALSE
SPECIFICATION MCSpec
INVARIANTS
    NotesBecomeHistory
    DatesAgree
    FingerprintTells
