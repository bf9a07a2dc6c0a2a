\* Two runs at once.
CONSTANTS
    Runs = {run1, run2}
    Tasks = {task}
    Reminders = {}
    Leads = {}
    Requirements = {}
    Opportunities = {}
    Showings = {}
    Users = {u1}
    Nobody = Nobody
    Deletable = {}
    Expired = Expired
    MaxDeaths = 0
SPECIFICATION Spec
INVARIANT NeverTwice
