\* One run at a time over a requirement and a showing, cut off once; edits, deletions, notifications read, the account deleted.
CONSTANTS
    Runs = {run}
    Tasks = {}
    Reminders = {}
    Leads = {}
    Requirements = {req}
    Opportunities = {}
    Showings = {showing}
    Users = {u1}
    Nobody = Nobody
    Deletable = {u1}
    Expired = Expired
    MaxDeaths = 1
SPECIFICATION Spec
INVARIANTS
    NeverTwice
    FollowUpAnnounced
