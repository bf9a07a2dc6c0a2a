\* A lead that stays unqualified and a showing that stays completed, while an account is switched on and off and deleted under the runs.
CONSTANTS
    Runs = {run}
    Tasks = {}
    Reminders = {}
    Leads = {lead}
    Requirements = {}
    Opportunities = {}
    Showings = {showing}
    Users = {u1, u2}
    Nobody = Nobody
    Deletable = {u2}
    Expired = Expired
    MaxDeaths = 0
SPECIFICATION LivenessSpec
PROPERTY NothingForgotten
