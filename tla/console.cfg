CONSTANTS
    Users = {1, 2}
    Tabs = {1, 2}
    Calls = {1, 2, 3}
    Things = {1, 2, 3}
    Registered = {1}
    Stranger = 3
    Budgets <- EachActivity
SPECIFICATION Spec
INVARIANTS TypeOK SessionMatches MadeOnce
PROPERTY ButtonsComeBack
CHECK_DEADLOCK FALSE
