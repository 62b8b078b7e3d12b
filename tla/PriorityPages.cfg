SPECIFICATION Spec
CONSTANTS t1 = t1 t2 = t2 s1 = s1 s2 = s2
CONSTANTS Nothing = Nothing Nobody = Nobody NoDate = NoDate Unset = Unset None = None Failed = Failed
CONSTANTS Task = {t1} Column = {1, 2} Note = {1, 2} Shown = {1, 2} Slot = {s1, s2} MaxOthers = 1
CONSTANTS Input = {"", "x", "x ", "y"} Trim <- TrimSpace Filters = {"none", "mine"}
CONSTANTS NoFilters = "none" MaxHistory = 3
CONSTANTS File = {f1, f2} PageSize = 1
CONSTANTS Name = {n1, n2} Text = {d1, d2} MaxSaves = 4
CONSTANTS Invitation = {i1, i2} Admin = {i2} ByAdmin = FALSE
CONSTANTS User = {u1, u2} Invitee = u1
CONSTANTS Limits = {1, 2} MaxEdits = 2
CONSTANTS Day = 6 Days = {1, 2, 3} Jump <- Jumps MaxAttempts = 4
CONSTANTS Dates <- FewDates Today <- ThisDay
CHECK_DEADLOCK FALSE
INVARIANT NextPageAnswered
