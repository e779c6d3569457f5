SPECIFICATION ServicesSpec
CONSTANTS
    a1 = a1 b1 = b1 b2 = b2 d1 = d1 us = us ca = ca mx = mx
    c1 = c1 c2 = c2 e1 = e1 v1 = v1 m1 = m1
    o1 = o1 o2 = o2 o3 = o3 y1 = y1 y2 = y2 n1 = n1
    Price = {10, 14, 15, 26}
    Sku = {a1, b1, b2, d1} Market = {us, ca, mx} Home <- MCHome Thin = {b1, d1}
    BatchSize = 2 MaxConsecutiveFailures = 2
    Caller = {c1, c2} Interval = 2 Limits = {3} MaxLag = 1 MaxRetries = 1
    BackoffBase = 2 BackoffCap = 4 MaxClock = 3 MaxRevoked = 2
    Person = {e1, v1} Admin = {v1} Above <- MCAbove Reminded = {e1} Editor = {c1, c2}
    Status = {"Open", "Review", "Canceled"} Forms = {{"status"}, {"start"}}
    Nobody = Nobody Keep = Keep MaxRaced = 1
    Mail = {m1} Sender = {c1, c2} Tries = 2 MaxDeaths = 2 MaxDoubts = 1 MaxByHand = 1
    Tab = {c1, c2} TTL = 2 MaxCompute = 1 MaxNow = 5
    Account = {o1, o2, o3} Role = {"Admin", "Manager", "Member"} Boss = {"Admin", "Manager"}
    UserForms = {{"sup"}, {"role"}, {"active"}} Writer = {c1, c2} NoOne = NoOne Same = Same MaxBegun = 2
    Zone <- MCZone DailyAt = {0, 1, 2, 3, 7, 8, 12, 22, 23} FirstHour = 48 LastHour = 220
    Plan <- MCPlan MaxSeq = 4 Horizon = 3 Ceiling = 30 Until = 500 Months = 54
    Window = {c1, c2} Duty = {y1, y2} Minutes = {0, 1} DayMax = 1 MaxAsked = 3
    Note = {n1} File = {y1, y2} Poster = {c1, c2} Draft = Draft OnTask = OnTask Nowhere = Nowhere MaxPosts = 3
    DutyId = {n1} Holder = {e1, v1} Clerk = {c1, c2} NoDuty = NoDuty NoHolder = NoHolder AsIs = AsIs MaxOrders = 2
SYMMETRY Symmetry
INVARIANTS AlertsTell EachOnce TrustedOnly StopsWhenDown Paced RejectedMeansRevoked HistoryTells LiveReminderFits MailedOnce TableTells ServedIsRecent SupervisorsFit ClockFits ScheduleFits ThreadHolds DutiesHold
PROPERTIES ReviewRestores SavesKeepTheChart DayHolds
