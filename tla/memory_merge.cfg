SPECIFICATION MCSpec
CONSTANTS
    None = None
    DormantAfter = 1
    Messages = {m1, m2}
    Refreshes = {r1}
    Updates = {u1}
    Values = {facts}
    Learned <- MCLearned
    Answers <- MCAnswers
    Situations <- MCSituations
    MaxDays = 1
    ContactTasks = {t1}
    Updaters = {p1, p2}
    MaxTouched = 2
    MaxFailed = 1
    Nothing = Nothing
    Conversations = {"talk"}
    Tasks = {1, 2}
    Of <- MCOf
    Texts = {"suggested"}
    Edits = {"typed"}
    Fallback = "fallback"
    Blank = ""
    MaxCalls = 1
    MaxCardCalls = 2
    MaxTouches = 3
    MaxNews = 2
    MaxLost = 0
SYMMETRY MCSymmetry
CHECK_DEADLOCK FALSE
INVARIANTS
    TypeOK
    QuestionsAskedOnce
    OpenQuestionsUnanswered
    StagesConverge
    StagesExplained
    FormsStayWithTask
PROPERTY
    UndisturbedMergesKeep
