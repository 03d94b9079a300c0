CONSTANTS
    q1 = q1
    q2 = q2
    m1 = m1
    m2 = m2
    Capacity = 2
    PerMinute = 7
    MaxNow = 30
    Drafts = {d1, d2}
    Commands = {p1, p2, p3}
    ModelCalls = 3
    ToolCalls = 3
    NoDraft = NoDraft
    Quotes = {q1, q2}
    Messages = {m1, m2}
    QuotesOf <- MCQuotesOf
    GroupSize = 1
    NoItem = NoItem
    TheGoal = TheGoal
    Dialogs = {dialog1}
    RagSends = 3
    RagDeaths = 1
    NoDialog = NoDialog
    EmptyDraft = EmptyDraft
    NoPending = NoPending
    NoRequest = NoRequest
    Scripts <- MCScripts
    ReopenAfter = 1
    Chunks = {"c1", "c2", "c3"}
    Selected = {"c1", "c2"}
    Excerpts = {"e1", "e2", "long"}
    LongExcerpts = {"long"}
    ExcerptsIn <- MCExcerptsIn
    LineCount = 2
    MaxCitations = 2
SPECIFICATION AssistantsSpec
INVARIANTS
    LimitIsExact
    FolderIsSound
    CitationsAgree
PROPERTIES
    ApplicationIsSound
    DialogsAreSound
CHECK_DEADLOCK FALSE
