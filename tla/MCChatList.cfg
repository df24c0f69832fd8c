CONSTANTS
    NoChat = NoChat
    NoQuery = NoQuery
    Chats = {a, b}
    Low = {b}
    Pinned = {}
    Heights = {1, 2}
    MaxUnread = 1
    MaxActive = 1
SPECIFICATION Spec
INVARIANTS CursorOnScreen
PROPERTIES SelectionPinned KeepsConversation
VIEW Live
CHECK_DEADLOCK FALSE
