SPECIFICATION Spec
CONSTANTS
    monitor = monitor
    view = view
    feeds = feeds
    info = info
    publish = publish
    Threads = {monitor, view, feeds}
    Clearing = {monitor, view}
    Methods = {info, publish}
    NON_CACHEABLE_METHODS = {publish}
    MaxRounds <- TwoAndOne
    MaxCalls <- TwiceEach
    MaxVersion = 1
INVARIANTS
    TypeOK
    Fresh
    AskedOnce
CHECK_DEADLOCK FALSE
