\* Five pages: an eager one, a prewarmed one, an LRU one, a closable applet and one
\* that is never kept, with two hidden pages at most.
SPECIFICATION FairSpec
CONSTANTS
  Pages = {"home", "settings", "tasks", "applet", "help"}
  Landing = "home"
  Eager = {"home"}
  Prewarmed <- SomePrewarm
  None = {"help"}
  Lru = {"tasks"}
  LruCap = 1
  Closable = {"applet"}
  Exit = "home"
  HiddenCap = 2
  NoPage = NoPage
INVARIANT HiddenBounded
PROPERTY EvictedIsReleased
PROPERTY ActiveIsMounted
