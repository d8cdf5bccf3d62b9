SPECIFICATION FairSpec
CONSTANTS
  get = get
  post1 = post1
  post2 = post2
  Readers = {get}
  Senders = {post1, post2}
  Size <- Sizes
  MaxConnects = 2
  MaxChanges = 1
INVARIANTS TypeOK 
PROPERTIES  GoroutinesEnd
CHECK_DEADLOCK FALSE
