SPECIFICATION PartsSpec
CONSTANTS
  Threads = {t1, t2, t3, t4}
  Errors = {e1, e2}
  NoError = NoError
  Starters = {g1, g2}
  Waiters = {w1}
  QueueSize = 2
  MaxInputs = 5
  Closers = {x1, x2}
  MaxWrites = 4
  Requests = {q1, q2, q3}
  MaxFrames = 3
  Players = {p1}
  Remote = {r1}
  Local = {l1}
  Offer = Offer
  Sent = Sent
  Defer = Defer
  Nil = Nil
  Nobody = Nobody
  Jobs = {j1, j2}
  Callers = {d1, d2}
  MaxRetries = 3
  Configured = 2
  Publishers = {u1}
  Plays = {s1}
  Viewers = {v1}
  Medias = 2
  Names = {a1, a2}
  Passwords = {k1}
  AdminUsername = a1
  AdminPassword = k1
  Tokens = {b1, b2}
  Tabs = {h1, h2}
  None = None
  Shares = {f1, f2}
  Loops = {o1, o2}
  NoLoop = NoLoop
  MaxDrops = 2
CHECK_DEADLOCK FALSE
INVARIANTS
  NoEarlyReturn
  NoPanic
  WaitMeansDrained
  NothingLost
  SegmentsWhole
  WakeKept
  NothingLeft
  RetryRenewed
PROPERTIES
  FinishReleases
  FailReleases
  Signalling
  ViewersGone
  RequestsReturn
  PlayedGone
  LoggedOut
  Announced
