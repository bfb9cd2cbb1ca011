SPECIFICATION ThreadsSpec
CONSTANTS
  t1 = t1
  t2 = t2
  t3 = t3
  h1 = h1
  h2 = h2
  h3 = h3
  Threads <- Three
  Handlers = {h1, h2, h3}
  HandlerOf <- OneEach
  External = {h1, h2}
  Reloaders = {t3}
  Urls = {with, without}
  WithTld = {with}
  Trees = {a, b, c}
  Absent = Absent
INVARIANTS ReadsOwnUrl 
 
