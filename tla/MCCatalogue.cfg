SPECIFICATION Spec
CONSTANTS
  Cats = {1, 2, 3, 4}
  Root = 0
  Admins = {x, y}
  MaxAsks = 2
  Values = {0, 1}
  Images = {i}
  None = None
  Nil = Nil
  Nothing = Nothing
  MaxEdits = 3
  MaxSaves = 1
  MaxLoads = 1
  Items = {p, q}
  Readers = {r1, r2}
  Moderators = {m1, m2}
  Customers = {c1}
  MaxModerated = 2
  tee = tee  cap = cap  plain = plain  gold = gold  small = small  large = large
  Slugs = {tee, cap}
  SkuPrefixes = {plain, gold}
  Pairs = {small, large}
  Matrices = {d1, d2}
  Workbooks <- MCWorkbooks
  MaxDeletes = 1
INVARIANTS TreeKept WorkKept CountsExact CreatedRowsStay 
PROPERTIES DropLands  StaleEnds
CHECK_DEADLOCK FALSE
