SPECIFICATION Spec
CONSTANTS
  slugify = slugify
  weather = weather
  rates = rates
  news = news
  tides = tides
  call1 = call1
  call2 = call2
  Jobs = {slugify, weather}
  Caps = {rates, news}
  CallIds = {call1, call2}
  MaxCaps = 2
  FreshIds = TRUE
  NoCap = NoCap
  NoId = NoId
SYMMETRY Symmetry
INVARIANTS
  RevocationHolds
CHECK_DEADLOCK FALSE
