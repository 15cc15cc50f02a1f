CONSTANTS
  Database = Database  Redis = Redis  Queue = Queue  Auth = Auth  Middleware = Middleware
  Routes = Routes  More = More  Routing = Routing  None = None
  db = db  redis = redis  queue = queue  jwt = jwt  router = router  guard = guard  more = more
  Config = Config
  Providers <- AllProviders
  Abstracts <- AllAbstracts
  Shared <- Singletons
  Binds <- TheBinds
  RegisterMakes <- TheRegisterMakes
  BootBinds <- TheBootBinds
  BootMakes <- TheBootMakes
  Extra <- TheExtra
  Orders <- TheOrders
  MaxLifespans = 3
  MaxFailures = 2
SPECIFICATION Spec
CHECK_DEADLOCK FALSE
INVARIANTS TypeOK BootedOnce Resolved OneObject
PROPERTY SingletonKept
