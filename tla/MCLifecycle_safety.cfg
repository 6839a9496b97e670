SPECIFICATION FairSpec
CONSTANTS
  Goroutines = {g1, g2}
  g1 = g1
  g2 = g2
  web = web
  data = data
  openDB = openDB
  serve = serve
  audit = audit
  webServer = webServer
  dataDB = dataDB
  appConfig = appConfig
  Repo = Repo
  NilModule = NilModule
  Modules = {web, data}
  Hooks = {openDB, serve, audit}
  Names = {webServer, dataDB, appConfig}
  Types = {Repo}
  InitialModules <- MCInitialModules
  Script <- MCScript
  Autowired <- MCAutowired
  NilStart = {audit}
  NilStop = {audit}
  FlakyModules = {web}
  FlakyStarts = {serve}
  FlakyStops = {serve}
  DirectIds = {dataDB, Repo}
  OverrideIds = {appConfig}
  LateModules = {NilModule}
  LateHooks = {audit}
  MaxCalls = 5
  MaxFaults = 2
INVARIANTS TypeOK RunsAccounted PrefixRunning NothingLost NothingLeftRunning StartedComplete
PROPERTIES StacksKept TakenRunsEnd CallsReturn
CHECK_DEADLOCK FALSE
