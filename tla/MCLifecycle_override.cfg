SPECIFICATION Spec
CONSTANTS
  Goroutines = {g1}
  g1 = g1
  web = web
  data = data
  openDB = openDB
  serve = serve
  audit = audit
  webServer = webServer
  dataDB = dataDB
  appConfig = appConfig
  Repo = Repo
  NilModule = NilModule
  Modules = {web, data}
  Hooks = {openDB, serve, audit}
  Names = {webServer, dataDB, appConfig}
  Types = {Repo}
  InitialModules <- MCInitialModules
  Script <- MCScript
  Autowired <- MCAutowired
  NilStart = {}
  NilStop = {}
  FlakyModules = {}
  FlakyStarts = {serve}
  FlakyStops = {serve}
  DirectIds = {}
  OverrideIds = {dataDB}
  LateModules = {}
  LateHooks = {}
  MaxCalls = 4
  MaxFaults = 0
INVARIANTS OverrideIsHarmless
CHECK_DEADLOCK FALSE
