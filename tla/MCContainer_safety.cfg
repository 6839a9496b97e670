SPECIFICATION FairSpec
CONSTANTS
  Goroutines = {g1, g2}
  g1 = g1
  g2 = g2
  Repo = Repo
  Mailer = Mailer
  Service = Service
  Handler = Handler
  Clock = Clock
  newRepo = newRepo
  mockRepo = mockRepo
  loopRepo = loopRepo
  newMailer = newMailer
  newService = newService
  newHandler = newHandler
  clock = clock
  None = None
  Types = {Repo, Mailer, Service, Handler, Clock}
  Providers = {newRepo, mockRepo, loopRepo, newService, newHandler, newMailer}
  Services = {clock}
  Out <- MCOut
  Params <- MCParams
  Fields <- MCFields
  Implementers <- MCImplementers
  Programs = {{newRepo, newService, newHandler}, {loopRepo, newService, newHandler}}
  Overrides = {mockRepo, loopRepo}
  LateProviders = {newMailer}
  Flaky = {newService}
  Unexported = {newHandler}
  MaxCalls = 3
INVARIANTS TypeOK MarksHaveFrames Singleton CacheFresh ErrorsAreReal CyclesAreRefused
PROPERTIES ResolvesReturn
CHECK_DEADLOCK FALSE
