SPECIFICATION Spec
CONSTANTS
  a1 = a1
  a2 = a2
  b1 = b1
  c1 = c1
  c2 = c2
  f1 = f1
  i1 = i1
  i2 = i2
  w1 = w1
  Installers = {a1, a2, b1}
  ProcessOf <- MCProcessOf
  SystemUv = FALSE
  Requests <- MCRequests
  Hosts <- MCHosts
  Callers = {c1, c2}
  Nobody = Nobody
  MaxCalls = 3
  MaxStdin = 1
  MaxInbox = 2
  MaxEdits = 2
  MaxEvents = 2
  NoServer = NoServer
  Uploaders = {c1, c2}
  NoBundle = NoBundle
  NoToken = NoToken
  PollCap = 2
  MaxWait = 4
  HttpTimeout = 1
  Expiries = {3}
  Intervals = {0, 3}
  Clients = {c1, c2}
  HomeOnly = {c2}
  Installs = {i1, i2}
  Entries = {w1}
  Foreign = {f1}
  NoEntry = NoEntry
  NoClient = NoClient
  DeployTasks = {c1}
  Issues = {c1, c2}
  NamedIssues <- MCNamedIssues
  Fallback = f1
  HasFallback = TRUE
  MaxDeploys = 2
  d0 = d0
  d1 = d1
  d2 = d2
  RootDir = d0
  NoName = NoName
  NoServerTask = NoServerTask
  Folders = {d0, d1, d2}
  ProfileNames = {"prod", "extra"}
  AgentFiles = {"AGENTS.md"}
  Layouts <- MCLayouts
  Repos <- MCRepos
  Servers = {"dev"}
  TextLines = {"a", "b", "c", "begin", "old", "new", "end", "header"}
  Languages = {"go", "node-pnpm"}
  MaxSetups = 2
  RootToml = "Cargo.toml"
  LockFile = "Cargo.lock"
  ListedCrates <- MCListed
  KeptPins = {"plugin", "root table"}
  FirstVersion <- MCFirst
  Keywords = {"patch", "minor"}
  Explicit <- MCExplicit
  MaxReleases = 2
  UnitConfigs <- MCUnits
  SlugOf <- MCSlug
  Linked <- MCLinked
  Environments <- MCEnvs
  Deploys <- MCDeploys
  NoEnv = NoEnv
  NoDefault = NoDefault
  SecretNames = {"KEY"}
  MaxCommands = 2
CHECK_DEADLOCK FALSE
INVARIANTS
  ServicesTypeOK
  EnsuredToolsAreThere
  AnswersAreOwn
  PushedIsStored
  LoginTakesEffect
  InstallIsClean
  OnlyDeploysAreTold
  SetupLeavesItRunnable
  UsersWorkStays
  TagsAreWhole
  DeploysAreEquipped
PROPERTIES
  PluginCallEnds
  EditsAreServed
