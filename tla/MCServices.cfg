CONSTANTS
  v1 = v1
  v2 = v2
  alice = alice
  bob = bob
  Rotatable <- TwoColumns
  Values <- TwoValues
  Absent = Absent
  Rejected = Rejected
  Patches = {p1, p2}
  Deliveries = {d1}
  NoCall = NoCall
  Owners <- TwoOwners
  NoOwner = NoOwner
  AppMax = 2
  OwnerOf <- Accounts
  SettingsEnv = {"storeError", "apiError"}
  Callers = {w1, w2, w3}
  Sweeps = {w1}
  Lifetime = 4
  Margin = 2
  Hold = 2
  TokenEnv = {"apiError", "uninstall"}
  Bots = {k1}
  Chats = {h1}
  Nobody = Nobody
  Edits = {p1, p2}
  Sends = {n1}
  NotifyEnv = {"storeError"}
  Users = {u1, u2}
  Slots = {s1}
  NoSlot = NoSlot
  OAuthStates = {p1, p2}
  Tokens <- TwoValues
  Browsers = {b1}
  Callbacks = {p1, p2}
  Visits = {i1}
  NoOne = NoOne
  Bootstrap = {u2}
  AuthEnv = {"githubError", "storeError", "restart"}
  Words <- TheWords
  Spellings = {"plain", "other"}
  Within <- Prefixed
  SelfHosted = "self-hosted"
  DefaultPrefix = "gharp-"
  Unset = Unset
  Blank = Blank
  Pools = {"north", "south"}
  Jobs = {"train", "build"}
  LabelsOf <- RunsOn
  RepoNameOf <- InOneRepo
  EnvironmentsOf <- StartedWith
SPECIFICATION Spec
 
INVARIANT AnswersHeld
INVARIANT UsedBeforeExpiry
 
INVARIANT ChatThroughBot
INVARIANT QuietWhenOff
INVARIANT OneLoginPerState
INVARIANT OnlyActiveServed
 
INVARIANT SessionsAreBound
INVARIANT EventsReachRows
INVARIANT OnePoolPerJob
PROPERTY ColumnsKept
PROPERTY GateFailsClosed
PROPERTY OnlyOverlapsLose
PROPERTY TenancySpec
SYMMETRY Symmetry
