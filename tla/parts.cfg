SPECIFICATION PartsSpec
CONSTANTS
  r1 = r1 r2 = r2
  v1 = v1 v2 = v2
  c1 = c1 x1 = x1 c2 = c2 x2 = x2
  o1 = o1 o2 = o2 ob = ob b1 = b1 b2 = b2 f = f pr = pr
  s1 = s1 s2 = s2
  i1 = i1 i2 = i2 i3 = i3
  cf = cf d1 = d1 d2 = d2 rm = rm ar = ar im = im
  n1 = n1 n2 = n2 n3 = n3
  k1 = k1 p1 = p1 p2 = p2 m1 = m1 m2 = m2 e1 = e1 e2 = e2
  h1 = h1 h2 = h2 h3 = h3
  t1 = t1 sb1 = sb1 sb2 = sb2 qy = qy st = st br1 = br1 br2 = br2 wc = wc wf = wf tm = tm
  Runs = {r1, r2}
  NoRun = NoRun
  Versions = {v1, v2}
  DefaultVersion = v1
  NoVersion = NoVersion
  NoJournal = NoJournal
  Absent = Absent
  Partial = Partial
  MaxOperations = 2
  MaxInterruptions = 3
  Decisions = {c1, x1, c2, x2}
  NoDecision = NoDecision
  StreamOf <- AuthStream
  ScopeOf <- AuthScope
  ActionOf <- AuthAction
  PolicyOf <- AuthPolicy
  ConfirmOf <- AuthConfirm
  LifeOf <- AuthLife
  MaxTime = 2
  Sessions = {s1, s2}
  NoSession = NoSession
  Opens = {o1, o2}
  Calls = {ob, b1, b2, f, pr}
  NoCall = NoCall
  RefOf <- CallRef
  KindsOf <- CallKinds
  Cores = {h}
  MaxGen = 3
  Ids = {i1, i2, i3}
  NoId = NoId
  Keys = {cf, d1, d2, rm, ar, im}
  NoKey = NoKey
  OpOf <- MutationOp
  SourceOf <- MutationSource
  TargetOf <- MutationTarget
  StorageOf <- MutationStorage
  Manual = {}
  Registered = {i1}
  Creations = {n1, n2, n3}
  NoCreation = NoCreation
  CreationOf <- Creating
  MaxCreated = 2
  Backups = {k1}
  Applies = {p1, p2}
  NoOperation = NoOperation
  Materials = {m1, m2}
  NoMaterial = NoMaterial
  Environments = {e1, e2}
  Runtimes = {h1, h2, h3}
  NoRuntime = NoRuntime
  MaxDeaths = 1
  MaxLapses = 1
  SiteTasks = {t1}
  Handlers = {sb1, sb2, qy, st, br1, br2, wc, wf, tm}
  NoHandler = NoHandler
  RoleOf <- TaskRoles
  TaskOf <- TheTask
  MaxTaskDeaths = 1
CHECK_DEADLOCK FALSE
INVARIANTS
  PartsTyped ActiveDecisionsAgree SingleActionOnce ProfileExclusive RepairsPaired
  NothingUncounted QuotaBoundsCreation SuccessIsWhole MaterialKept
  InstallSurvives SettledSound CallsAccounted RecoveryNotStuck StartsSettled TerminalAtSound
PROPERTIES InputsFenced ResultsFenced DeletedIsGone SettledStays LaunchedWhole OwnersFenced
