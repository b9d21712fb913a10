SPECIFICATION WorkerSpec
CONSTANTS
  a = a
  b = b
  c = c
  Ids = {a, b, c}
  Inputs <- InputsValue
  None = "none"
  Alphabet <- MCAlphabet
  Workspaces <- MCWorkspaces
  Calm <- MCCalm
  Editable <- MCEditable
  MaxRowEdits = 1
  AllRows = {"n1", "n2", "n3", "n4", "n5", "auto", "proxy", "direct", "reject", "asia", "work", "stream",
             "r1", "r2", "r3", "r4", "r5", "s1", "s2", "s3"}
  RuleIds = {1, 2, 3}
  ListCalls = {"p", "q"}
  MaxListCalls = 3
  Profiles = {"d", "p"}
  Standard = "d"
  ProfileCalls = {"p", "q"}
  MaxTokens = 2
  Deletions = TRUE
  CountryKeys = {"us"}
  TagKeys = {"ai"}
  SyncCalls = {1, 2}
  MaxAutoIds = 4
  MaxPoolEdits = 1
  Presets = {"p"}
  TargetIds = {"g", "h"}
  SuggestedFor <- SuggestedValue
  SetCalls = {1}
  MaxSetRows = 2
  MaxSetChanges = 2
  SetRequests = {1}
  Spaces = {"v", "w"}
  MaxBackupEdits = 2
  Bundled <- BundledValue
  SourcesOf <- SourcesValue
  Ticks = {1, 2}
  CacheInterval = 1
  MaxCacheTime = 1
  Origins = {"a", "b"}
  MaxRedirects = 2
  ProviderKeys = {"a"}
  ProviderUrls = {"u", "v"}
  LinkedIds = {1, 2}
  LinkCalls = {1, 2}
  MaxContents = 2
  RateCalls = {"p", "q"}
  Minutes = {1, 2}
  Limit = 2
  MaxAnswers = 4
  Files <- FilesValue
  Follows <- FollowsValue
  RowNumbers = {1, 2, 3, 4, 5, 6, 7}
  RefreshCalls = {1, 2}
  MaxGroupSteps = 3
  NodeGroupIds = {"n1"}
  RoutingCalls = {1, 2}
  MaxPuts = 1
  MaxRoutingEdits = 1
  ImportStarts <- ImportStartsValue
  MaxDiffItems = 2
  MaxPlanEdits = 3
  NodeCalls = {1, 2}
  MaxNodeCalls = 2
INVARIANTS
  WorkerTypes AcceptedIsSound ReportedIsCycle TrafficGoesWhereItIsSent GroupHasItsNodes NothingIsLostSilently
  ConvertedUrlsAnswer ListIsAsAsked ReadyWhenAlone SyncedMatchesNodes PresetsAreAsDecided
  BackupIsFaithful ServedCopiesAreUsable RequestsStaySafe FollowersFollow RefusedOnlyAtLimit
  RoutingFollowsSettings ConversionKeepsMeaning
  ImportIsAsCounted UndoLeavesNoTrace ManualNodesAgree 
PROPERTIES ServesWhatItPromises SearchDecides
CHECK_DEADLOCK FALSE
