SPECIFICATION WorkbenchSpec
CONSTANTS
    Actions = {a1, a2}
    Cohorts = {"c1"}
    States = {"s1", "s2"}
    Conversations = {v1, v2}
    Situations <- MCSituations
    DepsOf <- MCDepsOf
    Outcomes = {"success", "failure"}
    MinSupporting = 2
    Kappa = 40
    MaxPergen = 1
    MaxTraces = 4
    MaxLate = 1
    DataShapes <- MCDataShapes
    Drafts <- MCDrafts
    Queries = {3}
    Prefilter = 3
    MaxPicks = 2
    MaxPut = 4
    MaxTouches = 1
    ActionNames = {"a", "b", "c"}
    StateNames = {"s"}
    DepNames = {"d"}
    Offered <- MCOffered
    MaxEdges = 3
    MaxPatches = 4
    ConnectorNames = {"emr"}
    Endpoints = {"u1", "u2"}
    SecretNames = {"s1"}
    SecretValues = {"x"}
    Dependencies <- MCDependencies
    Offers <- MCOffers
    Servers <- MCServers
    Operators = {p1, p2}
    MaxEdits = 2
    CorpusNames = {"c"}
    DocKeys = {"k", "m"}
    Topics = {"t", "u"}
    Passages = {"x", "y"}
    Uploads <- MCUploads
    Uploaders = {u1, u2}
    TopK = 1
    MaxUploads = 5
    Durations = {1, 2}
    Scores <- MCScores
    MaxRows = 3
    MaxMeanwhile = 1
    MaxRun = 4
    Paths = {"", "a", "b"}
    OptionSets <- MCOptionSets
    MaxFields = 2
SYMMETRY MCSymmetry
INVARIANTS ForecastsAreSound  PicksAreBest  LintIsSound ConnectorsAreFaithful CorporaAreFaithful FiguresAddUp 
PROPERTY PatchesChangeWhatTheyName
CHECK_DEADLOCK FALSE
