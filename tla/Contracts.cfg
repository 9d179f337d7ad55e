SPECIFICATION Spec
CONSTANTS
  MaxEvents = 5
  Inputs <- MCInputs
  evidencePacketTargetBytes = 10
  evidencePacketHardLimitBytes = 14
  evidencePacketMaxCriticalItems = 3
  evidencePacketMaxRelevantItems = 3
  evidencePacketMaxSupportingItems = 2
  evidencePacketMaxFieldsPerItem = 3
  evidencePacketMaxSources = 5
  evidencePacketMaxDerivations = 2
  Drafts <- MCDrafts
  reasonerMaxFacts = 3
  reasonerMaxUncertainty = 2
  reasonerMaxReferences = 8
  reasonerFactMaxReferences = 6
  routes = routes
  server = server
  left = left
  right = right
  Files <- MCFiles
  Lookups <- MCLookups
  MaxRevision = 2
  MaxCommit = 1
  repositoryIndexMaxFiles = 2
  Names <- MCNames
  Questions <- MCQuestions
  Messages <- MCMessages
  Deployments <- MCDeployments
  Logs <- MCLogs
  Cutoff = 5
  diagnosticMaxEvidenceExpansionRounds = 3
  diagnosticLogLines = 3
  diagnosticPatternLimit = 2
SYMMETRY Symmetry
CHECK_DEADLOCK FALSE
INVARIANTS
  AcceptsExactlyTheWalks
  AnswersRestOnThePacket
  DecidingEvidenceKept
  AnswersAreNoOlder
  VerdictsAreEarned
