SPECIFICATION Spec
CONSTANTS
  shop = shop
  blog = blog
  orders = orders
  users = users
  logs = logs
  Applications <- MCApplications
  Databases <- MCDatabases
  Questions <- MCQuestions
INVARIANTS
  PlansAfford
  ReportedReadsRan
  AsksAboutTheSubject
  ConfidenceIsEarned
PROPERTIES
  KeepsToRounds
