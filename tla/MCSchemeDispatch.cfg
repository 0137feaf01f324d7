SPECIFICATION Spec
CONSTANTS
  Threads = {t1, t2}
  Paths <- MCPaths
  SchemeOf <- MCSchemeOf
  Csvs <- MCCsvs
  Lower <- MCLower
INVARIANTS AnswersFitTheList ListIsRead
