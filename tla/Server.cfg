SPECIFICATION Spec
CONSTANTS
  Items <- MCItems
  Rect <- MCRect
  Queries <- MCQueries
  Points <- MCPoints
  maxEntries = 4
  Seeds <- MCSeeds
  MaxTreeOps = 3
  Top = 10
  Star = 1
  Dash = 2
  Query = 4
  Open = 6
  Slash = 7
  Close = 8
  Caret = 9
  Patterns <- MCPatterns
  Strings <- MCStrings
  KeysOfServer <- MCKeys
  Pool <- MCPool
  Collections <- MCCollections
  Questions <- MCQuestions
  Everything = 1000
  limitItems = 3
  MaxInserts = 1
  ColIds = {1, 2}
  ColObjects <- MCColObjects
  FieldNames = {"f", "g"}
  FieldVals = {0, 1}
  MaxColOps = 4
  Streams <- MCStreams
  MaxPassSets = 1
  ConfigTexts <- MCConfigTexts
  WordSize = 256
  Kilo = 4
  defaultKeepAlive = 30
  MaxConfigOps = 4
  iniLuaPoolSize = 1
  maxLuaPoolSize = 3
  LuaUsers = {u1, u2}
  ScriptNames = {s1}
  MaxClauses = 2
INVARIANTS
  SearchExact NearestFirst
  MatchExact LimitsCover
   NoneSkipped PagesComplete
  FieldsExact IndexesAgree
  RepliesMatch 
  StartsAsSaved
  ExclusiveUse
PROPERTIES
  CursorAdvances
CHECK_DEADLOCK FALSE
