SPECIFICATION Spec
CONSTANTS
  Workers <- TwoWorkers
  Situations <- Shared
  SiteIds <- TwoIds
  FormIds <- TwoIds
  FieldIds <- ZeroId
  Hosts <- OneHost
  Keys <- OneKey
  Urls <- OneUrl
  Names <- OneName
  Types <- OneType
  w1 = w1
  w2 = w2
  h1 = h1
  k1 = k1
  u1 = u1
  n1 = n1
INVARIANT OverrunExposed
INVARIANT CurrentUnlessTainted
INVARIANT DeletesOwnForms
INVARIANT AnswerNamesRow
PROPERTY OrphansExplained
CHECK_DEADLOCK FALSE
