SPECIFICATION Spec
CONSTANTS
  Workers <- OneWorker
  Situations <- Empty
  SiteIds <- ZeroId
  FormIds <- ZeroId
  FieldIds <- ZeroId
  Hosts <- OneHost
  Keys <- OneKey
  Urls <- OneUrl
  Names <- OneName
  Types <- TwoTypes
  w1 = w1
  w2 = w2
  h1 = h1
  k1 = k1
  u1 = u1
  n1 = n1
PROPERTY AddFieldStoresType
CHECK_DEADLOCK FALSE
