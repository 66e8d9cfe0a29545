CONSTANTS
  t1 = t1
  t2 = t2
  s1 = s1
  s2 = s2
  s3 = s3
  p1 = p1
  p2 = p2
  x = x
  y = y
  big = big
  Threads = {t1, t2}
  Files = {x, y, big}
  NoHash = NoHash
  TooLarge = {big}
  Limit = 1
  MaxAdds = 2
  SubConfs = {s1, s2, s3}
  PubConfs = {p1, p2}
  AllowsDups = {s2}
  Wants <- MCWants
  Raises <- MCRaises
  Routes <- MCRoutes
  PubRaises <- MCPubRaises
  StartSubs <- StartTwo
  StartPubs <- PubTwo
  MaxEvents = 1
SPECIFICATION Spec
INVARIANTS
  AtMostOncePerAcceptance
  RefusalJustified
  HandedOverOnce
  AllHandleUnlessDisturbed
  AllPublishUnlessDisturbed
