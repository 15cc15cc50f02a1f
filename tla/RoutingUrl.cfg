CONSTANTS
  r = r  s = s  g = g  h = h  a = a  b = b  c = c  d = d  e = e
  Top = Top
  Lists = {r, s, g, h}
  Routes = {a, b, c, d, e}
  Parent <- TheParent
  Segment <- TheSegment
  ListGuards = {auth}
  RouteGuards = {throttle}
  MaxBuilds = 2
SPECIFICATION Spec
CHECK_DEADLOCK FALSE
INVARIANT UrlIsServed
