CONSTANTS
  h1 = h1
  h2 = h2
  h3 = h3
  b1 = b1
  b2 = b2
  b3 = b3
  p1 = p1
  p2 = p2
  NoBackend = NoBackend
  NoProxy = NoProxy
  Handles <- MCHandles2
  Backends <- MCBackends2
  Proxies <- MCProxies
  Values <- MCValues
  MaxLen = 2
  MaxListLen = 1
SPECIFICATION Spec
INVARIANT
  ComparisonWithValueIsTyped
VIEW ModelView
