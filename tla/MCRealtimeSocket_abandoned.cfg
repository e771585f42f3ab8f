\* A page is left while its connection is being opened, and the next page listens.
SPECIFICATION Spec
CONSTANTS
  h1 = h1 h2 = h2 h3 = h3 pods = pods nodes = nodes
  s1 = s1 s2 = s2 s3 = s3
  Hook = {h1, h2, h3}
  Resource = {pods, nodes}
  ResourceOf <- Lists
  Socket = {s1, s2, s3}
  NoSocket = NoSocket
  Desktop = FALSE
  MaxFaults = 0
INVARIANT PagesReceiveEvents
