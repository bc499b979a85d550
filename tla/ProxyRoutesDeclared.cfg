SPECIFICATION Spec
CONSTANTS
  None = None
  Services <- MCServices
  Keys <- MCKeys
  Provides <- MCProvides
  RouteNames <- MCRouteNames
  Normal <- MCNormal
  Names <- MCNames
  Hosts <- MCHosts
  Canonical <- MCCanonical
  Paths <- MCPaths
  HostOf <- MCHostOf
  Under <- MCUnder
  PrefixLength <- MCPrefixLength
INVARIANTS
  DeclaredHostIntercepted
CHECK_DEADLOCK FALSE
