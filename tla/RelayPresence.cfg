CONSTANTS
  s1 = s1  s2 = s2  s3 = s3  s4 = s4
  p1 = p1  p2 = p2  p3 = p3  d1 = d1  d2 = d2  i1 = i1
  Sockets = {s1, s2, s3, s4}
  NoSocket = nosocket
  Phones = {p1, p2, p3}
  Desktops = {d1, d2}
  Pids = {i1}
  NoPairing = nopairing
  MaxMobiles = 2
SPECIFICATION PresenceSpec
INVARIANTS RegistriesSound PhoneViewExact
PROPERTY DesktopViewKept
SYMMETRY Symmetric
