SPECIFICATION Spec
CONSTANTS
  alice = alice
  bob = bob
  carol = carol
  none = none
  Name = {n1, n2}
  Profile <- MCProfile
  ProfileText <- MCText
  FromStr <- MCFromStr
  Invalid = none
  Motd = {m1, m2}
  DefaultMotd = m1
  MaxEntity = 4
INVARIANTS
  TypeOK
  OneConfiguration
  ProfilesAreEntities
  PanicsOnlyWhenWrapped
PROPERTIES
  EntityIsStable
