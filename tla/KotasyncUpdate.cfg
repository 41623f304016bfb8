CONSTANTS
  Contents <- MCContents
  Seed <- MCSeed
  Size = 2
SPECIFICATION Spec
INVARIANTS TypeOK FreshManifest PublishedComplete
