SPECIFICATION Spec
CONSTANTS
  v1 = v1
  v2 = v2
  image = image
  headers = headers
  Version = {v1, v2}
  Kernel = {image, headers}
  Tools = tools
  None = None
  MaxBuild = 2
SYMMETRY Symmetry
INVARIANTS
  NothingLost
  ManifestMatches
  FullRunIsComplete
