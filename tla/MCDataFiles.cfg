SPECIFICATION Spec
CONSTANTS
  Patches <- TwoPatches
  Chunks = {"sprites"}
INVARIANTS
  ShadersPatched
  ChunksFound
