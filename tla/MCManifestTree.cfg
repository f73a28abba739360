\* Patches with one or two containers, complete or not, one after the other.
SPECIFICATION Spec
CONSTANTS
    Texts <- MCTexts
    Manifests <- MCManifests
    PatchSets <- MCPatchSets
INVARIANTS TypeOK TyposAreReported AgainIsClean
PROPERTIES PatchesAsPromised StaysParsable
