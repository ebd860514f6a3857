SPECIFICATION RecordingSpec
CONSTANTS
    Proc = {p, q}
    Manifest <- MixedManifests
    Layer <- Layers
    Tag <- MixedTags
    LayerOf <- MixedLayerOf
    Image <- MixedImage
    LocalTag <- LocalTags
    Floating <- None
    Operation <- All
    NoProc = NoProc
    NoManifest = NoManifest
    NoTag = NoTag
    p = p q = q a1 = a1 b1 = b1 n1 = n1 n2 = n2
    l1 = l1 a = a b = b n = n
SYMMETRY Processes
INVARIANTS TypeOK LayersAreCached LocalIsInstallable UnusedBlobsAreExplained
PROPERTIES PublishedIsComplete RetryRestoresMetadata OnlyRemovalUnregisters
