SPECIFICATION RecordingSpec
CONSTANTS
    Proc = {p}
    Manifest <- RemoteManifests
    Layer <- Layers
    Tag <- RemoteTags
    LayerOf <- RemoteLayerOf
    Image <- RemoteImage
    LocalTag <- None
    Floating <- None
    Operation <- Pulls
    NoProc = NoProc
    NoManifest = NoManifest
    NoTag = NoTag
    p = p q = q a1 = a1 b1 = b1 n1 = n1 n2 = n2
    l1 = l1 a = a b = b n = n
INVARIANT PulledIsCached
