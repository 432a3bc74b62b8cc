SPECIFICATION ArtifactsSpec
CONSTANTS
    e1 = e1
    e2 = e2
    Exporter <- Exporters
    NoFile = NoFile
    MaxAdvances = 2
    MaxFaults = 3
    MaxLosses = 2
SYMMETRY Symmetric
INVARIANTS BundleIsWhole ReceiptIsDurable
