SPECIFICATION Spec
CONSTANTS
    s = s
    m = m
    l = l
    i1 = i1
    i2 = i2
    t1 = t1
    Records = {s, m, l}
    History = {l}
    First = {s, m}
    Importers = {i1, i2}
    Targets = {t1}
    MaxFaults = 1
    MaxTaken = 1
SYMMETRY AnyImporter
INVARIANTS TypeOK SourceIsKept SettingsAreKept ManifestMeansImported InsertedOnce
PROPERTIES NothingIsOverwritten RolledBackIsRestored
