-------------------------------- MODULE MCXj --------------------------------
\* Xj for TLC: the importers are interchangeable.
EXTENDS Xj, TLC

AnyImporter == Permutations(Importers)
=============================================================================
