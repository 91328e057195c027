---------------------------- MODULE MCDriveImport ----------------------------
EXTENDS DriveImportRefinement, TLC

ImportSymmetry == Permutations(Procs) \cup Permutations(Imports)
===============================================================================
