------------------------------ MODULE MCVolume ------------------------------
EXTENDS VolumeSafety

ShortFiles == {<<>>} \cup {<<text>> : text \in Text}

\* a file that uses every block pointer
FullFile == {[n \in 1 .. Ptrs |-> Zero]}

\* no action tells the names of the users apart
Symmetry == Permutations(Name)
=============================================================================
