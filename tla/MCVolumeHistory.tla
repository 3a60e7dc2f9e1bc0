-------------------------- MODULE MCVolumeHistory --------------------------
EXTENDS VolumeHistory

ShortFiles == {<<>>} \cup {<<text>> : text \in Text}

\* blocks that differ from their neighbours, up to one too many
LongFiles ==
    ShortFiles \cup
    {[n \in 1 .. len |-> IF n % 2 = 1 THEN Zero ELSE CHOOSE text \in Text : text # Zero] :
        len \in 0 .. Ptrs + 1}

\* no action tells the names of the users apart
Symmetry == Permutations(Name)
=============================================================================
