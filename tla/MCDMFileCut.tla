---------------------------- MODULE MCDMFileCut ----------------------------
\* A small instance of DMFileCut: see MCDMFile.
EXTENDS DMFileCut

MCLens == {1, 2}
MCVal == {4}

\* Nothing is claimed of a file in which a replacement was cut off.
Uncut == ~cut

=============================================================================
