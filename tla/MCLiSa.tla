------------------------------- MODULE MCLiSa -------------------------------
EXTENDS LiSa

MCPlaces == {-2, 7, 9}
MCRates == {-5, -1, 3}
MCInputs == {-1, 0, 2}

=============================================================================
