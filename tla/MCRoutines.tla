------------------------------ MODULE MCRoutines ------------------------------
EXTENDS Routines

\* Every number of figures up to the commas' limit and beyond, and both signs.
MCNumbers == {-2147483647, -10, -1, 0, 9, 10, 99, 100, 999, 1000, 12345, 99999,
              123456, 2147483647}

\* Off the screen on each side, on its edges and inside.
MCPlaces == {-2, 0, 1, 3, 5}
=============================================================================
