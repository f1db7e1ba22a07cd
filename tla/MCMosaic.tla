------------------------------- MODULE MCMosaic -------------------------------
EXTENDS Mosaic

Nothing    == [channels |-> << >>, focus |-> NO_FOCUS]
Both       == [channels |-> <<11, 12>>, focus |-> NO_FOCUS]
Second     == [channels |-> <<11, 12>>, focus |-> 1]
MCSelected == {Nothing, Both, Second}
MCSeed     == [channels |-> <<11>>, focus |-> NO_FOCUS]

\* Two generations of the grid never exist at once: this fails (see Supervisor).
OneGeneration == Grid!OneGeneration
===============================================================================
