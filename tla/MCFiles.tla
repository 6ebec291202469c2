------------------------------ MODULE MCFiles -------------------------------
EXTENDS Files

MCNameSize == [n \in {".", "..", "", "a", "d"} |-> IF n = "a" THEN 4 ELSE 3]
MCPath == {<<"a">>, <<"d">>, <<"d", "a">>}
MCOpenFlags == {{"read", "write", "create"}, {"write", "trunc"}, {"write", "append"}, {"read"}}
\* The passing run does not look behind a case the code leaves inconsistent.
Unspoiled == ~spoiled
\* MCFilesLoose looks behind a power loss, not behind a failed write (its file
\* is still open).
OnlyPowerLoss == spoiled => \A fd \in Fd : ~Open(fd)
=============================================================================
