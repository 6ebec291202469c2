------------------------------- MODULE MCAhci -------------------------------
(* TLC instances of Ahci.                                                  *)
EXTENDS Ahci

\* Two buffers that differ in every sector, and in neighbouring sectors.
MCPatterns == {[s \in 0..(NSectors - 1) |-> s % 2], [s \in 0..(NSectors - 1) |-> (s + 1) % 2]}

\* A window's worth, the last sector (found at the end of that window, or read
\* with nothing to read ahead), more than a window, and beyond the end.
MCRanges == {<<1, 2>>, <<NSectors - 1, 1>>, <<0, NSectors>>, <<NSectors, 1>>}

\* Kernel tasks only read (what they want of the disk are programs and pictures); of the
\* ranges, one that goes through the window.
MCRequests == {<<t, op, r[1], r[2]>> : t \in UserTask, op \in Op, r \in MCRanges}
              \cup {<<t, "read", 1, 2>> : t \in KernelTask}
=============================================================================
