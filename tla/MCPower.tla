------------------------------ MODULE MCPower ------------------------------
EXTENDS Power

\* PPCC limits of the configuration, with and without a second limit.
Ppcc == [source |-> "conf", pl0_max |-> 4, pl0_min |-> 1, min_window |-> 2, max_window |-> 3,
         pl2_max |-> 0, step |-> 1, pl1_max |-> 4, pl1 |-> 3, pl2 |-> 5, window |-> 1,
         enabled |-> 0, locked |-> FALSE]

\* Powercap alone, with a usable maximum and without one; and a locked package.
MCPlatforms ==
    { Ppcc,
      [Ppcc EXCEPT !.pl2 = 0],
      [Ppcc EXCEPT !.source = "pci", !.pl0_min = 0],
      [Ppcc EXCEPT !.source = "none", !.min_window = 0, !.step = 2],
      [Ppcc EXCEPT !.source = "none", !.min_window = 0, !.pl1_max = -1, !.enabled = 1],
      [Ppcc EXCEPT !.source = "pci", !.locked = TRUE] }

MCTargets ==
    [code : {"PL1MAX"}, argument : {2, 3}]
        \cup [code : {"PL1MIN", "PL1STEP"}, argument : {2}]
        \cup [code : {"PL1TimeWindow", "PL1PowerLimit"}, argument : {3}]
        \cup [code : {"PL2PowerLimit"}, argument : {6}]
=============================================================================
