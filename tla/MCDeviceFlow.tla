---------------------------- MODULE MCDeviceFlow ----------------------------
(* Small instances of DeviceFlow: what a device code response says, in half *)
(* seconds.                                                                 *)
EXTENDS DeviceFlow

\* No interval (5 seconds), the 0 that is raised to a second, one that is left
\* below it, and one that is no pause at all.
MCIntervals == {Nil, 0, 1, -2}

\* A code that outlives a few polls, and one without an expiration date.
MCLifetimes == {Nil, 2}
=============================================================================
