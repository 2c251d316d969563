---------------------- MODULE PinnedMachineProperties ----------------------
(***************************************************************************)
(* What "each profile is one long-lived machine" comes to.                 *)
(***************************************************************************)
EXTENDS PinnedMachine

\* Two profiles are one computer only if somebody asked for the copy: a plain
\* clone, a preset chosen twice or a launch never give away a machine in use
\* (api.md: "A clone gets its own machine, not a copy of the source's").
OwnMachine ==
    \A p, q \in Profile :
        p # q /\ Pinned(p) /\ Pinned(q) /\ rows[p].pin.machine = rows[q].pin.machine
          => rows[p].pin.machine \in shared

\* The user agent belongs to the operating system of the machine it is pinned
\* with, however often settings are edited, machines renewed and browsers
\* refreshed in between (refresh_browser_version: "a macOS browser on Windows
\* hardware").
AgentMatchesMachine == \A p \in Profile : Pinned(p) => rows[p].pin.agent = rows[p].pin.os

WritesBack(p) ==
    launching[p].at = "pinning" /\ launching'[p] = Idle /\ rows'[p].pin = launching[p].pin

\* A pinned profile becomes another computer only if its machine and its settings
\* named different operating systems, and then they agree; refreshes, edits and
\* requests made on a stale screen leave a healthy machine alone (reconcile_os:
\* "Regenerating hardware is irreversible for an account").  The one exception is
\* a launch that writes back the pin it read before another process changed it.
HealthyMachineStays ==
    [][\A p \in Profile :
         /\ Pinned(p) /\ rows'[p].pin # None
         /\ rows'[p].pin.machine # rows[p].pin.machine
         => WritesBack(p) \/ (Disagrees(p) /\ rows'[p].pin.os = rows'[p].os)]_vars
=============================================================================
