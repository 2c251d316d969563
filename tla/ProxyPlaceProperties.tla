------------------------ MODULE ProxyPlaceProperties ------------------------
(***************************************************************************)
(* Whether what a page sees adds up, and whether a check foretells it.     *)
(***************************************************************************)
EXTENDS ProxyPlace

\* The answer kept on the profile is about the proxy the profile has, however long
\* the check took and whatever was edited meanwhile (check_profile_proxy: "the
\* answer is about a proxy this profile no longer has, so it is dropped").
CheckMatchesProxy == check # None => check.proxy = proxy

Open == session.at = "open"

\* The exit address is known, and so is its place if the launch needed it.
Known == session.exit # None /\ (session.zone # None \/ session.from.zone # None)

\* What a page can hold against the browser: a clock that is not the exit's, or
\* coordinates no reading of which is near it.
Contradicts(e) ==
    \/ session.zone = None \/ Offset[session.zone] # Offset[ZoneOf[e]]
    \/ session.from.spot # None /\ Apart(session.from.spot, e) > Far

\* A check of the same settings at the same exit warns exactly when a page could
\* find the browser contradicting itself: the rules of compare and what launches
\* do with what settings leave out agree (check-proxy: "list everything a page
\* could notice").
CheckForetells ==
    Open /\ Known => (Warned(session.from, session.exit) <=> Contradicts(session.exit))

\* A browser whose clock was left to the exit shows the clock of the very address
\* that WebRTC gives away, and this computer's own only where a lookup was made in
\* vain; also with coordinates stated, with WebRTC blocked, and with a pool of
\* exits (fill_what_geoip_would_have: "the real machine showing through").
ClockFollowsExit ==
    Open /\ session.from.zone = None =>
        IF session.zone = None THEN session.missed
        ELSE /\ session.zone = ZoneOf[session.exit]
             /\ session.webrtc \in {None, session.exit}
=============================================================================
