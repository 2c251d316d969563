-------------------------- MODULE ProxyPlaceProofs --------------------------
(***************************************************************************)
(* Theorems about ProxyPlace for every set of proxies, exits and zones and *)
(* every location database.                                                *)
(***************************************************************************)
EXTENDS ProxyPlaceProperties, TLAPS

\* A clock stated stays; WebRTC gives away the exit's address or nothing, and nothing
\* yet where it is left to Camoufox.
FromSettings ==
    session # Down =>
        /\ session.from.zone # None => session.zone = session.from.zone
        /\ session.webrtc \in {None, session.exit}
        /\ session.at = "starting" /\ session.from.spot = None => session.webrtc = None

\* Coordinates are stated where this process asks for the exit, and while it does
\* nothing is known of the clock.
AskingForClock ==
    session.at \in {"asking", "placing"} =>
        /\ session.from.spot # None
        /\ session.from.zone = None => session.zone = None
        /\ session.at = "placing" => session.exit \in Address /\ session.from.zone = None

\* Once the questions are answered, a clock left to the exit is the exit's, or a
\* lookup was made in vain; without coordinates Camoufox has yet to ask.
ClockAnswered ==
    /\ session.at \in {"starting", "open"}
    /\ session.at = "starting" => session.from.spot # None
    /\ session.from.zone = None
    => IF session.zone = None THEN session.missed
       ELSE session.exit \in Address /\ session.zone = ZoneOf[session.exit]

PlaceInv ==
    /\ TypeOK
    /\ CheckMatchesProxy
    /\ FromSettings
    /\ AskingForClock
    /\ ClockAnswered

-----------------------------------------------------------------------------
LEMMA SettingsKept ==
    ASSUME TypeOK
    PROVE  /\ New \in Settings
           /\ FromSheet(settings) \in Settings
           /\ [settings EXCEPT !.zone = None, !.spot = None] \in Settings
           /\ \A zone \in Zone \cup {None} : [settings EXCEPT !.zone = zone] \in Settings
           /\ \A spot \in Km \cup {None} : [settings EXCEPT !.spot = spot] \in Settings
           /\ \A mode \in {"replace", "own", "none"} : [settings EXCEPT !.webrtc = mode] \in Settings
<1> USE DEF TypeOK, Settings
<1>1. New \in Settings
  BY DEF New
<1>2. FromSheet(settings) \in Settings
  BY PlaceAssumption DEF FromSheet
<1>3. QED
  BY <1>1, <1>2

LEMMA AnswersTyped ==
    ASSUME TypeOK
    PROVE  \A c \in Answers : c \in Check /\ c.proxy = proxy
BY DEF Answers, Check, TypeOK

LEMMA PlaceInit == Init => PlaceInv
<1> SUFFICES ASSUME Init PROVE PlaceInv
  OBVIOUS
<1>1. TypeOK
  BY DEF Init, TypeOK, New, Settings, Session
<1>2. QED
  BY <1>1 DEF Init, PlaceInv, CheckMatchesProxy, FromSettings, AskingForClock, ClockAnswered, Down

\* What a step that leaves the browser alone has to keep.
LEMMA BrowserApart ==
    ASSUME PlaceInv, UNCHANGED session, settings' \in Settings, proxy' \in Proxy \cup {None},
           check' \in Check \cup {None}, asked' \in Check \cup {None}, CheckMatchesProxy'
    PROVE  PlaceInv'
BY DEF PlaceInv, TypeOK, FromSettings, AskingForClock, ClockAnswered

\* What a step of the browser has to keep.
LEMMA BrowserSteps ==
    ASSUME PlaceInv, UNCHANGED <<settings, proxy, check, asked>>,
           session' \in Session, (FromSettings /\ AskingForClock /\ ClockAnswered)'
    PROVE  PlaceInv'
BY DEF PlaceInv, TypeOK, CheckMatchesProxy

LEMMA PlaceStep == PlaceInv /\ [Next]_vars => PlaceInv'
<1> SUFFICES ASSUME PlaceInv, [Next]_vars PROVE PlaceInv'
  OBVIOUS
<1> DEFINE Browser == session' \in Session /\ (FromSettings /\ AskingForClock /\ ClockAnswered)'
<1>a. TypeOK /\ CheckMatchesProxy /\ FromSettings /\ AskingForClock /\ ClockAnswered
  BY DEF PlaceInv
<1>b. /\ settings \in Settings /\ proxy \in Proxy \cup {None} /\ session \in Session
      /\ check \in Check \cup {None} /\ asked \in Check \cup {None}
  BY <1>a DEF TypeOK
<1>c. ASSUME session # Down
      PROVE  /\ session.at \in {"asking", "placing", "starting", "open"} /\ session.from \in Settings
             /\ session.via \in Proxy \cup {None} /\ session.exit \in Address \cup {None}
             /\ session.zone \in Zone \cup {None} /\ session.webrtc \in Address \cup {None}
             /\ session.missed \in BOOLEAN
             /\ session = [at |-> session.at, from |-> session.from, via |-> session.via,
                           exit |-> session.exit, zone |-> session.zone,
                           webrtc |-> session.webrtc, missed |-> session.missed]
  BY <1>b, <1>c DEF Session
<1>d. Down.at = "down"
  BY DEF Down
<1>1. ASSUME CheckStarts PROVE PlaceInv'
  <2>1. asked' \in Check
    BY <1>1, <1>a, AnswersTyped DEF CheckStarts
  <2>2. QED
    BY <2>1, <1>1, <1>a, <1>b, BrowserApart DEF CheckStarts, CheckMatchesProxy
<1>2. ASSUME CheckReturns PROVE PlaceInv'
  <2>1. check' \in Check \cup {None} /\ CheckMatchesProxy'
    BY <1>2, <1>a, <1>b DEF CheckReturns, CheckMatchesProxy
  <2>2. QED
    BY <2>1, <1>2, <1>b, BrowserApart DEF CheckReturns
<1>3. ASSUME EditSettings PROVE PlaceInv'
  <2>1. settings' \in Settings
    BY <1>3, <1>a, SettingsKept DEF EditSettings
  <2>2. QED
    BY <2>1, <1>3, <1>a, <1>b, BrowserApart DEF EditSettings, CheckMatchesProxy
<1>4. ASSUME ClearGeography PROVE PlaceInv'
  <2>1. settings' \in Settings
    BY <1>4, <1>a, SettingsKept DEF ClearGeography
  <2>2. QED
    BY <2>1, <1>4, <1>a, <1>b, BrowserApart DEF ClearGeography, CheckMatchesProxy
<1>5. ASSUME Reset PROVE PlaceInv'
  <2>1. settings' \in Settings
    BY <1>5, <1>a, SettingsKept DEF Reset
  <2>2. QED
    BY <2>1, <1>5, <1>a, <1>b, BrowserApart DEF Reset, CheckMatchesProxy
<1>6. ASSUME Reimport PROVE PlaceInv'
  <2>1. settings' \in Settings
    BY <1>6, <1>a, SettingsKept DEF Reimport
  <2>2. QED
    BY <2>1, <1>6, <1>b, BrowserApart DEF Reimport, CheckMatchesProxy
<1>7. ASSUME NEW x \in Proxy \cup {None}, EditProxy(x) PROVE PlaceInv'
  <2>1. check' \in Check \cup {None} /\ CheckMatchesProxy'
    BY <1>7, <1>a, <1>b DEF EditProxy, CheckMatchesProxy
  <2>2. QED
    BY <2>1, <1>7, <1>b, BrowserApart DEF EditProxy
<1>8. ASSUME Launch PROVE PlaceInv'
  <2> DEFINE begun == [at |-> IF Asks(settings) THEN "asking" ELSE "starting",
                       from |-> settings, via |-> proxy, exit |-> None,
                       zone |-> settings.zone, webrtc |-> None, missed |-> FALSE]
  <2>1. session' = begun
    BY <1>8 DEF Launch
  <2>2. settings.zone \in Zone \cup {None}
    BY <1>b DEF Settings
  <2>3. session' \in Session
    BY <2>1, <2>2, <1>b DEF Session
  <2>4. FromSettings'
    BY <2>1 DEF FromSettings
  <2>5. AskingForClock'
    BY <2>1 DEF AskingForClock, Asks
  <2>6. ClockAnswered'
    BY <2>1 DEF ClockAnswered, Asks, NeedsZone
  <2>7. QED
    BY <2>3, <2>4, <2>5, <2>6, <1>8, BrowserSteps DEF Launch
<1>9. ASSUME ExitFound PROVE PlaceInv'
  <2>1. PICK e \in Exits[session.via] :
          session' = [session EXCEPT
                        !.at = IF NeedsZone(session.from) THEN "placing" ELSE "starting",
                        !.exit = e,
                        !.webrtc = IF NeedsWebrtc(session.from) THEN e ELSE None]
    BY <1>9 DEF ExitFound
  <2>2. session.at = "asking" /\ session # Down
    BY <1>9, <1>d DEF ExitFound
  <2>3. e \in Address
    BY <2>1, <2>2, <1>c, PlaceAssumption
  <2>4. session' = [at |-> IF NeedsZone(session.from) THEN "placing" ELSE "starting",
                    from |-> session.from, via |-> session.via, exit |-> e, zone |-> session.zone,
                    webrtc |-> IF NeedsWebrtc(session.from) THEN e ELSE None,
                    missed |-> session.missed]
    BY <2>1, <2>2, <1>c
  <2>5. session' \in Session
    BY <2>2, <2>3, <2>4, <1>c DEF Session
  <2>6. FromSettings' /\ AskingForClock' /\ ClockAnswered'
    BY <2>2, <2>3, <2>4, <1>a DEF FromSettings, AskingForClock, ClockAnswered, NeedsZone
  <2>7. QED
    BY <2>5, <2>6, <1>9, BrowserSteps DEF ExitFound
<1>10. ASSUME ExitNotFound PROVE PlaceInv'
  <2>1. session.at = "asking" /\ session # Down
    BY <1>10, <1>d DEF ExitNotFound
  <2>2. session' = [at |-> "starting", from |-> session.from, via |-> session.via,
                    exit |-> session.exit, zone |-> session.zone, webrtc |-> session.webrtc,
                    missed |-> TRUE]
    BY <2>1, <1>10, <1>c DEF ExitNotFound
  <2>3. session' \in Session
    BY <2>1, <2>2, <1>c DEF Session
  <2>4. FromSettings' /\ AskingForClock' /\ ClockAnswered'
    BY <2>1, <2>2, <1>a DEF FromSettings, AskingForClock, ClockAnswered
  <2>5. QED
    BY <2>3, <2>4, <1>10, BrowserSteps DEF ExitNotFound
<1>11. ASSUME Placed PROVE PlaceInv'
  <2>1. session.at = "placing" /\ session # Down
    BY <1>11, <1>d DEF Placed
  <2>2. session' = [at |-> "starting", from |-> session.from, via |-> session.via,
                    exit |-> session.exit, zone |-> ZoneOf[session.exit],
                    webrtc |-> session.webrtc, missed |-> session.missed]
    BY <2>1, <1>11, <1>c DEF Placed
  <2>3. session.exit \in Address /\ session.from.zone = None
    BY <2>1, <1>a DEF AskingForClock
  <2>4. ZoneOf[session.exit] \in Zone
    BY <2>3, PlaceAssumption
  <2>5. session' \in Session
    BY <2>1, <2>2, <2>4, <1>c DEF Session
  <2>6. FromSettings' /\ AskingForClock' /\ ClockAnswered'
    BY <2>1, <2>2, <2>3, <2>4, <1>a, PlaceAssumption DEF FromSettings, AskingForClock, ClockAnswered
  <2>7. QED
    BY <2>5, <2>6, <1>11, BrowserSteps DEF Placed
<1>12. ASSUME NotPlaced PROVE PlaceInv'
  <2>1. session.at = "placing" /\ session # Down
    BY <1>12, <1>d DEF NotPlaced
  <2>2. session' = [at |-> "starting", from |-> session.from, via |-> session.via,
                    exit |-> session.exit, zone |-> session.zone, webrtc |-> session.webrtc,
                    missed |-> TRUE]
    BY <2>1, <1>12, <1>c DEF NotPlaced
  <2>3. session' \in Session
    BY <2>1, <2>2, <1>c DEF Session
  <2>4. FromSettings' /\ AskingForClock' /\ ClockAnswered'
    BY <2>1, <2>2, <1>a DEF FromSettings, AskingForClock, ClockAnswered
  <2>5. QED
    BY <2>3, <2>4, <1>12, BrowserSteps DEF NotPlaced
<1>13. ASSUME Starts PROVE PlaceInv'
  <2>1. session.at = "starting" /\ session # Down
    BY <1>13, <1>d DEF Starts
  <2>2. CASE session.from.spot # None
    <3>1. session' = [at |-> "open", from |-> session.from, via |-> session.via,
                      exit |-> session.exit, zone |-> session.zone, webrtc |-> session.webrtc,
                      missed |-> session.missed]
      BY <2>1, <2>2, <1>13, <1>c DEF Starts
    <3>2. session' \in Session
      BY <2>1, <3>1, <1>c DEF Session
    <3>3. FromSettings' /\ AskingForClock' /\ ClockAnswered'
      BY <2>1, <2>2, <3>1, <1>a DEF FromSettings, AskingForClock, ClockAnswered
    <3>4. QED
      BY <3>2, <3>3, <1>13, BrowserSteps DEF Starts
  <2>3. CASE session.from.spot = None
    <3>1. PICK e \in Exits[session.via] :
            session' = [session EXCEPT
                          !.at = "open",
                          !.exit = e,
                          !.zone = IF NeedsZone(session.from) THEN ZoneOf[e] ELSE @,
                          !.webrtc = IF NeedsWebrtc(session.from) THEN e ELSE @]
      BY <2>3, <1>13 DEF Starts
    <3>2. e \in Address /\ ZoneOf[e] \in Zone
      BY <2>1, <3>1, <1>c, PlaceAssumption
    <3>3. session' = [at |-> "open", from |-> session.from, via |-> session.via, exit |-> e,
                      zone |-> IF NeedsZone(session.from) THEN ZoneOf[e] ELSE session.zone,
                      webrtc |-> IF NeedsWebrtc(session.from) THEN e ELSE session.webrtc,
                      missed |-> session.missed]
      BY <2>1, <3>1, <1>c
    <3>4. session' \in Session
      BY <2>1, <3>2, <3>3, <1>c DEF Session
    <3>5. FromSettings' /\ AskingForClock' /\ ClockAnswered'
      <4>1. session.webrtc = None /\ (session.from.zone # None => session.zone = session.from.zone)
        BY <2>1, <2>3, <1>a DEF FromSettings
      <4>2. FromSettings'
        BY <3>3, <4>1 DEF FromSettings, NeedsZone
      <4>3. AskingForClock'
        BY <3>3 DEF AskingForClock
      <4>4. ZoneOf[e] # None
        BY <3>2, PlaceAssumption
      <4>5. ClockAnswered'
        BY <3>2, <3>3, <4>4 DEF ClockAnswered, NeedsZone
      <4>6. QED
        BY <4>2, <4>3, <4>5
    <3>6. QED
      BY <3>4, <3>5, <1>13, BrowserSteps DEF Starts
  <2>4. QED
    BY <2>2, <2>3
<1>14. ASSUME Ends PROVE PlaceInv'
  <2>1. session' = Down
    BY <1>14 DEF Ends
  <2>2. session' \in Session /\ FromSettings' /\ AskingForClock' /\ ClockAnswered'
    BY <2>1, <1>d DEF Session, FromSettings, AskingForClock, ClockAnswered
  <2>3. QED
    BY <2>2, <1>14, BrowserSteps DEF Ends
<1>15. CASE UNCHANGED vars
  BY <1>15, <1>a, <1>b, BrowserApart DEF vars, CheckMatchesProxy
<1>16. QED
  BY <1>1, <1>2, <1>3, <1>4, <1>5, <1>6, <1>7, <1>8, <1>9, <1>10, <1>11, <1>12, <1>13, <1>14, <1>15
     DEF Next

LEMMA AlwaysPlaced == Spec => []PlaceInv
BY PlaceInit, PlaceStep, PTL DEF Spec

-----------------------------------------------------------------------------
\* Settings, checks and sessions are what they should be, whatever addresses, zones
\* and coordinates there are.
THEOREM PlaceTypeCorrect == Spec => []TypeOK
<1>1. PlaceInv => TypeOK
  BY DEF PlaceInv
<1>2. QED
  BY <1>1, AlwaysPlaced, PTL

\* The answer of a check that outlasts an edit of the proxy is dropped
\* (check_profile_proxy).
THEOREM ChecksMatch == Spec => []CheckMatchesProxy
<1>1. PlaceInv => CheckMatchesProxy
  BY DEF PlaceInv
<1>2. QED
  BY <1>1, AlwaysPlaced, PTL

\* With any location database, a clock left to the exit is that of the address WebRTC
\* gives away, or a lookup was made in vain (fill_what_geoip_would_have).
THEOREM ClocksFollow == Spec => []ClockFollowsExit
<1>1. PlaceInv => ClockFollowsExit
  <2> SUFFICES ASSUME PlaceInv, Open, session.from.zone = None
               PROVE  IF session.zone = None THEN session.missed
                      ELSE /\ session.zone = ZoneOf[session.exit]
                           /\ session.webrtc \in {None, session.exit}
    BY DEF ClockFollowsExit
  <2>1. session # Down
    BY DEF Open, Down
  <2>2. QED
    BY <2>1 DEF PlaceInv, Open, FromSettings, ClockAnswered
<1>2. QED
  BY <1>1, AlwaysPlaced, PTL

-----------------------------------------------------------------------------
\* compare warns exactly when one of the two things a page can see is wrong.
LEMMA WarnedOf ==
    ASSUME NEW s, NEW e
    PROVE  Warned(s, e) <=>
             \/ /\ s.zone # None /\ s.zone # ZoneOf[e]
                /\ Offset[s.zone] # Offset[ZoneOf[e]]
             \/ s.spot # None /\ Apart(s.spot, e) > Far
<1> DEFINE Clock == /\ s.zone # None /\ s.zone # ZoneOf[e]
                    /\ Offset[s.zone] # Offset[ZoneOf[e]]
           Spot == s.spot # None /\ Apart(s.spot, e) > Far
<1>1. \A f \in TimezoneFinding(s, e) : f[1] = "warning" <=> f = <<"warning", "timezone">>
  BY DEF TimezoneFinding
<1>2. <<"warning", "timezone">> \in TimezoneFinding(s, e) <=> Clock
  BY DEF TimezoneFinding
<1>3. \A f \in GeolocationFinding(s, e) : f[1] = "warning" <=> f = <<"warning", "geolocation">>
  BY DEF GeolocationFinding
<1>4. <<"warning", "geolocation">> \in GeolocationFinding(s, e) <=> Spot
  BY DEF GeolocationFinding
<1>5. QED
  BY <1>1, <1>2, <1>3, <1>4 DEF Warned, Compare

\* Whatever the location database says, a check warns exactly of the browsers that
\* contradict themselves: what it compares and what a launch fills in agree
\* (compare, build_launch_options, fill_what_geoip_would_have).
THEOREM ChecksForetell == Spec => []CheckForetells
<1>1. PlaceInv => CheckForetells
  <2> SUFFICES ASSUME PlaceInv, Open, Known
               PROVE  Warned(session.from, session.exit) <=> Contradicts(session.exit)
    BY DEF CheckForetells
  <2>1. session # Down
    BY DEF Open, Down
  <2>2. CASE session.from.zone # None
    <3>1. session.zone = session.from.zone
      BY <2>1, <2>2 DEF PlaceInv, FromSettings
    <3>2. QED
      BY <2>2, <3>1, WarnedOf DEF Contradicts
  <2>3. CASE session.from.zone = None
    <3>1. session.zone = ZoneOf[session.exit] /\ session.zone # None
      BY <2>3 DEF PlaceInv, Open, Known, ClockAnswered
    <3>2. QED
      BY <2>3, <3>1, WarnedOf DEF Contradicts
  <2>4. QED
    BY <2>2, <2>3
<1>2. QED
  BY <1>1, AlwaysPlaced, PTL
=============================================================================
