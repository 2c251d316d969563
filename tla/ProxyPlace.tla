----------------------------- MODULE ProxyPlace -----------------------------
(***************************************************************************)
(* Where one profile appears to be: the place its settings state, the one  *)
(* its proxy comes out at, what a proxy check says of the two, and what a  *)
(* browser launched meanwhile shows a page.                                *)
(*                                                                         *)
(* In one process: a check and a launch each suspend while the network is  *)
(* asked, and the profile is edited in between.  Coordinates are reduced   *)
(* to kilometres along a line.                                             *)
(***************************************************************************)
EXTENDS Integers

CONSTANTS
    None,
    Proxy,        \* proxy configurations; None is a direct connection
    Address,      \* exit addresses
    Exits,        \* the addresses a proxy comes out at; a pool rotates
    Zone,         \* timezone names
    UTC,          \* the zone an empty spreadsheet cell stands for
    ZoneOf,       \* the zone and the coordinate the location database
    KmOf,         \*   has for an address
    Offset,       \* hours from UTC of a zone
    Km            \* coordinates settings may state

ASSUME PlaceAssumption ==
    /\ None \notin Proxy \cup Address \cup Zone
    /\ Exits \in [Proxy \cup {None} -> SUBSET Address]
    /\ ZoneOf \in [Address -> Zone] /\ KmOf \in [Address -> Int]
    /\ UTC \in Zone /\ Offset \in [Zone -> Int]
    /\ Km \subseteq Int

VARIABLES
    settings,     \* what browser_settings state of the place
    proxy,
    check,        \* the last answer of a proxy check, kept on the profile
    asked,        \* a check under way: the proxy asked about and what it will say
    session       \* the browser, from composing its launch options on

vars == <<settings, proxy, check, asked, session>>

\* webrtc: "own" is webrtc_public_ip stated, "none" blocks WebRTC, and "replace"
\* stands for the other modes, which all report the exit's address.
Settings == [zone : Zone \cup {None}, spot : Km \cup {None}, webrtc : {"replace", "own", "none"}]

Check == [proxy : Proxy \cup {None}, level : {"unreachable", "unplaced", "warning", "fine"}]

\* from, via: the settings and the proxy the launch read; exit: the address found;
\* zone: what the browser is given for a clock, None leaving it this computer's own;
\* webrtc: the exit's address given to WebRTC;
\* missed: a lookup was made in vain.
Down == [at |-> "down"]
Session ==
    {Down}
    \cup [at : {"asking", "placing", "starting", "open"}, from : Settings, via : Proxy \cup {None},
          exit : Address \cup {None}, zone : Zone \cup {None}, webrtc : Address \cup {None},
          missed : BOOLEAN]

TypeOK ==
    /\ settings \in Settings
    /\ proxy \in Proxy \cup {None}
    /\ check \in Check \cup {None}
    /\ asked \in Check \cup {None}
    /\ session \in Session

\* The settings of a new profile; those of old ones and imports state a place.
New == [zone |-> None, spot |-> None, webrtc |-> "replace"]

Init ==
    /\ settings = New
    /\ proxy \in Proxy \cup {None}
    /\ check = None
    /\ asked = None
    /\ session = Down

-----------------------------------------------------------------------------
\* compare: what is worth telling of these settings at this exit address.
Nearby == 100
Far == 500

Apart(km, e) == LET d == km - KmOf[e] IN IF d < 0 THEN -d ELSE d

\* Mutant: two zones differ when their names do.
TimezoneFindingByName(s, e) ==
    IF s.zone = None THEN {<<"info", "timezone">>}
    ELSE IF s.zone = ZoneOf[e] THEN {} ELSE {<<"warning", "timezone">>}

TimezoneFinding(s, e) ==
    IF s.zone = None THEN {<<"info", "timezone">>}
    ELSE IF s.zone = ZoneOf[e] THEN {}
    ELSE IF Offset[s.zone] = Offset[ZoneOf[e]] THEN {<<"info", "timezone">>}
    ELSE {<<"warning", "timezone">>}

GeolocationFinding(s, e) ==
    IF s.spot = None THEN {}
    ELSE IF Apart(s.spot, e) > Far THEN {<<"warning", "geolocation">>}
    ELSE IF Apart(s.spot, e) > Nearby THEN {<<"info", "geolocation">>}
    ELSE {}

Compare(s, e) == TimezoneFinding(s, e) \cup GeolocationFinding(s, e)

Warned(s, e) == \E f \in Compare(s, e) : f[1] = "warning"

\* check, for what it will find: the exit, placed on the map or not, or no answer.
Answers ==
    {[proxy |-> proxy, level |-> level] : level \in {"unreachable", "unplaced"}}
    \cup {[proxy |-> proxy, level |-> IF Warned(settings, e) THEN "warning" ELSE "fine"] :
            e \in Exits[proxy]}

\* POST /check-proxy reads the profile and asks ...
CheckStarts ==
    /\ asked = None
    /\ asked' \in Answers
    /\ UNCHANGED <<settings, proxy, check, session>>

\* Mutant: the answer is kept whatever became of the proxy.
CheckReturnsRegardless ==
    /\ asked # None
    /\ check' = asked
    /\ asked' = None
    /\ UNCHANGED <<settings, proxy, session>>

\* ... and keeps the answer if the profile, read again, still has that proxy.
CheckReturns ==
    /\ asked # None
    /\ check' = IF asked.proxy = proxy THEN asked ELSE check
    /\ asked' = None
    /\ UNCHANGED <<settings, proxy, session>>

-----------------------------------------------------------------------------
\* PUT browser_settings: one of the three fields.
EditSettings ==
    /\ \/ \E zone \in Zone \cup {None} : settings' = [settings EXCEPT !.zone = zone]
       \/ \E spot \in Km \cup {None} : settings' = [settings EXCEPT !.spot = spot]
       \/ \E mode \in {"replace", "own", "none"} : settings' = [settings EXCEPT !.webrtc = mode]
    /\ UNCHANGED <<proxy, check, asked, session>>

\* PUT proxy_config: an answer about another proxy is dropped.
EditProxy(x) ==
    /\ proxy' = x
    /\ check' = IF x = proxy THEN check ELSE None
    /\ UNCHANGED <<settings, asked, session>>

\* clear_geography leaves WebRTC alone; nothing stated is nothing to clear.
ClearGeography ==
    /\ settings.zone # None \/ settings.spot # None
    /\ settings' = [settings EXCEPT !.zone = None, !.spot = None]
    /\ UNCHANGED <<proxy, check, asked, session>>

\* reset-fingerprint: a new profile's settings, the proxy kept.
Reset ==
    /\ settings' = New
    /\ UNCHANGED <<proxy, check, asked, session>>

\* Mutant: an empty cell is an empty name.
FromSheetVerbatim(s) ==
    [zone |-> IF s.zone = None THEN "" ELSE s.zone,
     spot |-> s.spot,
     webrtc |-> IF s.webrtc = "own" THEN "replace" ELSE s.webrtc]

\* What a spreadsheet row makes of the settings it was written from: an empty
\* timezone becomes UTC, and webrtc_public_ip has no column.
FromSheet(s) ==
    [zone |-> IF s.zone = None THEN UTC ELSE s.zone,
     spot |-> s.spot,
     webrtc |-> IF s.webrtc = "own" THEN "replace" ELSE s.webrtc]

\* The profile is exported to a spreadsheet and imported; from here on it is the
\* new profile we follow.
Reimport ==
    /\ session = Down /\ asked = None
    /\ settings' = FromSheet(settings)
    /\ check' = None
    /\ UNCHANGED <<proxy, asked, session>>

-----------------------------------------------------------------------------
\* Without coordinates Camoufox asks for the exit address itself; with them, its
\* lookup is off and what it would have supplied is supplied here.
NeedsZone(s) == s.zone = None
NeedsWebrtc(s) == s.webrtc = "replace"
Asks(s) == s.spot # None /\ (NeedsZone(s) \/ NeedsWebrtc(s))

\* Mutant: the lookup is made for the WebRTC address only.
LaunchAsksForWebrtc ==
    /\ session = Down
    /\ session' = [at |-> IF settings.spot # None /\ NeedsWebrtc(settings) THEN "asking" ELSE "starting",
                   from |-> settings, via |-> proxy, exit |-> None,
                   zone |-> settings.zone, webrtc |-> None, missed |-> FALSE]
    /\ UNCHANGED <<settings, proxy, check, asked>>

\* launch_browser reads the profile and composes the launch options; from here on
\* neither an edit nor another check has a part in them.
Launch ==
    /\ session = Down
    /\ session' = [at |-> IF Asks(settings) THEN "asking" ELSE "starting",
                   from |-> settings, via |-> proxy, exit |-> None,
                   zone |-> settings.zone, webrtc |-> None, missed |-> FALSE]
    /\ UNCHANGED <<settings, proxy, check, asked>>

\* resolve_exit_ip: some endpoint answers with an address, through the launch's proxy.
ExitFound ==
    /\ session.at = "asking"
    /\ \E e \in Exits[session.via] :
         session' = [session EXCEPT
                       !.at = IF NeedsZone(session.from) THEN "placing" ELSE "starting",
                       !.exit = e,
                       !.webrtc = IF NeedsWebrtc(session.from) THEN e ELSE None]
    /\ UNCHANGED <<settings, proxy, check, asked>>

\* None of them does: the launch is left alone.
ExitNotFound ==
    /\ session.at = "asking"
    /\ session' = [session EXCEPT !.at = "starting", !.missed = TRUE]
    /\ UNCHANGED <<settings, proxy, check, asked>>

\* locate
Placed ==
    /\ session.at = "placing"
    /\ session' = [session EXCEPT !.at = "starting", !.zone = ZoneOf[session.exit]]
    /\ UNCHANGED <<settings, proxy, check, asked>>

NotPlaced ==
    /\ session.at = "placing"
    /\ session' = [session EXCEPT !.at = "starting", !.missed = TRUE]
    /\ UNCHANGED <<settings, proxy, check, asked>>

\* Camoufox starts the browser, filling in what its own lookup supplies.
Starts ==
    /\ session.at = "starting"
    /\ IF session.from.spot # None THEN session' = [session EXCEPT !.at = "open"]
       ELSE \E e \in Exits[session.via] :
              session' = [session EXCEPT
                            !.at = "open",
                            !.exit = e,
                            !.zone = IF NeedsZone(session.from) THEN ZoneOf[e] ELSE @,
                            !.webrtc = IF NeedsWebrtc(session.from) THEN e ELSE @]
    /\ UNCHANGED <<settings, proxy, check, asked>>

\* The browser does not start, or is closed.
Ends ==
    /\ session.at \in {"starting", "open"}
    /\ session' = Down
    /\ UNCHANGED <<settings, proxy, check, asked>>

Next ==
    \/ CheckStarts \/ CheckReturns
    \/ EditSettings \/ ClearGeography \/ Reset \/ Reimport
    \/ \E x \in Proxy \cup {None} : EditProxy(x)
    \/ Launch \/ ExitFound \/ ExitNotFound \/ Placed \/ NotPlaced \/ Starts \/ Ends

Spec == Init /\ [][Next]_vars
=============================================================================
