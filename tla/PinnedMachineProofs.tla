------------------------ MODULE PinnedMachineProofs ------------------------
(***************************************************************************)
(* Theorems about PinnedMachine for every number of profiles, machines,    *)
(* operating systems and browser versions.                                 *)
(***************************************************************************)
EXTENDS PinnedMachineProperties, TLAPS

\* The pins a profile has, or will have when its launch writes one back.
PinsOf(p) ==
    (IF Pinned(p) THEN {rows[p].pin} ELSE {})
    \cup (IF launching[p].at = "pinning" /\ launching[p].pin # None THEN {launching[p].pin} ELSE {})

\* What a page sees of one machine is of one piece.
Matching(pin) == pin \in Pin /\ pin.agent = pin.os

PinsMatch == \A p \in Profile : \A pin \in PinsOf(p) : Matching(pin)

PinsMinted == \A p \in Profile : \A pin \in PinsOf(p) : pin.machine \in minted

\* A machine that two profiles have, or are about to have, was asked for twice.
PinsApart ==
    \A p, q \in Profile : p # q =>
        \A a \in PinsOf(p), b \in PinsOf(q) : a.machine = b.machine => a.machine \in shared

\* Who is being launched is saved.
LaunchesHaveRows == \A p \in Profile : launching[p].at = "pinning" => rows[p] \in Row

MachineInv == TypeOK /\ LaunchesHaveRows /\ PinsMatch /\ PinsMinted /\ PinsApart

-----------------------------------------------------------------------------
\* What is resolved is a whole machine nobody has had yet.
LEMMA ResolvedIsNew ==
    ASSUME TypeOK, NEW os \in Os, NEW pin \in Resolved(os)
    PROVE  Matching(pin) /\ pin.os = os /\ pin.machine \in Machine \ minted
BY DEF TypeOK, Resolved, Matching, Pin, Version

\* A refresh keeps the machine and makes the user agent fit it.
LEMMA RefreshedIsSame ==
    ASSUME TypeOK, NEW pin \in Pin, installed # 0
    PROVE  /\ Matching(Refreshed(pin, pin.os))
           /\ Refreshed(pin, pin.os).machine = pin.machine
           /\ Refreshed(pin, pin.os).os = pin.os
<1> DEFINE fitted == [pin EXCEPT !.agent = pin.os]
<1>1. pin.os \in Os /\ pin.machine \in Machine /\ installed \in Version
  BY MaxVersionAssumption DEF TypeOK, Pin, Version
<1>2. fitted \in Pin /\ fitted.os = pin.os /\ fitted.machine = pin.machine /\ fitted.agent = pin.os
  BY <1>1 DEF Pin
<1>3. Refreshed(pin, pin.os) = [fitted EXCEPT !.version = installed]
  BY DEF Refreshed
<1>4. /\ Refreshed(pin, pin.os) \in Pin
      /\ Refreshed(pin, pin.os).os = fitted.os
      /\ Refreshed(pin, pin.os).machine = fitted.machine
      /\ Refreshed(pin, pin.os).agent = fitted.agent
  <2> HIDE DEF fitted
  <2> QED
    BY <1>1, <1>2, <1>3 DEF Pin
<1>5. QED
  BY <1>2, <1>4 DEF Matching

\* A saved profile is a row, a pinned one has a pin in it, and so has a launch.
LEMMA RowTypes ==
    ASSUME TypeOK, NEW p \in Profile
    PROVE  /\ Saved(p) => rows[p] \in Row /\ rows[p].os \in Os /\ rows[p].pin \in Pin \cup {None}
           /\ Pinned(p) => Saved(p) /\ rows[p].pin \in Pin /\ rows[p].pin.os \in Os
           /\ launching[p].at = "pinning" => launching[p].pin \in Pin \cup {None}
<1>1. Saved(p) => rows[p] \in Row /\ rows[p].os \in Os /\ rows[p].pin \in Pin \cup {None}
  BY DEF TypeOK, Saved, Row
<1>2. Pinned(p) => Saved(p) /\ rows[p].pin \in Pin /\ rows[p].pin.os \in Os
  BY <1>1 DEF Pinned, Pin
<1>3. launching[p].at = "pinning" => launching[p].pin \in Pin \cup {None}
  BY DEF TypeOK, Launching, Idle
<1>4. QED
  BY <1>1, <1>2, <1>3

-----------------------------------------------------------------------------
\* The steps that write one row and nothing else of any profile: what they write, and
\* the pins the profile has afterwards.
LEMMA WritingTypes ==
    ASSUME TypeOK, NEW p \in Profile, NEW row \in Row, Writes(p, row), UNCHANGED launching
    PROVE  /\ rows' \in [Profile -> Row \cup {None}]
           /\ PinsOf(p)' \subseteq PinsOf(p) \cup ({row.pin} \ {None})
           /\ \A q \in Profile : q # p => PinsOf(q)' = PinsOf(q)
<1>1. rows' = [rows EXCEPT ![p] = row] /\ rows \in [Profile -> Row \cup {None}]
  BY DEF TypeOK, Writes
<1>2. rows'[p] = row /\ \A q \in Profile : q # p => rows'[q] = rows[q]
  BY <1>1
<1>3. QED
  BY <1>1, <1>2 DEF PinsOf, Pinned, Saved

-----------------------------------------------------------------------------
LEMMA MachineInit == Init => MachineInv
<1> SUFFICES ASSUME Init PROVE MachineInv
  OBVIOUS
<1>1. TypeOK
  BY MaxVersionAssumption DEF Init, TypeOK, Launching
<1>2. \A p \in Profile : PinsOf(p) = {}
  BY DEF Init, PinsOf, Pinned, Saved, Idle
<1>3. QED
  BY <1>1, <1>2 DEF Init, Idle, MachineInv, LaunchesHaveRows, PinsMatch, PinsMinted, PinsApart

\* What each step may do to the pins: those of a profile are the ones it had, a new
\* machine for it alone, or one that is shared on request.
Inherits(p) ==
    \A pin \in PinsOf(p)' :
        /\ Matching(pin)
        /\ \/ \E old \in PinsOf(p) : old.machine = pin.machine
           \/ pin.machine \in minted' \ minted /\ \A q \in Profile \ {p} : PinsOf(q)' = PinsOf(q)
           \/ pin.machine \in shared'

LEMMA InheritingPreserves ==
    ASSUME MachineInv, TypeOK', LaunchesHaveRows', minted \subseteq minted', shared \subseteq shared',
           \A p \in Profile : Inherits(p)
    PROVE  MachineInv'
<1>1. PinsMatch'
  BY DEF PinsMatch, Inherits, Matching, Pin, Version
<1>2. PinsMinted'
  BY DEF PinsMinted, Inherits, MachineInv, TypeOK
<1>3. PinsApart'
  <2> SUFFICES ASSUME NEW p \in Profile, NEW q \in Profile, p # q,
                      NEW a \in PinsOf(p)', NEW b \in PinsOf(q)', a.machine = b.machine
               PROVE  a.machine \in shared'
    BY DEF PinsApart
  <2>1. CASE a.machine \in minted' \ minted /\ \A r \in Profile \ {p} : PinsOf(r)' = PinsOf(r)
    BY <2>1 DEF MachineInv, PinsMinted
  <2>2. CASE b.machine \in minted' \ minted /\ \A r \in Profile \ {q} : PinsOf(r)' = PinsOf(r)
    BY <2>2 DEF MachineInv, PinsMinted
  <2>3. CASE \E old \in PinsOf(p) : old.machine = a.machine
    <3>1. CASE \E old \in PinsOf(q) : old.machine = b.machine
      BY <2>3, <3>1 DEF MachineInv, PinsApart
    <3>2. QED
      BY <3>1, <2>2 DEF Inherits
  <2>4. QED
    BY <2>1, <2>3 DEF Inherits
<1>4. QED
  BY <1>1, <1>2, <1>3 DEF MachineInv

-----------------------------------------------------------------------------
Keeps ==
    /\ TypeOK' /\ LaunchesHaveRows'
    /\ minted \subseteq minted' /\ shared \subseteq shared'
    /\ \A p \in Profile : Inherits(p)

\* A profile that gets no other pin inherits its own.
LEMMA KeptPins ==
    ASSUME MachineInv, NEW p \in Profile, PinsOf(p)' \subseteq PinsOf(p)
    PROVE  Inherits(p)
BY DEF MachineInv, PinsMatch, Inherits

\* A step that writes one row may give it a pin with the machine it had, with a new
\* one, or with one that is shared.
LEMMA WritingKeeps ==
    ASSUME MachineInv, NEW p \in Profile, NEW row \in Row, Writes(p, row),
           UNCHANGED <<installed, launching>>,
           minted \subseteq minted', minted' \subseteq Machine,
           shared \subseteq shared', shared' \subseteq minted',
           row.pin # None =>
             /\ Matching(row.pin)
             /\ \/ \E old \in PinsOf(p) : old.machine = row.pin.machine
                \/ row.pin.machine \in minted' \ minted
                \/ row.pin.machine \in shared'
    PROVE  Keeps
<1>0. TypeOK
  BY DEF MachineInv
<1>1. /\ rows' \in [Profile -> Row \cup {None}]
      /\ PinsOf(p)' \subseteq PinsOf(p) \cup ({row.pin} \ {None})
      /\ \A q \in Profile : q # p => PinsOf(q)' = PinsOf(q)
  BY <1>0, WritingTypes
<1>2. TypeOK' /\ LaunchesHaveRows'
  BY <1>0, <1>1 DEF TypeOK, MachineInv, LaunchesHaveRows, Writes
<1>3. ASSUME NEW q \in Profile, q # p PROVE Inherits(q)
  BY <1>1, <1>3, KeptPins
<1>4. ASSUME NEW pin \in PinsOf(p)'
      PROVE  /\ Matching(pin)
             /\ \/ \E old \in PinsOf(p) : old.machine = pin.machine
                \/ pin.machine \in minted' \ minted
                   /\ \A q \in Profile \ {p} : PinsOf(q)' = PinsOf(q)
                \/ pin.machine \in shared'
  <2>1. CASE pin \in PinsOf(p)
    BY <2>1 DEF MachineInv, PinsMatch
  <2>2. CASE pin = row.pin /\ row.pin # None
    BY <2>2, <1>1
  <2>3. QED
    BY <2>1, <2>2, <1>1
<1>5. Inherits(p)
  BY <1>4 DEF Inherits
<1>6. QED
  BY <1>2, <1>3, <1>5 DEF Keeps

-----------------------------------------------------------------------------
LEMMA MachineStep == MachineInv /\ [Next]_vars => Keeps
<1> SUFFICES ASSUME MachineInv, [Next]_vars PROVE Keeps
  OBVIOUS
<1>0. TypeOK /\ minted \subseteq Machine /\ shared \subseteq minted /\ PinsMatch
  BY DEF MachineInv, TypeOK
<1>1. ASSUME NEW p \in Profile, NEW os \in Os, Create(p, os) PROVE Keeps
  <2>1. [os |-> os, pin |-> None] \in Row
    BY DEF Row
  <2>2. QED
    BY <1>0, <1>1, <2>1, WritingKeeps DEF Create
<1>2. ASSUME NEW p \in Profile, NEW os \in Os, CreateFromPreset(p, os) PROVE Keeps
  <2>1. PICK pin \in Resolved(os) : Writes(p, [os |-> os, pin |-> pin]) /\ Mints(pin)
    BY <1>2 DEF CreateFromPreset
  <2>2. Matching(pin) /\ pin.machine \in Machine \ minted /\ [os |-> os, pin |-> pin] \in Row
    BY <1>0, ResolvedIsNew DEF Row, Matching
  <2>3. QED
    BY <1>0, <1>2, <2>1, <2>2, WritingKeeps DEF CreateFromPreset, Mints
<1>3. ASSUME NEW p \in Profile, NEW os \in Os, EditOs(p, os) PROVE Keeps
  <2>1. rows[p] \in Row /\ [rows[p] EXCEPT !.os = os] = [os |-> os, pin |-> rows[p].pin]
    BY <1>0, <1>3, RowTypes DEF EditOs, Row
  <2>2. [os |-> os, pin |-> rows[p].pin] \in Row
    BY <2>1 DEF Row
  <2>3. rows[p].pin # None => rows[p].pin \in PinsOf(p)
    BY <1>3 DEF EditOs, PinsOf, Pinned
  <2>4. QED
    BY <1>0, <1>3, <2>1, <2>2, <2>3, WritingKeeps DEF EditOs, PinsMatch
<1>4. ASSUME NEW p \in Profile, NEW q \in Profile, Clone(p, q) PROVE Keeps
  <2>1. PICK os \in Os : Writes(q, [os |-> os, pin |-> None])
    BY <1>4 DEF Clone
  <2>2. [os |-> os, pin |-> None] \in Row
    BY DEF Row
  <2>3. QED
    BY <1>0, <1>4, <2>1, <2>2, WritingKeeps DEF Clone
<1>5. ASSUME NEW p \in Profile, NEW q \in Profile, CloneMachine(p, q) PROVE Keeps
  <2>1. rows[p] \in Row
    BY <1>0, <1>5, RowTypes DEF CloneMachine
  <2>2. rows[p].pin # None => rows[p].pin \in PinsOf(p) /\ rows[p].pin.machine \in shared'
    BY <1>5 DEF CloneMachine, PinsOf, Pinned
  <2>3. rows[p].pin # None => Matching(rows[p].pin) /\ rows[p].pin.machine \in minted
    BY <2>2 DEF MachineInv, PinsMatch, PinsMinted
  <2>4. shared \subseteq shared' /\ shared' \subseteq minted'
    BY <1>0, <1>5, <2>3 DEF CloneMachine, Pinned
  <2>5. QED
    BY <1>0, <1>5, <2>1, <2>2, <2>3, <2>4, WritingKeeps DEF CloneMachine
<1>6. ASSUME NEW p \in Profile, Import(p) PROVE Keeps
  <2>1. PICK os \in Os, m \in Machine \ minted, v \in Version :
          LET pin == [os |-> os, machine |-> m, agent |-> os, version |-> v]
          IN  Writes(p, [os |-> os, pin |-> pin]) /\ Mints(pin)
    BY <1>6 DEF Import
  <2> DEFINE pin == [os |-> os, machine |-> m, agent |-> os, version |-> v]
  <2>2. Matching(pin) /\ pin.machine = m /\ [os |-> os, pin |-> pin] \in Row
    BY DEF Matching, Pin, Row
  <2>3. minted' = minted \cup {m}
    BY <2>1 DEF Mints
  <2>4. Writes(p, [os |-> os, pin |-> pin])
    BY <2>1
  <2> HIDE DEF pin
  <2>5. QED
    BY <1>0, <1>6, <2>2, <2>3, <2>4, WritingKeeps DEF Import
<1>7. ASSUME NEW p \in Profile, Reset(p) PROVE Keeps
  <2>1. PICK os \in Os : Writes(p, [os |-> os, pin |-> None])
    BY <1>7 DEF Reset
  <2>2. [os |-> os, pin |-> None] \in Row
    BY DEF Row
  <2>3. QED
    BY <1>0, <1>7, <2>1, <2>2, WritingKeeps DEF Reset
<1>8. ASSUME NEW p \in Profile, Refresh(p) PROVE Keeps
  <2> DEFINE pin == Refreshed(rows[p].pin, rows[p].pin.os)
  <2>1. rows[p] \in Row /\ rows[p].pin \in Pin /\ rows[p].pin \in PinsOf(p)
    BY <1>0, <1>8, RowTypes DEF Refresh, PinsOf
  <2>2. Matching(pin) /\ pin.machine = rows[p].pin.machine
    BY <1>0, <1>8, <2>1, RefreshedIsSame DEF Refresh
  <2>3. Writes(p, [rows[p] EXCEPT !.pin = pin])
    BY <1>8 DEF Refresh
  <2> HIDE DEF pin
  <2>4. [rows[p] EXCEPT !.pin = pin] \in Row /\ [rows[p] EXCEPT !.pin = pin].pin = pin
    BY <2>1, <2>2 DEF Row, Matching
  <2>5. QED
    BY <1>0, <1>8, <2>1, <2>2, <2>3, <2>4, WritingKeeps DEF Refresh
<1>9. ASSUME NEW p \in Profile, ReconcileKeeping(p) PROVE Keeps
  <2>1. rows[p] \in Row /\ rows[p].pin \in Pin /\ rows[p].pin.os \in Os /\ rows[p].pin \in PinsOf(p)
    BY <1>0, <1>9, RowTypes DEF ReconcileKeeping, Disagrees, PinsOf
  <2>2. LET row == [rows[p] EXCEPT !.os = rows[p].pin.os]
        IN  row \in Row /\ row.pin = rows[p].pin
    BY <2>1 DEF Row
  <2>3. QED
    BY <1>0, <1>9, <2>1, <2>2, WritingKeeps DEF ReconcileKeeping, PinsMatch
<1>10. ASSUME NEW p \in Profile, ReconcileRenewing(p) PROVE Keeps
  <2>1. PICK pin \in Resolved(rows[p].os) : Writes(p, [rows[p] EXCEPT !.pin = pin]) /\ Mints(pin)
    BY <1>10 DEF ReconcileRenewing
  <2>2. rows[p] \in Row /\ rows[p].os \in Os
    BY <1>0, <1>10, RowTypes DEF ReconcileRenewing, Disagrees
  <2>3. Matching(pin) /\ pin.machine \in Machine \ minted
    BY <1>0, <2>2, ResolvedIsNew
  <2>4. [rows[p] EXCEPT !.pin = pin] \in Row /\ [rows[p] EXCEPT !.pin = pin].pin = pin
    BY <2>2, <2>3 DEF Row, Matching
  <2>5. QED
    BY <1>0, <1>10, <2>1, <2>3, <2>4, WritingKeeps DEF ReconcileRenewing, Mints
<1>11. ASSUME NEW p \in Profile, LaunchReads(p) PROVE Keeps
  <2>1. PICK pin \in IF Pinned(p) THEN {rows[p].pin} ELSE {None} \cup Resolved(rows[p].os) :
          /\ launching' = [launching EXCEPT ![p] = [at |-> "pinning", pin |-> pin]]
          /\ IF pin = None THEN UNCHANGED minted ELSE Mints(pin)
    BY <1>11 DEF LaunchReads
  <2>2. rows[p] \in Row /\ rows[p].os \in Os
    BY <1>0, <1>11, RowTypes DEF LaunchReads
  <2>3. pin # None => \/ pin \in PinsOf(p) /\ Matching(pin) /\ pin.machine \in minted
                      \/ Matching(pin) /\ pin.machine \in Machine \ minted
    <3>1. CASE Pinned(p)
      BY <2>1, <3>1 DEF PinsOf, MachineInv, PinsMatch, PinsMinted
    <3>2. CASE ~Pinned(p)
      BY <1>0, <2>1, <2>2, <3>2, ResolvedIsNew
    <3>3. QED
      BY <3>1, <3>2
  <2>4. launching' \in [Profile -> Launching]
    BY <1>0, <2>1, <2>3 DEF TypeOK, Launching, Matching
  <2>5. minted \subseteq minted' /\ minted' \subseteq Machine
    BY <1>0, <2>1, <2>3 DEF Mints
  <2>6. TypeOK' /\ LaunchesHaveRows'
    BY <1>0, <1>11, <2>1, <2>2, <2>4, <2>5
       DEF TypeOK, LaunchReads, MachineInv, LaunchesHaveRows
  <2>7. /\ PinsOf(p)' \subseteq PinsOf(p) \cup ({pin} \ {None})
        /\ \A q \in Profile : q # p => PinsOf(q)' = PinsOf(q)
    BY <1>0, <1>11, <2>1 DEF TypeOK, LaunchReads, PinsOf, Pinned, Saved
  <2>8. pin # None /\ pin \notin PinsOf(p) => pin.machine \in minted' \ minted
    BY <2>1, <2>3 DEF Mints
  <2>9. Inherits(p)
    BY <1>0, <2>3, <2>7, <2>8 DEF Inherits, PinsMatch
  <2>10. ASSUME NEW q \in Profile, q # p PROVE Inherits(q)
    BY <2>7, <2>10, KeptPins
  <2>11. QED
    BY <1>11, <2>5, <2>6, <2>9, <2>10 DEF Keeps, LaunchReads
<1>12. ASSUME NEW p \in Profile, LaunchPins(p) PROVE Keeps
  <2> DEFINE pin == launching[p].pin
  <2>1. /\ rows' = [rows EXCEPT ![p] = [rows[p] EXCEPT !.pin = pin]]
        /\ launching' = [launching EXCEPT ![p] = Idle]
        /\ launching[p].at = "pinning" /\ pin \in Pin \cup {None}
    BY <1>0, <1>12, RowTypes DEF LaunchPins, Writes
  <2>2. rows[p] \in Row /\ [rows[p] EXCEPT !.pin = pin] \in Row
        /\ [rows[p] EXCEPT !.pin = pin].pin = pin
    BY <2>1 DEF MachineInv, LaunchesHaveRows, Row
  <2>3. TypeOK' /\ LaunchesHaveRows'
    BY <1>0, <1>12, <2>1, <2>2 DEF TypeOK, Launching, Idle, LaunchPins, MachineInv, LaunchesHaveRows
  <2>4. PinsOf(p)' \subseteq PinsOf(p)
    BY <1>0, <2>1, <2>2 DEF TypeOK, PinsOf, Pinned, Saved, Idle
  <2>5. ASSUME NEW q \in Profile, q # p PROVE PinsOf(q)' = PinsOf(q)
    BY <1>0, <2>1, <2>5 DEF TypeOK, PinsOf, Pinned, Saved
  <2>6. QED
    BY <1>12, <2>3, <2>4, <2>5, KeptPins DEF Keeps, LaunchPins
<1>13. CASE Fetch
  <2>1. TypeOK' /\ LaunchesHaveRows' /\ \A p \in Profile : PinsOf(p)' = PinsOf(p)
    BY <1>0, <1>13, MaxVersionAssumption DEF TypeOK, Fetch, PinsOf, Pinned, Saved, MachineInv, LaunchesHaveRows
  <2>2. QED
    BY <1>13, <2>1, KeptPins DEF Keeps, Fetch
<1>14. CASE UNCHANGED vars
  <2>1. TypeOK' /\ LaunchesHaveRows' /\ \A p \in Profile : PinsOf(p)' = PinsOf(p)
    BY <1>0, <1>14 DEF TypeOK, vars, PinsOf, Pinned, Saved, MachineInv, LaunchesHaveRows
  <2>2. QED
    BY <1>14, <2>1, KeptPins DEF Keeps, vars
<1>15. QED
  BY <1>1, <1>2, <1>3, <1>4, <1>5, <1>6, <1>7, <1>8, <1>9, <1>10, <1>11, <1>12, <1>13, <1>14
     DEF Next

-----------------------------------------------------------------------------
LEMMA MachineInvariant == Spec => []MachineInv
<1>1. MachineInv /\ [Next]_vars => MachineInv'
  BY MachineStep, InheritingPreserves DEF Keeps
<1>2. QED
  BY <1>1, MachineInit, PTL DEF Spec

\* The rows, the machines drawn and the launches stay in their types.
THEOREM MachineTypeCorrect == Spec => []TypeOK
<1>1. MachineInv => TypeOK
  BY DEF MachineInv
<1>2. QED
  BY <1>1, MachineInvariant, PTL

\* The user agent of every pin is of the operating system of its machine, for any
\* number of profiles and any sequence of edits, refreshes, renewals and launches:
\* a refresh resolves for the pin, not for the setting.
THEOREM AgentsMatch == Spec => []AgentMatchesMachine
<1>1. MachineInv => AgentMatchesMachine
  BY DEF MachineInv, PinsMatch, PinsOf, Matching, AgentMatchesMachine
<1>2. QED
  BY <1>1, MachineInvariant, PTL

\* Two profiles are one computer only on request, also while launches are about to
\* write back pins they read long ago.
THEOREM OwnMachines == Spec => []OwnMachine
<1>1. MachineInv => OwnMachine
  BY DEF MachineInv, PinsApart, PinsOf, OwnMachine
<1>2. QED
  BY <1>1, MachineInvariant, PTL

\* No step but the renewal of a disagreeing machine and the write-back of a launch
\* turns a pinned profile into another computer.
THEOREM HealthyMachinesStay == Spec => HealthyMachineStays
<1>1. TypeOK /\ [Next]_vars =>
        \A p \in Profile :
          (/\ Pinned(p) /\ rows'[p].pin # None
           /\ rows'[p].pin.machine # rows[p].pin.machine)
          => WritesBack(p) \/ (Disagrees(p) /\ rows'[p].pin.os = rows'[p].os)
  <2> SUFFICES ASSUME TypeOK, [Next]_vars, NEW p \in Profile, Pinned(p),
                      rows'[p].pin # None, rows'[p].pin.machine # rows[p].pin.machine
               PROVE  WritesBack(p) \/ (Disagrees(p) /\ rows'[p].pin.os = rows'[p].os)
    OBVIOUS
  <2>0. /\ Saved(p) /\ rows[p] \in Row /\ rows[p].os \in Os
        /\ rows[p].pin \in Pin /\ rows[p].pin.os \in Os
        /\ rows'[p] # rows[p]
    BY RowTypes
  <2>1. ASSUME NEW q \in Profile, NEW row, Writes(q, row) PROVE p = q /\ rows'[p] = row
    BY <2>0, <2>1 DEF TypeOK, Writes
  <2>2. ASSUME NEW q \in Profile, NEW os \in Os,
               Create(q, os) \/ CreateFromPreset(q, os) \/ EditOs(q, os)
        PROVE  FALSE
    <3>1. CASE Create(q, os) \/ CreateFromPreset(q, os)
      BY <2>0, <2>1, <3>1 DEF Create, CreateFromPreset
    <3>2. CASE EditOs(q, os)
      BY <2>0, <2>1, <3>2 DEF EditOs, Row
    <3>3. QED
      BY <2>2, <3>1, <3>2
  <2>3. ASSUME NEW q \in Profile, NEW r \in Profile, Clone(q, r) \/ CloneMachine(q, r)
        PROVE  FALSE
    BY <2>0, <2>1, <2>3 DEF Clone, CloneMachine
  <2>4. ASSUME NEW q \in Profile, Import(q) \/ Reset(q) PROVE FALSE
    <3>1. CASE Import(q)
      BY <2>0, <2>1, <3>1 DEF Import
    <3>2. CASE Reset(q)
      BY <2>0, <2>1, <3>2 DEF Reset
    <3>3. QED
      BY <2>4, <3>1, <3>2
  <2>5. ASSUME NEW q \in Profile, Refresh(q) PROVE FALSE
    <3>1. p = q /\ rows'[p] = [rows[p] EXCEPT !.pin = Refreshed(rows[p].pin, rows[p].pin.os)]
      BY <2>1, <2>5 DEF Refresh
    <3>2. rows'[p].pin = Refreshed(rows[p].pin, rows[p].pin.os)
      BY <2>0, <3>1 DEF Row
    <3>3. QED
      BY <2>0, <2>5, <3>2, RefreshedIsSame DEF Refresh
  <2>6. ASSUME NEW q \in Profile, ReconcileKeeping(q) PROVE FALSE
    <3>1. rows'[p] = [rows[p] EXCEPT !.os = rows[p].pin.os]
      BY <2>1, <2>6 DEF ReconcileKeeping
    <3>2. QED
      BY <2>0, <3>1 DEF Row
  <2>7. ASSUME NEW q \in Profile, ReconcileRenewing(q)
        PROVE  Disagrees(p) /\ rows'[p].pin.os = rows'[p].os
    <3>1. PICK pin \in Resolved(rows[q].os) : Writes(q, [rows[q] EXCEPT !.pin = pin])
      BY <2>7 DEF ReconcileRenewing
    <3>2. p = q /\ rows'[p] = [rows[p] EXCEPT !.pin = pin] /\ pin.os = rows[p].os
      BY <2>0, <2>1, <3>1, ResolvedIsNew
    <3>3. QED
      BY <2>0, <2>7, <3>2 DEF Row, ReconcileRenewing
  <2>8. ASSUME NEW q \in Profile, LaunchReads(q) PROVE FALSE
    BY <2>0, <2>8 DEF LaunchReads
  <2>9. ASSUME NEW q \in Profile, LaunchPins(q) PROVE WritesBack(p)
    <3>1. p = q /\ rows'[p] = [rows[p] EXCEPT !.pin = launching[p].pin]
      BY <2>1, <2>9 DEF LaunchPins
    <3>2. rows'[p].pin = launching[p].pin
      BY <2>0, <3>1 DEF Row
    <3>3. QED
      BY <2>9, <3>1, <3>2 DEF TypeOK, LaunchPins, WritesBack
  <2>10. ~Fetch /\ ~UNCHANGED vars
    BY <2>0 DEF Fetch, vars
  <2>11. QED
    BY <2>2, <2>3, <2>4, <2>5, <2>6, <2>7, <2>8, <2>9, <2>10 DEF Next
<1>2. QED
  BY <1>1, MachineTypeCorrect, PTL DEF Spec, HealthyMachineStays
=============================================================================
