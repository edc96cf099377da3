---------------------------- MODULE DisplayFacts ----------------------------
(***************************************************************************)
(* What each kind of control and its entity contribute to the argument of  *)
(* Displays, kind by kind: the handlers make an entity see a value and     *)
(* forget no other, the commands of a service are executed to states that, *)
(* once seen, show what the service was asked for.                         *)
(***************************************************************************)
EXTENDS Displays, SequenceTheorems, WellFoundedInduction, TLAPS

LEMMA Families ==
  ASSUME NEW k \in DisplayKinds
  PROVE  /\ k \in CoverKinds => k \notin ClimateKinds /\ k \notin LightKinds /\ k \notin OutputKinds /\ k \notin SwitchKinds
         /\ k \in ClimateKinds => k \notin CoverKinds /\ k \notin LightKinds /\ k \notin OutputKinds /\ k \notin SwitchKinds
         /\ k \in LightKinds => k \notin CoverKinds /\ k \notin ClimateKinds /\ k \notin OutputKinds /\ k \notin SwitchKinds
         /\ k \in OutputKinds => k \notin CoverKinds /\ k \notin ClimateKinds /\ k \notin LightKinds /\ k \notin SwitchKinds
         /\ k \in SwitchKinds => k \notin CoverKinds /\ k \notin ClimateKinds /\ k \notin LightKinds /\ k \notin OutputKinds
         /\ k \notin SensorKinds /\ k \notin EventKinds /\ k # "MessageCenter"
BY DEF DisplayKinds, CoverKinds, ClimateKinds, LightKinds, OutputKinds, PickerKinds, SwitchKinds, OptimisticKinds, SensorKinds, EventKinds

LEMMA CoverFamily ==
  ASSUME NEW k \in CoverKinds
  PROVE  /\ PlatformStreams(k) = CoverStreams(k) /\ Fresh(k) = CoverFresh(k) /\ Requests(k) = CoverRequests(k)
         /\ \A s : s # "jLocked" => Values(k, s) = CoverValues(s)
         /\ \A e, s, v : Handled(k, e, s, v) = CoverOn(k, e, s, v)
         /\ \A e, r : Commands(k, e, r) = CoverCommands(k, e, r)
         /\ \A a, c : Executed(k, a, c) = CoverExecutes(k, a, c)
         /\ \A e, r : Shown(k, e, r) <=> CoverShows(e, r)
<1>. k \in DisplayKinds
  BY DEF DisplayKinds
<1>1. PlatformStreams(k) = CoverStreams(k) /\ Fresh(k) = CoverFresh(k) /\ Requests(k) = CoverRequests(k)
  BY Families DEF PlatformStreams, Fresh, Requests
<1>2. ASSUME NEW s, s # "jLocked" PROVE Values(k, s) = CoverValues(s)
  BY <1>2, Families DEF Values
<1>3. ASSUME NEW e, NEW s, NEW v PROVE Handled(k, e, s, v) = CoverOn(k, e, s, v)
  BY Families DEF Handled
<1>4. ASSUME NEW e, NEW r PROVE Commands(k, e, r) = CoverCommands(k, e, r)
  BY Families DEF Commands
<1>5. ASSUME NEW a, NEW c PROVE Executed(k, a, c) = CoverExecutes(k, a, c)
  BY Families DEF Executed
<1>6. ASSUME NEW e, NEW r PROVE Shown(k, e, r) <=> CoverShows(e, r)
  BY Families DEF Shown
<1>. QED
  BY <1>1, <1>2, <1>3, <1>4, <1>5, <1>6

LEMMA ClimateFamily ==
  ASSUME NEW k \in ClimateKinds
  PROVE  /\ PlatformStreams(k) = ClimateStreams(k) /\ Fresh(k) = ClimateFresh(k) /\ Requests(k) = ClimateRequests(k)
         /\ \A s : s # "jLocked" => Values(k, s) = ClimateValues(k, s)
         /\ \A e, s, v : Handled(k, e, s, v) = ClimateOn(k, e, s, v)
         /\ \A e, r : Commands(k, e, r) = ClimateCommands(k, e, r)
         /\ \A a, c : Executed(k, a, c) = ClimateExecutes(k, a, c)
         /\ \A e, r : Shown(k, e, r) <=> ClimateShows(k, e, r)
<1>. k \in DisplayKinds
  BY DEF DisplayKinds
<1>1. PlatformStreams(k) = ClimateStreams(k) /\ Fresh(k) = ClimateFresh(k) /\ Requests(k) = ClimateRequests(k)
  BY Families DEF PlatformStreams, Fresh, Requests
<1>2. ASSUME NEW s, s # "jLocked" PROVE Values(k, s) = ClimateValues(k, s)
  BY <1>2, Families DEF Values
<1>3. ASSUME NEW e, NEW s, NEW v PROVE Handled(k, e, s, v) = ClimateOn(k, e, s, v)
  BY Families DEF Handled
<1>4. ASSUME NEW e, NEW r PROVE Commands(k, e, r) = ClimateCommands(k, e, r)
  BY Families DEF Commands
<1>5. ASSUME NEW a, NEW c PROVE Executed(k, a, c) = ClimateExecutes(k, a, c)
  BY Families DEF Executed
<1>6. ASSUME NEW e, NEW r PROVE Shown(k, e, r) <=> ClimateShows(k, e, r)
  BY Families DEF Shown
<1>. QED
  BY <1>1, <1>2, <1>3, <1>4, <1>5, <1>6

LEMMA LightFamily ==
  ASSUME NEW k \in LightKinds
  PROVE  /\ PlatformStreams(k) = LightStreams(k) /\ Fresh(k) = LightFresh /\ Requests(k) = LightRequests(k)
         /\ \A s : s # "jLocked" => Values(k, s) = LightValues(s)
         /\ \A e, s, v : Handled(k, e, s, v) = LightOn(e, s, v)
         /\ \A e, r : Commands(k, e, r) = LightCommands(e, r)
         /\ \A a, c : Executed(k, a, c) = LightExecutes(a, c)
         /\ \A e, r : Shown(k, e, r) <=> LightShows(e, r)
<1>. k \in DisplayKinds
  BY DEF DisplayKinds
<1>1. PlatformStreams(k) = LightStreams(k) /\ Fresh(k) = LightFresh /\ Requests(k) = LightRequests(k)
  BY Families DEF PlatformStreams, Fresh, Requests
<1>2. ASSUME NEW s, s # "jLocked" PROVE Values(k, s) = LightValues(s)
  BY <1>2, Families DEF Values
<1>3. ASSUME NEW e, NEW s, NEW v PROVE Handled(k, e, s, v) = LightOn(e, s, v)
  BY Families DEF Handled
<1>4. ASSUME NEW e, NEW r PROVE Commands(k, e, r) = LightCommands(e, r)
  BY Families DEF Commands
<1>5. ASSUME NEW a, NEW c PROVE Executed(k, a, c) = LightExecutes(a, c)
  BY Families DEF Executed
<1>6. ASSUME NEW e, NEW r PROVE Shown(k, e, r) <=> LightShows(e, r)
  BY Families DEF Shown
<1>. QED
  BY <1>1, <1>2, <1>3, <1>4, <1>5, <1>6

LEMMA OutputFamily ==
  ASSUME NEW k \in OutputKinds
  PROVE  /\ PlatformStreams(k) = OutputStreams(k) /\ Fresh(k) = OutputFresh(k) /\ Requests(k) = OutputRequests(k)
         /\ \A s : s # "jLocked" => Values(k, s) = OutputValues(k, s)
         /\ \A e, s, v : Handled(k, e, s, v) = OutputOn(k, e, s, v)
         /\ \A e, r : Commands(k, e, r) = OutputCommands(k, e, r)
         /\ \A a, c : Executed(k, a, c) = OutputExecutes(k, a, c)
         /\ \A e, r : Shown(k, e, r) <=> OutputShows(k, e, r)
<1>. k \in DisplayKinds
  BY DEF DisplayKinds
<1>1. PlatformStreams(k) = OutputStreams(k) /\ Fresh(k) = OutputFresh(k) /\ Requests(k) = OutputRequests(k)
  BY Families DEF PlatformStreams, Fresh, Requests
<1>2. ASSUME NEW s, s # "jLocked" PROVE Values(k, s) = OutputValues(k, s)
  BY <1>2, Families DEF Values
<1>3. ASSUME NEW e, NEW s, NEW v PROVE Handled(k, e, s, v) = OutputOn(k, e, s, v)
  BY Families DEF Handled
<1>4. ASSUME NEW e, NEW r PROVE Commands(k, e, r) = OutputCommands(k, e, r)
  BY Families DEF Commands
<1>5. ASSUME NEW a, NEW c PROVE Executed(k, a, c) = OutputExecutes(k, a, c)
  BY Families DEF Executed
<1>6. ASSUME NEW e, NEW r PROVE Shown(k, e, r) <=> OutputShows(k, e, r)
  BY Families DEF Shown
<1>. QED
  BY <1>1, <1>2, <1>3, <1>4, <1>5, <1>6

LEMMA SwitchFamily ==
  ASSUME NEW k \in SwitchKinds
  PROVE  /\ PlatformStreams(k) = SwitchStreams(k) /\ Fresh(k) = SwitchFresh(k) /\ Requests(k) = SwitchRequests(k)
         /\ \A s : s # "jLocked" => Values(k, s) = SwitchValues(s)
         /\ \A e, s, v : Handled(k, e, s, v) = SwitchOn(k, e, s, v)
         /\ \A e, r : Commands(k, e, r) = SwitchAsks(k, e, r)
         /\ \A a, c : Executed(k, a, c) = SwitchExecutes(k, a, c)
         /\ \A e, r : Shown(k, e, r) <=> SwitchShows(k, e, r)
<1>. k \in DisplayKinds
  BY DEF DisplayKinds
<1>1. PlatformStreams(k) = SwitchStreams(k) /\ Fresh(k) = SwitchFresh(k) /\ Requests(k) = SwitchRequests(k)
  BY Families DEF PlatformStreams, Fresh, Requests
<1>2. ASSUME NEW s, s # "jLocked" PROVE Values(k, s) = SwitchValues(s)
  BY <1>2, Families DEF Values
<1>3. ASSUME NEW e, NEW s, NEW v PROVE Handled(k, e, s, v) = SwitchOn(k, e, s, v)
  BY Families DEF Handled
<1>4. ASSUME NEW e, NEW r PROVE Commands(k, e, r) = SwitchAsks(k, e, r)
  BY Families DEF Commands
<1>5. ASSUME NEW a, NEW c PROVE Executed(k, a, c) = SwitchExecutes(k, a, c)
  BY Families DEF Executed
<1>6. ASSUME NEW e, NEW r PROVE Shown(k, e, r) <=> SwitchShows(k, e, r)
  BY Families DEF Shown
<1>. QED
  BY <1>1, <1>2, <1>3, <1>4, <1>5, <1>6

(***************************************************************************)
(* What is shown of every kind.                                            *)
(***************************************************************************)
StartsWell(k) == Fresh(k) \in EntitiesOf(k)

\* A handler makes the entity see the value of its stream, and keeps what was seen of
\* the others.
HandlesWell(k) ==
  \A e \in EntitiesOf(k), s \in PlatformStreams(k) : \A v \in StatesOf(k, s) :
    /\ Handled(k, e, s, v) \in EntitiesOf(k)
    /\ Seen(k, Handled(k, e, s, v), s, v)
    /\ \A t \in PlatformStreams(k) : \A w : t # s /\ Seen(k, e, t, w) => Seen(k, Handled(k, e, s, v), t, w)

SendsWell(k) == \A e \in EntitiesOf(k), r \in Requests(k) : Commands(k, e, r) \in Orders(k)

ExecutesWell(k) == \A a : \A c \in CommandsOf(k) : Held(k, a) => Held(k, Executed(k, a, c))

\* What Home Assistant lets through to an entity, and the platform does not drop.
Offered(k, e, r) ==
  /\ k \in ClimateKinds => ClimateOffers(k, e, r)
  /\ k \in OutputKinds => OutputOffers(k, e, r)
  /\ ~Drops(k, e, r)

\* What an entity that has seen all sends is executed to what was asked for.
AnswersWell(k) ==
  \A e \in EntitiesOf(k), r \in Requests(k) : \A a :
    Held(k, a) /\ Offered(k, e, r) /\ AllSeen(k, e, a) => Answered(k, Done(k, a, Commands(k, e, r)), r)

DisplaysWell(k) == StartsWell(k) /\ HandlesWell(k) /\ SendsWell(k) /\ ExecutesWell(k) /\ AnswersWell(k)

LEMMA DoneNone == ASSUME NEW k, NEW a PROVE Done(k, a, <<>>) = a
BY DEF Done

LEMMA DoneOne == ASSUME NEW k, NEW a, NEW c PROVE Done(k, a, <<c>>) = Executed(k, a, c)
BY DEF Done

LEMMA DoneTwo ==
  ASSUME NEW k, NEW a, NEW c, NEW d
  PROVE  Done(k, a, <<c, d>>) = Executed(k, Executed(k, a, c), d)
BY DEF Done

LEMMA OrderOf ==
  ASSUME NEW k
  PROVE  /\ <<>> \in Orders(k)
         /\ \A c \in CommandsOf(k) : <<c>> \in Orders(k)
         /\ \A c, d \in CommandsOf(k) : <<c, d>> \in Orders(k)
<1>1. ASSUME NEW c \in CommandsOf(k), NEW d \in CommandsOf(k) PROVE <<c, d>> \in Orders(k)
  <2>1. <<c, d>> \in CommandsOf(k) \X CommandsOf(k) /\ <<c, d>>[1] = c /\ <<c, d>>[2] = d
    OBVIOUS
  <2>. QED
    BY <2>1 DEF Orders
<1>. QED
  BY <1>1 DEF Orders

(***************************************************************************)
(* Covers.                                                                 *)
(***************************************************************************)
LEMMA GateIs ==
  /\ "Gate" \in CoverKinds /\ EntitiesOf("Gate") = Gates
  /\ PlatformStreams("Gate") = {"position", "active"}
  /\ \A e, s, v : Seen("Gate", e, s, v) <=> GateSeen(e, s, v)
  /\ \A e, s, v : Handled("Gate", e, s, v) = GateOn(e, s, v)
  /\ \A e, r : Commands("Gate", e, r) = GateCommands(e, r)
<1>1. "Gate" \in CoverKinds
  BY DEF CoverKinds
<1>2. EntitiesOf("Gate") = Gates
  BY DEF EntitiesOf, IsV2, LightKinds, PickerKinds
<1>3. PlatformStreams("Gate") = {"position", "active"}
  BY <1>1, CoverFamily DEF CoverStreams
<1>4. \A e, s, v : Seen("Gate", e, s, v) <=> GateSeen(e, s, v)
  BY DEF Seen, IsV2, LightKinds, PickerKinds
<1>5. \A e, s, v : Handled("Gate", e, s, v) = GateOn(e, s, v)
  BY <1>1, CoverFamily DEF CoverOn
<1>6. \A e, r : Commands("Gate", e, r) = GateCommands(e, r)
  BY <1>1, CoverFamily DEF CoverCommands
<1>. QED
  BY <1>1, <1>2, <1>3, <1>4, <1>5, <1>6

LEMMA WindowIs ==
  /\ "Window" \in CoverKinds /\ EntitiesOf("Window") = Windows
  /\ PlatformStreams("Window") = {"position", "direction", "targetPosition"}
  /\ \A e, s, v : Seen("Window", e, s, v) <=> WindowSeen(e, s, v)
  /\ \A e, s, v : Handled("Window", e, s, v) = WindowOn(e, s, v)
  /\ \A e, r : Commands("Window", e, r) = WindowCommands(e, r)
<1>1. "Window" \in CoverKinds
  BY DEF CoverKinds
<1>2. EntitiesOf("Window") = Windows
  BY DEF EntitiesOf, IsV2, LightKinds, PickerKinds
<1>3. PlatformStreams("Window") = {"position", "direction", "targetPosition"}
  BY <1>1, CoverFamily DEF CoverStreams
<1>4. \A e, s, v : Seen("Window", e, s, v) <=> WindowSeen(e, s, v)
  BY DEF Seen, IsV2, LightKinds, PickerKinds
<1>5. \A e, s, v : Handled("Window", e, s, v) = WindowOn(e, s, v)
  BY <1>1, CoverFamily DEF CoverOn
<1>6. \A e, r : Commands("Window", e, r) = WindowCommands(e, r)
  BY <1>1, CoverFamily DEF CoverCommands
<1>. QED
  BY <1>1, <1>2, <1>3, <1>4, <1>5, <1>6

LEMMA JalousieIs ==
  /\ "Jalousie" \in CoverKinds /\ EntitiesOf("Jalousie") = Jalousies
  /\ PlatformStreams("Jalousie") = {"position", "shadePosition", "up", "down", "autoActive"}
  /\ \A e, s, v : Seen("Jalousie", e, s, v) <=> JalousieSeen(e, s, v)
  /\ \A e, s, v : Handled("Jalousie", e, s, v) = JalousieOn(e, s, v)
  /\ \A e, r : Commands("Jalousie", e, r) = JalousieCommands(e, r)
<1>1. "Jalousie" \in CoverKinds
  BY DEF CoverKinds
<1>2. EntitiesOf("Jalousie") = Jalousies
  BY DEF EntitiesOf, IsV2, LightKinds, PickerKinds
<1>3. PlatformStreams("Jalousie") = {"position", "shadePosition", "up", "down", "autoActive"}
  BY <1>1, CoverFamily DEF CoverStreams
<1>4. \A e, s, v : Seen("Jalousie", e, s, v) <=> JalousieSeen(e, s, v)
  BY DEF Seen, IsV2, LightKinds, PickerKinds
<1>5. \A e, s, v : Handled("Jalousie", e, s, v) = JalousieOn(e, s, v)
  BY <1>1, CoverFamily DEF CoverOn
<1>6. \A e, r : Commands("Jalousie", e, r) = JalousieCommands(e, r)
  BY <1>1, CoverFamily DEF CoverCommands
<1>. QED
  BY <1>1, <1>2, <1>3, <1>4, <1>5, <1>6

CoverOrders ==
  {"open", "close", "fullopen", "fullclose", "FullUp", "FullDown", "stop", "manualPosition",
   "moveToPosition", "manualLamelle", "auto", "NoAuto"} \X Int

LEMMA CoverRange == ASSUME NEW k \in CoverKinds PROVE CommandsOf(k) = CoverOrders
BY DEF CommandsOf, CoverOrders, CoverKinds, IsV2, LightKinds, PickerKinds

LEMMA CoverStates ==
  ASSUME NEW k \in CoverKinds, NEW a
  PROVE  Held(k, a) <=> DOMAIN a = Streams(k) /\ \A s \in Streams(k) : a[s] \in Int
<1>1. \A s \in Streams(k) : StatesOf(k, s) = Int
  <2>1. Streams(k) \subseteq {"position", "active", "direction", "targetPosition", "shadePosition", "up",
                              "down", "autoActive", "jLocked"}
    BY GateIs, WindowIs, JalousieIs DEF Streams, CoverKinds
  <2>. QED
    BY <2>1 DEF StatesOf, CoverKinds
<1>. QED
  BY <1>1 DEF Held, CoverKinds, ClimateKinds

LEMMA CoverRequest ==
  ASSUME NEW k \in CoverKinds, NEW r \in Requests(k)
  PROVE  /\ r[2] \in Int
         /\ r[1] \in {"open", "close", "stop", "position"} \/ (k = "Jalousie" /\ r[1] \in {"tilt", "automation"})
         /\ r[1] = "automation" => r[2] \in {0, 1}
<1>1. r \in CoverRequests(k)
  BY CoverFamily
<1>. QED
  BY <1>1, CoversAssumption DEF CoverRequests, Positions

LEMMA CoverExecuted ==
  ASSUME NEW k, NEW a, NEW c
  PROVE  LET b == CoverExecutes(k, a, c)
         IN /\ "position" \in DOMAIN a =>
                 /\ c[1] \in {"open", "fullopen", "FullDown"} => b["position"] = Full
                 /\ c[1] \in {"close", "fullclose", "FullUp"} => b["position"] = 0
                 /\ c[1] \in {"manualPosition", "moveToPosition"} => b["position"] = c[2]
            /\ c[1] = "stop" => \A s \in {"active", "direction", "up", "down"} \cap DOMAIN a : b[s] = 0
            /\ "shadePosition" \in DOMAIN a /\ c[1] = "manualLamelle" => b["shadePosition"] = c[2]
            /\ "autoActive" \in DOMAIN a =>
                 /\ c[1] = "auto" => b["autoActive"] = 1
                 /\ c[1] = "NoAuto" => b["autoActive"] = 0
BY Zenon DEF CoverExecutes

LEMMA CoverExecutesWell == ASSUME NEW k \in CoverKinds PROVE ExecutesWell(k)
<1>1. ASSUME NEW a, NEW c \in CoverOrders, DOMAIN a = Streams(k), \A s \in Streams(k) : a[s] \in Int
      PROVE  DOMAIN CoverExecutes(k, a, c) = Streams(k)
             /\ \A s \in Streams(k) : CoverExecutes(k, a, c)[s] \in Int
  <2>1. /\ c[1] \in {"open", "close", "fullopen", "fullclose", "FullUp", "FullDown", "stop",
                     "manualPosition", "moveToPosition", "manualLamelle", "auto", "NoAuto"}
        /\ c[2] \in Int /\ Full \in Int /\ 0 \in Int /\ 1 \in Int
    BY CoversAssumption DEF CoverOrders
  <2>2. DOMAIN CoverExecutes(k, a, c) = Streams(k)
    BY <1>1, <2>1, Zenon DEF CoverExecutes
  <2>3. ASSUME NEW s \in Streams(k) PROVE CoverExecutes(k, a, c)[s] \in Int
    BY <1>1, <2>1, Zenon DEF CoverExecutes
  <2>. QED
    BY <2>2, <2>3
<1>. QED
  BY <1>1, CoverFamily, CoverRange, CoverStates DEF ExecutesWell

LEMMA CoverStarts == \A k \in CoverKinds : StartsWell(k)
<1>1. \A k \in CoverKinds : Fresh(k) = CoverFresh(k)
  BY CoverFamily
<1>2. CoverFresh("Gate") \in Gates
  BY DEF CoverFresh, Gates
<1>3. CoverFresh("Window") \in Windows
  BY DEF CoverFresh, Windows
<1>4. CoverFresh("Jalousie") \in Jalousies
  BY DEF CoverFresh, Jalousies
<1>. QED
  BY <1>1, <1>2, <1>3, <1>4, GateIs, WindowIs, JalousieIs DEF StartsWell, CoverKinds

LEMMA CoverSends == \A k \in CoverKinds : SendsWell(k)
<1>1. ASSUME NEW k \in CoverKinds, NEW x \in Int,
             NEW n \in {"open", "close", "fullopen", "fullclose", "FullUp", "FullDown", "stop",
                        "manualPosition", "moveToPosition", "manualLamelle", "auto", "NoAuto"}
      PROVE  <<<<n, x>>>> \in Orders(k)
  <2>1. <<n, x>> \in CommandsOf(k)
    BY CoverRange DEF CoverOrders
  <2>. QED
    BY <2>1, OrderOf
<1>2. ASSUME NEW e, NEW r \in Requests("Gate") PROVE Commands("Gate", e, r) \in Orders("Gate")
  <2>1. "Gate" \in CoverKinds /\ 0 \in Int /\ r[2] \in Int
    BY GateIs, CoverRequest
  <2>2. GateCommands(e, r) \in Orders("Gate")
    BY <1>1, <2>1, OrderOf, Zenon DEF GateCommands
  <2>. QED
    BY <2>2, GateIs
<1>3. ASSUME NEW e, NEW r \in Requests("Window") PROVE Commands("Window", e, r) \in Orders("Window")
  <2>1. "Window" \in CoverKinds /\ 0 \in Int /\ r[2] \in Int
    BY WindowIs, CoverRequest
  <2>2. WindowCommands(e, r) \in Orders("Window")
    BY <1>1, <2>1, OrderOf, Zenon DEF WindowCommands
  <2>. QED
    BY <2>2, WindowIs
<1>4. ASSUME NEW e, NEW r \in Requests("Jalousie") PROVE Commands("Jalousie", e, r) \in Orders("Jalousie")
  <2>1. /\ "Jalousie" \in CoverKinds /\ 0 \in Int /\ Inverted(r[2]) \in Int
        /\ r[1] \in {"open", "close", "stop", "position", "tilt", "automation"}
    BY JalousieIs, CoverRequest, CoversAssumption DEF Inverted
  <2>2. JalousieCommands(e, r) \in Orders("Jalousie")
    BY <1>1, <2>1, OrderOf, Zenon DEF JalousieCommands
  <2>. QED
    BY <2>2, JalousieIs
<1>. QED
  BY <1>2, <1>3, <1>4 DEF SendsWell, CoverKinds

LEMMA GateHandles == HandlesWell("Gate")
<1>. DEFINE S == {"position", "active"}
<1>1. ASSUME NEW e \in Gates, NEW s \in S, NEW v \in Int
      PROVE  GateOn(e, s, v) \in Gates /\ GateSeen(GateOn(e, s, v), s, v)
  <2>1. GateOn(e, s, v) \in Gates
    BY <1>1, Zenon DEF GateOn, Gates
  <2>2. GateSeen(GateOn(e, s, v), s, v)
    BY <1>1, Zenon DEF GateOn, Gates, GateSeen
  <2>. QED
    BY <2>1, <2>2
<1>2. ASSUME NEW e \in Gates, NEW v, NEW w, GateSeen(e, "position", w)
      PROVE  GateSeen(GateOn(e, "active", v), "position", w)
  BY <1>2, Zenon DEF GateOn, Gates, GateSeen
<1>3. ASSUME NEW e \in Gates, NEW v, NEW w, GateSeen(e, "active", w)
      PROVE  GateSeen(GateOn(e, "position", v), "active", w)
  BY <1>3, Zenon DEF GateOn, Gates, GateSeen
<1>4. ASSUME NEW s \in S PROVE StatesOf("Gate", s) = Int
  BY DEF StatesOf
<1>. QED
  BY <1>1, <1>2, <1>3, <1>4, GateIs DEF HandlesWell

LEMMA WindowHandles == HandlesWell("Window")
<1>. DEFINE S == {"position", "direction", "targetPosition"}
<1>1. ASSUME NEW e \in Windows, NEW s \in S, NEW v \in Int
      PROVE  WindowOn(e, s, v) \in Windows /\ WindowSeen(WindowOn(e, s, v), s, v)
  <2>1. WindowOn(e, s, v) \in Windows
    BY <1>1, Zenon DEF WindowOn, Windows
  <2>2. WindowSeen(WindowOn(e, s, v), s, v)
    BY <1>1, Zenon DEF WindowOn, Windows, WindowSeen
  <2>. QED
    BY <2>1, <2>2
<1>2. ASSUME NEW e \in Windows, NEW v, NEW w, NEW t \in S
      PROVE  /\ t # "position" /\ WindowSeen(e, t, w) => WindowSeen(WindowOn(e, "position", v), t, w)
             /\ t # "direction" /\ WindowSeen(e, t, w) => WindowSeen(WindowOn(e, "direction", v), t, w)
             /\ t # "targetPosition" /\ WindowSeen(e, t, w) => WindowSeen(WindowOn(e, "targetPosition", v), t, w)
  BY <1>2, Zenon DEF WindowOn, Windows, WindowSeen
<1>3. ASSUME NEW s \in S PROVE StatesOf("Window", s) = Int
  BY DEF StatesOf
<1>. QED
  BY <1>1, <1>2, <1>3, WindowIs DEF HandlesWell

LEMMA JalousieHandles == HandlesWell("Jalousie")
<1>. DEFINE S == {"position", "shadePosition", "up", "down", "autoActive"}
<1>1. ASSUME NEW e \in Jalousies, NEW s \in S, NEW v \in Int
      PROVE  JalousieOn(e, s, v) \in Jalousies /\ JalousieSeen(JalousieOn(e, s, v), s, v)
  <2>1. JalousieOn(e, s, v) \in Jalousies
    <3>1. Inverted(v) \in Int
      BY CoversAssumption DEF Inverted
    <3>. QED
      BY <1>1, <3>1, Zenon DEF JalousieOn, Jalousies
  <2>2. JalousieSeen(JalousieOn(e, s, v), s, v)
    BY <1>1, Zenon DEF JalousieOn, Jalousies, JalousieSeen
  <2>. QED
    BY <2>1, <2>2
<1>2. ASSUME NEW e \in Jalousies, NEW v, NEW w, NEW t \in S
      PROVE  /\ t # "position" /\ JalousieSeen(e, t, w) => JalousieSeen(JalousieOn(e, "position", v), t, w)
             /\ t # "shadePosition" /\ JalousieSeen(e, t, w) => JalousieSeen(JalousieOn(e, "shadePosition", v), t, w)
             /\ t # "up" /\ JalousieSeen(e, t, w) => JalousieSeen(JalousieOn(e, "up", v), t, w)
             /\ t # "down" /\ JalousieSeen(e, t, w) => JalousieSeen(JalousieOn(e, "down", v), t, w)
             /\ t # "autoActive" /\ JalousieSeen(e, t, w) => JalousieSeen(JalousieOn(e, "autoActive", v), t, w)
  BY <1>2, Zenon DEF JalousieOn, Jalousies, JalousieSeen
<1>3. ASSUME NEW s \in S PROVE StatesOf("Jalousie", s) = Int
  BY DEF StatesOf
<1>4. ASSUME NEW e \in Jalousies, NEW s \in S, NEW v \in Int
      PROVE  \A t \in S : \A w : t # s /\ JalousieSeen(e, t, w) => JalousieSeen(JalousieOn(e, s, v), t, w)
  BY <1>2
<1>5. EntitiesOf("Jalousie") = Jalousies /\ PlatformStreams("Jalousie") = S
  BY JalousieIs
<1>. HIDE DEF S
<1>6. ASSUME NEW e \in Jalousies, NEW s \in S, NEW v \in Int
      PROVE  /\ Handled("Jalousie", e, s, v) \in Jalousies /\ Seen("Jalousie", Handled("Jalousie", e, s, v), s, v)
             /\ \A t \in S : \A w : t # s /\ Seen("Jalousie", e, t, w)
                                   => Seen("Jalousie", Handled("Jalousie", e, s, v), t, w)
  BY <1>1, <1>4, JalousieIs
<1>. QED
  BY <1>3, <1>5, <1>6 DEF HandlesWell

\* A gate that is open or closed already is told nothing, and shows that it is.
LEMMA GateAnswers == AnswersWell("Gate")
<1>. SUFFICES ASSUME NEW e \in Gates, NEW r \in Requests("Gate"), NEW a, Held("Gate", a), AllSeen("Gate", e, a),
                     NEW f \in Gates, AllSeen("Gate", f, Done("Gate", a, GateCommands(e, r)))
     PROVE  CoverShows(f, r)
  BY GateIs, CoverFamily DEF AnswersWell, Answered
<1>. DEFINE b == Done("Gate", a, GateCommands(e, r))
<1>1. /\ e.position = {a["position"]} /\ f.position = {b["position"]} /\ (f.closed <=> b["position"] = 0)
      /\ f.direction = b["active"] /\ f.up = 0 /\ f.down = 0
  BY GateIs DEF AllSeen, GateSeen, Gates
<1>2. "position" \in DOMAIN a /\ "active" \in DOMAIN a
  BY GateIs, CoverStates DEF Streams
<1>3. Full \in Nat /\ Full # 0 /\ r[1] \in {"open", "close", "stop", "position"}
  BY CoversAssumption, CoverRequest, GateIs
<1>4. CASE r[1] = "open"
  <2>1. GateCommands(e, r) = IF e.position = {Full} THEN <<>> ELSE <<<<"open", 0>>>>
    BY <1>4, Zenon DEF GateCommands
  <2>2. b["position"] = Full
    <3>1. CASE e.position = {Full}
      BY <1>1, <2>1, <3>1, DoneNone
    <3>2. CASE e.position # {Full}
      BY <1>2, <2>1, <3>2, DoneOne, GateIs, CoverFamily, CoverExecuted
    <3>. QED
      BY <3>1, <3>2
  <2>. QED
    BY <1>1, <1>3, <1>4, <2>2, Zenon DEF CoverShows
<1>5. CASE r[1] = "close"
  <2>1. GateCommands(e, r) = IF e.position = {0} THEN <<>> ELSE <<<<"close", 0>>>>
    BY <1>5, Zenon DEF GateCommands
  <2>2. b["position"] = 0
    <3>1. CASE e.position = {0}
      BY <1>1, <2>1, <3>1, DoneNone
    <3>2. CASE e.position # {0}
      BY <1>2, <2>1, <3>2, DoneOne, GateIs, CoverFamily, CoverExecuted
    <3>. QED
      BY <3>1, <3>2
  <2>. QED
    BY <1>1, <1>3, <1>5, <2>2, Zenon DEF CoverShows
<1>6. CASE r[1] = "stop"
  <2>1. GateCommands(e, r) = <<<<"stop", 0>>>>
    BY <1>6, Zenon DEF GateCommands
  <2>2. b["active"] = 0
    BY <1>2, <2>1, DoneNone, DoneOne, GateIs, CoverFamily, CoverExecuted
  <2>3. ~IsMoving(f)
    BY <1>1, <2>2 DEF IsMoving
  <2>. QED
    BY <1>6, <2>3, Zenon DEF CoverShows
<1>7. CASE r[1] = "position"
  <2>1. GateCommands(e, r) = <<<<"manualPosition", r[2]>>>>
    BY <1>7, Zenon DEF GateCommands
  <2>2. b["position"] = r[2]
    BY <1>2, <2>1, DoneNone, DoneOne, GateIs, CoverFamily, CoverExecuted
  <2>. QED
    BY <1>1, <1>7, <2>2, Zenon DEF CoverShows, Gates
<1>. QED
  BY <1>3, <1>4, <1>5, <1>6, <1>7

LEMMA WindowAnswers == AnswersWell("Window")
<1>. SUFFICES ASSUME NEW e \in Windows, NEW r \in Requests("Window"), NEW a, Held("Window", a),
                     NEW f \in Windows, AllSeen("Window", f, Done("Window", a, WindowCommands(e, r)))
     PROVE  CoverShows(f, r)
  BY WindowIs, CoverFamily DEF AnswersWell, Answered
<1>. DEFINE b == Done("Window", a, WindowCommands(e, r))
<1>1. /\ f.position = {b["position"]} /\ (f.closed <=> b["position"] = 0)
      /\ f.direction = b["direction"] /\ f.up = 0 /\ f.down = 0
  BY WindowIs DEF AllSeen, WindowSeen, Windows
<1>2. "position" \in DOMAIN a /\ "direction" \in DOMAIN a
  BY WindowIs, CoverStates DEF Streams
<1>3. Full \in Nat /\ Full # 0 /\ r[1] \in {"open", "close", "stop", "position"}
  BY CoversAssumption, CoverRequest, WindowIs
<1>4. CASE r[1] = "open"
  <2>1. WindowCommands(e, r) = <<<<"fullopen", 0>>>>
    BY <1>4, Zenon DEF WindowCommands
  <2>2. b["position"] = Full
    BY <1>2, <2>1, DoneOne, WindowIs, CoverFamily, CoverExecuted
  <2>. QED
    BY <1>1, <1>3, <1>4, <2>2, Zenon DEF CoverShows
<1>5. CASE r[1] = "close"
  <2>1. WindowCommands(e, r) = <<<<"fullclose", 0>>>>
    BY <1>5, Zenon DEF WindowCommands
  <2>2. b["position"] = 0
    BY <1>2, <2>1, DoneOne, WindowIs, CoverFamily, CoverExecuted
  <2>. QED
    BY <1>1, <1>3, <1>5, <2>2, Zenon DEF CoverShows
<1>6. CASE r[1] = "stop"
  <2>1. WindowCommands(e, r) = <<<<"stop", 0>>>>
    BY <1>6, Zenon DEF WindowCommands
  <2>2. b["direction"] = 0
    BY <1>2, <2>1, DoneOne, WindowIs, CoverFamily, CoverExecuted
  <2>3. ~IsMoving(f)
    BY <1>1, <2>2 DEF IsMoving
  <2>. QED
    BY <1>6, <2>3, Zenon DEF CoverShows
<1>7. CASE r[1] = "position"
  <2>1. WindowCommands(e, r) = <<<<"moveToPosition", r[2]>>>>
    BY <1>7, Zenon DEF WindowCommands
  <2>2. b["position"] = r[2]
    BY <1>2, <2>1, DoneOne, WindowIs, CoverFamily, CoverExecuted
  <2>. QED
    BY <1>1, <1>7, <2>2, Zenon DEF CoverShows, Windows
<1>. QED
  BY <1>3, <1>4, <1>5, <1>6, <1>7

LEMMA JalousieAnswers == AnswersWell("Jalousie")
<1>. SUFFICES ASSUME NEW e \in Jalousies, NEW r \in Requests("Jalousie"), NEW a,
                     Held("Jalousie", a), AllSeen("Jalousie", e, a),
                     NEW f \in Jalousies, AllSeen("Jalousie", f, Done("Jalousie", a, JalousieCommands(e, r)))
     PROVE  CoverShows(f, r)
  BY JalousieIs, CoverFamily DEF AnswersWell, Answered
<1>. DEFINE b == Done("Jalousie", a, JalousieCommands(e, r))
<1>1. /\ e.position = {Inverted(a["position"])} /\ f.position = {Inverted(b["position"])}
      /\ (f.closed <=> Inverted(b["position"]) = 0)
      /\ f.tilt = {Inverted(b["shadePosition"])} /\ f.auto = b["autoActive"]
      /\ f.direction = 0 /\ f.up = b["up"] /\ f.down = b["down"]
  BY JalousieIs DEF AllSeen, JalousieSeen, Jalousies
<1>2. \A s \in {"position", "shadePosition", "up", "down", "autoActive"} : s \in DOMAIN a
  BY JalousieIs, CoverStates DEF Streams
<1>3. /\ Full \in Nat /\ Full # 0 /\ r[2] \in Int /\ (r[1] = "automation" => r[2] \in {0, 1})
      /\ r[1] \in {"open", "close", "stop", "position", "tilt", "automation"}
  BY CoversAssumption, CoverRequest, JalousieIs
<1>4. Inverted(Inverted(r[2])) = r[2] /\ Inverted(0) = Full /\ Inverted(Full) = 0
  BY <1>3 DEF Inverted
<1>5. CASE r[1] = "open"
  <2>1. JalousieCommands(e, r) = IF e.position = {Full} THEN <<>> ELSE <<<<"FullUp", 0>>>>
    BY <1>5, Zenon DEF JalousieCommands
  <2>2. Inverted(b["position"]) = Full
    BY <1>1, <1>2, <1>4, <2>1, DoneNone, DoneOne, JalousieIs, CoverFamily, CoverExecuted
  <2>. QED
    BY <1>1, <1>3, <1>5, <2>2, Zenon DEF CoverShows
<1>6. CASE r[1] = "close"
  <2>1. JalousieCommands(e, r) = IF e.position = {0} THEN <<>> ELSE <<<<"FullDown", 0>>>>
    BY <1>6, Zenon DEF JalousieCommands
  <2>2. Inverted(b["position"]) = 0
    BY <1>1, <1>2, <1>4, <2>1, DoneNone, DoneOne, JalousieIs, CoverFamily, CoverExecuted
  <2>. QED
    BY <1>1, <1>3, <1>6, <2>2, Zenon DEF CoverShows
<1>7. CASE r[1] = "stop"
  <2>1. JalousieCommands(e, r) = <<<<"stop", 0>>>>
    BY <1>7, Zenon DEF JalousieCommands
  <2>2. b["up"] = 0 /\ b["down"] = 0
    BY <1>2, <2>1, DoneOne, JalousieIs, CoverFamily, CoverExecuted
  <2>3. ~IsMoving(f)
    BY <1>1, <2>2 DEF IsMoving
  <2>. QED
    BY <1>7, <2>3, Zenon DEF CoverShows
<1>8. CASE r[1] = "position"
  <2>1. JalousieCommands(e, r) = <<<<"manualPosition", Inverted(r[2])>>>>
    BY <1>8, Zenon DEF JalousieCommands
  <2>2. Inverted(b["position"]) = r[2]
    BY <1>2, <1>4, <2>1, DoneOne, JalousieIs, CoverFamily, CoverExecuted
  <2>. QED
    BY <1>1, <1>8, <2>2, Zenon DEF CoverShows, Jalousies
<1>9. CASE r[1] = "tilt"
  <2>1. JalousieCommands(e, r) = <<<<"manualLamelle", Inverted(r[2])>>>>
    BY <1>9, Zenon DEF JalousieCommands
  <2>2. Inverted(b["shadePosition"]) = r[2]
    BY <1>2, <1>4, <2>1, DoneOne, JalousieIs, CoverFamily, CoverExecuted
  <2>. QED
    BY <1>1, <1>9, <2>2, Zenon DEF CoverShows
<1>10. CASE r[1] = "automation"
  <2>1. JalousieCommands(e, r) = <<<<IF r[2] = 1 THEN "auto" ELSE "NoAuto", 0>>>>
    BY <1>10, Zenon DEF JalousieCommands
  <2>2. b["autoActive"] = r[2]
    BY <1>2, <1>3, <1>10, <2>1, DoneOne, JalousieIs, CoverFamily, CoverExecuted
  <2>. QED
    BY <1>1, <1>10, <2>2, Zenon DEF CoverShows
<1>. QED
  BY <1>3, <1>5, <1>6, <1>7, <1>8, <1>9, <1>10

LEMMA CoversDisplayWell == \A k \in CoverKinds : DisplaysWell(k)
BY CoverStarts, CoverSends, CoverExecutesWell, GateHandles, WindowHandles, JalousieHandles,
   GateAnswers, WindowAnswers, JalousieAnswers DEF DisplaysWell, CoverKinds

(***************************************************************************)
(* Room controllers and the air conditioner.                               *)
(***************************************************************************)
LEMMA CatNone == ASSUME NEW c PROVE <<>> \o <<c>> = <<c>>
OBVIOUS

LEMMA CatEnd == ASSUME NEW c PROVE <<c>> \o <<>> = <<c>>
OBVIOUS

LEMMA CatOne == ASSUME NEW c, NEW d PROVE <<c>> \o <<d>> = <<c, d>>
<1>. DEFINE S == {c, d}
<1>1. <<c>> \in Seq(S) /\ <<d>> \in Seq(S) /\ <<c, d>> \in Seq(S)
  OBVIOUS
<1>2. <<c>> \o <<d>> \in Seq(S) /\ Len(<<c>> \o <<d>>) = 2
  BY <1>1
<1>3. (<<c>> \o <<d>>)[1] = c /\ (<<c>> \o <<d>>)[2] = d
  BY <1>1
<1>4. ASSUME NEW i \in 1 .. 2 PROVE (<<c>> \o <<d>>)[i] = <<c, d>>[i]
  BY <1>3
<1>. QED
  BY <1>1, <1>2, <1>4, SeqEqual

LEMMA TemperaturesAre == ASSUME NEW x \in Temperatures PROVE x \in Int /\ x # 0
BY ClimatesAssumption

LEMMA V1Is ==
  /\ "RoomV1" \in ClimateKinds /\ EntitiesOf("RoomV1") = RoomsV1
  /\ PlatformStreams("RoomV1") = {"mode", "serviceMode"}
  /\ Streams("RoomV1") = {"mode", "serviceMode", "jLocked"}
  /\ CommandsOf("RoomV1") = {"service", "mode"} \X Int
  /\ \A e, s, v : Seen("RoomV1", e, s, v) <=> V1Seen(e, s, v)
  /\ \A e, s, v : Handled("RoomV1", e, s, v) = V1On(e, s, v)
  /\ \A e, r : Commands("RoomV1", e, r) = V1Commands(e, r[2])
  /\ \A a, c : Executed("RoomV1", a, c) = V1Executes(a, c)
  /\ \A e, r : Shown("RoomV1", e, r) <=> V1HvacMode(e) = r[2]
<1>1. "RoomV1" \in ClimateKinds /\ ~IsV2("RoomV1")
  BY DEF ClimateKinds, IsV2
<1>2. EntitiesOf("RoomV1") = RoomsV1
  BY DEF EntitiesOf, IsV2, LightKinds, PickerKinds
<1>3. PlatformStreams("RoomV1") = {"mode", "serviceMode"}
  BY <1>1, ClimateFamily DEF ClimateStreams
<1>4. Streams("RoomV1") = {"mode", "serviceMode", "jLocked"}
  BY <1>1, <1>3 DEF Streams, HasLock
<1>5. CommandsOf("RoomV1") = {"service", "mode"} \X Int
  BY <1>1 DEF CommandsOf, CoverKinds, PickerKinds, LightKinds
<1>6. \A e, s, v : Seen("RoomV1", e, s, v) <=> V1Seen(e, s, v)
  BY DEF Seen, IsV2, LightKinds, PickerKinds
<1>7. \A e, s, v : Handled("RoomV1", e, s, v) = V1On(e, s, v)
  BY <1>1, ClimateFamily DEF ClimateOn
<1>8. \A e, r : Commands("RoomV1", e, r) = V1Commands(e, r[2])
  BY <1>1, ClimateFamily DEF ClimateCommands
<1>9. \A a, c : Executed("RoomV1", a, c) = V1Executes(a, c)
  BY <1>1, ClimateFamily DEF ClimateExecutes
<1>10. \A e, r : Shown("RoomV1", e, r) <=> V1HvacMode(e) = r[2]
  BY <1>1, ClimateFamily DEF ClimateShows
<1>. QED
  BY <1>1, <1>2, <1>3, <1>4, <1>5, <1>6, <1>7, <1>8, <1>9, <1>10

LEMMA V1States ==
  ASSUME NEW a
  PROVE  Held("RoomV1", a) <=> DOMAIN a = Streams("RoomV1") /\ \A s \in Streams("RoomV1") : a[s] \in Int
<1>1. \A s \in Streams("RoomV1") : StatesOf("RoomV1", s) = Int
  BY V1Is DEF StatesOf
<1>2. ClimateStates("RoomV1", a)
  BY DEF ClimateStates, IsV2
<1>. QED
  BY <1>1, <1>2 DEF Held

LEMMA V1Request ==
  ASSUME NEW r \in Requests("RoomV1")
  PROVE  r[1] = "hvac" /\ r[2] \in {"off", "auto", "heat", "cool"}
<1>1. Requests("RoomV1") = {"hvac"} \X {"off", "auto", "heat", "cool"}
  BY V1Is, ClimateFamily DEF ClimateRequests, IsV2
<1>. QED
  BY <1>1

LEMMA V1CommandsAre ==
  ASSUME NEW e, NEW m \in {"off", "auto", "heat", "cool"}
  PROVE  /\ m = "off" => V1Commands(e, m) = <<<<"service", 1>>>>
         /\ m # "off" => \E x \in {0, 3, 4} :
              /\ m = "auto" => x = 0
              /\ m = "heat" => x = 3
              /\ m = "cool" => x = 4
              /\ V1Commands(e, m) = IF e.service = {1} THEN <<<<"service", 0>>, <<"mode", x>>>> ELSE <<<<"mode", x>>>>
<1>1. CASE m = "off"
  BY <1>1, Zenon DEF V1Commands
<1>2. CASE m # "off"
  <2>. DEFINE x == CASE m = "auto" -> 0 [] m = "heat" -> 3 [] m = "cool" -> 4
  <2>1. (m = "auto" => x = 0) /\ (m = "heat" => x = 3) /\ (m = "cool" => x = 4) /\ x \in {0, 3, 4}
    BY <1>2, Zenon
  <2>2. V1Commands(e, m) = (IF e.service = {1} THEN <<<<"service", 0>>>> ELSE <<>>) \o <<<<"mode", x>>>>
    BY <1>2, Zenon DEF V1Commands
  <2>3. V1Commands(e, m) = IF e.service = {1} THEN <<<<"service", 0>>, <<"mode", x>>>> ELSE <<<<"mode", x>>>>
    BY <2>2, CatNone, CatOne, Zenon
  <2>. QED
    BY <1>2, <2>1, <2>3, Zenon
<1>. QED
  BY <1>1, <1>2

LEMMA V1DisplaysWell == DisplaysWell("RoomV1")
<1>1. StartsWell("RoomV1")
  <2>1. Fresh("RoomV1") = V1Fresh
    BY V1Is, ClimateFamily DEF ClimateFresh, IsV2
  <2>. QED
    BY <2>1, V1Is DEF StartsWell, V1Fresh, RoomsV1
<1>2. HandlesWell("RoomV1")
  <2>1. ASSUME NEW s \in PlatformStreams("RoomV1") PROVE StatesOf("RoomV1", s) = Int
    BY V1Is DEF StatesOf
  <2>2. ASSUME NEW e \in RoomsV1, NEW s \in {"mode", "serviceMode"}, NEW v \in Int
        PROVE  /\ V1On(e, s, v) \in RoomsV1 /\ V1Seen(V1On(e, s, v), s, v)
               /\ \A t \in {"mode", "serviceMode"} : \A w : t # s /\ V1Seen(e, t, w) => V1Seen(V1On(e, s, v), t, w)
    BY <2>2 DEF V1On, V1Seen, RoomsV1
  <2>. QED
    BY <2>1, <2>2, V1Is DEF HandlesWell
<1>3. SendsWell("RoomV1")
  <2>1. ASSUME NEW e, NEW r \in Requests("RoomV1") PROVE V1Commands(e, r[2]) \in Orders("RoomV1")
    <3>1. \A x \in {0, 1, 3, 4} : <<"service", x>> \in CommandsOf("RoomV1") /\ <<"mode", x>> \in CommandsOf("RoomV1")
      BY V1Is
    <3>2. CASE r[2] = "off"
      <4>1. V1Commands(e, r[2]) = <<<<"service", 1>>>>
        BY <3>2, V1CommandsAre
      <4>. QED
        BY <3>1, <4>1, OrderOf, Zenon
    <3>3. CASE r[2] # "off"
      <4>1. PICK x \in {0, 3, 4} :
              V1Commands(e, r[2]) = IF e.service = {1} THEN <<<<"service", 0>>, <<"mode", x>>>> ELSE <<<<"mode", x>>>>
        BY <3>3, V1Request, V1CommandsAre
      <4>2. <<"service", 0>> \in CommandsOf("RoomV1") /\ <<"mode", x>> \in CommandsOf("RoomV1")
        BY <3>1
      <4>3. CASE e.service = {1}
        <5>1. V1Commands(e, r[2]) = <<<<"service", 0>>, <<"mode", x>>>>
          BY <4>1, <4>3
        <5>. QED
          BY <4>2, <5>1, OrderOf, Zenon
      <4>4. CASE e.service # {1}
        <5>1. V1Commands(e, r[2]) = <<<<"mode", x>>>>
          BY <4>1, <4>4
        <5>. QED
          BY <4>2, <5>1, OrderOf, Zenon
      <4>. QED
        BY <4>3, <4>4
    <3>. QED
      BY <3>2, <3>3
  <2>. QED
    BY <2>1, V1Is DEF SendsWell
<1>4. ExecutesWell("RoomV1")
  BY V1Is, V1States DEF ExecutesWell, V1Executes
<1>5. AnswersWell("RoomV1")
  <2>. SUFFICES ASSUME NEW e \in RoomsV1, NEW r \in Requests("RoomV1"), NEW a,
                       Held("RoomV1", a), AllSeen("RoomV1", e, a),
                       NEW f \in RoomsV1, AllSeen("RoomV1", f, Done("RoomV1", a, V1Commands(e, r[2])))
       PROVE  V1HvacMode(f) = r[2]
    BY V1Is DEF AnswersWell, Answered
  <2>. DEFINE b == Done("RoomV1", a, V1Commands(e, r[2]))
  <2>1. e.service = {a["serviceMode"]} /\ f.service = {b["serviceMode"]} /\ f.mode = {b["mode"]}
    BY V1Is DEF AllSeen, V1Seen
  <2>2. DOMAIN a = {"mode", "serviceMode", "jLocked"}
    BY V1Is, V1States
  <2>3. CASE r[2] = "off"
    <3>1. V1Commands(e, r[2]) = <<<<"service", 1>>>>
      BY <2>3, V1CommandsAre
    <3>2. b["serviceMode"] = 1
      BY <2>2, <3>1, DoneOne, V1Is DEF V1Executes
    <3>. QED
      BY <2>1, <2>3, <3>2 DEF V1HvacMode
  <2>4. CASE r[2] # "off"
    <3>1. PICK x \in {0, 3, 4} :
            /\ r[2] = "auto" => x = 0
            /\ r[2] = "heat" => x = 3
            /\ r[2] = "cool" => x = 4
            /\ V1Commands(e, r[2]) = IF e.service = {1} THEN <<<<"service", 0>>, <<"mode", x>>>> ELSE <<<<"mode", x>>>>
      BY <2>4, V1Request, V1CommandsAre
    <3>2. b["serviceMode"] # 1 /\ b["mode"] = x
      <4>1. CASE e.service = {1}
        BY <2>2, <3>1, <4>1, DoneTwo, V1Is DEF V1Executes
      <4>2. CASE e.service # {1}
        BY <2>1, <2>2, <3>1, <4>2, DoneOne, V1Is DEF V1Executes
      <4>. QED
        BY <4>1, <4>2
    <3>. QED
      BY <2>1, <2>4, <3>1, <3>2, V1Request DEF V1HvacMode
  <2>. QED
    BY <2>3, <2>4
<1>. QED
  BY <1>1, <1>2, <1>3, <1>4, <1>5 DEF DisplaysWell

LEMMA AcIs ==
  /\ "AcControl" \in ClimateKinds /\ EntitiesOf("AcControl") = Acs
  /\ PlatformStreams("AcControl") = {"status", "mode", "targetTemperature"}
  /\ Streams("AcControl") = {"status", "mode", "targetTemperature", "jLocked"}
  /\ CommandsOf("AcControl") = {"setTarget", "on", "off", "setMode"} \X Int
  /\ \A e, s, v : Seen("AcControl", e, s, v) <=> AcSeen(e, s, v)
  /\ \A e, s, v : Handled("AcControl", e, s, v) = AcOn(e, s, v)
  /\ \A e, r : Commands("AcControl", e, r) = AcCommands(r)
  /\ \A a, c : Executed("AcControl", a, c) = AcExecutes(a, c)
<1>1. "AcControl" \in ClimateKinds /\ ~IsV2("AcControl")
  BY DEF ClimateKinds, IsV2
<1>2. EntitiesOf("AcControl") = Acs
  BY DEF EntitiesOf, IsV2, LightKinds, PickerKinds
<1>3. PlatformStreams("AcControl") = {"status", "mode", "targetTemperature"}
  BY <1>1, ClimateFamily DEF ClimateStreams
<1>4. Streams("AcControl") = {"status", "mode", "targetTemperature", "jLocked"}
  BY <1>1, <1>3 DEF Streams, HasLock
<1>5. CommandsOf("AcControl") = {"setTarget", "on", "off", "setMode"} \X Int
  BY <1>1 DEF CommandsOf, CoverKinds, PickerKinds, LightKinds
<1>6. \A e, s, v : Seen("AcControl", e, s, v) <=> AcSeen(e, s, v)
  BY DEF Seen, IsV2, LightKinds, PickerKinds
<1>7. \A e, s, v : Handled("AcControl", e, s, v) = AcOn(e, s, v)
  BY <1>1, ClimateFamily DEF ClimateOn
<1>8. \A e, r : Commands("AcControl", e, r) = AcCommands(r)
  BY <1>1, ClimateFamily DEF ClimateCommands
<1>9. \A a, c : Executed("AcControl", a, c) = AcExecutes(a, c)
  BY <1>1, ClimateFamily DEF ClimateExecutes
<1>. QED
  BY <1>1, <1>2, <1>3, <1>4, <1>5, <1>6, <1>7, <1>8, <1>9

LEMMA AcStates ==
  ASSUME NEW a
  PROVE  Held("AcControl", a) <=> DOMAIN a = Streams("AcControl") /\ \A s \in Streams("AcControl") : a[s] \in Int
<1>1. \A s \in Streams("AcControl") : StatesOf("AcControl", s) = Int
  BY AcIs DEF StatesOf
<1>2. ClimateStates("AcControl", a)
  BY DEF ClimateStates, IsV2
<1>. QED
  BY <1>1, <1>2 DEF Held

LEMMA AcRequest ==
  ASSUME NEW r \in Requests("AcControl")
  PROVE  \/ r[1] = "hvac" /\ r[2] \in {"off", "auto", "heat", "cool", "dry", "fan_only"}
         \/ r[1] = "temperature" /\ r[2] \in Int
<1>1. Requests("AcControl") = ({"hvac"} \X {"off", "auto", "heat", "cool", "dry", "fan_only"})
                                 \cup ({"temperature"} \X Temperatures)
  BY AcIs, ClimateFamily DEF ClimateRequests, IsV2
<1>. QED
  BY <1>1, TemperaturesAre

LEMMA AcModes ==
  /\ AcMode("auto") = 1 /\ AcMode("heat") = 2 /\ AcMode("cool") = 3 /\ AcMode("dry") = 4 /\ AcMode("fan_only") = 5
BY DEF AcMode

LEMMA AcExecuted ==
  ASSUME NEW a, NEW c, DOMAIN a = Streams("AcControl")
  PROVE  LET b == AcExecutes(a, c)
         IN /\ c[1] = "setTarget" => b = [a EXCEPT !["targetTemperature"] = c[2]]
            /\ c[1] = "on" => b = [a EXCEPT !["status"] = 1]
            /\ c[1] = "off" => b = [a EXCEPT !["status"] = 0]
            /\ c[1] = "setMode" => b = [a EXCEPT !["mode"] = c[2]]
BY Zenon DEF AcExecutes

LEMMA AcDisplaysWell == DisplaysWell("AcControl")
<1>1. StartsWell("AcControl")
  <2>1. Fresh("AcControl") = AcFresh
    BY AcIs, ClimateFamily DEF ClimateFresh, IsV2
  <2>. QED
    BY <2>1, AcIs DEF StartsWell, AcFresh, Acs
<1>2. HandlesWell("AcControl")
  <2>1. ASSUME NEW s \in PlatformStreams("AcControl") PROVE StatesOf("AcControl", s) = Int
    BY AcIs DEF StatesOf
  <2>2. ASSUME NEW e \in Acs, NEW s \in {"status", "mode", "targetTemperature"}, NEW v \in Int
        PROVE  AcOn(e, s, v) \in Acs /\ AcSeen(AcOn(e, s, v), s, v)
    BY <2>2, Zenon DEF AcOn, AcSeen, Acs
  <2>3. ASSUME NEW e \in Acs, NEW v, NEW w, NEW t \in {"status", "mode", "targetTemperature"}
        PROVE  /\ t # "status" /\ AcSeen(e, t, w) => AcSeen(AcOn(e, "status", v), t, w)
               /\ t # "mode" /\ AcSeen(e, t, w) => AcSeen(AcOn(e, "mode", v), t, w)
               /\ t # "targetTemperature" /\ AcSeen(e, t, w) => AcSeen(AcOn(e, "targetTemperature", v), t, w)
    BY <2>3, Zenon DEF AcOn, AcSeen, Acs
  <2>. QED
    BY <2>1, <2>2, <2>3, AcIs DEF HandlesWell
<1>3. SendsWell("AcControl")
  <2>1. ASSUME NEW r \in Requests("AcControl") PROVE AcCommands(r) \in Orders("AcControl")
    <3>1. \A x \in Int : /\ <<"setTarget", x>> \in CommandsOf("AcControl") /\ <<"on", x>> \in CommandsOf("AcControl")
                         /\ <<"off", x>> \in CommandsOf("AcControl") /\ <<"setMode", x>> \in CommandsOf("AcControl")
      BY AcIs
    <3>2. r[1] # "temperature" /\ r[2] # "off" => AcMode(r[2]) \in Int
      BY AcRequest, AcModes
    <3>3. 0 \in Int /\ (r[1] = "temperature" => r[2] \in Int)
      BY AcRequest
    <3>. QED
      BY <3>1, <3>2, <3>3, OrderOf, Zenon DEF AcCommands
  <2>. QED
    BY <2>1, AcIs DEF SendsWell
<1>4. ExecutesWell("AcControl")
  <2>1. ASSUME NEW a, NEW c \in {"setTarget", "on", "off", "setMode"} \X Int, Held("AcControl", a)
        PROVE  Held("AcControl", AcExecutes(a, c))
    BY <2>1, AcIs, AcStates, AcExecuted
  <2>. QED
    BY <2>1, AcIs DEF ExecutesWell
<1>5. AnswersWell("AcControl")
  <2>. SUFFICES ASSUME NEW e, NEW r \in Requests("AcControl"), NEW a, Held("AcControl", a),
                       NEW f \in Acs, AllSeen("AcControl", f, Done("AcControl", a, AcCommands(r)))
       PROVE  ClimateShows("AcControl", f, r)
    BY AcIs, ClimateFamily DEF AnswersWell, Answered
  <2>. DEFINE b == Done("AcControl", a, AcCommands(r))
  <2>1. (f.on <=> b["status"] # 0) /\ f.mode = {b["mode"]} /\ f.target = {b["targetTemperature"]}
    BY AcIs DEF AllSeen, AcSeen
  <2>2. DOMAIN a = Streams("AcControl") /\ DOMAIN a = {"status", "mode", "targetTemperature", "jLocked"}
    BY AcIs, AcStates
  <2>3. CASE r[1] = "temperature"
    <3>1. AcCommands(r) = <<<<"setTarget", r[2]>>>>
      BY <2>3 DEF AcCommands
    <3>2. b["targetTemperature"] = r[2]
      BY <2>2, <3>1, DoneOne, AcIs, AcExecuted
    <3>. QED
      BY <2>1, <2>3, <3>2 DEF ClimateShows, IsV2
  <2>4. CASE r[1] = "hvac"
    <3>1. r[2] \in {"off", "auto", "heat", "cool", "dry", "fan_only"}
      BY <2>4, AcRequest
    <3>2. CASE r[2] = "off"
      <4>1. AcCommands(r) = <<<<"off", 0>>>>
        BY <2>4, <3>2 DEF AcCommands
      <4>2. b["status"] = 0
        BY <2>2, <4>1, DoneOne, AcIs, AcExecuted
      <4>3. AcHvacMode(f) = "off"
        BY <2>1, <4>2, Zenon DEF AcHvacMode
      <4>. QED
        BY <2>4, <3>2, <4>3 DEF ClimateShows, IsV2
    <3>3. CASE r[2] # "off"
      <4>1. AcCommands(r) = <<<<"on", 0>>, <<"setMode", AcMode(r[2])>>>>
        BY <2>4, <3>3 DEF AcCommands
      <4>2. b["status"] = 1 /\ b["mode"] = AcMode(r[2])
        BY <2>2, <4>1, DoneTwo, AcIs, AcExecuted
      <4>3. f.on /\ f.mode = {AcMode(r[2])}
        BY <2>1, <4>2
      <4>4. AcHvacMode(f) = r[2]
        <5>1. AcHvacMode(f) = CASE f.mode = {2} -> "heat" [] f.mode = {3} -> "cool" [] f.mode = {4} -> "dry"
                                [] f.mode = {5} -> "fan_only" [] OTHER -> "auto"
          BY <4>3, Zenon DEF AcHvacMode
        <5>2. \A x, y \in {1, 2, 3, 4, 5} : {x} = {y} => x = y
          OBVIOUS
        <5>. QED
          BY <3>1, <3>3, <4>3, <5>1, <5>2, AcModes
      <4>. QED
        BY <2>4, <4>4 DEF ClimateShows, IsV2
    <3>. QED
      BY <3>2, <3>3
  <2>. QED
    BY <2>3, <2>4, AcRequest
<1>. QED
  BY <1>1, <1>2, <1>3, <1>4, <1>5 DEF DisplaysWell

RoomKinds == {"RoomV2", "RoomV2Single", "RoomV2Comfort"}
RoomStreams == {"operatingMode", "activeMode", "overrideReason", "setpoints", "tempTarget"}
ActiveModes == {0, 1, 2, 3, 4, 14} \cup {Dynamic + t : t \in Temperatures}

LEMMA V2Is ==
  ASSUME NEW k \in RoomKinds
  PROVE  /\ k \in ClimateKinds /\ IsV2(k) /\ EntitiesOf(k) = RoomsV2
         /\ PlatformStreams(k) = RoomStreams /\ Streams(k) = RoomStreams \cup {"jLocked"}
         /\ \A e, s, v : Seen(k, e, s, v) <=> V2Seen(e, s, v)
         /\ \A e, s, v : Handled(k, e, s, v) = V2On(e, s, v)
         /\ \A e, r : Commands(k, e, r) = V2Commands(k, e, r)
         /\ \A a, c : Executed(k, a, c) = V2Executes(a, c)
         /\ \A e, r : Shown(k, e, r) <=> V2Shows(e, r)
<1>1. k \in ClimateKinds /\ IsV2(k) /\ k # "RoomV1" /\ k # "AcControl"
  BY DEF ClimateKinds, IsV2, RoomKinds
<1>2. k \notin {"Gate", "Window", "Jalousie"}
  BY DEF RoomKinds
<1>3. k \notin PickerKinds \cup LightKinds \cup {"Dimmer", "Fan", "Zone", "Radio", "ValueSelector", "Alarm"}
  BY DEF RoomKinds, PickerKinds, LightKinds
<1>4. EntitiesOf(k) = RoomsV2
  BY <1>1, <1>2, <1>3 DEF EntitiesOf
<1>5. PlatformStreams(k) = RoomStreams
  <2>1. ClimateStreams(k) = RoomStreams
    BY <1>1, Zenon DEF ClimateStreams, RoomStreams
  <2>. QED
    BY <1>1, <2>1, ClimateFamily
<1>6. Streams(k) = RoomStreams \cup {"jLocked"}
  BY <1>1, <1>5 DEF Streams, HasLock
<1>7. ASSUME NEW e, NEW s, NEW v PROVE Seen(k, e, s, v) <=> V2Seen(e, s, v)
  BY <1>1, <1>2, <1>3, Zenon DEF Seen
<1>8. ASSUME NEW e, NEW s, NEW v PROVE Handled(k, e, s, v) = V2On(e, s, v)
  <2>1. ClimateOn(k, e, s, v) = V2On(e, s, v)
    BY <1>1, Zenon DEF ClimateOn
  <2>. QED
    BY <1>1, <2>1, ClimateFamily
<1>9. ASSUME NEW e, NEW r PROVE Commands(k, e, r) = V2Commands(k, e, r)
  <2>1. ClimateCommands(k, e, r) = V2Commands(k, e, r)
    BY <1>1, Zenon DEF ClimateCommands
  <2>. QED
    BY <1>1, <2>1, ClimateFamily
<1>10. ASSUME NEW a, NEW c PROVE Executed(k, a, c) = V2Executes(a, c)
  <2>1. ClimateExecutes(k, a, c) = V2Executes(a, c)
    BY <1>1, Zenon DEF ClimateExecutes
  <2>. QED
    BY <1>1, <2>1, ClimateFamily
<1>11. ASSUME NEW e, NEW r PROVE Shown(k, e, r) <=> V2Shows(e, r)
  <2>1. ClimateShows(k, e, r) <=> V2Shows(e, r)
    BY <1>1, Zenon DEF ClimateShows
  <2>. QED
    BY <1>1, <2>1, ClimateFamily
<1>. QED
  BY <1>1, <1>4, <1>5, <1>6, <1>7, <1>8, <1>9, <1>10, <1>11

LEMMA V2Range ==
  ASSUME NEW k \in RoomKinds
  PROVE  CommandsOf(k) =
         ({"setOperatingMode"} \X (-1 .. 5)) \cup ({"override"} \X {0, 1, 2})
           \cup ({"override"} \X {Dynamic + t : t \in Temperatures})
           \cup ({"stopOverride", "setManualTemperature", "setComfortModeTemp", "setAbsentMaxTemperature",
                  "setAbsentMinTemperature", "setComfortTemperatureCool", "setComfortTemperature",
                  "setecoplusmaxtemperature", "setecoplusmintemperature"} \X Int)
<1>1. k \notin CoverKinds \cup PickerKinds \cup LightKinds /\ IsV2(k)
  BY DEF RoomKinds, CoverKinds, PickerKinds, LightKinds, IsV2
<1>2. k \notin {"RoomV1", "AcControl", "Dimmer", "Fan", "Zone", "Radio", "ValueSelector", "Switch",
                "TimedSwitch", "Override", "Mute", "Alarm"}
  BY DEF RoomKinds
<1>. QED
  BY <1>1, <1>2, Zenon DEF CommandsOf

LEMMA V2StatesOf ==
  ASSUME NEW k \in RoomKinds
  PROVE  /\ StatesOf(k, "operatingMode") = -1 .. 5 /\ StatesOf(k, "activeMode") = ActiveModes
         /\ StatesOf(k, "overrideReason") = {0, 1} /\ StatesOf(k, "setpoints") = SetPoints
         /\ StatesOf(k, "tempTarget") = Int /\ StatesOf(k, "jLocked") = Int
<1>1. \A s : s # "jLocked" => Values(k, s) = ClimateValues(k, s)
  BY V2Is, ClimateFamily
<1>2. ClimateValues(k, "operatingMode") = -1 .. 5 /\ ClimateValues(k, "overrideReason") = {0, 1}
  BY DEF ClimateValues
<1>3. ClimateValues(k, "activeMode") = ActiveModes
  BY DEF ClimateValues, ActiveModes
<1>. QED
  BY <1>1, <1>2, <1>3 DEF StatesOf, RoomKinds

RoomStates(a) ==
  /\ DOMAIN a = RoomStreams \cup {"jLocked"}
  /\ a["operatingMode"] \in -1 .. 5 /\ a["activeMode"] \in ActiveModes
  /\ a["overrideReason"] \in {0, 1} /\ a["setpoints"] \in SetPoints
  /\ a["tempTarget"] \in Int /\ a["jLocked"] \in Int
  /\ a["overrideReason"] = 1 => a["operatingMode"] \in Automatic \cup {3}

LEMMA V2Held == ASSUME NEW k \in RoomKinds, NEW a PROVE Held(k, a) <=> RoomStates(a)
<1>1. k \in ClimateKinds /\ (ClimateStates(k, a) <=> V2States(a))
  BY V2Is DEF ClimateStates
<1>. QED
  BY <1>1, V2Is, V2StatesOf DEF Held, RoomStates, RoomStreams, V2States

LEMMA V2Request ==
  ASSUME NEW k \in RoomKinds, NEW r \in Requests(k)
  PROVE  \/ r[1] = "hvac" /\ r[2] \in {"off", "auto", "heat", "cool", "heat_cool"}
         \/ r[1] \in {"temperature", "high", "low"} /\ r[2] \in Temperatures
         \/ r[1] = "override" /\ r[2] \in {0, 1, 2}
         \/ r[1] = "schedule"
<1>1. Requests(k) \subseteq ({"hvac"} \X {"off", "auto", "heat", "cool", "heat_cool"})
                              \cup ({"temperature", "high", "low"} \X Temperatures)
                              \cup ({"override"} \X {0, 1, 2}) \cup {<<"schedule", 0>>}
  <2>1. Requests(k) =
         ({"hvac"} \X {"off", "auto", "heat", "cool"}) \cup ({"temperature"} \X Temperatures)
           \cup ({"override"} \X {0, 1, 2}) \cup {<<"schedule", 0>>}
           \cup (IF RangePossible(k) THEN {<<"hvac", "heat_cool">>} ELSE {})
           \cup (IF k = "RoomV2" THEN {"high", "low"} \X Temperatures ELSE {})
    <3>1. Requests(k) = ClimateRequests(k) /\ IsV2(k) /\ k # "RoomV1" /\ k # "AcControl"
      BY V2Is, ClimateFamily DEF RoomKinds
    <3>. QED
      BY <3>1, Zenon DEF ClimateRequests
  <2>. QED
    BY <2>1
<1>. QED
  BY <1>1

\* What the Miniserver makes of each command.
LEMMA V2Executed ==
  ASSUME NEW a, NEW c
  PROVE  LET b == V2Executes(a, c)
         IN /\ c[1] = "setOperatingMode" =>
                 b = [a EXCEPT !["operatingMode"] = c[2],
                               !["overrideReason"] = IF c[2] \in Automatic \cup {3} THEN @ ELSE 0]
            /\ c[1] = "stopOverride" => b = [a EXCEPT !["overrideReason"] = 0]
            /\ c[1] = "override" =>
                 b = [a EXCEPT !["activeMode"] = c[2],
                               !["overrideReason"] = IF a["operatingMode"] \in Automatic \cup {3} THEN 1 ELSE 0]
            /\ c[1] \in {"setManualTemperature", "setComfortModeTemp"} => b = [a EXCEPT !["tempTarget"] = c[2]]
            /\ c[1] = "setAbsentMaxTemperature" =>
                 b = [a EXCEPT !["setpoints"] = [a["setpoints"] EXCEPT !["absentMax"] = c[2]]]
            /\ c[1] = "setAbsentMinTemperature" =>
                 b = [a EXCEPT !["setpoints"] = [a["setpoints"] EXCEPT !["absentMin"] = c[2]]]
            /\ c[1] = "setComfortTemperatureCool" =>
                 b = [a EXCEPT !["setpoints"] = [a["setpoints"] EXCEPT !["comfortCool"] = c[2]]]
            /\ c[1] = "setComfortTemperature" =>
                 b = [a EXCEPT !["setpoints"] = [a["setpoints"] EXCEPT !["comfort"] = c[2]]]
            /\ c[1] = "setecoplusmaxtemperature" =>
                 b = [a EXCEPT !["setpoints"] = [a["setpoints"] EXCEPT !["heatProtect"] = c[2]]]
            /\ c[1] = "setecoplusmintemperature" =>
                 b = [a EXCEPT !["setpoints"] = [a["setpoints"] EXCEPT !["frostProtect"] = c[2]]]
BY Zenon DEF V2Executes

LEMMA V2Starts == \A k \in RoomKinds : StartsWell(k)
<1>1. ASSUME NEW k \in RoomKinds PROVE Fresh(k) = V2Fresh
  <2>1. ClimateFresh(k) = V2Fresh
    BY V2Is, Zenon DEF ClimateFresh, RoomKinds
  <2>. QED
    BY <2>1, V2Is, ClimateFamily
<1>2. V2Fresh \in RoomsV2
  BY DEF V2Fresh, RoomsV2
<1>. QED
  BY <1>1, <1>2, V2Is DEF StartsWell

LEMMA V2Handles == \A k \in RoomKinds : HandlesWell(k)
<1>1. ASSUME NEW e \in RoomsV2, NEW v \in ActiveModes
      PROVE  V2On(e, "activeMode", v) \in RoomsV2 /\ V2Seen(V2On(e, "activeMode", v), "activeMode", v)
  <2>1. 0 \in Int /\ v \in Int /\ v - Dynamic \in Int /\ (v >= Dynamic \/ v \in {0, 1, 2, 3, 4, 14})
    BY ClimatesAssumption DEF ActiveModes, Dynamic
  <2>2. CASE v >= Dynamic
    <3>1. V2On(e, "activeMode", v) = [e EXCEPT !.active = Dynamic, !.fixedAt = v - Dynamic]
      BY <2>2, Zenon DEF V2On
    <3>. QED
      BY <2>1, <2>2, <3>1, Zenon DEF RoomsV2, V2Seen
  <2>3. CASE ~(v >= Dynamic)
    <3>1. V2On(e, "activeMode", v) = [e EXCEPT !.active = v, !.fixedAt = 0]
      BY <2>1, <2>3, Zenon DEF V2On
    <3>. QED
      BY <2>1, <2>3, <3>1, Zenon DEF RoomsV2, V2Seen
  <2>. QED
    BY <2>2, <2>3
<1>2. ASSUME NEW e \in RoomsV2, NEW v \in -1 .. 5
      PROVE  V2On(e, "operatingMode", v) \in RoomsV2 /\ V2Seen(V2On(e, "operatingMode", v), "operatingMode", v)
  BY <1>2 DEF V2On, RoomsV2, V2Seen
<1>3. ASSUME NEW e \in RoomsV2, NEW v \in Int
      PROVE  V2On(e, "overrideReason", v) \in RoomsV2 /\ V2Seen(V2On(e, "overrideReason", v), "overrideReason", v)
  <2>1. (v > 0) \in BOOLEAN
    OBVIOUS
  <2>. QED
    BY <2>1, Zenon DEF V2On, RoomsV2, V2Seen
<1>4. ASSUME NEW e \in RoomsV2, NEW v \in SetPoints
      PROVE  V2On(e, "setpoints", v) \in RoomsV2 /\ V2Seen(V2On(e, "setpoints", v), "setpoints", v)
  BY <1>4, Zenon DEF V2On, RoomsV2, V2Seen
<1>5. ASSUME NEW e \in RoomsV2, NEW v \in Int
      PROVE  V2On(e, "tempTarget", v) \in RoomsV2 /\ V2Seen(V2On(e, "tempTarget", v), "tempTarget", v)
  BY <1>5, Zenon DEF V2On, RoomsV2, V2Seen
<1>6. ASSUME NEW e \in RoomsV2, NEW v, NEW w, NEW t \in RoomStreams
      PROVE  /\ t # "operatingMode" /\ V2Seen(e, t, w) => V2Seen(V2On(e, "operatingMode", v), t, w)
             /\ t # "activeMode" /\ V2Seen(e, t, w) => V2Seen(V2On(e, "activeMode", v), t, w)
             /\ t # "overrideReason" /\ V2Seen(e, t, w) => V2Seen(V2On(e, "overrideReason", v), t, w)
             /\ t # "setpoints" /\ V2Seen(e, t, w) => V2Seen(V2On(e, "setpoints", v), t, w)
             /\ t # "tempTarget" /\ V2Seen(e, t, w) => V2Seen(V2On(e, "tempTarget", v), t, w)
  BY <1>6, Zenon DEF V2On, RoomsV2, V2Seen, RoomStreams
<1>7. ASSUME NEW k \in RoomKinds, NEW e \in RoomsV2, NEW s \in RoomStreams, NEW v \in StatesOf(k, s)
      PROVE  V2On(e, s, v) \in RoomsV2 /\ V2Seen(V2On(e, s, v), s, v)
  <2>1. CASE s = "operatingMode"
    BY <1>2, <1>7, <2>1, V2StatesOf
  <2>2. CASE s = "activeMode"
    BY <1>1, <1>7, <2>2, V2StatesOf
  <2>3. CASE s = "overrideReason"
    BY <1>3, <1>7, <2>3, V2StatesOf
  <2>4. CASE s = "setpoints"
    BY <1>4, <1>7, <2>4, V2StatesOf
  <2>5. CASE s = "tempTarget"
    BY <1>5, <1>7, <2>5, V2StatesOf
  <2>. QED
    BY <2>1, <2>2, <2>3, <2>4, <2>5 DEF RoomStreams
<1>8. ASSUME NEW e \in RoomsV2, NEW s \in RoomStreams, NEW v, NEW t \in RoomStreams, NEW w, t # s, V2Seen(e, t, w)
      PROVE  V2Seen(V2On(e, s, v), t, w)
  BY <1>6, <1>8 DEF RoomStreams
<1>. QED
  BY <1>7, <1>8, V2Is DEF HandlesWell

LEMMA V2ExecutesWell == \A k \in RoomKinds : ExecutesWell(k)
<1>. SUFFICES ASSUME NEW k \in RoomKinds, NEW a, NEW c \in CommandsOf(k), Held(k, a)
     PROVE  RoomStates(V2Executes(a, c))
  BY V2Is, V2Held DEF ExecutesWell
<1>1. RoomStates(a)
  BY V2Held
<1>2. CASE c \in {"setOperatingMode"} \X (-1 .. 5)
  <2>. DEFINE b == [a EXCEPT !["operatingMode"] = c[2],
                             !["overrideReason"] = IF c[2] \in Automatic \cup {3} THEN @ ELSE 0]
  <2>1. RoomStates(b)
    BY <1>1, <1>2 DEF RoomStates, RoomStreams
  <2>. QED
    BY <1>2, <2>1, V2Executed
<1>3. CASE c \in {"override"} \X ActiveModes
  <2>. DEFINE b == [a EXCEPT !["activeMode"] = c[2],
                             !["overrideReason"] = IF a["operatingMode"] \in Automatic \cup {3} THEN 1 ELSE 0]
  <2>1. RoomStates(b)
    BY <1>1, <1>3 DEF RoomStates, RoomStreams
  <2>. QED
    BY <1>3, <2>1, V2Executed
<1>4. CASE c[1] = "stopOverride"
  <2>1. RoomStates([a EXCEPT !["overrideReason"] = 0])
    BY <1>1 DEF RoomStates, RoomStreams
  <2>. QED
    BY <1>4, <2>1, V2Executed
<1>5. CASE c[1] \in {"setManualTemperature", "setComfortModeTemp"} /\ c[2] \in Int
  <2>1. RoomStates([a EXCEPT !["tempTarget"] = c[2]])
    BY <1>1, <1>5 DEF RoomStates, RoomStreams
  <2>. QED
    BY <1>5, <2>1, V2Executed
<1>6. ASSUME NEW p \in SetPoints PROVE RoomStates([a EXCEPT !["setpoints"] = p])
  BY <1>1 DEF RoomStates, RoomStreams
<1>7. CASE c[1] \in {"setAbsentMaxTemperature", "setAbsentMinTemperature", "setComfortTemperatureCool",
                     "setComfortTemperature", "setecoplusmaxtemperature", "setecoplusmintemperature"} /\ c[2] \in Int
  <2>1. PICK name \in {"absentMax", "absentMin", "comfortCool", "comfort", "heatProtect", "frostProtect"} :
          V2Executes(a, c) = [a EXCEPT !["setpoints"] = [a["setpoints"] EXCEPT ![name] = c[2]]]
    BY <1>7, V2Executed
  <2>2. [a["setpoints"] EXCEPT ![name] = c[2]] \in SetPoints
    <3>1. ASSUME NEW p \in SetPoints, NEW x \in Int
          PROVE  /\ [p EXCEPT !["absentMax"] = x] \in SetPoints
                 /\ [p EXCEPT !["absentMin"] = x] \in SetPoints
                 /\ [p EXCEPT !["comfortCool"] = x] \in SetPoints
                 /\ [p EXCEPT !["comfort"] = x] \in SetPoints
                 /\ [p EXCEPT !["heatProtect"] = x] \in SetPoints
                 /\ [p EXCEPT !["frostProtect"] = x] \in SetPoints
      BY Zenon DEF SetPoints
    <3>2. a["setpoints"] \in SetPoints
      BY <1>1 DEF RoomStates
    <3>. QED
      BY <1>7, <3>1, <3>2
  <2>. QED
    BY <1>6, <2>1, <2>2
<1>8. \/ c \in {"setOperatingMode"} \X (-1 .. 5)
      \/ c \in {"override"} \X ActiveModes
      \/ /\ c[1] \in {"stopOverride", "setManualTemperature", "setComfortModeTemp", "setAbsentMaxTemperature",
                      "setAbsentMinTemperature", "setComfortTemperatureCool", "setComfortTemperature",
                      "setecoplusmaxtemperature", "setecoplusmintemperature"}
         /\ c[2] \in Int
  BY V2Range DEF ActiveModes
<1>. QED
  BY <1>2, <1>3, <1>4, <1>5, <1>7, <1>8

\* The commands, request by request.
LEMMA V2HvacCommandsAre ==
  ASSUME NEW e, NEW m
  PROVE  V2HvacCommands(e, m) =
           IF e.op \in Automatic \cup {3} /\ e.overridden
             THEN <<<<"stopOverride", 0>>, <<"setOperatingMode", V2Mode(m)>>>>
             ELSE <<<<"setOperatingMode", V2Mode(m)>>>>
BY CatNone, CatOne, Zenon DEF V2HvacCommands

LEMMA V2Modes ==
  ASSUME NEW m \in {"off", "auto", "heat", "cool", "heat_cool"}
  PROVE  /\ V2Mode(m) \in -1 .. 5
         /\ \A e : e.op = V2Mode(m) /\ ~e.overridden => V2HvacMode(e) = m
<1>1. /\ V2Mode("off") = -1 /\ V2Mode("auto") = 0 /\ V2Mode("heat_cool") = 3 /\ V2Mode("heat") = 4
      /\ V2Mode("cool") = 5
  BY DEF V2Mode
<1>2. ASSUME NEW e, ~e.overridden
      PROVE  /\ e.op = -1 => V2HvacMode(e) = "off"
             /\ e.op = 0 => V2HvacMode(e) = "auto"
             /\ e.op = 3 => V2HvacMode(e) = "heat_cool"
             /\ e.op = 4 => V2HvacMode(e) = "heat"
             /\ e.op = 5 => V2HvacMode(e) = "cool"
  <2>1. /\ -1 \notin {0, 1, 2, 3, 4, 5} /\ 3 \notin {-1, 0, 1, 2, 4, 5} /\ 4 \notin {-1, 0, 1, 2, 3, 5}
        /\ 5 \notin {-1, 0, 1, 2, 3, 4}
    OBVIOUS
  <2>. QED
    BY <1>2, <2>1, Zenon DEF V2HvacMode, Automatic
<1>. QED
  BY <1>1, <1>2

LEMMA HighCommandsAre ==
  ASSUME NEW e, NEW p, NEW x
  PROVE  /\ e.active = 0 => HighCommands(e, p, x) =
              Unless(Larger(x - p.comfortCool, 1) = p.absentMax,
                     <<"setAbsentMaxTemperature", Larger(x - p.comfortCool, 1)>>)
         /\ e.active = 1 => HighCommands(e, p, x) =
              Unless(x = p.comfortCool, <<"setComfortTemperatureCool", x>>)
         /\ e.active = 2 => HighCommands(e, p, x) =
              Unless(x = p.heatProtect, <<"setecoplusmaxtemperature", x>>)
         /\ e.active \notin {0, 1, 2} => HighCommands(e, p, x) = <<>>
<1>1. 0 \notin {1, 2} /\ 1 \notin {0, 2} /\ 2 \notin {0, 1}
  OBVIOUS
<1>. QED
  BY <1>1, Zenon DEF HighCommands

LEMMA LowCommandsAre ==
  ASSUME NEW e, NEW p, NEW x
  PROVE  /\ e.active = 0 => LowCommands(e, p, x) =
              Unless(Larger(p.comfort - x, 1) = p.absentMin,
                     <<"setAbsentMinTemperature", Larger(p.comfort - x, 1)>>)
         /\ e.active = 1 => LowCommands(e, p, x) = Unless(x = p.comfort, <<"setComfortTemperature", x>>)
         /\ e.active = 2 => LowCommands(e, p, x) = Unless(x = p.frostProtect, <<"setecoplusmintemperature", x>>)
         /\ e.active \notin {0, 1, 2} => LowCommands(e, p, x) = <<>>
<1>1. 0 \notin {1, 2} /\ 1 \notin {0, 2} /\ 2 \notin {0, 1}
  OBVIOUS
<1>. QED
  BY <1>1, Zenon DEF LowCommands

LEMMA V2Sends == \A k \in RoomKinds : SendsWell(k)
<1>. SUFFICES ASSUME NEW k \in RoomKinds, NEW e \in RoomsV2, NEW r \in Requests(k)
     PROVE  V2Commands(k, e, r) \in Orders(k)
  BY V2Is DEF SendsWell
<1>1. ASSUME NEW x \in Int,
             NEW n \in {"stopOverride", "setManualTemperature", "setComfortModeTemp", "setAbsentMaxTemperature",
                        "setAbsentMinTemperature", "setComfortTemperatureCool", "setComfortTemperature",
                        "setecoplusmaxtemperature", "setecoplusmintemperature"}
      PROVE  <<n, x>> \in CommandsOf(k)
  BY V2Range
<1>2. ASSUME NEW x \in -1 .. 5 PROVE <<"setOperatingMode", x>> \in CommandsOf(k)
  BY V2Range
<1>3. ASSUME NEW x \in ActiveModes, x \in {0, 1, 2} \/ x \in {Dynamic + t : t \in Temperatures}
      PROVE <<"override", x>> \in CommandsOf(k)
  BY <1>3, V2Range
<1>4. CASE r[1] = "hvac"
  <2>1. V2Commands(k, e, r) = V2HvacCommands(e, r[2])
    BY <1>4, Zenon DEF V2Commands
  <2>2. <<"setOperatingMode", V2Mode(r[2])>> \in CommandsOf(k) /\ <<"stopOverride", 0>> \in CommandsOf(k)
    <3>1. r[2] \in {"off", "auto", "heat", "cool", "heat_cool"}
      BY <1>4, V2Request
    <3>2. V2Mode(r[2]) \in -1 .. 5
      BY <3>1, V2Modes
    <3>3. 0 \in Int
      OBVIOUS
    <3>. QED
      BY <1>1, <1>2, <3>2, <3>3, Zenon
  <2>. QED
    BY <2>1, <2>2, V2HvacCommandsAre, OrderOf, Zenon
<1>5. CASE r[1] \in {"temperature", "high", "low"}
  <2>1. V2Commands(k, e, r) = PlanSetTemperature(e, RangePossible(k), r)
    BY <1>5, Zenon DEF V2Commands
  <2>2. r[2] \in Int /\ Dynamic + r[2] \in ActiveModes /\ Dynamic + r[2] \in {Dynamic + t : t \in Temperatures}
    <3>1. r[2] \in Temperatures
      BY <1>5, V2Request
    <3>2. r[2] \in Int
      BY <3>1, TemperaturesAre
    <3>3. Dynamic + r[2] \in {Dynamic + t : t \in Temperatures}
      BY <3>1, Zenon
    <3>. QED
      BY <3>2, <3>3 DEF ActiveModes
  <2>3. /\ <<"override", Dynamic + r[2]>> \in CommandsOf(k) /\ <<"setManualTemperature", r[2]>> \in CommandsOf(k)
        /\ <<"setComfortModeTemp", r[2]>> \in CommandsOf(k)
    BY <1>1, <1>3, <2>2
  <2>4. ASSUME NEW p \in SetPoints PROVE HighCommands(e, p, r[2]) \in Orders(k)
    <3>1. Larger(r[2] - p.comfortCool, 1) \in Int
      BY <2>2 DEF Larger, SetPoints
    <3>2. /\ <<"setAbsentMaxTemperature", Larger(r[2] - p.comfortCool, 1)>> \in CommandsOf(k)
          /\ <<"setComfortTemperatureCool", r[2]>> \in CommandsOf(k)
          /\ <<"setecoplusmaxtemperature", r[2]>> \in CommandsOf(k)
      BY <1>1, <2>2, <3>1
    <3>. QED
      BY <3>2, HighCommandsAre, OrderOf, Zenon DEF Unless
  <2>5. ASSUME NEW p \in SetPoints PROVE LowCommands(e, p, r[2]) \in Orders(k)
    <3>1. Larger(p.comfort - r[2], 1) \in Int
      BY <2>2 DEF Larger, SetPoints
    <3>2. /\ <<"setAbsentMinTemperature", Larger(p.comfort - r[2], 1)>> \in CommandsOf(k)
          /\ <<"setComfortTemperature", r[2]>> \in CommandsOf(k)
          /\ <<"setecoplusmintemperature", r[2]>> \in CommandsOf(k)
      BY <1>1, <2>2, <3>1
    <3>. QED
      BY <3>2, LowCommandsAre, OrderOf, Zenon DEF Unless
  <2>6. e.setpoints # {} => (CHOOSE q \in e.setpoints : TRUE) \in SetPoints
    BY DEF RoomsV2
  <2>. QED
    BY <2>1, <2>3, <2>4, <2>5, <2>6, OrderOf, Zenon DEF PlanSetTemperature
<1>6. CASE r[1] \in {"override", "schedule"}
  <2>1. V2Commands(k, e, r) = V2PresetCommands(e, r)
    BY <1>6, Zenon DEF V2Commands
  <2>2. /\ r[1] = "override" => <<"override", r[2]>> \in CommandsOf(k)
        /\ <<"stopOverride", 0>> \in CommandsOf(k) /\ <<"setOperatingMode", 0>> \in CommandsOf(k)
    <3>1. r[1] = "override" => r[2] \in {0, 1, 2}
      BY V2Request
    <3>2. r[1] = "override" => r[2] \in ActiveModes
      BY <3>1 DEF ActiveModes
    <3>3. 0 \in Int /\ 0 \in -1 .. 5
      OBVIOUS
    <3>. QED
      BY <1>1, <1>2, <1>3, <3>1, <3>2, <3>3, Zenon
  <2>. QED
    BY <2>1, <2>2, OrderOf, Zenon DEF V2PresetCommands
<1>. QED
  BY <1>4, <1>5, <1>6, V2Request

\* What an entity that has seen all states knows of them.
LEMMA V2AllSeen ==
  ASSUME NEW k \in RoomKinds, NEW e, NEW a, AllSeen(k, e, a)
  PROVE  /\ e.op = a["operatingMode"] /\ (e.overridden <=> a["overrideReason"] > 0)
         /\ e.setpoints = {a["setpoints"]} /\ e.target = {a["tempTarget"]}
         /\ e.active = (IF a["activeMode"] >= Dynamic THEN Dynamic ELSE a["activeMode"])
         /\ a["activeMode"] >= Dynamic => e.fixedAt = a["activeMode"] - Dynamic
BY V2Is DEF AllSeen, V2Seen, RoomStreams

LEMMA V2HvacAnswers ==
  ASSUME NEW k \in RoomKinds, NEW e, NEW a, NEW m \in {"off", "auto", "heat", "cool", "heat_cool"},
         RoomStates(a), AllSeen(k, e, a), NEW f, AllSeen(k, f, Done(k, a, V2HvacCommands(e, m)))
  PROVE  V2HvacMode(f) = m
<1>. DEFINE b == Done(k, a, V2HvacCommands(e, m))
            set(x) == [x EXCEPT !["operatingMode"] = V2Mode(m),
                                !["overrideReason"] = IF V2Mode(m) \in Automatic \cup {3} THEN @ ELSE 0]
<1>1. ASSUME NEW x PROVE V2Executes(x, <<"setOperatingMode", V2Mode(m)>>) = set(x)
  BY V2Executed
<1>2. b["operatingMode"] = V2Mode(m) /\ b["overrideReason"] = 0
  <2>1. CASE e.op \in Automatic \cup {3} /\ e.overridden
    <3>1. b = set([a EXCEPT !["overrideReason"] = 0])
      BY <1>1, <2>1, V2HvacCommandsAre, DoneTwo, V2Is, V2Executed
    <3>. QED
      BY <3>1 DEF RoomStates, RoomStreams
  <2>2. CASE ~(e.op \in Automatic \cup {3} /\ e.overridden)
    <3>0. V2HvacCommands(e, m) = <<<<"setOperatingMode", V2Mode(m)>>>>
      BY <2>2, V2HvacCommandsAre, Zenon
    <3>1. b = set(a)
      BY <1>1, <3>0, DoneOne, V2Is
    <3>2. a["overrideReason"] = 0
      BY <2>2, V2AllSeen DEF RoomStates
    <3>. QED
      BY <3>1, <3>2 DEF RoomStates, RoomStreams
  <2>. QED
    BY <2>1, <2>2
<1>3. f.op = V2Mode(m) /\ ~f.overridden
  BY <1>2, V2AllSeen
<1>. QED
  BY <1>3, V2Modes

\* A single temperature is set on one of three states, and read from the same.
LEMMA V2TemperatureAnswers ==
  ASSUME NEW k \in RoomKinds, NEW e, NEW a, NEW r, r[1] = "temperature", r[2] \in Temperatures,
         RoomStates(a), AllSeen(k, e, a), V2Offers(k, e, r), ~V2Drops(k, e, r),
         NEW f, AllSeen(k, f, Done(k, a, PlanSetTemperature(e, RangePossible(k), r)))
  PROVE  V2Target(f) = {r[2]}
<1>. DEFINE q == PlanSetTemperature(e, RangePossible(k), r)
            b == Done(k, a, q)
<1>1. r[2] \in Int /\ r[2] # 0
  BY TemperaturesAre
<1>2. RangePossible(k) /\ e.op \in Dual => e.active \in {Dynamic, 14, 3}
  <2>1. ~(RangePossible(k) /\ k # "RoomV2Comfort" /\ e.op \in Dual /\ e.active \notin {Dynamic, 14})
    BY Zenon DEF V2Offers
  <2>. QED
    BY <2>1 DEF V2Drops
<1>3. \/ e.active = Dynamic /\ q = <<<<"override", Dynamic + r[2]>>>>
      \/ e.active # Dynamic /\ q = <<<<"setManualTemperature", r[2]>>>>
      \/ e.active # Dynamic /\ q = <<<<"setComfortModeTemp", r[2]>>>>
  BY <1>2, Zenon DEF PlanSetTemperature
<1>4. CASE e.active = Dynamic /\ q = <<<<"override", Dynamic + r[2]>>>>
  <2>1. b["activeMode"] = Dynamic + r[2]
    BY <1>4, DoneOne, V2Is, V2Executed DEF RoomStates, RoomStreams
  <2>2. f.active = Dynamic /\ f.fixedAt = r[2]
    BY <1>1, <2>1, V2AllSeen, ClimatesAssumption DEF Dynamic
  <2>. QED
    BY <2>2 DEF V2Target
<1>5. CASE e.active # Dynamic /\ q \in {<<<<"setManualTemperature", r[2]>>>>, <<<<"setComfortModeTemp", r[2]>>>>}
  <2>1. b = [a EXCEPT !["tempTarget"] = r[2]]
    BY <1>5, DoneOne, V2Is, V2Executed
  <2>2. b["tempTarget"] = r[2] /\ b["activeMode"] = a["activeMode"]
    BY <2>1 DEF RoomStates, RoomStreams
  <2>3. f.target = {r[2]} /\ f.active = e.active
    BY <2>2, V2AllSeen
  <2>. QED
    BY <1>1, <1>5, <2>3 DEF V2Target
<1>. QED
  BY <1>3, <1>4, <1>5

LEMMA V2PresetAnswers ==
  ASSUME NEW k \in RoomKinds, NEW e, NEW a, NEW r, (r[1] = "override" /\ r[2] \in {0, 1, 2}) \/ r[1] = "schedule",
         RoomStates(a), AllSeen(k, e, a), NEW f, AllSeen(k, f, Done(k, a, V2PresetCommands(e, r)))
  PROVE  /\ r[1] = "override" => f.active = r[2] /\ (f.op \in Automatic => f.overridden)
         /\ r[1] = "schedule" => ~f.overridden
<1>. DEFINE b == Done(k, a, V2PresetCommands(e, r))
<1>1. CASE r[1] = "override"
  <2>1. b = [a EXCEPT !["activeMode"] = r[2],
                      !["overrideReason"] = IF a["operatingMode"] \in Automatic \cup {3} THEN 1 ELSE 0]
    BY <1>1, DoneOne, V2Is, V2Executed DEF V2PresetCommands
  <2>2. /\ b["activeMode"] = r[2] /\ b["operatingMode"] = a["operatingMode"]
        /\ b["overrideReason"] = IF a["operatingMode"] \in Automatic \cup {3} THEN 1 ELSE 0
    BY <2>1 DEF RoomStates, RoomStreams
  <2>3. f.active = r[2]
    BY <1>1, <2>2, V2AllSeen DEF Dynamic
  <2>4. f.op \in Automatic => f.overridden
    BY <2>2, V2AllSeen
  <2>. QED
    BY <1>1, <2>3, <2>4
<1>2. CASE r[1] = "schedule" /\ e.overridden
  <2>1. b = [a EXCEPT !["overrideReason"] = 0]
    BY <1>2, DoneOne, V2Is, V2Executed DEF V2PresetCommands
  <2>2. b["overrideReason"] = 0
    BY <2>1 DEF RoomStates, RoomStreams
  <2>. QED
    BY <1>2, <2>2, V2AllSeen
<1>3. CASE r[1] = "schedule" /\ ~e.overridden
  <2>1. b = [a EXCEPT !["operatingMode"] = 0,
                      !["overrideReason"] = IF 0 \in Automatic \cup {3} THEN @ ELSE 0]
    BY <1>3, DoneOne, V2Is, V2Executed DEF V2PresetCommands
  <2>2. b["overrideReason"] = 0
    BY <1>3, <2>1, V2AllSeen DEF RoomStates, RoomStreams
  <2>. QED
    BY <1>3, <2>2, V2AllSeen
<1>. QED
  BY <1>1, <1>2, <1>3

\* The ends of a range: the set points an economy mode is read from are offsets.
LEMMA V2HighAnswers ==
  ASSUME NEW k \in RoomKinds, NEW e, NEW a, NEW p, NEW x \in Int,
         RoomStates(a), AllSeen(k, e, a), p = a["setpoints"], e.op \in Dual, e.active \in {0, 1, 2},
         NEW f, AllSeen(k, f, Done(k, a, HighCommands(e, p, x)))
  PROVE  V2High(f) = {IF f.active = 0 THEN Larger(x, s.comfortCool + 1) ELSE x : s \in f.setpoints}
<1>. DEFINE b == Done(k, a, HighCommands(e, p, x))
<1>1. /\ p.comfortCool \in Int /\ p.absentMax \in Int /\ p.heatProtect \in Int /\ "setpoints" \in DOMAIN a
      /\ p \in SetPoints
  BY DEF RoomStates, SetPoints, RoomStreams
<1>2. p = a["setpoints"]
  OBVIOUS
<1>3. ASSUME NEW n \in {"comfortCool", "absentMax", "heatProtect"}, NEW y, NEW c, HighCommands(e, p, x) = IF y = p[n] THEN <<>> ELSE <<c>>,
             V2Executes(a, c) = [a EXCEPT !["setpoints"] = [p EXCEPT ![n] = y]]
      PROVE  f.op \in Dual /\ f.active = e.active /\ f.setpoints = {[p EXCEPT ![n] = y]}
  <2>1. /\ b["operatingMode"] = a["operatingMode"] /\ b["activeMode"] = a["activeMode"]
        /\ b["setpoints"] = [p EXCEPT ![n] = y]
    <3>1. CASE y = p[n]
      <4>1. HighCommands(e, p, x) = <<>>
        BY <1>3, <3>1
      <4>2. b = a
        BY <4>1, DoneNone
      <4>3. [p EXCEPT ![n] = y] = p
        BY <1>1, <3>1 DEF SetPoints
      <4>. QED
        BY <1>2, <4>2, <4>3
    <3>2. CASE y # p[n]
      <4>1. HighCommands(e, p, x) = <<c>>
        BY <1>3, <3>2
      <4>2. b = V2Executes(a, c)
        BY <4>1, DoneOne, V2Is
      <4>3. b = [a EXCEPT !["setpoints"] = [p EXCEPT ![n] = y]]
        BY <1>3, <4>2
      <4>. QED
        BY <1>1, <4>3
    <3>. QED
      BY <3>1, <3>2
  <2>. QED
    BY <2>1, V2AllSeen
<1>4. CASE e.active = 0
  <2>. DEFINE y == Larger(x - p.comfortCool, 1)
              t == [p EXCEPT !["absentMax"] = y]
  <2>1. PICK c : c = <<"setAbsentMaxTemperature", y>>
    OBVIOUS
  <2>2. HighCommands(e, p, x) = (IF y = p["absentMax"] THEN <<>> ELSE <<c>>) /\ V2Executes(a, c) = [a EXCEPT !["setpoints"] = t]
    <3>1. HighCommands(e, p, x) = IF y = p["absentMax"] THEN <<>> ELSE <<c>>
      BY <1>4, <2>1, HighCommandsAre DEF Unless
    <3>2. V2Executes(a, c) = [a EXCEPT !["setpoints"] = t]
      BY <1>2, <2>1, V2Executed
    <3>. QED
      BY <3>1, <3>2
  <2>3. f.op \in Dual /\ f.active = 0 /\ f.setpoints = {t}
    BY <1>3, <1>4, <2>2
  <2>4. t.comfortCool = p.comfortCool /\ t.absentMax = y
    BY <1>1 DEF SetPoints
  <2>5. V2High(f) = {s.comfortCool + s.absentMax : s \in f.setpoints}
    <3>1. 0 # 1 /\ 0 # 2
      OBVIOUS
    <3>. QED
      BY <2>3, <3>1, Zenon DEF V2High
  <2>6. p.comfortCool + y = Larger(x, p.comfortCool + 1)
    BY <1>1 DEF Larger
  <2>7. \A s \in f.setpoints : s.comfortCool + s.absentMax = IF f.active = 0 THEN Larger(x, s.comfortCool + 1) ELSE x
    BY <2>3, <2>4, <2>6
  <2>. QED
    BY <2>5, <2>7, Zenon
<1>5. CASE e.active = 1
  <2>. DEFINE t == [p EXCEPT !["comfortCool"] = x]
  <2>1. PICK c : c = <<"setComfortTemperatureCool", x>>
    OBVIOUS
  <2>2. HighCommands(e, p, x) = (IF x = p["comfortCool"] THEN <<>> ELSE <<c>>) /\ V2Executes(a, c) = [a EXCEPT !["setpoints"] = t]
    <3>1. HighCommands(e, p, x) = IF x = p["comfortCool"] THEN <<>> ELSE <<c>>
      BY <1>5, <2>1, HighCommandsAre DEF Unless
    <3>2. V2Executes(a, c) = [a EXCEPT !["setpoints"] = t]
      BY <1>2, <2>1, V2Executed
    <3>. QED
      BY <3>1, <3>2
  <2>3. f.op \in Dual /\ f.active = 1 /\ f.setpoints = {t}
    BY <1>3, <1>5, <2>2
  <2>4. t.comfortCool = x
    BY <1>1 DEF SetPoints
  <2>5. V2High(f) = {s.comfortCool : s \in f.setpoints}
    <3>1. 1 # 0 /\ 1 # 2
      OBVIOUS
    <3>. QED
      BY <2>3, <3>1, Zenon DEF V2High
  <2>6. \A s \in f.setpoints : s.comfortCool = IF f.active = 0 THEN Larger(x, s.comfortCool + 1) ELSE x
    BY <2>3, <2>4, 1 # 0, 2 # 0, Zenon
  <2>. QED
    BY <2>5, <2>6, Zenon
<1>6. CASE e.active = 2
  <2>. DEFINE t == [p EXCEPT !["heatProtect"] = x]
  <2>1. PICK c : c = <<"setecoplusmaxtemperature", x>>
    OBVIOUS
  <2>2. HighCommands(e, p, x) = (IF x = p["heatProtect"] THEN <<>> ELSE <<c>>) /\ V2Executes(a, c) = [a EXCEPT !["setpoints"] = t]
    <3>1. HighCommands(e, p, x) = IF x = p["heatProtect"] THEN <<>> ELSE <<c>>
      BY <1>6, <2>1, HighCommandsAre DEF Unless
    <3>2. V2Executes(a, c) = [a EXCEPT !["setpoints"] = t]
      BY <1>2, <2>1, V2Executed
    <3>. QED
      BY <3>1, <3>2
  <2>3. f.op \in Dual /\ f.active = 2 /\ f.setpoints = {t}
    BY <1>3, <1>6, <2>2
  <2>4. t.heatProtect = x
    BY <1>1 DEF SetPoints
  <2>5. V2High(f) = {s.heatProtect : s \in f.setpoints}
    <3>1. 2 # 0 /\ 2 # 1
      OBVIOUS
    <3>. QED
      BY <2>3, <3>1, Zenon DEF V2High
  <2>6. \A s \in f.setpoints : s.heatProtect = IF f.active = 0 THEN Larger(x, s.comfortCool + 1) ELSE x
    BY <2>3, <2>4, 1 # 0, 2 # 0, Zenon
  <2>. QED
    BY <2>5, <2>6, Zenon
<1>. QED
  BY <1>4, <1>5, <1>6

LEMMA V2LowAnswers ==
  ASSUME NEW k \in RoomKinds, NEW e, NEW a, NEW p, NEW x \in Int,
         RoomStates(a), AllSeen(k, e, a), p = a["setpoints"], e.op \in Dual, e.active \in {0, 1, 2},
         NEW f, AllSeen(k, f, Done(k, a, LowCommands(e, p, x)))
  PROVE  V2Low(f) = {IF f.active = 0 THEN -Larger(-x, 1 - s.comfort) ELSE x : s \in f.setpoints}
<1>. DEFINE b == Done(k, a, LowCommands(e, p, x))
<1>1. /\ p.comfort \in Int /\ p.absentMin \in Int /\ p.frostProtect \in Int /\ "setpoints" \in DOMAIN a
      /\ p \in SetPoints
  BY DEF RoomStates, SetPoints, RoomStreams
<1>2. p = a["setpoints"]
  OBVIOUS
<1>3. ASSUME NEW n \in {"comfort", "absentMin", "frostProtect"}, NEW y, NEW c, LowCommands(e, p, x) = IF y = p[n] THEN <<>> ELSE <<c>>,
             V2Executes(a, c) = [a EXCEPT !["setpoints"] = [p EXCEPT ![n] = y]]
      PROVE  f.op \in Dual /\ f.active = e.active /\ f.setpoints = {[p EXCEPT ![n] = y]}
  <2>1. /\ b["operatingMode"] = a["operatingMode"] /\ b["activeMode"] = a["activeMode"]
        /\ b["setpoints"] = [p EXCEPT ![n] = y]
    <3>1. CASE y = p[n]
      <4>1. LowCommands(e, p, x) = <<>>
        BY <1>3, <3>1
      <4>2. b = a
        BY <4>1, DoneNone
      <4>3. [p EXCEPT ![n] = y] = p
        BY <1>1, <3>1 DEF SetPoints
      <4>. QED
        BY <1>2, <4>2, <4>3
    <3>2. CASE y # p[n]
      <4>1. LowCommands(e, p, x) = <<c>>
        BY <1>3, <3>2
      <4>2. b = V2Executes(a, c)
        BY <4>1, DoneOne, V2Is
      <4>3. b = [a EXCEPT !["setpoints"] = [p EXCEPT ![n] = y]]
        BY <1>3, <4>2
      <4>. QED
        BY <1>1, <4>3
    <3>. QED
      BY <3>1, <3>2
  <2>. QED
    BY <2>1, V2AllSeen
<1>4. CASE e.active = 0
  <2>. DEFINE y == Larger(p.comfort - x, 1)
              t == [p EXCEPT !["absentMin"] = y]
  <2>1. PICK c : c = <<"setAbsentMinTemperature", y>>
    OBVIOUS
  <2>2. LowCommands(e, p, x) = (IF y = p["absentMin"] THEN <<>> ELSE <<c>>) /\ V2Executes(a, c) = [a EXCEPT !["setpoints"] = t]
    <3>1. LowCommands(e, p, x) = IF y = p["absentMin"] THEN <<>> ELSE <<c>>
      BY <1>4, <2>1, LowCommandsAre DEF Unless
    <3>2. V2Executes(a, c) = [a EXCEPT !["setpoints"] = t]
      BY <1>2, <2>1, V2Executed
    <3>. QED
      BY <3>1, <3>2
  <2>3. f.op \in Dual /\ f.active = 0 /\ f.setpoints = {t}
    BY <1>3, <1>4, <2>2
  <2>4. t.comfort = p.comfort /\ t.absentMin = y
    BY <1>1 DEF SetPoints
  <2>5. V2Low(f) = {s.comfort - s.absentMin : s \in f.setpoints}
    <3>1. 0 # 1 /\ 0 # 2
      OBVIOUS
    <3>. QED
      BY <2>3, <3>1, Zenon DEF V2Low
  <2>6. p.comfort - y = -Larger(-x, 1 - p.comfort)
    BY <1>1 DEF Larger
  <2>7. \A s \in f.setpoints : s.comfort - s.absentMin = IF f.active = 0 THEN -Larger(-x, 1 - s.comfort) ELSE x
    BY <2>3, <2>4, <2>6
  <2>. QED
    BY <2>5, <2>7, Zenon
<1>5. CASE e.active = 1
  <2>. DEFINE t == [p EXCEPT !["comfort"] = x]
  <2>1. PICK c : c = <<"setComfortTemperature", x>>
    OBVIOUS
  <2>2. LowCommands(e, p, x) = (IF x = p["comfort"] THEN <<>> ELSE <<c>>) /\ V2Executes(a, c) = [a EXCEPT !["setpoints"] = t]
    <3>1. LowCommands(e, p, x) = IF x = p["comfort"] THEN <<>> ELSE <<c>>
      BY <1>5, <2>1, LowCommandsAre DEF Unless
    <3>2. V2Executes(a, c) = [a EXCEPT !["setpoints"] = t]
      BY <1>2, <2>1, V2Executed
    <3>. QED
      BY <3>1, <3>2
  <2>3. f.op \in Dual /\ f.active = 1 /\ f.setpoints = {t}
    BY <1>3, <1>5, <2>2
  <2>4. t.comfort = x
    BY <1>1 DEF SetPoints
  <2>5. V2Low(f) = {s.comfort : s \in f.setpoints}
    <3>1. 1 # 0 /\ 1 # 2
      OBVIOUS
    <3>. QED
      BY <2>3, <3>1, Zenon DEF V2Low
  <2>6. \A s \in f.setpoints : s.comfort = IF f.active = 0 THEN -Larger(-x, 1 - s.comfort) ELSE x
    BY <2>3, <2>4, 1 # 0, 2 # 0, Zenon
  <2>. QED
    BY <2>5, <2>6, Zenon
<1>6. CASE e.active = 2
  <2>. DEFINE t == [p EXCEPT !["frostProtect"] = x]
  <2>1. PICK c : c = <<"setecoplusmintemperature", x>>
    OBVIOUS
  <2>2. LowCommands(e, p, x) = (IF x = p["frostProtect"] THEN <<>> ELSE <<c>>) /\ V2Executes(a, c) = [a EXCEPT !["setpoints"] = t]
    <3>1. LowCommands(e, p, x) = IF x = p["frostProtect"] THEN <<>> ELSE <<c>>
      BY <1>6, <2>1, LowCommandsAre DEF Unless
    <3>2. V2Executes(a, c) = [a EXCEPT !["setpoints"] = t]
      BY <1>2, <2>1, V2Executed
    <3>. QED
      BY <3>1, <3>2
  <2>3. f.op \in Dual /\ f.active = 2 /\ f.setpoints = {t}
    BY <1>3, <1>6, <2>2
  <2>4. t.frostProtect = x
    BY <1>1 DEF SetPoints
  <2>5. V2Low(f) = {s.frostProtect : s \in f.setpoints}
    <3>1. 2 # 0 /\ 2 # 1
      OBVIOUS
    <3>. QED
      BY <2>3, <3>1, Zenon DEF V2Low
  <2>6. \A s \in f.setpoints : s.frostProtect = IF f.active = 0 THEN -Larger(-x, 1 - s.comfort) ELSE x
    BY <2>3, <2>4, 1 # 0, 2 # 0, Zenon
  <2>. QED
    BY <2>5, <2>6, Zenon
<1>. QED
  BY <1>4, <1>5, <1>6

LEMMA V2Answers == \A k \in RoomKinds : AnswersWell(k)
<1>. SUFFICES ASSUME NEW k \in RoomKinds, NEW e \in RoomsV2, NEW r \in Requests(k), NEW a,
                     RoomStates(a), V2Offers(k, e, r), ~V2Drops(k, e, r), AllSeen(k, e, a),
                     NEW f \in RoomsV2, AllSeen(k, f, Done(k, a, V2Commands(k, e, r)))
     PROVE  V2Shows(f, r)
  BY V2Is, V2Held DEF AnswersWell, Answered, Offered, ClimateOffers, Drops, ClimateDrops
<1>1. CASE r[1] = "hvac"
  <2>1. V2Commands(k, e, r) = V2HvacCommands(e, r[2]) /\ (V2Shows(f, r) <=> V2HvacMode(f) = r[2])
    BY <1>1, Zenon DEF V2Commands, V2Shows
  <2>. QED
    BY <1>1, <2>1, V2Request, V2HvacAnswers
<1>2. CASE r[1] = "temperature"
  <2>1. /\ V2Commands(k, e, r) = PlanSetTemperature(e, RangePossible(k), r)
        /\ V2Shows(f, r) <=> V2Target(f) = {r[2]}
    BY <1>2, Zenon DEF V2Commands, V2Shows
  <2>2. r[2] \in Temperatures
    BY <1>2, V2Request
  <2>. QED
    BY <1>2, <2>1, <2>2, V2TemperatureAnswers
<1>3. CASE r[1] = "high"
  <2>. DEFINE p == a["setpoints"]
  <2>1. V2Commands(k, e, r) = PlanSetTemperature(e, RangePossible(k), r)
    BY <1>3, Zenon DEF V2Commands
  <2>2. RangePossible(k) /\ e.op \in Dual /\ e.active \notin {Dynamic, 14} /\ e.active \in {0, 1, 2}
    <3>1. RangePossible(k) /\ e.op \in Dual /\ e.active \notin {Dynamic, 14}
      BY <1>3, Zenon DEF V2Offers
    <3>2. e.active \notin {3, 4}
      BY <1>3 DEF V2Drops
    <3>. QED
      BY <3>1, <3>2 DEF RoomsV2
  <2>3. e.setpoints = {p} /\ (CHOOSE q \in e.setpoints : TRUE) = p
    BY V2AllSeen
  <2>4. PlanSetTemperature(e, RangePossible(k), r) = HighCommands(e, p, r[2])
    <3>1. e.setpoints # {}
      BY <2>3
    <3>. QED
      <4>1. e.active # 3 /\ e.op \notin {4, 5} /\ r[1] # "temperature" /\ (r[1] = "low" => r[1] # "high")
        BY <1>3, <2>2 DEF Dual
      <4>. QED
        BY <1>3, <2>2, <2>3, <3>1, <4>1, Zenon DEF PlanSetTemperature
  <2>5. V2High(f) = {IF f.active = 0 THEN Larger(r[2], s.comfortCool + 1) ELSE r[2] : s \in f.setpoints}
    <3>1. r[2] \in Int
      BY <1>3, V2Request, TemperaturesAre
    <3>2. AllSeen(k, f, Done(k, a, HighCommands(e, p, r[2])))
      BY <2>1, <2>4, Zenon
    <3>. QED
      BY <2>2, <3>1, <3>2, V2HighAnswers
  <2>. QED
    BY <1>3, <2>5, Zenon DEF V2Shows
<1>4. CASE r[1] = "low"
  <2>. DEFINE p == a["setpoints"]
  <2>1. V2Commands(k, e, r) = PlanSetTemperature(e, RangePossible(k), r)
    BY <1>4, Zenon DEF V2Commands
  <2>2. RangePossible(k) /\ e.op \in Dual /\ e.active \notin {Dynamic, 14} /\ e.active \in {0, 1, 2}
    <3>1. RangePossible(k) /\ e.op \in Dual /\ e.active \notin {Dynamic, 14}
      BY <1>4, Zenon DEF V2Offers
    <3>2. e.active \notin {3, 4}
      BY <1>4 DEF V2Drops
    <3>. QED
      BY <3>1, <3>2 DEF RoomsV2
  <2>3. e.setpoints = {p} /\ (CHOOSE q \in e.setpoints : TRUE) = p
    BY V2AllSeen
  <2>4. PlanSetTemperature(e, RangePossible(k), r) = LowCommands(e, p, r[2])
    <3>1. e.setpoints # {}
      BY <2>3
    <3>. QED
      <4>1. e.active # 3 /\ e.op \notin {4, 5} /\ r[1] # "temperature" /\ (r[1] = "low" => r[1] # "high")
        BY <1>4, <2>2 DEF Dual
      <4>. QED
        BY <1>4, <2>2, <2>3, <3>1, <4>1, Zenon DEF PlanSetTemperature
  <2>5. V2Low(f) = {IF f.active = 0 THEN -Larger(-r[2], 1 - s.comfort) ELSE r[2] : s \in f.setpoints}
    <3>1. r[2] \in Int
      BY <1>4, V2Request, TemperaturesAre
    <3>2. AllSeen(k, f, Done(k, a, LowCommands(e, p, r[2])))
      BY <2>1, <2>4, Zenon
    <3>. QED
      BY <2>2, <3>1, <3>2, V2LowAnswers
  <2>. QED
    BY <1>4, <2>5, Zenon DEF V2Shows
<1>5. CASE r[1] = "override" \/ r[1] = "schedule"
  <2>1. V2Commands(k, e, r) = V2PresetCommands(e, r)
    BY <1>5, Zenon DEF V2Commands
  <2>2. /\ r[1] = "override" => f.active = r[2] /\ (f.op \in Automatic => f.overridden)
        /\ r[1] = "schedule" => ~f.overridden
    BY <1>5, <2>1, V2Request, V2PresetAnswers
  <2>. QED
    BY <1>5, <2>2, Zenon DEF V2Shows
<1>. QED
  BY <1>1, <1>2, <1>3, <1>4, <1>5, V2Request

LEMMA ClimatesDisplayWell == \A k \in ClimateKinds : DisplaysWell(k)
BY V1DisplaysWell, AcDisplaysWell, V2Starts, V2Handles, V2Sends, V2ExecutesWell, V2Answers
   DEF DisplaysWell, ClimateKinds, RoomKinds

(***************************************************************************)
(* The switches.                                                           *)
(***************************************************************************)
PlainSwitches == OptimisticKinds \cup {"Mute"}

\* The state a switch shows.
ShownStream(k) == IF k = "Mute" THEN "muted" ELSE MainStream(k)

LEMMA SwitchIs ==
  ASSUME NEW k \in PlainSwitches
  PROVE  /\ k \in SwitchKinds /\ k # "Alarm" /\ EntitiesOf(k) = Switched
         /\ ShownStream(k) \in {"active", "deactivationDelay", "overrideEntries", "muted"}
         /\ ShownStream(k) \in PlatformStreams(k)
         /\ PlatformStreams(k) \subseteq {ShownStream(k), "deactivationDelayTotal"}
         /\ \A e, s, v : Seen(k, e, s, v) <=> SwitchSeen(e, s, v)
<1>1. k \in SwitchKinds /\ k # "Alarm"
  BY DEF PlainSwitches, SwitchKinds, OptimisticKinds
<1>2. EntitiesOf(k) = Switched
  BY DEF EntitiesOf, PlainSwitches, OptimisticKinds, IsV2, LightKinds, PickerKinds
<1>3. /\ ShownStream(k) \in {"active", "deactivationDelay", "overrideEntries", "muted"}
      /\ ShownStream(k) \in SwitchStreams(k) /\ SwitchStreams(k) \subseteq {ShownStream(k), "deactivationDelayTotal"}
  BY DEF PlainSwitches, OptimisticKinds, ShownStream, MainStream, SwitchStreams
<1>4. \A e, s, v : Seen(k, e, s, v) <=> SwitchSeen(e, s, v)
  BY DEF Seen, PlainSwitches, OptimisticKinds, IsV2, LightKinds, PickerKinds
<1>. QED
  BY <1>1, <1>2, <1>3, <1>4, SwitchFamily

SwitchStates ==
  {"active", "deactivationDelay", "deactivationDelayTotal", "overrideEntries", "muted", "armed",
   "disabledMove", "armedDelay", "armedAt", "level", "jLocked"}

LEMMA SwitchRange ==
  ASSUME NEW k \in SwitchKinds, NEW a
  PROVE  Held(k, a) <=> DOMAIN a = Streams(k) /\ \A s \in Streams(k) : a[s] \in Int
<1>1. Streams(k) \subseteq SwitchStates
  <2>1. SwitchStreams(k) \subseteq SwitchStates
    BY DEF SwitchStreams, SwitchStates, SwitchKinds, OptimisticKinds
  <2>. QED
    BY <2>1, SwitchFamily DEF Streams, SwitchStates
<1>2. \A s \in SwitchStates : StatesOf(k, s) = Int
  BY DEF StatesOf, SwitchStates, SwitchKinds, OptimisticKinds
<1>3. k \notin ClimateKinds
  BY Families DEF DisplayKinds
<1>. QED
  BY <1>1, <1>2, <1>3 DEF Held

LEMMA SwitchCommandsOf ==
  /\ CommandsOf("Switch") = {"On", "Off"} \X Int
  /\ CommandsOf("TimedSwitch") = {"off", "pulse"} \X Int
  /\ CommandsOf("Override") = {"override", "stopOverride"} \X Int
  /\ CommandsOf("Mute") = {"mute"} \X Int
  /\ CommandsOf("Alarm") = {"off", "delayedon"} \X Int
BY DEF CommandsOf, CoverKinds, PickerKinds, IsV2, LightKinds

LEMMA SwitchRequest ==
  ASSUME NEW k \in PlainSwitches, NEW r \in Requests(k)
  PROVE  r[1] \in {"on", "off"} /\ r = <<r[1], 0>>
<1>1. r \in {"on", "off"} \X {0}
  BY SwitchIs, SwitchFamily DEF SwitchRequests
<1>. QED
  BY <1>1

\* What a command sets the state to that is shown.
Sets(c) == IF c[1] \in {"On", "pulse", "override"} THEN 1 ELSE IF c[1] = "mute" THEN c[2] ELSE 0

LEMMA SwitchExecuted ==
  ASSUME NEW k \in PlainSwitches, NEW a, NEW c \in CommandsOf(k)
  PROVE  SwitchExecutes(k, a, c) = [a EXCEPT ![ShownStream(k)] = Sets(c)]
<1>1. CASE k = "Switch"
  <2>1. c[1] \in {"On", "Off"} /\ ShownStream(k) = "active"
    BY <1>1, SwitchCommandsOf DEF ShownStream, MainStream
  <2>. QED
    BY <2>1, Zenon DEF SwitchExecutes, Sets
<1>2. CASE k = "TimedSwitch"
  <2>1. c[1] \in {"off", "pulse"} /\ ShownStream(k) = "deactivationDelay" /\ k # "Alarm"
    BY <1>2, SwitchCommandsOf DEF ShownStream, MainStream
  <2>. QED
    BY <2>1, Zenon DEF SwitchExecutes, Sets
<1>3. CASE k = "Override"
  <2>1. c[1] \in {"override", "stopOverride"} /\ ShownStream(k) = "overrideEntries"
    BY <1>3, SwitchCommandsOf DEF ShownStream, MainStream
  <2>. QED
    BY <2>1, Zenon DEF SwitchExecutes, Sets
<1>4. CASE k = "Mute"
  <2>1. c[1] = "mute" /\ ShownStream(k) = "muted"
    BY <1>4, SwitchCommandsOf DEF ShownStream
  <2>. QED
    BY <2>1, Zenon DEF SwitchExecutes, Sets
<1>. QED
  BY <1>1, <1>2, <1>3, <1>4 DEF PlainSwitches, OptimisticKinds

\* What a switch sends sets what it shows to what was asked for; nothing is sent to
\* one that shows it.
LEMMA SwitchOrder ==
  ASSUME NEW k \in PlainSwitches, NEW e, NEW r \in Requests(k)
  PROVE  \/ SwitchCommands(k, e, r) = <<>> /\ (e.on = {TRUE} <=> r[1] = "on")
         \/ \E c \in CommandsOf(k) : /\ SwitchCommands(k, e, r) = <<c>>
                                     /\ Sets(c) \in {0, 1} /\ (Sets(c) = 1 <=> r[1] = "on")
<1>1. r[1] \in {"on", "off"}
  BY SwitchRequest
<1>2. ASSUME NEW c \in CommandsOf(k), SwitchCommands(k, e, r) = <<c>>, c[2] \in {0, 1},
             (c[1] \in {"On", "pulse", "override"} \/ (c[1] = "mute" /\ c[2] = 1)) <=> r[1] = "on"
      PROVE  \E d \in CommandsOf(k) : /\ SwitchCommands(k, e, r) = <<d>>
                                      /\ Sets(d) \in {0, 1} /\ (Sets(d) = 1 <=> r[1] = "on")
  <2>1. Sets(c) \in {0, 1} /\ (Sets(c) = 1 <=> r[1] = "on")
    BY <1>2 DEF Sets
  <2>. QED
    BY <1>2, <2>1
<1>3. CASE k = "Switch"
  <2>1. CASE e.on # {TRUE} /\ r[1] = "on"
    <3>1. PICK c : c = <<"On", 0>>
      OBVIOUS
    <3>2. c \in CommandsOf(k) /\ c[1] = "On" /\ c[2] = 0
      BY <1>3, <3>1, SwitchCommandsOf
    <3>3. SwitchCommands(k, e, r) = <<c>>
      <4>1. SwitchCommands("Switch", e, r) = <<<<"On", 0>>>>
        BY <1>1, <2>1 DEF SwitchCommands
      <4>. QED
        BY <1>3, <3>1, <4>1
    <3>. QED
      BY <1>2, <2>1, <3>2, <3>3
  <2>2. CASE e.on = {TRUE} /\ r[1] = "off"
    <3>1. PICK c : c = <<"Off", 0>>
      OBVIOUS
    <3>2. c \in CommandsOf(k) /\ c[1] = "Off" /\ c[2] = 0
      BY <1>3, <3>1, SwitchCommandsOf
    <3>3. SwitchCommands(k, e, r) = <<c>>
      <4>1. SwitchCommands("Switch", e, r) = <<<<"Off", 0>>>>
        BY <1>1, <2>2 DEF SwitchCommands
      <4>. QED
        BY <1>3, <3>1, <4>1
    <3>. QED
      BY <1>2, <2>2, <3>2, <3>3
  <2>3. CASE (e.on = {TRUE}) <=> r[1] = "on"
    <3>1. SwitchCommands(k, e, r) = <<>>
      <4>1. SwitchCommands("Switch", e, r) = <<>>
        BY <1>1, <2>3 DEF SwitchCommands
      <4>. QED
        BY <1>3, <4>1
    <3>. QED
      BY <2>3, <3>1
  <2>. QED
    BY <1>1, <2>1, <2>2, <2>3
<1>4. CASE k = "TimedSwitch"
  <2>1. CASE e.on # {TRUE} /\ r[1] = "on"
    <3>1. PICK c : c = <<"pulse", 0>>
      OBVIOUS
    <3>2. c \in CommandsOf(k) /\ c[1] = "pulse" /\ c[2] = 0
      BY <1>4, <3>1, SwitchCommandsOf
    <3>3. SwitchCommands(k, e, r) = <<c>>
      <4>1. SwitchCommands("TimedSwitch", e, r) = <<<<"pulse", 0>>>>
        BY <1>1, <2>1 DEF SwitchCommands
      <4>. QED
        BY <1>4, <3>1, <4>1
    <3>. QED
      BY <1>2, <2>1, <3>2, <3>3
  <2>2. CASE r[1] = "off"
    <3>1. PICK c : c = <<"off", 0>>
      OBVIOUS
    <3>2. c \in CommandsOf(k) /\ c[1] = "off" /\ c[2] = 0
      BY <1>4, <3>1, SwitchCommandsOf
    <3>3. SwitchCommands(k, e, r) = <<c>>
      <4>1. SwitchCommands("TimedSwitch", e, r) = <<<<"off", 0>>>>
        BY <1>1, <2>2 DEF SwitchCommands
      <4>. QED
        BY <1>4, <3>1, <4>1
    <3>. QED
      BY <1>2, <2>2, <3>2, <3>3
  <2>3. CASE e.on = {TRUE} /\ r[1] = "on"
    <3>1. SwitchCommands(k, e, r) = <<>>
      <4>1. SwitchCommands("TimedSwitch", e, r) = <<>>
        BY <1>1, <2>3 DEF SwitchCommands
      <4>. QED
        BY <1>4, <4>1
    <3>. QED
      BY <2>3, <3>1
  <2>. QED
    BY <1>1, <2>1, <2>2, <2>3
<1>5. CASE k = "Override"
  <2>1. CASE r[1] = "on"
    <3>1. PICK c : c = <<"override", 1>>
      OBVIOUS
    <3>2. c \in CommandsOf(k) /\ c[1] = "override" /\ c[2] = 1
      BY <1>5, <3>1, SwitchCommandsOf
    <3>3. SwitchCommands(k, e, r) = <<c>>
      <4>1. SwitchCommands("Override", e, r) = <<<<"override", 1>>>>
        BY <1>1, <2>1 DEF SwitchCommands
      <4>. QED
        BY <1>5, <3>1, <4>1
    <3>. QED
      BY <1>2, <2>1, <3>2, <3>3
  <2>2. CASE r[1] = "off"
    <3>1. PICK c : c = <<"stopOverride", 0>>
      OBVIOUS
    <3>2. c \in CommandsOf(k) /\ c[1] = "stopOverride" /\ c[2] = 0
      BY <1>5, <3>1, SwitchCommandsOf
    <3>3. SwitchCommands(k, e, r) = <<c>>
      <4>1. SwitchCommands("Override", e, r) = <<<<"stopOverride", 0>>>>
        BY <1>1, <2>2 DEF SwitchCommands
      <4>. QED
        BY <1>5, <3>1, <4>1
    <3>. QED
      BY <1>2, <2>2, <3>2, <3>3
  <2>. QED
    BY <1>1, <2>1, <2>2
<1>6. CASE k = "Mute"
  <2>1. CASE r[1] = "on"
    <3>1. PICK c : c = <<"mute", 1>>
      OBVIOUS
    <3>2. c \in CommandsOf(k) /\ c[1] = "mute" /\ c[2] = 1
      BY <1>6, <3>1, SwitchCommandsOf
    <3>3. SwitchCommands(k, e, r) = <<c>>
      <4>1. SwitchCommands("Mute", e, r) = <<<<"mute", 1>>>>
        BY <1>1, <2>1 DEF SwitchCommands
      <4>. QED
        BY <1>6, <3>1, <4>1
    <3>. QED
      BY <1>2, <2>1, <3>2, <3>3
  <2>2. CASE r[1] = "off"
    <3>1. PICK c : c = <<"mute", 0>>
      OBVIOUS
    <3>2. c \in CommandsOf(k) /\ c[1] = "mute" /\ c[2] = 0
      BY <1>6, <3>1, SwitchCommandsOf
    <3>3. SwitchCommands(k, e, r) = <<c>>
      <4>1. SwitchCommands("Mute", e, r) = <<<<"mute", 0>>>>
        BY <1>1, <2>2 DEF SwitchCommands
      <4>. QED
        BY <1>6, <3>1, <4>1
    <3>. QED
      BY <1>2, <2>2, <3>2, <3>3
  <2>. QED
    BY <1>1, <2>1, <2>2
<1>. QED
  BY <1>3, <1>4, <1>5, <1>6 DEF PlainSwitches, OptimisticKinds

LEMMA SwitchesDisplayWell == \A k \in PlainSwitches : DisplaysWell(k)
<1>. SUFFICES ASSUME NEW k \in PlainSwitches PROVE DisplaysWell(k)
  OBVIOUS
<1>1. /\ \A e, s, v : Handled(k, e, s, v) = SwitchOn(k, e, s, v)
      /\ \A e, r : Commands(k, e, r) = SwitchCommands(k, e, r)
      /\ \A a, c : Executed(k, a, c) = SwitchExecutes(k, a, c)
      /\ \A e, r : Shown(k, e, r) <=> e.on = {r[1] = "on"}
  BY SwitchIs, SwitchFamily DEF SwitchAsks, SwitchShows
<1>2. StartsWell(k)
  <2>1. SwitchFresh(k) \in Switched
    BY SwitchIs DEF SwitchFresh, Switched
  <2>. QED
    BY <2>1, SwitchIs, SwitchFamily DEF StartsWell
<1>3. HandlesWell(k)
  <2>1. ASSUME NEW e \in Switched, NEW s, NEW v
        PROVE  SwitchOn(k, e, s, v) \in Switched /\ SwitchSeen(SwitchOn(k, e, s, v), s, v)
    <3>1. (v # 0) \in BOOLEAN /\ k # "Alarm"
      BY SwitchIs
    <3>2. SwitchOn(k, e, s, v) = [e EXCEPT !.on = IF s = "deactivationDelayTotal" THEN @ ELSE {v # 0}, !.available = TRUE]
      BY <3>1 DEF SwitchOn
    <3>3. SwitchOn(k, e, s, v) \in Switched
      <4>1. {v # 0} \in SUBSET BOOLEAN
        BY <3>1
      <4>. QED
        BY <3>2, <4>1, Zenon DEF Switched
    <3>4. s # "deactivationDelayTotal" => SwitchOn(k, e, s, v).on = {v # 0}
      BY <3>2 DEF Switched
    <3>5. SwitchOn(k, e, s, v).available
      BY <3>2 DEF Switched
    <3>. QED
      BY <3>3, <3>4, <3>5, Zenon DEF SwitchSeen
  <2>2. ASSUME NEW e \in Switched, NEW v, NEW w, NEW t, SwitchSeen(e, t, w)
        PROVE  SwitchSeen(SwitchOn(k, e, "deactivationDelayTotal", v), t, w)
    BY <2>2, SwitchIs, Zenon DEF SwitchOn, SwitchSeen, Switched
  <2>3. ASSUME NEW e, NEW w PROVE SwitchSeen(e, "deactivationDelayTotal", w)
    BY DEF SwitchSeen
  <2>. QED
    BY <2>1, <2>2, <2>3, SwitchIs, <1>1 DEF HandlesWell
<1>4. SendsWell(k)
  <2>1. ASSUME NEW e, NEW r \in Requests(k) PROVE SwitchCommands(k, e, r) \in Orders(k)
    <3>1. SwitchCommands(k, e, r) = <<>> \/ \E c \in CommandsOf(k) : SwitchCommands(k, e, r) = <<c>>
      BY SwitchOrder, Zenon
    <3>. QED
      BY <3>1, OrderOf, Zenon
  <2>. QED
    BY <1>1, <2>1 DEF SendsWell
<1>5. ExecutesWell(k)
  <2>1. ASSUME NEW c \in CommandsOf(k) PROVE Sets(c) \in Int
    BY SwitchCommandsOf DEF Sets, PlainSwitches, OptimisticKinds
  <2>. QED
    BY <1>1, <2>1, SwitchIs, SwitchExecuted, SwitchRange DEF ExecutesWell
<1>6. AnswersWell(k)
  <2>. SUFFICES ASSUME NEW e, NEW r \in Requests(k), NEW a, Held(k, a), AllSeen(k, e, a),
                       NEW f, AllSeen(k, f, Done(k, a, SwitchCommands(k, e, r)))
       PROVE  f.on = {r[1] = "on"}
    BY <1>1 DEF AnswersWell, Answered
  <2>. DEFINE b == Done(k, a, SwitchCommands(k, e, r))
              s == ShownStream(k)
  <2>1. e.on = {a[s] # 0} /\ f.on = {b[s] # 0}
    BY SwitchIs DEF AllSeen, SwitchSeen
  <2>2. s \in DOMAIN a
    BY SwitchIs, SwitchRange DEF Streams
  <2>3. CASE SwitchCommands(k, e, r) = <<>> /\ (e.on = {TRUE} <=> r[1] = "on")
    <3>1. b = a
      BY <2>3, DoneNone
    <3>2. (a[s] # 0) <=> r[1] = "on"
      BY <2>1, <2>3
    <3>. QED
      BY <2>1, <3>1, <3>2, Zenon
  <2>4. ASSUME NEW c \in CommandsOf(k), SwitchCommands(k, e, r) = <<c>>, Sets(c) \in {0, 1},
               Sets(c) = 1 <=> r[1] = "on"
        PROVE  f.on = {r[1] = "on"}
    <3>1. b = [a EXCEPT ![s] = Sets(c)]
      <4>1. b = Executed(k, a, c)
        BY <2>4, DoneOne, Zenon
      <4>2. SwitchExecutes(k, a, c) = [a EXCEPT ![s] = Sets(c)]
        BY <2>4, SwitchExecuted
      <4>. QED
        BY <1>1, <4>1, <4>2, Zenon
    <3>2. b[s] = Sets(c)
      BY <2>2, <3>1
    <3>3. (b[s] # 0) <=> r[1] = "on"
      BY <2>4, <3>2
    <3>. QED
      BY <2>1, <3>3, Zenon
  <2>. QED
    BY <2>3, <2>4, SwitchOrder
<1>. QED
  BY <1>2, <1>3, <1>4, <1>5, <1>6 DEF DisplaysWell

LEMMA AlarmIs ==
  /\ "Alarm" \in SwitchKinds /\ EntitiesOf("Alarm") = Alarms
  /\ PlatformStreams("Alarm") = {"armed", "disabledMove", "armedDelay", "armedAt", "level"}
  /\ Streams("Alarm") = {"armed", "disabledMove", "armedDelay", "armedAt", "level", "jLocked"}
  /\ \A e, s, v : Seen("Alarm", e, s, v) <=> AlarmSeen(e, s, v)
  /\ \A e, s, v : Handled("Alarm", e, s, v) = AlarmOn(e, s, v)
  /\ \A e, r : Commands("Alarm", e, r) = AlarmCommands(r)
  /\ \A a, c : Executed("Alarm", a, c) = SwitchExecutes("Alarm", a, c)
  /\ \A e, r : Shown("Alarm", e, r) <=> AlarmState(e) = r[1] \/ AlarmState(e) = "triggered"
<1>1. "Alarm" \in SwitchKinds
  BY DEF SwitchKinds
<1>2. EntitiesOf("Alarm") = Alarms
  BY DEF EntitiesOf, IsV2, LightKinds, PickerKinds
<1>3. PlatformStreams("Alarm") = {"armed", "disabledMove", "armedDelay", "armedAt", "level"}
  BY <1>1, SwitchFamily DEF SwitchStreams
<1>4. Streams("Alarm") = {"armed", "disabledMove", "armedDelay", "armedAt", "level", "jLocked"}
  BY <1>3 DEF Streams, HasLock
<1>5. \A e, s, v : Seen("Alarm", e, s, v) <=> AlarmSeen(e, s, v)
  BY DEF Seen, IsV2, LightKinds, PickerKinds
<1>6. \A e, s, v : Handled("Alarm", e, s, v) = AlarmOn(e, s, v)
  BY <1>1, SwitchFamily DEF SwitchOn
<1>7. \A e, r : Commands("Alarm", e, r) = AlarmCommands(r)
  BY <1>1, SwitchFamily DEF SwitchAsks
<1>8. \A a, c : Executed("Alarm", a, c) = SwitchExecutes("Alarm", a, c)
  BY <1>1, SwitchFamily
<1>9. ASSUME NEW e, NEW r PROVE Shown("Alarm", e, r) <=> AlarmState(e) = r[1] \/ AlarmState(e) = "triggered"
  BY <1>1, SwitchFamily DEF SwitchShows
<1>. QED
  BY <1>1, <1>2, <1>3, <1>4, <1>5, <1>6, <1>7, <1>8, <1>9

LEMMA AlarmExecuted ==
  ASSUME NEW a, NEW c
  PROVE  /\ c[1] = "off" => SwitchExecutes("Alarm", a, c) =
              [a EXCEPT !["armed"] = 0, !["armedDelay"] = 0, !["armedAt"] = 0, !["level"] = 0]
         /\ c[1] = "delayedon" => SwitchExecutes("Alarm", a, c) =
              [a EXCEPT !["armed"] = 1, !["armedDelay"] = 0, !["armedAt"] = 0, !["disabledMove"] = 1 - c[2]]
BY Zenon DEF SwitchExecutes

LEMMA AlarmDisplaysWell == DisplaysWell("Alarm")
<1>1. StartsWell("Alarm")
  <2>1. SwitchFresh("Alarm") \in Alarms
    BY DEF SwitchFresh, Alarms
  <2>. QED
    BY <2>1, AlarmIs, SwitchFamily DEF StartsWell
<1>2. HandlesWell("Alarm")
  <2>1. ASSUME NEW s \in PlatformStreams("Alarm") PROVE StatesOf("Alarm", s) = Int
    BY AlarmIs DEF StatesOf
  <2>2. ASSUME NEW e \in Alarms, NEW s \in {"armed", "disabledMove", "armedDelay", "armedAt", "level"}, NEW v \in Int
        PROVE  AlarmOn(e, s, v) \in Alarms /\ AlarmSeen(AlarmOn(e, s, v), s, v)
    BY <2>2, Zenon DEF AlarmOn, AlarmSeen, Alarms
  <2>3. ASSUME NEW e \in Alarms, NEW v, NEW w, NEW t \in {"armed", "disabledMove", "armedDelay", "armedAt", "level"}
        PROVE  /\ t # "armed" /\ AlarmSeen(e, t, w) => AlarmSeen(AlarmOn(e, "armed", v), t, w)
               /\ t # "disabledMove" /\ AlarmSeen(e, t, w) => AlarmSeen(AlarmOn(e, "disabledMove", v), t, w)
               /\ t # "armedDelay" /\ AlarmSeen(e, t, w) => AlarmSeen(AlarmOn(e, "armedDelay", v), t, w)
               /\ t # "armedAt" /\ AlarmSeen(e, t, w) => AlarmSeen(AlarmOn(e, "armedAt", v), t, w)
               /\ t # "level" /\ AlarmSeen(e, t, w) => AlarmSeen(AlarmOn(e, "level", v), t, w)
    BY <2>3, Zenon DEF AlarmOn, AlarmSeen, Alarms
  <2>. QED
    BY <2>1, <2>2, <2>3, AlarmIs DEF HandlesWell
<1>3. ASSUME NEW r \in Requests("Alarm")
      PROVE  /\ r[1] \in {"disarmed", "armed_home", "armed_away"}
             /\ Movement(r[1]) \in Int
             /\ r[1] = "armed_home" => Movement(r[1]) = 0
             /\ r[1] = "armed_away" => Movement(r[1]) = 1
  <2>1. r \in {"disarmed", "armed_home", "armed_away"} \X {0}
    BY AlarmIs, SwitchFamily DEF SwitchRequests
  <2>. QED
    BY <2>1 DEF Movement
<1>4. SendsWell("Alarm")
  <2>1. ASSUME NEW r \in Requests("Alarm") PROVE AlarmCommands(r) \in Orders("Alarm")
    <3>1. \A x \in Int : <<"off", x>> \in CommandsOf("Alarm") /\ <<"delayedon", x>> \in CommandsOf("Alarm")
      BY SwitchCommandsOf
    <3>2. Movement(r[1]) \in Int /\ 0 \in Int
      BY <1>3
    <3>. QED
      BY <3>1, <3>2, OrderOf, Zenon DEF AlarmCommands
  <2>. QED
    BY <2>1, AlarmIs DEF SendsWell
<1>5. ExecutesWell("Alarm")
  <2>1. ASSUME NEW a, NEW c \in {"off", "delayedon"} \X Int, Held("Alarm", a)
        PROVE  Held("Alarm", SwitchExecutes("Alarm", a, c))
    BY <2>1, AlarmIs, SwitchRange, AlarmExecuted
  <2>. QED
    BY <2>1, AlarmIs, SwitchCommandsOf DEF ExecutesWell
<1>6. AnswersWell("Alarm")
  <2>. SUFFICES ASSUME NEW r \in Requests("Alarm"), NEW a, Held("Alarm", a),
                       NEW f, AllSeen("Alarm", f, Done("Alarm", a, AlarmCommands(r)))
       PROVE  AlarmState(f) = r[1] \/ AlarmState(f) = "triggered"
    BY AlarmIs DEF AnswersWell, Answered
  <2>. DEFINE b == Done("Alarm", a, AlarmCommands(r))
  <2>1. /\ f.armed = b["armed"] /\ f.still = b["disabledMove"] /\ f.delay = {b["armedDelay"]}
        /\ f.armedAt = b["armedAt"] /\ f.level = b["level"]
    BY AlarmIs DEF AllSeen, AlarmSeen
  <2>2. DOMAIN a = {"armed", "disabledMove", "armedDelay", "armedAt", "level", "jLocked"}
    BY AlarmIs, SwitchRange
  <2>3. CASE r[1] = "disarmed"
    <3>1. AlarmCommands(r) = <<<<"off", 0>>>>
      BY <2>3 DEF AlarmCommands
    <3>2. b["armed"] = 0 /\ b["armedDelay"] = 0 /\ b["armedAt"] = 0 /\ b["level"] = 0
      BY <2>2, <3>1, DoneOne, AlarmIs, AlarmExecuted
    <3>. QED
      BY <2>1, <2>3, <3>2 DEF AlarmState
  <2>4. CASE r[1] # "disarmed"
    <3>1. AlarmCommands(r) = <<<<"delayedon", Movement(r[1])>>>>
      BY <2>4 DEF AlarmCommands
    <3>2. b["armed"] = 1 /\ b["armedDelay"] = 0 /\ b["armedAt"] = 0 /\ b["disabledMove"] = 1 - Movement(r[1])
      BY <2>2, <3>1, DoneOne, AlarmIs, AlarmExecuted
    <3>3. f.armed = 1 /\ f.delay \ {0} = {} /\ f.armedAt = 0 /\ (r[1] = "armed_home" => f.still # 0)
          /\ (r[1] = "armed_away" => f.still = 0)
      BY <1>3, <2>1, <3>2
    <3>. QED
      BY <1>3, <2>4, <3>3 DEF AlarmState
  <2>. QED
    BY <2>3, <2>4
<1>. QED
  BY <1>1, <1>2, <1>4, <1>5, <1>6 DEF DisplaysWell

(***************************************************************************)
(* The outputs.                                                            *)
(***************************************************************************)
LEMMA OutputHeld ==
  ASSUME NEW k \in OutputKinds, NEW a
  PROVE  Held(k, a) <=> DOMAIN a = Streams(k) /\ \A s \in Streams(k) : a[s] \in StatesOf(k, s)
<1>1. k \notin ClimateKinds
  BY Families DEF DisplayKinds
<1>. QED
  BY <1>1 DEF Held

LEMMA RadioIs ==
  /\ "Radio" \in OutputKinds /\ EntitiesOf("Radio") = Radios
  /\ PlatformStreams("Radio") = {"activeOutput"}
  /\ Streams("Radio") = {"activeOutput", "jLocked"}
  /\ CommandsOf("Radio") = {"reset", "output"} \X Int
  /\ \A e, s, v : Seen("Radio", e, s, v) <=> e.option = {v} \cap Options
  /\ \A e, s, v : Handled("Radio", e, s, v) = RadioOn(e, v)
  /\ \A e, r : Commands("Radio", e, r) = RadioCommands(r)
  /\ \A a, c : Executed("Radio", a, c) = [a EXCEPT !["activeOutput"] = c[2]]
  /\ \A e, r : Shown("Radio", e, r) <=> e.option = {r[2]}
<1>1. "Radio" \in OutputKinds /\ "Radio" \notin PickerKinds
  BY DEF OutputKinds, PickerKinds
<1>2. EntitiesOf("Radio") = Radios
  BY DEF EntitiesOf, IsV2, LightKinds, PickerKinds
<1>3. PlatformStreams("Radio") = {"activeOutput"}
  BY <1>1, OutputFamily DEF OutputStreams, PickerKinds
<1>4. Streams("Radio") = {"activeOutput", "jLocked"}
  BY <1>1, <1>3 DEF Streams, HasLock
<1>5. CommandsOf("Radio") = {"reset", "output"} \X Int
  BY DEF CommandsOf, CoverKinds, PickerKinds, IsV2, LightKinds
<1>6. \A e, s, v : Seen("Radio", e, s, v) <=> e.option = {v} \cap Options
  BY DEF Seen, IsV2, LightKinds, PickerKinds
<1>7. \A e, s, v : Handled("Radio", e, s, v) = RadioOn(e, v)
  BY <1>1, OutputFamily DEF OutputOn
<1>8. \A e, r : Commands("Radio", e, r) = RadioCommands(r)
  BY <1>1, OutputFamily DEF OutputCommands
<1>9. \A a, c : Executed("Radio", a, c) = [a EXCEPT !["activeOutput"] = c[2]]
  BY <1>1, OutputFamily DEF OutputExecutes
<1>10. ASSUME NEW e, NEW r PROVE Shown("Radio", e, r) <=> e.option = {r[2]}
  <2>1. OutputShows("Radio", e, r) <=> e.option = {r[2]}
    BY <1>1 DEF OutputShows
  <2>. QED
    BY <1>1, <2>1, OutputFamily
<1>. QED
  BY <1>1, <1>2, <1>3, <1>4, <1>5, <1>6, <1>7, <1>8, <1>9, <1>10

LEMMA RadioDisplaysWell == DisplaysWell("Radio")
<1>1. StatesOf("Radio", "activeOutput") = Int /\ StatesOf("Radio", "jLocked") = Int
  BY DEF StatesOf
<1>2. ASSUME NEW r \in Requests("Radio") PROVE r[2] \in Options /\ r[2] \in Int
  <2>1. r \in {"option"} \X Options
    BY RadioIs, OutputFamily DEF OutputRequests, PickerKinds
  <2>. QED
    BY <2>1 DEF Options
<1>3. StartsWell("Radio")
  <2>1. OutputFresh("Radio") = [option |-> {}]
    BY DEF OutputFresh, PickerKinds
  <2>2. [option |-> {}] \in Radios
    BY DEF Radios
  <2>. QED
    BY <2>1, <2>2, RadioIs, OutputFamily DEF StartsWell
<1>4. HandlesWell("Radio")
  <2>1. ASSUME NEW e, NEW v PROVE RadioOn(e, v) \in Radios /\ RadioOn(e, v).option = {v} \cap Options
    BY DEF RadioOn, Radios
  <2>. QED
    BY <2>1, RadioIs DEF HandlesWell
<1>5. SendsWell("Radio")
  <2>1. ASSUME NEW r \in Requests("Radio") PROVE RadioCommands(r) \in Orders("Radio")
    <3>1. \A x \in Int : <<"reset", x>> \in CommandsOf("Radio") /\ <<"output", x>> \in CommandsOf("Radio")
      BY RadioIs
    <3>2. r[2] \in Int /\ 0 \in Int
      BY <1>2
    <3>. QED
      BY <3>1, <3>2, OrderOf, Zenon DEF RadioCommands
  <2>. QED
    BY <2>1, RadioIs DEF SendsWell
<1>6. ExecutesWell("Radio")
  <2>1. ASSUME NEW a, NEW c \in {"reset", "output"} \X Int, Held("Radio", a)
        PROVE  Held("Radio", [a EXCEPT !["activeOutput"] = c[2]])
    BY <1>1, <2>1, RadioIs, OutputHeld
  <2>. QED
    BY <2>1, RadioIs DEF ExecutesWell
<1>7. AnswersWell("Radio")
  <2>. SUFFICES ASSUME NEW r \in Requests("Radio"), NEW a, Held("Radio", a),
                       NEW f, AllSeen("Radio", f, Done("Radio", a, RadioCommands(r)))
       PROVE  f.option = {r[2]}
    BY RadioIs DEF AnswersWell, Answered
  <2>. DEFINE b == Done("Radio", a, RadioCommands(r))
  <2>1. f.option = {b["activeOutput"]} \cap Options
    BY RadioIs DEF AllSeen
  <2>2. "activeOutput" \in DOMAIN a
    BY RadioIs, OutputHeld
  <2>3. b["activeOutput"] = r[2]
    <3>1. CASE r[2] = 0
      <4>1. RadioCommands(r) = <<<<"reset", 0>>>>
        BY <3>1 DEF RadioCommands
      <4>. QED
        BY <2>2, <3>1, <4>1, DoneOne, RadioIs
    <3>2. CASE r[2] # 0
      <4>1. RadioCommands(r) = <<<<"output", r[2]>>>>
        BY <3>2 DEF RadioCommands
      <4>. QED
        BY <2>2, <4>1, DoneOne, RadioIs
    <3>. QED
      BY <3>1, <3>2
  <2>. QED
    BY <1>2, <2>1, <2>3
<1>. QED
  BY <1>3, <1>4, <1>5, <1>6, <1>7 DEF DisplaysWell

LEMMA SelectorIs ==
  /\ "ValueSelector" \in OutputKinds /\ EntitiesOf("ValueSelector") = Selectors
  /\ PlatformStreams("ValueSelector") = {"min", "max", "value"}
  /\ Streams("ValueSelector") = {"min", "max", "value", "jLocked"}
  /\ CommandsOf("ValueSelector") = {"value"} \X Int
  /\ \A e, s, v : Seen("ValueSelector", e, s, v) <=> SelectorSeen(e, s, v)
  /\ \A e, s, v : Handled("ValueSelector", e, s, v) = SelectorOn(e, s, v)
  /\ \A e, r : Commands("ValueSelector", e, r) = <<r>>
  /\ \A a, c : Executed("ValueSelector", a, c) = [a EXCEPT !["value"] = AtLeast(a["min"], AtMost(a["max"], c[2]))]
  /\ \A e, r : Shown("ValueSelector", e, r) <=> e.value = {r[2]}
<1>1. "ValueSelector" \in OutputKinds /\ "ValueSelector" \notin PickerKinds
  BY DEF OutputKinds, PickerKinds
<1>2. EntitiesOf("ValueSelector") = Selectors
  BY DEF EntitiesOf, IsV2, LightKinds, PickerKinds
<1>3. PlatformStreams("ValueSelector") = {"min", "max", "value"}
  BY <1>1, OutputFamily DEF OutputStreams, PickerKinds
<1>4. Streams("ValueSelector") = {"min", "max", "value", "jLocked"}
  BY <1>1, <1>3 DEF Streams, HasLock
<1>5. CommandsOf("ValueSelector") = {"value"} \X Int
  BY DEF CommandsOf, CoverKinds, PickerKinds, IsV2, LightKinds
<1>6. \A e, s, v : Seen("ValueSelector", e, s, v) <=> SelectorSeen(e, s, v)
  BY DEF Seen, IsV2, LightKinds, PickerKinds
<1>7. \A e, s, v : Handled("ValueSelector", e, s, v) = SelectorOn(e, s, v)
  BY <1>1, OutputFamily DEF OutputOn
<1>8. \A e, r : Commands("ValueSelector", e, r) = <<r>>
  BY <1>1, OutputFamily DEF OutputCommands
<1>9. \A a, c : Executed("ValueSelector", a, c) = [a EXCEPT !["value"] = AtLeast(a["min"], AtMost(a["max"], c[2]))]
  BY <1>1, OutputFamily DEF OutputExecutes
<1>10. ASSUME NEW e, NEW r PROVE Shown("ValueSelector", e, r) <=> e.value = {r[2]}
  <2>1. OutputShows("ValueSelector", e, r) <=> e.value = {r[2]}
    BY <1>1 DEF OutputShows
  <2>. QED
    BY <1>1, <2>1, OutputFamily
<1>. QED
  BY <1>1, <1>2, <1>3, <1>4, <1>5, <1>6, <1>7, <1>8, <1>9, <1>10

LEMMA RangeStates ==
  ASSUME NEW k \in {"ValueSelector", "Dimmer"}
  PROVE  /\ StatesOf(k, "min") = {0, 1} /\ StatesOf(k, "max") = {1, Full} /\ Full \in Nat /\ Full # 0
         /\ \A s \in {"value", "position", "jLocked"} : StatesOf(k, s) = Int
<1>1. k \in OutputKinds
  BY DEF OutputKinds
<1>2. StatesOf(k, "min") = Values(k, "min") /\ StatesOf(k, "max") = Values(k, "max")
  BY DEF StatesOf
<1>3. OutputValues(k, "min") = {0, 1} /\ OutputValues(k, "max") = {1, Full}
  BY DEF OutputValues
<1>4. \A s \in {"value", "position", "jLocked"} : StatesOf(k, s) = Int
  BY DEF StatesOf
<1>. QED
  BY <1>1, <1>2, <1>3, <1>4, OutputFamily, CoversAssumption

LEMMA SelectorDisplaysWell == DisplaysWell("ValueSelector")
<1>1. ASSUME NEW r \in Requests("ValueSelector") PROVE r \in {"value"} \X Int
  <2>1. r \in {"value"} \X Positions
    BY SelectorIs, OutputFamily DEF OutputRequests, PickerKinds
  <2>. QED
    BY <2>1 DEF Positions
<1>2. StartsWell("ValueSelector")
  <2>1. OutputFresh("ValueSelector") = SelectorFresh
    BY DEF OutputFresh, PickerKinds
  <2>2. SelectorFresh \in Selectors
    BY CoversAssumption DEF SelectorFresh, Selectors
  <2>. QED
    BY <2>1, <2>2, SelectorIs, OutputFamily DEF StartsWell
<1>3. HandlesWell("ValueSelector")
  <2>1. ASSUME NEW s \in {"min", "max", "value"}, NEW v \in StatesOf("ValueSelector", s) PROVE v \in Int
    BY RangeStates
  <2>2. ASSUME NEW e \in Selectors, NEW s \in {"min", "max", "value"}, NEW v \in Int
        PROVE  SelectorOn(e, s, v) \in Selectors /\ SelectorSeen(SelectorOn(e, s, v), s, v)
    BY <2>2, Zenon DEF SelectorOn, SelectorSeen, Selectors
  <2>3. ASSUME NEW e \in Selectors, NEW v, NEW w, NEW t \in {"min", "max", "value"}
        PROVE  /\ t # "min" /\ SelectorSeen(e, t, w) => SelectorSeen(SelectorOn(e, "min", v), t, w)
               /\ t # "max" /\ SelectorSeen(e, t, w) => SelectorSeen(SelectorOn(e, "max", v), t, w)
               /\ t # "value" /\ SelectorSeen(e, t, w) => SelectorSeen(SelectorOn(e, "value", v), t, w)
    BY <2>3, Zenon DEF SelectorOn, SelectorSeen, Selectors
  <2>. QED
    BY <2>1, <2>2, <2>3, SelectorIs DEF HandlesWell
<1>4. SendsWell("ValueSelector")
  BY <1>1, SelectorIs, OrderOf DEF SendsWell
<1>5. ExecutesWell("ValueSelector")
  <2>1. ASSUME NEW a, NEW c \in {"value"} \X Int, Held("ValueSelector", a)
        PROVE  Held("ValueSelector", [a EXCEPT !["value"] = AtLeast(a["min"], AtMost(a["max"], c[2]))])
    <3>1. a["min"] \in Int /\ a["max"] \in Int
      BY <2>1, SelectorIs, OutputHeld, RangeStates
    <3>2. AtLeast(a["min"], AtMost(a["max"], c[2])) \in Int
      BY <3>1 DEF AtLeast, AtMost
    <3>. QED
      BY <2>1, <3>2, SelectorIs, OutputHeld, RangeStates
  <2>. QED
    BY <2>1, SelectorIs DEF ExecutesWell
<1>6. AnswersWell("ValueSelector")
  <2>. SUFFICES ASSUME NEW e, NEW r \in Requests("ValueSelector"), NEW a, Held("ValueSelector", a),
                       Offered("ValueSelector", e, r), AllSeen("ValueSelector", e, a),
                       NEW f, AllSeen("ValueSelector", f, Done("ValueSelector", a, <<r>>))
       PROVE  f.value = {r[2]}
    BY SelectorIs DEF AnswersWell, Answered
  <2>1. e.low <= r[2] /\ r[2] <= e.high /\ r[2] \in Int
    BY <1>1, SelectorIs DEF Offered, OutputOffers
  <2>2. /\ e.low = a["min"] /\ e.high = a["max"]
        /\ f.value = {Done("ValueSelector", a, <<r>>)["value"]}
    BY SelectorIs DEF AllSeen, SelectorSeen
  <2>3. a["min"] \in Int /\ a["max"] \in Int /\ "value" \in DOMAIN a
    BY SelectorIs, OutputHeld, RangeStates
  <2>4. AtLeast(a["min"], AtMost(a["max"], r[2])) = r[2]
    BY <2>1, <2>2, <2>3 DEF AtLeast, AtMost
  <2>. QED
    BY <2>2, <2>3, <2>4, DoneOne, SelectorIs
<1>. QED
  BY <1>2, <1>3, <1>4, <1>5, <1>6 DEF DisplaysWell

LEMMA FanIs ==
  /\ "Fan" \in OutputKinds /\ EntitiesOf("Fan") = Fans
  /\ PlatformStreams("Fan") = {"mode", "speed"}
  /\ Streams("Fan") = {"mode", "speed", "jLocked"}
  /\ CommandsOf("Fan") = ({"setMode"} \X {Low, AutoProfile}) \cup ({"setTimer"} \X Int \X {Low, AutoProfile})
  /\ \A e, s, v : Seen("Fan", e, s, v) <=> FanSeen(e, s, v)
  /\ \A e, s, v : Handled("Fan", e, s, v) = [e EXCEPT ![s] = {v}]
  /\ \A e, r : Commands("Fan", e, r) = FanCommands(e, r)
  /\ \A a, c : Executed("Fan", a, c) = FanExecutes(a, c)
  /\ \A e, r : Shown("Fan", e, r) <=> FanShows(e, r)
<1>1. "Fan" \in OutputKinds /\ "Fan" \notin PickerKinds
  BY DEF OutputKinds, PickerKinds
<1>2. EntitiesOf("Fan") = Fans
  BY DEF EntitiesOf, IsV2, LightKinds, PickerKinds
<1>3. PlatformStreams("Fan") = {"mode", "speed"}
  BY <1>1, OutputFamily DEF OutputStreams, PickerKinds
<1>4. Streams("Fan") = {"mode", "speed", "jLocked"}
  BY <1>1, <1>3 DEF Streams, HasLock
<1>5. CommandsOf("Fan") = ({"setMode"} \X {Low, AutoProfile}) \cup ({"setTimer"} \X Int \X {Low, AutoProfile})
  BY DEF CommandsOf, CoverKinds, PickerKinds, IsV2, LightKinds
<1>6. \A e, s, v : Seen("Fan", e, s, v) <=> FanSeen(e, s, v)
  BY DEF Seen, IsV2, LightKinds, PickerKinds
<1>7. \A e, s, v : Handled("Fan", e, s, v) = [e EXCEPT ![s] = {v}]
  BY <1>1, OutputFamily DEF OutputOn
<1>8. \A e, r : Commands("Fan", e, r) = FanCommands(e, r)
  BY <1>1, OutputFamily DEF OutputCommands
<1>9. \A a, c : Executed("Fan", a, c) = FanExecutes(a, c)
  BY <1>1, OutputFamily DEF OutputExecutes
<1>10. ASSUME NEW e, NEW r PROVE Shown("Fan", e, r) <=> FanShows(e, r)
  <2>1. OutputShows("Fan", e, r) <=> FanShows(e, r)
    BY <1>1 DEF OutputShows
  <2>. QED
    BY <1>1, <2>1, OutputFamily
<1>. QED
  BY <1>1, <1>2, <1>3, <1>4, <1>5, <1>6, <1>7, <1>8, <1>9, <1>10

LEMMA FanStates ==
  /\ StatesOf("Fan", "mode") = {Low, AutoProfile} /\ StatesOf("Fan", "speed") = Int
  /\ StatesOf("Fan", "jLocked") = Int
BY DEF StatesOf

LEMMA FanRequest ==
  ASSUME NEW r \in Requests("Fan")
  PROVE  /\ r[1] \in {"on", "off", "preset", "speed"} /\ r[2] \in Int
         /\ r[1] = "preset" => r[2] \in {Low, AutoProfile}
<1>1. r \in ({"on", "off"} \X {0}) \cup ({"preset"} \X {Low, AutoProfile}) \cup ({"speed"} \X Levels)
  BY FanIs, OutputFamily DEF OutputRequests, PickerKinds
<1>. QED
  BY <1>1 DEF Low, AutoProfile, Levels

\* A speed is sent with a profile that is shown.
LEMMA SpeedIs ==
  ASSUME NEW e \in Fans, NEW x
  PROVE  /\ e.mode = {} => SpeedCommands(e, x) = {}
         /\ e.mode # {} => SpeedCommands(e, x) # {}
                           /\ \E p \in e.mode : Or(SpeedCommands(e, x), <<>>) = <<"setTimer", x, p>>
<1>1. e.mode \subseteq {Low, AutoProfile} /\ Low \in 2 .. 6 /\ AutoProfile \in 2 .. 6
  BY DEF Fans, Low, AutoProfile
<1>2. e.mode \cap 2 .. 6 = e.mode
  BY <1>1
<1>3. SpeedCommands(e, x) = {<<"setTimer", x, p>> : p \in e.mode}
  BY <1>2 DEF SpeedCommands
<1>4. CASE e.mode = {}
  BY <1>3, <1>4
<1>5. CASE e.mode # {}
  <2>1. PICK p \in e.mode : TRUE
    BY <1>5
  <2>2. <<"setTimer", x, p>> \in SpeedCommands(e, x)
    BY <1>3, <2>1, Zenon
  <2>3. SpeedCommands(e, x) # {}
    BY <2>2
  <2>4. Or(SpeedCommands(e, x), <<>>) \in SpeedCommands(e, x)
    BY <2>2, <2>3, Zenon DEF Or
  <2>5. \E q \in e.mode : Or(SpeedCommands(e, x), <<>>) = <<"setTimer", x, q>>
    BY <1>3, <2>4, Zenon
  <2>. QED
    BY <1>5, <2>3, <2>5, Zenon
<1>. QED
  BY <1>4, <1>5

LEMMA FanCommandsAre ==
  ASSUME NEW e \in Fans, NEW r \in Requests("Fan")
  PROVE  /\ r[1] = "on" => FanCommands(e, r) = <<>>
         /\ r[1] = "preset" => FanCommands(e, r) = <<<<"setMode", r[2]>>>>
         /\ r[1] = "speed" /\ e.mode = {} => FanCommands(e, r) = <<>>
         /\ r[1] = "speed" /\ e.mode # {} => \E p \in e.mode : FanCommands(e, r) = <<<<"setTimer", r[2], p>>>>
         /\ r[1] = "off" /\ e.speed \ {0} = {} => FanCommands(e, r) = <<>>
         /\ r[1] = "off" /\ e.speed \ {0} # {} /\ e.mode = {} => FanCommands(e, r) = <<<<"setMode", AutoProfile>>>>
         /\ r[1] = "off" /\ e.speed \ {0} # {} /\ e.mode # {} =>
              \E p \in e.mode : FanCommands(e, r) = <<<<"setMode", AutoProfile>>, <<"setTimer", 0, p>>>>
<1>. DEFINE Speed(x) == IF SpeedCommands(e, x) = {} THEN <<>> ELSE <<Or(SpeedCommands(e, x), <<>>)>>
<1>1. ASSUME NEW x
      PROVE  /\ e.mode = {} => Speed(x) = <<>>
             /\ e.mode # {} => \E p \in e.mode : Speed(x) = <<<<"setTimer", x, p>>>>
  <2>1. CASE e.mode = {}
    BY <2>1, SpeedIs, Zenon
  <2>2. CASE e.mode # {}
    <3>1. SpeedCommands(e, x) # {}
      BY <2>2, SpeedIs, Zenon
    <3>2. PICK p \in e.mode : Or(SpeedCommands(e, x), <<>>) = <<"setTimer", x, p>>
      BY <2>2, SpeedIs, Zenon
    <3>3. Speed(x) = <<<<"setTimer", x, p>>>>
      BY <3>1, <3>2, Zenon
    <3>. QED
      BY <2>2, <3>3, Zenon
  <2>. QED
    BY <2>1, <2>2
<1>2. /\ r[1] = "on" => FanCommands(e, r) = <<>>
      /\ r[1] = "preset" => FanCommands(e, r) = <<<<"setMode", r[2]>>>>
      /\ r[1] = "speed" => FanCommands(e, r) = Speed(r[2])
      /\ r[1] = "off" /\ e.speed \ {0} = {} => FanCommands(e, r) = <<>>
      /\ r[1] = "off" /\ e.speed \ {0} # {} => FanCommands(e, r) = <<<<"setMode", AutoProfile>>>> \o Speed(0)
  BY Zenon DEF FanCommands
<1>. HIDE DEF Speed
<1>3. ASSUME r[1] = "off", e.speed \ {0} # {}, e.mode = {} PROVE FanCommands(e, r) = <<<<"setMode", AutoProfile>>>>
  <2>1. <<<<"setMode", AutoProfile>>>> \o <<>> = <<<<"setMode", AutoProfile>>>>
    BY CatEnd
  <2>. QED
    BY <1>1, <1>2, <1>3, <2>1, Zenon
<1>4. ASSUME r[1] = "off", e.speed \ {0} # {}, e.mode # {}
      PROVE  \E p \in e.mode : FanCommands(e, r) = <<<<"setMode", AutoProfile>>, <<"setTimer", 0, p>>>>
  <2>1. PICK p \in e.mode : Speed(0) = <<<<"setTimer", 0, p>>>>
    BY <1>1, <1>4, Zenon
  <2>2. FanCommands(e, r) = <<<<"setMode", AutoProfile>>, <<"setTimer", 0, p>>>>
    BY <1>2, <1>4, <2>1, CatOne, Zenon
  <2>. QED
    BY <2>2, Zenon
<1>5. ASSUME r[1] = "speed", e.mode # {} PROVE \E p \in e.mode : FanCommands(e, r) = <<<<"setTimer", r[2], p>>>>
  <2>1. PICK p \in e.mode : Speed(r[2]) = <<<<"setTimer", r[2], p>>>>
    BY <1>1, <1>5, Zenon
  <2>. QED
    BY <1>2, <1>5, <2>1, Zenon
<1>6. ASSUME r[1] = "speed", e.mode = {} PROVE FanCommands(e, r) = <<>>
  BY <1>1, <1>2, <1>6, Zenon
<1>. QED
  BY <1>2, <1>3, <1>4, <1>5, <1>6, Zenon

LEMMA FanExecuted ==
  ASSUME NEW a, NEW c
  PROVE  /\ c[1] = "setMode" => FanExecutes(a, c) = [a EXCEPT !["mode"] = c[2], !["speed"] = 1]
         /\ c[1] = "setTimer" => FanExecutes(a, c) = [a EXCEPT !["mode"] = c[3], !["speed"] = c[2]]
BY Zenon DEF FanExecutes

LEMMA FanDisplaysWell == DisplaysWell("Fan")
<1>1. StartsWell("Fan")
  <2>1. OutputFresh("Fan") = [mode |-> {}, speed |-> {}]
    BY DEF OutputFresh, PickerKinds
  <2>2. [mode |-> {}, speed |-> {}] \in Fans
    BY DEF Fans
  <2>. QED
    BY <2>1, <2>2, FanIs, OutputFamily DEF StartsWell
<1>2. HandlesWell("Fan")
  <2>1. ASSUME NEW e \in Fans, NEW s \in {"mode", "speed"}, NEW v \in StatesOf("Fan", s)
        PROVE  /\ [e EXCEPT ![s] = {v}] \in Fans /\ FanSeen([e EXCEPT ![s] = {v}], s, v)
               /\ \A t \in {"mode", "speed"} : \A w : t # s /\ FanSeen(e, t, w) => FanSeen([e EXCEPT ![s] = {v}], t, w)
    BY <2>1, FanStates DEF Fans, FanSeen
  <2>. QED
    BY <2>1, FanIs DEF HandlesWell
<1>3. ASSUME NEW m \in {Low, AutoProfile}, NEW x \in Int
      PROVE  <<"setMode", m>> \in CommandsOf("Fan") /\ <<"setTimer", x, m>> \in CommandsOf("Fan")
  BY FanIs
<1>4. SendsWell("Fan")
  <2>1. ASSUME NEW e \in Fans, NEW r \in Requests("Fan") PROVE FanCommands(e, r) \in Orders("Fan")
    <3>1. e.mode \subseteq {Low, AutoProfile}
      BY DEF Fans
    <3>2. CASE r[1] = "preset"
      <4>1. r[2] \in {Low, AutoProfile} /\ 0 \in Int
        BY <3>2, FanRequest
      <4>2. FanCommands(e, r) = <<<<"setMode", r[2]>>>>
        BY <3>2, FanCommandsAre, Zenon
      <4>. QED
        BY <1>3, <4>1, <4>2, OrderOf, Zenon
    <3>3. CASE r[1] = "speed"
      <4>1. CASE e.mode = {}
        BY <3>3, <4>1, FanCommandsAre, OrderOf, Zenon
      <4>2. CASE e.mode # {}
        <5>1. PICK p \in e.mode : FanCommands(e, r) = <<<<"setTimer", r[2], p>>>>
          BY <3>3, <4>2, FanCommandsAre, Zenon
        <5>2. p \in {Low, AutoProfile} /\ r[2] \in Int
          BY <3>1, FanRequest
        <5>. QED
          BY <1>3, <5>1, <5>2, OrderOf, Zenon
      <4>. QED
        BY <4>1, <4>2
    <3>4. CASE r[1] = "off"
      <4>1. CASE e.speed \ {0} = {}
        BY <3>4, <4>1, FanCommandsAre, OrderOf, Zenon
      <4>2. CASE e.speed \ {0} # {} /\ e.mode = {}
        <5>1. AutoProfile \in {Low, AutoProfile} /\ 0 \in Int
          OBVIOUS
        <5>2. FanCommands(e, r) = <<<<"setMode", AutoProfile>>>>
          BY <3>4, <4>2, FanCommandsAre, Zenon
        <5>. QED
          BY <1>3, <5>1, <5>2, OrderOf, Zenon
      <4>3. CASE e.speed \ {0} # {} /\ e.mode # {}
        <5>1. PICK p \in e.mode : FanCommands(e, r) = <<<<"setMode", AutoProfile>>, <<"setTimer", 0, p>>>>
          BY <3>4, <4>3, FanCommandsAre, Zenon
        <5>2. p \in {Low, AutoProfile} /\ AutoProfile \in {Low, AutoProfile} /\ 0 \in Int
          BY <3>1
        <5>. QED
          BY <1>3, <5>1, <5>2, OrderOf, Zenon
      <4>. QED
        BY <4>1, <4>2, <4>3
    <3>5. CASE r[1] = "on"
      BY <3>5, FanCommandsAre, OrderOf, Zenon
    <3>. QED
      BY <3>2, <3>3, <3>4, <3>5, FanRequest
  <2>. QED
    BY <2>1, FanIs DEF SendsWell
<1>5. ASSUME NEW a, NEW c \in CommandsOf("Fan"), Held("Fan", a) PROVE Held("Fan", FanExecutes(a, c))
  <2>1. DOMAIN a = {"mode", "speed", "jLocked"} /\ a["jLocked"] \in Int
    BY <1>5, FanIs, OutputHeld, FanStates
  <2>2. \/ c[1] = "setMode" /\ c[2] \in {Low, AutoProfile}
        \/ c[1] = "setTimer" /\ c[2] \in Int /\ c[3] \in {Low, AutoProfile}
    BY FanIs
  <2>3. /\ DOMAIN FanExecutes(a, c) = DOMAIN a /\ FanExecutes(a, c)["jLocked"] \in Int
        /\ FanExecutes(a, c)["mode"] \in {Low, AutoProfile} /\ FanExecutes(a, c)["speed"] \in Int
    BY <2>1, <2>2, FanExecuted
  <2>. QED
    BY <2>1, <2>3, FanIs, OutputHeld, FanStates
<1>6. ExecutesWell("Fan")
  BY <1>5, FanIs DEF ExecutesWell
<1>7. AnswersWell("Fan")
  <2>. SUFFICES ASSUME NEW e \in Fans, NEW r \in Requests("Fan"), NEW a, Held("Fan", a), AllSeen("Fan", e, a),
                       r[1] = "on" => e.speed \ {0} # {},
                       NEW f, AllSeen("Fan", f, Done("Fan", a, FanCommands(e, r)))
       PROVE  FanShows(f, r)
    BY FanIs DEF AnswersWell, Answered, Offered, Drops, OutputDrops
  <2>. DEFINE b == Done("Fan", a, FanCommands(e, r))
  <2>1. /\ e.mode = {a["mode"]} /\ e.speed = {a["speed"]} /\ e.mode # {}
        /\ f.mode = {b["mode"]} /\ f.speed = {b["speed"]}
    BY FanIs DEF AllSeen, FanSeen
  <2>2. DOMAIN a = {"mode", "speed", "jLocked"}
    BY FanIs, OutputHeld
  <2>3. ASSUME NEW c, FanCommands(e, r) = <<c>> PROVE b = FanExecutes(a, c)
    <3>1. b = Executed("Fan", a, c)
      BY <2>3, DoneOne, Zenon
    <3>. QED
      BY <3>1, FanIs
  <2>4. CASE r[1] = "preset"
    <3>1. PICK c : c = <<"setMode", r[2]>>
      OBVIOUS
    <3>2. c[1] = "setMode" /\ c[2] = r[2]
      BY <3>1
    <3>3. FanCommands(e, r) = <<c>>
      BY <2>4, <3>1, FanCommandsAre, Zenon
    <3>4. b["mode"] = r[2]
      BY <2>2, <2>3, <3>2, <3>3, FanExecuted
    <3>. QED
      BY <2>1, <2>4, <3>4, Zenon DEF FanShows
  <2>5. CASE r[1] = "speed"
    <3>1. PICK p \in e.mode : FanCommands(e, r) = <<<<"setTimer", r[2], p>>>>
      BY <2>1, <2>5, FanCommandsAre, Zenon
    <3>2. PICK c : c = <<"setTimer", r[2], p>>
      OBVIOUS
    <3>3. c[1] = "setTimer" /\ c[2] = r[2] /\ FanCommands(e, r) = <<c>>
      BY <3>1, <3>2
    <3>4. b["speed"] = r[2]
      BY <2>2, <2>3, <3>3, FanExecuted
    <3>. QED
      BY <2>1, <2>5, <3>4, Zenon DEF FanShows
  <2>6. CASE r[1] = "off"
    <3>1. b["speed"] = 0
      <4>1. CASE e.speed \ {0} = {}
        <5>1. FanCommands(e, r) = <<>>
          BY <2>6, <4>1, FanCommandsAre, Zenon
        <5>2. b = a
          BY <5>1, DoneNone
        <5>. QED
          BY <2>1, <4>1, <5>2
      <4>2. CASE e.speed \ {0} # {}
        <5>1. PICK p \in e.mode : FanCommands(e, r) = <<<<"setMode", AutoProfile>>, <<"setTimer", 0, p>>>>
          BY <2>1, <2>6, <4>2, FanCommandsAre, Zenon
        <5>2. PICK c, d : c = <<"setMode", AutoProfile>> /\ d = <<"setTimer", 0, p>>
          OBVIOUS
        <5>3. c[1] = "setMode" /\ d[1] = "setTimer" /\ d[2] = 0 /\ FanCommands(e, r) = <<c, d>>
          BY <5>1, <5>2
        <5>4. b = FanExecutes(FanExecutes(a, c), d)
          <6>1. b = Done("Fan", a, <<c, d>>)
            BY <5>3
          <6>2. Done("Fan", a, <<c, d>>) = Executed("Fan", Executed("Fan", a, c), d)
            BY DoneTwo
          <6>. QED
            BY <6>1, <6>2, FanIs
        <5>. QED
          BY <2>2, <5>3, <5>4, FanExecuted
      <4>. QED
        BY <4>1, <4>2
    <3>. QED
      BY <2>1, <2>6, <3>1, Zenon DEF FanShows
  <2>7. CASE r[1] = "on"
    <3>1. b = a
      BY <2>7, FanCommandsAre, DoneNone, Zenon
    <3>2. f.speed \ {0} # {}
      BY <2>1, <2>7, <3>1
    <3>. QED
      BY <2>7, <3>2, Zenon DEF FanShows
  <2>. QED
    BY <2>4, <2>5, <2>6, <2>7, FanRequest
<1>. QED
  BY <1>1, <1>2, <1>4, <1>6, <1>7 DEF DisplaysWell

LEMMA ZoneIs ==
  /\ "Zone" \in OutputKinds /\ EntitiesOf("Zone") = Zones
  /\ PlatformStreams("Zone") = {"playState", "active", "mute", "volume", "source", "sourceList", "metadata"}
  /\ Streams("Zone") = {"playState", "active", "mute", "volume", "source", "sourceList", "metadata", "jLocked"}
  /\ CommandsOf("Zone") = {"play", "pause", "power", "mute", "volume", "source"} \X Int
  /\ \A e, s, v : Seen("Zone", e, s, v) <=> ZoneSeen(e, s, v)
  /\ \A e, s, v : Handled("Zone", e, s, v) = ZoneOn(e, s, v)
  /\ \A e, r : Commands("Zone", e, r) = ZoneCommands(e, r)
  /\ \A a, c : Executed("Zone", a, c) = ZoneExecutes(a, c)
  /\ \A e, r : Shown("Zone", e, r) <=> ZoneShows(e, r)
<1>1. "Zone" \in OutputKinds /\ "Zone" \notin PickerKinds
  BY DEF OutputKinds, PickerKinds
<1>2. EntitiesOf("Zone") = Zones
  BY DEF EntitiesOf, IsV2, LightKinds, PickerKinds
<1>3. PlatformStreams("Zone") = {"playState", "active", "mute", "volume", "source", "sourceList", "metadata"}
  BY <1>1, OutputFamily DEF OutputStreams, PickerKinds
<1>4. Streams("Zone") = {"playState", "active", "mute", "volume", "source", "sourceList", "metadata", "jLocked"}
  BY <1>1, <1>3 DEF Streams, HasLock
<1>5. CommandsOf("Zone") = {"play", "pause", "power", "mute", "volume", "source"} \X Int
  BY DEF CommandsOf, CoverKinds, PickerKinds, IsV2, LightKinds
<1>6. \A e, s, v : Seen("Zone", e, s, v) <=> ZoneSeen(e, s, v)
  BY DEF Seen, IsV2, LightKinds, PickerKinds
<1>7. \A e, s, v : Handled("Zone", e, s, v) = ZoneOn(e, s, v)
  BY <1>1, OutputFamily DEF OutputOn
<1>8. \A e, r : Commands("Zone", e, r) = ZoneCommands(e, r)
  BY <1>1, OutputFamily DEF OutputCommands
<1>9. \A a, c : Executed("Zone", a, c) = ZoneExecutes(a, c)
  BY <1>1, OutputFamily DEF OutputExecutes
<1>10. ASSUME NEW e, NEW r PROVE Shown("Zone", e, r) <=> ZoneShows(e, r)
  <2>1. OutputShows("Zone", e, r) <=> ZoneShows(e, r)
    BY <1>1 DEF OutputShows
  <2>. QED
    BY <1>1, <2>1, OutputFamily
<1>. QED
  BY <1>1, <1>2, <1>3, <1>4, <1>5, <1>6, <1>7, <1>8, <1>9, <1>10

LEMMA ZoneRange ==
  ASSUME NEW a
  PROVE  Held("Zone", a) <=>
           /\ DOMAIN a = Streams("Zone") /\ a["sourceList"] \in SUBSET Int
           /\ \A s \in {"playState", "active", "mute", "volume", "source", "metadata", "jLocked"} : a[s] \in Int
<1>1. /\ StatesOf("Zone", "sourceList") = SUBSET Int
      /\ \A s \in {"playState", "active", "mute", "volume", "source", "metadata", "jLocked"} : StatesOf("Zone", s) = Int
  BY DEF StatesOf
<1>. QED
  BY <1>1, ZoneIs, OutputHeld

LEMMA ZoneRequest ==
  ASSUME NEW r \in Requests("Zone")
  PROVE  /\ r[1] \in {"play", "pause", "stop", "power", "mute", "volume", "source"} /\ r[2] \in Int
         /\ r = <<r[1], r[2]>>
         /\ r[1] \in {"power", "mute"} => r[2] \in {0, 1}
<1>1. r \in ({"play", "pause", "stop"} \X {0}) \cup ({"power", "mute"} \X {0, 1})
              \cup ({"volume"} \X Positions) \cup ({"source"} \X {1, 2})
  BY ZoneIs, OutputFamily DEF OutputRequests, PickerKinds
<1>. QED
  BY <1>1 DEF Positions

LEMMA ZoneExecuted ==
  ASSUME NEW a, NEW c
  PROVE  /\ c[1] = "play" => ZoneExecutes(a, c) = [a EXCEPT !["playState"] = 2, !["active"] = 1]
         /\ c[1] = "pause" => ZoneExecutes(a, c) = [a EXCEPT !["playState"] = IF @ = 2 THEN 1 ELSE @]
         /\ c[1] = "power" => ZoneExecutes(a, c) =
              [a EXCEPT !["active"] = c[2], !["playState"] = IF c[2] = 1 THEN AtLeast(0, @) ELSE -1]
         /\ c[1] = "mute" => ZoneExecutes(a, c) = [a EXCEPT !["mute"] = c[2]]
         /\ c[1] = "volume" => ZoneExecutes(a, c) = [a EXCEPT !["volume"] = c[2]]
         /\ c[1] = "source" => ZoneExecutes(a, c) = [a EXCEPT !["source"] = c[2]]
BY Zenon DEF ZoneExecutes

\* What a zone sends, if it sends something.
LEMMA ZoneOrder ==
  ASSUME NEW e, NEW r \in Requests("Zone")
  PROVE  \/ ZoneCommands(e, r) = <<>> /\ OutputDrops("Zone", e, r)
         \/ \E c \in CommandsOf("Zone") :
              /\ ZoneCommands(e, r) = <<c>> /\ c[2] = r[2]
              /\ c[1] = IF r[1] = "stop" THEN "pause" ELSE r[1]
<1>1. CASE r[1] = "stop"
  <2>1. PICK c : c = <<"pause", 0>>
    OBVIOUS
  <2>2. c \in CommandsOf("Zone") /\ c[1] = "pause" /\ c[2] = 0
    BY <2>1, ZoneIs
  <2>3. r[2] = 0
    <3>1. r \in ({"play", "pause", "stop"} \X {0}) \cup ({"power", "mute"} \X {0, 1})
                  \cup ({"volume"} \X Positions) \cup ({"source"} \X {1, 2})
      BY ZoneIs, OutputFamily DEF OutputRequests, PickerKinds
    <3>. QED
      BY <1>1, <3>1
  <2>4. ZoneCommands(e, r) = <<c>>
    BY <1>1, <2>1, Zenon DEF ZoneCommands
  <2>. QED
    BY <1>1, <2>2, <2>3, <2>4
<1>2. CASE r[1] # "stop"
  <2>1. PICK c : c = <<r[1], r[2]>>
    OBVIOUS
  <2>2. c = r /\ c \in CommandsOf("Zone") /\ c[1] = r[1] /\ c[2] = r[2]
    BY <1>2, <2>1, ZoneRequest, ZoneIs
  <2>3. ZoneCommands(e, r) = <<c>> \/ (ZoneCommands(e, r) = <<>> /\ OutputDrops("Zone", e, r))
    <3>1. CASE r[1] = "source"
      <4>1. \/ ZoneCommands(e, r) = <<<<"source", r[2]>>>>
            \/ ZoneCommands(e, r) = <<>> /\ OutputDrops("Zone", e, r)
        BY <3>1, Zenon DEF ZoneCommands, OutputDrops
      <4>. QED
        BY <2>1, <3>1, <4>1
    <3>2. CASE r[1] # "source"
      <4>1. ZoneCommands(e, r) = <<r>>
        BY <1>2, <3>2, Zenon DEF ZoneCommands
      <4>. QED
        BY <2>2, <4>1
    <3>. QED
      BY <3>1, <3>2
  <2>. QED
    BY <1>2, <2>2, <2>3
<1>. QED
  BY <1>1, <1>2

LEMMA ZoneDisplaysWell == DisplaysWell("Zone")
<1>1. StartsWell("Zone")
  <2>1. OutputFresh("Zone") = ZoneFresh
    BY DEF OutputFresh, PickerKinds
  <2>2. ZoneFresh \in Zones
    BY DEF ZoneFresh, Zones
  <2>. QED
    BY <2>1, <2>2, ZoneIs, OutputFamily DEF StartsWell
<1>2. HandlesWell("Zone")
  <2>. DEFINE S == {"playState", "active", "mute", "volume", "source", "sourceList", "metadata"}
  <2>1. ASSUME NEW e \in Zones, NEW s \in S, NEW v \in StatesOf("Zone", s)
        PROVE  ZoneOn(e, s, v) \in Zones /\ ZoneSeen(ZoneOn(e, s, v), s, v)
    <3>1. s = "sourceList" => v \in SUBSET Int
      BY DEF StatesOf
    <3>2. s # "sourceList" => v \in Int
      BY DEF StatesOf
    <3>3. ZoneOn(e, s, v) \in Zones
      BY <3>1, <3>2, Zenon DEF ZoneOn, Zones
    <3>4. ZoneSeen(ZoneOn(e, s, v), s, v)
      BY Zenon DEF ZoneOn, ZoneSeen, Zones
    <3>. QED
      BY <3>3, <3>4
  <2>2. ASSUME NEW e \in Zones, NEW v, NEW w, NEW t \in S
        PROVE  /\ t # "playState" /\ ZoneSeen(e, t, w) => ZoneSeen(ZoneOn(e, "playState", v), t, w)
               /\ t # "active" /\ ZoneSeen(e, t, w) => ZoneSeen(ZoneOn(e, "active", v), t, w)
               /\ t # "mute" /\ ZoneSeen(e, t, w) => ZoneSeen(ZoneOn(e, "mute", v), t, w)
               /\ t # "volume" /\ ZoneSeen(e, t, w) => ZoneSeen(ZoneOn(e, "volume", v), t, w)
               /\ t # "source" /\ ZoneSeen(e, t, w) => ZoneSeen(ZoneOn(e, "source", v), t, w)
               /\ t # "sourceList" /\ ZoneSeen(e, t, w) => ZoneSeen(ZoneOn(e, "sourceList", v), t, w)
               /\ t # "metadata" /\ ZoneSeen(e, t, w) => ZoneSeen(ZoneOn(e, "metadata", v), t, w)
    BY <2>2, Zenon DEF ZoneOn, ZoneSeen, Zones
  <2>. QED
    BY <2>1, <2>2, ZoneIs DEF HandlesWell
<1>3. SendsWell("Zone")
  <2>1. ASSUME NEW e, NEW r \in Requests("Zone") PROVE ZoneCommands(e, r) \in Orders("Zone")
    <3>1. ZoneCommands(e, r) = <<>> \/ \E c \in CommandsOf("Zone") : ZoneCommands(e, r) = <<c>>
      BY ZoneOrder, Zenon
    <3>. QED
      BY <3>1, OrderOf, Zenon
  <2>. QED
    BY <2>1, ZoneIs DEF SendsWell
<1>4. ASSUME NEW a, NEW c \in CommandsOf("Zone"), Held("Zone", a) PROVE Held("Zone", ZoneExecutes(a, c))
  <2>1. c[1] \in {"play", "pause", "power", "mute", "volume", "source"} /\ c[2] \in Int
    BY ZoneIs
  <2>2. /\ DOMAIN a = Streams("Zone") /\ a["sourceList"] \in SUBSET Int
        /\ \A s \in {"playState", "active", "mute", "volume", "source", "metadata", "jLocked"} : a[s] \in Int
    BY <1>4, ZoneRange
  <2>3. AtLeast(0, a["playState"]) \in Int
    BY <2>2 DEF AtLeast
  <2>. QED
    BY <2>1, <2>2, <2>3, ZoneIs, ZoneRange, ZoneExecuted
<1>5. ExecutesWell("Zone")
  BY <1>4, ZoneIs DEF ExecutesWell
<1>6. AnswersWell("Zone")
  <2>. SUFFICES ASSUME NEW e, NEW r \in Requests("Zone"), NEW a, Held("Zone", a), ~OutputDrops("Zone", e, r),
                       NEW f, AllSeen("Zone", f, Done("Zone", a, ZoneCommands(e, r)))
       PROVE  ZoneShows(f, r)
    BY ZoneIs DEF AnswersWell, Answered, Offered, Drops
  <2>. DEFINE b == Done("Zone", a, ZoneCommands(e, r))
  <2>1. /\ f.playState = b["playState"] /\ f.active = {b["active"]} /\ f.mute = {b["mute"]}
        /\ f.volume = b["volume"] /\ f.source = {b["source"]}
    BY ZoneIs DEF AllSeen, ZoneSeen
  <2>2. DOMAIN a = Streams("Zone") /\ a["playState"] \in Int
    BY ZoneRange
  <2>3. PICK c \in CommandsOf("Zone") :
          /\ ZoneCommands(e, r) = <<c>> /\ c[2] = r[2]
          /\ c[1] = IF r[1] = "stop" THEN "pause" ELSE r[1]
    BY ZoneOrder, Zenon
  <2>4. b = ZoneExecutes(a, c)
    <3>1. b = Executed("Zone", a, c)
      BY <2>3, DoneOne, Zenon
    <3>. QED
      BY <3>1, ZoneIs
  <2>. HIDE DEF b
  <2>5. CASE r[1] = "play"
    <3>1. b["playState"] = 2 /\ b["active"] = 1
      BY <2>2, <2>3, <2>4, <2>5, ZoneIs, ZoneExecuted
    <3>2. ZoneState(f) = 2
      BY <2>1, <3>1 DEF ZoneState
    <3>. QED
      BY <2>5, <3>2, Zenon DEF ZoneShows
  <2>6. CASE r[1] \in {"pause", "stop"}
    <3>1. b["playState"] # 2
      BY <2>2, <2>3, <2>4, <2>6, ZoneIs, ZoneExecuted
    <3>2. ZoneState(f) # 2
      BY <2>1, <3>1 DEF ZoneState
    <3>. QED
      BY <2>6, <3>2, Zenon DEF ZoneShows
  <2>7. CASE r[1] = "power"
    <3>1. r[2] \in {0, 1} /\ c[1] = "power" /\ c[2] = r[2]
      BY <2>3, <2>7, ZoneRequest
    <3>2. b["active"] = r[2] /\ b["playState"] = IF r[2] = 1 THEN AtLeast(0, a["playState"]) ELSE -1
      BY <2>2, <2>4, <3>1, ZoneIs, ZoneExecuted
    <3>3. (ZoneState(f) # -1) = (r[2] = 1)
      <4>1. CASE r[2] = 0
        <5>1. f.active = {0}
          BY <2>1, <3>2, <4>1
        <5>2. ZoneState(f) = -1
          BY <5>1 DEF ZoneState
        <5>. QED
          BY <4>1, <5>2
      <4>2. CASE r[2] = 1
        <5>1. f.active = {1} /\ {1} # {0} /\ f.playState = AtLeast(0, a["playState"])
          BY <2>1, <3>2, <4>2
        <5>2. ZoneState(f) = AtLeast(0, a["playState"])
          BY <5>1 DEF ZoneState
        <5>3. AtLeast(0, a["playState"]) # -1
          BY <2>2 DEF AtLeast
        <5>. QED
          BY <4>2, <5>2, <5>3
      <4>. QED
        BY <3>1, <4>1, <4>2
    <3>. QED
      BY <2>7, <3>3, Zenon DEF ZoneShows
  <2>8. CASE r[1] = "mute"
    <3>1. r[2] \in {0, 1} /\ c[1] = "mute" /\ c[2] = r[2]
      BY <2>3, <2>8, ZoneRequest
    <3>2. b["mute"] = r[2]
      BY <2>2, <2>4, <3>1, ZoneIs, ZoneExecuted
    <3>3. (f.mute = {1}) = (r[2] = 1)
      BY <2>1, <3>1, <3>2
    <3>. QED
      BY <2>8, <3>3, Zenon DEF ZoneShows
  <2>9. CASE r[1] = "volume"
    <3>1. c[1] = "volume" /\ c[2] = r[2]
      BY <2>3, <2>9
    <3>2. b["volume"] = r[2]
      BY <2>2, <2>4, <3>1, ZoneIs, ZoneExecuted
    <3>. QED
      BY <2>1, <2>9, <3>2, Zenon DEF ZoneShows
  <2>10. CASE r[1] = "source"
    <3>1. c[1] = "source" /\ c[2] = r[2]
      BY <2>3, <2>10
    <3>2. b["source"] = r[2]
      BY <2>2, <2>4, <3>1, ZoneIs, ZoneExecuted
    <3>. QED
      BY <2>1, <2>10, <3>2, Zenon DEF ZoneShows
  <2>. QED
    BY <2>5, <2>6, <2>7, <2>8, <2>9, <2>10, ZoneRequest
<1>. QED
  BY <1>1, <1>2, <1>3, <1>5, <1>6 DEF DisplaysWell

LEMMA DimmerIs ==
  /\ "Dimmer" \in OutputKinds /\ EntitiesOf("Dimmer") = Dimmers
  /\ PlatformStreams("Dimmer") = {"min", "max", "position"}
  /\ Streams("Dimmer") = {"min", "max", "position", "jLocked"}
  /\ CommandsOf("Dimmer") = {"On", "Off", "set"} \X Int
  /\ \A e, s, v : Seen("Dimmer", e, s, v) <=> DimmerSeen(e, s, v)
  /\ \A e, s, v : Handled("Dimmer", e, s, v) = DimmerOn(e, s, v)
  /\ \A e, r : Commands("Dimmer", e, r) = DimmerCommands(e, r)
  /\ \A a, c : Executed("Dimmer", a, c) = DimmerExecutes(a, c)
  /\ \A e, r : Shown("Dimmer", e, r) <=> DimmerShows(e, r)
<1>1. "Dimmer" \in OutputKinds /\ "Dimmer" \notin PickerKinds
  BY DEF OutputKinds, PickerKinds
<1>2. EntitiesOf("Dimmer") = Dimmers
  BY DEF EntitiesOf, IsV2, LightKinds, PickerKinds
<1>3. PlatformStreams("Dimmer") = {"min", "max", "position"}
  BY <1>1, OutputFamily DEF OutputStreams, PickerKinds
<1>4. Streams("Dimmer") = {"min", "max", "position", "jLocked"}
  BY <1>1, <1>3 DEF Streams, HasLock
<1>5. CommandsOf("Dimmer") = {"On", "Off", "set"} \X Int
  BY DEF CommandsOf, CoverKinds, PickerKinds, IsV2, LightKinds
<1>6. \A e, s, v : Seen("Dimmer", e, s, v) <=> DimmerSeen(e, s, v)
  BY DEF Seen, IsV2, LightKinds, PickerKinds
<1>7. \A e, s, v : Handled("Dimmer", e, s, v) = DimmerOn(e, s, v)
  BY <1>1, OutputFamily DEF OutputOn
<1>8. \A e, r : Commands("Dimmer", e, r) = DimmerCommands(e, r)
  BY <1>1, OutputFamily DEF OutputCommands
<1>9. \A a, c : Executed("Dimmer", a, c) = DimmerExecutes(a, c)
  BY <1>1, OutputFamily DEF OutputExecutes
<1>10. ASSUME NEW e, NEW r PROVE Shown("Dimmer", e, r) <=> DimmerShows(e, r)
  <2>1. OutputShows("Dimmer", e, r) <=> DimmerShows(e, r)
    BY <1>1 DEF OutputShows
  <2>. QED
    BY <1>1, <2>1, OutputFamily
<1>. QED
  BY <1>1, <1>2, <1>3, <1>4, <1>5, <1>6, <1>7, <1>8, <1>9, <1>10

LEMMA DimmerRequest ==
  ASSUME NEW r \in Requests("Dimmer")
  PROVE  r[1] \in {"on", "off", "level"} /\ (r[1] = "level" => r[2] \in 1 .. Full)
<1>1. r \in ({"on", "off"} \X {0}) \cup ({"level"} \X Levels)
  BY DimmerIs, OutputFamily DEF OutputRequests, PickerKinds
<1>. QED
  BY <1>1 DEF Levels

LEMMA DimmerRange ==
  ASSUME NEW a
  PROVE  Held("Dimmer", a) <=>
           /\ DOMAIN a = Streams("Dimmer") /\ a["min"] \in {0, 1} /\ a["max"] \in {1, Full}
           /\ a["position"] \in Int /\ a["jLocked"] \in Int
BY RangeStates, DimmerIs, OutputHeld

LEMMA OrIs ==
  /\ \A d : Or({}, d) = d
  /\ \A x, d : Or({x}, d) = x
<1>1. \A d : Or({}, d) = d
  BY DEF Or
<1>2. ASSUME NEW x, NEW d PROVE Or({x}, d) = x
  BY DEF Or
<1>. QED
  BY <1>1, <1>2

LEMMA OrIn == ASSUME NEW S, NEW T, S \subseteq T, NEW d \in T PROVE Or(S, d) \in T
BY Zenon DEF Or

LEMMA DivInt == ASSUME NEW x \in Int, NEW n \in Nat \ {0} PROVE x \div n \in Int
OBVIOUS

\* The brightness of a dimmer, or of a master, whose range was received.
LEMMA BrightnessIs ==
  ASSUME NEW e, NEW low \in {0, 1}, NEW high \in {1, Full}, e.low = {low}, e.high = {high}, NEW x \in Int
  PROVE  Brightness(e, x) =
           IF high <= low THEN (IF x >= low THEN Full ELSE 0)
           ELSE IF x <= low THEN 0
           ELSE AtMost(Full, AtLeast(1, ((x - low) * Full) \div (high - low)))
<1>1. e.low # {} /\ e.high # {} /\ Or(e.low, 0) = low /\ Or(e.high, Full) = high
  BY OrIs
<1>. QED
  BY <1>1, Zenon DEF Brightness

LEMMA BrightnessInt ==
  ASSUME NEW e, e.low \subseteq {0, 1}, e.high \subseteq {1, Full}, NEW x \in Int
  PROVE  Brightness(e, x) \in Int
<1>. DEFINE low == Or(e.low, 0)
            high == Or(e.high, Full)
<1>1. low \in Int /\ high \in Int
  BY CoversAssumption, OrIn
<1>. HIDE DEF low, high
<1>2. ASSUME ~(high <= low) PROVE AtMost(Full, AtLeast(1, ((x - low) * Full) \div (high - low))) \in Int
  <2>1. ((x - low) * Full) \div (high - low) \in Int
    BY <1>1, <1>2, CoversAssumption, DivInt
  <2>. QED
    BY <2>1, CoversAssumption DEF AtMost, AtLeast
<1>3. Brightness(e, x) =
        IF e.low = {} \/ e.high = {} THEN x
        ELSE IF high <= low THEN (IF x >= low THEN Full ELSE 0)
        ELSE IF x <= low THEN 0
        ELSE AtMost(Full, AtLeast(1, ((x - low) * Full) \div (high - low)))
  BY Zenon DEF Brightness, low, high
<1>4. 0 \in Int /\ Full \in Int
  BY CoversAssumption
<1>. QED
  BY <1>2, <1>3, <1>4, Zenon

LEMMA PositionInt ==
  ASSUME NEW e, e.low \subseteq {0, 1}, e.high \subseteq {1, Full}, NEW x \in Int
  PROVE  Position(e, x) \in Int
<1>. DEFINE low == Or(e.low, 0)
            high == Or(e.high, Full)
<1>1. low \in Int /\ high \in Int
  BY CoversAssumption, OrIn
<1>. HIDE DEF low, high
<1>2. AtLeast(1, low + (((x - 1) * (high - low)) \div AtLeast(1, Full - 1))) \in Int
  <2>1. AtLeast(1, Full - 1) \in Nat \ {0}
    BY CoversAssumption DEF AtLeast
  <2>2. ((x - 1) * (high - low)) \div AtLeast(1, Full - 1) \in Int
    BY <1>1, <2>1, DivInt
  <2>. QED
    BY <1>1, <2>2 DEF AtLeast
<1>3. Position(e, x) =
        IF e.low = {} \/ e.high = {} THEN x
        ELSE IF high <= low THEN high
        ELSE AtLeast(1, low + (((x - 1) * (high - low)) \div AtLeast(1, Full - 1)))
  BY Zenon DEF Position, low, high
<1>. QED
  BY <1>1, <1>2, <1>3, Zenon

\* Zero is dark, the high end is full, and nothing above the low end is dark.
LEMMA Ends ==
  ASSUME NEW e, NEW low \in {0, 1}, NEW high \in {1, Full}, e.low = {low}, e.high = {high}
  PROVE  /\ Brightness(e, 0) = 0 /\ Brightness(e, high) = Full /\ Full # 0
         /\ \A x \in Int : x > low => Brightness(e, x) # 0
<1>1. Full \in Nat /\ Full # 0 /\ low \in Int /\ high \in Int
  BY CoversAssumption
<1>2. Brightness(e, 0) = 0
  BY <1>1, BrightnessIs
<1>3. Brightness(e, high) = Full
  <2>1. CASE high <= low
    BY <1>1, <2>1, BrightnessIs
  <2>2. CASE ~(high <= low)
    <3>1. ((high - low) * Full) \div (high - low) = Full
      BY <1>1, <2>2
    <3>2. Brightness(e, high) = AtMost(Full, AtLeast(1, ((high - low) * Full) \div (high - low)))
      BY <1>1, <2>2, BrightnessIs
    <3>. QED
      BY <1>1, <3>1, <3>2 DEF AtMost, AtLeast
  <2>. QED
    BY <2>1, <2>2
<1>4. ASSUME NEW x \in Int, x > low PROVE Brightness(e, x) # 0
  <2>1. CASE high <= low
    BY <1>1, <1>4, <2>1, BrightnessIs
  <2>2. CASE ~(high <= low)
    <3>1. PICK y \in Int : y = ((x - low) * Full) \div (high - low)
      BY <1>1, <2>2, DivInt
    <3>2. Brightness(e, x) = AtMost(Full, AtLeast(1, y))
      BY <1>1, <1>4, <2>2, <3>1, BrightnessIs
    <3>. QED
      BY <1>1, <3>2 DEF AtMost, AtLeast
  <2>. QED
    BY <2>1, <2>2
<1>. QED
  BY <1>1, <1>2, <1>3, <1>4

\* What is sent for a brightness: for full the high end, and above the lowest more
\* than the low end.
LEMMA PositionIs ==
  ASSUME NEW e, NEW low \in {0, 1}, NEW high \in {1, Full}, e.low = {low}, e.high = {high}, NEW x \in 1 .. Full
  PROVE  /\ Position(e, x) > 0
         /\ x = Full => Position(e, x) = high
         /\ x > 1 => Position(e, x) = high \/ Position(e, x) > low
<1>1. Full \in Nat /\ Full # 0 /\ low \in Int /\ high \in Int
  BY CoversAssumption
<1>2. e.low # {} /\ e.high # {} /\ Or(e.low, 0) = low /\ Or(e.high, Full) = high
  BY OrIs
<1>3. Position(e, x) = IF high <= low THEN high
                       ELSE AtLeast(1, low + (((x - 1) * (high - low)) \div AtLeast(1, Full - 1)))
  BY <1>2, Zenon DEF Position
<1>4. CASE high <= low
  <2>1. Position(e, x) = high
    BY <1>3, <1>4, Zenon
  <2>2. high > 0
    BY <1>1
  <2>. QED
    BY <2>1, <2>2
<1>5. CASE ~(high <= low) /\ Full = 1
  <2>1. x = 1 /\ low = 0 /\ high = 1 /\ AtLeast(1, Full - 1) = 1
    BY <1>1, <1>5 DEF AtLeast
  <2>2. ((x - 1) * (high - low)) \div AtLeast(1, Full - 1) = 0
    BY <2>1
  <2>. QED
    BY <1>3, <1>5, <2>1, <2>2 DEF AtLeast
<1>6. CASE ~(high <= low) /\ Full # 1
  <2>. DEFINE n == Full - 1
  <2>1. AtLeast(1, Full - 1) = n /\ n \in Nat \ {0}
    BY <1>1, <1>6 DEF AtLeast
  <2>2. PICK y \in Int : y = ((x - 1) * (high - low)) \div n
    BY <1>1, <2>1, DivInt
  <2>3. Position(e, x) = AtLeast(1, low + y)
    BY <1>3, <1>6, <2>1, <2>2
  <2>4. x = Full => y = high - low
    BY <1>1, <1>6, <2>1, <2>2
  <2>5. low = 1 => y = x - 1
    <3>1. low = 1 => high = Full
      BY <1>1, <1>6
    <3>. QED
      BY <1>1, <2>1, <2>2, <3>1
  <2>. QED
    BY <1>1, <1>6, <2>3, <2>4, <2>5 DEF AtLeast
<1>. QED
  BY <1>4, <1>5, <1>6

LEMMA SameRange ==
  ASSUME NEW e, NEW f, e.low = f.low, e.high = f.high, NEW x
  PROVE  Brightness(e, x) = Brightness(f, x)
BY Zenon DEF Brightness

\* What an update leaves of each field.
LEMMA DimmerOnIs ==
  ASSUME NEW e \in Dimmers, NEW s \in {"min", "max", "position"}, NEW v \in StatesOf("Dimmer", s), NEW f, f = DimmerOn(e, s, v)
  PROVE  /\ f \in Dimmers /\ f.available
         /\ s = "min" => /\ f.low = {v} /\ f.high = e.high /\ f.level = e.level
                         /\ f.rescaled = (e.rescaled \/ (e.level # {} /\ e.low # {v}))
         /\ s = "max" => /\ f.low = e.low /\ f.high = {v} /\ f.level = e.level
                         /\ f.rescaled = (e.rescaled \/ (e.level # {} /\ e.high # {v}))
         /\ s = "position" => f.low = e.low /\ f.high = e.high /\ f.level = {Brightness(e, v)}
<1>1. PICK g : g = [e EXCEPT !.available = TRUE]
  OBVIOUS
<1>2. /\ g \in Dimmers /\ g.available /\ g.low = e.low /\ g.high = e.high /\ g.level = e.level
      /\ g.rescaled = e.rescaled
  BY <1>1 DEF Dimmers
<1>3. f = ScaleOn(g, s, v)
  BY <1>1 DEF DimmerOn
<1>4. /\ s = "min" => {v} \in SUBSET {0, 1}
      /\ s = "max" => {v} \in SUBSET {1, Full}
      /\ s = "position" => {Brightness(g, v)} \in SUBSET Int /\ Brightness(g, v) = Brightness(e, v)
  <2>1. g.low \subseteq {0, 1} /\ g.high \subseteq {1, Full}
    BY <1>2 DEF Dimmers
  <2>2. Brightness(g, v) = Brightness(e, v)
    BY <1>2, SameRange
  <2>. QED
    BY <2>1, <2>2, RangeStates, BrightnessInt
<1>5. CASE s = "min"
  <2>1. f = [g EXCEPT !.low = {v}, !.rescaled = g.rescaled \/ (g.level # {} /\ g.low # {v})]
    BY <1>3, <1>5, Zenon DEF ScaleOn
  <2>2. (g.rescaled \/ (g.level # {} /\ g.low # {v})) \in BOOLEAN
    BY <1>2 DEF Dimmers
  <2>. QED
    BY <1>2, <1>4, <1>5, <2>1, <2>2 DEF Dimmers
<1>6. CASE s = "max"
  <2>1. f = [g EXCEPT !.high = {v}, !.rescaled = g.rescaled \/ (g.level # {} /\ g.high # {v})]
    BY <1>3, <1>6, Zenon DEF ScaleOn
  <2>2. (g.rescaled \/ (g.level # {} /\ g.high # {v})) \in BOOLEAN
    BY <1>2 DEF Dimmers
  <2>. QED
    BY <1>2, <1>4, <1>6, <2>1, <2>2 DEF Dimmers
<1>7. CASE s = "position"
  <2>1. f = [g EXCEPT !.level = {Brightness(g, v)}, !.rescaled = FALSE]
    BY <1>3, <1>7, Zenon DEF ScaleOn
  <2>. QED
    BY <1>2, <1>4, <1>7, <2>1 DEF Dimmers
<1>. QED
  BY <1>5, <1>6, <1>7

LEMMA DimmerHandles == HandlesWell("Dimmer")
<1>. DEFINE S == {"min", "max", "position"}
<1>1. ASSUME NEW e \in Dimmers, NEW s \in S, NEW v \in StatesOf("Dimmer", s)
      PROVE  /\ DimmerOn(e, s, v) \in Dimmers /\ DimmerSeen(DimmerOn(e, s, v), s, v)
             /\ \A t \in S : \A w : t # s /\ DimmerSeen(e, t, w) => DimmerSeen(DimmerOn(e, s, v), t, w)
  <2>1. PICK f : f = DimmerOn(e, s, v)
    OBVIOUS
  <2>2. DimmerSeen(f, s, v)
    <3>1. s = "position" => Brightness(f, v) = Brightness(e, v)
      BY <2>1, DimmerOnIs, SameRange
    <3>. QED
      BY <2>1, <3>1, DimmerOnIs DEF DimmerSeen
  <2>3. ASSUME NEW t \in S, NEW w, t # s, DimmerSeen(e, t, w) PROVE DimmerSeen(f, t, w)
    <3>1. CASE t # "position"
      BY <2>1, <2>3, <3>1, DimmerOnIs DEF DimmerSeen
    <3>2. CASE t = "position" /\ e.rescaled
      BY <2>1, <2>3, <3>2, DimmerOnIs DEF DimmerSeen
    <3>3. CASE t = "position" /\ ~f.rescaled /\ ~e.rescaled
      <4>1. e.level = {Brightness(e, w)}
        BY <2>3, <3>3 DEF DimmerSeen
      <4>2. f.low = e.low /\ f.high = e.high /\ f.level = e.level
        <5>1. CASE s = "min"
          <6>1. /\ f.low = {v} /\ f.high = e.high /\ f.level = e.level
                /\ f.rescaled = (e.rescaled \/ (e.level # {} /\ e.low # {v}))
            BY <2>1, <5>1, DimmerOnIs
          <6>2. e.level # {}
            BY <4>1
          <6>3. e.low = {v}
            BY <3>3, <6>1, <6>2, Zenon
          <6>. QED
            BY <6>1, <6>3
        <5>2. CASE s = "max"
          <6>1. /\ f.high = {v} /\ f.low = e.low /\ f.level = e.level
                /\ f.rescaled = (e.rescaled \/ (e.level # {} /\ e.high # {v}))
            BY <2>1, <5>2, DimmerOnIs
          <6>2. e.level # {}
            BY <4>1
          <6>3. e.high = {v}
            BY <3>3, <6>1, <6>2, Zenon
          <6>. QED
            BY <6>1, <6>3
        <5>. QED
          BY <2>3, <3>3, <5>1, <5>2
      <4>3. f.level = {Brightness(f, w)}
        BY <4>1, <4>2, SameRange
      <4>. QED
        BY <2>1, <3>3, <4>3, DimmerOnIs DEF DimmerSeen
    <3>4. CASE t = "position" /\ f.rescaled
      BY <2>1, <3>4, DimmerOnIs DEF DimmerSeen
    <3>. QED
      BY <3>1, <3>2, <3>3, <3>4
  <2>. QED
    BY <2>1, <2>2, <2>3, DimmerOnIs
<1>. QED
  BY <1>1, DimmerIs DEF HandlesWell

LEMMA DimmerExecuted ==
  ASSUME NEW a, NEW c
  PROVE  /\ c[1] = "On" => DimmerExecutes(a, c) = [a EXCEPT !["position"] = a["max"]]
         /\ c[1] = "Off" => DimmerExecutes(a, c) = [a EXCEPT !["position"] = 0]
         /\ c[1] = "set" => DimmerExecutes(a, c) = [a EXCEPT !["position"] = c[2]]
BY Zenon DEF DimmerExecutes

LEMMA DimmerDisplaysWell == DisplaysWell("Dimmer")
<1>1. StartsWell("Dimmer")
  <2>1. OutputFresh("Dimmer") = DimmerFresh
    BY DEF OutputFresh, PickerKinds
  <2>2. DimmerFresh \in Dimmers
    BY DEF DimmerFresh, Dimmers
  <2>. QED
    BY <2>1, <2>2, DimmerIs, OutputFamily DEF StartsWell
<1>2. SendsWell("Dimmer")
  <2>1. ASSUME NEW e \in Dimmers, NEW r \in Requests("Dimmer") PROVE DimmerCommands(e, r) \in Orders("Dimmer")
    <3>1. \A x \in Int : /\ <<"On", x>> \in CommandsOf("Dimmer") /\ <<"Off", x>> \in CommandsOf("Dimmer")
                         /\ <<"set", x>> \in CommandsOf("Dimmer")
      BY DimmerIs
    <3>2. 0 \in Int /\ (r[1] = "level" => Position(e, r[2]) \in Int)
      <4>1. e.low \subseteq {0, 1} /\ e.high \subseteq {1, Full}
        BY DEF Dimmers
      <4>. QED
        BY <4>1, DimmerRequest, PositionInt, CoversAssumption
    <3>. QED
      BY <3>1, <3>2, DimmerRequest, OrderOf, Zenon DEF DimmerCommands
  <2>. QED
    BY <2>1, DimmerIs DEF SendsWell
<1>3. ASSUME NEW a, NEW c \in CommandsOf("Dimmer"), Held("Dimmer", a) PROVE Held("Dimmer", DimmerExecutes(a, c))
  <2>1. c[1] \in {"On", "Off", "set"} /\ c[2] \in Int
    BY DimmerIs
  <2>2. DOMAIN a = Streams("Dimmer") /\ a["min"] \in {0, 1} /\ a["max"] \in {1, Full} /\ a["jLocked"] \in Int
    BY <1>3, DimmerRange
  <2>3. a["max"] \in Int
    BY <2>2, CoversAssumption
  <2>. QED
    BY <2>1, <2>2, <2>3, DimmerIs, DimmerRange, DimmerExecuted
<1>4. ExecutesWell("Dimmer")
  BY <1>3, DimmerIs DEF ExecutesWell
<1>5. AnswersWell("Dimmer")
  <2>. SUFFICES ASSUME NEW e \in Dimmers, NEW r \in Requests("Dimmer"), NEW a, Held("Dimmer", a),
                       AllSeen("Dimmer", e, a),
                       NEW f, AllSeen("Dimmer", f, Done("Dimmer", a, DimmerCommands(e, r))), ~f.rescaled
       PROVE  DimmerShows(f, r)
    BY DimmerIs DEF AnswersWell, Answered, Unscaled, ScaledKinds, LightKinds
  <2>. DEFINE b == Done("Dimmer", a, DimmerCommands(e, r))
  <2>1. /\ e.low = {a["min"]} /\ e.high = {a["max"]}
        /\ f.low = {b["min"]} /\ f.high = {b["max"]} /\ f.level = {Brightness(f, b["position"])}
    BY DimmerIs DEF AllSeen, DimmerSeen
  <2>2. DOMAIN a = Streams("Dimmer") /\ a["min"] \in {0, 1} /\ a["max"] \in {1, Full}
    BY DimmerRange
  <2>3. ASSUME NEW c, DimmerCommands(e, r) = <<c>> PROVE b = DimmerExecutes(a, c)
    <3>1. b = Executed("Dimmer", a, c)
      BY <2>3, DoneOne, Zenon
    <3>. QED
      BY <3>1, DimmerIs
  <2>4. ASSUME NEW x, b = [a EXCEPT !["position"] = x]
        PROVE  f.low = {a["min"]} /\ f.high = {a["max"]} /\ f.level = {Brightness(f, x)}
    BY <2>1, <2>2, <2>4, DimmerIs
  <2>5. CASE r[1] = "on"
    <3>1. PICK c : c = <<"On", 0>>
      OBVIOUS
    <3>2. c[1] = "On" /\ DimmerCommands(e, r) = <<c>>
      BY <2>5, <3>1 DEF DimmerCommands
    <3>3. f.low = {a["min"]} /\ f.high = {a["max"]} /\ f.level = {Brightness(f, a["max"])}
      BY <2>3, <2>4, <3>2, DimmerExecuted
    <3>4. f.level \ {0} # {}
      BY <2>2, <3>3, Ends
    <3>. QED
      BY <2>5, <3>4, Zenon DEF DimmerShows
  <2>6. CASE r[1] = "off"
    <3>1. PICK c : c = <<"Off", 0>>
      OBVIOUS
    <3>2. c[1] = "Off" /\ DimmerCommands(e, r) = <<c>>
      BY <2>6, <3>1 DEF DimmerCommands
    <3>3. f.low = {a["min"]} /\ f.high = {a["max"]} /\ f.level = {Brightness(f, 0)}
      BY <2>3, <2>4, <3>2, DimmerExecuted
    <3>4. f.level = {0}
      BY <2>2, <3>3, Ends
    <3>. QED
      BY <2>6, <3>4, Zenon DEF DimmerShows
  <2>7. CASE r[1] = "level"
    <3>. DEFINE p == Position(e, r[2])
    <3>1. PICK c : c = <<"set", p>>
      OBVIOUS
    <3>2. c[1] = "set" /\ c[2] = p /\ DimmerCommands(e, r) = <<c>>
      BY <2>7, <3>1 DEF DimmerCommands
    <3>3. f.low = {a["min"]} /\ f.high = {a["max"]} /\ f.level = {Brightness(f, p)}
      BY <2>3, <2>4, <3>2, DimmerExecuted
    <3>4. r[2] \in 1 .. Full /\ p \in Int
      <4>1. e.low \subseteq {0, 1} /\ e.high \subseteq {1, Full}
        BY DEF Dimmers
      <4>. QED
        BY <2>7, <4>1, DimmerRequest, PositionInt, CoversAssumption
    <3>5. r[2] = Full => p = a["max"]
      BY <2>1, <2>2, <3>4, PositionIs
    <3>6. r[2] > 1 => p = a["max"] \/ p > a["min"]
      BY <2>1, <2>2, <3>4, PositionIs
    <3>7. r[2] = Full => f.level = {Full}
      BY <2>2, <3>3, <3>5, Ends
    <3>8. r[2] > 1 => f.level \ {0} # {}
      BY <2>2, <3>3, <3>4, <3>6, Ends
    <3>. QED
      BY <2>7, <3>7, <3>8, Zenon DEF DimmerShows
  <2>. QED
    BY <2>5, <2>6, <2>7, DimmerRequest
<1>. QED
  BY <1>1, <1>2, <1>4, <1>5, DimmerHandles DEF DisplaysWell

(***************************************************************************)
(* The light controller.                                                   *)
(***************************************************************************)
LEMMA LightStreamsAre ==
  /\ LightStreams("Light") = {"activeMoods", "moodList", "circuit1", "circuit2"}
  /\ LightStreams("MasterLight") = {"activeMoods", "moodList", "circuit1", "min", "max", "master"}
BY DEF LightStreams, Circuits

LEMMA LightIs ==
  ASSUME NEW k \in LightKinds
  PROVE  /\ EntitiesOf(k) = {e \in LightsOf : e.on = IsOn(e) /\ NoOthers(k, e)}
         /\ PlatformStreams(k) = LightStreams(k) /\ Streams(k) = LightStreams(k) \cup {"jLocked"}
         /\ CommandsOf(k) = {"changeTo", "plus", "master"} \X Int
         /\ \A e, s, v : Seen(k, e, s, v) <=> LightSeen(e, s, v)
         /\ \A e, s, v : Handled(k, e, s, v) = LightOn(e, s, v)
         /\ \A e, r : Commands(k, e, r) = LightCommands(e, r)
         /\ \A a, c : Executed(k, a, c) = LightExecutes(a, c)
         /\ \A e, r : Shown(k, e, r) <=> LightShows(e, r)
<1>0. /\ k # "Gate" /\ k # "Window" /\ k # "Jalousie" /\ ~IsV2(k) /\ k # "RoomV1" /\ k # "AcControl"
      /\ k \notin CoverKinds
  BY DEF LightKinds, IsV2, CoverKinds
<1>1. EntitiesOf(k) = {e \in LightsOf : e.on = IsOn(e) /\ NoOthers(k, e)}
  BY <1>0 DEF EntitiesOf, LightKinds, PickerKinds
<1>2. PlatformStreams(k) = LightStreams(k)
  BY LightFamily
<1>3. Streams(k) = LightStreams(k) \cup {"jLocked"}
  BY <1>2 DEF Streams, HasLock
<1>4. CommandsOf(k) = {"changeTo", "plus", "master"} \X Int
  BY <1>0 DEF CommandsOf, LightKinds, PickerKinds
<1>5. \A e, s, v : Seen(k, e, s, v) <=> LightSeen(e, s, v)
  BY <1>0 DEF Seen, LightKinds, PickerKinds
<1>6. /\ \A e, s, v : Handled(k, e, s, v) = LightOn(e, s, v)
      /\ \A e, r : Commands(k, e, r) = LightCommands(e, r)
      /\ \A a, c : Executed(k, a, c) = LightExecutes(a, c)
      /\ \A e, r : Shown(k, e, r) <=> LightShows(e, r)
  BY LightFamily
<1>. QED
  BY <1>1, <1>2, <1>3, <1>4, <1>5, <1>6

\* The master's range, where there is a master.
HasRange(k, a) == k = "MasterLight" => a["min"] \in {0, 1} /\ a["max"] \in {1, Full}

LEMMA LightStatesOf ==
  ASSUME NEW k \in LightKinds
  PROVE  /\ StatesOf(k, "activeMoods") = SUBSET Int /\ StatesOf(k, "moodList") = Seq(Int)
         /\ StatesOf(k, "min") = {0, 1} /\ StatesOf(k, "max") = {1, Full}
         /\ \A s \in {"master", "circuit1", "circuit2", "jLocked"} : StatesOf(k, s) = Int
<1>1. Values(k, "min") = {0, 1} /\ Values(k, "max") = {1, Full}
  BY LightFamily DEF LightValues
<1>. QED
  BY <1>1 DEF StatesOf, LightKinds

LEMMA LightRange ==
  ASSUME NEW k \in LightKinds, NEW a
  PROVE  Held(k, a) <=>
           /\ DOMAIN a = Streams(k)
           /\ a["activeMoods"] \in SUBSET Int /\ a["moodList"] \in Seq(Int) /\ HasRange(k, a)
           /\ \A s \in {"master", "circuit1", "circuit2", "jLocked"} \cap Streams(k) : a[s] \in Int
<1>1. Held(k, a) <=> DOMAIN a = Streams(k) /\ \A s \in Streams(k) : a[s] \in StatesOf(k, s)
  BY DEF Held, ClimateKinds, LightKinds
<1>2. CASE k = "Light"
  <2>1. Streams(k) = {"activeMoods", "moodList", "circuit1", "circuit2", "jLocked"}
    BY <1>2, LightIs, LightStreamsAre
  <2>. QED
    BY <1>1, <1>2, <2>1, LightStatesOf DEF HasRange
<1>3. CASE k = "MasterLight"
  <2>1. Streams(k) = {"activeMoods", "moodList", "circuit1", "min", "max", "master", "jLocked"}
    BY <1>3, LightIs, LightStreamsAre
  <2>. QED
    BY <1>1, <1>3, <2>1, LightStatesOf DEF HasRange
<1>. QED
  BY <1>2, <1>3 DEF LightKinds

LEMMA LightRequest ==
  ASSUME NEW k \in LightKinds, NEW r \in Requests(k)
  PROVE  /\ r[1] \in {"on", "off", "brightness", "effect"}
         /\ r[1] = "brightness" => k = "MasterLight" /\ r[2] \in 1 .. Full
         /\ r[1] = "effect" => r[2] \in Int \ OffMoods
<1>1. r \in LightRequests(k)
  BY LightFamily
<1>. QED
  BY <1>1 DEF LightRequests, LightKinds, Levels, Evening, AllOn, OffMoods, Off, OtherOff

\* Whether there is light follows from what was received of moods, circuits and master.
LEMMA SameLight ==
  ASSUME NEW e, NEW f, e.moods = f.moods, e.master = f.master, \A c \in Circuits : e.circuits[c] = f.circuits[c]
  PROVE  IsOn(e) = IsOn(f)
<1>1. UNION {e.circuits[c] : c \in Circuits} = UNION {f.circuits[c] : c \in Circuits}
  OBVIOUS
<1>. QED
  BY <1>1, Zenon DEF IsOn

LEMMA LightOrDark ==
  ASSUME NEW e \in LightsOf
  PROVE  IsOn(e) \in SUBSET BOOLEAN
<1>1. {m > 0 : m \in e.master} \in SUBSET BOOLEAN
  <2>1. \A m \in e.master : (m > 0) \in BOOLEAN
    BY DEF LightsOf
  <2>. QED
    BY <2>1, Zenon
<1>2. {1 \in UNION {e.circuits[c] : c \in Circuits}} \in SUBSET BOOLEAN
  OBVIOUS
<1>. QED
  BY <1>1, <1>2, Zenon DEF IsOn

LEMMA MoodDecides ==
  ASSUME NEW e, NEW m, e.moods = {{m}}
  PROVE  /\ m \notin OffMoods => IsOn(e) = {TRUE}
         /\ m \in OffMoods => IsOn(e) = {FALSE}
<1>1. e.moods # {} /\ UNION e.moods = {m}
  OBVIOUS
<1>2. CASE m \notin OffMoods
  <2>1. {m} \ OffMoods # {}
    BY <1>2
  <2>. QED
    BY <1>1, <1>2, <2>1, Zenon DEF IsOn
<1>3. CASE m \in OffMoods
  <2>1. {m} \ OffMoods = {} /\ {m} # {}
    BY <1>3
  <2>. QED
    BY <1>1, <1>3, <2>1, Zenon DEF IsOn
<1>. QED
  BY <1>2, <1>3

LEMMA CircuitsDecide ==
  ASSUME NEW e, e.moods = {{}}, e.circuits["circuit1"] = {1}
  PROVE  IsOn(e) = {TRUE}
<1>1. e.moods # {} /\ UNION e.moods = {} /\ {} \ OffMoods = {}
  OBVIOUS
<1>2. 1 \in UNION {e.circuits[c] : c \in Circuits} /\ UNION {e.circuits[c] : c \in Circuits} # {}
  BY DEF Circuits
<1>3. IsOn(e) = {1 \in UNION {e.circuits[c] : c \in Circuits}}
  BY <1>1, <1>2, Zenon DEF IsOn
<1>. QED
  BY <1>2, <1>3

LEMMA DerivedIs ==
  ASSUME NEW k \in LightKinds, NEW x \in LightsOf, NoOthers(k, x)
  PROVE  /\ Derived(x) \in EntitiesOf(k)
         /\ Derived(x).moods = x.moods /\ Derived(x).moodList = x.moodList
         /\ Derived(x).master = x.master /\ Derived(x).circuits = x.circuits
         /\ Derived(x).low = x.low /\ Derived(x).high = x.high
         /\ Derived(x).level = x.level /\ Derived(x).rescaled = x.rescaled
         /\ \A c \in Circuits : x.circuits[c] # {} => Derived(x).available
         /\ x.low # {} /\ x.high # {} => Derived(x).available
<1>. DEFINE y == \/ x.available \/ IsOn(x) # {} \/ (x.low # {} /\ x.high # {})
                 \/ \E c \in Circuits : x.circuits[c] # {}
            d == [x EXCEPT !.on = IsOn(x), !.available = y]
<1>1. Derived(x) = d
  BY DEF Derived, LightsOf
<1>2. y \in BOOLEAN /\ IsOn(x) \in SUBSET BOOLEAN
  BY LightOrDark DEF LightsOf
<1>3. /\ d.moods = x.moods /\ d.moodList = x.moodList /\ d.master = x.master /\ d.circuits = x.circuits
      /\ d.low = x.low /\ d.high = x.high /\ d.level = x.level /\ d.rescaled = x.rescaled
      /\ d.on = IsOn(x) /\ d.available = y
  BY DEF LightsOf
<1>4. d \in LightsOf
  BY <1>2, Zenon DEF LightsOf
<1>5. IsOn(d) = IsOn(x) /\ NoOthers(k, d)
  <2>1. IsOn(d) = IsOn(x)
    BY <1>3, SameLight, Zenon
  <2>. HIDE DEF d
  <2>. QED
    BY <1>3, <2>1 DEF NoOthers
<1>6. (\A c \in Circuits : x.circuits[c] # {} => y) /\ (x.low # {} /\ x.high # {} => y)
  OBVIOUS
<1>7. d \in EntitiesOf(k)
  BY <1>3, <1>4, <1>5, LightIs
<1>. QED
  BY <1>1, <1>3, <1>6, <1>7

LEMMA LightStarts == \A k \in LightKinds : StartsWell(k)
<1>1. LightFresh \in LightsOf
  BY DEF LightFresh, LightsOf, Circuits
<1>2. IsOn(LightFresh) = {}
  <2>1. LightFresh.moods = {}
    BY DEF LightFresh
  <2>. QED
    BY <2>1, Zenon DEF IsOn
<1>3. LightFresh.on = {} /\ \A k \in LightKinds : NoOthers(k, LightFresh)
  BY DEF LightFresh, NoOthers
<1>. QED
  BY <1>1, <1>2, <1>3, LightIs, LightFamily DEF StartsWell

\* What event_handler does before its tail.
Received(e, s, v) ==
  CASE s = "activeMoods" -> [e EXCEPT !.moods = {v}]
    [] s = "moodList"    -> [e EXCEPT !.moodList = v]
    [] s \in {"min", "max"} -> ScaleOn(e, s, v)
    [] s = "master"      -> [ScaleOn(e, "position", v) EXCEPT !.master = {v}]
    [] OTHER             -> [e EXCEPT !.circuits[s] = {v}]

\* All that LightSeen says of the fields that the tail does not derive.
Kept(e, s, v) ==
  /\ s = "activeMoods" => e.moods = {v}
  /\ s = "moodList"    => e.moodList = v
  /\ s \in Circuits    => e.circuits[s] = {v}
  /\ s = "min"         => e.low = {v}
  /\ s = "max"         => e.high = {v}
  /\ s = "master"      => e.master = {v} /\ (e.rescaled \/ e.level = {Brightness(e, v)})

LEMMA ReceivedIs ==
  ASSUME NEW e \in LightsOf, NEW v
  PROVE  /\ Received(e, "activeMoods", v) = [e EXCEPT !.moods = {v}]
         /\ Received(e, "moodList", v) = [e EXCEPT !.moodList = v]
         /\ Received(e, "circuit1", v) = [e EXCEPT !.circuits["circuit1"] = {v}]
         /\ Received(e, "circuit2", v) = [e EXCEPT !.circuits["circuit2"] = {v}]
         /\ Received(e, "min", v) =
              [e EXCEPT !.low = {v}, !.rescaled = e.rescaled \/ (e.level # {} /\ e.low # {v})]
         /\ Received(e, "max", v) =
              [e EXCEPT !.high = {v}, !.rescaled = e.rescaled \/ (e.level # {} /\ e.high # {v})]
         /\ Received(e, "master", v) =
              [e EXCEPT !.level = {Brightness(e, v)}, !.rescaled = FALSE, !.master = {v}]
<1>1. /\ Received(e, "activeMoods", v) = [e EXCEPT !.moods = {v}]
      /\ Received(e, "moodList", v) = [e EXCEPT !.moodList = v]
      /\ Received(e, "circuit1", v) = [e EXCEPT !.circuits["circuit1"] = {v}]
      /\ Received(e, "circuit2", v) = [e EXCEPT !.circuits["circuit2"] = {v}]
  BY Zenon DEF Received
<1>2. Received(e, "min", v) = ScaleOn(e, "min", v) /\ Received(e, "max", v) = ScaleOn(e, "max", v)
  BY Zenon DEF Received
<1>3. Received(e, "master", v) = [ScaleOn(e, "position", v) EXCEPT !.master = {v}]
  BY Zenon DEF Received
<1>4. ScaleOn(e, "position", v) = [e EXCEPT !.level = {Brightness(e, v)}, !.rescaled = FALSE]
  BY Zenon DEF ScaleOn
<1>5. /\ ScaleOn(e, "min", v) = [e EXCEPT !.low = {v}, !.rescaled = @ \/ (e.level # {} /\ e.low # {v})]
      /\ ScaleOn(e, "max", v) = [e EXCEPT !.high = {v}, !.rescaled = @ \/ (e.level # {} /\ e.high # {v})]
  BY Zenon DEF ScaleOn
<1>6. [[e EXCEPT !.level = {Brightness(e, v)}, !.rescaled = FALSE] EXCEPT !.master = {v}]
        = [e EXCEPT !.level = {Brightness(e, v)}, !.rescaled = FALSE, !.master = {v}]
  OBVIOUS
<1>. QED
  BY <1>1, <1>2, <1>3, <1>4, <1>5, <1>6, Zenon

\* A controller with one field changed.
LEMMA LightsExcept ==
  ASSUME NEW e \in LightsOf
  PROVE  /\ \A y \in SUBSET (SUBSET Int) : [e EXCEPT !.moods = y] \in LightsOf
         /\ \A y \in Seq(Int) : [e EXCEPT !.moodList = y] \in LightsOf
         /\ \A y \in [Circuits -> SUBSET Int] : [e EXCEPT !.circuits = y] \in LightsOf
         /\ \A y \in SUBSET {0, 1}, z \in BOOLEAN : [e EXCEPT !.low = y, !.rescaled = z] \in LightsOf
         /\ \A y \in SUBSET {1, Full}, z \in BOOLEAN : [e EXCEPT !.high = y, !.rescaled = z] \in LightsOf
         /\ \A y, z \in SUBSET Int, u \in BOOLEAN :
              [e EXCEPT !.level = y, !.rescaled = u, !.master = z] \in LightsOf
<1>1. ASSUME NEW y \in SUBSET (SUBSET Int) PROVE [e EXCEPT !.moods = y] \in LightsOf
  BY Zenon DEF LightsOf
<1>2. ASSUME NEW y \in Seq(Int) PROVE [e EXCEPT !.moodList = y] \in LightsOf
  BY Zenon DEF LightsOf
<1>3. ASSUME NEW y \in [Circuits -> SUBSET Int] PROVE [e EXCEPT !.circuits = y] \in LightsOf
  BY Zenon DEF LightsOf
<1>4. ASSUME NEW y \in SUBSET {0, 1}, NEW z \in BOOLEAN PROVE [e EXCEPT !.low = y, !.rescaled = z] \in LightsOf
  BY Zenon DEF LightsOf
<1>5. ASSUME NEW y \in SUBSET {1, Full}, NEW z \in BOOLEAN PROVE [e EXCEPT !.high = y, !.rescaled = z] \in LightsOf
  BY Zenon DEF LightsOf
<1>6. ASSUME NEW y \in SUBSET Int, NEW z \in SUBSET Int, NEW u \in BOOLEAN
      PROVE  [e EXCEPT !.level = y, !.rescaled = u, !.master = z] \in LightsOf
  BY Zenon DEF LightsOf
<1>. QED
  BY <1>1, <1>2, <1>3, <1>4, <1>5, <1>6, Zenon

LEMMA LightReceives ==
  ASSUME NEW k \in LightKinds, NEW e \in LightsOf, NoOthers(k, e),
         NEW s \in LightStreams(k), NEW v \in StatesOf(k, s)
  PROVE  /\ Received(e, s, v) \in LightsOf /\ NoOthers(k, Received(e, s, v)) /\ Kept(Received(e, s, v), s, v)
         /\ \A t \in LightStreams(k) : \A w : t # s /\ Kept(e, t, w) => Kept(Received(e, s, v), t, w)
<1>1. PICK x : x = Received(e, s, v)
  OBVIOUS
<1>2. /\ s = "activeMoods" => {v} \in SUBSET (SUBSET Int)
      /\ s = "moodList" => v \in Seq(Int)
      /\ s \in {"master", "circuit1", "circuit2"} => {v} \in SUBSET Int
      /\ s = "min" => {v} \in SUBSET {0, 1}
      /\ s = "max" => {v} \in SUBSET {1, Full}
      /\ s = "master" => {Brightness(e, v)} \in SUBSET Int
  <2>1. s = "master" => Brightness(e, v) \in Int
    <3>1. e.low \subseteq {0, 1} /\ e.high \subseteq {1, Full}
      BY DEF LightsOf
    <3>. QED
      BY <3>1, LightStatesOf, BrightnessInt
  <2>. QED
    BY <2>1, LightStatesOf
<1>3. SUFFICES /\ x \in LightsOf /\ NoOthers(k, x) /\ Kept(x, s, v)
               /\ \A t \in LightStreams(k) : \A w : t # s /\ Kept(e, t, w) => Kept(x, t, w)
  BY <1>1
<1>4. CASE s = "activeMoods"
  <2>1. x = [e EXCEPT !.moods = {v}]
    BY <1>1, <1>4, ReceivedIs
  <2>2. /\ x.moods = {v} /\ x.moodList = e.moodList /\ x.circuits = e.circuits /\ x.low = e.low /\ x.high = e.high
        /\ x.master = e.master /\ x.level = e.level /\ x.rescaled = e.rescaled
    BY <2>1 DEF LightsOf
  <2>3. x \in LightsOf
    BY <1>2, <1>4, <2>1, LightsExcept
  <2>4. \A y : Brightness(x, y) = Brightness(e, y)
    BY <2>2, SameRange
  <2>5. NoOthers(k, x) /\ Kept(x, s, v)
    BY <1>4, <2>2 DEF NoOthers, Kept, Circuits
  <2>6. ASSUME NEW t, NEW w, t # s, Kept(e, t, w) PROVE Kept(x, t, w)
    BY <1>4, <2>2, <2>4, <2>6 DEF Kept, Circuits
  <2>. QED
    BY <2>3, <2>5, <2>6
<1>5. CASE s = "moodList"
  <2>1. x = [e EXCEPT !.moodList = v]
    BY <1>1, <1>5, ReceivedIs
  <2>2. /\ x.moods = e.moods /\ x.moodList = v /\ x.circuits = e.circuits /\ x.low = e.low /\ x.high = e.high
        /\ x.master = e.master /\ x.level = e.level /\ x.rescaled = e.rescaled
    BY <2>1 DEF LightsOf
  <2>3. x \in LightsOf
    BY <1>2, <1>5, <2>1, LightsExcept
  <2>4. \A y : Brightness(x, y) = Brightness(e, y)
    BY <2>2, SameRange
  <2>5. NoOthers(k, x) /\ Kept(x, s, v)
    BY <1>5, <2>2 DEF NoOthers, Kept, Circuits
  <2>6. ASSUME NEW t, NEW w, t # s, Kept(e, t, w) PROVE Kept(x, t, w)
    BY <1>5, <2>2, <2>4, <2>6 DEF Kept, Circuits
  <2>. QED
    BY <2>3, <2>5, <2>6
<1>6. CASE s \in {"circuit1", "circuit2"}
  <2>1. PICK y : y = [e.circuits EXCEPT ![s] = {v}]
    OBVIOUS
  <2>2. x = [e EXCEPT !.circuits = y]
    <3>1. x = [e EXCEPT !.circuits[s] = {v}]
      <4>1. CASE s = "circuit1"
        BY <1>1, <4>1, ReceivedIs, Zenon
      <4>2. CASE s = "circuit2"
        BY <1>1, <4>2, ReceivedIs, Zenon
      <4>. QED
        BY <1>6, <4>1, <4>2
    <3>. QED
      BY <2>1, <3>1
  <2>3. /\ x.moods = e.moods /\ x.moodList = e.moodList /\ x.circuits = y /\ x.low = e.low /\ x.high = e.high
        /\ x.master = e.master /\ x.level = e.level /\ x.rescaled = e.rescaled
    BY <2>2 DEF LightsOf
  <2>4. /\ y \in [Circuits -> SUBSET Int]
        /\ y[s] = {v} /\ \A c \in Circuits : c # s => y[c] = e.circuits[c]
    BY <1>2, <1>6, <2>1 DEF LightsOf, Circuits
  <2>5. x \in LightsOf
    BY <2>2, <2>4, LightsExcept
  <2>6. \A z : Brightness(x, z) = Brightness(e, z)
    BY <2>3, SameRange
  <2>7. NoOthers(k, x)
    BY <1>6, <2>3, <2>4 DEF NoOthers
  <2>8. Kept(x, s, v)
    BY <1>6, <2>3, <2>4 DEF Kept, Circuits
  <2>9. ASSUME NEW t, NEW w, t # s, Kept(e, t, w) PROVE Kept(x, t, w)
    BY <1>6, <2>3, <2>4, <2>6, <2>9 DEF Kept
  <2>. QED
    BY <2>5, <2>7, <2>8, <2>9
<1>7. CASE s = "min"
  <2>1. PICK y \in BOOLEAN : y = (e.rescaled \/ (e.level # {} /\ e.low # {v}))
    BY DEF LightsOf
  <2>2. x = [e EXCEPT !.low = {v}, !.rescaled = y]
    BY <1>1, <1>7, <2>1, ReceivedIs
  <2>3. /\ x.moods = e.moods /\ x.moodList = e.moodList /\ x.circuits = e.circuits /\ x.low = {v} /\ x.high = e.high
        /\ x.master = e.master /\ x.level = e.level /\ x.rescaled = y
    BY <2>2 DEF LightsOf
  <2>4. x \in LightsOf
    BY <1>2, <1>7, <2>2, LightsExcept
  <2>5. ASSUME NEW w, e.rescaled \/ e.level = {Brightness(e, w)}
        PROVE  x.rescaled \/ x.level = {Brightness(x, w)}
    <3>1. CASE e.rescaled
      BY <2>1, <2>3, <3>1
    <3>2. CASE e.level = {Brightness(e, w)} /\ ~y
      <4>1. e.level # {}
        BY <3>2
      <4>2. e.low = {v}
        BY <2>1, <3>2, <4>1, Zenon
      <4>. QED
        BY <2>3, <3>2, <4>2, SameRange
    <3>. QED
      BY <2>3, <2>5, <3>1, <3>2
  <2>6. NoOthers(k, x)
    BY <1>7, <2>3, LightStreamsAre DEF NoOthers, LightKinds
  <2>7. Kept(x, s, v)
    BY <1>7, <2>3 DEF Kept, Circuits
  <2>8. ASSUME NEW t, NEW w, t # s, Kept(e, t, w) PROVE Kept(x, t, w)
    BY <1>7, <2>3, <2>5, <2>8 DEF Kept, Circuits
  <2>. QED
    BY <2>4, <2>6, <2>7, <2>8
<1>8. CASE s = "max"
  <2>1. PICK y \in BOOLEAN : y = (e.rescaled \/ (e.level # {} /\ e.high # {v}))
    BY DEF LightsOf
  <2>2. x = [e EXCEPT !.high = {v}, !.rescaled = y]
    BY <1>1, <1>8, <2>1, ReceivedIs
  <2>3. /\ x.moods = e.moods /\ x.moodList = e.moodList /\ x.circuits = e.circuits /\ x.high = {v} /\ x.low = e.low
        /\ x.master = e.master /\ x.level = e.level /\ x.rescaled = y
    BY <2>2 DEF LightsOf
  <2>4. x \in LightsOf
    BY <1>2, <1>8, <2>2, LightsExcept
  <2>5. ASSUME NEW w, e.rescaled \/ e.level = {Brightness(e, w)}
        PROVE  x.rescaled \/ x.level = {Brightness(x, w)}
    <3>1. CASE e.rescaled
      BY <2>1, <2>3, <3>1
    <3>2. CASE e.level = {Brightness(e, w)} /\ ~y
      <4>1. e.level # {}
        BY <3>2
      <4>2. e.high = {v}
        BY <2>1, <3>2, <4>1, Zenon
      <4>. QED
        BY <2>3, <3>2, <4>2, SameRange
    <3>. QED
      BY <2>3, <2>5, <3>1, <3>2
  <2>6. NoOthers(k, x)
    BY <1>8, <2>3, LightStreamsAre DEF NoOthers, LightKinds
  <2>7. Kept(x, s, v)
    BY <1>8, <2>3 DEF Kept, Circuits
  <2>8. ASSUME NEW t, NEW w, t # s, Kept(e, t, w) PROVE Kept(x, t, w)
    BY <1>8, <2>3, <2>5, <2>8 DEF Kept, Circuits
  <2>. QED
    BY <2>4, <2>6, <2>7, <2>8
<1>9. CASE s = "master"
  <2>1. x = [e EXCEPT !.level = {Brightness(e, v)}, !.rescaled = FALSE, !.master = {v}]
    BY <1>1, <1>9, ReceivedIs
  <2>2. /\ x.moods = e.moods /\ x.moodList = e.moodList /\ x.circuits = e.circuits /\ x.low = e.low /\ x.high = e.high
        /\ x.master = {v} /\ x.level = {Brightness(e, v)}
    BY <2>1 DEF LightsOf
  <2>3. x \in LightsOf
    BY <1>2, <1>9, <2>1, LightsExcept
  <2>4. Brightness(x, v) = Brightness(e, v)
    BY <2>2, SameRange
  <2>5. NoOthers(k, x)
    BY <1>9, <2>2, LightStreamsAre DEF NoOthers, LightKinds
  <2>6. Kept(x, s, v)
    BY <1>9, <2>2, <2>4 DEF Kept, Circuits
  <2>7. ASSUME NEW t, NEW w, t # s, Kept(e, t, w) PROVE Kept(x, t, w)
    BY <1>9, <2>2, <2>7 DEF Kept, Circuits
  <2>. QED
    BY <2>3, <2>5, <2>6, <2>7
<1>. QED
  <2>1. s \in {"activeMoods", "moodList", "circuit1", "circuit2", "min", "max", "master"}
    BY LightStreamsAre DEF LightKinds
  <2>. QED
    BY <1>4, <1>5, <1>6, <1>7, <1>8, <1>9, <2>1

LEMMA LightHandles == \A k \in LightKinds : HandlesWell(k)
<1>. SUFFICES ASSUME NEW k \in LightKinds PROVE HandlesWell(k)
  OBVIOUS
<1>1. ASSUME NEW e, NEW s, NEW v PROVE LightOn(e, s, v) = Derived(Received(e, s, v))
  BY Zenon DEF LightOn, Received
<1>2. ASSUME NEW x \in LightsOf, NoOthers(k, x), NEW t, NEW w, Kept(x, t, w) PROVE LightSeen(Derived(x), t, w)
  <2>1. Brightness(Derived(x), w) = Brightness(x, w)
    BY <1>2, DerivedIs, SameRange
  <2>2. /\ t = "activeMoods" => Derived(x).moods = {w}
        /\ t = "moodList"    => Derived(x).moodList = w
        /\ t \in Circuits    => Derived(x).circuits[t] = {w} /\ Derived(x).available
        /\ t = "min"         => Derived(x).low = {w}
        /\ t = "max"         => Derived(x).high = {w}
        /\ t = "master"      => /\ Derived(x).master = {w}
                                /\ Derived(x).rescaled \/ Derived(x).level = {Brightness(x, w)}
    BY <1>2, DerivedIs DEF Kept
  <2>. QED
    BY <2>1, <2>2 DEF LightSeen
<1>3. ASSUME NEW x, NEW t, NEW w, LightSeen(x, t, w) PROVE Kept(x, t, w)
  BY <1>3 DEF LightSeen, Kept
<1>4. ASSUME NEW e \in EntitiesOf(k), NEW s \in LightStreams(k), NEW v \in StatesOf(k, s)
      PROVE  /\ LightOn(e, s, v) \in EntitiesOf(k) /\ LightSeen(LightOn(e, s, v), s, v)
             /\ \A t \in LightStreams(k) : \A w : t # s /\ LightSeen(e, t, w) => LightSeen(LightOn(e, s, v), t, w)
  <2>1. e \in LightsOf /\ NoOthers(k, e)
    BY LightIs
  <2>2. Received(e, s, v) \in LightsOf /\ NoOthers(k, Received(e, s, v)) /\ Kept(Received(e, s, v), s, v)
    BY <2>1, LightReceives
  <2>3. LightOn(e, s, v) = Derived(Received(e, s, v))
    BY <1>1
  <2>4. ASSUME NEW t \in LightStreams(k), NEW w, t # s, LightSeen(e, t, w) PROVE LightSeen(LightOn(e, s, v), t, w)
    <3>1. Kept(Received(e, s, v), t, w)
      BY <1>3, <2>1, <2>4, LightReceives
    <3>. QED
      BY <1>2, <2>2, <2>3, <3>1
  <2>. QED
    BY <1>2, <2>2, <2>3, <2>4, DerivedIs
<1>. QED
  BY <1>4, LightIs DEF HandlesWell

LEMMA Smallest ==
  ASSUME NEW T \in SUBSET Nat, T # {}
  PROVE  \E i \in T : \A j \in T : i <= j
<1>1. PICK i \in T : \A j \in T : ~(<<j, i>> \in OpToRel(<, Nat))
  BY NatLessThanWellFounded, WFMin
<1>2. ASSUME NEW j \in T PROVE i <= j
  <2>1. CASE j < i
    <3>1. <<j, i>> \in OpToRel(<, Nat)
      BY <2>1 DEF OpToRel
    <3>. QED
      BY <1>1, <3>1
  <2>. QED
    BY <2>1
<1>. QED
  BY <1>2

\* What switches the light on is a mood that does.
LEMMA PlainTurnOnLights ==
  ASSUME NEW moodList \in Seq(Int)
  PROVE  \/ PlainTurnOn(moodList) = <<"plus", 0>>
         \/ \E m \in Int \ OffMoods : PlainTurnOn(moodList) = <<"changeTo", m>>
<1>. DEFINE lit == {i \in DOMAIN moodList : moodList[i] \notin OffMoods}
<1>1. CASE \E i \in DOMAIN moodList : moodList[i] = AllOn
  <2>1. AllOn \in Int \ OffMoods
    BY DEF AllOn, OffMoods, Off, OtherOff
  <2>. QED
    BY <1>1, <2>1, Zenon DEF PlainTurnOn
<1>2. CASE ~(\E i \in DOMAIN moodList : moodList[i] = AllOn) /\ lit = {}
  BY <1>2, Zenon DEF PlainTurnOn
<1>3. CASE ~(\E i \in DOMAIN moodList : moodList[i] = AllOn) /\ lit # {}
  <2>. DEFINE first == CHOOSE i \in lit : \A j \in lit : i <= j
  <2>1. lit \in SUBSET Nat
    OBVIOUS
  <2>2. first \in lit
    <3>. HIDE DEF lit
    <3>1. \E i \in lit : \A j \in lit : i <= j
      BY <1>3, <2>1, Smallest
    <3>. QED
      BY <3>1, Zenon
  <2>3. moodList[first] \in Int \ OffMoods
    <3>. HIDE DEF first
    <3>. QED
      BY <2>2
  <2>4. PlainTurnOn(moodList) = <<"changeTo", moodList[first]>>
    BY <1>3, Zenon DEF PlainTurnOn
  <2>. QED
    BY <2>3, <2>4
<1>. QED
  BY <1>1, <1>2, <1>3

LEMMA LightSends == \A k \in LightKinds : SendsWell(k)
<1>. SUFFICES ASSUME NEW k \in LightKinds, NEW e \in LightsOf, NEW r \in Requests(k)
     PROVE  LightCommands(e, r) \in Orders(k)
  BY LightIs DEF SendsWell
<1>1. \A x \in Int : /\ <<"changeTo", x>> \in CommandsOf(k) /\ <<"plus", x>> \in CommandsOf(k)
                     /\ <<"master", x>> \in CommandsOf(k)
  BY LightIs
<1>2. PlainTurnOn(e.moodList) \in CommandsOf(k)
  <2>1. e.moodList \in Seq(Int)
    BY DEF LightsOf
  <2>2. CASE PlainTurnOn(e.moodList) = <<"plus", 0>>
    BY <1>1, <2>2, 0 \in Int, Zenon
  <2>3. CASE \E m \in Int \ OffMoods : PlainTurnOn(e.moodList) = <<"changeTo", m>>
    BY <1>1, <2>3, Zenon
  <2>. QED
    BY <2>1, <2>2, <2>3, PlainTurnOnLights
<1>4. /\ r[1] = "effect" => r[2] \in Int
      /\ r[1] = "brightness" => Position(e, r[2]) \in Int
  <2>1. e.low \subseteq {0, 1} /\ e.high \subseteq {1, Full}
    BY DEF LightsOf
  <2>2. r[1] = "brightness" => r[2] \in Int
    BY LightRequest, CoversAssumption
  <2>. QED
    BY <2>1, <2>2, LightRequest, PositionInt
<1>5. /\ <<"changeTo", Off>> \in CommandsOf(k) /\ <<"plus", 0>> \in CommandsOf(k)
      /\ r[1] = "effect" => <<"changeTo", r[2]>> \in CommandsOf(k)
      /\ r[1] = "brightness" => <<"master", Position(e, r[2])>> \in CommandsOf(k)
  <2>1. 0 \in Int /\ Off \in Int
    BY DEF Off
  <2>. QED
    BY <1>1, <1>4, <2>1
<1>6. CASE r[1] = "on"
  <2>1. LightCommands(e, r) = IF e.on = {TRUE} THEN <<>> ELSE <<PlainTurnOn(e.moodList)>>
    BY <1>6, Zenon DEF LightCommands
  <2>. QED
    BY <1>2, <2>1, OrderOf
<1>7. CASE r[1] = "off"
  <2>1. LightCommands(e, r) = <<<<"changeTo", Off>>>>
    BY <1>7, Zenon DEF LightCommands
  <2>. QED
    BY <1>5, <2>1, OrderOf
<1>8. CASE r[1] = "brightness"
  <2>1. LightCommands(e, r) = <<<<"master", Position(e, r[2])>>>>
    BY <1>8, Zenon DEF LightCommands
  <2>. QED
    BY <1>5, <1>8, <2>1, OrderOf
<1>9. CASE r[1] = "effect"
  <2>1. LightCommands(e, r) \in {<<<<"changeTo", r[2]>>>>, <<<<"plus", 0>>>>}
    BY <1>9, Zenon DEF LightCommands
  <2>. QED
    BY <1>5, <1>9, <2>1, OrderOf
<1>. QED
  BY <1>6, <1>7, <1>8, <1>9, LightRequest

LEMMA LitIs ==
  ASSUME NEW k \in LightKinds, NEW a, DOMAIN a = Streams(k), NEW level, NEW position, NEW moods
  PROVE  LET b == Lit(a, level, position, moods)
         IN /\ DOMAIN b = Streams(k) /\ b["moodList"] = a["moodList"] /\ b["jLocked"] = a["jLocked"]
            /\ b["activeMoods"] = moods
            /\ \A s \in Circuits \cap Streams(k) : b[s] = level
            /\ "master" \in Streams(k) => b["master"] = position
            /\ \A s \in {"min", "max"} \cap Streams(k) : b[s] = a[s]
<1>1. {"activeMoods", "moodList", "jLocked"} \subseteq Streams(k)
  BY LightIs, LightStreamsAre DEF LightKinds
<1>. QED
  BY <1>1 DEF Lit, Circuits

\* The brightest the master can be told to be.
FullOf(a) == IF "max" \in DOMAIN a THEN a["max"] ELSE 1

LEMMA LightExecuted ==
  ASSUME NEW a, NEW c
  PROVE  /\ c[1] = "changeTo" =>
              LightExecutes(a, c) = IF c[2] \in OffMoods THEN Lit(a, 0, 0, {c[2]}) ELSE Lit(a, 1, FullOf(a), {c[2]})
         /\ c[1] = "plus" => LightExecutes(a, c) = Lit(a, 1, FullOf(a), {Evening})
         /\ c[1] = "master" => LightExecutes(a, c) = Lit(a, IF c[2] > 0 THEN 1 ELSE 0, c[2], {})
BY Zenon DEF LightExecutes, FullOf

LEMMA LightExecutesWell == \A k \in LightKinds : ExecutesWell(k)
<1>. SUFFICES ASSUME NEW k \in LightKinds, NEW a, NEW c \in {"changeTo", "plus", "master"} \X Int, Held(k, a)
     PROVE  Held(k, LightExecutes(a, c))
  BY LightIs DEF ExecutesWell
<1>1. DOMAIN a = Streams(k) /\ a["moodList"] \in Seq(Int) /\ HasRange(k, a) /\ a["jLocked"] \in Int
  BY LightRange, LightIs
<1>2. ASSUME NEW level \in Int, NEW position \in Int, NEW moods \in SUBSET Int
      PROVE  Held(k, Lit(a, level, position, moods))
  <2>. DEFINE b == Lit(a, level, position, moods)
  <2>1. /\ DOMAIN b = Streams(k) /\ b["moodList"] \in Seq(Int) /\ b["jLocked"] \in Int
        /\ b["activeMoods"] \in SUBSET Int
        /\ \A s \in Circuits \cap Streams(k) : b[s] \in Int
        /\ "master" \in Streams(k) => b["master"] \in Int
    <3>1. /\ DOMAIN b = Streams(k) /\ b["moodList"] = a["moodList"] /\ b["jLocked"] = a["jLocked"]
          /\ b["activeMoods"] = moods /\ \A s \in Circuits \cap Streams(k) : b[s] = level
          /\ "master" \in Streams(k) => b["master"] = position
      BY <1>1, LitIs
    <3>. HIDE DEF b
    <3>. QED
      BY <1>1, <3>1
  <2>2. HasRange(k, b)
    <3>1. ASSUME k = "MasterLight" PROVE {"min", "max"} \subseteq Streams(k)
      BY <3>1, LightIs, LightStreamsAre
    <3>2. ASSUME k = "MasterLight" PROVE b["min"] = a["min"] /\ b["max"] = a["max"]
      BY <1>1, <3>1, <3>2, LitIs
    <3>. QED
      BY <1>1, <3>2 DEF HasRange
  <2>. HIDE DEF b
  <2>3. \A s \in {"master", "circuit1", "circuit2", "jLocked"} \cap Streams(k) : b[s] \in Int
    BY <2>1 DEF Circuits
  <2>4. Held(k, b)
    BY <2>1, <2>2, <2>3, LightRange
  <2>. QED
    BY <2>4 DEF b
<1>3. c[1] \in {"changeTo", "plus", "master"} /\ c[2] \in Int /\ {c[2]} \in SUBSET Int /\ {Evening} \in SUBSET Int
  BY DEF Evening
<1>4. FullOf(a) \in Int
  <2>1. "max" \in Streams(k) => k = "MasterLight"
    BY LightIs, LightStreamsAre DEF LightKinds
  <2>. QED
    BY <1>1, <2>1, CoversAssumption DEF FullOf, HasRange
<1>5. 0 \in Int /\ 1 \in Int /\ (IF c[2] > 0 THEN 1 ELSE 0) \in Int /\ {} \in SUBSET Int
  OBVIOUS
<1>6. CASE c[1] = "changeTo"
  <2>1. CASE c[2] \in OffMoods
    <3>1. LightExecutes(a, c) = Lit(a, 0, 0, {c[2]})
      BY <1>6, <2>1, LightExecuted, Zenon
    <3>. QED
      BY <1>2, <1>3, <1>5, <3>1, Zenon
  <2>2. CASE c[2] \notin OffMoods
    <3>1. LightExecutes(a, c) = Lit(a, 1, FullOf(a), {c[2]})
      BY <1>6, <2>2, LightExecuted, Zenon
    <3>. QED
      BY <1>2, <1>3, <1>4, <1>5, <3>1, Zenon
  <2>. QED
    BY <2>1, <2>2
<1>7. CASE c[1] = "plus"
  <2>1. LightExecutes(a, c) = Lit(a, 1, FullOf(a), {Evening})
    BY <1>7, LightExecuted, Zenon
  <2>. QED
    BY <1>2, <1>3, <1>4, <1>5, <2>1, Zenon
<1>8. CASE c[1] = "master"
  <2>1. LightExecutes(a, c) = Lit(a, IF c[2] > 0 THEN 1 ELSE 0, c[2], {})
    BY <1>8, LightExecuted, Zenon
  <2>. QED
    BY <1>2, <1>3, <1>5, <2>1, Zenon
<1>. QED
  BY <1>3, <1>6, <1>7, <1>8

LEMMA LightAnswers == \A k \in LightKinds : AnswersWell(k)
<1>. SUFFICES ASSUME NEW k \in LightKinds, NEW e \in EntitiesOf(k), NEW r \in Requests(k), NEW a,
                     Held(k, a), AllSeen(k, e, a),
                     NEW f \in EntitiesOf(k), AllSeen(k, f, Done(k, a, LightCommands(e, r)))
     PROVE  LightShows(f, r) \/ Unscaled(k, f, r)
  BY LightIs DEF AnswersWell, Answered
<1>. DEFINE b == Done(k, a, LightCommands(e, r))
<1>0. {"activeMoods", "moodList", "circuit1"} \subseteq LightStreams(k)
  BY LightStreamsAre DEF LightKinds
<1>1. /\ e.moods = {a["activeMoods"]} /\ e.moodList = a["moodList"]
      /\ \A s \in Circuits \cap LightStreams(k) : e.circuits[s] = {a[s]}
      /\ f.moods = {b["activeMoods"]} /\ f.moodList = b["moodList"]
      /\ \A s \in Circuits \cap LightStreams(k) : f.circuits[s] = {b[s]}
      /\ "master" \in LightStreams(k) =>
           /\ e.master = {a["master"]} /\ f.master = {b["master"]}
           /\ f.rescaled \/ f.level = {Brightness(f, b["master"])}
      /\ \A s \in {"min", "max"} \cap LightStreams(k) :
           /\ s = "min" => e.low = {a["min"]} /\ f.low = {b["min"]}
           /\ s = "max" => e.high = {a["max"]} /\ f.high = {b["max"]}
  BY <1>0, LightIs DEF AllSeen, LightSeen
<1>2. /\ e.on = IsOn(e) /\ f.on = IsOn(f) /\ NoOthers(k, e) /\ NoOthers(k, f)
      /\ DOMAIN a = Streams(k) /\ e.moodList \in Seq(Int)
  BY LightIs, LightRange DEF LightsOf
<1>. HIDE DEF b
<1>3. ASSUME NEW m, LightCommands(e, r) = <<<<"changeTo", m>>>>
      PROVE  f.moods = {{m}} /\ f.on = IF m \in OffMoods THEN {FALSE} ELSE {TRUE}
  <2>1. f.moods = {{m}}
    <3>1. PICK c : c = <<"changeTo", m>>
      OBVIOUS
    <3>2. b = LightExecutes(a, c)
      <4>1. LightCommands(e, r) = <<c>>
        BY <1>3, <3>1
      <4>2. Done(k, a, <<c>>) = LightExecutes(a, c)
        BY DoneOne, LightIs
      <4>. QED
        BY <4>1, <4>2, Zenon DEF b
    <3>3. PICK level, position : LightExecutes(a, c) = Lit(a, level, position, {m})
      <4>1. c[1] = "changeTo" /\ c[2] = m
        BY <3>1
      <4>. QED
        BY <4>1, LightExecuted
    <3>4. b["activeMoods"] = {m}
      BY <1>2, <3>2, <3>3, LitIs
    <3>. QED
      BY <1>1, <3>4, Zenon
  <2>. QED
    BY <1>2, <2>1, MoodDecides
<1>4. ASSUME NEW x, LightCommands(e, r) = <<<<"plus", x>>>> PROVE f.on = {TRUE} /\ f.moodList = e.moodList
  <2>1. f.moods = {{Evening}} /\ f.moodList = e.moodList
    <3>1. PICK c : c = <<"plus", x>>
      OBVIOUS
    <3>2. b = LightExecutes(a, c)
      <4>1. LightCommands(e, r) = <<c>>
        BY <1>4, <3>1
      <4>2. Done(k, a, <<c>>) = LightExecutes(a, c)
        BY DoneOne, LightIs
      <4>. QED
        BY <4>1, <4>2, Zenon DEF b
    <3>3. LightExecutes(a, c) = Lit(a, 1, FullOf(a), {Evening})
      <4>1. c[1] = "plus"
        BY <3>1
      <4>. QED
        BY <4>1, LightExecuted
    <3>4. b["activeMoods"] = {Evening} /\ b["moodList"] = a["moodList"]
      BY <1>2, <3>2, <3>3, LitIs
    <3>. QED
      BY <1>1, <3>4, Zenon
  <2>2. Evening \notin OffMoods
    BY DEF Evening, OffMoods, Off, OtherOff
  <2>. QED
    BY <1>2, <2>1, <2>2, MoodDecides
<1>5. CASE r[1] = "on"
  <2>1. CASE e.on = {TRUE}
    <3>1. LightCommands(e, r) = <<>>
      BY <1>5, <2>1, Zenon DEF LightCommands
    <3>2. b = a
      BY <3>1, DoneNone DEF b
    <3>3. IsOn(f) = IsOn(e)
      <4>1. f.moods = e.moods
        BY <1>1, <3>2, Zenon
      <4>2. f.master = e.master
        BY <1>1, <1>2, <3>2 DEF NoOthers
      <4>3. ASSUME NEW c \in Circuits PROVE f.circuits[c] = e.circuits[c]
        <5>1. CASE c \in LightStreams(k)
          BY <1>1, <3>2, <5>1
        <5>2. CASE c \notin LightStreams(k)
          BY <1>2, <5>2 DEF NoOthers
        <5>. QED
          BY <5>1, <5>2
      <4>. QED
        BY <4>1, <4>2, <4>3, SameLight
    <3>. QED
      BY <1>2, <1>5, <2>1, <3>3, Zenon DEF LightShows
  <2>2. CASE e.on # {TRUE}
    <3>1. LightCommands(e, r) = <<PlainTurnOn(e.moodList)>>
      BY <1>5, <2>2, Zenon DEF LightCommands
    <3>2. f.on = {TRUE}
      BY <1>2, <1>3, <1>4, <3>1, PlainTurnOnLights
    <3>. QED
      BY <1>5, <3>2, Zenon DEF LightShows
  <2>. QED
    BY <2>1, <2>2
<1>6. CASE r[1] = "off"
  <2>1. LightCommands(e, r) = <<<<"changeTo", Off>>>>
    BY <1>6, Zenon DEF LightCommands
  <2>2. f.on = {FALSE}
    BY <1>3, <2>1 DEF OffMoods
  <2>. QED
    BY <1>6, <2>2, Zenon DEF LightShows
<1>7. CASE r[1] = "brightness"
  <2>. DEFINE p == Position(e, r[2])
  <2>1. k = "MasterLight" /\ r[2] \in 1 .. Full /\ {"min", "max", "master"} \subseteq LightStreams(k)
    BY <1>7, LightRequest, LightStreamsAre
  <2>2. a["min"] \in {0, 1} /\ a["max"] \in {1, Full} /\ e.low = {a["min"]} /\ e.high = {a["max"]}
    BY <1>1, <2>1, LightRange DEF HasRange
  <2>3. p \in Int /\ p > 0 /\ (r[2] = Full => p = a["max"])
    BY <2>1, <2>2, PositionIs, PositionInt, CoversAssumption
  <2>4. PICK c : c = <<"master", p>>
    OBVIOUS
  <2>5. LightCommands(e, r) = <<c>>
    BY <1>7, <2>4, Zenon DEF LightCommands
  <2>6. b = Lit(a, 1, p, {})
    <3>1. b = LightExecutes(a, c)
      <4>1. LightCommands(e, r) = <<c>>
        BY <2>5
      <4>2. Done(k, a, <<c>>) = LightExecutes(a, c)
        BY DoneOne, LightIs
      <4>. QED
        BY <4>1, <4>2, Zenon DEF b
    <3>2. c[1] = "master" /\ c[2] = p
      BY <2>4
    <3>3. LightExecutes(a, c) = Lit(a, IF c[2] > 0 THEN 1 ELSE 0, c[2], {})
      BY <3>2, LightExecuted
    <3>. QED
      BY <2>3, <3>1, <3>2, <3>3
  <2>7. /\ b["activeMoods"] = {} /\ b["circuit1"] = 1 /\ b["master"] = p
        /\ b["min"] = a["min"] /\ b["max"] = a["max"]
    <3>1. {"min", "max", "master", "circuit1"} \subseteq Streams(k) /\ "circuit1" \in Circuits
      BY <1>0, <2>1, LightIs DEF Circuits
    <3>. QED
      BY <1>2, <2>6, <3>1, LitIs
  <2>8. f.on = {TRUE}
    <3>1. f.moods = {{}} /\ f.circuits["circuit1"] = {1}
      BY <1>0, <1>1, <2>7 DEF Circuits
    <3>. QED
      BY <1>2, <3>1, CircuitsDecide
  <2>9. f.rescaled \/ (r[2] = Full => f.level = {Full})
    <3>1. f.low = {a["min"]} /\ f.high = {a["max"]} /\ (f.rescaled \/ f.level = {Brightness(f, p)})
      BY <1>1, <2>1, <2>7
    <3>2. Brightness(f, a["max"]) = Full
      BY <2>2, <3>1, Ends
    <3>. QED
      BY <2>3, <3>1, <3>2
  <2>10. CASE f.rescaled
    BY <1>7, <2>10 DEF Unscaled, ScaledKinds
  <2>11. CASE r[2] = Full => f.level = {Full}
    BY <1>7, <2>8, <2>11, Zenon DEF LightShows
  <2>. QED
    BY <2>9, <2>10, <2>11
<1>8. CASE r[1] = "effect"
  <2>1. CASE \E i \in DOMAIN e.moodList : e.moodList[i] = r[2]
    <3>1. LightCommands(e, r) = <<<<"changeTo", r[2]>>>>
      BY <1>8, <2>1, Zenon DEF LightCommands
    <3>2. f.moods = {{r[2]}} /\ f.on = {TRUE}
      <4>1. r[2] \notin OffMoods
        BY <1>8, LightRequest
      <4>. QED
        BY <1>3, <3>1, <4>1
    <3>. QED
      BY <1>8, <3>2, Zenon DEF LightShows
  <2>2. CASE ~\E i \in DOMAIN e.moodList : e.moodList[i] = r[2]
    <3>1. LightCommands(e, r) = <<<<"plus", 0>>>>
      BY <1>8, <2>2, Zenon DEF LightCommands
    <3>2. f.on = {TRUE} /\ f.moodList = e.moodList
      BY <1>4, <3>1
    <3>. QED
      BY <1>8, <2>2, <3>2, Zenon DEF LightShows
  <2>. QED
    BY <2>1, <2>2
<1>. QED
  BY <1>5, <1>6, <1>7, <1>8, LightRequest

LEMMA LightsDisplayWell == \A k \in LightKinds : DisplaysWell(k)
BY LightStarts, LightHandles, LightSends, LightExecutesWell, LightAnswers DEF DisplaysWell

(***************************************************************************)
(* The colour pickers.                                                     *)
(***************************************************************************)
LEMMA ColourIs ==
  ASSUME NEW k, NEW v \in ColoursOf(k)
  PROVE  /\ v[1] \in {"temp", "hsv"} /\ v[2] \in Int /\ v[3] \in Int
         /\ v[1] = "hsv" /\ k # "RgbPicker" => v[3] = 0
<1>1. CASE v = Black
  BY <1>1 DEF Black
<1>2. CASE v \in {"temp", "hsv"} \X Int \X Int /\ k = "RgbPicker"
  BY <1>2
<1>3. CASE v \in {"temp"} \X Int \X Int
  BY <1>3
<1>. QED
  BY <1>1, <1>2, <1>3 DEF ColoursOf

LEMMA ColourIn ==
  ASSUME NEW k, NEW x \in Int, NEW y \in Int
  PROVE  /\ <<"temp", x, y>> \in ColoursOf(k)
         /\ k = "RgbPicker" => <<"hsv", x, y>> \in ColoursOf(k)
BY DEF ColoursOf

LEMMA BlackIn == ASSUME NEW k PROVE Black \in ColoursOf(k)
BY DEF ColoursOf

LEMMA PickerIs ==
  ASSUME NEW k \in PickerKinds
  PROVE  /\ k \in OutputKinds /\ EntitiesOf(k) = Pickers
         /\ PlatformStreams(k) = {"color"} /\ Streams(k) = {"color", "jLocked"}
         /\ CommandsOf(k) = ({"setBrightness"} \X Int) \cup ColoursOf(k)
         /\ \A e, s, v : Seen(k, e, s, v) <=> PickerSeen(k, e, v)
         /\ \A e, s, v : Handled(k, e, s, v) = PickerOn(k, e, v)
         /\ \A e, r : Commands(k, e, r) = PickerCommands(k, e, r)
         /\ \A a, c : Executed(k, a, c) = PickerExecutes(k, a, c)
         /\ \A e, r : Shown(k, e, r) <=> PickerShows(e, r)
<1>1. k \in OutputKinds /\ k # "Dimmer" /\ k \in {"TunableWhite", "RgbPicker"}
  BY DEF OutputKinds, PickerKinds
<1>2. EntitiesOf(k) = Pickers
  BY <1>1 DEF EntitiesOf, IsV2, LightKinds, PickerKinds
<1>3. PlatformStreams(k) = {"color"}
  BY <1>1, OutputFamily DEF OutputStreams
<1>4. Streams(k) = {"color", "jLocked"}
  BY <1>1, <1>3 DEF Streams, HasLock
<1>5. CommandsOf(k) = ({"setBrightness"} \X Int) \cup ColoursOf(k)
  BY <1>1 DEF CommandsOf, CoverKinds, PickerKinds, IsV2, LightKinds
<1>6. \A e, s, v : Seen(k, e, s, v) <=> PickerSeen(k, e, v)
  BY <1>1 DEF Seen, IsV2, LightKinds, PickerKinds
<1>7. \A e, s, v : Handled(k, e, s, v) = PickerOn(k, e, v)
  BY <1>1, OutputFamily DEF OutputOn
<1>8. \A e, r : Commands(k, e, r) = PickerCommands(k, e, r)
  BY <1>1, OutputFamily DEF OutputCommands
<1>9. \A a, c : Executed(k, a, c) = PickerExecutes(k, a, c)
  BY <1>1, OutputFamily DEF OutputExecutes
<1>10. ASSUME NEW e, NEW r PROVE Shown(k, e, r) <=> PickerShows(e, r)
  BY <1>1, OutputFamily DEF OutputShows
<1>. QED
  BY <1>1, <1>2, <1>3, <1>4, <1>5, <1>6, <1>7, <1>8, <1>9, <1>10

LEMMA PickerRange ==
  ASSUME NEW k \in PickerKinds, NEW a
  PROVE  Held(k, a) <=> DOMAIN a = {"color", "jLocked"} /\ a["color"] \in ColoursOf(k) /\ a["jLocked"] \in Int
<1>1. StatesOf(k, "color") = ColoursOf(k) /\ StatesOf(k, "jLocked") = Int
  BY DEF StatesOf
<1>. QED
  BY <1>1, PickerIs, OutputHeld

LEMMA PickerRequest ==
  ASSUME NEW k \in PickerKinds, NEW r \in Requests(k)
  PROVE  /\ r[1] \in {"on", "off", "level", "kelvin"} \/ (k = "RgbPicker" /\ r[1] = "hue")
         /\ r[2] \in Int
<1>1. /\ Requests("TunableWhite") = ({"on", "off"} \X {0}) \cup ({"level"} \X Levels) \cup ({"kelvin"} \X Kelvins)
      /\ Requests("RgbPicker") = ({"on", "off"} \X {0}) \cup ({"level"} \X Levels) \cup ({"kelvin"} \X Kelvins)
                                    \cup ({"hue"} \X Hues)
  BY PickerIs, OutputFamily DEF OutputRequests, PickerKinds
<1>. QED
  BY <1>1, CoversAssumption DEF Levels, Kelvins, Hues, PickerKinds

\* The level a command sets.
LevelOf(c) == IF c[1] = "setBrightness" THEN c[2] ELSE c[3]

\* The colour v a command makes of states a.
Paints(k, a, c, v) ==
  /\ PickerExecutes(k, a, c) = [a EXCEPT !["color"] = v]
  /\ v[3] = LevelOf(c)
  /\ c[1] # "setBrightness" => v[1] = c[1] /\ v[2] = c[2]

LEMMA PickerExecuted ==
  ASSUME NEW k \in PickerKinds, NEW a, DOMAIN a = {"color", "jLocked"}, a["color"] \in ColoursOf(k),
         NEW c \in CommandsOf(k)
  PROVE  \E v \in ColoursOf(k) : Paints(k, a, c, v)
<1>. USE DEF Paints
<1>1. CASE c[1] # "setBrightness"
  <2>1. c \in ColoursOf(k)
    BY <1>1, PickerIs
  <2>2. PickerExecutes(k, a, c) = [a EXCEPT !["color"] = c]
    BY <1>1 DEF PickerExecutes
  <2>3. c[3] = LevelOf(c)
    BY <1>1 DEF LevelOf
  <2>. QED
    BY <2>1, <2>2, <2>3
<1>2. CASE c[1] = "setBrightness"
  <2>. DEFINE old == a["color"]
  <2>1. c[2] \in Int /\ old[1] \in {"temp", "hsv"} /\ old[2] \in Int /\ LevelOf(c) = c[2]
    <3>1. old[1] \in {"temp", "hsv"} /\ old[2] \in Int
      BY ColourIs
    <3>2. c \notin ColoursOf(k)
      BY <1>2, ColourIs
    <3>3. c \in {"setBrightness"} \X Int
      BY <3>2, PickerIs
    <3>. QED
      BY <1>2, <3>1, <3>3 DEF LevelOf
  <2>2. CASE k = "RgbPicker"
    <3>1. PICK v : v = <<old[1], old[2], c[2]>>
      OBVIOUS
    <3>2. v \in ColoursOf(k) /\ v[3] = c[2]
      BY ColourIn, <2>1, <2>2, <3>1
    <3>3. PickerExecutes(k, a, c) = [a EXCEPT !["color"] = v]
      BY <1>2, <2>2, <3>1 DEF PickerExecutes
    <3>. QED
      BY <1>2, <2>1, <3>2, <3>3
  <2>3. CASE k # "RgbPicker" /\ c[2] = 0
    <3>1. PICK v : v = Black
      OBVIOUS
    <3>2. v \in ColoursOf(k) /\ v[3] = c[2]
      BY BlackIn, <2>3, <3>1 DEF Black
    <3>3. PickerExecutes(k, a, c) = [a EXCEPT !["color"] = v]
      BY <1>2, <2>3, <3>1 DEF PickerExecutes
    <3>. QED
      BY <1>2, <2>1, <3>2, <3>3
  <2>4. CASE k # "RgbPicker" /\ c[2] # 0
    <3>0. AtLeast(1, old[2]) \in Int
      BY <2>1 DEF AtLeast
    <3>1. PICK v : v = <<"temp", AtLeast(1, old[2]), c[2]>>
      OBVIOUS
    <3>2. v \in ColoursOf(k) /\ v[3] = c[2]
      BY ColourIn, <2>1, <3>1, <3>0
    <3>3. PickerExecutes(k, a, c) = [a EXCEPT !["color"] = v]
      BY <1>2, <2>4, <3>1 DEF PickerExecutes
    <3>. QED
      BY <1>2, <2>1, <3>2, <3>3
  <2>. QED
    BY <2>2, <2>3, <2>4
<1>. QED
  BY <1>1, <1>2

LEMMA LevelOrIs == ASSUME NEW e \in Pickers PROVE LevelOr(e) \in Int \ {0}
<1>1. e.level \ {0} \subseteq Int \ {0} /\ Full \in Int \ {0}
  BY CoversAssumption DEF Pickers
<1>. QED
  BY <1>1, OrIn DEF LevelOr

\* A command of a picker for request r.
Fits(c, r) ==
  /\ r[1] = "off" => LevelOf(c) = 0
  /\ r[1] = "level" => LevelOf(c) = r[2]
  /\ r[1] \in {"on", "kelvin", "hue"} => LevelOf(c) # 0
  /\ r[1] = "kelvin" => c[1] = "temp" /\ c[2] = r[2]
  /\ r[1] = "hue" => c[1] = "hsv" /\ c[2] = r[2]

LEMMA PickerOrder ==
  ASSUME NEW k \in PickerKinds, NEW e \in Pickers, NEW r \in Requests(k)
  PROVE  \E c \in CommandsOf(k) : PickerCommands(k, e, r) = <<c>> /\ Fits(c, r)
<1>1. LevelOr(e) \in Int \ {0} /\ r[2] \in Int
  BY LevelOrIs, PickerRequest
<1>2. ASSUME NEW c \in CommandsOf(k), PickerCommands(k, e, r) = <<c>>, Fits(c, r)
      PROVE  \E d \in CommandsOf(k) : PickerCommands(k, e, r) = <<d>> /\ Fits(d, r)
  BY <1>2
<1>3. CASE r[1] = "off"
  <2>1. PICK c : c = <<"setBrightness", 0>>
    OBVIOUS
  <2>2. c \in CommandsOf(k) /\ PickerCommands(k, e, r) = <<c>>
    BY <1>3, <2>1, PickerIs DEF PickerCommands
  <2>3. Fits(c, r)
    BY <1>3, <2>1 DEF Fits, LevelOf
  <2>. QED
    BY <2>2, <2>3
<1>4. CASE r[1] # "off" /\ k # "RgbPicker"
  <2>1. PickerCommands(k, e, r) = <<WhiteCommand(e, r)>> /\ r[1] \in {"on", "level", "kelvin"}
    BY <1>4, PickerRequest DEF PickerCommands
  <2>2. CASE r[1] = "on"
    <3>1. PICK c : c = <<"setBrightness", LevelOr(e)>>
      OBVIOUS
    <3>2. c \in CommandsOf(k) /\ PickerCommands(k, e, r) = <<c>>
      BY <1>1, <2>1, <2>2, <3>1, PickerIs DEF WhiteCommand
    <3>3. Fits(c, r)
      BY <1>1, <2>2, <3>1 DEF Fits, LevelOf
    <3>. QED
      BY <3>2, <3>3
  <2>3. CASE r[1] = "level"
    <3>1. Or(e.kelvin, DefaultKelvin) \in Int
      BY OrIn DEF Pickers, DefaultKelvin
    <3>2. PICK c : c = <<"temp", Or(e.kelvin, DefaultKelvin), r[2]>>
      OBVIOUS
    <3>3. c \in CommandsOf(k) /\ PickerCommands(k, e, r) = <<c>>
      BY ColourIn, <1>1, <2>1, <2>3, <3>1, <3>2, PickerIs DEF WhiteCommand
    <3>4. Fits(c, r)
      BY <2>3, <3>2 DEF Fits, LevelOf
    <3>. QED
      BY <3>3, <3>4
  <2>4. CASE r[1] = "kelvin"
    <3>1. PICK c : c = <<"temp", r[2], LevelOr(e)>>
      OBVIOUS
    <3>2. c \in CommandsOf(k) /\ PickerCommands(k, e, r) = <<c>>
      BY ColourIn, <1>1, <2>1, <2>4, <3>1, PickerIs DEF WhiteCommand
    <3>3. Fits(c, r)
      BY <1>1, <2>4, <3>1 DEF Fits, LevelOf
    <3>. QED
      BY <3>2, <3>3
  <2>. QED
    BY <2>1, <2>2, <2>3, <2>4
<1>5. CASE r[1] # "off" /\ k = "RgbPicker"
  <2>1. PickerCommands(k, e, r) = <<RgbCommand(e, r)>> /\ r[1] \in {"on", "level", "kelvin", "hue"}
    BY <1>5, PickerRequest DEF PickerCommands
  <2>. DEFINE level == IF r[1] = "level" THEN r[2] ELSE LevelOr(e)
  <2>2. level \in Int
    BY <1>1
  <2>3. CASE r[1] = "hue"
    <3>1. PICK c : c = <<"hsv", r[2], LevelOr(e)>>
      OBVIOUS
    <3>2. c \in CommandsOf(k) /\ PickerCommands(k, e, r) = <<c>>
      BY ColourIn, <1>1, <1>5, <2>1, <2>3, <3>1, PickerIs DEF RgbCommand
    <3>3. Fits(c, r)
      BY <1>1, <2>3, <3>1 DEF Fits, LevelOf
    <3>. QED
      BY <3>2, <3>3
  <2>4. CASE r[1] = "kelvin"
    <3>1. PICK c : c = <<"temp", r[2], LevelOr(e)>>
      OBVIOUS
    <3>2. c \in CommandsOf(k) /\ PickerCommands(k, e, r) = <<c>>
      BY ColourIn, <1>1, <2>1, <2>4, <3>1, PickerIs DEF RgbCommand
    <3>3. Fits(c, r)
      BY <1>1, <2>4, <3>1 DEF Fits, LevelOf
    <3>. QED
      BY <3>2, <3>3
  <2>5. CASE r[1] \in {"on", "level"}
    <3>1. RgbCommand(e, r) =
            IF e.mode = "hsv" /\ e.hue # {} THEN <<"hsv", Or(e.hue, 0), level>>
            ELSE IF e.mode = "temp" /\ e.kelvin # {} THEN <<"temp", Or(e.kelvin, 0), level>>
            ELSE <<"setBrightness", level>>
      BY <2>5, Zenon DEF RgbCommand
    <3>2. Or(e.hue, 0) \in Int /\ Or(e.kelvin, 0) \in Int
      BY OrIn DEF Pickers
    <3>3. PICK c : c = RgbCommand(e, r)
      OBVIOUS
    <3>4. c \in CommandsOf(k) /\ LevelOf(c) = level
      <4>1. CASE c = <<"hsv", Or(e.hue, 0), level>>
        BY ColourIn, <1>5, <2>2, <3>2, <4>1, PickerIs DEF LevelOf
      <4>2. CASE c = <<"temp", Or(e.kelvin, 0), level>>
        BY ColourIn, <2>2, <3>2, <4>2, PickerIs DEF LevelOf
      <4>3. CASE c = <<"setBrightness", level>>
        BY <2>2, <4>3, PickerIs DEF LevelOf
      <4>. QED
        BY <3>1, <3>3, <4>1, <4>2, <4>3, Zenon
    <3>5. Fits(c, r)
      BY <1>1, <2>5, <3>4 DEF Fits
    <3>. QED
      BY <2>1, <3>3, <3>4, <3>5
  <2>. QED
    BY <2>1, <2>3, <2>4, <2>5 DEF Paints
<1>. QED
  BY <1>3, <1>4, <1>5

LEMMA PickersDisplayWell == \A k \in PickerKinds : DisplaysWell(k)
<1>. SUFFICES ASSUME NEW k \in PickerKinds PROVE DisplaysWell(k)
  OBVIOUS
<1>1. StartsWell(k)
  <2>1. OutputFresh(k) = PickerFresh
    BY PickerIs DEF OutputFresh, PickerKinds
  <2>2. PickerFresh \in Pickers
    BY DEF PickerFresh, Pickers
  <2>. QED
    BY <2>1, <2>2, PickerIs, OutputFamily DEF StartsWell
<1>2. HandlesWell(k)
  <2>1. ASSUME NEW e \in Pickers, NEW v \in ColoursOf(k)
        PROVE  PickerOn(k, e, v) \in Pickers /\ PickerSeen(k, PickerOn(k, e, v), v)
    <3>1. v[1] \in {"temp", "hsv"} /\ v[2] \in Int /\ v[3] \in Int
      BY ColourIs
    <3>2. PickerOn(k, e, v) \in Pickers
      BY <3>1, Zenon DEF PickerOn, Pickers
    <3>3. PickerSeen(k, PickerOn(k, e, v), v)
      BY <3>1, Zenon DEF PickerOn, Pickers, PickerSeen
    <3>. QED
      BY <3>2, <3>3
  <2>2. StatesOf(k, "color") = ColoursOf(k)
    BY DEF StatesOf
  <2>. QED
    BY <2>1, <2>2, PickerIs DEF HandlesWell
<1>3. SendsWell(k)
  <2>1. ASSUME NEW e \in Pickers, NEW r \in Requests(k) PROVE PickerCommands(k, e, r) \in Orders(k)
    <3>1. PICK c \in CommandsOf(k) : PickerCommands(k, e, r) = <<c>>
      BY PickerOrder, Zenon
    <3>. QED
      BY <3>1, OrderOf
  <2>. QED
    BY <2>1, PickerIs DEF SendsWell
<1>4. ASSUME NEW a, NEW c \in CommandsOf(k), Held(k, a) PROVE Held(k, PickerExecutes(k, a, c))
  <2>1. DOMAIN a = {"color", "jLocked"} /\ a["color"] \in ColoursOf(k) /\ a["jLocked"] \in Int
    BY <1>4, PickerRange
  <2>2. PICK v \in ColoursOf(k) : Paints(k, a, c, v)
    BY <2>1, PickerExecuted
  <2>. QED
    BY <2>1, <2>2, PickerRange DEF Paints
<1>5. ExecutesWell(k)
  BY <1>4, PickerIs DEF ExecutesWell
<1>6. AnswersWell(k)
  <2>. SUFFICES ASSUME NEW e \in Pickers, NEW r \in Requests(k), NEW a, Held(k, a),
                       NEW f, AllSeen(k, f, Done(k, a, PickerCommands(k, e, r)))
       PROVE  PickerShows(f, r)
    BY PickerIs DEF AnswersWell, Answered
  <2>. DEFINE b == Done(k, a, PickerCommands(k, e, r))
  <2>1. PickerSeen(k, f, b["color"])
    BY PickerIs DEF AllSeen
  <2>2. PICK c \in CommandsOf(k) : PickerCommands(k, e, r) = <<c>> /\ Fits(c, r)
    BY PickerOrder, Zenon
  <2>3. b = PickerExecutes(k, a, c)
    <3>1. b = Executed(k, a, c)
      BY <2>2, DoneOne, Zenon
    <3>. QED
      BY <3>1, PickerIs
  <2>4. DOMAIN a = {"color", "jLocked"} /\ a["color"] \in ColoursOf(k)
    BY PickerRange
  <2>5. PICK v \in ColoursOf(k) : Paints(k, a, c, v)
    BY <2>4, PickerExecuted
  <2>6. PickerSeen(k, f, v)
    BY <2>1, <2>3, <2>4, <2>5 DEF Paints
  <2>7. /\ r[1] = "off" => v[3] = 0
        /\ r[1] = "level" => v[3] = r[2]
        /\ r[1] \in {"on", "kelvin", "hue"} => v[3] # 0
        /\ r[1] = "kelvin" => v[1] = "temp" /\ v[2] = r[2]
        /\ r[1] = "hue" => v[1] = "hsv" /\ v[2] = r[2]
    BY <2>2, <2>5 DEF Fits, Paints
  <2>8. /\ f.level = {v[3]}
        /\ v[1] = "temp" => f.mode = "temp" /\ f.kelvin = {v[2]}
        /\ v[1] = "hsv" /\ k = "RgbPicker" => f.mode = "hsv" /\ f.hue = {v[2]}
    BY <2>6 DEF PickerSeen
  <2>9. v[3] # 0 => f.level \ {0} # {}
    BY <2>8
  <2>. QED
    BY <2>7, <2>8, <2>9, PickerRequest, Zenon DEF PickerShows
<1>. QED
  BY <1>1, <1>2, <1>3, <1>5, <1>6 DEF DisplaysWell

(***************************************************************************)
(* Every kind.                                                             *)
(***************************************************************************)
LEMMA KindsDisplayWell == \A k \in DisplayKinds : DisplaysWell(k)
<1>1. OutputKinds = PickerKinds \cup {"Dimmer", "Fan", "Zone", "Radio", "ValueSelector"}
  BY DEF OutputKinds
<1>2. SwitchKinds = PlainSwitches \cup {"Alarm"}
  BY DEF SwitchKinds, PlainSwitches
<1>3. ASSUME NEW k \in OutputKinds PROVE DisplaysWell(k)
  BY <1>1, <1>3, PickersDisplayWell, DimmerDisplaysWell, FanDisplaysWell, ZoneDisplaysWell, RadioDisplaysWell,
     SelectorDisplaysWell
<1>4. ASSUME NEW k \in SwitchKinds PROVE DisplaysWell(k)
  BY <1>2, <1>4, SwitchesDisplayWell, AlarmDisplaysWell
<1>. QED
  BY <1>3, <1>4, CoversDisplayWell, ClimatesDisplayWell, LightsDisplayWell DEF DisplayKinds

\* The values a state can be changed to are states, and there is a first one.
ValuesWell(k) ==
  \A s \in Streams(k) :
    Values(k, s) \subseteq StatesOf(k, s) /\ \E v \in Values(k, s) : s = "overrideReason" => v = 0

LEMMA LockValues == ASSUME NEW k PROVE Values(k, "jLocked") = {0, 1} /\ StatesOf(k, "jLocked") = Int
BY DEF Values, StatesOf

LEMMA CoverValuesWell == \A k \in CoverKinds : ValuesWell(k)
<1>. SUFFICES ASSUME NEW k \in CoverKinds, NEW s \in Streams(k), s # "jLocked"
     PROVE  Values(k, s) \subseteq StatesOf(k, s) /\ \E v \in Values(k, s) : s = "overrideReason" => v = 0
  BY LockValues DEF ValuesWell
<1>1. s \in {"position", "active", "direction", "targetPosition", "shadePosition", "up", "down", "autoActive"}
  BY GateIs, WindowIs, JalousieIs DEF Streams, CoverKinds
<1>2. StatesOf(k, s) = Int
  BY <1>1 DEF StatesOf, CoverKinds
<1>3. CoverValues(s) \subseteq Int /\ 0 \in CoverValues(s)
  BY <1>1, CoversAssumption DEF CoverValues, Positions
<1>. QED
  BY <1>1, <1>2, <1>3, CoverFamily

LEMMA ClimateValuesWell == \A k \in ClimateKinds : ValuesWell(k)
<1>. SUFFICES ASSUME NEW k \in ClimateKinds, NEW s \in Streams(k), s # "jLocked"
     PROVE  Values(k, s) \subseteq StatesOf(k, s) /\ \E v \in Values(k, s) : s = "overrideReason" => v = 0
  BY LockValues DEF ValuesWell
<1>1. s \in {"operatingMode", "activeMode", "overrideReason", "setpoints", "tempTarget", "mode", "serviceMode",
             "status", "targetTemperature"}
  BY ClimateFamily DEF Streams, ClimateStreams, ClimateKinds, IsV2
<1>2. Values(k, s) = ClimateValues(k, s)
  BY ClimateFamily
<1>3. CASE s \in {"operatingMode", "activeMode", "overrideReason"}
  <2>1. StatesOf(k, s) = Values(k, s)
    BY <1>3 DEF StatesOf
  <2>2. 0 \in ClimateValues(k, s)
    BY <1>3 DEF ClimateValues
  <2>. QED
    BY <1>2, <2>1, <2>2
<1>4. CASE s = "setpoints"
  <2>1. PICK p : p = [comfort |-> 42, comfortCool |-> 50, frostProtect |-> 14, heatProtect |-> 70,
                      absentMin |-> 4, absentMax |-> 4]
    OBVIOUS
  <2>2. p \in SetPoints
    BY <2>1 DEF SetPoints
  <2>3. ClimateValues(k, s) = {p}
    BY <1>4, <2>1 DEF ClimateValues
  <2>4. StatesOf(k, s) = SetPoints
    BY <1>4 DEF StatesOf
  <2>. QED
    BY <1>2, <1>4, <2>2, <2>3, <2>4
<1>5. CASE s \in {"tempTarget", "targetTemperature", "mode", "serviceMode", "status"}
  <2>1. StatesOf(k, s) = Int
    BY <1>5 DEF StatesOf, ClimateKinds
  <2>2. ClimateValues(k, s) \subseteq Int /\ ClimateValues(k, s) # {}
    BY <1>5, ClimatesAssumption DEF ClimateValues
  <2>. QED
    BY <1>2, <1>5, <2>1, <2>2
<1>. QED
  BY <1>1, <1>3, <1>4, <1>5

LEMMA LightValuesWell == \A k \in LightKinds : ValuesWell(k)
<1>. SUFFICES ASSUME NEW k \in LightKinds, NEW s \in Streams(k), s # "jLocked"
     PROVE  Values(k, s) \subseteq StatesOf(k, s) /\ \E v \in Values(k, s) : s = "overrideReason" => v = 0
  BY LockValues DEF ValuesWell
<1>1. Values(k, s) = LightValues(s)
  BY LightFamily
<1>2. CASE s = "activeMoods"
  <2>1. LightValues(s) = {{Evening}, {AllOn}, {Off}, {OtherOff}, {Off, Evening}, {}}
    BY <1>2, Zenon DEF LightValues
  <2>2. {Evening, AllOn, Off, OtherOff} \subseteq Int
    BY DEF Evening, AllOn, Off, OtherOff
  <2>3. ASSUME NEW v \in LightValues(s) PROVE v \in SUBSET Int
    BY <2>1, <2>2
  <2>4. {} \in LightValues(s)
    BY <2>1, Zenon
  <2>. QED
    BY <1>1, <1>2, <2>3, <2>4, LightStatesOf
<1>3. CASE s = "moodList"
  <2>1. <<OtherOff, Evening, AllOn>> \in Seq(Int) /\ <<OtherOff, Evening>> \in Seq(Int) /\ <<OtherOff>> \in Seq(Int)
    BY DEF Evening, AllOn, OtherOff
  <2>2. LightValues(s) = {<<OtherOff, Evening, AllOn>>, <<OtherOff, Evening>>, <<OtherOff>>}
    BY <1>3, Zenon DEF LightValues
  <2>3. ASSUME NEW v \in LightValues(s) PROVE v \in Seq(Int)
    BY <2>1, <2>2, Zenon
  <2>4. <<OtherOff>> \in LightValues(s)
    BY <2>2, Zenon
  <2>. QED
    BY <1>1, <1>3, <2>3, <2>4, LightStatesOf
<1>4. CASE s \in {"min", "max"}
  BY <1>1, <1>4, LightStatesOf DEF LightValues
<1>5. CASE s \in {"master", "circuit1", "circuit2"}
  <2>1. LightValues(s) \subseteq Int /\ 0 \in LightValues(s)
    BY <1>5, CoversAssumption DEF LightValues, Positions
  <2>. QED
    BY <1>1, <1>5, <2>1, LightStatesOf
<1>. QED
  BY <1>2, <1>3, <1>4, <1>5, LightIs, LightStreamsAre DEF LightKinds

LEMMA OutputValuesWell == \A k \in OutputKinds : ValuesWell(k)
<1>. SUFFICES ASSUME NEW k \in OutputKinds, NEW s \in Streams(k), s # "jLocked"
     PROVE  Values(k, s) \subseteq StatesOf(k, s) /\ \E v \in Values(k, s) : s = "overrideReason" => v = 0
  BY LockValues DEF ValuesWell
<1>1. Values(k, s) = OutputValues(k, s)
  BY OutputFamily
<1>2. s \in OutputStreams(k)
  BY OutputFamily DEF Streams
<1>3. /\ s \in {"min", "max", "position", "color", "mode", "speed", "playState", "active", "mute", "volume", "source",
                "sourceList", "metadata", "activeOutput", "value"}
      /\ s = "mode" => k = "Fan"
      /\ s = "color" => k \in PickerKinds
  BY <1>2 DEF OutputStreams, OutputKinds, PickerKinds
<1>4. CASE s \in {"min", "max"}
  <2>1. StatesOf(k, s) = Values(k, s) /\ OutputValues(k, s) # {}
    BY <1>4 DEF StatesOf, OutputValues
  <2>. QED
    BY <1>1, <1>4, <2>1
<1>5. CASE s = "color"
  <2>1. StatesOf(k, s) = ColoursOf(k) /\ k \in PickerKinds
    BY <1>3, <1>5 DEF StatesOf
  <2>2. Black \in ColoursOf(k) /\ Black \in OutputValues(k, s)
    BY BlackIn, <1>5, <2>1 DEF OutputValues
  <2>3. /\ ({"temp"} \X Kelvins \X Levels) \subseteq ColoursOf(k)
        /\ k = "RgbPicker" => ({"hsv"} \X Hues \X Positions) \subseteq ColoursOf(k)
    <3>1. Kelvins \subseteq Int /\ Levels \subseteq Int /\ Hues \subseteq Int /\ Positions \subseteq Int
      BY CoversAssumption DEF Kelvins, Levels, Hues, Positions
    <3>2. /\ ({"temp"} \X Kelvins \X Levels) \subseteq {"temp"} \X Int \X Int
          /\ ({"hsv"} \X Hues \X Positions) \subseteq {"hsv"} \X Int \X Int
      BY <3>1
    <3>3. /\ ({"temp"} \X Int \X Int) \subseteq ColoursOf(k)
          /\ k = "RgbPicker" => ({"hsv"} \X Int \X Int) \subseteq ColoursOf(k)
      BY DEF ColoursOf
    <3>. QED
      BY <3>2, <3>3
  <2>4. OutputValues(k, s) \subseteq ColoursOf(k)
    BY <1>5, <2>2, <2>3 DEF OutputValues
  <2>. QED
    BY <1>1, <1>5, <2>1, <2>2, <2>4
<1>6. CASE s = "mode"
  BY <1>1, <1>3, <1>6 DEF StatesOf, OutputValues
<1>7. CASE s = "sourceList"
  BY <1>1, <1>7 DEF StatesOf, OutputValues
<1>8. CASE s \in {"position", "speed", "playState", "active", "mute", "volume", "source", "metadata", "activeOutput",
                "value"}
  <2>1. StatesOf(k, s) = Int
    BY <1>8 DEF StatesOf
  <2>2. OutputValues(k, s) \subseteq Int /\ OutputValues(k, s) # {}
    BY <1>8, CoversAssumption DEF OutputValues, Positions, Options, Untitled
  <2>. QED
    BY <1>1, <1>8, <2>1, <2>2
<1>. QED
  BY <1>3, <1>4, <1>5, <1>6, <1>7, <1>8

LEMMA SwitchValuesWell == \A k \in SwitchKinds : ValuesWell(k)
<1>. SUFFICES ASSUME NEW k \in SwitchKinds, NEW s \in Streams(k), s # "jLocked"
     PROVE  Values(k, s) \subseteq StatesOf(k, s) /\ \E v \in Values(k, s) : s = "overrideReason" => v = 0
  BY LockValues DEF ValuesWell
<1>1. Values(k, s) = SwitchValues(s) /\ s \in SwitchStreams(k)
  BY SwitchFamily DEF Streams
<1>2. s \in SwitchStates
  BY <1>1 DEF SwitchStreams, SwitchStates, SwitchKinds, OptimisticKinds
<1>3. StatesOf(k, s) = Int /\ s # "overrideReason"
  BY <1>2 DEF StatesOf, SwitchStates, SwitchKinds, OptimisticKinds
<1>4. SwitchValues(s) \subseteq Int /\ SwitchValues(s) # {}
  BY DEF SwitchValues
<1>. QED
  BY <1>1, <1>3, <1>4

LEMMA KindsHaveValues == \A k \in DisplayKinds : ValuesWell(k)
BY CoverValuesWell, ClimateValuesWell, LightValuesWell, OutputValuesWell, SwitchValuesWell DEF DisplayKinds

(***************************************************************************)
(* Switches and colour pickers, which show what they were told.            *)
(***************************************************************************)
FlippedTo(k, e, r) ==
  IF k \in SwitchKinds THEN Flipped(k, e, r, Commands(k, e, r))
  ELSE IF k \in PickerKinds THEN PickerFlipped(k, e, r) ELSE e

\* An entity that has seen a state still has when it was told of it what it knew.
FlipsWell(k) ==
  \A e \in EntitiesOf(k), r \in Requests(k) :
    /\ FlippedTo(k, e, r) \in EntitiesOf(k)
    /\ ~Flips(k) => FlippedTo(k, e, r) = e
    /\ \A a : Held(k, a) /\ (\A i \in DOMAIN Commands(k, e, r) : NoEffect(k, a, Commands(k, e, r)[i])) =>
         \A s \in PlatformStreams(k) : Seen(k, e, s, a[s]) => Seen(k, FlippedTo(k, e, r), s, a[s])

\* What is shown and what a command does to it depend on one state.
OneState(k) ==
  /\ MainStream(k) \in PlatformStreams(k)
  /\ \A s \in PlatformStreams(k) : s # MainStream(k) => \A e, v : Seen(k, e, s, v)
  /\ \A a, b : \A c \in CommandsOf(k) :
       Held(k, a) /\ Held(k, b) /\ a[MainStream(k)] = b[MainStream(k)] /\ NoEffect(k, a, c) => NoEffect(k, b, c)

LEMMA SwitchOneState == \A k \in OptimisticKinds : OneState(k)
<1>. SUFFICES ASSUME NEW k \in OptimisticKinds PROVE OneState(k)
  OBVIOUS
<1>1. k \in PlainSwitches /\ ShownStream(k) = MainStream(k)
  BY DEF PlainSwitches, ShownStream, OptimisticKinds
<1>2. MainStream(k) \in PlatformStreams(k) /\ MainStream(k) # "deactivationDelayTotal"
  BY <1>1, SwitchIs
<1>3. ASSUME NEW s \in PlatformStreams(k), s # MainStream(k), NEW e, NEW v PROVE Seen(k, e, s, v)
  BY <1>1, <1>3, SwitchIs DEF SwitchSeen
<1>4. ASSUME NEW a, NEW c \in CommandsOf(k), Held(k, a)
      PROVE  Executed(k, a, c)[MainStream(k)] = Sets(c)
  <2>1. MainStream(k) \in DOMAIN a
    BY <1>2, <1>4 DEF Held, Streams
  <2>2. Executed(k, a, c) = [a EXCEPT ![MainStream(k)] = Sets(c)]
    BY <1>1, SwitchExecuted, SwitchIs, SwitchFamily
  <2>. QED
    BY <2>1, <2>2
<1>5. ASSUME NEW a, NEW b, NEW c \in CommandsOf(k), Held(k, a), Held(k, b),
             a[MainStream(k)] = b[MainStream(k)], NoEffect(k, a, c)
      PROVE  NoEffect(k, b, c)
  BY <1>4, <1>5 DEF NoEffect
<1>. QED
  BY <1>2, <1>3, <1>5 DEF OneState

LEMMA PickerOneState == \A k \in PickerKinds : OneState(k)
<1>. SUFFICES ASSUME NEW k \in PickerKinds PROVE OneState(k)
  OBVIOUS
<1>1. MainStream(k) = "color"
  BY DEF MainStream, PickerKinds
<1>2. ASSUME NEW a, NEW b, NEW c \in CommandsOf(k), Held(k, a), Held(k, b), a["color"] = b["color"],
             NoEffect(k, a, c)
      PROVE  NoEffect(k, b, c)
  <2>1. "color" \in DOMAIN a /\ "color" \in DOMAIN b
    BY <1>2, PickerRange
  <2>2. PickerExecutes(k, a, c)["color"] = PickerExecutes(k, b, c)["color"]
    BY <1>2, <2>1, Zenon DEF PickerExecutes
  <2>. QED
    BY <1>1, <1>2, <2>2, PickerIs DEF NoEffect
<1>. QED
  BY <1>1, <1>2, PickerIs DEF OneState

LEMMA FlipsOneState == \A k : Flips(k) => OneState(k)
BY SwitchOneState, PickerOneState DEF Flips

\* A command leaves the lock of a colour picker alone.
LEMMA PickerKeepsLock ==
  ASSUME NEW k \in PickerKinds, NEW a, Held(k, a), NEW c \in CommandsOf(k)
  PROVE  Executed(k, a, c)["jLocked"] = a["jLocked"]
<1>1. DOMAIN a = {"color", "jLocked"} /\ a["color"] \in ColoursOf(k)
  BY PickerRange
<1>2. PICK v \in ColoursOf(k) : Paints(k, a, c, v)
  BY <1>1, PickerExecuted
<1>. QED
  BY <1>1, <1>2, PickerIs DEF Paints

LEMMA SwitchesFlipWell == \A k \in OptimisticKinds : FlipsWell(k)
<1>. SUFFICES ASSUME NEW k \in OptimisticKinds PROVE FlipsWell(k)
  OBVIOUS
<1>1. /\ k \in PlainSwitches /\ ShownStream(k) = MainStream(k)
      /\ EntitiesOf(k) = Switched /\ Flips(k)
  BY SwitchIs DEF PlainSwitches, ShownStream, OptimisticKinds, Flips
<1>2. MainStream(k) \in PlatformStreams(k) /\ MainStream(k) # "deactivationDelayTotal"
  BY <1>1, SwitchIs
<1>. SUFFICES ASSUME NEW e \in Switched, NEW r \in Requests(k)
     PROVE  /\ FlippedTo(k, e, r) \in Switched
            /\ \A a : Held(k, a) /\ (\A i \in DOMAIN Commands(k, e, r) : NoEffect(k, a, Commands(k, e, r)[i])) =>
                 \A s \in PlatformStreams(k) : Seen(k, e, s, a[s]) => Seen(k, FlippedTo(k, e, r), s, a[s])
  BY <1>1 DEF FlipsWell
<1>. DEFINE q == Commands(k, e, r)
            f == FlippedTo(k, e, r)
<1>3. q = SwitchCommands(k, e, r) /\ f = IF q # <<>> THEN [e EXCEPT !.on = {r[1] = "on"}] ELSE e
  <2>1. k \in SwitchKinds /\ k # "Alarm"
    BY <1>1, SwitchIs
  <2>2. q = SwitchCommands(k, e, r)
    BY <2>1, SwitchFamily DEF SwitchAsks
  <2>. QED
    BY <2>1, <2>2, Zenon DEF FlippedTo, Flipped
<1>4. CASE q = <<>>
  BY <1>3, <1>4
<1>5. CASE q # <<>>
  <2>1. f = [e EXCEPT !.on = {r[1] = "on"}]
    BY <1>3, <1>5
  <2>2. f \in Switched
    <3>1. {r[1] = "on"} \in SUBSET BOOLEAN
      OBVIOUS
    <3>. QED
      BY <2>1, <3>1 DEF Switched
  <2>3. ASSUME NEW a, Held(k, a), \A i \in DOMAIN q : NoEffect(k, a, q[i]), NEW s \in PlatformStreams(k),
               Seen(k, e, s, a[s])
        PROVE  Seen(k, f, s, a[s])
    <3>1. PICK c \in CommandsOf(k) : q = <<c>> /\ Sets(c) \in {0, 1} /\ (Sets(c) = 1 <=> r[1] = "on")
      <4>1. \E c \in CommandsOf(k) : /\ SwitchCommands(k, e, r) = <<c>>
                                     /\ Sets(c) \in {0, 1} /\ (Sets(c) = 1 <=> r[1] = "on")
        <5>1. SwitchCommands(k, e, r) # <<>>
          BY <1>3, <1>5
        <5>. QED
          BY <1>1, <5>1, SwitchOrder, Zenon
      <4>. QED
        BY <1>3, <4>1
    <3>2. NoEffect(k, a, c)
      <4>1. 1 \in DOMAIN q /\ q[1] = c
        BY <3>1
      <4>. QED
        BY <2>3, <4>1, Zenon
    <3>3. a[MainStream(k)] = Sets(c)
      <4>1. MainStream(k) \in DOMAIN a
        BY <1>2, <2>3 DEF Held, Streams
      <4>2. Executed(k, a, c) = [a EXCEPT ![MainStream(k)] = Sets(c)]
        BY <1>1, SwitchExecuted, SwitchIs, SwitchFamily
      <4>. QED
        BY <3>2, <4>1, <4>2 DEF NoEffect
    <3>4. f.on = {r[1] = "on"}
      BY <2>1, Zenon DEF Switched
    <3>5. (r[1] = "on") = (a[MainStream(k)] # 0)
      BY <3>1, <3>3
    <3>6. s = MainStream(k) => SwitchSeen(f, s, a[s])
      <4>1. s = MainStream(k) => e.available
        BY <1>1, <1>2, <2>3, SwitchIs, Zenon DEF SwitchSeen
      <4>2. f.available = e.available
        BY <2>1, Zenon DEF Switched
      <4>. QED
        BY <3>4, <3>5, <4>1, <4>2, Zenon DEF SwitchSeen
    <3>. QED
      BY <1>1, <3>6, SwitchIs DEF SwitchSeen
  <2>. QED
    BY <2>2, <2>3
<1>. QED
  BY <1>4, <1>5

LEMMA PickersFlipWell == \A k \in PickerKinds : FlipsWell(k)
<1>. SUFFICES ASSUME NEW k \in PickerKinds PROVE FlipsWell(k)
  OBVIOUS
<1>1. k \notin SwitchKinds /\ Flips(k) /\ EntitiesOf(k) = Pickers /\ MainStream(k) = "color"
  BY PickerIs, Families DEF Flips, DisplayKinds, MainStream, PickerKinds
<1>. SUFFICES ASSUME NEW e \in Pickers, NEW r \in Requests(k)
     PROVE  /\ PickerFlipped(k, e, r) \in Pickers
            /\ \A a : /\ Held(k, a) /\ PickerSeen(k, e, a["color"])
                      /\ \A i \in DOMAIN Commands(k, e, r) : NoEffect(k, a, Commands(k, e, r)[i])
                      => PickerSeen(k, PickerFlipped(k, e, r), a["color"])
  <2>1. \A x, y : FlippedTo(k, x, y) = PickerFlipped(k, x, y)
    BY <1>1 DEF FlippedTo
  <2>. QED
    BY <1>1, <2>1, PickerIs DEF FlipsWell
<1>2. r[2] \in Int /\ (r[1] \in {"on", "off", "level", "kelvin"} \/ (k = "RgbPicker" /\ r[1] = "hue"))
  BY PickerRequest
<1>3. PickerFlipped(k, e, r) \in Pickers
  BY <1>2, Zenon DEF PickerFlipped, Pickers
<1>4. ASSUME NEW a, Held(k, a), \A i \in DOMAIN Commands(k, e, r) : NoEffect(k, a, Commands(k, e, r)[i]),
             PickerSeen(k, e, a["color"])
      PROVE  PickerSeen(k, PickerFlipped(k, e, r), a["color"])
  <2>1. PICK c \in CommandsOf(k) : PickerCommands(k, e, r) = <<c>> /\ Fits(c, r)
    BY PickerOrder, Zenon
  <2>2. NoEffect(k, a, c)
    <3>1. Commands(k, e, r) = <<c>>
      BY <2>1, PickerIs
    <3>2. 1 \in DOMAIN Commands(k, e, r) /\ Commands(k, e, r)[1] = c
      BY <3>1
    <3>. QED
      BY <1>4, <3>2, Zenon
  <2>3. DOMAIN a = {"color", "jLocked"} /\ a["color"] \in ColoursOf(k)
    BY <1>4, PickerRange
  <2>4. PICK v \in ColoursOf(k) : Paints(k, a, c, v)
    BY <2>3, PickerExecuted
  <2>5. a["color"] = v
    <3>1. PickerExecutes(k, a, c)["color"] = a["color"]
      BY <1>1, <2>2, PickerIs DEF NoEffect
    <3>. QED
      BY <2>3, <2>4, <3>1 DEF Paints
  <2>6. /\ r[1] = "level" => v[3] = r[2]
        /\ r[1] = "kelvin" => v[1] = "temp" /\ v[2] = r[2]
        /\ r[1] = "hue" => v[1] = "hsv" /\ v[2] = r[2]
    BY <2>1, <2>4 DEF Fits, Paints
  <2>7. /\ e.level = {v[3]}
        /\ v[1] = "temp" => e.mode = "temp" /\ e.kelvin = {v[2]}
        /\ v[1] = "hsv" /\ k = "RgbPicker" => e.mode = "hsv" /\ e.hue = {v[2]}
    BY <1>4, <2>5 DEF PickerSeen
  <2>9. e.available
    BY <1>4 DEF PickerSeen
  <2>8. PickerSeen(k, PickerFlipped(k, e, r), v)
    BY <1>2, <2>6, <2>7, <2>9, Zenon DEF PickerSeen, PickerFlipped, Pickers
  <2>. QED
    BY <2>5, <2>8
<1>. QED
  BY <1>3, <1>4

LEMMA KindsFlipWell == \A k \in DisplayKinds : FlipsWell(k)
<1>1. ASSUME NEW k \in DisplayKinds, ~Flips(k) PROVE FlipsWell(k)
  <2>1. k \notin OptimisticKinds /\ k \notin PickerKinds
    BY <1>1 DEF Flips
  <2>2. \A e, r : FlippedTo(k, e, r) = e
    BY <2>1, Zenon DEF FlippedTo, Flipped
  <2>. QED
    BY <2>2 DEF FlipsWell
<1>. QED
  BY <1>1, SwitchesFlipWell, PickersFlipWell DEF Flips

(***************************************************************************)
(* What is shown of the same states.                                       *)
(***************************************************************************)
\* What is compared of an entity that has seen the states a: not a level that is to be
\* hidden, nor the title there was before the metadata had none.
LevelHidden(e, hidden) == [e EXCEPT !.level = IF hidden THEN {} ELSE @, !.rescaled = FALSE]
TitleHidden(e, a) == [e EXCEPT !.title = IF a["metadata"] = Untitled THEN {} ELSE @]

Presented(k, e, a, hidden) ==
  CASE k \in ScaledKinds -> LevelHidden(e, hidden)
    [] k = "Zone"        -> TitleHidden(e, a)
    [] k \in PickerKinds -> PickerDisplay(e)
    [] OTHER             -> e

\* Two entities that have seen the same states look the same; a level that is on
\* another scale is hidden.
ShowsWell(k) ==
  \A e, f \in EntitiesOf(k) : \A a, hidden :
    /\ Held(k, a) /\ AllSeen(k, e, a) /\ AllSeen(k, f, a)
    /\ k \in ScaledKinds /\ ~hidden => ~e.rescaled /\ ~f.rescaled
    => Presented(k, e, a, hidden) = Presented(k, f, a, hidden)

LEMMA SameEntity ==
  ASSUME NEW k, k \notin PickerKinds, k \notin ScaledKinds, k # "Zone",
         \A e, f \in EntitiesOf(k) : \A a : Held(k, a) /\ AllSeen(k, e, a) /\ AllSeen(k, f, a) => e = f
  PROVE  ShowsWell(k)
BY Zenon DEF ShowsWell, Presented

\* The same up to the level, and that one too unless it is hidden.
LEMMA SameLevel ==
  ASSUME NEW k \in ScaledKinds, NEW T, NEW e \in T, NEW f \in T, NEW a, NEW hidden,
         [e EXCEPT !.level = {}, !.rescaled = FALSE] = [f EXCEPT !.level = {}, !.rescaled = FALSE],
         ~hidden => e = f
  PROVE  Presented(k, e, a, hidden) = Presented(k, f, a, hidden)
<1>1. CASE hidden
  <2>1. ASSUME NEW d PROVE Presented(k, d, a, hidden) = [d EXCEPT !.level = {}, !.rescaled = FALSE]
    <3>1. Presented(k, d, a, hidden) = LevelHidden(d, hidden)
      <4>1. k # "Zone" /\ k \notin PickerKinds
        BY DEF ScaledKinds, LightKinds, PickerKinds
      <4>. QED
        BY <4>1, Zenon DEF Presented
    <3>2. LevelHidden(d, hidden) = [d EXCEPT !.level = {}, !.rescaled = FALSE]
      BY <1>1, Zenon DEF LevelHidden
    <3>. QED
      BY <3>1, <3>2, Zenon
  <2>2. Presented(k, e, a, hidden) = [e EXCEPT !.level = {}, !.rescaled = FALSE]
    BY <2>1, Zenon
  <2>3. Presented(k, f, a, hidden) = [f EXCEPT !.level = {}, !.rescaled = FALSE]
    BY <2>1, Zenon
  <2>. QED
    BY <2>2, <2>3, Zenon
<1>2. CASE ~hidden
  BY <1>2, Zenon
<1>. QED
  BY <1>1, <1>2

LEMMA CoversShowWell == \A k \in CoverKinds : ShowsWell(k)
<1>1. ASSUME NEW e \in Gates, NEW f \in Gates, NEW a, AllSeen("Gate", e, a), AllSeen("Gate", f, a) PROVE e = f
  <2>1. ASSUME NEW d, AllSeen("Gate", d, a)
        PROVE  d.position = {a["position"]} /\ (d.closed <=> a["position"] = 0) /\ d.direction = a["active"]
    BY <2>1, GateIs DEF AllSeen, GateSeen
  <2>. QED
    BY <1>1, <2>1 DEF Gates
<1>2. ASSUME NEW e \in Windows, NEW f \in Windows, NEW a, AllSeen("Window", e, a), AllSeen("Window", f, a) PROVE e = f
  <2>1. ASSUME NEW d, AllSeen("Window", d, a)
        PROVE  /\ d.position = {a["position"]} /\ (d.closed <=> a["position"] = 0) /\ d.direction = a["direction"]
               /\ d.target = {a["targetPosition"]}
    BY <2>1, WindowIs DEF AllSeen, WindowSeen
  <2>. QED
    BY <1>2, <2>1 DEF Windows
<1>3. ASSUME NEW e \in Jalousies, NEW f \in Jalousies, NEW a, AllSeen("Jalousie", e, a), AllSeen("Jalousie", f, a)
      PROVE  e = f
  <2>1. ASSUME NEW d, AllSeen("Jalousie", d, a)
        PROVE  /\ d.position = {Inverted(a["position"])} /\ (d.closed <=> Inverted(a["position"]) = 0)
               /\ d.tilt = {Inverted(a["shadePosition"])} /\ d.up = a["up"] /\ d.down = a["down"]
               /\ d.auto = a["autoActive"]
    BY <2>1, JalousieIs DEF AllSeen, JalousieSeen
  <2>. QED
    BY <1>3, <2>1 DEF Jalousies
<1>4. \A k \in CoverKinds : k \notin PickerKinds /\ k \notin ScaledKinds /\ k # "Zone"
  BY DEF CoverKinds, PickerKinds, ScaledKinds, LightKinds
<1>5. ShowsWell("Gate")
  BY <1>1, <1>4, GateIs, SameEntity
<1>6. ShowsWell("Window")
  BY <1>2, <1>4, WindowIs, SameEntity
<1>7. ShowsWell("Jalousie")
  BY <1>3, <1>4, JalousieIs, SameEntity
<1>. QED
  BY <1>5, <1>6, <1>7 DEF CoverKinds

LEMMA ClimatesShowWell == \A k \in ClimateKinds : ShowsWell(k)
<1>1. ASSUME NEW e \in RoomsV1, NEW f \in RoomsV1, NEW a, AllSeen("RoomV1", e, a), AllSeen("RoomV1", f, a) PROVE e = f
  <2>1. ASSUME NEW d, AllSeen("RoomV1", d, a) PROVE d.mode = {a["mode"]} /\ d.service = {a["serviceMode"]}
    BY <2>1, V1Is DEF AllSeen, V1Seen
  <2>. QED
    BY <1>1, <2>1 DEF RoomsV1
<1>2. ASSUME NEW e \in Acs, NEW f \in Acs, NEW a, AllSeen("AcControl", e, a), AllSeen("AcControl", f, a) PROVE e = f
  <2>1. ASSUME NEW d, AllSeen("AcControl", d, a)
        PROVE  (d.on <=> a["status"] # 0) /\ d.mode = {a["mode"]} /\ d.target = {a["targetTemperature"]}
    BY <2>1, AcIs DEF AllSeen, AcSeen
  <2>. QED
    BY <1>2, <2>1 DEF Acs
<1>3. ASSUME NEW k \in RoomKinds, NEW e \in RoomsV2, NEW f \in RoomsV2, NEW a, AllSeen(k, e, a), AllSeen(k, f, a)
      PROVE  e = f
  <2>1. ASSUME NEW d, AllSeen(k, d, a)
        PROVE  d.fixedAt = (IF a["activeMode"] >= Dynamic THEN a["activeMode"] - Dynamic ELSE 0)
    BY <2>1, V2Is DEF AllSeen, V2Seen, RoomStreams
  <2>2. ASSUME NEW d, AllSeen(k, d, a)
        PROVE  /\ d.op = a["operatingMode"] /\ (d.overridden <=> a["overrideReason"] > 0)
               /\ d.setpoints = {a["setpoints"]} /\ d.target = {a["tempTarget"]}
               /\ d.active = (IF a["activeMode"] >= Dynamic THEN Dynamic ELSE a["activeMode"])
    BY <2>2, V2AllSeen, ZenonT(40)
  <2>3. /\ e.op = f.op /\ (e.overridden <=> f.overridden) /\ e.setpoints = f.setpoints /\ e.target = f.target
        /\ e.active = f.active /\ e.fixedAt = f.fixedAt
    <3>1. e.op = f.op /\ e.setpoints = f.setpoints /\ e.target = f.target
      BY <1>3, <2>2
    <3>2. e.overridden <=> f.overridden
      BY <1>3, <2>2
    <3>3. e.active = f.active
      BY <1>3, <2>2, Zenon
    <3>4. e.fixedAt = f.fixedAt
      <4>1. CASE a["activeMode"] >= Dynamic
        BY <1>3, <2>1, <4>1
      <4>2. CASE ~(a["activeMode"] >= Dynamic)
        BY <1>3, <2>1, <4>2
      <4>. QED
        BY <4>1, <4>2
    <3>. QED
      BY <3>1, <3>2, <3>3, <3>4
  <2>. QED
    BY <2>3 DEF RoomsV2
<1>4. \A k \in ClimateKinds : k \notin PickerKinds /\ k \notin ScaledKinds /\ k # "Zone"
  BY DEF ClimateKinds, PickerKinds, ScaledKinds, LightKinds
<1>5. ShowsWell("RoomV1")
  BY <1>1, <1>4, V1Is, SameEntity
<1>6. ShowsWell("AcControl")
  BY <1>2, <1>4, AcIs, SameEntity
<1>7. ASSUME NEW k \in RoomKinds PROVE ShowsWell(k)
  BY <1>3, <1>4, V2Is, SameEntity
<1>. QED
  BY <1>5, <1>6, <1>7 DEF ClimateKinds, RoomKinds

LEMMA LightsShowWell == \A k \in LightKinds : ShowsWell(k)
<1>. SUFFICES ASSUME NEW k \in LightKinds, NEW e \in EntitiesOf(k), NEW f \in EntitiesOf(k), NEW a, NEW hidden,
                     AllSeen(k, e, a), AllSeen(k, f, a), ~hidden => ~e.rescaled /\ ~f.rescaled
     PROVE  Presented(k, e, a, hidden) = Presented(k, f, a, hidden)
  BY DEF ShowsWell, ScaledKinds
<1>1. ASSUME NEW d \in EntitiesOf(k), AllSeen(k, d, a)
      PROVE  /\ d.moods = {a["activeMoods"]} /\ d.moodList = a["moodList"]
             /\ d.available = TRUE /\ d \in LightsOf /\ d.on = IsOn(d)
             /\ d.circuits = [c \in Circuits |-> IF c \in LightStreams(k) THEN {a[c]} ELSE {}]
             /\ d.master = IF k = "MasterLight" THEN {a["master"]} ELSE {}
             /\ d.low = IF k = "MasterLight" THEN {a["min"]} ELSE {}
             /\ d.high = IF k = "MasterLight" THEN {a["max"]} ELSE {}
             /\ d.rescaled \/ d.level = IF k = "MasterLight" THEN {Brightness(d, a["master"])} ELSE {}
  <2>1. \A s \in LightStreams(k) : LightSeen(d, s, a[s])
    BY <1>1, LightIs DEF AllSeen
  <2>2. d \in LightsOf /\ d.on = IsOn(d) /\ NoOthers(k, d)
    BY LightIs
  <2>3. d.circuits \in [Circuits -> SUBSET Int] /\ d.available \in BOOLEAN
    BY <2>2 DEF LightsOf
  <2>4. /\ d.moods = {a["activeMoods"]} /\ d.moodList = a["moodList"] /\ d.available
        /\ \A c \in Circuits \cap LightStreams(k) : d.circuits[c] = {a[c]}
    BY <2>1, LightStreamsAre DEF LightSeen, LightKinds, Circuits
  <2>5. d.circuits = [c \in Circuits |-> IF c \in LightStreams(k) THEN {a[c]} ELSE {}]
    BY <2>2, <2>3, <2>4 DEF NoOthers
  <2>6. CASE k = "Light"
    <3>1. "master" \notin LightStreams(k)
      BY <2>6, LightStreamsAre
    <3>. QED
      BY <2>2, <2>3, <2>4, <2>5, <2>6, <3>1 DEF NoOthers
  <2>7. CASE k = "MasterLight"
    <3>1. {"min", "max", "master"} \subseteq LightStreams(k)
      BY <2>7, LightStreamsAre
    <3>2. /\ d.low = {a["min"]} /\ d.high = {a["max"]} /\ d.master = {a["master"]}
          /\ d.rescaled \/ d.level = {Brightness(d, a["master"])}
      BY <2>1, <3>1 DEF LightSeen
    <3>. QED
      BY <2>2, <2>3, <2>4, <2>5, <2>7, <3>2
  <2>. QED
    BY <2>6, <2>7 DEF LightKinds
<1>2. /\ e.moods = f.moods /\ e.moodList = f.moodList /\ e.master = f.master /\ e.circuits = f.circuits
      /\ e.low = f.low /\ e.high = f.high /\ e.available = f.available /\ e \in LightsOf /\ f \in LightsOf
  BY <1>1, Zenon
<1>3. e.on = f.on
  <2>1. e.on = IsOn(e) /\ f.on = IsOn(f)
    BY <1>1
  <2>2. IsOn(e) = IsOn(f)
    BY <1>2, SameLight
  <2>. QED
    BY <2>1, <2>2
<1>4. [e EXCEPT !.level = {}, !.rescaled = FALSE] = [f EXCEPT !.level = {}, !.rescaled = FALSE]
  BY <1>2, <1>3 DEF LightsOf
<1>5. ASSUME ~hidden PROVE e = f
  <2>1. ~e.rescaled /\ ~f.rescaled
    BY <1>5
  <2>2. Brightness(e, a["master"]) = Brightness(f, a["master"])
    BY <1>2, SameRange
  <2>3. e.level = f.level
    <3>1. CASE k = "MasterLight"
      <4>1. e.level = {Brightness(e, a["master"])} /\ f.level = {Brightness(f, a["master"])}
        BY <1>1, <2>1, <3>1, Zenon
      <4>. QED
        BY <2>2, <4>1, Zenon
    <3>2. CASE k # "MasterLight"
      <4>1. e.level = {} /\ f.level = {}
        BY <1>1, <2>1, <3>2, Zenon
      <4>. QED
        BY <4>1
    <3>. QED
      BY <3>1, <3>2
  <2>4. e.rescaled = f.rescaled
    BY <1>2, <2>1 DEF LightsOf
  <2>. QED
    BY <1>2, <1>3, <2>3, <2>4 DEF LightsOf
<1>. QED
  BY <1>2, <1>4, <1>5, SameLevel DEF ScaledKinds

LEMMA SwitchesShowWell == \A k \in SwitchKinds : ShowsWell(k)
<1>1. ASSUME NEW k \in PlainSwitches, NEW e \in Switched, NEW f \in Switched, NEW a, AllSeen(k, e, a), AllSeen(k, f, a)
      PROVE  e = f
  <2>1. ASSUME NEW d, AllSeen(k, d, a) PROVE d.on = {a[ShownStream(k)] # 0} /\ d.available
    <3>1. SwitchSeen(d, ShownStream(k), a[ShownStream(k)])
      BY <2>1, SwitchIs DEF AllSeen
    <3>2. ShownStream(k) # "deactivationDelayTotal"
      BY SwitchIs
    <3>. QED
      BY <3>1, <3>2, Zenon DEF SwitchSeen
  <2>2. e.on = f.on
    BY <1>1, <2>1, Zenon
  <2>3. e.available /\ f.available
    BY <1>1, <2>1
  <2>. QED
    BY <2>2, <2>3 DEF Switched
<1>2. ASSUME NEW e \in Alarms, NEW f \in Alarms, NEW a, AllSeen("Alarm", e, a), AllSeen("Alarm", f, a) PROVE e = f
  <2>1. ASSUME NEW d, AllSeen("Alarm", d, a)
        PROVE  /\ d.armed = a["armed"] /\ d.still = a["disabledMove"] /\ d.delay = {a["armedDelay"]}
               /\ d.armedAt = a["armedAt"] /\ d.level = a["level"]
    BY <2>1, AlarmIs DEF AllSeen, AlarmSeen
  <2>2. e.armed = f.armed /\ e.still = f.still /\ e.delay = f.delay /\ e.armedAt = f.armedAt /\ e.level = f.level
    BY <1>2, <2>1
  <2>3. e.available = TRUE /\ f.available = TRUE
    BY DEF Alarms
  <2>4. Alarms \subseteq [armed : Int, still : Int, delay : SUBSET Int, armedAt : Int, level : Int, available : BOOLEAN]
    BY DEF Alarms
  <2>. QED
    BY <2>2, <2>3, <2>4
<1>3. \A k \in SwitchKinds : k \notin PickerKinds /\ k \notin ScaledKinds /\ k # "Zone"
  BY DEF SwitchKinds, OptimisticKinds, PickerKinds, ScaledKinds, LightKinds
<1>4. ShowsWell("Alarm")
  BY <1>2, <1>3, AlarmIs, SameEntity
<1>5. ASSUME NEW k \in PlainSwitches PROVE ShowsWell(k)
  BY <1>1, <1>3, SwitchIs, SameEntity
<1>. QED
  BY <1>4, <1>5 DEF SwitchKinds, PlainSwitches

LEMMA PickersShowWell == \A k \in PickerKinds : ShowsWell(k)
<1>. SUFFICES ASSUME NEW k \in PickerKinds, NEW e \in Pickers, NEW f \in Pickers, NEW a, Held(k, a),
                     AllSeen(k, e, a), AllSeen(k, f, a)
     PROVE  PickerDisplay(e) = PickerDisplay(f)
  <2>1. \A k \in PickerKinds : k \notin ScaledKinds /\ k # "Zone"
    BY DEF PickerKinds, ScaledKinds, LightKinds
  <2>2. \A k \in PickerKinds : \A x, a, hidden : Presented(k, x, a, hidden) = PickerDisplay(x)
    BY <2>1, Zenon DEF Presented
  <2>. QED
    BY <2>2, PickerIs DEF ShowsWell
<1>. DEFINE v == a["color"]
<1>1. PickerSeen(k, e, v) /\ PickerSeen(k, f, v)
  BY PickerIs DEF AllSeen
<1>2. v \in ColoursOf(k)
  BY PickerRange
<1>3. v[1] \in {"temp", "hsv"} /\ v[3] \in Int /\ (v[1] = "hsv" /\ k # "RgbPicker" => v[3] = 0)
  BY <1>2, ColourIs
<1>. HIDE DEF v
<1>4. e.level = {v[3]} /\ f.level = {v[3]} /\ e.available = TRUE /\ f.available = TRUE
  BY <1>1 DEF PickerSeen, Pickers
<1>5. CASE v[3] = 0
  <2>1. e.level \ {0} = {} /\ f.level \ {0} = {}
    BY <1>4, <1>5
  <2>. QED
    BY <1>4, <2>1 DEF PickerDisplay
<1>6. CASE v[1] = "temp" /\ v[3] # 0
  <2>1. e.mode = "temp" /\ e.kelvin = {v[2]} /\ f.mode = "temp" /\ f.kelvin = {v[2]}
    BY <1>1, <1>6 DEF PickerSeen
  <2>. QED
    BY <1>4, <2>1 DEF PickerDisplay
<1>7. CASE v[1] = "hsv" /\ k = "RgbPicker" /\ v[3] # 0
  <2>1. e.mode = "hsv" /\ e.hue = {v[2]} /\ f.mode = "hsv" /\ f.hue = {v[2]}
    BY <1>1, <1>7 DEF PickerSeen
  <2>. QED
    BY <1>4, <2>1 DEF PickerDisplay
<1>. QED
  BY <1>3, <1>5, <1>6, <1>7

LEMMA DimmerShowsWell == ShowsWell("Dimmer")
<1>. SUFFICES ASSUME NEW e \in Dimmers, NEW f \in Dimmers, NEW a, NEW hidden, AllSeen("Dimmer", e, a),
                     AllSeen("Dimmer", f, a), ~hidden => ~e.rescaled /\ ~f.rescaled
     PROVE  Presented("Dimmer", e, a, hidden) = Presented("Dimmer", f, a, hidden)
  BY DimmerIs DEF ShowsWell, ScaledKinds
<1>1. ASSUME NEW d \in Dimmers, AllSeen("Dimmer", d, a)
      PROVE  /\ d.low = {a["min"]} /\ d.high = {a["max"]} /\ d.available = TRUE
             /\ d.rescaled \/ d.level = {Brightness(d, a["position"])}
  BY <1>1, DimmerIs DEF AllSeen, DimmerSeen, Dimmers
<1>2. e.low = f.low /\ e.high = f.high /\ e.available = f.available
  BY <1>1, Zenon
<1>3. [e EXCEPT !.level = {}, !.rescaled = FALSE] = [f EXCEPT !.level = {}, !.rescaled = FALSE]
  BY <1>2 DEF Dimmers
<1>4. ASSUME ~hidden PROVE e = f
  <2>1. e.level = {Brightness(e, a["position"])} /\ f.level = {Brightness(f, a["position"])}
    BY <1>1, <1>4
  <2>2. Brightness(e, a["position"]) = Brightness(f, a["position"])
    BY <1>2, SameRange
  <2>3. e.level = f.level
    BY <2>1, <2>2
  <2>4. e.rescaled = f.rescaled
    BY <1>4 DEF Dimmers
  <2>. QED
    BY <1>2, <2>3, <2>4 DEF Dimmers
<1>. QED
  BY <1>3, <1>4, SameLevel DEF ScaledKinds

LEMMA ZoneShowsWell == ShowsWell("Zone")
<1>. SUFFICES ASSUME NEW e \in Zones, NEW f \in Zones, NEW a, NEW hidden, AllSeen("Zone", e, a),
                     AllSeen("Zone", f, a)
     PROVE  Presented("Zone", e, a, hidden) = Presented("Zone", f, a, hidden)
  BY ZoneIs DEF ShowsWell
<1>1. ASSUME NEW d, AllSeen("Zone", d, a)
      PROVE  /\ d.playState = a["playState"] /\ d.active = {a["active"]} /\ d.mute = {a["mute"]}
             /\ d.volume = a["volume"] /\ d.source = {a["source"]} /\ d.sourceList = a["sourceList"]
             /\ a["metadata"] # Untitled => d.title = {a["metadata"]}
  BY <1>1, ZoneIs DEF AllSeen, ZoneSeen
<1>2. /\ e.playState = f.playState /\ e.active = f.active /\ e.mute = f.mute /\ e.volume = f.volume
      /\ e.source = f.source /\ e.sourceList = f.sourceList
      /\ a["metadata"] # Untitled => e.title = f.title
  BY <1>1, Zenon
<1>3. "Zone" \notin ScaledKinds /\ "Zone" \notin PickerKinds
  BY DEF ScaledKinds, LightKinds, PickerKinds
<1>4. CASE a["metadata"] = Untitled
  <2>1. ASSUME NEW d PROVE Presented("Zone", d, a, hidden) = [d EXCEPT !.title = {}]
    <3>1. Presented("Zone", d, a, hidden) = TitleHidden(d, a)
      BY <1>3, Zenon DEF Presented
    <3>2. TitleHidden(d, a) = [d EXCEPT !.title = {}]
      BY <1>4, Zenon DEF TitleHidden
    <3>. QED
      BY <3>1, <3>2, Zenon
  <2>2. [e EXCEPT !.title = {}] = [f EXCEPT !.title = {}]
    BY <1>2 DEF Zones
  <2>. QED
    BY <2>1, <2>2, Zenon
<1>5. CASE a["metadata"] # Untitled
  <2>1. e = f
    BY <1>2, <1>5 DEF Zones
  <2>. QED
    BY <2>1
<1>. QED
  BY <1>4, <1>5

LEMMA OutputsShowWell == \A k \in OutputKinds : ShowsWell(k)
<1>1. ASSUME NEW e \in Fans, NEW f \in Fans, NEW a, AllSeen("Fan", e, a), AllSeen("Fan", f, a) PROVE e = f
  <2>1. ASSUME NEW d, AllSeen("Fan", d, a) PROVE d.mode = {a["mode"]} /\ d.speed = {a["speed"]}
    BY <2>1, FanIs DEF AllSeen, FanSeen
  <2>. QED
    BY <1>1, <2>1 DEF Fans
<1>2. ASSUME NEW e \in Radios, NEW f \in Radios, NEW a, AllSeen("Radio", e, a), AllSeen("Radio", f, a) PROVE e = f
  <2>1. ASSUME NEW d, AllSeen("Radio", d, a) PROVE d.option = {a["activeOutput"]} \cap Options
    BY <2>1, RadioIs DEF AllSeen
  <2>. QED
    BY <1>2, <2>1 DEF Radios
<1>3. ASSUME NEW e \in Selectors, NEW f \in Selectors, NEW a,
             AllSeen("ValueSelector", e, a), AllSeen("ValueSelector", f, a)
      PROVE  e = f
  <2>1. ASSUME NEW d, AllSeen("ValueSelector", d, a)
        PROVE  d.low = a["min"] /\ d.high = a["max"] /\ d.value = {a["value"]} /\ d.available
    BY <2>1, SelectorIs DEF AllSeen, SelectorSeen
  <2>. QED
    BY <1>3, <2>1 DEF Selectors
<1>4. \A k \in {"Fan", "Radio", "ValueSelector"} : k \notin PickerKinds /\ k \notin ScaledKinds /\ k # "Zone"
  BY DEF PickerKinds, ScaledKinds, LightKinds
<1>5. ShowsWell("Fan")
  BY <1>1, <1>4, FanIs, SameEntity
<1>6. ShowsWell("Radio")
  BY <1>2, <1>4, RadioIs, SameEntity
<1>7. ShowsWell("ValueSelector")
  BY <1>3, <1>4, SelectorIs, SameEntity
<1>. QED
  BY <1>5, <1>6, <1>7, DimmerShowsWell, ZoneShowsWell, PickersShowWell DEF OutputKinds

LEMMA KindsShowWell == \A k \in DisplayKinds : ShowsWell(k)
BY CoversShowWell, ClimatesShowWell, LightsShowWell, OutputsShowWell, SwitchesShowWell DEF DisplayKinds
=============================================================================
