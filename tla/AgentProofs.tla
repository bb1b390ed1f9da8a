---------------------------- MODULE AgentProofs ----------------------------
(***************************************************************************)
(* Proofs about Agent for every set of game servers, every choice of       *)
(* outputs and every number of sessions and matches.                       *)
(***************************************************************************)
EXTENDS Agent, TLAPS

Sessions == [target : Targets \cup {None}, match : 0 .. MaxMatches,
             kinds : SUBSET Kinds, running : SUBSET Kinds, abandoned : SUBSET Kinds,
             foreign : SUBSET Kinds, multiStopped : BOOLEAN,
             poller : {"tick", "frame", "closing", "gone"},
             frame : 0 .. MaxMatches, silent : BOOLEAN]

SesOK == ses \in [Slots -> Sessions]

EnvOK ==
    /\ outputs \in Choices
    /\ game \in [Targets -> 0 .. MaxMatches] /\ latest \in [Targets -> 0 .. MaxMatches]
    /\ failures \in 0 .. MaxFailures
    /\ loop \in {"wait", "scan", "meta", "close", "over"}
    /\ todo \subseteq Targets /\ cur \in Targets \cup {None}
    /\ sessions \in [Targets -> Slots \cup {None}]

(* A poller polls a server of the list, and so does the scan loop. *)
AtWork(s) == ses[s].kinds # {} \/ ses[s].poller # "gone"
TargetOK ==
    /\ \A s \in Slots : AtWork(s) => ses[s].target \in Targets
    /\ loop = "meta" => cur \in Targets

LEMMA ClosedTyped == Closed \in Sessions
  BY AgentAssumption DEF AgentAssumption, Closed, Sessions, None, NoMatch, Kinds

LEMMA SessionReplaced ==
    ASSUME SesOK, NEW s \in Slots, NEW x \in Sessions, ses' = [ses EXCEPT ![s] = x]
    PROVE  SesOK'
  BY DEF SesOK

(* The poller changes its own session only. *)
LEMMA PollerTyped ==
    ASSUME SesOK, EnvOK, TargetOK, NEW s \in Slots, Poller(s)
    PROVE  SesOK'
<1>1. NoMatch \in 0 .. MaxMatches BY AgentAssumption DEF AgentAssumption, NoMatch
<1>2. ses[s] \in Sessions BY DEF SesOK
<1>3. CASE PollGetsNothing(s) \/ PollDrops(s)
  <2>1. PICK x \in {[ses[s] EXCEPT !.silent = TRUE], [ses[s] EXCEPT !.silent = FALSE]} :
              ses' = [ses EXCEPT ![s] = x]
    BY <1>3, Zenon DEF PollGetsNothing, PollDrops
  <2>2. x \in Sessions BY <1>2, <2>1 DEF Sessions
  <2> QED BY <2>1, <2>2, SessionReplaced
<1>4. CASE PollFetches(s)
  <2> DEFINE x == [ses[s] EXCEPT !.silent = FALSE, !.poller = "frame",
                                 !.frame = game[ses[s].target]]
  <2>1. game[ses[s].target] \in 0 .. MaxMatches
    BY <1>4 DEF PollFetches, EnvOK, TargetOK, AtWork
  <2>2. x \in Sessions BY <1>2, <2>1 DEF Sessions
  <2>3. ses' = [ses EXCEPT ![s] = x] BY <1>4, Zenon DEF PollFetches
  <2> QED BY <2>2, <2>3, SessionReplaced
<1>5. CASE PollWrites(s)
  <2> DEFINE f == IF ses[s].frame # ses[s].match /\ ~ses[s].multiStopped
                  THEN ses[s].foreign \cup (ses[s].running \ {"ws"}) ELSE ses[s].foreign
             x == [ses[s] EXCEPT !.poller = "tick", !.frame = NoMatch, !.foreign = f]
  <2>1. f \in SUBSET Kinds BY <1>2 DEF Sessions
  <2>2. x \in Sessions BY <1>1, <1>2, <2>1 DEF Sessions
  <2>3. ses' = [ses EXCEPT ![s] = x] BY <1>5 DEF PollWrites, SesOK
  <2> QED BY <2>2, <2>3, SessionReplaced
<1>6. CASE PollerReturns(s)
  <2>1. PICK x \in {[ses[s] EXCEPT !.running = {}, !.abandoned = {}, !.poller = "gone"],
                    [ses[s] EXCEPT !.poller = "gone"],
                    [ses[s] EXCEPT !.multiStopped = TRUE, !.poller = "closing"]} :
              ses' = [ses EXCEPT ![s] = x]
    BY <1>6 DEF PollerReturns, SesOK
  <2>2. x \in Sessions BY <1>2, <2>1, ZenonT(30) DEF Sessions
  <2> QED BY <2>1, <2>2, SessionReplaced
<1>7. CASE PollerClosesWriters(s)
  <2> DEFINE x == [ses[s] EXCEPT !.running = {}, !.abandoned = {}, !.poller = "gone"]
  <2>1. x \in Sessions BY <1>2 DEF Sessions
  <2>2. ses' = [ses EXCEPT ![s] = x] BY <1>7 DEF PollerClosesWriters, SesOK
  <2> QED BY <2>1, <2>2, SessionReplaced
<1> QED BY <1>3, <1>4, <1>5, <1>6, <1>7 DEF Poller

(* So does a worker. *)
LEMMA WorkerTyped ==
    ASSUME SesOK, NEW s \in Slots, WorkerStops(s) \/ WorkerFails(s)
    PROVE  SesOK'
<1>1. ses[s] \in Sessions BY DEF SesOK
<1>2. PICK k \in ses[s].running :
          \/ ses' = [ses EXCEPT ![s] = [ses[s] EXCEPT !.running = @ \ {k}]]
          \/ ses' = [ses EXCEPT ![s] = [ses[s] EXCEPT !.running = @ \ {k},
                                                      !.abandoned = @ \cup {k}]]
  BY DEF WorkerStops, WorkerFails, SesOK
<1>3. k \in Kinds BY <1>1 DEF Sessions
<1>4. [ses[s] EXCEPT !.running = @ \ {k}] \in Sessions BY <1>1 DEF Sessions
<1>5. [ses[s] EXCEPT !.running = @ \ {k}, !.abandoned = @ \cup {k}] \in Sessions
  BY <1>1, <1>3 DEF Sessions
<1> QED BY <1>2, <1>4, <1>5, SessionReplaced

LEMMA CloseTyped ==
    ASSUME SesOK, EnvOK, CloseSessions
    PROVE  SesOK'
<1>1. CASE UNCHANGED ses BY <1>1 DEF SesOK
<1>2. ASSUME NEW t \in todo, sessions[t] # None,
             ses' = [ses EXCEPT ![sessions[t]].running = {}, ![sessions[t]].abandoned = {},
                                ![sessions[t]].multiStopped = Multi(sessions[t])]
      PROVE  SesOK'
  <2>1. sessions[t] \in Slots BY <1>2 DEF EnvOK
  <2>2. Multi(sessions[t]) \in BOOLEAN BY DEF Multi
  <2>3. PICK b \in BOOLEAN :
            ses' = [ses EXCEPT ![sessions[t]].running = {}, ![sessions[t]].abandoned = {},
                               ![sessions[t]].multiStopped = b]
    BY <1>2, <2>2, Zenon
  <2> DEFINE x == [ses[sessions[t]] EXCEPT !.running = {}, !.abandoned = {}, !.multiStopped = b]
  <2>4. x \in Sessions BY <2>1, ZenonT(60) DEF SesOK, Sessions
  <2>5. ses' = [ses EXCEPT ![sessions[t]] = x] BY <2>1, <2>3 DEF SesOK
  <2> QED BY <2>1, <2>4, <2>5, SessionReplaced
<1> QED BY <1>1, <1>2, Zenon DEF CloseSessions

(* The session that OpenSession makes, and the slot it takes. *)
Opened(s, kinds) ==
    /\ s \in Slots /\ Free(s) /\ kinds \in (SUBSET Kinds) \ {{}}
    /\ ses' = [ses EXCEPT ![s] =
          [Closed EXCEPT !.target = cur, !.match = game[cur], !.kinds = kinds,
                         !.running = kinds, !.poller = "tick"]]
    /\ sessions' = [sessions EXCEPT ![cur] = s]
    /\ loop = "meta" /\ loop' = "scan" /\ cur' = None

LEMMA OpenFacts ==
    ASSUME EnvOK, TargetOK, OpenSession
    PROVE  /\ \E s, kinds : Opened(s, kinds)
           /\ UNCHANGED <<env, ctxDone, todo>>
<1> DEFINE s == CHOOSE s \in Slots : Free(s)
<1>1. s \in Slots /\ Free(s) BY Zenon DEF OpenSession
<1>2. outputs \in SUBSET Kinds BY AgentAssumption DEF AgentAssumption, EnvOK
<1>3. PICK kinds \in {outputs, outputs \ {"ws"}} \ {{}} :
          /\ ses' = [ses EXCEPT ![s] =
                [Closed EXCEPT !.target = cur, !.match = game[cur], !.kinds = kinds,
                               !.running = kinds, !.poller = "tick"]]
          /\ sessions' = [sessions EXCEPT ![cur] = s]
  BY Zenon DEF OpenSession, GetSessionMeta
<1>4. kinds \in (SUBSET Kinds) \ {{}} BY <1>2, <1>3
<1>5. loop = "meta" /\ loop' = "scan" /\ cur' = None /\ UNCHANGED <<env, ctxDone, todo>>
  BY DEF OpenSession, loopOnly
<1> HIDE DEF s
<1> QED BY <1>1, <1>3, <1>4, <1>5, Zenon DEF Opened

LEMMA OpenTyped ==
    ASSUME SesOK, EnvOK, TargetOK, OpenSession
    PROVE  SesOK'
<1>1. PICK s, kinds : Opened(s, kinds) BY OpenFacts
<1> DEFINE x == [Closed EXCEPT !.target = cur, !.match = game[cur], !.kinds = kinds,
                               !.running = kinds, !.poller = "tick"]
<1>2. s \in Slots /\ kinds \in SUBSET Kinds /\ ses' = [ses EXCEPT ![s] = x]
  BY <1>1 DEF Opened
<1>3. cur \in Targets /\ game[cur] \in 0 .. MaxMatches
  BY <1>1 DEF Opened, TargetOK, EnvOK
<1>4. x \in Sessions BY <1>2, <1>3, ClosedTyped DEF Sessions
<1> QED BY <1>2, <1>4, SessionReplaced

LEMMA EnvTyped ==
    ASSUME EnvOK, TargetOK, SesOK, [Next]_vars
    PROVE  EnvOK'
<1> USE DEF EnvOK, env
<1>1. CASE OpenSession
  <2>1. PICK s, kinds : Opened(s, kinds) BY <1>1, OpenFacts
  <2>2. UNCHANGED <<env, ctxDone, todo>> BY <1>1, OpenFacts
  <2> QED BY <2>1, <2>2 DEF Opened, TargetOK
<1>2. CASE CycleBegins \/ CycleStops \/ ScanTarget \/ NoSession \/ ScanEnds \/ CloseSessions
  BY <1>2 DEF CycleBegins, CycleStops, ScanTarget, NoSession, ScanEnds, CloseSessions, loopOnly
<1>3. CASE Interrupt BY <1>3 DEF Interrupt
<1>4. ASSUME NEW t \in Targets, GameChanges(t) PROVE EnvOK'
  <2>1. PICK m \in {NoMatch, latest[t], latest[t] + 1} :
            /\ m <= MaxMatches
            /\ game' = [game EXCEPT ![t] = m]
            /\ latest' = [latest EXCEPT ![t] = IF m = NoMatch THEN @ ELSE m]
    BY <1>4 DEF GameChanges
  <2>2. m \in 0 .. MaxMatches /\ latest[t] \in 0 .. MaxMatches
    BY <2>1, AgentAssumption DEF AgentAssumption, NoMatch
  <2> QED BY <1>4, <2>1, <2>2 DEF GameChanges
<1>5. ASSUME NEW s \in Slots, Poller(s) \/ WorkerStops(s) PROVE EnvOK'
  BY <1>5 DEF Poller, PollGetsNothing, PollDrops, PollFetches, PollWrites, PollerReturns,
     PollerClosesWriters, WorkerStops, pollerOnly
<1>6. ASSUME NEW s \in Slots, WorkerFails(s) PROVE EnvOK'
  BY <1>6, AgentAssumption DEF AgentAssumption, WorkerFails
<1>7. CASE UNCHANGED vars BY <1>7 DEF vars
<1> QED BY <1>1, <1>2, <1>3, <1>4, <1>5, <1>6, <1>7 DEF Next, Scan

----------------------------------------------------------------------------
(***************************************************************************)
(* What a step does to the sessions: OpenSession makes one, ScanTarget     *)
(* lets go of one it has found stopped, and everything else only takes     *)
(* writers away from them or stops them.                                   *)
(***************************************************************************)
Fades(s) ==
    /\ ses'[s].kinds = ses[s].kinds /\ ses'[s].target = ses[s].target
    /\ ses'[s].running \subseteq ses[s].running
    /\ ses'[s].running \cup ses'[s].abandoned \subseteq ses[s].running \cup ses[s].abandoned
    /\ Multi(s) /\ ses[s].multiStopped => ses'[s].multiStopped
    /\ ses[s].poller = "gone" => ses'[s].poller = "gone"

GoesOn ==
    /\ \A s \in Slots : Fades(s)
    /\ sessions' = sessions
    /\ loop' = "meta" => loop = "meta" /\ cur' = cur

LetsGo ==
    /\ ses' = ses
    /\ \E t \in Targets :
          /\ sessions[t] = None \/ IsStopped(sessions[t])
          /\ sessions' = [sessions EXCEPT ![t] = None]
          /\ loop' = "meta" /\ cur' = t

LEMMA UnchangedFades ==
    ASSUME NEW s \in Slots, ses'[s] = ses[s]
    PROVE  Fades(s)
  BY DEF Fades

LEMMA PollerFades ==
    ASSUME SesOK, NEW s \in Slots, Poller(s)
    PROVE  \A r \in Slots : Fades(r)
<1>1. \A r \in Slots : r # s => ses'[r] = ses[r]
  BY DEF SesOK, Poller, PollGetsNothing, PollDrops, PollFetches, PollWrites, PollerReturns,
     PollerClosesWriters
<1>2. Fades(s)
  <2> USE DEF SesOK, Sessions, Fades
  <2>1. CASE PollGetsNothing(s) \/ PollDrops(s) BY <2>1 DEF PollGetsNothing, PollDrops
  <2>2. CASE PollFetches(s) BY <2>2 DEF PollFetches
  <2>3. CASE PollWrites(s) BY <2>3 DEF PollWrites
  <2>4. CASE PollerReturns(s) BY <2>4 DEF PollerReturns
  <2>5. CASE PollerClosesWriters(s) BY <2>5 DEF PollerClosesWriters
  <2> QED BY <2>1, <2>2, <2>3, <2>4, <2>5 DEF Poller
<1> QED BY <1>1, <1>2, UnchangedFades

LEMMA WorkerFades ==
    ASSUME SesOK, NEW s \in Slots, WorkerStops(s) \/ WorkerFails(s)
    PROVE  \A r \in Slots : Fades(r)
<1>1. \A r \in Slots : r # s => ses'[r] = ses[r]
  BY DEF SesOK, WorkerStops, WorkerFails
<1>2. PICK k \in ses[s].running :
          \/ ses' = [ses EXCEPT ![s] = [ses[s] EXCEPT !.running = @ \ {k}]]
          \/ ses' = [ses EXCEPT ![s] = [ses[s] EXCEPT !.running = @ \ {k},
                                                      !.abandoned = @ \cup {k}]]
  BY DEF SesOK, WorkerStops, WorkerFails
<1> DEFINE x == ses[s]
           y == ses'[s]
<1>3. x \in Sessions BY DEF SesOK
<1>4. \/ y = [x EXCEPT !.running = @ \ {k}]
      \/ y = [x EXCEPT !.running = @ \ {k}, !.abandoned = @ \cup {k}]
  BY <1>2 DEF SesOK
<1>5. /\ y.kinds = x.kinds /\ y.target = x.target
      /\ y.running = x.running \ {k}
      /\ y.abandoned \subseteq x.abandoned \cup {k}
      /\ y.multiStopped = x.multiStopped /\ y.poller = x.poller
  <2> HIDE DEF x, y
  <2> QED BY <1>3, <1>4 DEF Sessions
<1>6. Fades(s) BY <1>5 DEF Fades
<1> QED BY <1>1, <1>6, UnchangedFades

LEMMA CloseFades ==
    ASSUME SesOK, EnvOK, CloseSessions
    PROVE  \A r \in Slots : Fades(r)
<1>1. CASE UNCHANGED ses BY <1>1, UnchangedFades
<1>2. ASSUME NEW t \in todo, sessions[t] # None,
             ses' = [ses EXCEPT ![sessions[t]].running = {}, ![sessions[t]].abandoned = {},
                                ![sessions[t]].multiStopped = Multi(sessions[t])]
      PROVE  \A r \in Slots : Fades(r)
  <2>1. PICK s \in Slots : s = sessions[t] BY <1>2 DEF EnvOK
  <2>2. \A r \in Slots : r # s => ses'[r] = ses[r] BY <1>2, <2>1 DEF SesOK
  <2>3. Fades(s) BY <1>2, <2>1 DEF SesOK, Sessions, Fades
  <2> QED BY <2>2, <2>3, UnchangedFades
<1> QED BY <1>1, <1>2, Zenon DEF CloseSessions

LEMMA StepShapes ==
    ASSUME EnvOK, TargetOK, SesOK, [Next]_vars
    PROVE  GoesOn \/ LetsGo \/ \E s, kinds : Opened(s, kinds)
<1>1. CASE OpenSession BY <1>1, OpenFacts
<1>2. CASE ScanTarget
  <2>1. ses' = ses BY <1>2 DEF ScanTarget
  <2>2. LetsGo \/ (sessions' = sessions /\ loop' # "meta")
    BY <1>2, <2>1 DEF ScanTarget, LetsGo, EnvOK
  <2> QED BY <2>1, <2>2, UnchangedFades DEF GoesOn
<1>3. CASE CloseSessions
  BY <1>3, CloseFades DEF CloseSessions, GoesOn
<1>4. CASE CycleBegins \/ CycleStops \/ NoSession \/ ScanEnds
  <2>1. UNCHANGED <<ses, sessions>> /\ loop' # "meta"
    BY <1>4 DEF CycleBegins, CycleStops, NoSession, ScanEnds
  <2> QED BY <2>1, UnchangedFades DEF GoesOn
<1>5. ASSUME NEW s \in Slots, Poller(s) \/ WorkerStops(s) \/ WorkerFails(s) PROVE GoesOn
  <2>1. UNCHANGED <<sessions, loop, cur>>
    BY <1>5 DEF Poller, PollGetsNothing, PollDrops, PollFetches, PollWrites, PollerReturns,
       PollerClosesWriters, WorkerStops, WorkerFails, pollerOnly
  <2> QED BY <1>5, <2>1, PollerFades, WorkerFades DEF GoesOn
<1>6. CASE Interrupt \/ (\E t \in Targets : GameChanges(t)) \/ UNCHANGED vars
  <2>1. UNCHANGED <<ses, sessions, loop, cur>> BY <1>6 DEF Interrupt, GameChanges, vars
  <2> QED BY <2>1, UnchangedFades DEF GoesOn
<1> QED BY <1>1, <1>2, <1>3, <1>4, <1>5, <1>6 DEF Next, Scan

----------------------------------------------------------------------------
(* The map holds every session that still runs, and while the metadata of a
   server is fetched the map holds none for it. *)
MapInv ==
    /\ loop = "meta" => sessions[cur] = None
    /\ \A s \in Slots : ses[s].running \subseteq ses[s].kinds
    /\ OnlyStoppedAreForgotten

IInv == EnvOK /\ SesOK /\ TargetOK /\ MapInv

LEMMA FadedStaysStopped ==
    ASSUME NEW s \in Slots, Fades(s), IsStopped(s)
    PROVE  IsStopped(s)'
  BY DEF Fades, IsStopped, Multi

LEMMA InitIInv == Init => IInv
<1> SUFFICES ASSUME Init PROVE IInv OBVIOUS
<1>1. EnvOK
  BY AgentAssumption DEF AgentAssumption, Init, EnvOK, NoMatch
<1>2. SesOK BY ClosedTyped DEF Init, SesOK
<1>3. \A s \in Slots : ses[s].kinds = {} /\ ses[s].running = {} /\ ses[s].poller = "gone"
  BY DEF Init, Closed
<1>4. loop = "wait" BY DEF Init
<1>5. TargetOK BY <1>3, <1>4 DEF TargetOK, AtWork
<1>6. MapInv BY <1>3, <1>4 DEF MapInv, OnlyStoppedAreForgotten
<1> QED BY <1>1, <1>2, <1>5, <1>6 DEF IInv

LEMMA StepIInv ==
    ASSUME IInv, [Next]_vars
    PROVE  IInv'
<1> USE DEF IInv
<1>1. EnvOK' BY EnvTyped
<1>2. SesOK'
  <2>1. CASE OpenSession BY <2>1, OpenTyped
  <2>2. CASE CloseSessions BY <2>2, CloseTyped
  <2>3. CASE CycleBegins \/ CycleStops \/ ScanTarget \/ NoSession \/ ScanEnds \/ Interrupt
             \/ (\E t \in Targets : GameChanges(t)) \/ UNCHANGED vars
    BY <2>3 DEF CycleBegins, CycleStops, ScanTarget, NoSession, ScanEnds, Interrupt, GameChanges,
       vars, SesOK
  <2>4. ASSUME NEW s \in Slots, Poller(s) \/ WorkerStops(s) \/ WorkerFails(s) PROVE SesOK'
    BY <2>4, PollerTyped, WorkerTyped
  <2> QED BY <2>1, <2>2, <2>3, <2>4 DEF Next, Scan
<1>3. CASE GoesOn
  <2>1. TargetOK' BY <1>3 DEF GoesOn, Fades, TargetOK, AtWork
  <2>2. \A s \in Slots : (ses[s].running \subseteq ses[s].kinds)'
    BY <1>3 DEF GoesOn, Fades, MapInv
  <2>3. OnlyStoppedAreForgotten'
    <3> SUFFICES ASSUME NEW s \in Slots, ses'[s].kinds # {}, ~IsStopped(s)'
                 PROVE  sessions'[ses'[s].target] = s
      BY DEF OnlyStoppedAreForgotten
    <3>1. ses[s].kinds # {} /\ ses'[s].target = ses[s].target /\ sessions' = sessions
      BY <1>3 DEF GoesOn, Fades
    <3>2. ~IsStopped(s) BY <1>3, FadedStaysStopped DEF GoesOn
    <3> QED BY <3>1, <3>2 DEF MapInv, OnlyStoppedAreForgotten
  <2>4. (loop = "meta" => sessions[cur] = None)' BY <1>3 DEF GoesOn, MapInv
  <2> QED BY <1>1, <1>2, <2>1, <2>2, <2>3, <2>4 DEF MapInv
<1>4. CASE LetsGo
  <2>1. PICK t \in Targets :
            /\ sessions[t] = None \/ IsStopped(sessions[t])
            /\ sessions' = [sessions EXCEPT ![t] = None]
            /\ loop' = "meta" /\ cur' = t
    BY <1>4 DEF LetsGo
  <2>2. ses' = ses BY <1>4 DEF LetsGo
  <2>3. TargetOK' BY <2>1, <2>2 DEF TargetOK, AtWork
  <2>4. sessions'[cur'] = None BY <2>1 DEF EnvOK
  <2>5. OnlyStoppedAreForgotten'
    <3> SUFFICES ASSUME NEW s \in Slots, ses[s].kinds # {}, ~IsStopped(s)
                 PROVE  sessions'[ses[s].target] = s
      BY <2>2 DEF OnlyStoppedAreForgotten, IsStopped, Multi
    <3>1. sessions[ses[s].target] = s BY DEF MapInv, OnlyStoppedAreForgotten
    <3>2. ses[s].target # t BY <2>1, <3>1, AgentAssumption DEF AgentAssumption, None
    <3>3. ses[s].target \in Targets BY DEF TargetOK, AtWork
    <3> QED BY <2>1, <3>1, <3>2, <3>3 DEF EnvOK
  <2>6. \A s \in Slots : (ses[s].running \subseteq ses[s].kinds)' BY <2>2 DEF MapInv
  <2> QED BY <1>1, <1>2, <2>3, <2>4, <2>5, <2>6 DEF MapInv
<1>5. ASSUME NEW s, NEW kinds, Opened(s, kinds) PROVE IInv'
  <2>1. /\ s \in Slots /\ kinds # {} /\ kinds \subseteq Kinds /\ cur \in Targets
        /\ ses' = [ses EXCEPT ![s] =
              [Closed EXCEPT !.target = cur, !.match = game[cur], !.kinds = kinds,
                             !.running = kinds, !.poller = "tick"]]
        /\ sessions' = [sessions EXCEPT ![cur] = s]
        /\ loop' # "meta" /\ sessions[cur] = None
    BY <1>5 DEF Opened, TargetOK, MapInv
  <2>2. /\ ses'[s].target = cur /\ ses'[s].kinds = kinds /\ ses'[s].running = kinds
        /\ \A r \in Slots : r # s => ses'[r] = ses[r]
    BY <2>1 DEF SesOK, Closed
  <2>3. TargetOK' BY <2>1, <2>2 DEF TargetOK, AtWork
  <2>4. \A r \in Slots : (ses[r].running \subseteq ses[r].kinds)' BY <2>1, <2>2 DEF MapInv
  <2>5. OnlyStoppedAreForgotten'
    <3> SUFFICES ASSUME NEW r \in Slots, ses'[r].kinds # {}, ~IsStopped(r)'
                 PROVE  sessions'[ses'[r].target] = r
      BY DEF OnlyStoppedAreForgotten
    <3>1. CASE r = s BY <2>1, <2>2, <3>1 DEF EnvOK
    <3>2. CASE r # s
      <4>1. ses'[r] = ses[r] /\ ~IsStopped(r) BY <2>2, <3>2 DEF IsStopped, Multi
      <4>2. sessions[ses[r].target] = r BY <4>1 DEF MapInv, OnlyStoppedAreForgotten
      <4>3. ses[r].target # cur BY <2>1, <4>2, AgentAssumption DEF AgentAssumption, None
      <4>4. ses[r].target \in Targets BY <4>1 DEF TargetOK, AtWork
      <4> QED BY <2>1, <4>1, <4>2, <4>3, <4>4 DEF EnvOK
    <3> QED BY <3>1, <3>2
  <2> QED BY <1>1, <1>2, <2>1, <2>3, <2>4, <2>5 DEF MapInv
<1> QED BY <1>3, <1>4, <1>5, StepShapes

LEMMA Invariance == Spec => []IInv
<1>1. IInv /\ [Next]_vars => IInv' BY StepIInv
<1> QED BY <1>1, InitIInv, PTL DEF Spec

(* Every variable keeps the type of the field or local it stands for. *)
THEOREM TypeCorrect == Spec => []TypeOK
<1> DEFINE DoneOK == ctxDone \in BOOLEAN
<1>1. Init => DoneOK BY Zenon DEF Init
<1>2. DoneOK /\ [Next]_vars => DoneOK'
  <2> SUFFICES ASSUME DoneOK, [Next]_vars PROVE DoneOK' OBVIOUS
  <2>1. ctxDone' = ctxDone \/ ctxDone' = TRUE
    BY Zenon DEF Next, Scan, CycleBegins, CycleStops, ScanTarget, NoSession, OpenSession, ScanEnds,
       CloseSessions, Interrupt, GameChanges, Poller, PollGetsNothing, PollDrops, PollFetches,
       PollWrites, PollerReturns, PollerClosesWriters, WorkerStops, WorkerFails, pollerOnly,
       loopOnly, vars
  <2> QED BY <2>1, Zenon
<1>3. IInv /\ DoneOK => TypeOK BY Zenon DEF IInv, EnvOK, SesOK, Sessions, TypeOK
<1> QED BY <1>1, <1>2, <1>3, Invariance, PTL DEF Spec

(* The scan loop lets go of a session only once it is stopped, so that the
   map always has every session that still runs, under the server it is for. *)
THEOREM NoRunningSessionIsForgotten == Spec => []OnlyStoppedAreForgotten
<1>1. IInv => OnlyStoppedAreForgotten BY DEF IInv, MapInv
<1> QED BY <1>1, Invariance, PTL

(* Of two sessions at most one can still take frames of a server, although a
   poller may outlive its session: nothing is recorded or streamed twice. *)
THEOREM ServersHaveOneRecorder == Spec => []OneRecorder
<1>1. IInv => OneRecorder
  <2> SUFFICES ASSUME IInv, NEW s \in Slots, NEW r \in Slots, s # r, Delivers(s), Delivers(r)
               PROVE  ses[s].target # ses[r].target
    BY DEF OneRecorder
  <2>1. ASSUME NEW q \in Slots, Delivers(q) PROVE sessions[ses[q].target] = q
    <3>1. ses[q].kinds # {} /\ ~IsStopped(q)
      BY <2>1 DEF IInv, MapInv, Delivers, IsStopped
    <3> QED BY <3>1 DEF IInv, MapInv, OnlyStoppedAreForgotten
  <2> QED BY <2>1
<1> QED BY <1>1, Invariance, PTL
=============================================================================
