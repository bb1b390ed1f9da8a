------------------------- MODULE CommandLineProofs -------------------------
(***************************************************************************)
(* What holds of one invocation of the program, whatever command it names: *)
(* every command's behaviour is one of the command's own specification, so *)
(* the theorems about that specification hold of the program.              *)
(***************************************************************************)
EXTENDS CommandLine, EventDumpProofs, ReplayServerProofs, ValidatorProofs, TLAPS

----------------------------------------------------------------------------
(* The poller's filters *)

(* The rate belongs to the last frame handed over: isIdle remembers its
   status, and the ticker is at the idle rate as long as that status asks for
   one.  Before the command begins nothing has been handed over. *)
RateInv ==
    /\ isIdle <=> lastSent \notin {"none", "playing"}
    /\ ticker = "idle" <=> isIdle /\ HasIdleRate
    /\ ticker = "off" => polled = NoPoll /\ lastSent = "none"

PolledInv ==
    /\ polled.sent => /\ Passes(game, polled.events)
                      /\ polled.bones # pollerCfg.ExcludeBones
                      /\ lastSent = game.status
    /\ polled # NoPoll /\ Passes(game, polled.events) => polled.sent

PollerIInv == PollerTypeOK /\ RateInv /\ PolledInv

(* The filters let through what the flags ask for, and nothing that no reading
   of them asks for, in any combination. *)
LEMMA FiltersAreBetween ==
  ASSUME PollerTypeOK, NEW events \in BOOLEAN
  PROVE  /\ Asked(game, events) => Passes(game, events)
         /\ Passes(game, events) => ~Unasked(game, events)
<1>1. /\ game.mode \in Modes /\ game.status \in Statuses
      /\ pollerCfg.IncludeModes \subseteq Modes /\ pollerCfg.ExcludeModes \subseteq Modes
  BY DEF PollerTypeOK, Games, PollerConfig
<1>2. /\ game.mode \in AskedModes => shouldStreamMode(game.mode)
      /\ shouldStreamMode(game.mode) =>
            /\ ~(pollerCfg.IncludeModes # {} /\ game.mode \notin pollerCfg.IncludeModes)
            /\ ~(pollerCfg.IncludeModes = {} /\ game.mode \in pollerCfg.ExcludeModes)
  BY <1>1 DEF shouldStreamMode, AskedModes
<1>3. /\ game.status \in AskedStatuses => PassesActiveOnly(game.status)
      /\ PassesActiveOnly(game.status) =>
            /\ ~(pollerCfg.ActiveOnly /\ game.status = OtherStatus)
            /\ ~(pollerCfg.ActiveOnly /\ pollerCfg.ExcludePaused /\ game.status # "playing")
  BY <1>1, PollerAssumption
     DEF PollerAssumption, PassesActiveOnly, AskedStatuses, Statuses, isActiveGameplay, isPausedState
<1> QED BY <1>2, <1>3, Zenon DEF Passes, Asked, Unasked

LEMMA PollerInitIInv == PollerInit => PollerIInv
<1> SUFFICES ASSUME PollerInit PROVE PollerIInv OBVIOUS
<1> USE DEF PollerInit
<1>1. NoConfig \in PollerConfig /\ NoPoll \in [events : BOOLEAN, sent : BOOLEAN, bones : BOOLEAN]
  BY DEF NoConfig, PollerConfig, NoPoll
<1>2. game \in Games
  BY PollerAssumption DEF PollerAssumption, Games, Statuses
<1>3. PollerTypeOK BY <1>1, <1>2 DEF PollerTypeOK
<1>4. RateInv BY DEF RateInv
<1>5. PolledInv BY DEF PolledInv, NoPoll
<1> QED BY <1>3, <1>4, <1>5 DEF PollerIInv

LEMMA StartPollerKeepsIInv ==
  ASSUME PollerIInv, NEW config \in PollerConfigs, StartPoller(config)
  PROVE  PollerIInv'
<1> USE DEF PollerIInv, StartPoller
<1>1. PollerTypeOK' BY PollerAssumption DEF PollerAssumption, PollerTypeOK
<1>2. RateInv' BY DEF RateInv
<1>3. PolledInv' BY DEF RateInv, PolledInv, NoPoll
<1> QED BY <1>1, <1>2, <1>3

LEMMA AnswerKeepsIInv ==
  ASSUME PollerIInv, NEW answer \in Games, ServerAnswers(answer)
  PROVE  PollerIInv'
<1> USE DEF PollerIInv, ServerAnswers
<1>1. PollerTypeOK' BY DEF PollerTypeOK, NoPoll
<1>2. RateInv' BY DEF RateInv, HasIdleRate
<1>3. PolledInv' BY DEF PolledInv, NoPoll
<1> QED BY <1>1, <1>2, <1>3

LEMMA PollKeepsIInv ==
  ASSUME PollerIInv, NEW events \in BOOLEAN, Poll(events)
  PROVE  PollerIInv'
<1> USE DEF PollerIInv
<1>1. UNCHANGED <<pollerCfg, game>> /\ ticker # "off" BY DEF Poll
<1>2. game.status \in Statuses /\ pollerCfg.ExcludeBones \in BOOLEAN
  BY DEF PollerTypeOK, Games, PollerConfig
<1>3. \A e \in BOOLEAN : Passes(game, e)' <=> Passes(game, e)
  BY <1>1 DEF Passes, shouldStreamMode, PassesActiveOnly, isActiveGameplay, isPausedState
<1>4. CASE Passes(game, events)
  <2>1. /\ isIdle' = (game.status # "playing") /\ lastSent' = game.status
        /\ ticker' = NewTicker(game.status # "playing")
        /\ polled' = [events |-> events, sent |-> TRUE, bones |-> ~pollerCfg.ExcludeBones]
    BY <1>4 DEF Poll, isActiveGameplay
  <2>2. isIdle' <=> game.status # "playing" BY <2>1
  <2>3. game.status # "none" BY <1>2, PollerAssumption DEF Statuses, PollerAssumption
  <2>4. /\ ticker' \in {"active", "idle"}
        /\ ticker' = "idle" <=> game.status # "playing" /\ HasIdleRate
    BY <1>1, <2>1 DEF NewTicker, RateInv, PollerTypeOK
  <2>5. isIdle' \in BOOLEAN BY <2>1
  <2>6. PollerTypeOK' BY <1>1, <1>2, <2>1, <2>4, <2>5 DEF PollerTypeOK
  <2>7. HasIdleRate' <=> HasIdleRate BY <1>1 DEF HasIdleRate
  <2>8. RateInv' BY <2>1, <2>2, <2>3, <2>4, <2>7 DEF RateInv
  <2>9. PolledInv' BY <1>1, <1>2, <1>3, <1>4, <2>1 DEF PolledInv
  <2> QED BY <2>6, <2>8, <2>9
<1>5. CASE ~Passes(game, events)
  <2>1. /\ UNCHANGED <<isIdle, ticker, lastSent>>
        /\ polled' = [events |-> events, sent |-> FALSE, bones |-> FALSE]
    BY <1>5 DEF Poll
  <2>2. PollerTypeOK' BY <1>1, <2>1 DEF PollerTypeOK
  <2>3. HasIdleRate' <=> HasIdleRate BY <1>1 DEF HasIdleRate
  <2>4. RateInv' BY <1>1, <2>1, <2>3 DEF RateInv
  <2>5. PolledInv' BY <1>1, <1>3, <1>5, <2>1 DEF PolledInv
  <2> QED BY <2>2, <2>4, <2>5
<1> QED BY <1>4, <1>5

LEMMA PollerStepKeepsIInv == PollerIInv /\ [PollerNext]_pollerVars => PollerIInv'
<1> SUFFICES ASSUME PollerIInv, [PollerNext]_pollerVars PROVE PollerIInv' OBVIOUS
<1>1. CASE UNCHANGED pollerVars
  BY <1>1 DEF pollerVars, PollerIInv, PollerTypeOK, RateInv, PolledInv, HasIdleRate, Passes,
              shouldStreamMode, PassesActiveOnly, isActiveGameplay, isPausedState
<1> QED BY <1>1, StartPollerKeepsIInv, AnswerKeepsIInv, PollKeepsIInv DEF PollerNext

LEMMA PollerIInvGivesStream == PollerIInv => StreamIsAsAsked
<1> SUFFICES ASSUME PollerIInv PROVE StreamIsAsAsked OBVIOUS
<1>1. polled.events \in BOOLEAN /\ game.status \in Statuses
  BY DEF PollerIInv, PollerTypeOK, Games
<1>2. /\ Asked(game, polled.events) => Passes(game, polled.events)
      /\ Passes(game, polled.events) => ~Unasked(game, polled.events)
  BY <1>1, FiltersAreBetween DEF PollerIInv
<1>3. game.status # "none"
  BY <1>1, PollerAssumption DEF PollerAssumption, Statuses
<1>4. polled.sent /\ HasIdleRate => (ticker = "idle" <=> game.status # "playing")
  BY <1>3 DEF PollerIInv, RateInv, PolledInv
<1> QED BY <1>2, <1>4, Zenon DEF StreamIsAsAsked, PollerIInv, PolledInv

(* In any combination of the flags the poller hands over every frame they ask
   for and none that no reading of them asks for, and a frame handed over
   leaves the rate that belongs to it. *)
THEOREM FiltersAreRight == PollerSpec => []StreamIsAsAsked
  BY PollerInitIInv, PollerStepKeepsIInv, PollerIInvGivesStream, PTL DEF PollerSpec

----------------------------------------------------------------------------
(* The version check *)

(* A version is higher than another if it is where they first differ. *)
Higher(v, w) ==
    \E k \in 1 .. 3 : Part(v, k) > Part(w, k) /\ \A j \in 1 .. k - 1 : Part(v, j) = Part(w, j)

LEMMA PartIsNat == ASSUME NEW v \in Seq(Nat), NEW k \in 1 .. 3 PROVE Part(v, k) \in Nat
  BY DEF Part

LEMMA HigherIsFirstDifference ==
  ASSUME NEW v \in Seq(Nat), NEW w \in Seq(Nat)
  PROVE  Higher(v, w) <=> \/ Part(v, 1) > Part(w, 1)
                          \/ /\ Part(v, 1) = Part(w, 1)
                             /\ \/ Part(v, 2) > Part(w, 2)
                                \/ Part(v, 2) = Part(w, 2) /\ Part(v, 3) > Part(w, 3)
<1> DEFINE gt(k) == Part(v, k) > Part(w, k)
           eq(k) == Part(v, k) = Part(w, k)
<1>1. Higher(v, w) <=> \E k \in 1 .. 3 : gt(k) /\ \A j \in 1 .. k - 1 : eq(j)
  BY Zenon DEF Higher
<1> HIDE DEF gt, eq
<1>2. /\ \A j \in 1 .. 1 - 1 : eq(j)
      /\ (\A j \in 1 .. 2 - 1 : eq(j)) <=> eq(1)
      /\ (\A j \in 1 .. 3 - 1 : eq(j)) <=> eq(1) /\ eq(2)
  <2>1. 1 .. 1 - 1 = {} /\ 1 .. 2 - 1 = {1} /\ 1 .. 3 - 1 = {1, 2} OBVIOUS
  <2> QED BY <2>1, Zenon
<1>3. 1 .. 3 = {1, 2, 3} OBVIOUS
<1>4. Higher(v, w) <=> gt(1) \/ (gt(2) /\ eq(1)) \/ (gt(3) /\ eq(1) /\ eq(2))
  BY <1>1, <1>2, <1>3, Zenon
<1> QED BY <1>4, Zenon DEF gt, eq

(* The comparison of the code decides by the first difference. *)
LEMMA ComparisonIsHigher ==
  ASSUME NEW cur \in Seq(Nat), NEW lat \in Seq(Nat)
  PROVE  isNewerVersion(cur, lat) <=> cur = Dev \/ Higher(lat, cur)
<1> DEFINE gt(i) == Part(lat, i) > Part(cur, i)
           eq(i) == Part(lat, i) = Part(cur, i)
           body(f, i) == IF i = 4 THEN FALSE ELSE gt(i) \/ (eq(i) /\ f[i + 1])
           newer == CHOOSE f : f = [i \in 1 .. 4 |-> body(f, i)]
           from3 == gt(3) \/ (eq(3) /\ FALSE)
           from2 == gt(2) \/ (eq(2) /\ from3)
           from1 == gt(1) \/ (eq(1) /\ from2)
           witness == [i \in 1 .. 4 |-> CASE i = 1 -> from1 [] i = 2 -> from2
                                          [] i = 3 -> from3 [] OTHER -> FALSE]
<1>1. isNewerVersion(cur, lat) <=> cur = Dev \/ newer[1]
  BY Zenon DEF isNewerVersion
<1>2. witness = [i \in 1 .. 4 |-> body(witness, i)]
  <2> HIDE DEF gt, eq
  <2>1. witness[2] = from2 /\ witness[3] = from3 /\ witness[4] = FALSE OBVIOUS
  <2>2. \A i \in 1 .. 4 : i = 1 \/ i = 2 \/ i = 3 \/ i = 4 OBVIOUS
  <2> HIDE DEF witness
  <2>3. 1 # 4 /\ 2 # 4 /\ 3 # 4 /\ 1 + 1 = 2 /\ 2 + 1 = 3 /\ 3 + 1 = 4 OBVIOUS
  <2>4. /\ body(witness, 1) = from1 /\ body(witness, 2) = from2
        /\ body(witness, 3) = from3 /\ body(witness, 4) = FALSE
    BY <2>1, <2>3, Zenon
  <2> HIDE DEF body, from1, from2, from3
  <2> QED BY <2>2, <2>4 DEF witness
<1> HIDE DEF witness
<1>3. newer = [i \in 1 .. 4 |-> body(newer, i)]
  BY <1>2, Zenon
<1> HIDE DEF newer, gt, eq
<1>4. newer[1] <=> gt(1) \/ (eq(1) /\ (gt(2) \/ (eq(2) /\ gt(3))))
  <2>1. /\ newer[1] = (gt(1) \/ (eq(1) /\ newer[2])) /\ newer[2] = (gt(2) \/ (eq(2) /\ newer[3]))
        /\ newer[3] = (gt(3) \/ (eq(3) /\ newer[4])) /\ newer[4] = FALSE
    <3>1. 1 # 4 /\ 2 # 4 /\ 3 # 4 /\ 1 + 1 = 2 /\ 2 + 1 = 3 /\ 3 + 1 = 4
          /\ 1 \in 1 .. 4 /\ 2 \in 1 .. 4 /\ 3 \in 1 .. 4 /\ 4 \in 1 .. 4
      OBVIOUS
    <3>2. \A i \in 1 .. 4 : newer[i] = body(newer, i)
      <4> HIDE DEF body
      <4> QED BY <1>3
    <3> QED BY <3>1, <3>2, ZenonT(30)
  <2> QED BY <2>1, Zenon
<1> QED BY <1>1, <1>4, HigherIsFirstDifference, Zenon DEF gt, eq

(* Higher is a strict order, total up to what is not looked at: whoever
   installs what is announced never comes back to a version he had. *)
THEOREM HigherIsAStrictOrder ==
  ASSUME NEW u \in Seq(Nat), NEW v \in Seq(Nat), NEW w \in Seq(Nat)
  PROVE  /\ ~Higher(v, v)
         /\ Higher(u, v) /\ Higher(v, w) => Higher(u, w)
         /\ Higher(v, w) \/ Higher(w, v) \/ \A k \in 1 .. 3 : Part(v, k) = Part(w, k)
<1> DEFINE u1 == Part(u, 1)
           u2 == Part(u, 2)
           u3 == Part(u, 3)
           v1 == Part(v, 1)
           v2 == Part(v, 2)
           v3 == Part(v, 3)
           w1 == Part(w, 1)
           w2 == Part(w, 2)
           w3 == Part(w, 3)
           above(a1, a2, a3, b1, b2, b3) == a1 > b1 \/ (a1 = b1 /\ (a2 > b2 \/ (a2 = b2 /\ a3 > b3)))
<1>1. /\ u1 \in Nat /\ u2 \in Nat /\ u3 \in Nat /\ v1 \in Nat /\ v2 \in Nat /\ v3 \in Nat
      /\ w1 \in Nat /\ w2 \in Nat /\ w3 \in Nat
  BY PartIsNat
<1>2. /\ Higher(v, v) <=> above(v1, v2, v3, v1, v2, v3)
      /\ Higher(u, v) <=> above(u1, u2, u3, v1, v2, v3)
      /\ Higher(u, w) <=> above(u1, u2, u3, w1, w2, w3)
      /\ Higher(v, w) <=> above(v1, v2, v3, w1, w2, w3)
      /\ Higher(w, v) <=> above(w1, w2, w3, v1, v2, v3)
  BY HigherIsFirstDifference, Zenon
<1> HIDE DEF u1, u2, u3, v1, v2, v3, w1, w2, w3
<1>3. ~above(v1, v2, v3, v1, v2, v3) BY <1>1
<1>4. above(u1, u2, u3, v1, v2, v3) /\ above(v1, v2, v3, w1, w2, w3)
        => above(u1, u2, u3, w1, w2, w3)
  BY <1>1
<1>5. \/ above(v1, v2, v3, w1, w2, w3) \/ above(w1, w2, w3, v1, v2, v3)
      \/ v1 = w1 /\ v2 = w2 /\ v3 = w3
  BY <1>1
<1>6. \A k \in 1 .. 3 : k = 1 \/ k = 2 \/ k = 3 OBVIOUS
<1>7. v1 = w1 /\ v2 = w2 /\ v3 = w3 => \A k \in 1 .. 3 : Part(v, k) = Part(w, k)
  BY <1>6, Zenon DEF v1, v2, v3, w1, w2, w3
<1> HIDE DEF above
<1> QED BY <1>2, <1>3, <1>4, <1>5, <1>7, Zenon

(* Rank is that order as long as every part has two digits at most. *)
Short(v) == \A k \in 1 .. 3 : Part(v, k) < 100

LEMMA RankIsHigher ==
  ASSUME NEW v \in Seq(Nat), NEW w \in Seq(Nat), Short(v), Short(w)
  PROVE  Higher(v, w) <=> Rank(v) > Rank(w)
<1> DEFINE v1 == Part(v, 1)
           v2 == Part(v, 2)
           v3 == Part(v, 3)
           w1 == Part(w, 1)
           w2 == Part(w, 2)
           w3 == Part(w, 3)
<1>1. /\ v1 \in Nat /\ v2 \in Nat /\ v3 \in Nat /\ w1 \in Nat /\ w2 \in Nat /\ w3 \in Nat
      /\ v1 < 100 /\ v2 < 100 /\ v3 < 100 /\ w1 < 100 /\ w2 < 100 /\ w3 < 100
  BY PartIsNat DEF Short
<1>2. Higher(v, w) <=> v1 > w1 \/ (v1 = w1 /\ (v2 > w2 \/ (v2 = w2 /\ v3 > w3)))
  BY HigherIsFirstDifference, Zenon
<1>3. Rank(v) = 10000 * v1 + 100 * v2 + v3 /\ Rank(w) = 10000 * w1 + 100 * w2 + w3
  BY DEF Rank
<1> HIDE DEF v1, v2, v3, w1, w2, w3
<1> QED BY <1>1, <1>2, <1>3

(* Until the check has run to its end nothing is announced and no release is
   known except the one being compared. *)
UpdateInv ==
    /\ update = "off" => latest = Dev
    /\ update = "comparing" => latest # Dev
    /\ update = "exited" /\ latest # Dev => (announced <=> current = Dev \/ Higher(latest, current))

VersionIInv == VersionTypeOK /\ current \in Versions \cup {Dev} /\ latest \in Versions \cup {Dev} /\ UpdateInv

LEMMA VersionInitIInv == VersionInit => VersionIInv
  BY EmptySeq DEF VersionInit, VersionIInv, VersionTypeOK, UpdateInv, Dev

LEMMA VersionStepKeepsIInv == VersionIInv /\ [VersionNext]_versionVars => VersionIInv'
<1> SUFFICES ASSUME VersionIInv, [VersionNext]_versionVars PROVE VersionIInv' OBVIOUS
<1> USE DEF VersionIInv
<1>1. CASE UNCHANGED versionVars
  BY <1>1 DEF versionVars, VersionTypeOK, UpdateInv
<1>2. ASSUME NEW running \in Versions, NEW outcome \in {"error", "none", "release"},
             getLatestRelease(running, outcome)
      PROVE  VersionIInv'
  <2>1. /\ update = "off" /\ current' = running /\ UNCHANGED announced
        /\ \/ update' = "exited" /\ updateResult' = "error" /\ latest' = latest
           \/ update' = "exited" /\ updateResult' = "ok" /\ latest' = latest
           \/ update' = "comparing" /\ updateResult' = updateResult /\ latest' \in Versions \ {Dev}
    BY <1>2, Zenon DEF getLatestRelease
  <2>2. latest = Dev BY <2>1 DEF UpdateInv
  <2>3. latest' \in Versions \cup {Dev} /\ current' \in Versions \cup {Dev} BY <2>1, <2>2
  <2>4. VersionTypeOK' BY <2>1, <2>3, VersionAssumption DEF VersionTypeOK, VersionAssumption
  <2>5. UpdateInv' BY <2>1, <2>2 DEF UpdateInv
  <2> QED BY <2>3, <2>4, <2>5
<1>3. CASE runVersionCheck
  <2>1. announced' \in BOOLEAN BY <1>3, Zenon DEF runVersionCheck, isNewerVersion
  <2>2. announced' <=> current = Dev \/ Higher(latest, current)
    BY <1>3, ComparisonIsHigher, Zenon DEF runVersionCheck, VersionTypeOK
  <2>3. UNCHANGED <<current, latest>> /\ update' = "exited" /\ updateResult' = "ok"
    BY <1>3 DEF runVersionCheck
  <2>4. VersionTypeOK' BY <2>1, <2>3 DEF VersionTypeOK
  <2>5. Higher(latest, current)' <=> Higher(latest, current) BY <2>3 DEF Higher, Part
  <2>6. UpdateInv' BY <2>2, <2>3, <2>5, Zenon DEF UpdateInv
  <2> QED BY <2>3, <2>4, <2>6
<1> QED BY <1>1, <1>2, <1>3 DEF VersionNext

(* A release is announced exactly when it is higher, however many parts the
   two versions have and however large they are. *)
THEOREM AnnouncedIsHigher ==
  VersionSpec => [](update = "exited" /\ latest # Dev =>
                       (announced <=> current = Dev \/ Higher(latest, current)))
<1>1. VersionIInv => (update = "exited" /\ latest # Dev =>
                        (announced <=> current = Dev \/ Higher(latest, current)))
  BY DEF VersionIInv, UpdateInv
<1> QED BY VersionInitIInv, VersionStepKeepsIInv, <1>1, PTL DEF VersionSpec

LEMMA VersionIInvGivesOrder ==
  ASSUME \A v \in Versions : Short(v), VersionIInv
  PROVE  UpdateIsOrdered
<1>1. Short(Dev) BY DEF Short, Dev, Part
<1>2. /\ current \in Seq(Nat) /\ latest \in Seq(Nat) /\ Short(current) /\ Short(latest)
  BY <1>1 DEF VersionIInv, VersionTypeOK
<1>3. Higher(latest, current) <=> Rank(latest) > Rank(current) BY <1>2, RankIsHigher
<1> QED BY <1>3, Zenon DEF VersionIInv, UpdateInv, UpdateIsOrdered

(* For versions with parts of two digits that order is the order of numbers. *)
THEOREM UpdatesGoUp ==
  ASSUME \A v \in Versions : Short(v)
  PROVE  VersionSpec => []UpdateIsOrdered
<1>1. VersionIInv => UpdateIsOrdered BY VersionIInvGivesOrder
<1> QED BY VersionInitIInv, VersionStepKeepsIInv, <1>1, PTL DEF VersionSpec

----------------------------------------------------------------------------
(* The program behaves as the command it runs. *)

LEMMA ShowRefined == Spec => ShowSpec
<1>1. [Next]_vars => [ShowNext]_showVars
  <2> SUFFICES ASSUME [Next]_vars PROVE [ShowNext]_showVars OBVIOUS
  <2>1. CASE Show BY <2>1 DEF Show, ShowNext
  <2>2. CASE UNCHANGED showVars BY <2>2
  <2>3. UNCHANGED vars => UNCHANGED showVars BY DEF vars
  <2>4. Next => Show \/ UNCHANGED showVars
    BY DEF Next, Agent, OnlySettings, Replay, OnlyReplay, CheckUpdate, OnlyVersion, Stream, OnlyPoller,
           Convert, OnlyLegacy
  <2> QED BY <2>1, <2>2, <2>3, <2>4
<1>2. Init => ShowInit BY DEF Init
<1>3. Fairness => ShowFairness BY PTL DEF Fairness
<1> QED BY <1>1, <1>2, <1>3, PTL DEF Spec, ShowSpec

LEMMA ReplayRefined == Spec => ReplaySpec
<1>1. [Next]_vars => [ReplayNext]_replayVars
  <2> SUFFICES ASSUME [Next]_vars PROVE [ReplayNext]_replayVars OBVIOUS
  <2>1. CASE Replay BY <2>1 DEF Replay, ReplayNext
  <2>2. CASE UNCHANGED replayVars BY <2>2
  <2>3. UNCHANGED vars => UNCHANGED replayVars BY DEF vars
  <2>4. Next => Replay \/ UNCHANGED replayVars
    BY DEF Next, Agent, OnlySettings, Show, OnlyShow, CheckUpdate, OnlyVersion, Stream, OnlyPoller,
           Convert, OnlyLegacy
  <2> QED BY <2>1, <2>2, <2>3, <2>4
<1>2. Init => ReplayInit BY DEF Init
<1>3. Fairness => WF_replayVars(Playback) BY PTL DEF Fairness
<1> QED BY <1>1, <1>2, <1>3, PTL DEF Spec, ReplaySpec

LEMMA VersionRefined == Spec => VersionSpec
<1>1. [Next]_vars => [VersionNext]_versionVars
  <2> SUFFICES ASSUME [Next]_vars PROVE [VersionNext]_versionVars OBVIOUS
  <2>1. CASE CheckUpdate BY <2>1 DEF CheckUpdate, VersionNext
  <2>2. CASE UNCHANGED versionVars BY <2>2
  <2>3. UNCHANGED vars => UNCHANGED versionVars BY DEF vars
  <2>4. Next => CheckUpdate \/ UNCHANGED versionVars
    BY DEF Next, Agent, OnlySettings, Show, OnlyShow, Replay, OnlyReplay, Stream, OnlyPoller,
           Convert, OnlyLegacy
  <2> QED BY <2>1, <2>2, <2>3, <2>4
<1>2. Init => VersionInit BY DEF Init
<1> QED BY <1>1, <1>2, PTL DEF Spec, VersionSpec

LEMMA PollerRefined == Spec => PollerSpec
<1>1. [Next]_vars => [PollerNext]_pollerVars
  <2> SUFFICES ASSUME [Next]_vars PROVE [PollerNext]_pollerVars OBVIOUS
  <2>1. CASE Stream BY <2>1 DEF Stream, PollerNext
  <2>2. CASE UNCHANGED pollerVars BY <2>2
  <2>3. UNCHANGED vars => UNCHANGED pollerVars BY DEF vars
  <2>4. Next => Stream \/ UNCHANGED pollerVars
    BY DEF Next, Agent, OnlySettings, Show, OnlyShow, Replay, OnlyReplay, CheckUpdate, OnlyVersion,
           Convert, OnlyLegacy
  <2> QED BY <2>1, <2>2, <2>3, <2>4
<1>2. Init => PollerInit BY DEF Init
<1>3. Fairness => PollerFairness BY PTL DEF Fairness
<1> QED BY <1>1, <1>2, <1>3, PTL DEF Spec, PollerSpec

LEMMA LegacyRefined == Spec => LegacySpec
<1>1. [Next]_vars => [LegacyNext]_legacyVars
  <2> SUFFICES ASSUME [Next]_vars PROVE [LegacyNext]_legacyVars OBVIOUS
  <2>1. CASE Convert BY <2>1 DEF Convert
  <2>2. CASE UNCHANGED legacyVars BY <2>2
  <2>3. UNCHANGED vars => UNCHANGED legacyVars BY DEF vars
  <2>4. Next => Convert \/ UNCHANGED legacyVars
    BY DEF Next, Agent, OnlySettings, Show, OnlyShow, Replay, OnlyReplay, CheckUpdate, OnlyVersion,
           Stream, OnlyPoller
  <2> QED BY <2>1, <2>2, <2>3, <2>4
<1>2. Init => LegacyInit BY DEF Init
<1> QED BY <1>1, <1>2, PTL DEF Spec, LegacySpec

LEMMA ValidatorRefined == Spec => ValidatorSpec
<1>1. [Next]_vars => [ValidatorNext]_validatorVars
  BY DEF Next, Agent, vars
<1>2. Init => ValidatorInit BY DEF Init
<1> QED BY <1>1, <1>2, PTL DEF Spec, ValidatorSpec

(* Whatever command the program runs, it behaves as that command does alone:
   nothing the commands share breaks what holds of each. *)
THEOREM EveryCommandIsItself ==
  Spec => ShowSpec /\ ReplaySpec /\ VersionSpec /\ PollerSpec /\ LegacySpec /\ ValidatorSpec
  BY ShowRefined, ReplayRefined, VersionRefined, PollerRefined, LegacyRefined, ValidatorRefined, Zenon

----------------------------------------------------------------------------
(* The settings *)

(* What LoadConfig makes of a setting. *)
Layer(k) == IF getEnv(k) = "none" THEN FromFile(k) ELSE getEnv(k)

(* The value is that of the highest source that gave one. *)
Highest(k, value) ==
    IF Offered(k) = {} THEN value \in {"default", "flagDefault"}
    ELSE \E i \in Offered(k) : value = Order[i] /\ \A j \in Offered(k) : j <= i

LEMMA EffectiveIsHighest ==
  EffectiveSettings <=> (stage = "run" => \A k \in ReadBy(invocation.command) :
                                             Overlaid(k) => Highest(k, cfg[k]))
  BY Zenon DEF EffectiveSettings, HighestWins, Highest

(* File, the two prefixes and the flag, each over those before, where all four
   are looked at. *)
LEMMA FourSources ==
  ASSUME NEW k \in Keys, Overlaid(k), NEW value,
         value = IF Given(k, "flag") THEN "flag" ELSE Layer(k)
  PROVE  Highest(k, value)
<1>1. /\ DOMAIN Order = 1 .. 4
      /\ Order[1] = "file" /\ Order[2] = "evr" /\ Order[3] = "nevr" /\ Order[4] = "flag"
  BY DEF Order
<1>2. \A i : i \in Offered(k) <=> /\ i \in 1 .. 4 /\ Given(k, Order[i])
                                  /\ Order[i] = "file" => invocation.config = "readable"
  BY <1>1, Zenon DEF Offered
<1>3. 4 \in Offered(k) <=> Given(k, "flag") BY <1>1, <1>2
<1>4. 3 \in Offered(k) <=> Given(k, "nevr") BY <1>1, <1>2
<1>5. 2 \in Offered(k) <=> Given(k, "evr") BY <1>1, <1>2
<1>6. 1 \in Offered(k) <=> Given(k, "file") /\ invocation.config = "readable" BY <1>1, <1>2
<1>7. \A i \in Offered(k) : i = 1 \/ i = 2 \/ i = 3 \/ i = 4 BY <1>2
<1>8. Layer(k) = IF Given(k, "nevr") THEN "nevr" ELSE IF Given(k, "evr") THEN "evr" ELSE FromFile(k)
  BY DEF Layer, getEnv, Overlaid
<1>9. CASE 4 \in Offered(k)
  <2>1. value = Order[4] /\ \A j \in Offered(k) : j <= 4 BY <1>1, <1>3, <1>7, <1>9
  <2> QED BY <1>9, <2>1, Zenon DEF Highest
<1>10. CASE 4 \notin Offered(k) /\ 3 \in Offered(k)
  <2>1. value = Order[3] /\ \A j \in Offered(k) : j <= 3 BY <1>1, <1>3, <1>4, <1>7, <1>8, <1>10
  <2> QED BY <1>10, <2>1, Zenon DEF Highest
<1>11. CASE 4 \notin Offered(k) /\ 3 \notin Offered(k) /\ 2 \in Offered(k)
  <2>1. value = Order[2] /\ \A j \in Offered(k) : j <= 2
    BY <1>1, <1>3, <1>4, <1>5, <1>7, <1>8, <1>11
  <2> QED BY <1>11, <2>1, Zenon DEF Highest
<1>12. CASE 4 \notin Offered(k) /\ 3 \notin Offered(k) /\ 2 \notin Offered(k)
  <2>1. value = FromFile(k) BY <1>3, <1>4, <1>5, <1>8, <1>12
  <2>2. CASE 1 \in Offered(k)
    <3>1. value = Order[1] BY <1>1, <1>6, <2>1, <2>2 DEF FromFile
    <3>2. \A j \in Offered(k) : j <= 1 BY <1>7, <1>12
    <3> QED BY <2>2, <3>1, <3>2, Zenon DEF Highest
  <2>3. CASE 1 \notin Offered(k)
    <3>1. Offered(k) = {} BY <1>7, <1>12, <2>3
    <3>2. value = "default" BY <1>6, <2>1, <2>3 DEF FromFile
    <3> QED BY <3>1, <3>2 DEF Highest
  <2> QED BY <2>2, <2>3
<1> QED BY <1>9, <1>10, <1>11, <1>12

(* What a command makes of the settings LoadConfig left is what it reads; of
   two settings the flags alone decide. *)
LEMMA OwnFlagsComeLast ==
  ASSUME NEW command \in Commands, NEW c,
         Highest("LogLevel", c["LogLevel"]),
         command = "stream" =>
            c["JWTToken"] = IF Given("JWTToken", "flag") THEN "flag" ELSE Layer("JWTToken"),
         command = "replay" => c["Loop"] = IF Given("Loop", "flag") THEN "flag" ELSE Layer("Loop")
  PROVE  \A k \in ReadBy(command) : Overlaid(k) => Highest(k, c[k])
<1>1. "JWTToken" \in Keys /\ "Loop" \in Keys BY DEF Keys
<1>2. command = "stream" /\ Overlaid("JWTToken") => Highest("JWTToken", c["JWTToken"])
  BY <1>1, FourSources
<1>3. command = "replay" /\ Overlaid("Loop") => Highest("Loop", c["Loop"]) BY <1>1, FourSources
<1>4. ~Overlaid("Frequency") /\ ~Overlaid("Format") BY DEF Overlaid
<1>5. ReadBy(command) = {"LogLevel"} \cup (IF command = "stream" THEN {"JWTToken", "Frequency"}
                                          ELSE IF command = "replay" THEN {"Loop"}
                                          ELSE IF command = "convert" THEN {"Format"} ELSE {})
  BY DEF ReadBy
<1> QED BY <1>2, <1>3, <1>4, <1>5

(* The settings while they are made.  A command's own flags come last, so
   until then what it reads is still as LoadConfig left it. *)
OverlayInv ==
    /\ stage = "loaded" => \A k \in Keys : cfg[k] = Layer(k)
    /\ stage = "ready" => Highest("LogLevel", cfg["LogLevel"]) /\ \A k \in Keys \ {"LogLevel"} : cfg[k] = Layer(k)
    /\ stage = "run" => \A k \in ReadBy(invocation.command) : Overlaid(k) => Highest(k, cfg[k])

StartInv ==
    /\ stage \in {"start", "loaded", "ready", "run", "started", "failed"}
    /\ invocation \in Invocations /\ cfg \in [Keys -> Origins]

(* The ports to scan are those of the arguments, and all of these are good. *)
TargetInv ==
    /\ ~(stage = "run" /\ invocation.command = "stream") => targets = NoTargets
    /\ stage = "run" /\ invocation.command = "stream" =>
          /\ \A i \in DOMAIN invocation.arguments : parseHostPort(invocation.arguments[i]).ok
          /\ targets = TargetsOf(invocation.arguments)

SettingsIInv == StartInv /\ OverlayInv /\ TargetInv

LEMMA LayerIsOrigin == ASSUME NEW k \in Keys PROVE Layer(k) \in Origins
  BY DEF Layer, getEnv, FromFile, Origins, Sources

(* What reads only the invocation does not change with the stage. *)
LEMMA SameInvocation ==
  ASSUME invocation' = invocation
  PROVE  \A k : /\ Layer(k)' = Layer(k) /\ (Overlaid(k)' <=> Overlaid(k))
                /\ Highest(k, cfg[k])' <=> Highest(k, cfg'[k])
<1> TAKE k
<1>1. Layer(k)' = Layer(k) BY DEF Layer, getEnv, FromFile, Given
<1>2. Offered(k)' = Offered(k) BY DEF Offered, Given, Order
<1>3. Highest(k, cfg[k])' <=> Highest(k, cfg'[k]) BY <1>2 DEF Highest, Order
<1>4. Overlaid(k)' <=> Overlaid(k) BY DEF Overlaid, Given
<1> QED BY <1>1, <1>3, <1>4

LEMMA SettingsInitIInv == SettingsInit => SettingsIInv
  BY DEF SettingsInit, SettingsIInv, StartInv, OverlayInv, TargetInv, Origins

LEMMA LoadConfigKeepsIInv ==
  ASSUME SettingsIInv, LoadConfig
  PROVE  SettingsIInv'
<1>1. /\ UNCHANGED <<invocation, targets>> /\ stage = "start"
      /\ \/ stage' = "failed" /\ cfg' = cfg
         \/ stage' = "loaded" /\ cfg' = [k \in Keys |-> Layer(k)]
  BY Zenon DEF LoadConfig, Layer
<1>2. StartInv'
  <2>1. cfg' \in [Keys -> Origins] BY <1>1, LayerIsOrigin DEF SettingsIInv, StartInv
  <2> QED BY <1>1, <2>1 DEF SettingsIInv, StartInv
<1>3. OverlayInv'
  <2>1. stage' = "loaded" => \A k \in Keys : cfg'[k] = Layer(k) BY <1>1
  <2>2. \A k : Layer(k)' = Layer(k) BY <1>1, SameInvocation
  <2> QED BY <1>1, <2>1, <2>2, Zenon DEF OverlayInv
<1>4. TargetInv' BY <1>1 DEF SettingsIInv, TargetInv, NoTargets
<1> QED BY <1>2, <1>3, <1>4 DEF SettingsIInv

LEMMA PreRunKeepsIInv ==
  ASSUME SettingsIInv, NEW opens \in BOOLEAN, PersistentPreRun(opens)
  PROVE  SettingsIInv'
<1>1. /\ UNCHANGED <<invocation, targets>> /\ stage = "loaded" /\ stage' \in {"ready", "failed"}
      /\ cfg' = [cfg EXCEPT !["LogLevel"] = FlagIfGiven("LogLevel")]
  BY DEF PersistentPreRun, NewLogger
<1>2. cfg \in [Keys -> Origins] /\ "LogLevel" \in Keys
  BY DEF SettingsIInv, StartInv, Keys
<1>3. FlagIfGiven("LogLevel") \in Origins BY <1>2 DEF FlagIfGiven, Origins, Sources
<1>4. /\ cfg'["LogLevel"] = FlagIfGiven("LogLevel") /\ cfg' \in [Keys -> Origins]
      /\ \A k \in Keys \ {"LogLevel"} : cfg'[k] = cfg[k]
  BY <1>1, <1>2, <1>3
<1>5. \A k \in Keys : cfg[k] = Layer(k) BY <1>1 DEF SettingsIInv, OverlayInv
<1>6. Highest("LogLevel", cfg'["LogLevel"])
  <2>1. cfg'["LogLevel"] = IF Given("LogLevel", "flag") THEN "flag" ELSE Layer("LogLevel")
    BY <1>2, <1>4, <1>5 DEF FlagIfGiven
  <2>2. Overlaid("LogLevel") BY DEF Overlaid
  <2> QED BY <1>2, <2>1, <2>2, FourSources
<1>7. OverlayInv'
  <2>1. \A k : Layer(k)' = Layer(k) /\ (Highest(k, cfg[k])' <=> Highest(k, cfg'[k]))
    BY <1>1, SameInvocation
  <2> QED BY <1>1, <1>4, <1>5, <1>6, <2>1 DEF OverlayInv
<1>8. StartInv' BY <1>1, <1>4 DEF SettingsIInv, StartInv
<1>9. TargetInv' BY <1>1 DEF SettingsIInv, TargetInv, NoTargets
<1> QED BY <1>7, <1>8, <1>9 DEF SettingsIInv

LEMMA RunAgentKeepsIInv ==
  ASSUME SettingsIInv, NEW mkdir \in BOOLEAN, RunAgent(mkdir)
  PROVE  SettingsIInv'
<1> DEFINE good == \A i \in DOMAIN invocation.arguments : parseHostPort(invocation.arguments[i]).ok
           over == [cfg EXCEPT !["Frequency"] = FlagAnyway("Frequency"),
                               !["JWTToken"] = FlagIfGiven("JWTToken")]
<1>1. /\ invocation' = invocation /\ stage = "ready" /\ invocation.command = "stream" /\ cfg' = over
      /\ \/ stage' = "run" /\ good /\ targets' = TargetsOf(invocation.arguments)
         \/ stage' = "failed" /\ targets' = targets
  BY Zenon DEF RunAgent
<1>2. /\ cfg \in [Keys -> Origins] /\ "LogLevel" \in Keys /\ "JWTToken" \in Keys /\ "Frequency" \in Keys
      /\ cfg["JWTToken"] = Layer("JWTToken") /\ Highest("LogLevel", cfg["LogLevel"])
      /\ invocation.command \in Commands
  BY <1>1, SettingsAssumption
     DEF SettingsIInv, StartInv, OverlayInv, Keys, SettingsAssumption, Invocation
<1>3. FlagAnyway("Frequency") \in Origins /\ FlagIfGiven("JWTToken") \in Origins
  BY <1>2 DEF FlagAnyway, FlagIfGiven, Origins, Sources
<1>4. /\ over["LogLevel"] = cfg["LogLevel"] /\ over["Frequency"] = FlagAnyway("Frequency")
      /\ over["JWTToken"] = FlagIfGiven("JWTToken") /\ over \in [Keys -> Origins]
  BY <1>2, <1>3
<1> HIDE DEF over
<1>5. \A k \in ReadBy(invocation.command) : Overlaid(k) => Highest(k, cfg'[k])
  BY <1>1, <1>2, <1>4, OwnFlagsComeLast DEF FlagIfGiven
<1>6. OverlayInv'
  <2>1. \A k : (Overlaid(k)' <=> Overlaid(k)) /\ (Highest(k, cfg[k])' <=> Highest(k, cfg'[k]))
    BY <1>1, SameInvocation
  <2> QED BY <1>1, <1>5, <2>1 DEF OverlayInv
<1>7. StartInv' BY <1>1, <1>4 DEF SettingsIInv, StartInv
<1>8. TargetInv'
  <2>1. stage' = "run" => good /\ targets' = TargetsOf(invocation.arguments) BY <1>1
  <2>2. TargetsOf(invocation.arguments)' = TargetsOf(invocation.arguments) BY <1>1, Zenon DEF TargetsOf
  <2>3. stage' = "run" \/ stage' = "failed" BY <1>1
  <2>4. targets = NoTargets BY <1>1 DEF SettingsIInv, TargetInv
  <2>5. stage' = "failed" => targets' = NoTargets BY <1>1, <2>4
  <2> HIDE DEF good
  <2>6. good' <=> good BY <1>1 DEF good
  <2>7. NoTargets' = NoTargets BY DEF NoTargets
  <2> QED BY <1>1, <2>1, <2>2, <2>3, <2>5, <2>6, <2>7, Zenon DEF TargetInv, good
<1> QED BY <1>6, <1>7, <1>8 DEF SettingsIInv

LEMMA RunOtherKeepsIInv ==
  ASSUME SettingsIInv, RunOther
  PROVE  SettingsIInv'
<1> DEFINE over == CASE invocation.command = "replay"  -> [cfg EXCEPT !["Loop"] = FlagIfGiven("Loop")]
                     [] invocation.command = "convert" -> [cfg EXCEPT !["Format"] = FlagAnyway("Format")]
                     [] OTHER -> cfg
<1>1. /\ UNCHANGED <<invocation, targets>> /\ stage = "ready" /\ invocation.command # "stream"
      /\ cfg' = over /\ stage' \in {"run", "failed"}
  BY DEF RunOther
<1>2. /\ cfg \in [Keys -> Origins] /\ "LogLevel" \in Keys /\ "Loop" \in Keys /\ "Format" \in Keys
      /\ cfg["Loop"] = Layer("Loop") /\ Highest("LogLevel", cfg["LogLevel"])
      /\ invocation.command \in Commands
  BY <1>1, SettingsAssumption
     DEF SettingsIInv, StartInv, OverlayInv, Keys, SettingsAssumption, Invocation
<1>3. FlagAnyway("Format") \in Origins /\ FlagIfGiven("Loop") \in Origins
  BY <1>2 DEF FlagAnyway, FlagIfGiven, Origins, Sources
<1>4. /\ over["LogLevel"] = cfg["LogLevel"] /\ over \in [Keys -> Origins]
      /\ invocation.command = "replay" => over["Loop"] = FlagIfGiven("Loop")
      /\ invocation.command = "convert" => over["Format"] = FlagAnyway("Format")
  <2>1. CASE invocation.command = "replay" BY <1>2, <1>3, <2>1
  <2>2. CASE invocation.command = "convert" BY <1>2, <1>3, <2>2
  <2>3. CASE invocation.command \notin {"replay", "convert"}
    <3>1. over = cfg BY <2>3
    <3> QED BY <1>2, <2>3, <3>1
  <2> QED BY <2>1, <2>2, <2>3
<1> HIDE DEF over
<1>5. \A k \in ReadBy(invocation.command) : Overlaid(k) => Highest(k, cfg'[k])
  BY <1>1, <1>2, <1>4, OwnFlagsComeLast DEF FlagIfGiven
<1>6. OverlayInv'
  <2>1. \A k : (Overlaid(k)' <=> Overlaid(k)) /\ (Highest(k, cfg[k])' <=> Highest(k, cfg'[k]))
    BY <1>1, SameInvocation
  <2> QED BY <1>1, <1>5, <2>1 DEF OverlayInv
<1>7. StartInv' BY <1>1, <1>4 DEF SettingsIInv, StartInv
<1>8. TargetInv' BY <1>1 DEF SettingsIInv, TargetInv, NoTargets
<1> QED BY <1>6, <1>7, <1>8 DEF SettingsIInv

LEMMA HandOverKeepsIInv ==
  ASSUME SettingsIInv, NEW command \in Commands, HandOver(command)
  PROVE  SettingsIInv'
<1>1. /\ stage' = "started" /\ cfg' = [k \in Keys |-> "default"] /\ targets' = NoTargets
      /\ invocation' = Anything(command) /\ invocation \in Invocations /\ invocation.command = command
  BY DEF HandOver, SettingsIInv, StartInv
<1>2. Anything(command) \in Invocations BY <1>1, Zenon DEF Anything
<1>3. StartInv' BY <1>1, <1>2 DEF StartInv, Origins
<1>4. OverlayInv' BY <1>1 DEF OverlayInv
<1>5. TargetInv' BY <1>1 DEF TargetInv, NoTargets
<1> QED BY <1>3, <1>4, <1>5 DEF SettingsIInv

LEMMA SettingsStepKeepsIInv == SettingsIInv /\ [Next]_vars => SettingsIInv'
<1> SUFFICES ASSUME SettingsIInv, [Next]_vars PROVE SettingsIInv' OBVIOUS
<1>1. CASE UNCHANGED settingsVars
  <2> USE <1>1 DEF settingsVars, SettingsIInv
  <2>1. StartInv' BY DEF StartInv
  <2>2. OverlayInv'
    <3>1. \A k : /\ Layer(k)' = Layer(k) /\ (Overlaid(k)' <=> Overlaid(k))
                 /\ Highest(k, cfg[k])' <=> Highest(k, cfg'[k])
      BY SameInvocation
    <3> QED BY <3>1 DEF OverlayInv
  <2>3. TargetInv'
    <3>1. TargetsOf(invocation.arguments)' = TargetsOf(invocation.arguments) BY Zenon DEF TargetsOf
    <3> QED BY <3>1 DEF TargetInv, NoTargets
  <2> QED BY <2>1, <2>2, <2>3
<1>2. CASE SettingsNext
  BY <1>2, LoadConfigKeepsIInv, PreRunKeepsIInv, RunAgentKeepsIInv, RunOtherKeepsIInv DEF SettingsNext
<1>3. CASE \E command \in Commands : HandOver(command) BY <1>3, HandOverKeepsIInv
<1>4. SettingsNext \/ UNCHANGED settingsVars \/ \E command \in Commands : HandOver(command)
  <2>1. CASE UNCHANGED vars BY <2>1 DEF vars
  <2>2. CASE Show BY <2>2 DEF Show, Commands
  <2>3. CASE Replay BY <2>3 DEF Replay, Commands
  <2>4. CASE CheckUpdate BY <2>4 DEF CheckUpdate, Commands
  <2>5. CASE Stream BY <2>5 DEF Stream, Commands
  <2>6. CASE Convert BY <2>6 DEF Convert, Commands
  <2>7. Next => SettingsNext \/ UNCHANGED settingsVars \/ Show \/ Replay \/ CheckUpdate \/ Stream \/ Convert
    BY DEF Next, Agent
  <2> QED BY <2>1, <2>2, <2>3, <2>4, <2>5, <2>6, <2>7
<1> QED BY <1>1, <1>2, <1>3, <1>4

(* Where all sources are looked at, a command finds the setting at the value of
   the highest in the documented order that gave one, for every command line,
   file and environment. *)
THEOREM SettingsAreEffective == Spec => []EffectiveSettings
<1>1. SettingsIInv => EffectiveSettings BY EffectiveIsHighest DEF SettingsIInv, OverlayInv
<1>2. Init => SettingsIInv BY SettingsInitIInv DEF Init
<1> QED BY <1>1, <1>2, SettingsStepKeepsIInv, PTL DEF Spec

----------------------------------------------------------------------------
(* The ports to scan *)

(* Induction over an interval, for a set: the set of the numbers for which
   something holds takes the place of the something. *)
LEMMA IntervalInduction ==
  ASSUME NEW n \in Nat, NEW S, 0 \in S, \A i \in 1 .. n : i - 1 \in S => i \in S
  PROVE  0 .. n \subseteq S
<1> DEFINE missing == {i \in 0 .. n : i \notin S}
<1>1. CASE missing = {} BY <1>1
<1>2. CASE missing # {}
  <2>1. missing \in SUBSET Nat OBVIOUS
  <2> HIDE DEF missing
  <2>2. PICK m \in missing : \A i \in missing : m <= i BY <1>2, <2>1, LeastExists
  <2> USE DEF missing
  <2>3. m \in 1 .. n /\ m \notin S BY <2>2
  <2>4. m - 1 \in 0 .. n /\ ~(m <= m - 1) BY <2>3
  <2>5. m - 1 \in S BY <2>2, <2>4
  <2> QED BY <2>3, <2>5
<1> QED BY <1>1, <1>2

(* A function whose value at a number is made from that at the number before
   exists. *)
Recursive(f, n, base, step) == f[0] = base /\ \A i \in 1 .. n : f[i] = step[i][f[i - 1]]

LEMMA RecursionExists ==
  \A n, X, base, step : n \in Nat /\ base \in X /\ step \in [1 .. n -> [X -> X]] =>
     \E f : f \in [0 .. n -> X] /\ Recursive(f, n, base, step)
<1> SUFFICES ASSUME NEW n, NEW X, NEW base, NEW step,
                    n \in Nat, base \in X, step \in [1 .. n -> [X -> X]]
             PROVE  \E f : f \in [0 .. n -> X] /\ Recursive(f, n, base, step)
  OBVIOUS
<1> DEFINE Made(m) == \E f \in [0 .. m -> X] : f[0] = base /\ \A i \in 1 .. m : f[i] = step[i][f[i - 1]]
           S == {m \in 0 .. n : Made(m)}
<1>1. 0 \in S
  <2> DEFINE f == [i \in 0 .. 0 |-> base]
  <2>1. f \in [0 .. 0 -> X] /\ f[0] = base /\ 1 .. 0 = {} OBVIOUS
  <2> HIDE DEF f
  <2>2. Made(0) BY <2>1
  <2> QED BY <2>2
<1>2. \A m \in 1 .. n : m - 1 \in S => m \in S
  <2> SUFFICES ASSUME NEW m \in 1 .. n, m - 1 \in S PROVE Made(m)
    <3>1. \A m \in 1 .. n : m \in 0 .. n OBVIOUS
    <3> HIDE DEF Made
    <3> QED BY <3>1
  <2>1. PICK f \in [0 .. m - 1 -> X] : f[0] = base /\ \A i \in 1 .. m - 1 : f[i] = step[i][f[i - 1]]
    OBVIOUS
  <2> DEFINE g == [i \in 0 .. m |-> IF i = m THEN step[m][f[m - 1]] ELSE f[i]]
  <2>2. m - 1 \in 0 .. m - 1 /\ m - 1 \in 0 .. m /\ m \in 0 .. m /\ 0 \in 0 .. m - 1 /\ 0 \in 0 .. m /\ m # 0
        /\ m - 1 # m
    OBVIOUS
  <2>3. step[m][f[m - 1]] \in X BY <2>2
  <2>4. \A i \in 0 .. m : i # m => i \in 0 .. m - 1 OBVIOUS
  <2>5. g \in [0 .. m -> X] BY <2>3, <2>4
  <2>6. g[0] = base BY <2>1, <2>2
  <2>7. ASSUME NEW i \in 1 .. m PROVE g[i] = step[i][g[i - 1]]
    <3>1. CASE i = m
      <4>1. g[m] = step[m][f[m - 1]] /\ g[m - 1] = f[m - 1] BY <2>2
      <4> HIDE DEF g
      <4> QED BY <3>1, <4>1
    <3>2. CASE i # m
      <4>1. i \in 1 .. m - 1 /\ i \in 0 .. m /\ i - 1 \in 0 .. m /\ i - 1 # m BY <3>2
      <4>2. g[i] = f[i] /\ g[i - 1] = f[i - 1] BY <3>2, <4>1
      <4> HIDE DEF g
      <4> QED BY <2>1, <4>1, <4>2
    <3> QED BY <3>1, <3>2
  <2> HIDE DEF g
  <2> QED BY <2>5, <2>6, <2>7
<1>3. 0 .. n \subseteq S
  <2> HIDE DEF S
  <2> QED BY <1>1, <1>2, IntervalInduction
<1>4. Made(n) BY <1>3
<1> QED BY <1>4, Zenon DEF Recursive

(* The elements of a sequence. *)
Elements(s) == {s[i] : i \in DOMAIN s}

LEMMA ElementsOfConcat ==
  ASSUME NEW X, NEW s \in Seq(X), NEW t \in Seq(X)
  PROVE  Elements(s \o t) = Elements(s) \cup Elements(t)
<1>1. /\ s \o t \in Seq(X) /\ Len(s \o t) = Len(s) + Len(t)
      /\ \A i \in 1 .. Len(s) : (s \o t)[i] = s[i]
      /\ \A i \in 1 .. Len(t) : (s \o t)[Len(s) + i] = t[i]
  <2>1. s \o t \in Seq(X) /\ Len(s \o t) = Len(s) + Len(t) BY ConcatProperties, Zenon
  <2>2. \A i \in 1 .. Len(s) + Len(t) : (s \o t)[i] = IF i <= Len(s) THEN s[i] ELSE t[i - Len(s)]
    BY ConcatProperties, Zenon
  <2>3. Len(s) \in Nat /\ Len(t) \in Nat BY LenProperties
  <2>4. \A i \in 1 .. Len(s) : i \in 1 .. Len(s) + Len(t) /\ i <= Len(s) BY <2>3
  <2>5. \A i \in 1 .. Len(t) : /\ Len(s) + i \in 1 .. Len(s) + Len(t)
                               /\ ~(Len(s) + i <= Len(s)) /\ Len(s) + i - Len(s) = i
    BY <2>3
  <2>6. \A i \in 1 .. Len(s) : (s \o t)[i] = s[i] BY <2>2, <2>4
  <2>7. ASSUME NEW i \in 1 .. Len(t) PROVE (s \o t)[Len(s) + i] = t[i]
    <3> DEFINE k == Len(s) + i
    <3>1. k \in 1 .. Len(s) + Len(t) /\ ~(k <= Len(s)) /\ k - Len(s) = i BY <2>5
    <3> HIDE DEF k
    <3>2. (s \o t)[k] = IF k <= Len(s) THEN s[k] ELSE t[k - Len(s)] BY <2>2, <3>1, Zenon
    <3>3. (s \o t)[k] = t[k - Len(s)] BY <3>1, <3>2, Zenon
    <3> QED BY <3>1, <3>3, Zenon DEF k
  <2> QED BY <2>1, <2>6, <2>7
<1>2. /\ DOMAIN s = 1 .. Len(s) /\ DOMAIN t = 1 .. Len(t) /\ DOMAIN (s \o t) = 1 .. Len(s) + Len(t)
      /\ Len(s) \in Nat /\ Len(t) \in Nat
  BY <1>1, LenProperties
<1>3. \A i \in 1 .. Len(s) + Len(t) : i \in 1 .. Len(s) \/ \E j \in 1 .. Len(t) : i = Len(s) + j
  <2> TAKE i \in 1 .. Len(s) + Len(t)
  <2>1. CASE i <= Len(s) BY <1>2, <2>1
  <2>2. CASE ~(i <= Len(s))
    <3>1. i - Len(s) \in 1 .. Len(t) /\ i = Len(s) + (i - Len(s)) BY <1>2, <2>2
    <3> QED BY <3>1
  <2> QED BY <2>1, <2>2
<1>4. \A i \in 1 .. Len(s) : i \in 1 .. Len(s) + Len(t) BY <1>2
<1>5. \A j \in 1 .. Len(t) : Len(s) + j \in 1 .. Len(s) + Len(t) BY <1>2
<1>6. \A x : x \in Elements(s \o t) <=> x \in Elements(s) \/ x \in Elements(t)
  <2> TAKE x
  <2>1. x \in Elements(s \o t) <=> \E i \in 1 .. Len(s) + Len(t) : x = (s \o t)[i]
    BY <1>2, Zenon DEF Elements
  <2>2. x \in Elements(s) <=> \E i \in 1 .. Len(s) : x = s[i] BY <1>2, Zenon DEF Elements
  <2>3. x \in Elements(t) <=> \E i \in 1 .. Len(t) : x = t[i] BY <1>2, Zenon DEF Elements
  <2>4. ASSUME NEW i \in 1 .. Len(s) + Len(t), x = (s \o t)[i]
        PROVE  x \in Elements(s) \/ x \in Elements(t)
    BY <1>1, <1>3, <2>2, <2>3, <2>4, Zenon
  <2>5. ASSUME NEW i \in 1 .. Len(s), x = s[i] PROVE x \in Elements(s \o t)
    BY <1>1, <1>4, <2>1, <2>5, Zenon
  <2>6. ASSUME NEW i \in 1 .. Len(t), x = t[i] PROVE x \in Elements(s \o t)
    BY <1>1, <1>5, <2>1, <2>6, Zenon
  <2> QED BY <2>1, <2>2, <2>3, <2>4, <2>5, <2>6, Zenon
<1> QED BY <1>6, Zenon

LEMMA ElementsOfNone == Elements(<<>>) = {}
  BY DEF Elements

(* A part of a port list is good if it names only ports. *)
GoodPart(part) ==
    part.form # "junk" /\ (part.form = "range" => part.lo <= part.hi /\ part.lo .. part.hi \subseteq 0 .. MaxPort)

NamedBy(part) == IF part.form = "range" THEN part.lo .. part.hi ELSE {}

LEMMA PortsOfPart ==
  ASSUME NEW part \in PortPart, part.form = "range" => part.lo <= part.hi
  PROVE  PortsOf(part) \in Seq(Int) /\ Elements(PortsOf(part)) = NamedBy(part)
<1>1. CASE part.form # "range" BY <1>1, ElementsOfNone DEF PortsOf, NamedBy
<1>2. CASE part.form = "range"
  <2> DEFINE lo == part.lo
             n == part.hi - part.lo + 1
  <2>1. lo \in Int /\ part.hi \in Int /\ n \in Nat BY <1>2 DEF PortPart
  <2>2. PortsOf(part) = [i \in 1 .. n |-> lo + i - 1] BY <1>2, Zenon DEF PortsOf
  <2>3. NamedBy(part) = lo .. part.hi BY <1>2 DEF NamedBy
  <2>4. \A i \in 1 .. n : lo + i - 1 \in lo .. part.hi BY <2>1
  <2>5. \A p \in lo .. part.hi : p - lo + 1 \in 1 .. n /\ p = lo + (p - lo + 1) - 1 BY <2>1
  <2> HIDE DEF lo, n
  <2>6. PortsOf(part) \in Seq(Int)
    <3>1. \A i \in 1 .. n : lo + i - 1 \in Int BY <2>1
    <3> QED BY <2>1, <2>2, <3>1, IsASeq
  <2>7. Elements(PortsOf(part)) = {lo + i - 1 : i \in 1 .. n} BY <2>2 DEF Elements
  <2>8. {lo + i - 1 : i \in 1 .. n} = lo .. part.hi BY <2>4, <2>5
  <2> QED BY <2>3, <2>6, <2>7, <2>8
<1> QED BY <1>1, <1>2

(* One turn of the loop of parsePortRange, and what all its turns make. *)
PartStep(parts, i, before) ==
    LET part == parts[i]
        ports == before.ports \o PortsOf(part)
    IN  IF \/ ~before.ok \/ part.form = "junk"
           \/ part.form = "range" /\ part.lo > part.hi
           \/ \E j \in DOMAIN ports : ports[j] \notin 0 .. MaxPort
        THEN Malformed ELSE [ok |-> TRUE, ports |-> ports]

ParseBody(parts, f, i) ==
    IF i = 0 THEN [ok |-> TRUE, ports |-> <<>>] ELSE PartStep(parts, i, f[i - 1])

Parsed(parts) == CHOOSE f : f = [i \in 0 .. Len(parts) |-> ParseBody(parts, f, i)]

LEMMA ParseUnfolds ==
  ASSUME NEW parts \in Seq(PortPart)
  PROVE  /\ parsePortRange(parts) = Parsed(parts)[Len(parts)]
         /\ Parsed(parts)[0] = [ok |-> TRUE, ports |-> <<>>]
         /\ \A i \in 1 .. Len(parts) : Parsed(parts)[i] = PartStep(parts, i, Parsed(parts)[i - 1])
<1> DEFINE N == Len(parts)
           base == [ok |-> TRUE, ports |-> <<>>]
           X == {Malformed} \cup [ok : {TRUE}, ports : Seq(Int)]
           step == [i \in 1 .. N |-> [x \in X |-> PartStep(parts, i, x)]]
<1>1. N \in Nat BY LenProperties
<1>2. base \in X
  <2>1. <<>> \in Seq(Int) BY EmptySeq
  <2> QED BY <2>1
<1>3. ASSUME NEW i \in 1 .. N, NEW x \in X PROVE PartStep(parts, i, x) \in X
  <2> DEFINE part == parts[i]
             ports == x.ports \o PortsOf(part)
  <2>1. PartStep(parts, i, x) =
          IF \/ ~x.ok \/ part.form = "junk"
             \/ part.form = "range" /\ part.lo > part.hi
             \/ \E j \in DOMAIN ports : ports[j] \notin 0 .. MaxPort
          THEN Malformed ELSE [ok |-> TRUE, ports |-> ports]
    BY Zenon DEF PartStep
  <2>2. part \in PortPart BY ElementOfSeq
  <2> HIDE DEF part
  <2>3. CASE x = Malformed \/ (part.form = "range" /\ part.lo > part.hi)
    <3>1. x = Malformed => ~x.ok BY DEF Malformed
    <3>2. PartStep(parts, i, x) = Malformed BY <2>1, <2>3, <3>1, Zenon
    <3> QED BY <3>2
  <2>4. CASE x \in [ok : {TRUE}, ports : Seq(Int)] /\ ~(part.form = "range" /\ part.lo > part.hi)
    <3>1. part.lo \in Int /\ part.hi \in Int BY <2>2 DEF PortPart
    <3>2. PortsOf(part) \in Seq(Int) BY <2>2, <2>4, <3>1, PortsOfPart
    <3>3. x.ports \in Seq(Int) BY <2>4
    <3>4. ports \in Seq(Int) BY <3>2, <3>3, ConcatProperties
    <3> HIDE DEF ports
    <3>5. [ok |-> TRUE, ports |-> ports] \in X BY <3>4
    <3>6. Malformed \in X OBVIOUS
    <3> HIDE DEF X
    <3> QED BY <2>1, <3>5, <3>6, Zenon
  <2> QED BY <2>3, <2>4
<1> HIDE DEF X, base
<1>4. step \in [1 .. N -> [X -> X]] BY <1>3
<1> HIDE DEF step
<1>5. PICK f \in [0 .. N -> X] : f[0] = base /\ \A i \in 1 .. N : f[i] = step[i][f[i - 1]]
  <2>1. \E f : f \in [0 .. N -> X] /\ Recursive(f, N, base, step)
    BY <1>1, <1>2, <1>4, RecursionExists, Zenon
  <2> QED BY <2>1, Zenon DEF Recursive
<1> USE DEF step
<1>6. \A i \in 0 .. N : f[i] = ParseBody(parts, f, i)
  <2> TAKE i \in 0 .. N
  <2>1. CASE i = 0 BY <1>5, <2>1 DEF ParseBody, base
  <2>2. CASE i # 0
    <3>1. i \in 1 .. N /\ i - 1 \in 0 .. N BY <1>1, <2>2
    <3>2. f[i - 1] \in X BY <3>1
    <3>3. f[i] = PartStep(parts, i, f[i - 1]) BY <1>5, <3>1, <3>2
    <3> QED BY <2>2, <3>3 DEF ParseBody
  <2> QED BY <2>1, <2>2
<1>7. f = [i \in 0 .. N |-> ParseBody(parts, f, i)]
  <2>1. f = [i \in 0 .. N |-> f[i]] OBVIOUS
  <2> QED BY <1>6, <2>1
<1>8. Parsed(parts) = [i \in 0 .. N |-> ParseBody(parts, Parsed(parts), i)]
  BY <1>7, Zenon DEF Parsed
<1>9. \A i \in 0 .. N : Parsed(parts)[i] = ParseBody(parts, Parsed(parts), i) BY <1>8
<1>10. parsePortRange(parts) = Parsed(parts)[N]
  BY Zenon DEF parsePortRange, Parsed, ParseBody, PartStep
<1> QED BY <1>1, <1>9, <1>10 DEF ParseBody

LEMMA SeqOfElements ==
  ASSUME NEW s \in Seq(Int), NEW X, Elements(s) \subseteq X
  PROVE  s \in Seq(X)
<1>1. Len(s) \in Nat /\ DOMAIN s = 1 .. Len(s) /\ s = [i \in 1 .. Len(s) |-> s[i]]
  BY LenProperties
<1>2. \A i \in 1 .. Len(s) : s[i] \in X BY <1>1 DEF Elements
<1>3. [i \in 1 .. Len(s) |-> s[i]] \in Seq(X) BY <1>1, <1>2, IsASeq
<1> QED BY <1>1, <1>3

(* The first i parts are good, or nothing is made of them. *)
ParsedRight(parts, i, result) ==
    \/ result = Malformed /\ \E j \in 1 .. i : ~GoodPart(parts[j])
    \/ /\ result.ok = TRUE /\ \A j \in 1 .. i : GoodPart(parts[j])
       /\ result.ports \in Seq(Int) /\ Elements(result.ports) \subseteq 0 .. MaxPort
       /\ Elements(result.ports) = UNION {NamedBy(parts[j]) : j \in 1 .. i}

LEMMA ParseStepIsRight ==
  ASSUME NEW parts \in Seq(PortPart), NEW i \in 1 .. Len(parts), NEW before,
         ParsedRight(parts, i - 1, before)
  PROVE  ParsedRight(parts, i, PartStep(parts, i, before))
<1> DEFINE part == parts[i]
           ports == before.ports \o PortsOf(part)
<1>1. part \in PortPart BY ElementOfSeq
<1>2. /\ i \in 1 .. i /\ i - 1 \in Nat
      /\ \A j : j \in 1 .. i <=> j \in 1 .. i - 1 \/ j = i
  OBVIOUS
<1>3. PartStep(parts, i, before) =
        IF \/ ~before.ok \/ part.form = "junk"
           \/ part.form = "range" /\ part.lo > part.hi
           \/ \E j \in DOMAIN ports : ports[j] \notin 0 .. MaxPort
        THEN Malformed ELSE [ok |-> TRUE, ports |-> ports]
  BY Zenon DEF PartStep
<1> HIDE DEF part
<1>4. CASE before = Malformed /\ \E j \in 1 .. i - 1 : ~GoodPart(parts[j])
  <2>1. ~before.ok BY <1>4 DEF Malformed
  <2>2. PartStep(parts, i, before) = Malformed BY <1>3, <2>1, Zenon
  <2> QED BY <1>2, <1>4, <2>2 DEF ParsedRight
<1>5. CASE /\ before.ok = TRUE /\ \A j \in 1 .. i - 1 : GoodPart(parts[j])
           /\ before.ports \in Seq(Int) /\ Elements(before.ports) \subseteq 0 .. MaxPort
           /\ Elements(before.ports) = UNION {NamedBy(parts[j]) : j \in 1 .. i - 1}
  <2>1. CASE part.form = "junk" \/ (part.form = "range" /\ part.lo > part.hi)
    <3>1. ~GoodPart(part)
      <4>1. part.lo \in Int /\ part.hi \in Int BY <1>1 DEF PortPart
      <4> QED BY <2>1, <4>1 DEF GoodPart
    <3>2. PartStep(parts, i, before) = Malformed BY <1>3, <2>1, Zenon
    <3> QED BY <1>2, <3>1, <3>2, Zenon DEF ParsedRight, part
  <2>2. CASE part.form # "junk" /\ (part.form = "range" => part.lo <= part.hi)
    <3>1. PortsOf(part) \in Seq(Int) /\ Elements(PortsOf(part)) = NamedBy(part)
      BY <1>1, <2>2, PortsOfPart
    <3>2. ports \in Seq(Int) /\ Elements(ports) = Elements(before.ports) \cup NamedBy(part)
      BY <1>5, <3>1, ElementsOfConcat, ConcatProperties
    <3>3. ~(part.form = "range" /\ part.lo > part.hi)
      <4>1. part.lo \in Int /\ part.hi \in Int BY <1>1 DEF PortPart
      <4> QED BY <2>2, <4>1
    <3> HIDE DEF ports
    <3>4. (\E j \in DOMAIN ports : ports[j] \notin 0 .. MaxPort) <=> ~(Elements(ports) \subseteq 0 .. MaxPort)
      BY Zenon DEF Elements
    <3>5. Elements(ports) \subseteq 0 .. MaxPort <=> NamedBy(part) \subseteq 0 .. MaxPort
      BY <1>5, <3>2, Zenon
    <3>6. NamedBy(part) \subseteq 0 .. MaxPort <=> GoodPart(part)
      BY <2>2, Zenon DEF NamedBy, GoodPart
    <3>7. CASE GoodPart(part)
      <4> DEFINE result == [ok |-> TRUE, ports |-> ports]
      <4>1. PartStep(parts, i, before) = result
        BY <1>3, <1>5, <2>2, <3>3, <3>4, <3>5, <3>6, <3>7, Zenon
      <4>2. result.ok = TRUE /\ result.ports = ports OBVIOUS
      <4> HIDE DEF result
      <4>3. \A j \in 1 .. i : GoodPart(parts[j]) BY <1>2, <1>5, <3>7, Zenon DEF part
      <4>4. Elements(ports) = UNION {NamedBy(parts[j]) : j \in 1 .. i}
        <5>1. UNION {NamedBy(parts[j]) : j \in 1 .. i}
                = (UNION {NamedBy(parts[j]) : j \in 1 .. i - 1}) \cup NamedBy(parts[i])
          BY <1>2, Zenon
        <5> QED BY <1>5, <3>2, <5>1, Zenon DEF part
      <4> QED BY <3>2, <3>5, <3>6, <3>7, <4>1, <4>2, <4>3, <4>4, Zenon DEF ParsedRight
    <3>8. CASE ~GoodPart(part)
      <4>1. PartStep(parts, i, before) = Malformed BY <1>3, <3>4, <3>5, <3>6, <3>8, Zenon
      <4> QED BY <1>2, <3>8, <4>1, Zenon DEF ParsedRight, part
    <3> QED BY <3>7, <3>8
  <2>3. part.lo \in Int /\ part.hi \in Int BY <1>1 DEF PortPart
  <2> QED BY <2>1, <2>2, <2>3
<1> QED BY <1>4, <1>5, Zenon DEF ParsedRight

(* parsePortRange takes a list of good parts and nothing else, and makes of it
   the ports it names. *)
LEMMA ParseIsRight ==
  ASSUME NEW parts \in Seq(PortPart)
  PROVE  ParsedRight(parts, Len(parts), parsePortRange(parts))
<1> DEFINE N == Len(parts)
           S == {i \in 0 .. N : ParsedRight(parts, i, Parsed(parts)[i])}
<1>1. N \in Nat BY LenProperties
<1>2. 0 \in S
  <2>1. Parsed(parts)[0] = [ok |-> TRUE, ports |-> <<>>] BY ParseUnfolds
  <2>2. <<>> \in Seq(Int) BY EmptySeq
  <2>3. 1 .. 0 = {} OBVIOUS
  <2>4. UNION {NamedBy(parts[j]) : j \in 1 .. 0} = {} BY <2>3, Zenon
  <2>5. [ok |-> TRUE, ports |-> <<>>].ok = TRUE /\ [ok |-> TRUE, ports |-> <<>>].ports = <<>> OBVIOUS
  <2>6. ParsedRight(parts, 0, Parsed(parts)[0])
    BY <2>1, <2>2, <2>3, <2>4, <2>5, ElementsOfNone, Zenon DEF ParsedRight
  <2>7. 0 \in 0 .. N BY <1>1
  <2> QED BY <2>6, <2>7
<1>3. \A i \in 1 .. N : i - 1 \in S => i \in S
  <2> SUFFICES ASSUME NEW i \in 1 .. N, i - 1 \in S PROVE i \in S OBVIOUS
  <2>1. Parsed(parts)[i] = PartStep(parts, i, Parsed(parts)[i - 1]) BY ParseUnfolds, Zenon
  <2>2. ParsedRight(parts, i - 1, Parsed(parts)[i - 1]) OBVIOUS
  <2>3. ParsedRight(parts, i, Parsed(parts)[i]) BY <2>1, <2>2, ParseStepIsRight
  <2> QED BY <1>1, <2>3
<1>4. N \in S
  <2> HIDE DEF S
  <2>1. 0 .. N \subseteq S BY <1>1, <1>2, <1>3, IntervalInduction
  <2>2. N \in 0 .. N BY <1>1
  <2> QED BY <2>1, <2>2
<1>5. parsePortRange(parts) = Parsed(parts)[N] BY ParseUnfolds, Zenon
<1> QED BY <1>4, <1>5

(* One turn of the loop over the arguments, and what all its turns make. *)
TargetStep(arguments, i, before) ==
    [before EXCEPT ![arguments[i].host] = parseHostPort(arguments[i]).ports]

TargetBody(arguments, f, i) ==
    IF i = 0 THEN NoTargets ELSE TargetStep(arguments, i, f[i - 1])

Targeted(arguments) == CHOOSE f : f = [i \in 0 .. Len(arguments) |-> TargetBody(arguments, f, i)]

LEMMA TargetsUnfold ==
  ASSUME NEW arguments, Len(arguments) \in Nat
  PROVE  /\ TargetsOf(arguments) = Targeted(arguments)[Len(arguments)]
         /\ Targeted(arguments)[0] = NoTargets
         /\ \A i \in 1 .. Len(arguments) :
               Targeted(arguments)[i] = TargetStep(arguments, i, Targeted(arguments)[i - 1])
<1> DEFINE N == Len(arguments)
           Given1 == {parseHostPort(arguments[i]).ports : i \in 1 .. N} \cup {<<>>}
           X == [Hosts -> Given1]
           step == [i \in 1 .. N |-> [x \in X |-> TargetStep(arguments, i, x)]]
<1>1. NoTargets \in X BY DEF NoTargets
<1>2. ASSUME NEW i \in 1 .. N, NEW x \in X PROVE TargetStep(arguments, i, x) \in X
  <2>1. parseHostPort(arguments[i]).ports \in Given1 OBVIOUS
  <2> HIDE DEF Given1
  <2> QED BY <2>1 DEF TargetStep
<1> HIDE DEF X
<1>3. step \in [1 .. N -> [X -> X]] BY <1>2
<1> HIDE DEF step
<1>4. PICK f \in [0 .. N -> X] : f[0] = NoTargets /\ \A i \in 1 .. N : f[i] = step[i][f[i - 1]]
  <2>1. N \in Nat OBVIOUS
  <2>2. \E f : f \in [0 .. N -> X] /\ Recursive(f, N, NoTargets, step)
    BY <1>1, <1>3, <2>1, RecursionExists, Zenon
  <2> QED BY <2>2, Zenon DEF Recursive
<1> USE DEF step
<1>5. \A i \in 0 .. N : f[i] = TargetBody(arguments, f, i)
  <2> TAKE i \in 0 .. N
  <2>1. CASE i = 0 BY <1>4, <2>1 DEF TargetBody
  <2>2. CASE i # 0
    <3>1. i \in 1 .. N /\ i - 1 \in 0 .. N BY <2>2
    <3>2. f[i] = TargetStep(arguments, i, f[i - 1]) BY <1>4, <3>1
    <3> QED BY <2>2, <3>2 DEF TargetBody
  <2> QED BY <2>1, <2>2
<1>6. f = [i \in 0 .. N |-> TargetBody(arguments, f, i)]
  <2>1. f = [i \in 0 .. N |-> f[i]] OBVIOUS
  <2> QED BY <1>5, <2>1
<1>7. Targeted(arguments) = [i \in 0 .. N |-> TargetBody(arguments, Targeted(arguments), i)]
  BY <1>6, Zenon DEF Targeted
<1>8. \A i \in 0 .. N : Targeted(arguments)[i] = TargetBody(arguments, Targeted(arguments), i) BY <1>7
<1>9. TargetsOf(arguments) = Targeted(arguments)[N]
  BY Zenon DEF TargetsOf, Targeted, TargetBody, TargetStep
<1> QED BY <1>8, <1>9 DEF TargetBody

(* After i arguments a host has the ports of its last one. *)
TargetedRight(arguments, i, result) ==
    /\ result = [h \in Hosts |-> result[h]]
    /\ \A h \in Hosts :
          /\ (\A k \in 1 .. i : arguments[k].host # h) => result[h] = <<>>
          /\ \A k \in 1 .. i :
                arguments[k].host = h /\ (\A j \in k + 1 .. i : arguments[j].host # h)
                   => result[h] = parseHostPort(arguments[k]).ports

LEMMA TargetStepIsRight ==
  ASSUME NEW arguments, Len(arguments) \in Nat, NEW i \in 1 .. Len(arguments), NEW before,
         TargetedRight(arguments, i - 1, before)
  PROVE  TargetedRight(arguments, i, TargetStep(arguments, i, before))
<1> DEFINE own == arguments[i].host
           result == TargetStep(arguments, i, before)
<1>1. /\ result = [h \in DOMAIN before |-> result[h]]
      /\ \A h \in DOMAIN before : h # own => result[h] = before[h]
      /\ own \in DOMAIN before => result[own] = parseHostPort(arguments[i]).ports
  BY DEF TargetStep
<1> HIDE DEF own, result
<1>2. DOMAIN before = Hosts BY DEF TargetedRight
<1>3. /\ i \in 1 .. i /\ \A k \in 1 .. i : k = i \/ k \in 1 .. i - 1
      /\ \A k \in 1 .. i - 1 : k \in 1 .. i /\ i \in k + 1 .. i
      /\ \A k \in 1 .. i - 1 : \A j \in k + 1 .. i - 1 : j \in k + 1 .. i
  OBVIOUS
<1>4. ASSUME NEW h \in Hosts
      PROVE  /\ (\A k \in 1 .. i : arguments[k].host # h) => result[h] = <<>>
             /\ \A k \in 1 .. i :
                   arguments[k].host = h /\ (\A j \in k + 1 .. i : arguments[j].host # h)
                      => result[h] = parseHostPort(arguments[k]).ports
  <2>1. CASE h = own
    <3>1. result[h] = parseHostPort(arguments[i]).ports BY <1>1, <1>2, <2>1
    <3>2. arguments[i].host = h BY <2>1 DEF own
    <3> QED BY <1>3, <3>1, <3>2, Zenon
  <2>2. CASE h # own
    <3>1. result[h] = before[h] BY <1>1, <1>2, <2>2
    <3>2. arguments[i].host # h BY <2>2 DEF own
    <3>3. (\A k \in 1 .. i - 1 : arguments[k].host # h) => before[h] = <<>>
      BY Zenon DEF TargetedRight
    <3>4. \A k \in 1 .. i - 1 :
             arguments[k].host = h /\ (\A j \in k + 1 .. i - 1 : arguments[j].host # h)
                => before[h] = parseHostPort(arguments[k]).ports
      BY Zenon DEF TargetedRight
    <3> QED BY <1>3, <3>1, <3>2, <3>3, <3>4, Zenon
  <2> QED BY <2>1, <2>2
<1>5. TargetedRight(arguments, i, result) BY <1>1, <1>2, <1>4, Zenon DEF TargetedRight
<1> QED BY <1>5 DEF result

LEMMA TargetsAreRight ==
  ASSUME NEW arguments, Len(arguments) \in Nat
  PROVE  TargetedRight(arguments, Len(arguments), TargetsOf(arguments))
<1> DEFINE N == Len(arguments)
           S == {i \in 0 .. N : TargetedRight(arguments, i, Targeted(arguments)[i])}
<1>1. 0 \in S
  <2>1. Targeted(arguments)[0] = NoTargets BY TargetsUnfold
  <2>2. 1 .. 0 = {} OBVIOUS
  <2>3. NoTargets = [h \in Hosts |-> NoTargets[h]] /\ \A h \in Hosts : NoTargets[h] = <<>>
    BY DEF NoTargets
  <2>4. TargetedRight(arguments, 0, NoTargets) BY <2>2, <2>3, Zenon DEF TargetedRight
  <2> QED BY <2>1, <2>4
<1>2. \A i \in 1 .. N : i - 1 \in S => i \in S
  <2> SUFFICES ASSUME NEW i \in 1 .. N, i - 1 \in S PROVE i \in S OBVIOUS
  <2>1. Targeted(arguments)[i] = TargetStep(arguments, i, Targeted(arguments)[i - 1])
    BY TargetsUnfold, Zenon
  <2>2. TargetedRight(arguments, i - 1, Targeted(arguments)[i - 1]) OBVIOUS
  <2>3. TargetedRight(arguments, i, Targeted(arguments)[i]) BY <2>1, <2>2, TargetStepIsRight
  <2> QED BY <2>3
<1>3. N \in S
  <2> HIDE DEF S
  <2>1. 0 .. N \subseteq S BY <1>1, <1>2, IntervalInduction
  <2>2. N \in 0 .. N OBVIOUS
  <2> QED BY <2>1, <2>2
<1>4. TargetsOf(arguments) = Targeted(arguments)[N] BY TargetsUnfold, Zenon
<1> QED BY <1>3, <1>4

LEMMA LastExists ==
  ASSUME NEW n \in Nat, NEW K \in SUBSET (1 .. n), K # {}
  PROVE  \E k \in K : \A j \in K : j <= k
<1> DEFINE S == {n - k : k \in K}
<1>1. S \in SUBSET Nat /\ S # {}
  <2>1. \A k \in K : n - k \in Nat OBVIOUS
  <2>2. \E k \in K : n - k \in S BY Zenon
  <2> QED BY <2>1, <2>2
<1> HIDE DEF S
<1>2. PICK m \in S : \A j \in S : m <= j BY <1>1, LeastExists
<1> USE DEF S
<1>3. PICK k \in K : m = n - k OBVIOUS
<1>4. \A j \in K : n - k <= n - j BY <1>2, <1>3
<1>5. \A j \in K : j <= k BY <1>4
<1> QED BY <1>5

LEMMA ArgumentTypes ==
  ASSUME SettingsIInv
  PROVE  /\ invocation \in Invocation /\ invocation.arguments \in Seq(Argument)
         /\ Len(invocation.arguments) \in Nat
         /\ DOMAIN invocation.arguments = 1 .. Len(invocation.arguments)
         /\ \A i \in 1 .. Len(invocation.arguments) :
               invocation.arguments[i] \in Argument /\ invocation.arguments[i].parts \in Seq(PortPart)
<1>1. invocation \in Invocation
  BY SettingsAssumption DEF SettingsAssumption, SettingsIInv, StartInv
<1>2. invocation.arguments \in Seq(Argument) BY <1>1 DEF Invocation
<1>3. \A i \in 1 .. Len(invocation.arguments) : invocation.arguments[i] \in Argument
  BY <1>2, ElementOfSeq
<1>4. \A a \in Argument : a.parts \in Seq(PortPart) BY DEF Argument
<1> QED BY <1>1, <1>2, <1>3, <1>4, LenProperties

(* An argument that is accepted is good, and gives the ports it names. *)
LEMMA AcceptedIsGood ==
  ASSUME NEW a, a.parts \in Seq(PortPart), parseHostPort(a).ok
  PROVE  /\ a.colons = 1 /\ \A j \in 1 .. Len(a.parts) : GoodPart(a.parts[j])
         /\ parseHostPort(a).ports \in Seq(0 .. MaxPort)
         /\ Elements(parseHostPort(a).ports) = Named(a)
<1>1. ~Malformed.ok BY DEF Malformed
<1>2. a.colons = 1 /\ parseHostPort(a) = parsePortRange(a.parts) BY <1>1 DEF parseHostPort
<1> DEFINE n == Len(a.parts)
           result == parsePortRange(a.parts)
<1>3. ParsedRight(a.parts, n, result) BY ParseIsRight
<1>4. result.ok BY <1>2
<1>5. DOMAIN a.parts = 1 .. n BY LenProperties
<1> HIDE DEF n, result
<1>6. /\ \A j \in 1 .. n : GoodPart(a.parts[j])
      /\ result.ports \in Seq(Int) /\ Elements(result.ports) \subseteq 0 .. MaxPort
      /\ Elements(result.ports) = UNION {NamedBy(a.parts[j]) : j \in 1 .. n}
  BY <1>1, <1>3, <1>4, Zenon DEF ParsedRight
<1>7. result.ports \in Seq(0 .. MaxPort) BY <1>6, SeqOfElements
<1>8. UNION {NamedBy(a.parts[j]) : j \in 1 .. n} = Named(a)
  <2>1. Named(a) = UNION {a.parts[i].lo .. a.parts[i].hi : i \in {j \in 1 .. n : a.parts[j].form = "range"}}
    BY <1>5, Zenon DEF Named
  <2>2. \A j : NamedBy(a.parts[j]) = IF a.parts[j].form = "range"
                                     THEN a.parts[j].lo .. a.parts[j].hi ELSE {}
    BY DEF NamedBy
  <2>3. \A x : x \in Named(a) <=>
           \E j \in 1 .. n : a.parts[j].form = "range" /\ x \in a.parts[j].lo .. a.parts[j].hi
    BY <2>1, Zenon
  <2>4. \A x : x \in UNION {NamedBy(a.parts[j]) : j \in 1 .. n} <=>
           \E j \in 1 .. n : a.parts[j].form = "range" /\ x \in a.parts[j].lo .. a.parts[j].hi
    BY <2>2, Zenon
  <2> QED BY <2>3, <2>4, Zenon
<1> QED BY <1>2, <1>6, <1>7, <1>8, Zenon DEF n, result

LEMMA TargetsOfAccepted ==
  ASSUME NEW arguments, Len(arguments) \in Nat, NEW h \in Hosts,
         \A i \in 1 .. Len(arguments) : arguments[i].parts \in Seq(PortPart) /\ parseHostPort(arguments[i]).ok
  PROVE  LET lasts == {j \in 1 .. Len(arguments) :
                          /\ arguments[j].host = h
                          /\ \A k \in 1 .. Len(arguments) : arguments[k].host = h => k <= j}
         IN  /\ TargetsOf(arguments)[h] \in Seq(0 .. MaxPort)
             /\ Elements(TargetsOf(arguments)[h]) = UNION {Named(arguments[i]) : i \in lasts}
<1> DEFINE n == Len(arguments)
           t == TargetsOf(arguments)[h]
           own == {k \in 1 .. n : arguments[k].host = h}
           lasts == {j \in 1 .. n : arguments[j].host = h /\ \A k \in 1 .. n : arguments[k].host = h => k <= j}
<1>1. /\ (\A k \in 1 .. n : arguments[k].host # h) => t = <<>>
      /\ \A k \in 1 .. n : arguments[k].host = h /\ (\A j \in k + 1 .. n : arguments[j].host # h)
                              => t = parseHostPort(arguments[k]).ports
  <2>1. TargetedRight(arguments, n, TargetsOf(arguments)) BY TargetsAreRight
  <2> HIDE DEF n
  <2> QED BY <2>1, Zenon DEF TargetedRight
<1> HIDE DEF t
<1>2. CASE own = {}
  <2>1. \A k \in 1 .. n : arguments[k].host # h BY <1>2
  <2>2. lasts = {} BY <2>1
  <2>3. t = <<>> BY <1>1, <2>1
  <2>4. t \in Seq(0 .. MaxPort) BY <2>3, EmptySeq
  <2>5. Elements(t) = UNION {Named(arguments[i]) : i \in lasts}
    <3> HIDE DEF lasts
    <3> QED BY <2>2, <2>3, ElementsOfNone, Zenon
  <2> QED BY <2>4, <2>5, Zenon DEF t
<1>3. CASE own # {}
  <2>1. own \in SUBSET (1 .. n) OBVIOUS
  <2> HIDE DEF own
  <2>2. PICK k \in own : \A j \in own : j <= k BY <1>3, <2>1, LastExists
  <2> USE DEF own
  <2>3. k \in 1 .. n /\ arguments[k].host = h /\ \A j \in 1 .. n : arguments[j].host = h => j <= k
    BY <2>2
  <2>4. \A j \in k + 1 .. n : arguments[j].host # h BY <2>3
  <2>5. t = parseHostPort(arguments[k]).ports BY <1>1, <2>3, <2>4, Zenon
  <2>6. lasts = {k}
    <3>1. k \in lasts BY <2>3
    <3>2. \A j \in lasts : j <= k /\ k <= j BY <2>3
    <3> QED BY <3>1, <3>2
  <2>7. t \in Seq(0 .. MaxPort) /\ Elements(t) = Named(arguments[k])
    BY <2>3, <2>5, AcceptedIsGood
  <2>8. Elements(t) = UNION {Named(arguments[i]) : i \in lasts}
    <3> HIDE DEF lasts
    <3> QED BY <2>6, <2>7, Zenon
  <2> QED BY <2>7, <2>8, Zenon DEF t
<1> QED BY <1>2, <1>3

LEMMA IInvGivesTargets == SettingsIInv => TargetsAreNamed
<1> SUFFICES ASSUME SettingsIInv, stage = "run", invocation.command = "stream"
             PROVE  TargetsAreNamed
  BY DEF TargetsAreNamed
<1> DEFINE arguments == invocation.arguments
           n == Len(arguments)
           lasts(h) == {j \in 1 .. n : arguments[j].host = h /\ \A k \in 1 .. n : arguments[k].host = h => k <= j}
<1>1. /\ n \in Nat /\ DOMAIN arguments = 1 .. n
      /\ \A i \in 1 .. n : arguments[i] \in Argument /\ arguments[i].parts \in Seq(PortPart)
  BY ArgumentTypes
<1>2. /\ \A i \in 1 .. n : parseHostPort(arguments[i]).ok
      /\ targets = TargetsOf(arguments)
  BY <1>1 DEF SettingsIInv, TargetInv
<1> HIDE DEF arguments
<1>3. ASSUME NEW h \in Hosts
      PROVE  {targets[h][i] : i \in DOMAIN targets[h]} = UNION {Named(arguments[i]) : i \in lasts(h)}
  <2>1. Elements(targets[h]) = UNION {Named(arguments[i]) : i \in lasts(h)}
    BY <1>1, <1>2, TargetsOfAccepted
  <2> QED BY <2>1, Zenon DEF Elements
<1>4. ASSUME NEW i \in 1 .. n
      PROVE  /\ arguments[i].colons = 1 /\ Named(arguments[i]) \subseteq 0 .. MaxPort
             /\ \A j \in DOMAIN arguments[i].parts :
                   /\ arguments[i].parts[j].form # "junk"
                   /\ arguments[i].parts[j].form = "range" =>
                         arguments[i].parts[j].lo <= arguments[i].parts[j].hi
  <2> DEFINE a == arguments[i]
  <2>1. a.parts \in Seq(PortPart) /\ parseHostPort(a).ok BY <1>1, <1>2
  <2>2. DOMAIN a.parts = 1 .. Len(a.parts) BY <2>1, LenProperties
  <2> HIDE DEF a
  <2>3. /\ a.colons = 1 /\ \A j \in 1 .. Len(a.parts) : GoodPart(a.parts[j])
        /\ parseHostPort(a).ports \in Seq(0 .. MaxPort)
        /\ Elements(parseHostPort(a).ports) = Named(a)
    BY <2>1, AcceptedIsGood
  <2>4. Named(a) \subseteq 0 .. MaxPort
    <3>1. ASSUME NEW s \in Seq(0 .. MaxPort) PROVE Elements(s) \subseteq 0 .. MaxPort
      <4>1. DOMAIN s = 1 .. Len(s) BY LenProperties, Zenon
      <4>2. \A k \in 1 .. Len(s) : s[k] \in 0 .. MaxPort BY ElementOfSeq, Zenon
      <4> QED BY <4>1, <4>2, Zenon DEF Elements
    <3> QED BY <2>3, <3>1
  <2> QED BY <2>2, <2>3, <2>4, Zenon DEF GoodPart, a
<1> QED BY <1>1, <1>3, <1>4, Zenon DEF TargetsAreNamed, arguments

(* The ports that are scanned are those the arguments name, for arguments of
   any number and length: the loops over parts and arguments are unfolded by
   induction. *)
THEOREM ScannedPortsAreNamed == Spec => []TargetsAreNamed
<1>1. Init => SettingsIInv BY SettingsInitIInv DEF Init
<1> QED BY <1>1, IInvGivesTargets, SettingsStepKeepsIInv, PTL DEF Spec

LEMMA IInvGivesSettingsType == SettingsIInv => SettingsTypeOK
<1> SUFFICES ASSUME SettingsIInv PROVE SettingsTypeOK OBVIOUS
<1>1. invocation \in Invocation BY ArgumentTypes
<1>2. targets \in [Hosts -> Seq(0 .. MaxPort)]
  <2>1. CASE stage = "run" /\ invocation.command = "stream"
    <3> DEFINE arguments == invocation.arguments
               n == Len(arguments)
    <3>1. /\ n \in Nat /\ DOMAIN arguments = 1 .. n
          /\ \A i \in 1 .. n : arguments[i].parts \in Seq(PortPart) /\ parseHostPort(arguments[i]).ok
          /\ targets = TargetsOf(arguments)
      BY <2>1, ArgumentTypes DEF SettingsIInv, TargetInv
    <3> HIDE DEF arguments
    <3>2. \A h \in Hosts : targets[h] \in Seq(0 .. MaxPort) BY <3>1, TargetsOfAccepted
    <3>3. targets = [h \in Hosts |-> targets[h]]
      BY <3>1, TargetsAreRight, Zenon DEF TargetedRight
    <3> QED BY <3>2, <3>3
  <2>2. CASE ~(stage = "run" /\ invocation.command = "stream")
    <3>1. targets = NoTargets BY <2>2 DEF SettingsIInv, TargetInv
    <3>2. <<>> \in Seq(0 .. MaxPort) BY EmptySeq
    <3> QED BY <3>1, <3>2 DEF NoTargets
  <2> QED BY <2>1, <2>2
<1> QED BY <1>1, <1>2 DEF SettingsIInv, StartInv, SettingsTypeOK

----------------------------------------------------------------------------
(* The nevrcap format: the prefix of a message *)

(* Induction in which all smaller numbers may be used. *)
LEMMA StrongInduction ==
  ASSUME NEW n \in Nat, NEW S, \A m \in 0 .. n : (\A j \in 0 .. m - 1 : j \in S) => m \in S
  PROVE  0 .. n \subseteq S
<1> DEFINE missing == {i \in 0 .. n : i \notin S}
<1>1. CASE missing = {} BY <1>1
<1>2. CASE missing # {}
  <2>1. missing \in SUBSET Nat OBVIOUS
  <2> HIDE DEF missing
  <2>2. PICK m \in missing : \A i \in missing : m <= i BY <1>2, <2>1, LeastExists
  <2> USE DEF missing
  <2>3. m \in 0 .. n /\ m \notin S BY <2>2
  <2>4. \A j \in 0 .. m - 1 : j \in 0 .. n /\ ~(m <= j) BY <2>3
  <2>5. \A j \in 0 .. m - 1 : j \in S BY <2>2, <2>4
  <2> QED BY <2>3, <2>5
<1> QED BY <1>1, <1>2

(* The digits of a number in base Base. *)
LEMMA Digits ==
  ASSUME NEW n \in Nat
  PROVE  /\ n \div Base \in Nat /\ n % Base \in Nat /\ n % Base < Base
         /\ n = (n % Base) + Base * (n \div Base)
         /\ n < Base => n % Base = n /\ n \div Base = 0
         /\ n >= Base => n \div Base < n
         /\ ((n % Base) + Base) % Base = n % Base
<1>1. Base \in Nat \ {0, 1} BY LegacyAssumption DEF LegacyAssumption
<1>2. n \div Base \in Nat /\ n % Base \in Nat /\ n % Base < Base BY <1>1
<1>3. n = (n % Base) + Base * (n \div Base)
  <2>1. n = Base * (n \div Base) + (n % Base) BY <1>1
  <2> DEFINE q == n \div Base
             r == n % Base
             m == Base * q
  <2>2. m \in Nat /\ r \in Nat BY <1>1, <1>2
  <2>3. n = m + r BY <2>1
  <2> HIDE DEF m, r
  <2>4. n = r + m BY <2>2, <2>3
  <2> QED BY <2>4 DEF m, r
<1>4. n < Base => n % Base = n /\ n \div Base = 0 BY <1>1
<1>5. n >= Base => n \div Base < n BY <1>1
<1>6. ((n % Base) + Base) % Base = n % Base BY <1>1
<1> QED BY <1>2, <1>3, <1>4, <1>5, <1>6

LEMMA PowerUnfolds ==
  /\ Power[0] = 1
  /\ \A i \in 1 .. MaxPrefix : Power[i] = Base * Power[i - 1]
<1> DEFINE Body(f, i) == IF i = 0 THEN 1 ELSE Base * f[i - 1]
           step == [i \in 1 .. MaxPrefix |-> [x \in Nat |-> Base * x]]
<1>1. MaxPrefix \in Nat /\ Base \in Nat BY LegacyAssumption DEF LegacyAssumption
<1>2. step \in [1 .. MaxPrefix -> [Nat -> Nat]] /\ 1 \in Nat BY <1>1
<1> HIDE DEF step
<1>3. PICK f \in [0 .. MaxPrefix -> Nat] : f[0] = 1 /\ \A i \in 1 .. MaxPrefix : f[i] = step[i][f[i - 1]]
  <2>1. \E f : f \in [0 .. MaxPrefix -> Nat] /\ Recursive(f, MaxPrefix, 1, step)
    BY <1>1, <1>2, RecursionExists, Zenon
  <2> QED BY <2>1, Zenon DEF Recursive
<1> USE DEF step
<1>4. \A i \in 0 .. MaxPrefix : f[i] = Body(f, i)
  <2> TAKE i \in 0 .. MaxPrefix
  <2>1. CASE i = 0 BY <1>3, <2>1
  <2>2. CASE i # 0
    <3>1. i \in 1 .. MaxPrefix /\ i - 1 \in 0 .. MaxPrefix BY <1>1, <2>2
    <3>2. f[i] = Base * f[i - 1] BY <1>3, <3>1
    <3> QED BY <2>2, <3>2
  <2> QED BY <2>1, <2>2
<1> HIDE DEF Body
<1>5. f = [i \in 0 .. MaxPrefix |-> Body(f, i)]
  <2>1. f = [i \in 0 .. MaxPrefix |-> f[i]] OBVIOUS
  <2> QED BY <1>4, <2>1
<1> USE DEF Body
<1>6. Power = [i \in 0 .. MaxPrefix |-> Body(Power, i)] BY <1>5, Zenon DEF Power
<1> QED BY <1>1, <1>6

PrefixBody(f, n) == IF n < Base THEN <<n>> ELSE <<(n % Base) + Base>> \o f[n \div Base]

LEMMA PrefixUnfolds == \A n \in 0 .. MaxLength : Prefix[n] = PrefixBody(Prefix, n)
<1> DEFINE Made(m) == \E f : f = [n \in 0 .. m |-> PrefixBody(f, n)]
           S == {m \in 0 .. MaxLength : Made(m)}
<1>0. MaxLength \in Nat /\ Base \in Nat \ {0, 1} BY LegacyAssumption DEF LegacyAssumption
<1>1. 0 \in S
  <2> DEFINE f == [n \in 0 .. 0 |-> <<n>>]
  <2>1. \A n \in 0 .. 0 : PrefixBody(f, n) = <<n>>
    <3>1. \A n \in 0 .. 0 : n < Base BY <1>0
    <3> QED BY <3>1, Zenon DEF PrefixBody
  <2> HIDE DEF f
  <2>2. f = [n \in 0 .. 0 |-> PrefixBody(f, n)] BY <2>1 DEF f
  <2>3. Made(0) BY <2>2
  <2> QED BY <1>0, <2>3
<1>2. \A m \in 1 .. MaxLength : m - 1 \in S => m \in S
  <2> SUFFICES ASSUME NEW m \in 1 .. MaxLength, m - 1 \in S PROVE Made(m) BY <1>0
  <2>1. PICK f : f = [n \in 0 .. m - 1 |-> PrefixBody(f, n)] OBVIOUS
  <2> DEFINE g == [n \in 0 .. m |-> IF n = m THEN PrefixBody(f, m) ELSE f[n]]
  <2>2. \A n \in 0 .. m : n # m => n \in 0 .. m - 1 BY <1>0
  <2>3. \A n \in 0 .. m - 1 : g[n] = f[n]
    <3>1. \A n \in 0 .. m - 1 : n \in 0 .. m /\ n # m BY <1>0
    <3> QED BY <3>1
  <2>4. \A n \in 0 .. m : g[n] = PrefixBody(f, n)
    <3> HIDE DEF Made
    <3>1. \A n \in 0 .. m - 1 : f[n] = PrefixBody(f, n) BY <2>1
    <3> QED BY <2>2, <3>1
  <2>5. \A n \in 0 .. m : PrefixBody(f, n) = PrefixBody(g, n)
    <3> TAKE n \in 0 .. m
    <3>1. CASE n < Base BY <3>1 DEF PrefixBody
    <3>2. CASE ~(n < Base)
      <4>1. n \in Nat /\ n >= Base BY <1>0, <3>2
      <4>2. n \div Base \in 0 .. m - 1
        <5>1. n \div Base \in Nat /\ n \div Base < n BY <4>1, Digits
        <5> QED BY <1>0, <5>1
      <4>3. g[n \div Base] = f[n \div Base] BY <2>3, <4>2
      <4> HIDE DEF g
      <4> QED BY <3>2, <4>3, Zenon DEF PrefixBody
    <3> QED BY <3>1, <3>2
  <2>6. g = [n \in 0 .. m |-> g[n]] OBVIOUS
  <2> HIDE DEF g
  <2>7. g = [n \in 0 .. m |-> PrefixBody(g, n)] BY <2>4, <2>5, <2>6
  <2> QED BY <2>7
<1>3. Made(MaxLength)
  <2> HIDE DEF S
  <2>1. 0 .. MaxLength \subseteq S BY <1>0, <1>1, <1>2, IntervalInduction
  <2>2. MaxLength \in 0 .. MaxLength BY <1>0
  <2> USE DEF S
  <2> QED BY <2>1, <2>2
<1>4. Prefix = [n \in 0 .. MaxLength |-> PrefixBody(Prefix, n)] BY <1>3, Zenon DEF Prefix, PrefixBody
<1> QED BY <1>4

LEMMA PowerIsNat == \A i \in 0 .. MaxPrefix : Power[i] \in Nat
<1> DEFINE S == {i \in 0 .. MaxPrefix : Power[i] \in Nat}
<1>0. MaxPrefix \in Nat /\ Base \in Nat BY LegacyAssumption DEF LegacyAssumption
<1>1. 0 \in S BY <1>0, PowerUnfolds
<1>2. \A i \in 1 .. MaxPrefix : i - 1 \in S => i \in S BY <1>0, PowerUnfolds
<1>3. 0 .. MaxPrefix \subseteq S
  <2> HIDE DEF S
  <2> QED BY <1>0, <1>1, <1>2, IntervalInduction
<1> QED BY <1>3

(* A number of more than one digit: the first, then the others. *)
LEMMA LongPrefix ==
  ASSUME NEW n \in 0 .. MaxLength, n >= Base, Prefix[n \div Base] \in Seq(Nat)
  PROVE  /\ Prefix[n] \in Seq(Nat) /\ Len(Prefix[n]) = Len(Prefix[n \div Base]) + 1
         /\ Prefix[n][1] = (n % Base) + Base
         /\ \A i \in 1 .. Len(Prefix[n \div Base]) : Prefix[n][i + 1] = Prefix[n \div Base][i]
<1> DEFINE first == (n % Base) + Base
           rest == Prefix[n \div Base]
<1>1. MaxLength \in Nat /\ Base \in Nat BY LegacyAssumption DEF LegacyAssumption
<1>2. n \in Nat /\ ~(n < Base) BY <1>1
<1>3. first \in Nat BY <1>1, <1>2, Digits
<1>4. Prefix[n] = <<first>> \o rest BY <1>2, PrefixUnfolds, Zenon DEF PrefixBody
<1> HIDE DEF first, rest
<1>5. <<first>> \in Seq(Nat) /\ Len(<<first>>) = 1 /\ <<first>>[1] = first BY <1>3
<1>6. rest \in Seq(Nat) /\ Len(rest) \in Nat BY LenProperties DEF rest
<1>7. Prefix[n] \in Seq(Nat) /\ Len(Prefix[n]) = 1 + Len(rest) BY <1>4, <1>5, <1>6, ConcatProperties
<1>8. \A i \in 1 .. 1 + Len(rest) : Prefix[n][i] = IF i <= 1 THEN <<first>>[i] ELSE rest[i - 1]
  <2>1. \A i \in 1 .. Len(<<first>>) + Len(rest) :
           (<<first>> \o rest)[i] = IF i <= Len(<<first>>) THEN <<first>>[i] ELSE rest[i - Len(<<first>>)]
    BY <1>5, <1>6, ConcatProperties, Zenon
  <2> TAKE i \in 1 .. 1 + Len(rest)
  <2>2. i \in 1 .. Len(<<first>>) + Len(rest) BY <1>5
  <2>3. (<<first>> \o rest)[i] = IF i <= Len(<<first>>) THEN <<first>>[i] ELSE rest[i - Len(<<first>>)]
    BY <2>1, <2>2, Zenon
  <2>4. Len(<<first>>) = 1 BY <1>5
  <2> QED BY <1>4, <2>3, <2>4, Zenon
<1>9. Prefix[n][1] = first BY <1>5, <1>6, <1>8, SMTT(30)
<1>10. ASSUME NEW i \in 1 .. Len(rest) PROVE Prefix[n][i + 1] = rest[i]
  <2>1. i + 1 \in 1 .. 1 + Len(rest) /\ ~(i + 1 <= 1) /\ (i + 1) - 1 = i BY <1>6
  <2> DEFINE k == i + 1
  <2> HIDE DEF k
  <2>2. k \in 1 .. 1 + Len(rest) /\ ~(k <= 1) /\ k - 1 = i BY <2>1 DEF k
  <2>3. Prefix[n][k] = rest[k - 1] BY <1>8, <2>2, Zenon
  <2> QED BY <2>2, <2>3, Zenon DEF k
<1>11. Len(Prefix[n]) = Len(rest) + 1 BY <1>6, <1>7
<1> QED BY <1>7, <1>9, <1>10, <1>11, Zenon DEF first, rest

(* All bytes of a prefix but the last have the flag, and it is no longer than
   the number of digits its length needs. *)
PrefixShape(n) ==
    /\ Prefix[n] \in Seq(Nat) /\ Len(Prefix[n]) >= 1
    /\ Prefix[n][Len(Prefix[n])] < Base
    /\ \A i \in 1 .. Len(Prefix[n]) - 1 : Prefix[n][i] >= Base
    /\ \A j \in 1 .. MaxPrefix : n < Power[j] => Len(Prefix[n]) <= j

LEMMA PrefixesHaveShape == \A n \in 0 .. MaxLength : PrefixShape(n)
<1> DEFINE S == {n \in 0 .. MaxLength : PrefixShape(n)}
<1>0. MaxLength \in Nat /\ Base \in Nat \ {0, 1} /\ MaxPrefix \in Nat
  BY LegacyAssumption DEF LegacyAssumption
<1>1. ASSUME NEW n \in 0 .. MaxLength, \A m \in 0 .. n - 1 : m \in S
      PROVE  PrefixShape(n)
  <2>1. CASE n < Base
    <3>1. Prefix[n] = <<n>> BY <2>1, PrefixUnfolds, Zenon DEF PrefixBody
    <3>2. <<n>> \in Seq(Nat) /\ Len(<<n>>) = 1 /\ <<n>>[1] = n BY <1>0
    <3> QED BY <1>0, <2>1, <3>1, <3>2 DEF PrefixShape
  <2>2. CASE ~(n < Base)
    <3> DEFINE d == n \div Base
    <3>1. n \in Nat /\ n >= Base BY <1>0, <2>2
    <3>2. d \in Nat /\ d < n /\ n % Base \in Nat BY <3>1, Digits
    <3>3. d \in 0 .. n - 1 BY <1>0, <3>2
    <3>4. PrefixShape(d) BY <1>1, <3>3
    <3>5. Prefix[d] \in Seq(Nat) /\ Len(Prefix[d]) \in Nat /\ Len(Prefix[d]) >= 1
      BY <3>4, LenProperties DEF PrefixShape
    <3>6. /\ Prefix[n] \in Seq(Nat) /\ Len(Prefix[n]) = Len(Prefix[d]) + 1
          /\ Prefix[n][1] = (n % Base) + Base
          /\ \A i \in 1 .. Len(Prefix[d]) : Prefix[n][i + 1] = Prefix[d][i]
      BY <3>1, <3>5, LongPrefix
    <3>7. \A j \in 1 .. MaxPrefix : n < Power[j] => Len(Prefix[n]) <= j
      <4> SUFFICES ASSUME NEW j \in 1 .. MaxPrefix, n < Power[j] PROVE Len(Prefix[n]) <= j OBVIOUS
      <4>1. /\ j \in Nat /\ j - 1 \in 0 .. MaxPrefix /\ Power[j - 1] \in Nat
            /\ Power[j] = Base * Power[j - 1]
        BY <1>0, PowerIsNat, PowerUnfolds
      <4>2. d < Power[j - 1]
        <5> DEFINE q == Power[j - 1]
        <5>1. q \in Nat /\ n < Base * q BY <4>1
        <5> HIDE DEF q
        <5>2. n \div Base < q BY <1>0, <3>1, <5>1
        <5> QED BY <5>2 DEF q
      <4>3. j - 1 # 0
        <5> SUFFICES ASSUME j - 1 = 0 PROVE FALSE OBVIOUS
        <5>1. Power[j] = Base * 1 BY <4>1, PowerUnfolds
        <5> QED BY <1>0, <3>1, <5>1
      <4>4. j - 1 \in 1 .. MaxPrefix BY <1>0, <4>1, <4>3
      <4>5. Len(Prefix[d]) <= j - 1 BY <3>4, <4>2, <4>4 DEF PrefixShape
      <4> QED BY <3>5, <3>6, <4>1, <4>5
    <3> HIDE DEF d
    <3>8. Prefix[n][Len(Prefix[n])] < Base
      <4>1. Len(Prefix[d]) \in 1 .. Len(Prefix[d]) BY <3>5
      <4>2. Prefix[n][Len(Prefix[d]) + 1] = Prefix[d][Len(Prefix[d])] BY <3>6, <4>1, Zenon
      <4>3. Prefix[d][Len(Prefix[d])] < Base BY <3>4, Zenon DEF PrefixShape
      <4> QED BY <3>6, <4>2, <4>3, Zenon
    <3>9. ASSUME NEW i \in 1 .. Len(Prefix[n]) - 1 PROVE Prefix[n][i] >= Base
      <4>1. CASE i = 1 BY <1>0, <3>2, <3>6, <4>1
      <4>2. CASE i # 1
        <5>1. i - 1 \in 1 .. Len(Prefix[d]) - 1 /\ i - 1 \in 1 .. Len(Prefix[d]) /\ (i - 1) + 1 = i
          BY <3>5, <3>6, <4>2
        <5>2. Prefix[n][i] = Prefix[d][i - 1] BY <3>6, <5>1
        <5> QED BY <3>4, <5>1, <5>2 DEF PrefixShape
      <4> QED BY <4>1, <4>2
    <3>10. Len(Prefix[n]) >= 1 BY <3>5, <3>6
    <3> QED BY <3>6, <3>7, <3>8, <3>9, <3>10 DEF PrefixShape
  <2> QED BY <2>1, <2>2
<1>2. 0 .. MaxLength \subseteq S
  <2>1. \A n \in 0 .. MaxLength : (\A m \in 0 .. n - 1 : m \in S) => n \in S BY <1>1
  <2> HIDE DEF S
  <2> QED BY <1>0, <2>1, StrongInduction
<1> QED BY <1>2

LEMMA PrefixFits ==
  ASSUME NEW n \in 0 .. MaxLength
  PROVE  Len(Prefix[n]) \in 1 .. MaxPrefix
<1>1. MaxLength \in Nat /\ MaxPrefix \in Nat \ {0} /\ MaxLength < Power[MaxPrefix]
  BY LegacyAssumption DEF LegacyAssumption
<1>2. MaxPrefix \in 1 .. MaxPrefix /\ Power[MaxPrefix] \in Nat BY <1>1, PowerIsNat
<1>3. n < Power[MaxPrefix] BY <1>1, <1>2
<1>4. PrefixShape(n) BY PrefixesHaveShape
<1>5. Len(Prefix[n]) \in Nat BY <1>4, LenProperties DEF PrefixShape
<1> QED BY <1>1, <1>2, <1>3, <1>4, <1>5 DEF PrefixShape

(* The reader's way through a prefix, from its last byte to its first. *)
ReadBody(p, f, q) == IF q > p THEN 0 ELSE (bytes[q] % Base) + Base * f[q + 1]

LEMMA LengthReadUnfolds ==
  ASSUME offset \in Nat, NEW p \in Nat, p >= offset
  PROVE  \E f : LengthRead(p) = f[offset + 1] /\ \A q \in offset + 1 .. p + 1 : f[q] = ReadBody(p, f, q)
<1> DEFINE Made(m) == \E f : f = [q \in p + 1 - m .. p + 1 |-> ReadBody(p, f, q)]
           N == p - offset
           S == {m \in 0 .. N : Made(m)}
<1>0. N \in Nat OBVIOUS
<1> HIDE DEF N
<1>1. 0 \in S
  <2> DEFINE f == [q \in p + 1 - 0 .. p + 1 |-> 0]
  <2>1. \A q \in p + 1 - 0 .. p + 1 : ReadBody(p, f, q) = 0 BY DEF ReadBody
  <2> HIDE DEF f
  <2>2. f = [q \in p + 1 - 0 .. p + 1 |-> ReadBody(p, f, q)] BY <2>1 DEF f
  <2>3. Made(0) BY <2>2
  <2> HIDE DEF Made
  <2> QED BY <1>0, <2>3
<1>2. \A m \in 1 .. N : m - 1 \in S => m \in S
  <2> SUFFICES ASSUME NEW m \in 1 .. N, m - 1 \in S PROVE Made(m)
    <3>1. \A m \in 1 .. N : m \in 0 .. N BY <1>0
    <3> HIDE DEF Made
    <3> QED BY <3>1
  <2>0. m \in Nat BY <1>0
  <2>1. PICK f : f = [q \in p + 1 - (m - 1) .. p + 1 |-> ReadBody(p, f, q)] OBVIOUS
  <2> DEFINE lo == p + 1 - m
             g == [q \in lo .. p + 1 |-> IF q = lo THEN ReadBody(p, f, lo) ELSE f[q]]
  <2>2. \A q \in lo .. p + 1 : g[q] = ReadBody(p, g, q)
    <3> TAKE q \in lo .. p + 1
    <3>1. CASE q > p
      <4>1. q # lo /\ q \in p + 1 - (m - 1) .. p + 1 BY <2>0, <3>1
      <4>2. g[q] = f[q] BY <4>1
      <4>3. f[q] = ReadBody(p, f, q) BY <2>1, <4>1
      <4> HIDE DEF g
      <4> QED BY <3>1, <4>2, <4>3 DEF ReadBody
    <3>2. CASE ~(q > p)
      <4>1. q + 1 \in lo .. p + 1 /\ q + 1 # lo BY <2>0, <3>2
      <4>2. g[q + 1] = f[q + 1] BY <4>1
      <4>3. g[q] = ReadBody(p, f, q)
        <5>1. CASE q = lo BY <5>1
        <5>2. CASE q # lo
          <6>1. q \in p + 1 - (m - 1) .. p + 1 BY <2>0, <5>2
          <6>2. g[q] = f[q] BY <5>2
          <6>3. f[q] = ReadBody(p, f, q) BY <2>1, <6>1
          <6> QED BY <6>2, <6>3
        <5> QED BY <5>1, <5>2
      <4> HIDE DEF g
      <4> QED BY <3>2, <4>2, <4>3, Zenon DEF ReadBody
    <3> QED BY <3>1, <3>2
  <2>3. g = [q \in lo .. p + 1 |-> g[q]] OBVIOUS
  <2> HIDE DEF g
  <2>4. g = [q \in lo .. p + 1 |-> ReadBody(p, g, q)] BY <2>2, <2>3
  <2> QED BY <2>4
<1>3. Made(N)
  <2> HIDE DEF S
  <2>1. 0 .. N \subseteq S BY <1>0, <1>1, <1>2, IntervalInduction
  <2>2. N \in 0 .. N BY <1>0
  <2> USE DEF S
  <2> HIDE DEF Made
  <2> QED BY <2>1, <2>2
<1> DEFINE digits == CHOOSE f : f = [q \in offset + 1 .. p + 1 |-> ReadBody(p, f, q)]
<1>4. p + 1 - N = offset + 1 BY DEF N
<1>5. digits = [q \in offset + 1 .. p + 1 |-> ReadBody(p, digits, q)] BY <1>3, <1>4, Zenon
<1>6. LengthRead(p) = digits[offset + 1] BY Zenon DEF LengthRead, ReadBody
<1> HIDE DEF digits
<1>7. \A q \in offset + 1 .. p + 1 : digits[q] = ReadBody(p, digits, q) BY <1>5
<1> QED BY <1>6, <1>7

(* A reader that knows where the prefix of n ends makes n of it. *)
DigitsOf(f, lo, p) == \A q \in lo .. p + 1 : f[q] = ReadBody(p, f, q)

PrefixBetween(n, lo, p) ==
    p + 1 = lo + Len(Prefix[n]) /\ \A i \in 1 .. Len(Prefix[n]) : bytes[lo + i - 1] = Prefix[n][i]

LEMMA DigitsDecode ==
  ASSUME NEW p \in Nat, NEW lo \in Nat, NEW f, NEW n \in 0 .. MaxLength,
         DigitsOf(f, lo, p), PrefixBetween(n, lo, p)
  PROVE  f[lo] = n
<1> DEFINE Here(m, q) == PrefixBetween(m, q, p)
           S == {m \in 0 .. MaxLength : \A q \in lo .. p + 1 : Here(m, q) => f[q] = m}
<1>0. MaxLength \in Nat /\ Base \in Nat \ {0, 1} BY LegacyAssumption DEF LegacyAssumption
<1>1. ASSUME NEW m \in 0 .. MaxLength, \A j \in 0 .. m - 1 : j \in S,
             NEW q \in lo .. p + 1, Here(m, q)
      PROVE  f[q] = m
  <2>1. Prefix[m] \in Seq(Nat) /\ Len(Prefix[m]) \in Nat /\ Len(Prefix[m]) >= 1
    BY PrefixesHaveShape, LenProperties DEF PrefixShape
  <2>2. 1 \in 1 .. Len(Prefix[m]) /\ q + 1 - 1 = q /\ q <= p /\ q \in Nat /\ q + 1 \in lo .. p + 1
    BY <1>1, <2>1 DEF PrefixBetween
  <2>2a. p + 1 = q + Len(Prefix[m]) /\ \A i \in 1 .. Len(Prefix[m]) : bytes[q + i - 1] = Prefix[m][i]
    BY <1>1 DEF PrefixBetween
  <2>3. bytes[q] = Prefix[m][1]
    <3>1. bytes[q + 1 - 1] = Prefix[m][1] BY <2>2, <2>2a
    <3> QED BY <2>2, <3>1, Zenon
  <2>4. f[q] = (bytes[q] % Base) + Base * f[q + 1] BY <2>2 DEF ReadBody, DigitsOf
  <2>5. f[q + 1] = ReadBody(p, f, q + 1) BY <2>2 DEF DigitsOf
  <2>6. CASE m < Base
    <3>1. Prefix[m] = <<m>> BY <2>6, PrefixUnfolds, Zenon DEF PrefixBody
    <3>2. Len(Prefix[m]) = 1 /\ Prefix[m][1] = m BY <3>1
    <3>3. q + 1 > p BY <2>2, <2>2a, <3>2
    <3>4. f[q + 1] = 0 BY <2>5, <3>3 DEF ReadBody
    <3>5. m \in Nat BY <1>0
    <3>6. m % Base = m BY <2>6, <3>5, Digits
    <3> QED BY <1>0, <2>3, <2>4, <3>2, <3>4, <3>5, <3>6
  <2>7. CASE ~(m < Base)
    <3> DEFINE d == m \div Base
    <3>1. m \in Nat /\ m >= Base BY <1>0, <2>7
    <3>2. d \in Nat /\ d < m /\ m = (m % Base) + Base * d /\ ((m % Base) + Base) % Base = m % Base
      BY <3>1, Digits
    <3>3. d \in 0 .. m - 1 /\ d \in 0 .. MaxLength BY <1>0, <3>2
    <3>4. Prefix[d] \in Seq(Nat) /\ Len(Prefix[d]) \in Nat BY <3>3, PrefixesHaveShape, LenProperties DEF PrefixShape
    <3>5. /\ Len(Prefix[m]) = Len(Prefix[d]) + 1 /\ Prefix[m][1] = (m % Base) + Base
          /\ \A i \in 1 .. Len(Prefix[d]) : Prefix[m][i + 1] = Prefix[d][i]
      BY <3>1, <3>4, LongPrefix
    <3> HIDE DEF d
    <3>6. Here(d, q + 1)
      <4> DEFINE k == Len(Prefix[d])
      <4>0. /\ k \in Nat /\ Len(Prefix[m]) = k + 1
            /\ \A i \in 1 .. k : Prefix[m][i + 1] = Prefix[d][i]
        BY <3>4, <3>5, Zenon
      <4> HIDE DEF k
      <4>1. p + 1 = (q + 1) + k
        <5>1. p + 1 = q + (k + 1) BY <2>2a, <4>0, Zenon
        <5> QED BY <2>2, <4>0, <5>1
      <4>2. ASSUME NEW i \in 1 .. k PROVE bytes[(q + 1) + i - 1] = Prefix[d][i]
        <5>1. i + 1 \in 1 .. k + 1 /\ q + (i + 1) - 1 = (q + 1) + i - 1 BY <2>2, <4>0
        <5>2. bytes[q + (i + 1) - 1] = Prefix[m][i + 1] BY <2>2a, <4>0, <5>1, Zenon
        <5>3. Prefix[m][i + 1] = Prefix[d][i] BY <4>0
        <5> QED BY <5>1, <5>2, <5>3, Zenon
      <4> QED BY <4>1, <4>2, Zenon DEF k, PrefixBetween
    <3>7. f[q + 1] = d BY <1>1, <2>2, <3>3, <3>6
    <3> HIDE DEF Here, S
    <3>8. f[q] = (m % Base) + Base * d BY <2>3, <2>4, <3>2, <3>5, <3>7, Zenon
    <3> QED BY <3>2, <3>8, Zenon
  <2> QED BY <2>6, <2>7
<1>2. \A m \in 0 .. MaxLength : (\A j \in 0 .. m - 1 : j \in S) => m \in S
  <2> HIDE DEF Here
  <2> QED BY <1>1
<1>3. n \in S
  <2> HIDE DEF S
  <2> QED BY <1>0, <1>2, StrongInduction
<1>4. lo \in lo .. p + 1
  <2>1. Len(Prefix[n]) \in Nat BY PrefixesHaveShape, LenProperties DEF PrefixShape
  <2> QED BY <2>1 DEF PrefixBetween
<1>5. Here(n, lo) OBVIOUS
<1> HIDE DEF Here
<1> QED BY <1>3, <1>4, <1>5

(* The prefix of n is at an offset, as far as the file goes. *)
PrefixAt(n) ==
    \A i \in 1 .. Len(Prefix[n]) : offset + i <= Len(bytes) => bytes[offset + i] = Prefix[n][i]

(* A whole prefix is found where it ends, and read for what it is. *)
LEMMA WholePrefixIsRead ==
  ASSUME offset \in Nat, Len(bytes) \in Nat, NEW n \in 0 .. MaxLength, PrefixAt(n),
         offset + Len(Prefix[n]) <= Len(bytes)
  PROVE  /\ PrefixEnds = {offset + Len(Prefix[n])}
         /\ LengthRead(offset + Len(Prefix[n])) = n
<1> DEFINE length == Len(Prefix[n])
           p == offset + length
<1>0. Base \in Nat /\ MaxPrefix \in Nat BY LegacyAssumption DEF LegacyAssumption
<1>1. length \in 1 .. MaxPrefix /\ length \in Nat BY <1>0, PrefixFits
<1>2. \A i \in 1 .. length : bytes[offset + i] = Prefix[n][i]
  <2>1. \A i \in 1 .. length : offset + i <= Len(bytes) BY <1>1
  <2> QED BY <2>1 DEF PrefixAt
<1>3. Prefix[n][length] < Base /\ \A i \in 1 .. length - 1 : Prefix[n][i] >= Base
  BY PrefixesHaveShape DEF PrefixShape
<1>4. \A i \in 1 .. length : Prefix[n][i] \in Nat
  <2>1. Prefix[n] \in Seq(Nat) BY PrefixesHaveShape DEF PrefixShape
  <2> QED BY <2>1
<1> HIDE DEF length
<1>5. bytes[p] < Base
  <2>1. length \in 1 .. length BY <1>1
  <2> QED BY <1>2, <1>3, <2>1
<1>6. ASSUME NEW q \in offset + 1 .. p - 1 PROVE bytes[q] >= Base /\ ~(bytes[q] < Base)
  <2> DEFINE i == q - offset
  <2>1. i \in 1 .. length - 1 /\ i \in 1 .. length /\ offset + i = q BY <1>1
  <2> HIDE DEF i
  <2>2. bytes[q] = Prefix[n][i] BY <1>2, <2>1
  <2>3. Prefix[n][i] \in Nat /\ Prefix[n][i] >= Base BY <1>3, <1>4, <2>1
  <2> QED BY <1>0, <2>2, <2>3
<1>7. p \in PrefixEnds BY <1>0, <1>1, <1>5, <1>6 DEF PrefixEnds, length
<1>8. ASSUME NEW r \in PrefixEnds PROVE r = p
  <2>1. r \in offset + 1 .. offset + MaxPrefix /\ bytes[r] < Base /\ \A q \in offset + 1 .. r - 1 : bytes[q] >= Base
    BY DEF PrefixEnds
  <2>2. ~(r < p)
    <3>1. r < p => r \in offset + 1 .. p - 1 BY <1>0, <1>1, <2>1
    <3> QED BY <1>6, <2>1, <3>1
  <2>3. ~(r > p)
    <3>1. r > p => p \in offset + 1 .. r - 1 BY <1>0, <1>1, <2>1
    <3>2. length \in 1 .. length BY <1>1
    <3>3. ~(bytes[p] >= Base) BY <1>0, <1>2, <1>3, <1>4, <3>2
    <3> QED BY <2>1, <3>1, <3>3
  <2> QED BY <1>0, <1>1, <2>1, <2>2, <2>3
<1>9. LengthRead(p) = n
  <2>1. p \in Nat /\ p >= offset BY <1>1
  <2> HIDE DEF p
  <2>2. PICK f : LengthRead(p) = f[offset + 1] /\ \A q \in offset + 1 .. p + 1 : f[q] = ReadBody(p, f, q)
    BY <2>1, LengthReadUnfolds
  <2> DEFINE lo == offset + 1
  <2>3. lo \in Nat /\ p + 1 = lo + Len(Prefix[n])
    <3>1. p + 1 = lo + length BY <1>1 DEF p
    <3>2. lo \in Nat OBVIOUS
    <3> HIDE DEF p, lo
    <3> QED BY <3>1, <3>2, Zenon DEF length
  <2>4. \A i \in 1 .. Len(Prefix[n]) : bytes[lo + i - 1] = Prefix[n][i]
    <3> SUFFICES ASSUME NEW i \in 1 .. length PROVE bytes[lo + i - 1] = Prefix[n][i] BY DEF length
    <3>1. lo + i - 1 = offset + i BY <1>1
    <3>2. bytes[offset + i] = Prefix[n][i] BY <1>2
    <3> QED BY <3>1, <3>2, Zenon
  <2> HIDE DEF lo
  <2>5. f[lo] = n
    <3>1. DigitsOf(f, lo, p) BY <2>2, Zenon DEF lo, DigitsOf
    <3>2. PrefixBetween(n, lo, p) BY <2>3, <2>4, Zenon DEF PrefixBetween
    <3> QED BY <2>1, <2>3, <3>1, <3>2, DigitsDecode, Zenon
  <2> QED BY <2>2, <2>5 DEF lo
<1> QED BY <1>7, <1>8, <1>9 DEF length

(* Of a prefix that is cut nothing is taken for its end. *)
LEMMA CutPrefixIsNone ==
  ASSUME offset \in Nat, Len(bytes) \in Nat, NEW n \in 0 .. MaxLength, PrefixAt(n),
         offset + Len(Prefix[n]) > Len(bytes)
  PROVE  PrefixEnds = {}
<1> DEFINE length == Len(Prefix[n])
<1>0. Base \in Nat /\ MaxPrefix \in Nat BY LegacyAssumption DEF LegacyAssumption
<1>1. length \in 1 .. MaxPrefix /\ length \in Nat BY <1>0, PrefixFits
<1>2. \A i \in 1 .. length - 1 : Prefix[n][i] >= Base
  BY PrefixesHaveShape DEF PrefixShape
<1>3. \A i \in 1 .. length : Prefix[n][i] \in Nat
  <2>1. Prefix[n] \in Seq(Nat) BY PrefixesHaveShape DEF PrefixShape
  <2> QED BY <2>1
<1>4. \A i \in 1 .. length : offset + i <= Len(bytes) => bytes[offset + i] = Prefix[n][i]
  BY DEF PrefixAt
<1>5. offset + length > Len(bytes) OBVIOUS
<1> HIDE DEF length
<1>6. ASSUME NEW p \in PrefixEnds PROVE FALSE
  <2>1. p \in offset + 1 .. offset + MaxPrefix /\ p <= Len(bytes) /\ bytes[p] < Base BY DEF PrefixEnds
  <2> DEFINE i == p - offset
  <2>2. i \in 1 .. length - 1 /\ i \in 1 .. length /\ offset + i = p BY <1>0, <1>1, <1>5, <2>1
  <2> HIDE DEF i
  <2>3. bytes[p] = Prefix[n][i] BY <1>4, <2>1, <2>2
  <2> QED BY <1>0, <1>2, <1>3, <2>1, <2>2, <2>3
<1> QED BY <1>6

----------------------------------------------------------------------------
(* The nevrcap format: the messages of a file *)

Messages == Seq([length : 1 .. MaxLength, decodes : BOOLEAN])

(* What a message takes. *)
SizeOf(m) == Len(Prefix[m.length]) + m.length

LEMMA MessageTypes ==
  ASSUME NEW ms \in Messages
  PROVE  /\ Len(ms) \in Nat /\ DOMAIN ms = 1 .. Len(ms)
         /\ \A k \in 1 .. Len(ms) :
               /\ ms[k] \in [length : 1 .. MaxLength, decodes : BOOLEAN]
               /\ ms[k].length \in 0 .. MaxLength /\ ms[k].length \in Nat /\ ms[k].length >= 1
               /\ Prefix[ms[k].length] \in Seq(Nat)
               /\ Len(Prefix[ms[k].length]) \in 1 .. MaxPrefix
               /\ Len(Prefix[ms[k].length]) \in Nat
               /\ SizeOf(ms[k]) \in Nat /\ SizeOf(ms[k]) >= 1
<1>0. MaxLength \in Nat /\ MaxPrefix \in Nat BY LegacyAssumption DEF LegacyAssumption
<1>1. Len(ms) \in Nat /\ DOMAIN ms = 1 .. Len(ms) BY LenProperties DEF Messages
<1>2. ASSUME NEW k \in 1 .. Len(ms)
      PROVE  /\ ms[k] \in [length : 1 .. MaxLength, decodes : BOOLEAN]
             /\ ms[k].length \in 0 .. MaxLength /\ ms[k].length \in Nat /\ ms[k].length >= 1
             /\ Prefix[ms[k].length] \in Seq(Nat)
             /\ Len(Prefix[ms[k].length]) \in 1 .. MaxPrefix
             /\ Len(Prefix[ms[k].length]) \in Nat
             /\ SizeOf(ms[k]) \in Nat /\ SizeOf(ms[k]) >= 1
  <2> DEFINE n == ms[k].length
  <2>1. ms[k] \in [length : 1 .. MaxLength, decodes : BOOLEAN] BY <1>1, ElementOfSeq DEF Messages
  <2>2. n \in 1 .. MaxLength BY <2>1
  <2> HIDE DEF n
  <2>3. n \in 0 .. MaxLength /\ n \in Nat /\ n >= 1 BY <1>0, <2>2
  <2>4. Prefix[n] \in Seq(Nat) BY <2>3, PrefixesHaveShape DEF PrefixShape
  <2>5. Len(Prefix[n]) \in 1 .. MaxPrefix BY <2>3, PrefixFits
  <2>6. Len(Prefix[n]) \in Nat BY <1>0, <2>5
  <2>7. Len(Prefix[n]) + n \in Nat /\ Len(Prefix[n]) + n >= 1 BY <2>3, <2>6
  <2> QED BY <2>1, <2>3, <2>4, <2>5, <2>6, <2>7, Zenon DEF n, SizeOf
<1> QED BY <1>1, <1>2

(* Start and FramesOf, of any messages. *)
Starts(ms) == CHOOSE f : f = [k \in 0 .. Len(ms) |->
    IF k = 0 THEN 0 ELSE f[k - 1] + Len(Prefix[ms[k].length]) + ms[k].length]

Frames(ms) == CHOOSE f : f = [k \in 0 .. Len(ms) |->
    IF k = 0 THEN <<>>
    ELSE IF ms[k].decodes THEN Append(f[k - 1], Payload(ms[k].length, k))
    ELSE f[k - 1]]

LEMMA OfTheMessages == Start = Starts(messages) /\ FramesOf = Frames(messages)
  BY Zenon DEF Start, Starts, FramesOf, Frames

LEMMA StartsUnfold ==
  ASSUME NEW ms \in Messages
  PROVE  /\ Starts(ms)[0] = 0
         /\ \A k \in 1 .. Len(ms) : Starts(ms)[k] = Starts(ms)[k - 1] + SizeOf(ms[k])
         /\ \A k \in 0 .. Len(ms) : Starts(ms)[k] \in Nat
<1> DEFINE N == Len(ms)
           Body(f, k) == IF k = 0 THEN 0 ELSE f[k - 1] + Len(Prefix[ms[k].length]) + ms[k].length
           step == [k \in 1 .. N |-> [x \in Nat |-> x + Len(Prefix[ms[k].length]) + ms[k].length]]
<1>1. N \in Nat /\ 0 \in Nat BY MessageTypes
<1>2. step \in [1 .. N -> [Nat -> Nat]]
  <2>1. ASSUME NEW k \in 1 .. N, NEW x \in Nat PROVE x + Len(Prefix[ms[k].length]) + ms[k].length \in Nat
    <3>1. Len(Prefix[ms[k].length]) \in Nat /\ ms[k].length \in Nat BY MessageTypes
    <3> QED BY <3>1
  <2> QED BY <2>1
<1> HIDE DEF step, N
<1>3. PICK f \in [0 .. N -> Nat] : f[0] = 0 /\ \A k \in 1 .. N : f[k] = step[k][f[k - 1]]
  <2>1. \E f : f \in [0 .. N -> Nat] /\ Recursive(f, N, 0, step)
    BY <1>1, <1>2, RecursionExists, Zenon
  <2> QED BY <2>1, Zenon DEF Recursive
<1>4. \A k \in 0 .. N : f[k] = Body(f, k)
  <2> TAKE k \in 0 .. N
  <2>1. CASE k = 0 BY <1>3, <2>1
  <2>2. CASE k # 0
    <3>1. k \in 1 .. N /\ k - 1 \in 0 .. N BY <1>1, <2>2
    <3>2. f[k - 1] \in Nat BY <3>1
    <3>3. f[k] = step[k][f[k - 1]] BY <1>3, <3>1
    <3>4. step[k][f[k - 1]] = f[k - 1] + Len(Prefix[ms[k].length]) + ms[k].length
      BY <3>1, <3>2, Zenon DEF step
    <3> QED BY <2>2, <3>3, <3>4, Zenon
  <2> QED BY <2>1, <2>2
<1> HIDE DEF Body
<1>5. f = [k \in 0 .. N |-> Body(f, k)]
  <2>1. f = [k \in 0 .. N |-> f[k]] OBVIOUS
  <2> QED BY <1>4, <2>1
<1>6. Starts(ms) = [k \in 0 .. N |-> Body(Starts(ms), k)] BY <1>5, Zenon DEF Starts, Body, N
<1>7. \A k \in 0 .. N : Starts(ms)[k] = Body(Starts(ms), k) BY <1>6, Zenon
<1> DEFINE S == {k \in 0 .. N : Starts(ms)[k] \in Nat}
<1>8. Starts(ms)[0] = 0
  <2>1. 0 \in 0 .. N BY <1>1
  <2> QED BY <1>7, <2>1, Zenon DEF Body
<1>9. ASSUME NEW k \in 1 .. N
      PROVE  Starts(ms)[k] = Starts(ms)[k - 1] + Len(Prefix[ms[k].length]) + ms[k].length
  <2>1. k \in 0 .. N /\ k # 0 BY <1>1
  <2> QED BY <1>7, <2>1, Zenon DEF Body
<1>10. 0 .. N \subseteq S
  <2>1. 0 \in S BY <1>1, <1>8
  <2>2. ASSUME NEW k \in 1 .. N, k - 1 \in S PROVE k \in S
    <3>1. Len(Prefix[ms[k].length]) \in Nat /\ ms[k].length \in Nat BY MessageTypes DEF N
    <3>2. k \in 0 .. N BY <1>1
    <3> QED BY <1>9, <2>2, <3>1, <3>2, SMTT(30)
  <2> HIDE DEF S
  <2> QED BY <1>1, <2>1, <2>2, IntervalInduction
<1>11. ASSUME NEW k \in 1 .. N PROVE Starts(ms)[k] = Starts(ms)[k - 1] + SizeOf(ms[k])
  <2> DEFINE a == Starts(ms)[k - 1]
             b == Len(Prefix[ms[k].length])
             c == ms[k].length
  <2>1. b \in Nat /\ c \in Nat BY MessageTypes DEF N
  <2>2. a \in Nat
    <3>1. k - 1 \in 0 .. N BY <1>1
    <3> QED BY <1>10, <3>1
  <2>3. Starts(ms)[k] = a + b + c BY <1>9, Zenon
  <2> HIDE DEF a, b, c
  <2>4. a + b + c = a + (b + c) BY <2>1, <2>2
  <2> QED BY <2>3, <2>4, Zenon DEF a, b, c, SizeOf
<1> QED BY <1>8, <1>10, <1>11 DEF N

(* Every message takes room. *)
LEMMA StartsGrow ==
  ASSUME NEW ms \in Messages
  PROVE  \A k \in 0 .. Len(ms), j \in 0 .. Len(ms) : j < k => Starts(ms)[j] < Starts(ms)[k]
<1> DEFINE N == Len(ms)
           S == {k \in 0 .. N : \A j \in 0 .. N : j < k => Starts(ms)[j] < Starts(ms)[k]}
<1>1. N \in Nat BY MessageTypes
<1>2. 0 \in S BY <1>1
<1>3. ASSUME NEW k \in 1 .. N, k - 1 \in S PROVE k \in S
  <2>1. k \in 0 .. N /\ k - 1 \in 0 .. N BY <1>1
  <2>2. /\ Starts(ms)[k - 1] \in Nat /\ SizeOf(ms[k]) \in Nat /\ SizeOf(ms[k]) >= 1
        /\ Starts(ms)[k] = Starts(ms)[k - 1] + SizeOf(ms[k])
    BY <2>1, MessageTypes, StartsUnfold
  <2>3. ASSUME NEW j \in 0 .. N, j < k PROVE Starts(ms)[j] < Starts(ms)[k]
    <3>1. Starts(ms)[j] \in Nat BY StartsUnfold
    <3>2. CASE j = k - 1 BY <2>2, <3>2
    <3>3. CASE j # k - 1
      <4>1. j < k - 1 BY <1>1, <2>1, <2>3, <3>3
      <4>2. Starts(ms)[j] < Starts(ms)[k - 1] BY <1>3, <4>1
      <4> QED BY <2>2, <3>1, <4>2
    <3> QED BY <3>2, <3>3
  <2> QED BY <2>1, <2>3
<1>4. 0 .. N \subseteq S
  <2> HIDE DEF S
  <2> QED BY <1>1, <1>2, <1>3, IntervalInduction
<1> QED BY <1>4

LEMMA FramesUnfold ==
  ASSUME NEW ms \in Messages
  PROVE  /\ Frames(ms)[0] = <<>>
         /\ \A k \in 1 .. Len(ms) : Frames(ms)[k] =
               IF ms[k].decodes THEN Append(Frames(ms)[k - 1], Payload(ms[k].length, k))
               ELSE Frames(ms)[k - 1]
         /\ \A k \in 0 .. Len(ms) : Frames(ms)[k] \in Seq(Seq(Nat))
<1> DEFINE N == Len(ms)
           X == Seq(Seq(Nat))
           Step(x, k) == IF ms[k].decodes THEN Append(x, Payload(ms[k].length, k)) ELSE x
           Body(f, k) == IF k = 0 THEN <<>> ELSE Step(f[k - 1], k)
           step == [k \in 1 .. N |-> [x \in X |-> Step(x, k)]]
<1>1. N \in Nat BY MessageTypes
<1>2. <<>> \in X BY EmptySeq
<1>3. ASSUME NEW k \in 1 .. N, NEW x \in X PROVE Step(x, k) \in X
  <2>1. ms[k].length \in Nat /\ k \in Nat BY <1>1, MessageTypes
  <2>2. Payload(ms[k].length, k) \in Seq(Nat)
    <3> DEFINE n == ms[k].length
    <3>1. n \in Nat BY <2>1
    <3> HIDE DEF n
    <3>2. [i \in 1 .. n |-> k] \in Seq(Nat) BY <2>1, <3>1, IsASeq
    <3> QED BY <3>2, Zenon DEF n, Payload
  <2>3. Append(x, Payload(ms[k].length, k)) \in X BY <2>2, AppendProperties
  <2> HIDE DEF X
  <2> QED BY <2>3
<1>4. step \in [1 .. N -> [X -> X]]
  <2> HIDE DEF Step, X
  <2> QED BY <1>3
<1> HIDE DEF step, N, X, Step
<1>5. PICK f \in [0 .. N -> X] : f[0] = <<>> /\ \A k \in 1 .. N : f[k] = step[k][f[k - 1]]
  <2>1. \E f : f \in [0 .. N -> X] /\ Recursive(f, N, <<>>, step)
    BY <1>1, <1>2, <1>4, RecursionExists, Zenon
  <2> QED BY <2>1, Zenon DEF Recursive
<1>6. \A k \in 0 .. N : f[k] = Body(f, k)
  <2> TAKE k \in 0 .. N
  <2>1. CASE k = 0 BY <1>5, <2>1
  <2>2. CASE k # 0
    <3>1. k \in 1 .. N /\ k - 1 \in 0 .. N BY <1>1, <2>2
    <3>2. f[k - 1] \in X BY <3>1
    <3>3. f[k] = step[k][f[k - 1]] BY <1>5, <3>1
    <3>4. step[k][f[k - 1]] = Step(f[k - 1], k) BY <3>1, <3>2, Zenon DEF step
    <3> QED BY <2>2, <3>3, <3>4, Zenon
  <2> QED BY <2>1, <2>2
<1> HIDE DEF Body
<1>7. f = [k \in 0 .. N |-> Body(f, k)]
  <2>1. f = [k \in 0 .. N |-> f[k]] OBVIOUS
  <2> QED BY <1>6, <2>1
<1>8. Frames(ms) = [k \in 0 .. N |-> Body(Frames(ms), k)] BY <1>7, Zenon DEF Frames, Body, Step, N
<1>9. \A k \in 0 .. N : Frames(ms)[k] = Body(Frames(ms), k) BY <1>8, Zenon
<1>10. Frames(ms)[0] = <<>>
  <2>1. 0 \in 0 .. N BY <1>1
  <2> QED BY <1>9, <2>1, Zenon DEF Body
<1>11. ASSUME NEW k \in 1 .. N PROVE Frames(ms)[k] = Step(Frames(ms)[k - 1], k)
  <2>1. k \in 0 .. N /\ k # 0 BY <1>1
  <2> QED BY <1>9, <2>1, Zenon DEF Body
<1> DEFINE S == {k \in 0 .. N : Frames(ms)[k] \in X}
<1>12. 0 .. N \subseteq S
  <2>1. 0 \in S BY <1>1, <1>2, <1>10
  <2>2. ASSUME NEW k \in 1 .. N, k - 1 \in S PROVE k \in S
    <3>1. k \in 0 .. N BY <1>1
    <3> QED BY <1>3, <1>11, <2>2, <3>1
  <2> HIDE DEF S
  <2> QED BY <1>1, <2>1, <2>2, IntervalInduction
<1> QED BY <1>10, <1>11, <1>12 DEF N, X, Step

(* One more message leaves what is known of those before it. *)
LEMMA OneMore ==
  ASSUME NEW ms \in Messages, NEW m \in [length : 1 .. MaxLength, decodes : BOOLEAN]
  PROVE  /\ Append(ms, m) \in Messages /\ Len(Append(ms, m)) = Len(ms) + 1
         /\ \A k \in 1 .. Len(ms) : Append(ms, m)[k] = ms[k]
         /\ Append(ms, m)[Len(ms) + 1] = m
         /\ \A k \in 0 .. Len(ms) : /\ Starts(Append(ms, m))[k] = Starts(ms)[k]
                                    /\ Frames(Append(ms, m))[k] = Frames(ms)[k]
         /\ Starts(Append(ms, m))[Len(ms) + 1] = Starts(ms)[Len(ms)] + SizeOf(m)
<1> DEFINE N == Len(ms)
           more == Append(ms, m)
           S == {k \in 0 .. N : Starts(more)[k] = Starts(ms)[k] /\ Frames(more)[k] = Frames(ms)[k]}
<1>1. N \in Nat BY MessageTypes
<1>2. /\ more \in Messages /\ Len(more) = N + 1
      /\ \A k \in 1 .. N : more[k] = ms[k]
      /\ more[N + 1] = m
  BY AppendProperties DEF Messages
<1> HIDE DEF more, N
<1>3. 0 \in S BY <1>1, <1>2, StartsUnfold, FramesUnfold
<1>4. ASSUME NEW k \in 1 .. N, k - 1 \in S PROVE k \in S
  <2>1. k \in 0 .. N /\ k \in 1 .. Len(more) BY <1>1, <1>2
  <2>2. more[k] = ms[k] BY <1>2
  <2>3. Starts(more)[k - 1] = Starts(ms)[k - 1] /\ Frames(more)[k - 1] = Frames(ms)[k - 1] BY <1>4
  <2>4. Starts(more)[k] = Starts(more)[k - 1] + SizeOf(more[k]) BY <1>2, <2>1, StartsUnfold, Zenon
  <2>5. Starts(ms)[k] = Starts(ms)[k - 1] + SizeOf(ms[k]) BY StartsUnfold, Zenon DEF N
  <2>6. Frames(more)[k] = IF more[k].decodes THEN Append(Frames(more)[k - 1], Payload(more[k].length, k))
                          ELSE Frames(more)[k - 1]
    BY <1>2, <2>1, FramesUnfold, Zenon
  <2>7. Frames(ms)[k] = IF ms[k].decodes THEN Append(Frames(ms)[k - 1], Payload(ms[k].length, k))
                        ELSE Frames(ms)[k - 1]
    BY FramesUnfold, Zenon DEF N
  <2>8. Starts(more)[k] = Starts(ms)[k] BY <2>2, <2>3, <2>4, <2>5, Zenon
  <2>9. Frames(more)[k] = Frames(ms)[k]
    <3>1. CASE ms[k].decodes BY <2>2, <2>3, <2>6, <2>7, <3>1
    <3>2. CASE ~ms[k].decodes BY <2>2, <2>3, <2>6, <2>7, <3>2
    <3> QED BY <3>1, <3>2
  <2> QED BY <2>1, <2>8, <2>9, Zenon
<1>5. 0 .. N \subseteq S
  <2> HIDE DEF S
  <2> QED BY <1>1, <1>3, <1>4, IntervalInduction
<1>6. Starts(more)[N + 1] = Starts(ms)[N] + SizeOf(m)
  <2>1. N + 1 \in 1 .. Len(more) /\ (N + 1) - 1 = N /\ N \in 0 .. N BY <1>1, <1>2
  <2>2. Starts(more)[N + 1] = Starts(more)[(N + 1) - 1] + SizeOf(more[N + 1])
    BY <1>2, <2>1, StartsUnfold, Zenon
  <2>3. Starts(more)[N] = Starts(ms)[N] BY <1>5, <2>1
  <2> QED BY <1>2, <2>1, <2>2, <2>3, Zenon
<1> QED BY <1>2, <1>5, <1>6 DEF N, more

(* What message k is, at its place in the file, as far as the file goes. *)
Written(ms, bs, k) ==
    LET start == Starts(ms)[k - 1]
        size == Len(Prefix[ms[k].length])
    IN  /\ \A i \in 1 .. size : start + i <= Len(bs) => bs[start + i] = Prefix[ms[k].length][i]
        /\ \A i \in 1 .. ms[k].length : start + size + i <= Len(bs) => bs[start + size + i] = k

(* The file is the messages, or if it was cut a beginning of them. *)
FileInv ==
    /\ Len(bytes) <= Starts(messages)[Len(messages)]
    /\ writer # "cut" => Len(bytes) = Starts(messages)[Len(messages)]
    /\ \A k \in 1 .. Len(messages) : Written(messages, bytes, k)

(* Message k is the last that the file holds as a whole; of the next there is
   the whole prefix and more. *)
IsLast(k) == k = Len(messages) \/ Starts(messages)[k + 1] > Len(bytes)

Prefixed(k) ==
    k < Len(messages) /\ Len(bytes) > Starts(messages)[k] + Len(Prefix[messages[k + 1].length])

(* The reader stands after message k, with the frames to there. *)
After(k) ==
    /\ offset = Starts(messages)[k] /\ offset <= Len(bytes)
    /\ framesRead = Frames(messages)[k]
    /\ legacyReader \in {"eof", "error"} => IsLast(k)
    /\ legacyReader = "eof" => writer = "closed" \/ (~compressed /\ ~Prefixed(k))
    /\ legacyReader = "error" => bytes = <<>> \/ (writer = "cut" /\ (compressed \/ Prefixed(k)))

ReaderInv ==
    /\ writer = "open" => legacyReader = "off"
    /\ legacyReader = "off" => offset = 0 /\ framesRead = <<>>
    /\ \E k \in 0 .. Len(messages) : After(k)

FileTypeOK ==
    /\ messages \in Messages /\ bytes \in Seq(Nat)
    /\ writer \in {"open", "closed", "cut"} /\ compressed \in BOOLEAN
    /\ legacyReader \in {"off", "reading", "eof", "error"}

LegacyIInv == FileTypeOK /\ FileInv /\ ReaderInv

LEMMA LegacyInitIInv == LegacyInit => LegacyIInv
<1> SUFFICES ASSUME LegacyInit PROVE LegacyIInv OBVIOUS
<1>1. /\ messages = <<>> /\ bytes = <<>> /\ writer = "open" /\ compressed = FALSE
      /\ legacyReader = "off" /\ offset = 0 /\ framesRead = <<>>
  BY DEF LegacyInit
<1>2. <<>> \in Messages /\ <<>> \in Seq(Nat)
  <2>1. <<>> \in Messages BY EmptySeq, Zenon DEF Messages
  <2> QED BY <2>1, EmptySeq
<1>3. Len(messages) = 0 /\ Len(bytes) = 0 /\ 1 .. 0 = {} BY <1>1
<1>4. Starts(messages)[0] = 0 /\ Frames(messages)[0] = <<>> BY <1>1, <1>2, StartsUnfold, FramesUnfold
<1>5. FileTypeOK BY <1>1, <1>2 DEF FileTypeOK
<1>6. FileInv BY <1>1, <1>3, <1>4 DEF FileInv
<1>7. After(0) BY <1>1, <1>3, <1>4 DEF After
<1>8. ReaderInv
  <2>1. 0 \in 0 .. Len(messages) BY <1>3
  <2> QED BY <1>1, <1>7, <2>1 DEF ReaderInv
<1> QED BY <1>5, <1>6, <1>8 DEF LegacyIInv

LEMMA FileTypes ==
  ASSUME LegacyIInv
  PROVE  /\ messages \in Messages /\ bytes \in Seq(Nat) /\ Len(messages) \in Nat /\ Len(bytes) \in Nat
         /\ \A k \in 0 .. Len(messages) : Starts(messages)[k] \in Nat
         /\ \A k \in 0 .. Len(messages) : Frames(messages)[k] \in Seq(Seq(Nat))
         /\ writer \in {"open", "closed", "cut"} /\ compressed \in BOOLEAN
         /\ legacyReader \in {"off", "reading", "eof", "error"}
  BY MessageTypes, StartsUnfold, FramesUnfold, LenProperties DEF LegacyIInv, FileTypeOK

(* The end of a message that is there as a whole lies within the file. *)
LEMMA NextMessage ==
  ASSUME LegacyIInv, NEW k \in 0 .. Len(messages), k # Len(messages)
  PROVE  /\ k + 1 \in 1 .. Len(messages) /\ (k + 1) - 1 = k /\ k + 1 \in 0 .. Len(messages)
         /\ Starts(messages)[k + 1] = Starts(messages)[k] + SizeOf(messages[k + 1])
         /\ Starts(messages)[k + 1] <= Starts(messages)[Len(messages)]
<1> DEFINE N == Len(messages)
           m == k + 1
<1>1. messages \in Messages /\ N \in Nat BY FileTypes
<1>2. m \in 1 .. N /\ m - 1 = k /\ m \in 0 .. N /\ N \in 0 .. N BY <1>1
<1> HIDE DEF m
<1>3. Starts(messages)[m] = Starts(messages)[m - 1] + SizeOf(messages[m])
  BY <1>1, <1>2, StartsUnfold, Zenon
<1>4. Starts(messages)[m] <= Starts(messages)[N]
  <2>1. Starts(messages)[m] \in Nat /\ Starts(messages)[N] \in Nat BY <1>2, FileTypes
  <2>2. m < N => Starts(messages)[m] < Starts(messages)[N] BY <1>1, <1>2, StartsGrow
  <2>3. m = N \/ m < N BY <1>1, <1>2
  <2> QED BY <2>1, <2>2, <2>3
<1> QED BY <1>2, <1>3, <1>4, Zenon DEF m

LEMMA WriteMessageKeepsIInv ==
  ASSUME LegacyIInv, NEW length \in 1 .. MaxLength, NEW decodes \in BOOLEAN,
         WriteMessage(length, decodes)
  PROVE  LegacyIInv'
<1> DEFINE N == Len(messages)
           m == [length |-> length, decodes |-> decodes]
           start == Starts(messages)[N]
           prefix == Prefix[length]
           payload == Payload(length, N + 1)
           size == Len(prefix)
<1>0. MaxLength \in Nat BY LegacyAssumption DEF LegacyAssumption
<1>1. /\ writer = "open" /\ messages' = Append(messages, m)
      /\ bytes' = bytes \o prefix \o payload
      /\ UNCHANGED <<writer, compressed, legacyReader, offset, framesRead>>
  BY DEF WriteMessage
<1>2. messages \in Messages /\ bytes \in Seq(Nat) /\ N \in Nat /\ Len(bytes) \in Nat /\ start \in Nat
  BY FileTypes
<1>3. m \in [length : 1 .. MaxLength, decodes : BOOLEAN] /\ m.length = length OBVIOUS
<1>4. length \in Nat /\ length \in 0 .. MaxLength BY <1>0
<1>5. prefix \in Seq(Nat) /\ size \in Nat
  BY <1>4, PrefixesHaveShape, LenProperties DEF PrefixShape
<1>6. payload \in Seq(Nat) /\ Len(payload) = length /\ \A i \in 1 .. length : payload[i] = N + 1
  <2>1. N + 1 \in Nat BY <1>2
  <2> HIDE DEF N
  <2>2. [i \in 1 .. length |-> N + 1] \in Seq(Nat) BY <1>4, <2>1, IsASeq
  <2>3. payload = [i \in 1 .. length |-> N + 1] BY DEF Payload
  <2> HIDE DEF payload
  <2>4. Len(payload) = length BY <1>4, <2>3
  <2> QED BY <2>2, <2>3, <2>4
<1> HIDE DEF m
<1>7. /\ messages' \in Messages /\ Len(messages') = N + 1
      /\ \A k \in 1 .. N : messages'[k] = messages[k]
      /\ messages'[N + 1] = m
      /\ \A k \in 0 .. N : /\ Starts(messages')[k] = Starts(messages)[k]
                           /\ Frames(messages')[k] = Frames(messages)[k]
      /\ Starts(messages')[N + 1] = start + SizeOf(m)
  BY <1>1, <1>2, <1>3, OneMore, ZenonT(30)
<1>8. SizeOf(m) = size + length BY <1>3, Zenon DEF SizeOf
<1>9. Len(bytes) = start BY <1>1 DEF LegacyIInv, FileInv
<1> HIDE DEF start, prefix, payload, size, N
<1>10. /\ bytes' \in Seq(Nat) /\ Len(bytes') = start + size + length
       /\ \A i \in 1 .. start : bytes'[i] = bytes[i]
       /\ \A i \in 1 .. size : bytes'[start + i] = prefix[i]
       /\ \A i \in 1 .. length : bytes'[start + size + i] = N + 1
  <2> DEFINE front == bytes \o prefix
  <2>1. Len(prefix) = size BY DEF size
  <2>2. front \in Seq(Nat) /\ Len(front) = start + size BY <1>2, <1>5, <1>9, <2>1, ConcatProperties
  <2>3. \A i \in 1 .. start + size : front[i] = IF i <= start THEN bytes[i] ELSE prefix[i - start]
    BY <1>2, <1>5, <1>9, <2>1, ConcatProperties, Zenon
  <2> HIDE DEF front
  <2>4. bytes' = front \o payload BY <1>1 DEF front
  <2>5. bytes' \in Seq(Nat) /\ Len(bytes') = start + size + length
    <3>1. front \o payload \in Seq(Nat) /\ Len(front \o payload) = Len(front) + Len(payload)
      BY <1>6, <2>2, ConcatProperties, Zenon
    <3> QED BY <1>6, <2>2, <2>4, <3>1, Zenon
  <2>6. \A i \in 1 .. start + size + length :
           bytes'[i] = IF i <= start + size THEN front[i] ELSE payload[i - (start + size)]
    <3>1. \A i \in 1 .. Len(front) + Len(payload) :
             (front \o payload)[i] = IF i <= Len(front) THEN front[i] ELSE payload[i - Len(front)]
      BY <1>6, <2>2, ConcatProperties, Zenon
    <3> QED BY <1>6, <2>2, <2>4, <3>1, Zenon
  <2>7. ASSUME NEW i \in 1 .. start PROVE bytes'[i] = bytes[i]
    <3>1. i \in 1 .. start + size + length /\ i \in 1 .. start + size /\ i <= start + size /\ i <= start
      BY <1>2, <1>4, <1>5
    <3> QED BY <2>3, <2>6, <3>1, Zenon
  <2>8. ASSUME NEW i \in 1 .. size PROVE bytes'[start + i] = prefix[i]
    <3> DEFINE j == start + i
    <3>1. /\ j \in 1 .. start + size + length /\ j \in 1 .. start + size /\ j <= start + size
          /\ ~(j <= start) /\ j - start = i
      BY <1>2, <1>4, <1>5
    <3> HIDE DEF j
    <3>2. bytes'[j] = front[j] BY <2>6, <3>1, Zenon
    <3>3. front[j] = prefix[j - start] BY <2>3, <3>1, Zenon
    <3> QED BY <3>1, <3>2, <3>3, Zenon DEF j
  <2>9. ASSUME NEW i \in 1 .. length PROVE bytes'[start + size + i] = N + 1
    <3> DEFINE j == start + size + i
    <3>1. j \in 1 .. start + size + length /\ ~(j <= start + size) /\ j - (start + size) = i
      BY <1>2, <1>4, <1>5
    <3> HIDE DEF j
    <3>2. bytes'[j] = payload[j - (start + size)] BY <2>6, <3>1, Zenon
    <3>3. payload[i] = N + 1 BY <1>6
    <3> QED BY <3>1, <3>2, <3>3, Zenon DEF j
  <2> QED BY <2>5, <2>7, <2>8, <2>9
<1>11. FileTypeOK'
  BY <1>1, <1>7, <1>10, FileTypes, Zenon DEF FileTypeOK
<1>12. FileInv'
  <2>1. Len(bytes') = Starts(messages')[Len(messages')]
    <3>1. start + size + length = start + (size + length) BY <1>2, <1>4, <1>5
    <3> QED BY <1>7, <1>8, <1>10, <3>1, Zenon
  <2>2. Len(bytes') \in Nat BY <1>2, <1>4, <1>5, <1>10
  <2>3. ASSUME NEW k \in 1 .. N + 1 PROVE Written(messages', bytes', k)
    <3>1. CASE k = N + 1
      <4>1. k - 1 = N /\ N \in 0 .. N BY <1>2, <3>1
      <4>2. Starts(messages')[k - 1] = start BY <1>7, <4>1, Zenon DEF start
      <4>3. messages'[k].length = length BY <1>3, <1>7, <3>1, Zenon
      <4>4. \A i \in 1 .. Len(Prefix[length]) : bytes'[start + i] = Prefix[length][i]
        BY <1>10, Zenon DEF size, prefix
      <4>5. \A i \in 1 .. length : bytes'[start + Len(Prefix[length]) + i] = k
        BY <1>10, <3>1, Zenon DEF size, prefix
      <4> QED BY <4>2, <4>3, <4>4, <4>5, Zenon DEF Written
    <3>2. CASE k # N + 1
      <4>1. k \in 1 .. N /\ k - 1 \in 0 .. N /\ k \in 0 .. N /\ N \in 0 .. N /\ k \in 1 .. Len(messages)
        BY <1>2, <3>2 DEF N
      <4> DEFINE s == Starts(messages)[k - 1]
                 b == Len(Prefix[messages[k].length])
                 c == messages[k].length
      <4>2. s \in Nat /\ b \in Nat /\ c \in Nat
        BY <1>2, <4>1, FileTypes, MessageTypes DEF N
      <4>3. s + (b + c) <= start
        <5>1. Starts(messages)[k] = s + SizeOf(messages[k]) BY <1>2, <4>1, StartsUnfold, Zenon
        <5>2. SizeOf(messages[k]) = b + c BY DEF SizeOf
        <5>3. Starts(messages)[k] \in Nat BY <4>1, FileTypes DEF N
        <5>4. k = N \/ Starts(messages)[k] < Starts(messages)[N]
          <6>1. k = N \/ k < N BY <1>2, <4>1
          <6> QED BY <1>2, <4>1, <6>1, StartsGrow DEF N
        <5>5. Starts(messages)[k] <= start BY <1>2, <5>3, <5>4 DEF start
        <5> QED BY <5>1, <5>2, <5>5, Zenon
      <4>4. messages'[k] = messages[k] /\ Starts(messages')[k - 1] = s BY <1>7, <4>1, Zenon
      <4>5. Written(messages, bytes, k) BY <4>1 DEF LegacyIInv, FileInv
      <4>6. \A i \in 1 .. b : s + i <= Len(bytes) => bytes[s + i] = Prefix[c][i]
        BY <4>5, Zenon DEF Written
      <4>7. \A i \in 1 .. c : s + b + i <= Len(bytes) => bytes[s + b + i] = k
        BY <4>5, Zenon DEF Written
      <4>8. ASSUME NEW i \in 1 .. b PROVE bytes'[s + i] = Prefix[c][i]
        <5> HIDE DEF s, b, c
        <5>1. s + i \in 1 .. start /\ s + i <= Len(bytes) BY <1>2, <1>9, <4>2, <4>3
        <5> QED BY <1>10, <4>6, <5>1, Zenon
      <4>9. ASSUME NEW i \in 1 .. c PROVE bytes'[s + b + i] = k
        <5> HIDE DEF s, b, c
        <5>1. s + b + i \in 1 .. start /\ s + b + i <= Len(bytes) BY <1>2, <1>9, <4>2, <4>3
        <5> QED BY <1>10, <4>7, <5>1, Zenon
      <4> QED BY <4>4, <4>8, <4>9, Zenon DEF Written
    <3> QED BY <3>1, <3>2
  <2>4. Len(bytes') <= Starts(messages')[Len(messages')] BY <2>1, <2>2
  <2> QED BY <1>7, <2>1, <2>3, <2>4, Zenon DEF FileInv
<1>13. ReaderInv'
  <2>1. legacyReader = "off" /\ offset = 0 /\ framesRead = <<>>
    BY <1>1 DEF LegacyIInv, ReaderInv
  <2>2. Starts(messages')[0] = 0 /\ Frames(messages')[0] = <<>> BY <1>7, StartsUnfold, FramesUnfold, Zenon
  <2>3. 0 <= Len(bytes') /\ 0 \in 0 .. Len(messages') BY <1>2, <1>4, <1>5, <1>7, <1>10
  <2>4. After(0)' BY <1>1, <2>1, <2>2, <2>3 DEF After
  <2> QED BY <1>1, <2>1, <2>3, <2>4 DEF ReaderInv
<1> QED BY <1>11, <1>12, <1>13 DEF LegacyIInv

LEMMA CutFileKeepsIInv ==
  ASSUME LegacyIInv, NEW n \in 0 .. Len(bytes), CutFile(n)
  PROVE  LegacyIInv'
<1>1. /\ writer = "open" /\ writer' = "cut" /\ bytes' = SubSeq(bytes, 1, n)
      /\ UNCHANGED <<messages, compressed, legacyReader, offset, framesRead>>
  BY DEF CutFile
<1>2. messages \in Messages /\ bytes \in Seq(Nat) /\ Len(bytes) \in Nat /\ Len(messages) \in Nat BY FileTypes
<1>3. /\ bytes' \in Seq(Nat) /\ Len(bytes') = n /\ \A i \in 1 .. n : bytes'[i] = bytes[i]
  <2>1. \A i \in 1 .. n : bytes[i] \in Nat BY <1>2
  <2>2. SubSeq(bytes, 1, n) = [i \in 1 .. n |-> bytes[i]] BY <1>2
  <2>3. n \in Nat BY <1>2
  <2>4. [i \in 1 .. n |-> bytes[i]] \in Seq(Nat) BY <2>1, <2>3, IsASeq
  <2>5. Len([i \in 1 .. n |-> bytes[i]]) = n BY <2>3
  <2> QED BY <1>1, <2>2, <2>4, <2>5
<1>4. FileTypeOK' BY <1>1, <1>3, FileTypes DEF FileTypeOK
<1>5. FileInv'
  <2>1. Len(bytes) = Starts(messages)[Len(messages)] BY <1>1 DEF LegacyIInv, FileInv
  <2>2. Len(bytes') <= Starts(messages)[Len(messages)] BY <1>2, <1>3, <2>1
  <2>3. ASSUME NEW k \in 1 .. Len(messages) PROVE Written(messages, bytes', k)
    <3> DEFINE s == Starts(messages)[k - 1]
               b == Len(Prefix[messages[k].length])
               c == messages[k].length
    <3>1. s \in Nat /\ b \in Nat /\ c \in Nat
      <4>1. k - 1 \in 0 .. Len(messages) BY <1>2
      <4> QED BY <1>2, <4>1, FileTypes, MessageTypes
    <3>2. Written(messages, bytes, k) BY DEF LegacyIInv, FileInv
    <3>3. \A i \in 1 .. b : s + i <= Len(bytes) => bytes[s + i] = Prefix[c][i]
      BY <3>2, Zenon DEF Written
    <3>4. \A i \in 1 .. c : s + b + i <= Len(bytes) => bytes[s + b + i] = k
      BY <3>2, Zenon DEF Written
    <3>5. ASSUME NEW i \in 1 .. b, s + i <= Len(bytes') PROVE bytes'[s + i] = Prefix[c][i]
      <4> HIDE DEF s, b, c
      <4>1. s + i \in 1 .. n /\ s + i <= Len(bytes) BY <1>2, <1>3, <3>1, <3>5
      <4> QED BY <1>3, <3>3, <4>1, Zenon
    <3>6. ASSUME NEW i \in 1 .. c, s + b + i <= Len(bytes') PROVE bytes'[s + b + i] = k
      <4> HIDE DEF s, b, c
      <4>1. s + b + i \in 1 .. n /\ s + b + i <= Len(bytes) BY <1>2, <1>3, <3>1, <3>6, SMTT(30)
      <4> QED BY <1>3, <3>4, <4>1, Zenon
    <3> QED BY <3>5, <3>6, Zenon DEF Written
  <2> QED BY <1>1, <2>2, <2>3 DEF FileInv
<1>6. ReaderInv'
  <2>1. legacyReader = "off" /\ offset = 0 /\ framesRead = <<>>
    BY <1>1 DEF LegacyIInv, ReaderInv
  <2>2. Starts(messages)[0] = 0 /\ Frames(messages)[0] = <<>> BY <1>2, StartsUnfold, FramesUnfold, Zenon
  <2>3. 0 <= Len(bytes') /\ 0 \in 0 .. Len(messages) BY <1>2, <1>3
  <2>4. After(0)' BY <1>1, <2>1, <2>2, <2>3 DEF After
  <2> QED BY <1>1, <2>1, <2>3, <2>4 DEF ReaderInv
<1> QED BY <1>4, <1>5, <1>6 DEF LegacyIInv

LEMMA CloseLegacyKeepsIInv == LegacyIInv /\ CloseLegacy => LegacyIInv'
<1> SUFFICES ASSUME LegacyIInv, CloseLegacy PROVE LegacyIInv' OBVIOUS
<1>1. /\ writer = "open" /\ writer' = "closed"
      /\ UNCHANGED <<messages, bytes, compressed, legacyReader, offset, framesRead>>
  BY DEF CloseLegacy
<1>2. FileTypeOK' BY <1>1 DEF LegacyIInv, FileTypeOK
<1>3. FileInv' BY <1>1 DEF LegacyIInv, FileInv
<1>4. legacyReader = "off" /\ offset = 0 /\ framesRead = <<>> BY <1>1 DEF LegacyIInv, ReaderInv
<1>5. ReaderInv'
  <2>1. PICK k \in 0 .. Len(messages) : After(k) BY DEF LegacyIInv, ReaderInv
  <2>2. After(k)' BY <1>1, <1>4, <2>1 DEF After
  <2> QED BY <1>1, <1>4, <2>2 DEF ReaderInv
<1> QED BY <1>2, <1>3, <1>5 DEF LegacyIInv

LEMMA OpenLegacyKeepsIInv ==
  ASSUME LegacyIInv, NEW zstd \in BOOLEAN, OpenLegacy(zstd)
  PROVE  LegacyIInv'
<1>1. /\ writer # "open" /\ legacyReader = "off" /\ compressed' = zstd
      /\ legacyReader' = IF bytes = <<>> THEN "error" ELSE "reading"
      /\ UNCHANGED <<messages, bytes, writer, offset, framesRead>>
  BY DEF OpenLegacy
<1>2. FileTypeOK'
  <2>1. legacyReader' \in {"off", "reading", "eof", "error"} BY <1>1
  <2>2. compressed' \in BOOLEAN BY <1>1, Zenon
  <2> QED BY <1>1, <2>1, <2>2, Zenon DEF LegacyIInv, FileTypeOK
<1>3. FileInv' BY <1>1 DEF LegacyIInv, FileInv
<1>4. ReaderInv'
  <2>1. offset = 0 /\ framesRead = <<>> BY <1>1 DEF LegacyIInv, ReaderInv
  <2>2. PICK k \in 0 .. Len(messages) : After(k) BY DEF LegacyIInv, ReaderInv
  <2>3. CASE bytes = <<>>
    <3>1. legacyReader' = "error" /\ Len(bytes) = 0 BY <1>1, <2>3
    <3>2. IsLast(k)
      <4>1. CASE k = Len(messages) BY <4>1 DEF IsLast
      <4>2. CASE k # Len(messages)
        <5>1. k + 1 \in 0 .. Len(messages) /\ k < k + 1 BY <4>2, NextMessage
        <5>2. Starts(messages)[k] < Starts(messages)[k + 1] BY <5>1, FileTypes, StartsGrow
        <5>3. Starts(messages)[k] \in Nat /\ Starts(messages)[k + 1] \in Nat BY <5>1, FileTypes
        <5>4. Starts(messages)[k + 1] > Len(bytes) BY <3>1, <5>2, <5>3
        <5> QED BY <5>4 DEF IsLast
      <4> QED BY <4>1, <4>2
    <3>3. IsLast(k)' BY <1>1, <3>2 DEF IsLast
    <3>4. After(k)' BY <1>1, <2>2, <2>3, <3>1, <3>3 DEF After
    <3> QED BY <1>1, <3>1, <3>4 DEF ReaderInv
  <2>4. CASE bytes # <<>>
    <3>1. legacyReader' = "reading" BY <1>1, <2>4
    <3>2. After(k)' BY <1>1, <2>2, <3>1 DEF After
    <3> QED BY <1>1, <3>1, <3>2 DEF ReaderInv
  <2> QED BY <2>3, <2>4
<1> QED BY <1>2, <1>3, <1>4 DEF LegacyIInv

(* Where a reader stands there is either nothing left, or the prefix of the
   next message, as far as the file goes. *)
LEMMA WhatIsNext ==
  ASSUME LegacyIInv, NEW k \in 0 .. Len(messages), After(k)
  PROVE  /\ offset \in Nat
         /\ k = Len(messages) => offset = Len(bytes) /\ PrefixEnds = {}
         /\ k # Len(messages) =>
              /\ messages[k + 1].length \in 0 .. MaxLength
              /\ PrefixAt(messages[k + 1].length)
<1>1. offset = Starts(messages)[k] /\ offset <= Len(bytes) BY DEF After
<1>2. offset \in Nat /\ Len(bytes) \in Nat BY <1>1, FileTypes
<1>3. ASSUME k = Len(messages) PROVE offset = Len(bytes) /\ PrefixEnds = {}
  <2>1. Len(bytes) <= Starts(messages)[Len(messages)] BY DEF LegacyIInv, FileInv
  <2>2. offset = Len(bytes) BY <1>1, <1>2, <1>3, <2>1
  <2>3. PrefixEnds = {}
    <3>1. MaxPrefix \in Nat BY LegacyAssumption DEF LegacyAssumption
    <3>2. \A p \in offset + 1 .. offset + MaxPrefix : ~(p <= Len(bytes)) BY <1>2, <2>2, <3>1
    <3> QED BY <3>2 DEF PrefixEnds
  <2> QED BY <2>2, <2>3
<1>4. ASSUME k # Len(messages)
      PROVE  messages[k + 1].length \in 0 .. MaxLength /\ PrefixAt(messages[k + 1].length)
  <2> DEFINE m == k + 1
  <2>1. m \in 1 .. Len(messages) /\ m - 1 = k BY <1>4, NextMessage
  <2> HIDE DEF m
  <2>2. messages[m].length \in 0 .. MaxLength BY <2>1, FileTypes, MessageTypes
  <2>3. Written(messages, bytes, m) BY <2>1 DEF LegacyIInv, FileInv
  <2>4. PrefixAt(messages[m].length) BY <1>1, <2>1, <2>3, Zenon DEF Written, PrefixAt
  <2> QED BY <2>2, <2>4 DEF m
<1> QED BY <1>2, <1>3, <1>4

(* The reader stops: it stands after the last whole message, and the result
   is an error only if the file was cut and that can be seen. *)
LEMMA EndReadKeepsIInv ==
  ASSUME LegacyIInv, legacyReader = "reading", NEW k \in 0 .. Len(messages), After(k), IsLast(k),
         NEW result \in {"eof", "error"}, EndRead(result),
         result = "eof" => writer = "closed" \/ (~compressed /\ ~Prefixed(k)),
         result = "error" => writer = "cut" /\ (compressed \/ Prefixed(k))
  PROVE  LegacyIInv'
<1>1. /\ legacyReader' = result
      /\ UNCHANGED <<messages, bytes, writer, compressed, offset, framesRead>>
  BY DEF EndRead
<1>2. FileTypeOK' BY <1>1 DEF LegacyIInv, FileTypeOK
<1>3. FileInv' BY <1>1 DEF LegacyIInv, FileInv
<1>4. writer # "open" BY DEF LegacyIInv, ReaderInv
<1>5. IsLast(k)' /\ Prefixed(k)' = Prefixed(k) BY <1>1 DEF IsLast, Prefixed
<1>6. After(k)'
  <2>1. (offset = Starts(messages)[k])' /\ (offset <= Len(bytes))' /\ (framesRead = Frames(messages)[k])'
    BY <1>1 DEF After
  <2>2. legacyReader' = "eof" => writer' = "closed" \/ (~compressed' /\ ~Prefixed(k)') BY <1>1, <1>5
  <2>3. legacyReader' = "error" => writer' = "cut" /\ (compressed' \/ Prefixed(k)') BY <1>1, <1>5
  <2> QED BY <1>5, <2>1, <2>2, <2>3 DEF After
<1>7. ReaderInv' BY <1>1, <1>4, <1>6 DEF ReaderInv
<1> QED BY <1>2, <1>3, <1>7 DEF LegacyIInv

(* The end of the bytes, when the prefix of the next message is not there or
   not followed by anything. *)
LEMMA EndOfBytesIsRight ==
  ASSUME LegacyIInv, legacyReader = "reading", NEW k, ~Prefixed(k)
  PROVE  /\ EndOfBytes \in {"eof", "error"}
         /\ EndOfBytes = "eof" => writer = "closed" \/ (~compressed /\ ~Prefixed(k))
         /\ EndOfBytes = "error" => writer = "cut" /\ (compressed \/ Prefixed(k))
<1>1. writer \in {"closed", "cut"} /\ compressed \in BOOLEAN BY FileTypes DEF LegacyIInv, ReaderInv
<1>2. CASE compressed /\ writer = "cut" BY <1>2 DEF EndOfBytes
<1>3. CASE ~(compressed /\ writer = "cut") BY <1>1, <1>3 DEF EndOfBytes
<1> QED BY <1>2, <1>3

LEMMA ReadNoPrefixKeepsIInv == LegacyIInv /\ ReadNoPrefix => LegacyIInv'
<1> SUFFICES ASSUME LegacyIInv, ReadNoPrefix PROVE LegacyIInv' OBVIOUS
<1>1. /\ legacyReader = "reading" /\ PrefixEnds = {}
      /\ EndRead(IF Len(bytes) - offset < MaxPrefix THEN EndOfBytes ELSE "error")
  BY DEF ReadNoPrefix
<1>2. PICK k \in 0 .. Len(messages) : After(k) BY DEF LegacyIInv, ReaderInv
<1>3. MaxPrefix \in Nat \ {0} BY LegacyAssumption DEF LegacyAssumption
<1>4. offset \in Nat /\ Len(bytes) \in Nat /\ offset = Starts(messages)[k]
  BY <1>2, WhatIsNext, FileTypes DEF After
<1>5. IsLast(k) /\ ~Prefixed(k) /\ Len(bytes) - offset < MaxPrefix
  <2>1. CASE k = Len(messages)
    <3>1. offset = Len(bytes) BY <1>2, <2>1, WhatIsNext
    <3>2. ~(k < Len(messages)) BY <2>1, FileTypes
    <3>3. Len(bytes) - offset < MaxPrefix BY <1>3, <1>4, <3>1
    <3> QED BY <2>1, <3>2, <3>3 DEF IsLast, Prefixed
  <2>2. CASE k # Len(messages)
    <3> DEFINE n == messages[k + 1].length
               size == Len(Prefix[n])
    <3>1. n \in 0 .. MaxLength /\ PrefixAt(n) BY <1>2, <2>2, WhatIsNext
    <3>2. size \in 1 .. MaxPrefix /\ size \in Nat BY <1>3, <3>1, PrefixFits
    <3>3. ~(offset + Len(Prefix[n]) <= Len(bytes))
      <4>1. offset + Len(Prefix[n]) <= Len(bytes) => PrefixEnds = {offset + Len(Prefix[n])}
        BY <1>4, <3>1, WholePrefixIsRead, Zenon
      <4> QED BY <1>1, <4>1
    <3>4. /\ Starts(messages)[k + 1] = offset + SizeOf(messages[k + 1])
          /\ SizeOf(messages[k + 1]) = size + n /\ n \in Nat
      <4>1. k + 1 \in 1 .. Len(messages) BY <2>2, NextMessage
      <4>2. n \in Nat BY <4>1, FileTypes, MessageTypes
      <4> QED BY <1>4, <2>2, <4>2, NextMessage DEF SizeOf
    <3>5. ~(offset + size <= Len(bytes)) BY <3>3
    <3> HIDE DEF size, n
    <3>6. Starts(messages)[k + 1] > Len(bytes) BY <1>4, <3>2, <3>4, <3>5
    <3>7. ~(Len(bytes) > offset + size) /\ Len(bytes) - offset < MaxPrefix BY <1>3, <1>4, <3>2, <3>5
    <3>8. IsLast(k) BY <3>6, Zenon DEF IsLast
    <3>9. ~Prefixed(k) BY <1>4, <3>7, Zenon DEF Prefixed, size, n
    <3> QED BY <3>7, <3>8, <3>9
  <2> QED BY <2>1, <2>2
<1>6. EndRead(EndOfBytes) BY <1>1, <1>5, Zenon
<1> QED BY <1>1, <1>2, <1>5, <1>6, EndOfBytesIsRight, EndReadKeepsIInv, Zenon

(* A whole prefix is that of the next message, and where it ends. *)
LEMMA PrefixOfNext ==
  ASSUME LegacyIInv, NEW k \in 0 .. Len(messages), After(k), NEW p \in PrefixEnds
  PROVE  /\ k # Len(messages)
         /\ p = offset + Len(Prefix[messages[k + 1].length])
         /\ p <= Len(bytes) /\ LengthRead(p) = messages[k + 1].length
         /\ Starts(messages)[k + 1] = p + messages[k + 1].length
<1>1. k # Len(messages) BY WhatIsNext
<1> DEFINE n == messages[k + 1].length
           size == Len(Prefix[n])
<1>2. /\ offset \in Nat /\ Len(bytes) \in Nat /\ offset = Starts(messages)[k]
      /\ n \in 0 .. MaxLength /\ PrefixAt(n)
  BY <1>1, WhatIsNext, FileTypes DEF After
<1>3. size \in Nat /\ n \in Nat
  <2>1. k + 1 \in 1 .. Len(messages) BY <1>1, NextMessage
  <2> QED BY <2>1, FileTypes, MessageTypes
<1>4. Starts(messages)[k + 1] = offset + SizeOf(messages[k + 1]) BY <1>1, <1>2, NextMessage
<1>5. SizeOf(messages[k + 1]) = size + n BY DEF SizeOf
<1> HIDE DEF n
<1>6. offset + size <= Len(bytes)
  <2>1. offset + Len(Prefix[n]) > Len(bytes) => PrefixEnds = {} BY <1>2, CutPrefixIsNone, Zenon
  <2>2. ~(offset + size > Len(bytes)) BY <2>1
  <2> HIDE DEF size
  <2> QED BY <1>2, <1>3, <2>2
<1>7. p = offset + size /\ LengthRead(offset + size) = n BY <1>2, <1>6, WholePrefixIsRead
<1> HIDE DEF size
<1>8. Starts(messages)[k + 1] = p + n BY <1>2, <1>3, <1>4, <1>5, <1>7
<1> QED BY <1>1, <1>6, <1>7, <1>8, Zenon DEF size, n

LEMMA ReadNoMessageKeepsIInv == LegacyIInv /\ ReadNoMessage => LegacyIInv'
<1> SUFFICES ASSUME LegacyIInv, ReadNoMessage PROVE LegacyIInv' OBVIOUS
<1>1. PICK p \in PrefixEnds : /\ LengthRead(p) > Len(bytes) - p
                              /\ EndRead(IF p = Len(bytes) THEN EndOfBytes ELSE "error")
  BY Zenon DEF ReadNoMessage
<1>2. legacyReader = "reading" BY DEF ReadNoMessage
<1>3. PICK k \in 0 .. Len(messages) : After(k) BY DEF LegacyIInv, ReaderInv
<1> DEFINE n == messages[k + 1].length
           size == Len(Prefix[n])
<1>4. /\ k # Len(messages) /\ p = offset + size /\ p <= Len(bytes) /\ LengthRead(p) = n
      /\ Starts(messages)[k + 1] = p + n
  BY <1>3, PrefixOfNext
<1>5. offset \in Nat /\ Len(bytes) \in Nat /\ size \in Nat /\ n \in Nat /\ offset = Starts(messages)[k]
  <2>1. k + 1 \in 1 .. Len(messages) BY <1>4, NextMessage
  <2> QED BY <1>3, <2>1, FileTypes, MessageTypes, WhatIsNext DEF After
<1>6. k < Len(messages) /\ Len(messages) \in Nat BY <1>4, FileTypes
<1>7. Prefixed(k) <=> Len(bytes) > offset + size BY <1>5, <1>6, Zenon DEF Prefixed
<1> HIDE DEF n, size
<1>8. Starts(messages)[k + 1] > Len(bytes) BY <1>1, <1>4, <1>5, SMTT(30)
<1>9. IsLast(k) BY <1>8, Zenon DEF IsLast
<1>10. CASE p = Len(bytes)
  <2>1. ~Prefixed(k) BY <1>4, <1>5, <1>7, <1>10
  <2>2. EndRead(EndOfBytes) BY <1>1, <1>10, Zenon
  <2> QED BY <1>2, <1>3, <1>9, <2>1, <2>2, EndOfBytesIsRight, EndReadKeepsIInv, Zenon
<1>11. CASE p # Len(bytes)
  <2>1. Prefixed(k) BY <1>4, <1>5, <1>7, <1>11
  <2>2. EndRead("error") BY <1>1, <1>11, Zenon
  <2>3. writer = "cut"
    <3> SUFFICES ASSUME writer # "cut" PROVE FALSE OBVIOUS
    <3>1. Len(bytes) = Starts(messages)[Len(messages)] BY DEF LegacyIInv, FileInv
    <3>2. Starts(messages)[k + 1] <= Starts(messages)[Len(messages)] BY <1>4, NextMessage
    <3> QED BY <1>4, <1>5, <1>8, <3>1, <3>2, SMTT(30)
  <2> QED BY <1>2, <1>3, <1>9, <2>1, <2>2, <2>3, EndReadKeepsIInv
<1> QED BY <1>10, <1>11

LEMMA ReadFrameToKeepsIInv == LegacyIInv /\ ReadFrameTo => LegacyIInv'
<1> SUFFICES ASSUME LegacyIInv, ReadFrameTo PROVE LegacyIInv' OBVIOUS
<1>1. PICK p \in PrefixEnds :
        LET length == LengthRead(p)
            data == SubSeq(bytes, p + 1, p + length)
        IN  /\ length <= Len(bytes) - p
            /\ offset' = p + length
            /\ framesRead' = IF data # <<>> /\ data[1] \in DOMAIN messages /\ ~messages[data[1]].decodes
                             THEN framesRead ELSE Append(framesRead, data)
  BY Zenon DEF ReadFrameTo
<1>2. legacyReader = "reading" /\ UNCHANGED <<messages, bytes, writer, compressed, legacyReader>>
  BY DEF ReadFrameTo
<1>3. PICK k \in 0 .. Len(messages) : After(k) BY DEF LegacyIInv, ReaderInv
<1> DEFINE m == k + 1
           n == messages[m].length
           data == SubSeq(bytes, p + 1, p + n)
<1>4. /\ k # Len(messages) /\ p = offset + Len(Prefix[n]) /\ p <= Len(bytes) /\ LengthRead(p) = n
      /\ Starts(messages)[m] = p + n
  BY <1>3, PrefixOfNext
<1>5. m \in 1 .. Len(messages) /\ m - 1 = k /\ m \in 0 .. Len(messages) BY <1>4, NextMessage
<1>6. /\ messages \in Messages /\ Len(bytes) \in Nat /\ bytes \in Seq(Nat) /\ offset \in Nat
      /\ DOMAIN messages = 1 .. Len(messages)
  BY <1>3, FileTypes, MessageTypes, WhatIsNext
<1>7. n \in Nat /\ n >= 1 /\ Len(Prefix[n]) \in Nat BY <1>5, <1>6, MessageTypes
<1>8. /\ n <= Len(bytes) - p /\ offset' = p + n
      /\ framesRead' = IF data # <<>> /\ data[1] \in DOMAIN messages /\ ~messages[data[1]].decodes
                       THEN framesRead ELSE Append(framesRead, data)
  BY <1>1, <1>4, Zenon
<1>9. p \in Nat
  <2> DEFINE size == Len(Prefix[n])
  <2>1. size \in Nat /\ p = offset + size BY <1>4, <1>7
  <2> HIDE DEF size
  <2> QED BY <1>6, <2>1
<1>10. data = Payload(n, m) /\ data # <<>> /\ data[1] = m
  <2>1. Written(messages, bytes, m) BY <1>5 DEF LegacyIInv, FileInv
  <2>2. offset = Starts(messages)[k] BY <1>3 DEF After
  <2> HIDE DEF m
  <2>3. \A i \in 1 .. n : p + i <= Len(bytes) => bytes[p + i] = m
    BY <1>4, <1>5, <2>1, <2>2, Zenon DEF Written
  <2> HIDE DEF n
  <2>4. \A i \in 1 .. n : p + i <= Len(bytes) /\ (p + 1) + i - 1 = p + i BY <1>6, <1>7, <1>8, <1>9
  <2>5. data = [i \in 1 .. n |-> bytes[p + i]] BY <1>6, <1>7, <1>8, <1>9, <2>4
  <2> HIDE DEF data
  <2>6. data = [i \in 1 .. n |-> m] BY <2>3, <2>4, <2>5
  <2>7. data # <<>> /\ data[1] = m BY <1>7, <2>6
  <2> QED BY <2>6, <2>7, Zenon DEF Payload
<1>11. framesRead' = Frames(messages)[m]
  <2>1. framesRead = Frames(messages)[k] BY <1>3 DEF After
  <2>2. Frames(messages)[m] = IF messages[m].decodes
                              THEN Append(Frames(messages)[m - 1], Payload(n, m))
                              ELSE Frames(messages)[m - 1]
    BY <1>5, <1>6, FramesUnfold, Zenon
  <2> HIDE DEF data, m
  <2>3. m \in DOMAIN messages BY <1>5, <1>6
  <2>4. CASE messages[m].decodes
    <3>1. framesRead' = Append(framesRead, Payload(n, m)) BY <1>8, <1>10, <2>4
    <3>2. Frames(messages)[m] = Append(Frames(messages)[k], Payload(n, m)) BY <1>5, <2>2, <2>4
    <3> QED BY <2>1, <3>1, <3>2, Zenon
  <2>5. CASE ~messages[m].decodes
    <3>1. framesRead' = framesRead BY <1>8, <1>10, <2>3, <2>5
    <3>2. Frames(messages)[m] = Frames(messages)[k] BY <1>5, <2>2, <2>5
    <3> QED BY <2>1, <3>1, <3>2, Zenon
  <2> QED BY <2>4, <2>5
<1> HIDE DEF n, m, data
<1>12. offset' = Starts(messages)[m] /\ offset' <= Len(bytes)
  <2>1. Starts(messages)[m] = p + n /\ n \in Nat BY <1>4, <1>7
  <2>2. n <= Len(bytes) - p /\ offset' = p + n BY <1>8
  <2> QED BY <1>6, <1>9, <2>1, <2>2
<1>13. After(m)' BY <1>2, <1>11, <1>12 DEF After
<1>14. FileTypeOK' /\ FileInv' BY <1>2 DEF LegacyIInv, FileTypeOK, FileInv
<1>15. writer # "open" BY <1>2 DEF LegacyIInv, ReaderInv
<1>16. ReaderInv' BY <1>2, <1>5, <1>13, <1>15 DEF ReaderInv
<1> QED BY <1>14, <1>16 DEF LegacyIInv

LEMMA LegacyStepKeepsIInv == LegacyIInv /\ [LegacyNext]_legacyVars => LegacyIInv'
<1> SUFFICES ASSUME LegacyIInv, [LegacyNext]_legacyVars PROVE LegacyIInv' OBVIOUS
<1>1. CASE \E length \in 1 .. MaxLength, decodes \in BOOLEAN : WriteMessage(length, decodes)
  BY <1>1, WriteMessageKeepsIInv
<1>2. CASE CloseLegacy BY <1>2, CloseLegacyKeepsIInv
<1>3. CASE \E n \in 0 .. Len(bytes) : CutFile(n) BY <1>3, CutFileKeepsIInv
<1>4. CASE \E zstd \in BOOLEAN : OpenLegacy(zstd) BY <1>4, OpenLegacyKeepsIInv
<1>5. CASE ReadFrameTo BY <1>5, ReadFrameToKeepsIInv
<1>6. CASE ReadNoPrefix BY <1>6, ReadNoPrefixKeepsIInv
<1>7. CASE ReadNoMessage BY <1>7, ReadNoMessageKeepsIInv
<1>8. CASE UNCHANGED legacyVars
  <2>1. UNCHANGED <<messages, bytes, writer, compressed, legacyReader, offset, framesRead>>
    BY <1>8 DEF legacyVars
  <2> QED BY <2>1 DEF LegacyIInv, FileTypeOK, FileInv, ReaderInv, After, IsLast, Prefixed
<1> QED BY <1>1, <1>2, <1>3, <1>4, <1>5, <1>6, <1>7, <1>8, Zenon DEF LegacyNext

LEMMA IInvGivesLegacyType == LegacyIInv => LegacyTypeOK
<1> SUFFICES ASSUME LegacyIInv PROVE LegacyTypeOK OBVIOUS
<1>1. PICK k \in 0 .. Len(messages) : After(k) BY DEF LegacyIInv, ReaderInv
<1>2. offset \in 0 .. Len(bytes) /\ framesRead \in Seq(Seq(Nat))
  BY <1>1, FileTypes DEF After
<1> QED BY <1>2 DEF LegacyIInv, FileTypeOK, Messages, LegacyTypeOK

LEMMA IInvGivesPrefix == LegacyIInv => FramesReadArePrefix
<1> SUFFICES ASSUME LegacyIInv PROVE FramesReadArePrefix OBVIOUS
<1> DEFINE N == Len(messages)
           whole == {k \in 0 .. N : Start[k] <= Len(bytes)}
           last == CHOOSE k \in whole : \A j \in whole : j <= k
           prefixed == /\ last < N
                       /\ Len(bytes) > Start[last] + Len(Prefix[messages[last + 1].length])
<1>1. Start = Starts(messages) /\ FramesOf = Frames(messages) BY OfTheMessages
<1>2. PICK k \in 0 .. N : After(k) BY DEF LegacyIInv, ReaderInv
<1>3. k \in whole /\ framesRead = FramesOf[k]
  <2>1. Starts(messages)[k] <= Len(bytes) /\ framesRead = Frames(messages)[k] BY <1>2 DEF After
  <2> QED BY <1>1, <2>1
<1>4. ASSUME IsLast(k) PROVE last = k
  <2>1. \A j \in whole : j <= k
    <3> SUFFICES ASSUME NEW j \in 0 .. N, Starts(messages)[j] <= Len(bytes) PROVE j <= k BY <1>1
    <3>1. N \in Nat /\ Len(bytes) \in Nat /\ Starts(messages)[j] \in Nat BY FileTypes
    <3>2. CASE k = N BY <3>1, <3>2
    <3>3. CASE k # N
      <4>1. Starts(messages)[k + 1] > Len(bytes) BY <1>4, <3>3 DEF IsLast
      <4>2. k + 1 \in 0 .. N BY <3>1, <3>3
      <4>3. Starts(messages)[k + 1] \in Nat BY <4>2, FileTypes
      <4>4. j # k + 1 BY <3>1, <4>1, <4>3
      <4>5. ~(k + 1 < j)
        <5>1. k + 1 < j => Starts(messages)[k + 1] < Starts(messages)[j] BY <4>2, FileTypes, StartsGrow
        <5> QED BY <3>1, <4>1, <4>3, <5>1
      <4> QED BY <3>1, <4>2, <4>4, <4>5
    <3> QED BY <3>2, <3>3
  <2>2. whole \subseteq Nat OBVIOUS
  <2> HIDE DEF whole
  <2>3. last \in whole /\ \A j \in whole : j <= last BY <1>3, <2>1
  <2>4. last <= k /\ k <= last BY <1>3, <2>1, <2>3
  <2>5. last \in Nat /\ k \in Nat BY <1>3, <2>2, <2>3
  <2> HIDE DEF last
  <2> QED BY <2>4, <2>5
<1>5. ASSUME IsLast(k) PROVE prefixed <=> Prefixed(k)
  <2>1. last = k BY <1>4, <1>5
  <2> HIDE DEF last
  <2> QED BY <1>1, <2>1, Zenon DEF Prefixed
<1> HIDE DEF last, whole
<1>6. legacyReader \in {"eof", "error"} => framesRead = FramesOf[last]
  BY <1>2, <1>3, <1>4, Zenon DEF After
<1> HIDE DEF prefixed
<1>7. legacyReader = "eof" => writer = "closed" \/ (~compressed /\ ~prefixed)
  BY <1>2, <1>5 DEF After
<1>8. legacyReader = "error" => bytes = <<>> \/ (writer = "cut" /\ (compressed \/ prefixed))
  BY <1>2, <1>5 DEF After
<1>9. \E j \in whole : framesRead = FramesOf[j] BY <1>3
<1> QED BY <1>6, <1>7, <1>8, <1>9, Zenon DEF FramesReadArePrefix, whole, last, prefixed

(* Every variable of the recorder and the reader has its type. *)
THEOREM LegacyTypeCorrect == LegacySpec => []LegacyTypeOK
  BY LegacyInitIInv, LegacyStepKeepsIInv, IInvGivesLegacyType, PTL DEF LegacySpec

(* What comes back from a nevrcap file is what was written, for every base,
   every length of a message and every place at which the file is cut: in
   particular the reader's varints are the writer's. *)
THEOREM RecordedIsReadBack == LegacySpec => []FramesReadArePrefix
  BY LegacyInitIInv, LegacyStepKeepsIInv, IInvGivesPrefix, PTL DEF LegacySpec

----------------------------------------------------------------------------
(* Every variable of the program has its type, whatever command runs. *)
THEOREM TypeCorrect == Spec => []TypeOK
<1>1. Spec => [](program \in {"agent", "validator"})
  <2>1. Init => program \in {"agent", "validator"} BY DEF Init
  <2>2. program \in {"agent", "validator"} /\ [Next]_vars => (program \in {"agent", "validator"})'
    BY DEF Next, Agent, vars
  <2> QED BY <2>1, <2>2, PTL DEF Spec
<1>2. Spec => []SettingsTypeOK
  <2>1. Init => SettingsIInv BY SettingsInitIInv DEF Init
  <2> QED BY <2>1, SettingsStepKeepsIInv, IInvGivesSettingsType, PTL DEF Spec
<1>3. VersionSpec => []VersionTypeOK
  <2>1. VersionIInv => VersionTypeOK BY DEF VersionIInv
  <2> QED BY <2>1, VersionInitIInv, VersionStepKeepsIInv, PTL DEF VersionSpec
<1>4. PollerSpec => []PollerTypeOK
  <2>1. PollerIInv => PollerTypeOK BY DEF PollerIInv
  <2> QED BY <2>1, PollerInitIInv, PollerStepKeepsIInv, PTL DEF PollerSpec
<1>5. TypeOK <=> /\ program \in {"agent", "validator"}
                 /\ SettingsTypeOK /\ ShowTypeOK /\ ReplayTypeOK /\ VersionTypeOK /\ PollerTypeOK
                 /\ LegacyTypeOK /\ ValidatorTypeOK
  BY DEF TypeOK
<1> QED BY <1>1, <1>2, <1>3, <1>4, <1>5, EveryCommandIsItself, ShowTypeCorrect, ReplayTypeCorrect,
           LegacyTypeCorrect, ValidatorTypeCorrect, PTL

(* What holds of the commands holds of the program: the event dump and the
   replay server with their goroutines, the poller, the recorder and the
   reader of its file, and the validator. *)
THEOREM CommandsAreRight ==
  Spec => [](LabelsAreNotEarlier /\ ExitZeroMeansShown /\ SnapshotIsConsistent /\ StreamIsAsAsked
             /\ FramesReadArePrefix /\ ValidMeansAllGood)
  BY EveryCommandIsItself, LabelsFollowEvents, ShowSuccessIsComplete, AnswersAreConsistent,
     FiltersAreRight, RecordedIsReadBack, VerdictIsRight, PTL
=============================================================================
