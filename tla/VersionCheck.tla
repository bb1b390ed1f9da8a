---------------------------- MODULE VersionCheck ----------------------------
(***************************************************************************)
(* cmd/agent/version_check.go, `agent check-update`: the latest release is *)
(* asked for and compared with the version that runs.                      *)
(***************************************************************************)
EXTENDS Naturals, Sequences

CONSTANT Versions     \* bound: the versions that run and are released

Dev == <<>>           \* a build without a version

(* A version is the number at the start of each of its parts: a suffix such
   as -beta is not looked at, and a part without a number is a 0. *)
ASSUME VersionAssumption == Versions \subseteq Seq(Nat)

VARIABLES update,     \* off, comparing, exited
          current, latest, updateResult, announced

versionVars == <<update, current, latest, updateResult, announced>>

VersionInit ==
    /\ update = "off" /\ current = Dev /\ latest = Dev
    /\ updateResult = "none" /\ announced = FALSE

----------------------------------------------------------------------------
Part(v, i) == IF i <= Len(v) THEN v[i] ELSE 0

(* Mutant: a part that has fallen does not decide. *)
isNewerVersionInAny(cur, lat) == cur = Dev \/ \E i \in 1 .. 3 : Part(lat, i) > Part(cur, i)

(* Missing parts are 0, a fourth is not looked at; the first difference
   decides. *)
isNewerVersion(cur, lat) ==
    LET newer[i \in 1 .. 4] ==
            IF i = 4 THEN FALSE
            ELSE Part(lat, i) > Part(cur, i) \/ (Part(lat, i) = Part(cur, i) /\ newer[i + 1])
    IN  cur = Dev \/ newer[1]

(* A request that fails, a status that is not 200, or a body that cannot be
   decoded is an error; 404 means that there is no release. *)
getLatestRelease(running, outcome) ==
    /\ update = "off" /\ current' = running
    /\ CASE outcome = "error"   -> update' = "exited" /\ updateResult' = "error" /\ UNCHANGED latest
         [] outcome = "none"    -> update' = "exited" /\ updateResult' = "ok" /\ UNCHANGED latest
         [] outcome = "release" -> /\ update' = "comparing" /\ UNCHANGED updateResult
                                   /\ latest' \in Versions \ {Dev}
    /\ UNCHANGED announced

runVersionCheck ==
    /\ update = "comparing"
    /\ announced' = isNewerVersion(current, latest)
    /\ update' = "exited" /\ updateResult' = "ok"
    /\ UNCHANGED <<current, latest>>

VersionNext ==
    \/ \E running \in Versions, outcome \in {"error", "none", "release"} : getLatestRelease(running, outcome)
    \/ runVersionCheck

VersionSpec == VersionInit /\ [][VersionNext]_versionVars

(* Every variable has the type of the local it stands for. *)
VersionTypeOK ==
    /\ update \in {"off", "comparing", "exited"} /\ current \in Seq(Nat)
    /\ latest \in Seq(Nat) /\ updateResult \in {"none", "ok", "error"}
    /\ announced \in BOOLEAN

(* Versions of three parts in order, all parts being below 100. *)
Rank(v) == 10000 * Part(v, 1) + 100 * Part(v, 2) + Part(v, 3)

(* A release is announced exactly when it is higher than the version that runs,
   so whoever installs what is announced goes up, and is never sent round. *)
UpdateIsOrdered ==
    update = "exited" /\ latest # Dev =>
        (announced <=> current = Dev \/ Rank(latest) > Rank(current))
=============================================================================
