----------------------------- MODULE Boot_proofs -----------------------------
(***************************************************************************)
(* The game a project starts is its own, once, read by the bus and with no *)
(* key held, for any sets of applications and any timing of the keys.      *)
(***************************************************************************)
EXTENDS Boot, WellFoundedInduction, TLAPS

Phases == {"device", "install", "blz", "unpacked", "launch", "finish"} \cup Ended

TypeInv ==
    /\ pc \in Phases
    /\ game \in Kinds
    /\ drive \in [DRIVES -> SUBSET Apps]
    /\ apps \in SUBSET Apps
    /\ processes \in [Apps -> Int]
    /\ frame \in Nat /\ held \in BOOLEAN

\* Nothing has been launched, and there is nothing but the phone's own.
FreshInv ==
    /\ pc \in {"device", "install"} =>
           /\ drive = [d \in DRIVES |-> {}]
           /\ launched_uid = NO_APP
    /\ pc = "install" => apps = PHONE_APPS /\ before = PHONE_APPS

\* While the installer runs it is what was launched, and drive e is the games'.
InstallerInv ==
    pc \in {"blz", "unpacked"} =>
        /\ game = "blz"
        /\ before = PHONE_APPS
        /\ apps = PHONE_APPS \cup {INSTALLER}
        /\ drive["e"] \subseteq GAMES

\* What is new when a game is looked for is a game, and is on a drive.
NewInv ==
    pc = "launch" =>
        /\ launched_uid = NO_APP
        /\ game # "none"
        /\ game # "ngage" =>
               NewApps(apps, before) \subseteq GAMES \cap (drive["c"] \cup drive["e"])

\* Until Init returns no application but the installer runs, and the bus is
\* over no other's memory.
AloneInv ==
    pc # "done" =>
        /\ g_launched = NO_APP /\ ~g_device
        /\ asid \in {NO_APP, INSTALLER}
        /\ \A a \in Apps \ {INSTALLER} : processes[a] = 0

\* A key is held only inside one of its two presses.
HeldInv ==
    held => /\ pc = "blz"
            /\ \/ OPTIONS_FRAME < frame /\ frame <= OPTIONS_FRAME + PRESS
               \/ INSTALL_FRAME < frame /\ frame <= INSTALL_FRAME + PRESS

GameInv == TheGameIsTheProjects /\ BusFollowsTheGame /\ TheGameRunsOnce

IInv == /\ TypeInv /\ FreshInv /\ InstallerInv /\ NewInv /\ AloneInv /\ HeldInv
        /\ GameInv

-----------------------------------------------------------------------------

\* The choice launch_installed_app makes is one of the applications it is made from.
LEMMA LowestIsOne ==
    ASSUME NEW S \in SUBSET Nat, S # {}
    PROVE  Lowest(S) \in S
<1>1. PICK x \in S : \A y \in S : <<y, x>> \notin OpToRel(<, Nat)
  BY WFMin, NatLessThanWellFounded, S \subseteq Nat
<1>2. ASSUME NEW y \in S
      PROVE  x <= y
  <2>1. ~(y < x)
    BY <1>1 DEF OpToRel
  <2> QED BY <2>1
<1> QED BY <1>1, <1>2 DEF Lowest

LEMMA InitIInv == Init => IInv
<1> SUFFICES ASSUME Init
             PROVE  IInv
  OBVIOUS
<1> USE BootAssumption DEF BootAssumption, Init, Apps
<1>1. TypeInv
  <2>1. pc \in Phases /\ frame \in Nat /\ held \in BOOLEAN
    BY DEF Phases
  <2>2. drive \in [DRIVES -> SUBSET Apps] /\ processes \in [Apps -> Int]
    OBVIOUS
  <2> QED BY <2>1, <2>2 DEF TypeInv
<1>2. FreshInv /\ InstallerInv /\ NewInv
  BY DEF FreshInv, InstallerInv, NewInv
<1>3. AloneInv /\ HeldInv
  BY DEF AloneInv, HeldInv
<1>4. GameInv
  BY DEF GameInv, TheGameIsTheProjects, BusFollowsTheGame, TheGameRunsOnce
<1> QED BY <1>1, <1>2, <1>3, <1>4 DEF IInv

\* Up to where a game may be installed, and every way of giving up.
LEMMA BeforeInstallKeeps ==
    ASSUME IInv,
           \/ NoRom \/ RomRefused \/ DeviceBoots \/ InstallRefused
           \/ \E brought \in SUBSET {INSTALLER} : InstallerNotLaunched(brought)
    PROVE  IInv'
<1> USE BootAssumption
    DEF BootAssumption, IInv, NoRom, RomRefused, DeviceBoots, InstallRefused, InstallerNotLaunched,
        Fail, InstallAndAnnounce, machineVars, launchVars, blzVars, exports
<1>1. TypeInv'
  BY DEF TypeInv, Phases, Ended, Apps, DRIVES
<1>2. FreshInv' /\ InstallerInv' /\ NewInv'
  BY DEF FreshInv, InstallerInv, NewInv
<1>3. AloneInv' /\ HeldInv'
  BY DEF AloneInv, HeldInv
<1>4. GameInv'
  BY DEF AloneInv, GameInv, TheGameIsTheProjects, BusFollowsTheGame, TheGameRunsOnce
<1> QED BY <1>1, <1>2, <1>3, <1>4

\* N-Gage's launcher, a card and a package: what is new is what they brought.
LEMMA InstallKeeps ==
    ASSUME IInv,
           \/ \E brought \in SUBSET {NGAGE} : InstallNgage(brought)
           \/ \E brought \in SUBSET GAMES : InstallCard(brought)
           \/ \E brought \in SUBSET GAMES, result \in {0, 1} :
                  InstallPackage(brought, result)
    PROVE  IInv'
<1> USE BootAssumption
    DEF BootAssumption, IInv, InstallNgage, InstallCard, InstallPackage, InstallAndAnnounce,
        machineVars, launchVars, blzVars, exports
<1>1. TypeInv'
  BY DEF TypeInv, Phases, Ended, Apps, DRIVES
<1>2. FreshInv' /\ InstallerInv'
  BY DEF FreshInv, InstallerInv
<1>3. NewInv'
  BY DEF FreshInv, NewInv, NewApps, DRIVES
<1>4. AloneInv' /\ HeldInv'
  BY DEF AloneInv, HeldInv
<1>5. GameInv'
  BY DEF AloneInv, GameInv, TheGameIsTheProjects, BusFollowsTheGame, TheGameRunsOnce
<1> QED BY <1>1, <1>2, <1>3, <1>4, <1>5

\* The installer is the one application that is new when it is launched.
LEMMA StartBlzKeeps ==
    ASSUME IInv, NEW found \in BOOLEAN, StartBlz(found)
    PROVE  IInv'
<1> USE BootAssumption
    DEF BootAssumption, IInv, StartBlz, InstallAndAnnounce, machineVars, launchVars, blzVars, exports
<1>1. apps' = PHONE_APPS \cup {INSTALLER} /\ before' = PHONE_APPS
  BY DEF FreshInv, DRIVES
<1>2. NewApps(apps', before') = {INSTALLER}
  BY <1>1 DEF NewApps
<1>3. Lowest(NewApps(apps', before')) = INSTALLER
  BY <1>2, LowestIsOne DEF Apps
<1>4. /\ asid' \in {asid, INSTALLER}
      /\ processes' = [processes EXCEPT ![INSTALLER] = @ + 1]
  BY <1>3 DEF LaunchApp, FreshInv, Apps
<1>5. TypeInv'
  <2>1. processes' \in [Apps -> Int]
    BY <1>4 DEF TypeInv, Apps
  <2>2. drive' \in [DRIVES -> SUBSET Apps]
    BY DEF TypeInv, Apps, DRIVES
  <2> QED BY <1>1, <2>1, <2>2 DEF TypeInv, Phases, Ended, Apps
<1>6. FreshInv' /\ InstallerInv' /\ NewInv'
  BY <1>1 DEF FreshInv, InstallerInv, NewInv, DRIVES
<1>7. AloneInv' /\ HeldInv'
  <2>1. \A a \in Apps \ {INSTALLER} : processes'[a] = processes[a]
    BY <1>4 DEF TypeInv
  <2> QED BY <1>4, <2>1 DEF AloneInv, HeldInv
<1>8. GameInv'
  BY DEF AloneInv, GameInv, TheGameIsTheProjects, BusFollowsTheGame, TheGameRunsOnce
<1> QED BY <1>5, <1>6, <1>7, <1>8

\* A frame of the installer's, and the last: both keys are up again by then.
LEMMA BlzFrameKeeps ==
    ASSUME IInv, NEW unpacked \in SUBSET GAMES, BlzFrame(unpacked)
    PROVE  IInv'
<1> USE BootAssumption DEF BootAssumption, IInv, BlzFrame, exports
<1>1. \A a \in Apps \ {INSTALLER} : processes'[a] = processes[a]
  BY DEF TypeInv
<1>2. drive' \in [DRIVES -> SUBSET Apps] /\ drive'["e"] \subseteq GAMES
  BY DEF TypeInv, InstallerInv, Apps, DRIVES
<1>3. HeldInv'
  <2> SUFFICES ASSUME held'
               PROVE  HeldInv'
    BY DEF HeldInv
  <2>1. frame \in Nat
    BY DEF TypeInv
  <2>2. \/ OPTIONS_FRAME <= frame /\ frame < OPTIONS_FRAME + PRESS
        \/ INSTALL_FRAME <= frame /\ frame < INSTALL_FRAME + PRESS
    <3>1. CASE Pressed(frame)
      BY <3>1 DEF Pressed
    <3>2. CASE ~Pressed(frame)
      <4>1. held /\ ~LetGo(frame)
        BY <3>2, Zenon
      <4> QED BY <2>1, <4>1 DEF HeldInv, LetGo
    <3> QED BY <3>1, <3>2
  <2>3. pc' = "blz" /\ frame' = frame + 1
    BY <2>1, <2>2 DEF Over, LastFrame, NextFrame
  <2> QED BY <2>1, <2>2, <2>3 DEF HeldInv
<1>4. TypeInv'
  <2>1. processes' \in [Apps -> Int]
    BY DEF TypeInv, Apps
  <2>2. frame' \in Nat
    BY DEF TypeInv, NextFrame
  <2>3. held' \in BOOLEAN
    BY Zenon DEF TypeInv
  <2> QED BY <1>2, <2>1, <2>2, <2>3 DEF TypeInv, Phases, Ended
<1>5. FreshInv' /\ InstallerInv' /\ NewInv'
  BY <1>2 DEF FreshInv, InstallerInv, NewInv
<1>6. AloneInv'
  BY <1>1 DEF AloneInv
<1>7. GameInv'
  BY <1>6 DEF AloneInv, GameInv, TheGameIsTheProjects, BusFollowsTheGame, TheGameRunsOnce
<1> QED BY <1>3, <1>4, <1>5, <1>6, <1>7

\* Once the installer counts as one of those before, what it unpacked is new.
LEMMA FinishBlzKeeps ==
    ASSUME IInv, FinishBlz
    PROVE  IInv'
<1> USE BootAssumption DEF BootAssumption, IInv, FinishBlz, InstallAndAnnounce, blzVars
<1>1. drive' \in [DRIVES -> SUBSET Apps] /\ drive'["e"] = drive["e"]
  BY DEF TypeInv, DRIVES
<1>2. NewApps(apps', before') \subseteq drive'["e"] \cap GAMES
  BY <1>1 DEF InstallerInv, NewApps
<1>3. TypeInv'
  BY <1>1 DEF TypeInv, Phases, Ended, DRIVES
<1>4. FreshInv' /\ InstallerInv' /\ NewInv'
  BY <1>2 DEF FreshInv, InstallerInv, NewInv
<1>5. AloneInv' /\ HeldInv'
  BY DEF AloneInv, HeldInv
<1>6. GameInv'
  BY DEF AloneInv, GameInv, TheGameIsTheProjects, BusFollowsTheGame, TheGameRunsOnce
<1> QED BY <1>3, <1>4, <1>5, <1>6

\* The launch: nothing has been launched that it would be answered for.
LEMMA LaunchKeeps ==
    ASSUME IInv, NEW uid \in Apps, NEW found \in BOOLEAN, Launch(uid, found)
    PROVE  IInv'
<1> USE BootAssumption DEF BootAssumption, IInv, Launch, Return, blzVars
<1>1. uid # NO_APP /\ uid # INSTALLER
  <2>1. CASE game = "ngage"
    BY <2>1 DEF Chosen, Apps
  <2>2. CASE game # "ngage"
    BY <2>2, LowestIsOne DEF Chosen, NewInv, Apps
  <2> QED BY <2>1, <2>2
<1>2. /\ asid' = IF found THEN uid ELSE asid
      /\ owner_found' = found
      /\ processes' = [processes EXCEPT ![uid] = @ + 1]
  BY <1>1 DEF NewInv, LaunchApp
<1>3. TypeInv'
  BY <1>2 DEF TypeInv, Phases, Ended
<1>4. FreshInv' /\ InstallerInv' /\ NewInv' /\ AloneInv' /\ HeldInv'
  BY DEF FreshInv, InstallerInv, NewInv, AloneInv, HeldInv
<1>5. TheGameIsTheProjects'
  <2>1. CASE game = "ngage"
    BY <2>1 DEF Chosen, TheGameIsTheProjects
  <2>2. CASE game # "ngage"
    <3>1. uid \in NewApps(apps, before)
      BY <2>2, LowestIsOne DEF Chosen, NewInv, Apps
    <3> QED BY <2>2, <3>1 DEF NewInv, TheGameIsTheProjects, DRIVES
  <2> QED BY <2>1, <2>2
<1>6. BusFollowsTheGame' /\ TheGameRunsOnce'
  <2>1. processes[uid] = 0
    BY <1>1 DEF AloneInv
  <2>2. asid \in {NO_APP, INSTALLER}
    BY DEF AloneInv
  <2> QED BY <1>2, <2>1, <2>2 DEF BusFollowsTheGame, TheGameRunsOnce, TypeInv
<1> QED BY <1>3, <1>4, <1>5, <1>6 DEF GameInv

\* Init returns with no game, or the host and the applications go on.
LEMMA AfterwardsKeeps ==
    ASSUME IInv, LaunchNothing \/ FinishWithoutGame \/ Running
    PROVE  IInv'
<1> USE BootAssumption DEF BootAssumption, IInv
<1>1. CASE LaunchNothing \/ FinishWithoutGame
  <2> USE <1>1 DEF LaunchNothing, FinishWithoutGame, Return, machineVars, launchVars, blzVars
  <2>1. TypeInv'
    BY DEF TypeInv, Phases, Ended
  <2>2. FreshInv' /\ InstallerInv' /\ NewInv' /\ AloneInv' /\ HeldInv'
    BY DEF FreshInv, InstallerInv, NewInv, AloneInv, HeldInv
  <2>3. GameInv'
    BY DEF AloneInv, GameInv, TheGameIsTheProjects, BusFollowsTheGame, TheGameRunsOnce
  <2> QED BY <2>1, <2>2, <2>3
<1>2. CASE Running
  <2>1. PICK uid \in Apps : LaunchAppUid(uid) \/ AppExits(uid)
    BY <1>2 DEF Running
  <2> USE <2>1 DEF LaunchAppUid, AppExits, blzVars, exports
  <2>2. pc = "done"
    BY DEF AloneInv
  <2>3. processes' \in [Apps -> Int]
    BY DEF TypeInv
  <2>4. TypeInv'
    BY <2>3 DEF TypeInv
  <2>5. FreshInv' /\ InstallerInv' /\ NewInv' /\ AloneInv' /\ HeldInv'
    BY <2>2 DEF FreshInv, InstallerInv, NewInv, AloneInv, HeldInv
  <2>6. TheGameIsTheProjects' /\ BusFollowsTheGame'
    BY DEF GameInv, TheGameIsTheProjects, BusFollowsTheGame
  <2>7. TheGameRunsOnce'
    <3> SUFFICES ASSUME g_launched # NO_APP
                 PROVE  processes'[g_launched] <= 1
      BY DEF TheGameRunsOnce
    <3>1. g_launched \in Apps /\ processes[g_launched] <= 1
      BY DEF GameInv, TheGameIsTheProjects, TheGameRunsOnce, Apps
    <3> QED BY <3>1 DEF TypeInv
  <2> QED BY <2>4, <2>5, <2>6, <2>7 DEF GameInv
<1> QED BY <1>1, <1>2

LEMMA NextIInv == IInv /\ [Next]_vars => IInv'
<1> SUFFICES ASSUME IInv, [Next]_vars
             PROVE  IInv'
  OBVIOUS
<1>1. CASE UNCHANGED vars
  <2> USE <1>1 DEF vars, machineVars, launchVars, blzVars, exports, IInv
  <2>1. TypeInv' /\ FreshInv' /\ InstallerInv' /\ NewInv'
    BY DEF TypeInv, FreshInv, InstallerInv, NewInv
  <2>2. AloneInv' /\ HeldInv'
    BY DEF AloneInv, HeldInv
  <2>3. GameInv'
    BY DEF GameInv, TheGameIsTheProjects, BusFollowsTheGame, TheGameRunsOnce
  <2> QED BY <2>1, <2>2, <2>3
<1>2. CASE Next
  BY <1>2, BeforeInstallKeeps, InstallKeeps, StartBlzKeeps, BlzFrameKeeps,
     FinishBlzKeeps, LaunchKeeps, AfterwardsKeeps DEF Next, BootStep
<1> QED BY <1>1, <1>2

LEMMA AlwaysIInv == Spec => []IInv
BY InitIInv, NextIInv, PTL DEF Spec

(***************************************************************************)
(* The game Init starts came with the project and is on one of its drives, *)
(* never the phone's own or the installer (machine.cpp:758-759).           *)
(***************************************************************************)
THEOREM StartsTheProjects == Spec => []TheGameIsTheProjects
<1>1. IInv => TheGameIsTheProjects
  BY DEF IInv, GameInv
<1> QED BY <1>1, AlwaysIInv, PTL

(***************************************************************************)
(* From its launch on the bus reads the game's memory if the launch found  *)
(* its process, whatever was launched before or after, and otherwise what  *)
(* it read before it, which is no other application's than the             *)
(* installer's (machine.cpp:550-561).                                      *)
(***************************************************************************)
THEOREM BusIsTheGames == Spec => []BusFollowsTheGame
<1>1. IInv => BusFollowsTheGame
  BY DEF IInv, GameInv
<1> QED BY <1>1, AlwaysIInv, PTL

(***************************************************************************)
(* The game has never more than one process (wbx-entry.cpp:559-560).       *)
(***************************************************************************)
THEOREM RunsOnce == Spec => []TheGameRunsOnce
<1>1. IInv => TheGameRunsOnce
  BY DEF IInv, GameInv
<1> QED BY <1>1, AlwaysIInv, PTL

(***************************************************************************)
(* The driven installer leaves no key held, for any four frames in the     *)
(* order the constants have (machine.cpp:738-751).                         *)
(***************************************************************************)
THEOREM LeavesNoKeyHeld == Spec => []NoKeyIsLeftHeld
<1>1. IInv => NoKeyIsLeftHeld
  BY DEF IInv, HeldInv, NoKeyIsLeftHeld
<1> QED BY <1>1, AlwaysIInv, PTL
=============================================================================
