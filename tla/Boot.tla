-------------------------------- MODULE Boot --------------------------------
(***************************************************************************)
(* How a project's game comes to run: Init of wbx-entry.cpp, and the       *)
(* installs and launches of machine.cpp it is made of.  A card image is    *)
(* unpacked by driving a Symbian application through its menu, blind: keys *)
(* are pressed at fixed frames, and only its end can be observed.          *)
(*                                                                         *)
(* External: whether the ROM, the host's files and the packages are any    *)
(* good, what they hold, whether a launched process is found by its thread *)
(* and what the installer makes of the keys.                               *)
(***************************************************************************)
EXTENDS Integers, FiniteSets

CONSTANTS
    PHONE_APPS,     \* what the phone comes with
    INSTALLER,      \* the application that unpacks a .blz
    NGAGE,          \* NGAGE_GAMES_UID
    GAMES,          \* what a card, a package or a .blz may hold
    NO_APP,         \* 0
    OPTIONS_FRAME, INSTALL_FRAME, PRESS, GIVE_UP_FRAME,
    MAX_LAUNCHES    \* bound: processes of one application

Apps == PHONE_APPS \cup {INSTALLER, NGAGE} \cup GAMES

ASSUME BootAssumption ==
    /\ Apps \subseteq Nat
    /\ NO_APP = 0 /\ NO_APP \notin Apps
    /\ INSTALLER \notin PHONE_APPS \cup GAMES
    /\ NGAGE \notin PHONE_APPS \cup GAMES \cup {INSTALLER}
    /\ PHONE_APPS \cap GAMES = {}
    /\ OPTIONS_FRAME \in Nat /\ PRESS \in Nat \ {0}
    /\ INSTALL_FRAME \in Nat /\ OPTIONS_FRAME + PRESS < INSTALL_FRAME
    /\ GIVE_UP_FRAME \in Nat /\ INSTALL_FRAME + PRESS < GIVE_UP_FRAME
    /\ MAX_LAUNCHES \in Nat \ {0}

VARIABLES
    pc,           \* where Init is, "done" or "failed" when it has returned
    game,         \* what kind of file the project brought
    drive,        \* the applications whose registrations lie on drives c, e
    apps,         \* the application list's registrations
    before,       \* machine::apps_before_install_
    launched_uid, \* machine::launched_uid_
    asid,         \* machine::game_asid_, as the application it belongs to
    owner_found,  \* history: the last launch found its process and its memory
    processes,    \* how many of an application's processes live
    frame,        \* install_blz's loop
    held,         \* machine::buttons_[BUTTON_SOFT_LEFT]
    menu,         \* what the installer shows
    g_inited, g_device, g_launched, g_installed

launchVars == <<launched_uid, asid, owner_found, processes>>
machineVars == <<drive, apps, before, launchVars>>
blzVars == <<frame, held, menu>>
exports == <<g_inited, g_device, g_launched, g_installed>>
vars == <<pc, game, machineVars, blzVars, exports>>

Kinds == {"none", "ngage", "blz", "card"}
Ended == {"done", "failed"}
DRIVES == {"c", "e"}
NOT_INSTALLED == -1

Init ==
    /\ pc = "device"
    /\ game \in Kinds
    /\ drive = [d \in DRIVES |-> {}]
    /\ apps = {}
    /\ before = {}
    /\ launched_uid = NO_APP
    /\ asid = NO_APP
    /\ owner_found = FALSE
    /\ processes = [a \in Apps |-> 0]
    /\ frame = 0 /\ held = FALSE /\ menu = "off"
    /\ g_inited = FALSE /\ g_device = FALSE
    /\ g_launched = NO_APP /\ g_installed = NOT_INSTALLED

Fail ==
    /\ pc' = "failed"
    /\ UNCHANGED exports

-----------------------------------------------------------------------------
(* The application list.                                                   *)

\* install_package: what a package brings lands on a drive, and the list
\* learns of it when the drive is announced.  Both in one here: no step of
\* Init reads the list between the two.
InstallAndAnnounce(d, brought) ==
    /\ drive' = [drive EXCEPT ![d] = @ \cup brought]
    /\ apps' = apps \cup drive'[d]

\* The project's applications: the ones the machine did not have before.
NewApps(list, had) == list \ had

Lowest(s) == CHOOSE a \in s : \A b \in s : a <= b

\* Variant of LaunchApp: the first launch decides whose memory the bus reads.
LaunchAppKeepingAsid(uid, found) ==
    IF launched_uid = uid THEN UNCHANGED launchVars
    ELSE /\ launched_uid' = uid
         /\ asid' = IF found /\ asid = NO_APP THEN uid ELSE asid
         /\ owner_found' = found
         /\ processes' = [processes EXCEPT ![uid] = @ + 1]

\* launch_app of a registration the list has and the machine takes: an
\* application launched last is running already.  The address space is the
\* one of the process that owns the new thread; where the thread, its process
\* or that one's memory is not found, the machine keeps the one it had.
LaunchApp(uid, found) ==
    IF launched_uid = uid THEN UNCHANGED launchVars
    ELSE /\ launched_uid' = uid
         /\ asid' = IF found THEN uid ELSE asid
         /\ owner_found' = found
         /\ processes' = [processes EXCEPT ![uid] = @ + 1]

-----------------------------------------------------------------------------
(* Init, to the point where a game may be installed.                       *)

\* No ROM at all is an empty machine.
NoRom ==
    /\ pc = "device"
    /\ game = "none"
    /\ pc' = "done"
    /\ g_inited' = TRUE
    /\ UNCHANGED <<game, machineVars, blzVars, g_device, g_launched, g_installed>>

\* A ROM that makes no device, an RPKG missing, or a device refused.
RomRefused ==
    /\ pc = "device"
    /\ Fail
    /\ UNCHANGED <<game, machineVars, blzVars>>

\* The drives are mounted, the device set and booted; with a game on its way
\* the machine remembers what it had.
DeviceBoots ==
    /\ pc = "device"
    /\ apps' = PHONE_APPS
    /\ before' = IF game = "none" THEN before ELSE PHONE_APPS
    /\ pc' = IF game = "none" THEN "finish" ELSE "install"
    /\ UNCHANGED <<game, drive, launchVars, blzVars, exports>>

-----------------------------------------------------------------------------
(* The installs.                                                           *)

\* The project's file, the launcher or the installer cannot be had.  What a
\* half-done install leaves on drive c is not kept here: nothing reads it.
InstallRefused ==
    /\ pc = "install"
    /\ game \in {"ngage", "blz"}
    /\ Fail
    /\ UNCHANGED <<game, machineVars, blzVars>>

\* install_blz remembers what there is, installs the installer, and then
\* there is nothing new in the list, or the machine does not take it.
InstallerNotLaunched(brought) ==
    /\ pc = "install"
    /\ game = "blz"
    /\ before' = apps
    /\ InstallAndAnnounce("c", brought)
    /\ Fail
    /\ UNCHANGED <<game, launchVars, blzVars>>

\* install_ngage: the launcher's packages, which may not hold the "Games"
\* entry it then answers.
InstallNgage(brought) ==
    /\ pc = "install"
    /\ game = "ngage"
    /\ InstallAndAnnounce("c", brought)
    /\ g_installed' = 0
    /\ pc' = "launch"
    /\ UNCHANGED <<game, before, launchVars, blzVars, g_inited, g_device,
                   g_launched>>

\* install_blz as far as its loop: the installer is installed, found among
\* the new applications, and launched.
StartBlz(found) ==
    /\ pc = "install"
    /\ game = "blz"
    /\ before' = apps
    /\ InstallAndAnnounce("c", {INSTALLER})
    /\ LaunchApp(Lowest(NewApps(apps', before')), found)
    /\ menu' = "listing"
    /\ pc' = "blz"
    /\ UNCHANGED <<game, frame, held, exports>>

Pressed(f) == f \in {OPTIONS_FRAME, INSTALL_FRAME}
LetGo(f) == f \in {OPTIONS_FRAME + PRESS, INSTALL_FRAME + PRESS}

\* External: what the installer may show a frame later.  It lists the card in
\* its own time, takes a key only when it shows a menu, and may end at any
\* moment; what it does not end by itself lasts.
Shows(press) ==
    CASE menu = "listing"   -> {"listing", "ready", "exited"}
      [] menu = "ready"     -> {IF press THEN "options" ELSE "ready", "exited"}
      [] menu = "options"   -> {IF press THEN "unpacking" ELSE "options", "exited"}
      [] menu = "unpacking" -> {"unpacking", "exited"}
      [] OTHER              -> {menu}

\* Variant of Over: the application's end is looked for as soon as it has
\* been told to install.
OverEarly(f) == f > INSTALL_FRAME /\ menu' = "exited"

Over(f) == f > INSTALL_FRAME + PRESS /\ menu' = "exited"

LastFrame(f) == f + 1 = GIVE_UP_FRAME

\* Variant of NextFrame: an installer still listing the card after both keys
\* is given them again.
NextFrameRetrying(f) ==
    IF f = INSTALL_FRAME + PRESS /\ menu' = "listing" THEN 0 ELSE f + 1

NextFrame(f) == f + 1

\* One pass of the loop: the key, a sixtieth of a second, and a look at
\* whether the installer is still there.
BlzFrame(unpacked) ==
    /\ pc = "blz"
    /\ held' = IF Pressed(frame) THEN TRUE ELSE IF LetGo(frame) THEN FALSE ELSE held
    /\ menu' \in Shows(held' /\ ~held)
    /\ LET exits == menu # "exited" /\ menu' = "exited"
       IN  /\ processes' = IF exits THEN [processes EXCEPT ![INSTALLER] = @ - 1]
                           ELSE processes
           /\ IF exits /\ menu = "unpacking"
              THEN drive' = [drive EXCEPT !["e"] = @ \cup unpacked]
              ELSE unpacked = {} /\ drive' = drive
    /\ pc' = IF Over(frame) \/ LastFrame(frame) THEN "unpacked" ELSE pc
    /\ frame' = IF LastFrame(frame) THEN frame ELSE NextFrame(frame)
    /\ UNCHANGED <<game, apps, before, launched_uid, asid, owner_found, exports>>

\* Variant of FinishBlz: the installer is not added to what was there before.
FinishBlzRemembering ==
    /\ pc = "unpacked"
    /\ InstallAndAnnounce("e", {})
    /\ launched_uid' = NO_APP
    /\ g_installed' = 0
    /\ pc' = "launch"
    /\ UNCHANGED <<game, before, asid, owner_found, processes, blzVars, g_inited,
                   g_device, g_launched>>

\* The rest of install_blz, which answers true.
FinishBlz ==
    /\ pc = "unpacked"
    /\ InstallAndAnnounce("e", {})
    /\ before' = before \cup {INSTALLER}
    /\ launched_uid' = NO_APP
    /\ g_installed' = 0
    /\ pc' = "launch"
    /\ UNCHANGED <<game, asid, owner_found, processes, blzVars, g_inited, g_device,
                   g_launched>>

\* install_card: files were written to the card, whatever they register.
InstallCard(brought) ==
    /\ pc = "install"
    /\ game = "card"
    /\ InstallAndAnnounce("e", brought)
    /\ g_installed' = 0
    /\ pc' = "launch"
    /\ UNCHANGED <<game, before, launchVars, blzVars, g_inited, g_device,
                   g_launched>>

\* Not a card: a package, and the result says what became of it.  A package
\* refused brings nothing, and Init goes on.
InstallPackage(brought, result) ==
    /\ pc = "install"
    /\ game = "card"
    /\ result # 0 => brought = {}
    /\ InstallAndAnnounce("c", brought)
    /\ g_installed' = result
    /\ pc' = "launch"
    /\ UNCHANGED <<game, before, launchVars, blzVars, g_inited, g_device,
                   g_launched>>

-----------------------------------------------------------------------------
(* The launch, and what the host may ask for afterwards.                   *)

Return ==
    /\ g_inited' = TRUE
    /\ g_device' = TRUE
    /\ pc' = "done"

\* Variants of Chosen: any application will do, or the ones before it too.
ChosenOfAll == IF game = "ngage" THEN {NGAGE} \cap apps
               ELSE IF apps = {} THEN {} ELSE {Lowest(apps)}

\* The application to start, if there is one: N-Gage's own, or the lowest of
\* the project's.
Chosen ==
    IF game = "ngage" THEN {NGAGE} \cap apps
    ELSE IF NewApps(apps, before) = {} THEN {}
    ELSE {Lowest(NewApps(apps, before))}

Launch(uid, found) ==
    /\ pc = "launch"
    /\ uid \in Chosen
    /\ LaunchApp(uid, found)
    /\ g_launched' = uid
    /\ Return
    /\ UNCHANGED <<game, drive, apps, before, blzVars, g_installed>>

\* There is none, or the machine does not take it.
LaunchNothing ==
    /\ pc = "launch"
    /\ Return
    /\ UNCHANGED <<game, machineVars, blzVars, g_launched, g_installed>>

FinishWithoutGame ==
    /\ pc = "finish"
    /\ Return
    /\ UNCHANGED <<game, machineVars, blzVars, g_launched, g_installed>>

\* Variant of LaunchAppUid: the project's own application is started again.
LaunchAppUidAgain(uid) ==
    /\ g_device
    /\ uid \in apps
    /\ processes[uid] < MAX_LAUNCHES
    /\ processes' = [processes EXCEPT ![uid] = @ + 1]
    /\ UNCHANGED <<pc, game, drive, apps, before, launched_uid, asid, owner_found, blzVars,
                   exports>>

\* The export: the project's own application is answered for, any other is
\* launched, past the machine's own launch_app.
LaunchAppUid(uid) ==
    /\ g_device
    /\ uid # g_launched
    /\ uid \in apps
    /\ processes[uid] < MAX_LAUNCHES
    /\ processes' = [processes EXCEPT ![uid] = @ + 1]
    /\ UNCHANGED <<pc, game, drive, apps, before, launched_uid, asid, owner_found, blzVars,
                   exports>>

\* External: an application ends.
AppExits(uid) ==
    /\ pc = "done"
    /\ processes[uid] > 0
    /\ processes' = [processes EXCEPT ![uid] = @ - 1]
    /\ UNCHANGED <<pc, game, drive, apps, before, launched_uid, asid, owner_found, blzVars,
                   exports>>

\* What Init runs through, one step after another.
BootStep ==
    \/ NoRom \/ RomRefused \/ DeviceBoots
    \/ InstallRefused
    \/ \E brought \in SUBSET {INSTALLER} : InstallerNotLaunched(brought)
    \/ \E brought \in SUBSET {NGAGE} : InstallNgage(brought)
    \/ \E found \in BOOLEAN : StartBlz(found)
    \/ \E unpacked \in SUBSET GAMES : BlzFrame(unpacked)
    \/ FinishBlz
    \/ \E brought \in SUBSET GAMES : InstallCard(brought)
    \/ \E brought \in SUBSET GAMES, result \in {0, 1} :
           InstallPackage(brought, result)
    \/ \E uid \in Apps, found \in BOOLEAN : Launch(uid, found)
    \/ LaunchNothing
    \/ FinishWithoutGame

Running == \E uid \in Apps : LaunchAppUid(uid) \/ AppExits(uid)

Next == BootStep \/ Running

Spec == Init /\ [][Next]_vars /\ WF_vars(BootStep)

-----------------------------------------------------------------------------

(***************************************************************************)
(* What the machine starts for the project is the project's: not an        *)
(* application of the phone's, and not the installer that unpacked it      *)
(* (launch_installed_app, and "the installer is no longer the project's    *)
(* application", machine.cpp:758-759).                                     *)
(***************************************************************************)
TheGameIsTheProjects ==
    g_launched # NO_APP =>
        IF game = "ngage" THEN g_launched = NGAGE
        ELSE g_launched \in GAMES /\ \E d \in DRIVES : g_launched \in drive[d]

(***************************************************************************)
(* The bus reads the game's memory once the game is started and its        *)
(* process found, although the installer was launched before it, and       *)
(* whatever the host launches after it.  Where the game's process is not   *)
(* found the bus reads what it read before: nobody's memory, or that of    *)
(* the installer, ended or not (launch_app, machine.cpp:550-561).          *)
(***************************************************************************)
BusFollowsTheGame ==
    g_launched # NO_APP =>
        IF owner_found THEN asid = g_launched ELSE asid \in {NO_APP, INSTALLER}

(***************************************************************************)
(* The game runs once: "a second copy of a running game would be a second  *)
(* process, not a restart" (wbx-entry.cpp:559-560).                        *)
(***************************************************************************)
TheGameRunsOnce == g_launched # NO_APP => processes[g_launched] <= 1

(***************************************************************************)
(* The installer's end, however early it comes, leaves no key held down    *)
(* for the game that is started next (machine.cpp:738-751).                *)
(***************************************************************************)
NoKeyIsLeftHeld == pc \notin {"blz"} => ~held

(***************************************************************************)
(* Init returns, whatever the installer makes of its keys.                 *)
(***************************************************************************)
InitReturns == <>(pc \in Ended)
=============================================================================
