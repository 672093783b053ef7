----------------------------- MODULE GuestBuild -----------------------------
(***************************************************************************)
(* The scripts that build the core and package it, each stopped or failing *)
(* anywhere and run again over what it left: setup-mesa.sh,                *)
(* setup-ffmpeg.sh, build-guest.sh, build-core.sh, and build-package.sh,   *)
(* which calls the first, the third and the fourth in turn.  Of            *)
(* apply-patches.sh they rely on what PatchedTree says.                    *)
(*                                                                         *)
(* External: curl, meson and ninja, configure and make, cmake, the linker. *)
(* Ninja knows which archives are of the tree and the options as they are; *)
(* guest.mk, which makes the adapter's objects, knows only which are there.*)
(* People touch the trees between scripts, not under them.                 *)
(***************************************************************************)
EXTENDS PatchedTree, FiniteSets

CONSTANTS
    MESA_PARTS,     \* what Mesa's build makes that the core links
    MESA_ARCHIVES,  \* the *.a among them
    MESA_CHECKED,   \* those setup-mesa.sh looks for when it has built
    FF_LIBS,        \* what FFmpeg's install stages
    AVCODEC,        \* the one of them build-guest.sh looks for
    ARCHIVES,       \* the guest's own
    OBJECTS,        \* the adapter's, guest.mk's OBJS
    NONE, CUT       \* no file, a file written in part

\* What is linked: archives of the series' tree, with FFmpeg, the pinned Mesa,
\* and adapter objects compiled of the series' tree.
CORES == [patched : BOOLEAN, sound : BOOLEAN, pinned : BOOLEAN,
          adapter : BOOLEAN]

ASSUME GuestBuildAssumption ==
    /\ MESA_PARTS # {}
    /\ MESA_ARCHIVES \subseteq MESA_PARTS /\ MESA_CHECKED \subseteq MESA_PARTS
    /\ AVCODEC \in FF_LIBS
    /\ OBJECTS # {}
    /\ NONE # CUT /\ NONE \notin {"whole", "series", "other"} /\ CUT # "whole"
    /\ {NONE, CUT} \cap CORES = {}

VARIABLES
    step,       \* what the running script does next, or "idle"
    packaging,  \* build-package.sh has called it
    anew,       \* history: and had no object of the adapter's when it began
    tarball,    \* in the cache, under its final name
    mesa,       \* build/mesa: [pinned, parts]
    ffmpeg,     \* build/ffmpeg-guest: [config, libs]
    guest,      \* build/guest: [there, made, current, sound]
    adapter,    \* obj-guest: the tree whose headers and files each object has
    core,       \* bin/core.wbx
    package     \* eka2l1.chimeraCore

run == <<step, packaging, anew>>
built == <<tarball, mesa, ffmpeg, guest, adapter, core, package>>
vars == <<carries, at, verdict, run, built>>

TARBALLS == {NONE, "pinned", "another"}
NO_MESA == [pinned |-> FALSE, parts |-> {}]
NO_FFMPEG == [config |-> NONE, libs |-> {}]
NO_GUEST == [there |-> FALSE, made |-> {}, current |-> {}, sound |-> FALSE]
NO_ADAPTER == [o \in OBJECTS |-> NONE]

Init ==
    /\ TreeInit
    /\ step = "idle" /\ packaging = FALSE /\ anew = FALSE
    /\ tarball = NONE
    /\ mesa = NO_MESA
    /\ ffmpeg = NO_FFMPEG
    /\ guest = NO_GUEST
    /\ adapter = NO_ADAPTER
    /\ core = NONE /\ package = NONE

-----------------------------------------------------------------------------
(* How scripts follow one another.                                         *)

Begins(first, pack) ==
    /\ step = "idle"
    /\ step' = first /\ packaging' = pack
    /\ anew' = (pack /\ adapter = NO_ADAPTER)
    /\ UNCHANGED <<treeVars, built>>

RunScript ==
    \/ Begins("mesa", TRUE)
    \/ \E first \in {"mesa", "ffmpeg", "guest", "core"} : Begins(first, FALSE)

Goes(next) == step' = next /\ UNCHANGED <<packaging, anew>>

Returns == step' = "idle" /\ packaging' = FALSE /\ anew' = FALSE

\* A script that ends well: build-package.sh goes on to the next.
Ends(next) == IF packaging THEN Goes(next) ELSE Returns

\* set -e, in the script and in the one that called it.
Fails == Returns

-----------------------------------------------------------------------------
(* setup-mesa.sh.                                                          *)

MesaIsThere ==
    /\ step = "mesa"
    /\ mesa.parts \cap MESA_ARCHIVES # {}
    /\ Ends("guest")
    /\ UNCHANGED <<treeVars, built>>

\* The name is the tarball's once it is whole; whose it is, the next step sees.
FetchMesa ==
    /\ step = "mesa"
    /\ mesa.parts \cap MESA_ARCHIVES = {}
    /\ IF tarball # NONE THEN tarball' = tarball
       ELSE tarball' \in TARBALLS \ {NONE}
    /\ Goes("mesa check")
    /\ UNCHANGED <<treeVars, mesa, ffmpeg, guest, adapter, core, package>>

CheckMesa ==
    /\ step = "mesa check"
    /\ IF tarball = "pinned" THEN Goes("mesa unpack") ELSE Fails
    /\ UNCHANGED <<treeVars, built>>

\* Unpacked over nothing, patched, configured.
UnpackMesa ==
    /\ step = "mesa unpack"
    /\ mesa' = [pinned |-> tarball = "pinned", parts |-> {}]
    /\ Goes("mesa make")
    /\ UNCHANGED <<treeVars, tarball, ffmpeg, guest, adapter, core, package>>

NinjaMakesMesa(part) ==
    /\ step = "mesa make"
    /\ mesa' = [mesa EXCEPT !.parts = @ \cup {part}]
    /\ Goes("mesa make")
    /\ UNCHANGED <<treeVars, tarball, ffmpeg, guest, adapter, core, package>>

\* "the failure is expected": wherever ninja gave up, the script goes on.
NinjaEnds ==
    /\ step = "mesa make"
    /\ Goes("mesa verify")
    /\ UNCHANGED <<treeVars, built>>

VerifyMesa ==
    /\ step = "mesa verify"
    /\ IF MESA_CHECKED \subseteq mesa.parts THEN Ends("guest") ELSE Fails
    /\ UNCHANGED <<treeVars, built>>

-----------------------------------------------------------------------------
(* setup-ffmpeg.sh.                                                        *)

ConfigureFfmpeg ==
    /\ step = "ffmpeg"
    /\ ffmpeg' = IF ffmpeg.config = NONE THEN [ffmpeg EXCEPT !.config = "whole"]
                 ELSE ffmpeg
    /\ Goes("ffmpeg install")
    /\ UNCHANGED <<treeVars, tarball, mesa, guest, adapter, core, package>>

\* make install, which stages them one by one; what an interrupted configure
\* has left cannot be made.
StageLib(lib) ==
    /\ step = "ffmpeg install"
    /\ ffmpeg.config = "whole"
    /\ ffmpeg' = [ffmpeg EXCEPT !.libs = @ \cup {lib}]
    /\ Goes("ffmpeg install")
    /\ UNCHANGED <<treeVars, tarball, mesa, guest, adapter, core, package>>

FfmpegIsStaged ==
    /\ step = "ffmpeg install"
    /\ ffmpeg.libs = FF_LIBS
    /\ Returns
    /\ UNCHANGED <<treeVars, built>>

-----------------------------------------------------------------------------
(* build-guest.sh.                                                         *)

\* apply-patches.sh, as PatchedTree promises it; what it writes is to be
\* compiled again.
ApplyPatches ==
    /\ step = "guest"
    /\ \/ FindsItPatched /\ Goes("guest configure") /\ guest' = guest
       \/ Refuses /\ Fails /\ guest' = guest
       \/ Starts /\ Goes("guest") /\ guest' = guest
       \/ Writes /\ Goes("guest") /\ guest' = [guest EXCEPT !.current = {}]
       \/ Finishes /\ Goes("guest configure") /\ guest' = guest
    /\ UNCHANGED <<tarball, mesa, ffmpeg, adapter, core, package>>

\* Variant of ConfigureGuest: an existing configuration is left as it is.
ConfigureGuestOnce ==
    /\ step = "guest configure"
    /\ guest' = IF guest.there THEN guest
                ELSE [guest EXCEPT !.there = TRUE,
                                   !.sound = AVCODEC \in ffmpeg.libs]
    /\ Goes("guest make")
    /\ UNCHANGED <<treeVars, tarball, mesa, ffmpeg, adapter, core, package>>

\* cmake: other options than before, and everything is to be compiled again.
ConfigureGuest ==
    /\ step = "guest configure"
    /\ guest' = IF guest.sound <=> AVCODEC \in ffmpeg.libs
                THEN [guest EXCEPT !.there = TRUE]
                ELSE [guest EXCEPT !.there = TRUE, !.sound = ~@, !.current = {}]
    /\ Goes("guest make")
    /\ UNCHANGED <<treeVars, tarball, mesa, ffmpeg, adapter, core, package>>

CompileArchive(a) ==
    /\ step = "guest make"
    /\ guest' = [guest EXCEPT !.made = @ \cup {a}, !.current = @ \cup {a}]
    /\ Goes("guest make")
    /\ UNCHANGED <<treeVars, tarball, mesa, ffmpeg, adapter, core, package>>

GuestIsMade ==
    /\ step = "guest make"
    /\ guest.current = ARCHIVES
    /\ Ends("core")
    /\ UNCHANGED <<treeVars, built>>

-----------------------------------------------------------------------------
(* build-core.sh.                                                          *)

\* guest.mk compiles what is not there, of the tree as it is: a rule names no
\* header, so an object that is there is as good as new until its own source
\* is newer.  Of a tree that is not the series' it may be the same or not.
CompileObject(o) ==
    /\ step = "core"
    /\ guest.there
    /\ adapter[o] = NONE
    /\ \E of \in IF carries = "series" THEN {"series"} ELSE {"series", "other"} :
           adapter' = [adapter EXCEPT ![o] = of]
    /\ Goes("core")
    /\ UNCHANGED <<treeVars, tarball, mesa, ffmpeg, guest, core, package>>

ObjectsAreMade == \A o \in OBJECTS : adapter[o] # NONE

\* Archives of before may have been compiled with sound or without.
MayWantSound == IF guest.current = ARCHIVES THEN {guest.sound} ELSE BOOLEAN

\* Nothing is missing: all that is in the directories is given to the linker,
\* and FFmpeg's five by name if there is a directory for them.
Links(sound) ==
    /\ ObjectsAreMade
    /\ guest.made = ARCHIVES
    /\ mesa.parts = MESA_PARTS
    /\ ffmpeg.libs # {} => ffmpeg.libs = FF_LIBS
    /\ sound => ffmpeg.libs # {}

LinkCore ==
    /\ step = "core"
    /\ \E sound \in MayWantSound :
          /\ Links(sound)
          /\ core' = [patched |-> carries = "series" /\ guest.current = ARCHIVES,
                      sound |-> sound, pinned |-> mesa.pinned,
                      adapter |-> \A o \in OBJECTS : adapter[o] = "series"]
    /\ Ends("package")
    /\ UNCHANGED <<treeVars, tarball, mesa, ffmpeg, guest, adapter, package>>

\* Variant of LinkFails: the failure is passed over.
LinkFailsQuietly ==
    /\ step = "core"
    /\ guest.there => ObjectsAreMade
    /\ \E sound \in MayWantSound : ~Links(sound)
    /\ Ends("package")
    /\ UNCHANGED <<treeVars, built>>

\* There is no guest at all, or the link fails: then whether what was there
\* before is still there depends on how.
LinkFails ==
    /\ step = "core"
    /\ guest.there => ObjectsAreMade
    /\ \E sound \in MayWantSound : ~Links(sound)
    /\ core' = core \/ (guest.there /\ core' = NONE)
    /\ Fails
    /\ UNCHANGED <<treeVars, tarball, mesa, ffmpeg, guest, adapter, package>>

-----------------------------------------------------------------------------
(* build-package.sh, once it has a core.                                   *)

\* Staged, and zipped under the name it is to have.
WritePackage ==
    /\ step = "package"
    /\ package' = core
    /\ Goes("package again")
    /\ UNCHANGED <<treeVars, tarball, mesa, ffmpeg, guest, adapter, core>>

\* Zipped a second time, to see that it comes out the same.
PackageIsMade ==
    /\ step = "package again"
    /\ Returns
    /\ UNCHANGED <<treeVars, built>>

-----------------------------------------------------------------------------

\* A tool fails, or the whole is stopped: what was being written stays in part.
Stopped ==
    /\ step # "idle"
    /\ Fails
    /\ IF at = "applying" THEN IsStopped ELSE UNCHANGED treeVars
    /\ ffmpeg' \in {ffmpeg} \cup
           (IF step = "ffmpeg" /\ ffmpeg.config = NONE
            THEN {[ffmpeg EXCEPT !.config = CUT]} ELSE {})
    /\ core' \in {core} \cup (IF step = "core" THEN {NONE, CUT} ELSE {})
    /\ package' \in {package} \cup (IF step = "package" THEN {NONE, CUT} ELSE {})
    /\ UNCHANGED <<tarball, mesa, guest, adapter>>

\* Somebody edits or reverts files, and what was compiled of them is older, or
\* brings in another series, and they are what they were.  An object of the
\* adapter's is of another tree than the series' then, or is of it again, or
\* its own source is newer, and it is to be made.
TouchTree ==
    /\ step = "idle"
    /\ IsTouched
    /\ guest' \in {guest, [guest EXCEPT !.current = {}]}
    /\ adapter' \in {f \in [OBJECTS -> {NONE, "series", "other"}] :
                        \A o \in OBJECTS : adapter[o] = NONE => f[o] = NONE}
    /\ UNCHANGED <<run, tarball, mesa, ffmpeg, core, package>>

\* Somebody takes a build away to have it made anew.
Clean ==
    /\ step = "idle"
    /\ \/ mesa' = NO_MESA /\ UNCHANGED <<tarball, ffmpeg, adapter>>
       \/ tarball' = NONE /\ UNCHANGED <<mesa, ffmpeg, adapter>>
       \/ ffmpeg' = NO_FFMPEG /\ UNCHANGED <<tarball, mesa, adapter>>
       \/ adapter' = NO_ADAPTER /\ UNCHANGED <<tarball, mesa, ffmpeg>>
    /\ UNCHANGED <<treeVars, run, guest, core, package>>

Script ==
    \/ MesaIsThere \/ FetchMesa \/ CheckMesa \/ UnpackMesa
    \/ \E part \in MESA_PARTS : NinjaMakesMesa(part)
    \/ NinjaEnds \/ VerifyMesa
    \/ ConfigureFfmpeg \/ (\E lib \in FF_LIBS : StageLib(lib)) \/ FfmpegIsStaged
    \/ ApplyPatches \/ ConfigureGuest
    \/ \E a \in ARCHIVES : CompileArchive(a)
    \/ GuestIsMade
    \/ \E o \in OBJECTS : CompileObject(o)
    \/ LinkCore \/ LinkFails
    \/ WritePackage \/ PackageIsMade

Next == RunScript \/ Script \/ Stopped \/ TouchTree \/ Clean

Spec == Init /\ [][Next]_vars

-----------------------------------------------------------------------------

(***************************************************************************)
(* A package that is whole is of the series: linked from archives all      *)
(* compiled of the tree as the series leaves it, and from a Mesa unpacked  *)
(* from the tarball "this core is pinned to", whatever was stopped, edited *)
(* or linked by hand before, and whichever core is lying in bin            *)
(* (build-package.sh:32-35, setup-mesa.sh:61-64).  Its adapter is of the   *)
(* series too where build-package.sh found none of its objects when it     *)
(* began.  Objects that were there are linked as they are, of whichever    *)
(* tree (guest.mk:38-53), and then nothing is promised of them.            *)
(***************************************************************************)
PackageIsTheSeries ==
    package \notin {NONE, CUT} =>
        /\ package.patched /\ package.pinned
        /\ step = "package again" /\ anew => package.adapter

(***************************************************************************)
(* A package is made with sound if FFmpeg is staged, whole, and silent if  *)
(* none of it is, "a core built without it still runs every game"          *)
(* (setup-ffmpeg.sh:28-30): with part of it none is made at all, though    *)
(* build-guest.sh looks for one library and build-core.sh for their        *)
(* directory, and FFmpeg may have come, gone or been cut short since the   *)
(* guest was last configured.                                              *)
(***************************************************************************)
SoundIsWhole ==
    [][step = "package" /\ package' \notin {package, NONE, CUT} =>
          /\ ffmpeg.libs \in {{}, FF_LIBS}
          /\ package'.sound <=> ffmpeg.libs = FF_LIBS]_vars
=============================================================================
