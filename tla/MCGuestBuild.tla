---------------------------- MODULE MCGuestBuild ----------------------------
(***************************************************************************)
(* GuestBuild with a Mesa of three parts, one of them no archive and one   *)
(* not looked for afterwards, an FFmpeg of two libraries, a guest of two   *)
(* archives, which are alike, and one object of the adapter's.             *)
(***************************************************************************)
EXTENDS GuestBuild, TLC

MCMesaParts == {"glapi", "gallium", "target"}
MCMesaArchives == {"glapi", "gallium"}
MCMesaChecked == {"glapi", "target"}

\* The verdict is for the script's reader: no build and no property asks it.
WithoutVerdict == <<carries, at, run, built>>

ArchivesAreAlike == Permutations(ARCHIVES)
=============================================================================
