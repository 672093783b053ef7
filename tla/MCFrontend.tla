----------------------------- MODULE MCFrontend -----------------------------
(***************************************************************************)
(* Frontend with two buttons, two or three frames and one file.  A phone's *)
(* application draws one screen until a key has been pressed and another   *)
(* from then on; the screens are every way a picture is read or cannot be. *)
(***************************************************************************)
EXTENDS Frontend

red == <<255, 0, 0>>
blue == <<0, 68, 240>>

Of(direct, upright, depth, texture, size) ==
    [direct |-> direct, upright |-> upright, depth |-> depth,
     texture |-> texture, read |-> TRUE, size |-> size, drawn |-> blue, windows |-> red]

FITS == 2
MCScreens ==
    {Of(TRUE, TRUE, depth, TRUE, FITS) : depth \in {8, 12, 16, 24, 32}}
        \cup {Of(TRUE, FALSE, 12, TRUE, FITS), Of(FALSE, TRUE, 12, TRUE, FITS),
              [Of(FALSE, TRUE, 12, TRUE, FITS) EXCEPT !.read = FALSE],
              Of(FALSE, TRUE, 12, FALSE, FITS), Of(TRUE, TRUE, 12, TRUE, FITS + 1),
              Of(TRUE, TRUE, 12, TRUE, 0)}

MCPhones ==
    [server : {TRUE}, driver : {TRUE}, app : MCScreens \X MCScreens]
        \cup [server : BOOLEAN, driver : {FALSE}, app : {<<s, s>> : s \in MCScreens}]

MCScreen(ph, did) ==
    IF \E k \in DOMAIN did : did[k][1] = "key" THEN ph.app[2] ELSE ph.app[1]
=============================================================================
