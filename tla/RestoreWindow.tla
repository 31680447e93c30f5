--------------------------- MODULE RestoreWindow ---------------------------
(***************************************************************************)
(* The two ends of a restore, side by side: the call in the main process   *)
(* beside everything else that reads and records the folder (Restore), and *)
(* the window that asks for it and shows what came of it (Renderer). The   *)
(* window takes what main answers as an input, and the call what the user  *)
(* chose; neither waits for a step of the other. A behavior here is one of *)
(* either end, the other staying as it started.                            *)
(***************************************************************************)
EXTENDS Restore, Renderer

VARIABLE end     (* whose behavior this is: main's or the window's           *)

bothVars == <<end, allVars, rendererVars>>

BothInit ==
    /\ end \in {"main", "window"}
    /\ RestoreInit /\ RendererInit
    /\ end = "main" => selected = Nothing
    /\ end = "window" => disk[CHOOSE p \in Paths : TRUE] # None /\ entombed = {}

BothNext ==
    /\ UNCHANGED end
    /\ \/ end = "main" /\ RestoreNext /\ UNCHANGED rendererVars
       \/ end = "window" /\ RendererNext /\ UNCHANGED allVars

BothSpec == BothInit /\ [][BothNext]_bothVars

(* Both ends have their types: what a call keeps or displaces is what it   *)
(* has read (restoreService.ts:87,201), and a dialog, a comparison or an   *)
(* answer is of a version that exists (appStore.ts:347).                   *)
BothTypeOK == RestoreTypeOK /\ RendererTypeOK
=============================================================================
