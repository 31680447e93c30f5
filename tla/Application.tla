---------------------------- MODULE Application ----------------------------
(***************************************************************************)
(* The parts of the main process that are checked by themselves, side by   *)
(* side: the queue (CaptureQueue), the timeline tables (History), the life *)
(* of tracking (Lifecycle), the store and its backups (Storage), the diff  *)
(* worker (DiffWorker) and the log (Log). Each takes what the others do as *)
(* input of its own, they share no variable, and none waits for a step of  *)
(* another, so that what every behavior of one satisfies holds beside the  *)
(* others. A behavior here is therefore one of any single part, the others *)
(* staying as they started, and the check costs the sum of the parts and   *)
(* not their product.                                                      *)
(***************************************************************************)
EXTENDS CaptureQueue, History, Lifecycle, Storage, DiffWorker, Log

VARIABLE part    (* the part whose behavior this is                          *)

applicationVars == <<part, queueVars, historyVars, lifecycleVars, storageVars, diffVars,
                     logVars>>

ApplicationInit ==
    /\ part \in {"queue", "history", "lifecycle", "storage", "diff", "log"}
    /\ QueueInit /\ HistoryInit /\ LifecycleInit
    /\ StorageInit /\ DiffInit /\ LogInit
    /\ disabled => part = "diff"

ApplicationNext ==
    /\ UNCHANGED part
    /\ part # "queue" => UNCHANGED queueVars
    /\ part # "history" => UNCHANGED historyVars
    /\ part # "lifecycle" => UNCHANGED lifecycleVars
    /\ part # "storage" => UNCHANGED storageVars
    /\ part # "diff" => UNCHANGED diffVars
    /\ part # "log" => UNCHANGED logVars
    /\ \/ part = "queue" /\ QueueNext
       \/ part = "history" /\ HistoryNext
       \/ part = "lifecycle" /\ LifecycleNext
       \/ part = "storage" /\ StorageNext
       \/ part = "diff" /\ DiffNext
       \/ part = "log" /\ LogNext

(* A part that does not run has no step enabled that its fairness asks     *)
(* for; History, Storage and Log promise safety only.                      *)
ApplicationSpec ==
    /\ ApplicationInit /\ [][ApplicationNext]_applicationVars
    /\ QueueFairness /\ LifecycleFairness /\ DiffFairness

(* Every variable of every part has its type, and slots, statements, live  *)
(* handles, pruned backups and posted requests go with the state they      *)
(* presuppose (captureQueue.ts:138, captureService.ts:202,                 *)
(* watcherService.ts:145, backupManager.ts:65, diffWorkerClient.ts:69).    *)
ApplicationTypeOK ==
    /\ QueueTypeOK /\ HistoryTypeOK /\ LifecycleTypeOK
    /\ StorageTypeOK /\ DiffTypeOK /\ LogTypeOK
=============================================================================
