------------------------------ MODULE WorkState ------------------------------
(***************************************************************************)
(* The ids of packages and jobs, and their states with the number codes    *)
(* the database stores (enum WSDHPCWorkState of WSData.h).                 *)
(***************************************************************************)
EXTENDS Integers

CONSTANTS Packages,   \* package ids the sequence packages_package_id_seq yields
          Jobs,       \* job ids the sequence jobs_job_id_seq yields
          NoPackage   \* package_id of a row that does not exist yet

ASSUME IdAssumption == NoPackage \notin Packages

NoRecord == 0     \* no row with this id has been inserted yet

WSDJobStateError              == -3
WSDPackageStateError          == -2
WSDPackageStateInQueue        == 1
WSDPackageStateRunning        == 2
WSDPackageStateTransferring   == 3
WSDPackageStateDone           == 5
WSDJobStateInServiceQueue     == 6
WSDJobStateInHPCQueue         == 7
WSDJobStateRunning            == 8
WSDJobStateExiting            == 9
WSDJobStateHeld               == 10
WSDJobStateMoved              == 11
WSDJobStateWaiting            == 12
WSDJobStateSuspended          == 13
WSDJobStateDeleted            == 15
WSDJobOutputStateTransferring == 17
WSDJobOutputStateTransferDone == 18
WSDPackageDeleted             == 19
WSDJobStateCompletedInHPC     == 20

(***************************************************************************)
(* The codes the program writes.  UnknownError (-1), PackageStateUnzipping *)
(* (4), JobStateCompleted (14) and JobOutputStateTransferInQueue (16) are  *)
(* declared by the enum and never written.                                 *)
(***************************************************************************)
PackageStates == {WSDPackageStateError, WSDPackageStateInQueue,
                  WSDPackageStateRunning, WSDPackageStateTransferring,
                  WSDPackageStateDone, WSDPackageDeleted}

JobStates == {WSDJobStateError, WSDJobStateDeleted, WSDJobStateCompletedInHPC,
              WSDJobOutputStateTransferring, WSDJobOutputStateTransferDone}
             \cup WSDJobStateInServiceQueue .. WSDJobStateSuspended
=============================================================================
