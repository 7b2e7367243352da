--------------------------- MODULE LicenseStatus ---------------------------
(***************************************************************************)
(* What an Unlocker promises the code that owns it: the licensing status   *)
(* reported by getStatus(), whether getError() has something to report,    *)
(* and the operation that is in progress.  It knows nothing of threads,    *)
(* wake-ups or files; WorkerHandoff is shown to implement it.              *)
(***************************************************************************)
VARIABLES
    status,     \* Unlocker::Status
    hasError,   \* a non-empty error message is published
    operation,  \* what the unlocker works on: see Operations
    closed      \* the destructor has begun

vars == <<status, hasError, operation, closed>>

Statuses == {"undefined", "activationRequired", "unlocking", "unlocked"}

Operations == {"none", "unlock", "activate", "refresh"}

TypeOK ==
    /\ status \in Statuses
    /\ hasError \in BOOLEAN
    /\ operation \in Operations
    /\ closed \in BOOLEAN

Init ==
    /\ status = "undefined"
    /\ hasError = FALSE
    /\ operation = "none"
    /\ closed = FALSE

Publish(newStatus, newError, newOperation) ==
    /\ ~closed
    /\ status' = newStatus
    /\ hasError' = newError
    /\ operation' = newOperation
    /\ UNCHANGED closed

-----------------------------------------------------------------------------
(* Requests.                                                               *)

Startup ==
    /\ status = "undefined"
    /\ Publish("unlocking", FALSE, "unlock")

StartActivation ==
    /\ status = "activationRequired"
    /\ Publish("activationRequired", FALSE, "activate")

RetryUnlocking ==
    /\ status = "unlocking"
    /\ hasError
    /\ Publish("unlocking", FALSE, "unlock")

\* Another instance on this machine was activated.
ActivatedElsewhere ==
    /\ status = "activationRequired"
    /\ Publish("unlocking", FALSE, "unlock")

Logout == Publish("activationRequired", FALSE, "none")

Close ==
    /\ ~closed
    /\ closed' = TRUE
    /\ operation' = "none"
    /\ UNCHANGED <<status, hasError>>

-----------------------------------------------------------------------------
(* Outcomes: only an operation in progress has one.                        *)

UnlockEnds ==
    /\ operation = "unlock"
    /\ \/ \E next \in {"none", "refresh"} : Publish("unlocked", hasError, next)
       \/ Publish("activationRequired", hasError, "none")
       \/ Publish("unlocking", TRUE, "none")

ActivationEnds ==
    /\ operation = "activate"
    /\ \/ Publish("unlocked", hasError, "none")
       \/ Publish("activationRequired", hasError, "none")
       \/ Publish("activationRequired", TRUE, "none")

RefreshEnds ==
    /\ operation = "refresh"
    /\ \/ Publish("unlocked", hasError, "none")
       \/ Publish("unlocked", TRUE, "none")
       \/ Publish("unlocking", hasError, "unlock")
       \/ Publish("activationRequired", hasError, "none")

Next ==
    \/ Startup
    \/ StartActivation
    \/ RetryUnlocking
    \/ ActivatedElsewhere
    \/ Logout
    \/ Close
    \/ UnlockEnds
    \/ ActivationEnds
    \/ RefreshEnds

Spec == Init /\ [][Next]_vars
=============================================================================
