----------------------------- MODULE UpdateJob -----------------------------
(***************************************************************************)
(* What the in-UI update promises whoever watches the status shown: one    *)
(* update at a time is in progress, only it changes the version that runs, *)
(* and it changes it to the version shown; it ends as done, with that      *)
(* version running, or as failed.  A crash may abandon it, which leaves    *)
(* what is shown as it was.  Updater is shown to implement this.           *)
(***************************************************************************)
CONSTANT Versions

VARIABLES
    version,  \* what is running
    report,   \* the status shown
    active    \* the version being installed, None without an update

None == <<>>
vars == <<version, report, active>>

Init ==
    /\ version \in Versions /\ active = None
    /\ report = [state |-> "idle", version |-> None]

Begin ==
    /\ active = None /\ active' \in Versions
    /\ report' = [state |-> "applying", version |-> active']
    /\ UNCHANGED version

Install == active # None /\ version' = active /\ UNCHANGED <<report, active>>

End ==
    /\ active # None /\ active' = None
    /\ \E state \in {"done", "failed"} :
          /\ state = "done" => version = active
          /\ report' = [state |-> state, version |-> active]
    /\ UNCHANGED version

Abandon == active # None /\ active' = None /\ UNCHANGED <<version, report>>

Next == Begin \/ Install \/ End \/ Abandon

(* An update that is not abandoned comes to its end.                       *)
Spec == Init /\ [][Next]_vars /\ WF_vars(Install \/ End)
=============================================================================
