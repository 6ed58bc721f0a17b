----------------------------- MODULE HostUpkeep -----------------------------
(***************************************************************************)
(* The update of the plugin and the transition of its endpoint on one      *)
(* machine: two kinds of process that stop the same gateway, rename and    *)
(* write the same directory and share one kernel lock, while the host      *)
(* takes up work, crashes and comes back.                                  *)
(***************************************************************************)
EXTENDS ManagedUpdate, EndpointTransition

CONSTANT Late   \* a worker may be slow to its lock by a whole activation

ASSUME UpkeepAssumption == Late \in BOOLEAN

vars == <<host, updateVars, transitionVars>>

TypeOK == HostTypeOK /\ UpdateTypeOK /\ TransitionTypeOK

Init == HostInit /\ UpdateInit /\ TransitionInit

(* A gateway that crashed is started again, one that an activation has     *)
(* stopped is not while the activation goes on.                            *)
Untouched == act.at \in {None, "suspend", "lease", "stop"}
Environment ==
  \/ WorkBegins \/ WorkEnds \/ CollectorReady \/ GatewayDies
  \/ Untouched /\ GatewayReturns
  \/ act.at = None /\ UnitReturns

(* The lock is in the directory that moves: a worker that was started      *)
(* before and opens it after finds another, and is alone with neither.     *)
InTime == Late \/ act.at # "move" \/ worker.at \notin {"launched", "revive"}

Next ==
  \/ Environment /\ Forgets /\ UNCHANGED transitionVars
  \/ Update /\ UNCHANGED transitionVars
  \/ Begin /\ Forgets
  \/ InTime /\ Steps /\ Forgets
  \/ Dies /\ Forgets

Spec == Init /\ [][Next]_vars

-----------------------------------------------------------------------------
(* Fairness: processes go on, the manager's timer ticks, its stream is     *)
(* offered the release again, work ends, a collector that can serve does,  *)
(* and what is down is started again by the service manager or a boot.     *)
(* Nothing obliges a transition to begin.                                  *)
Fairness ==
  /\ WF_vars((Converge \/ Work) /\ UNCHANGED transitionVars)
  /\ WF_vars((Offered \/ StartWorker)
             /\ UNCHANGED transitionVars)
  /\ WF_vars(Tick /\ check' # None /\ UNCHANGED transitionVars)
  /\ WF_vars(InTime /\ Steps /\ Forgets)
  /\ WF_vars(WorkEnds /\ Forgets /\ UNCHANGED transitionVars)
  /\ WF_vars(CollectorReady /\ Forgets /\ UNCHANGED transitionVars)
  /\ WF_vars(Untouched /\ GatewayReturns
             /\ Forgets /\ UNCHANGED transitionVars)
  /\ WF_vars(act.at = None /\ UnitReturns
             /\ Forgets /\ UNCHANGED transitionVars)

FairSpec == Spec /\ Fairness

-----------------------------------------------------------------------------
(* "There are at most two install attempts per revision", however often    *)
(* the worker dies and resumes (docs/current-release-updates.md:7).        *)
InstallsBounded == Active # None => Active.tries <= 2

(* The source binding is always whole, in its place or in the archive.     *)
(* Without a receipt a gateway that runs is the source's; once the target  *)
(* is being started, nothing is put back over it                           *)
(* (endpoint-transition.js:68-69,110-111).  With it the types.             *)
SourceSafe ==
  /\ TypeOK
  /\ \E p \in {"active", "archive"} :
       dir[p] # None /\ dir[p].cred = "source"
  /\ gw.up /\ receipt = None => gw.side = "source" /\ Bound("source")
  /\ receipt \in {"starting_target", "activated", "recovery_required"} =>
       config = "target" /\ Bound("target") /\ dir["archive"] # None

(* Work of the host ends by itself or in a crash: no script stops or       *)
(* restarts a gateway over it ("Busy admission is never bypassed",         *)
(* current-release.js:1); what a hot reload does to work is the host's     *)
(* (Reloaded keeps it).  Excepted is the gateway that crashes              *)
(* between the lease of an activation and its gateway stop --force (that   *)
(* of the way back, should the first one fail), and is back at work: the   *)
(* lease is gone and the stop does not ask.                                *)
LeaseLost == act.at \in {"stop", "unstop"} /\ ~gw.fence /\ faults > 0
WorkSurvives ==
  [][gw.work /\ ~gw'.work =>
       \/ faults' # faults \/ LeaseLost
       \/ gw' = [gw EXCEPT !.work = FALSE]]_vars

(* An update that was accepted by a managed profile ends, in this          *)
(* directory or, should a transition archive it, with it: "Worker/host     *)
(* interruption resumes the same durable journal" (docs/event-driven-      *)
(* updates.md:27).  Excepted are the journal whose state file still tells  *)
(* of an earlier failure, because the worker died between the two writes,  *)
(* and the one that takes a gateway for activated that came back by itself *)
(* before the repair had it started (openclaw-update-helper.mjs:70-71).    *)
Open == Active # None /\ Active.manager # None /\ Active.journal # None
        /\ ~Finished(Active.journal)
Shadowed == Said("failed")
Presumed == gw.cold /\ Active.journal.activated
Resumes == Open ~> (~Open \/ Shadowed \/ Presumed)

(* "Failed activation restores the source" (README.md:195): one failure,   *)
(* whatever it is, does not leave the profile to a review.                 *)
FailureRestores == receipt = "rollback_required" => faults > 1
=============================================================================
