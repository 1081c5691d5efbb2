----------------------------- MODULE TaskClaim -----------------------------
(***************************************************************************)
(* How one task attempt finds its one process: startOneShot, the Lambda    *)
(* task event, LoadClaimFile and RunOneShot up to the handler.  Several    *)
(* processes may be started for the same attempt (a redelivered event, a   *)
(* restarted container).  They compete either for the broker's claim with  *)
(* a bootstrap token, or for a claim file that the runner wrote after      *)
(* claiming on their behalf.  The broker and the file system are external. *)
(***************************************************************************)
EXTENDS Integers, FiniteSets

CONSTANTS Procs, Nil

ASSUME ProcsAssumption == Nil \notin Procs

VARIABLES
    source,    \* "bootstrap" or "file": how the attempt is handed over
    quality,   \* what validateClaim says of the claim
    file,      \* the claim file exists
    holder,    \* broker: the process whose claim won, or "runner", or Nil
    pc,        \* pc[p]: where process p is
    ran,       \* processes that entered the handler
    failed     \* processes that reported "invalid_claim" to the broker

claimVars == <<source, quality, file, holder, pc, ran, failed>>

\* A claim is valid; or names another job, attempt or module; or carries an
\* unusable capability; or is wrong in another field (handler, deadline,
\* schema, class, dispatch URL, payload).
Qualities == {"valid", "otherIdentity", "badCapability", "badFields"}

ClaimInit ==
    /\ source \in {"bootstrap", "file"}
    /\ quality \in Qualities
    /\ file = (source = "file")
    /\ holder = IF source = "file" THEN "runner" ELSE Nil
    /\ pc = [p \in Procs |-> "start"]
    /\ ran = {}
    /\ failed = {}

Go(p, where) == pc' = [pc EXCEPT ![p] = where]

\* LoadClaimFile: a protected regular file with one version 1 claim.
LoadFile(p) ==
    /\ pc[p] = "start"
    /\ source = "file"
    /\ file
    /\ Go(p, "loaded")
    /\ UNCHANGED <<source, quality, file, holder, ran, failed>>

LoadFails(p) ==
    /\ pc[p] = "start"
    /\ source = "file"
    /\ Go(p, "exit")
    /\ UNCHANGED <<source, quality, file, holder, ran, failed>>

\* Mutant of ConsumeFile: a failed removal is ignored.
ConsumeFileLeniently(p) ==
    /\ pc[p] = "loaded"
    /\ file' = FALSE
    /\ Go(p, "claimed")
    /\ UNCHANGED <<source, quality, holder, ran, failed>>

\* os.Remove: only one process can remove the file, the others give up.
ConsumeFile(p) ==
    /\ pc[p] = "loaded"
    /\ \/ file /\ file' = FALSE /\ Go(p, "claimed")
       \/ ~file /\ UNCHANGED file /\ Go(p, "exit")
    /\ UNCHANGED <<source, quality, holder, ran, failed>>

\* BrokerClient.Claim: the broker compares and swaps; the loser is told
\* attempt_already_handled.
ClaimWon(p) ==
    /\ pc[p] = "start"
    /\ source = "bootstrap"
    /\ holder = Nil
    /\ holder' = p
    /\ Go(p, "claimed")
    /\ UNCHANGED <<source, quality, file, ran, failed>>

ClaimLost(p) ==
    /\ pc[p] = "start"
    /\ source = "bootstrap"
    /\ holder # Nil
    /\ Go(p, "exit")
    /\ UNCHANGED <<source, quality, file, holder, ran, failed>>

\* The claim request fails, perhaps after the broker recorded it: RunOneShot
\* returns the error and never asks again.
ClaimFails(p) ==
    /\ pc[p] = "start"
    /\ source = "bootstrap"
    /\ \/ UNCHANGED holder
       \/ holder = Nil /\ holder' = p
    /\ Go(p, "exit")
    /\ UNCHANGED <<source, quality, file, ran, failed>>

\* validateClaim accepts and the handler starts.
RunHandler(p) ==
    /\ pc[p] = "claimed"
    /\ quality = "valid"
    /\ ran' = ran \cup {p}
    /\ Go(p, "exit")
    /\ UNCHANGED <<source, quality, file, holder, failed>>

\* validateClaim rejects: a claim from the broker with the right identity and
\* a usable capability is reported, any other is only returned as an error.
Reportable == source = "bootstrap" /\ quality = "badFields"

RejectClaim(p) ==
    /\ pc[p] = "claimed"
    /\ quality # "valid"
    /\ failed' = IF Reportable THEN failed \cup {p} ELSE failed
    /\ Go(p, "exit")
    /\ UNCHANGED <<source, quality, file, holder, ran>>

Crash(p) ==
    /\ pc[p] # "exit"
    /\ Go(p, "exit")
    /\ UNCHANGED <<source, quality, file, holder, ran, failed>>

ClaimNext ==
    \E p \in Procs :
        \/ LoadFile(p) \/ LoadFails(p) \/ ConsumeFile(p)
        \/ ClaimWon(p) \/ ClaimLost(p) \/ ClaimFails(p)
        \/ RunHandler(p) \/ RejectClaim(p) \/ Crash(p)

ClaimSpec == ClaimInit /\ [][ClaimNext]_claimVars

---------------------------------------------------------------------------
\* The type of every variable.
ClaimTypeOK ==
    /\ source \in {"bootstrap", "file"}
    /\ quality \in Qualities
    /\ file \in BOOLEAN
    /\ holder \in Procs \cup {"runner", Nil}
    /\ pc \in [Procs -> {"start", "loaded", "claimed", "exit"}]
    /\ ran \subseteq Procs
    /\ failed \subseteq Procs

\* "RunOneShot claims and executes exactly one attempt": however many
\* processes are started and whenever they crash, one at most runs the handler.
HandlerRunsOnce == \A p, q \in ran : p = q

\* A rejected claim is reported by at most one process, the one the broker
\* gave it to, and a rejected file by nobody ("must fail before making any
\* broker callback"); a process never both runs and reports.
CallbackOnlyByClaimant ==
    /\ \A p \in failed : holder = p /\ quality = "badFields"
    /\ ran \cap failed = {}

=============================================================================
