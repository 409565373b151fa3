----------------------------- MODULE Standalone -----------------------------
(***************************************************************************)
(* The parts that share neither a variable nor a file with one another:    *)
(* the evaluation programmes of evals/v3 (a campaign, the rescue, the      *)
(* diagnostics and the Locked freeze), the policy index and resolver, the  *)
(* routing of a first message, and the browser page.  A behaviour is one   *)
(* of them; the others stay in one initial state.                          *)
(***************************************************************************)
EXTENDS Campaign, Rescue, Diagnostics, LockedFreeze, PolicyResolution, TriageRouting, CustomerPage

VARIABLE programme

allParts == <<campaignVars, rescueVars, diagVars, freezeVars, policyVars, triageVars, pageVars>>
standaloneVars == <<programme, allParts>>

(* Initial states that are chosen are chosen by the programme at work only. *)
StandaloneInit ==
    /\ programme \in {"campaign", "rescue", "diagnostics", "freeze", "policy", "triage", "page"}
    /\ CampaignInit /\ RescueInit /\ DiagInit /\ FreezeInit /\ PolicyInit /\ TriageInit /\ PageInit
    /\ programme # "campaign" => identities = {"canary"}
    /\ programme # "policy" => deployed = [s \in Services |-> CHOOSE c \in Corpora : TRUE]

Fixed(others) == UNCHANGED <<programme, others>>

StandaloneNext ==
    \/ /\ programme = "campaign" /\ CampaignNext
       /\ Fixed(<<rescueVars, diagVars, freezeVars, policyVars, triageVars, pageVars>>)
    \/ /\ programme = "rescue" /\ RescueNext
       /\ Fixed(<<campaignVars, diagVars, freezeVars, policyVars, triageVars, pageVars>>)
    \/ /\ programme = "diagnostics" /\ DiagNext
       /\ Fixed(<<campaignVars, rescueVars, freezeVars, policyVars, triageVars, pageVars>>)
    \/ /\ programme = "freeze" /\ FreezeNext
       /\ Fixed(<<campaignVars, rescueVars, diagVars, policyVars, triageVars, pageVars>>)
    \/ /\ programme = "policy" /\ PolicyNext
       /\ Fixed(<<campaignVars, rescueVars, diagVars, freezeVars, triageVars, pageVars>>)
    \/ /\ programme = "triage" /\ TriageNext
       /\ Fixed(<<campaignVars, rescueVars, diagVars, freezeVars, policyVars, pageVars>>)
    \/ /\ programme = "page" /\ PageNext
       /\ Fixed(<<campaignVars, rescueVars, diagVars, freezeVars, policyVars, triageVars>>)

StandaloneSpec == StandaloneInit /\ [][StandaloneNext]_standaloneVars
=============================================================================
