----------------------------- MODULE MCCampaigns -----------------------------
(***************************************************************************)
(* Instances of Campaigns for TLC.                                          *)
(***************************************************************************)
EXTENDS Campaigns, TLC

CONSTANTS a1, b1, spring, autumn, ann

\* Two campaigns want to call the same customer.
MCCampaignOf == (a1 :> spring) @@ (b1 :> autumn)

MCCustomerOf == (a1 :> ann) @@ (b1 :> ann)

\* A contact of spring is tried twice, one of autumn once.
MCMaxAttempts == (spring :> 2) @@ (autumn :> 1)

MCOneAttempt == (spring :> 1) @@ (autumn :> 1)
===============================================================================
