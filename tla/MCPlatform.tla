------------------------------ MODULE MCPlatform ------------------------------
(***************************************************************************)
(* One run for the parts of the platform that share no state with each     *)
(* other.  focus names the part that runs; the others stay as they began.  *)
(***************************************************************************)
EXTENDS WeatherReports, PartnerObservations, CivilDefenseAlerts, Gamification,
        PolicyAgreements, ViewCooldown, PostListing, ProfileAvatar, IncidentTypes

VARIABLE focus

-----------------------------------------------------------------------------
\* Months and years from the Monday of hour 0, in hours: a year that begins at
\* hour 0 and the one after it, which is 366 days later.
MCMonthStarts == {24 * d : d \in {0, 31, 60, 91, 121, 152, 182, 213, 244, 274, 305, 335, 366, 397}}
MCYearStarts == {0, 366 * 24}

\* Three alerts: open, not yet open, over after a while.
MCStartAt == [a \in Alerts |-> IF a = "later" THEN 1 ELSE 0]
MCValidAt == [a \in Alerts |-> IF a = "brief" THEN 0 ELSE 2]

Criterion(t, op, v) == [type |-> t, operator |-> op, value |-> v]
MCOffers == {{Criterion("POSTS_COUNT", ">=", 1)},
             {Criterion("POSTS_COUNT", ">", 0), Criterion("FOLLOWERS", "<", 1)},
             {Criterion("FOLLOWERS", ">=", -1)},
             {}}

MCPolicyType == [p \in Policies |-> IF p = "privacy-2" THEN "PRIVACY_POLICY" ELSE "TERMS_OF_USE"]
MCVersion == [p \in Policies |-> CASE p = "privacy-2"    -> <<2>>
                                   [] p = "terms-1.9.0"  -> <<1, 9, 0>>
                                   [] p = "terms-1.10.0" -> <<1, 10, 0>>]

\* A post has the tag of its incident's type.
MCPostKinds == {[tags |-> {"rain"}, author |-> "ana"], [tags |-> {"wind"}, author |-> "bia"]}
MCFilters == {[tags |-> <<>>, author |-> "any"], [tags |-> <<"wind", "rain">>, author |-> "ana"]}

MCSlugOf == [n \in TypeNames |-> IF n = "Flood" THEN "flood" ELSE "hail"]

-----------------------------------------------------------------------------
vars == <<focus, report, observationVars, alertVars, gamificationVars, policyVars, viewVars,
          listingVars, avatarVars, incidentTypeVars>>

Init ==
    /\ focus \in {"reports", "observations", "alerts", "gamification", "policies", "views",
                  "listing", "avatar", "incident types"}
    /\ ReportsInit /\ ObservationsInit /\ AlertsInit /\ GamificationInit
    /\ PoliciesInit /\ ViewsInit /\ ListingInit /\ AvatarInit /\ IncidentTypesInit

Next ==
    /\ UNCHANGED focus
    /\ \/ /\ focus = "reports" /\ ReportsNext
          /\ UNCHANGED <<observationVars, alertVars, gamificationVars, policyVars, viewVars,
                         listingVars, avatarVars, incidentTypeVars>>
       \/ /\ focus = "observations" /\ ObservationsNext
          /\ UNCHANGED <<report, alertVars, gamificationVars, policyVars, viewVars,
                         listingVars, avatarVars, incidentTypeVars>>
       \/ /\ focus = "alerts" /\ AlertsNext
          /\ UNCHANGED <<report, observationVars, gamificationVars, policyVars, viewVars,
                         listingVars, avatarVars, incidentTypeVars>>
       \/ /\ focus = "gamification" /\ GamificationNext
          /\ UNCHANGED <<report, observationVars, alertVars, policyVars, viewVars,
                         listingVars, avatarVars, incidentTypeVars>>
       \/ /\ focus = "policies" /\ PoliciesNext
          /\ UNCHANGED <<report, observationVars, alertVars, gamificationVars, viewVars,
                         listingVars, avatarVars, incidentTypeVars>>
       \/ /\ focus = "views" /\ ViewsNext
          /\ UNCHANGED <<report, observationVars, alertVars, gamificationVars, policyVars,
                         listingVars, avatarVars, incidentTypeVars>>
       \/ /\ focus = "listing" /\ ListingNext
          /\ UNCHANGED <<report, observationVars, alertVars, gamificationVars, policyVars,
                         viewVars, avatarVars, incidentTypeVars>>
       \/ /\ focus = "avatar" /\ AvatarNext
          /\ UNCHANGED <<report, observationVars, alertVars, gamificationVars, policyVars,
                         viewVars, listingVars, incidentTypeVars>>
       \/ /\ focus = "incident types" /\ IncidentTypesNext
          /\ UNCHANGED <<report, observationVars, alertVars, gamificationVars, policyVars,
                         viewVars, listingVars, avatarVars>>

Spec == Init /\ [][Next]_vars

\* The type invariants of the parts, and what the keys of the tables are there for.
TypeOK ==
    /\ ObservationsTypeOK /\ AlertsTypeOK /\ GamificationTypeOK
    /\ PoliciesTypeOK /\ ViewsTypeOK /\ ListingTypeOK /\ AvatarTypeOK /\ IncidentTypesTypeOK
    /\ UnlockedOnce /\ IncidentsHaveTypes
=============================================================================
