------------------------------ MODULE Storefront ------------------------------
(***************************************************************************)
(* What a buyer and a seller see and do in a browser: searching and        *)
(* reading, rating what was bought, asking, and making a listing.  No part *)
(* reads what another writes, so their steps commute, and it is enough     *)
(* that one part moves while the others rest.                              *)
(***************************************************************************)
EXTENDS Search, Ratings, AskBox, ProductForm

StorefrontInit == SearchInit /\ RatingsInit /\ AskBoxInit /\ FormInit

\* What the license allows is only the moderators' business.
RatingsRest == RatingsInit /\ licensed

StorefrontNext ==
    \/ /\ SearchInit /\ AskBoxInit /\ FormInit /\ RatingsNext
       /\ UNCHANGED <<searchVars, askBoxVars, formVars>>
    \/ /\ SearchInit /\ RatingsRest /\ FormInit /\ AskBoxNext
       /\ UNCHANGED <<searchVars, ratingsVars, formVars>>
    \/ /\ SearchInit /\ RatingsRest /\ AskBoxInit /\ FormNext
       /\ UNCHANGED <<searchVars, ratingsVars, askBoxVars>>
    \/ /\ RatingsRest /\ AskBoxInit /\ FormInit /\ SearchNext
       /\ UNCHANGED <<ratingsVars, askBoxVars, formVars>>

StorefrontSpec ==
    StorefrontInit /\ [][StorefrontNext]_<<searchVars, ratingsVars, askBoxVars, formVars>>
=============================================================================
