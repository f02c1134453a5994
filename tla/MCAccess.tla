------------------------------- MODULE MCAccess -------------------------------
(*****************************************************************************)
(* The components around identity and access, and the providers of students' *)
(* help, in one run of TLC. They share no variable but the count of failures: *)
(* a behaviour is that of one of them, chosen in the initial state, the others *)
(* at rest.                                                                  *)
(*****************************************************************************)
EXTENDS AccountLinks, SignInRoutes, TeamMemberships, WebRoutes, StudentAccess,
        RateLimit, PairingClient, HelpProvider, TLC

VARIABLE part       \* the component of this behaviour

MCSignedInAs == [b \in Browsers |-> IF b = "b1" THEN "u1" ELSE None]
MCRule == [global |-> [limit |-> 2, window |-> 2], client |-> [limit |-> 1, window |-> 3]]
Symmetry == Permutations(WebRequests)

-----------------------------------------------------------------------------
\* Every component but the named one keeps its state.
Others(name) ==
    /\ name # "account links" => UNCHANGED linkState
    /\ name # "sign-in routes" => UNCHANGED signInState
    /\ name # "team memberships" => UNCHANGED teamState
    /\ name # "web routes" => UNCHANGED webState
    /\ name # "student access" => UNCHANGED accessState
    /\ name # "rate limit" => UNCHANGED rateState
    /\ name # "pairing client" => UNCHANGED clientState
    /\ name # "help provider" => UNCHANGED providerState

Component(name) == part = name /\ UNCHANGED part

Init ==
    /\ part \in {"account links", "sign-in routes", "team memberships",
                 "web routes", "student access", "rate limit", "pairing client",
                 "help provider"}
    /\ LinkInit /\ SignInInit /\ TeamInit /\ WebInit /\ AccessInit /\ RateInit
    /\ ClientInit /\ ProviderInit
    /\ part # "help provider" => platform = "posix"
    /\ part # "student access" => enrolled = People \X ClassIds \X {"student"}
    \* The classes are alike: the assignment is of the first.
    /\ \A w \in Works : works[w].class = CHOOSE c \in ClassIds : TRUE

AccountLinksStep == Component("account links") /\ LinkNext /\ Others("account links")
SignInRoutesStep == Component("sign-in routes") /\ SignInNext /\ Others("sign-in routes")
TeamMembershipsStep == Component("team memberships") /\ TeamNext /\ Others("team memberships")
WebRoutesStep == Component("web routes") /\ WebNext /\ Others("web routes")
StudentAccessStep == Component("student access") /\ AccessNext /\ Others("student access")
RateLimitStep == Component("rate limit") /\ RateNext /\ Others("rate limit")
PairingClientStep == Component("pairing client") /\ ClientNext /\ Others("pairing client")
HelpProviderStep == Component("help provider") /\ ProviderNext /\ Others("help provider")

Next ==
    \/ AccountLinksStep \/ SignInRoutesStep \/ TeamMembershipsStep
    \/ WebRoutesStep \/ StudentAccessStep \/ RateLimitStep \/ PairingClientStep
    \/ HelpProviderStep

Spec == Init /\ [][Next]_<< part, faults,
            linkState, signInState, teamState, webState, accessState, rateState,
            clientState, providerState >>
=============================================================================
