---------------------------- MODULE PhoneTarget ----------------------------
(***************************************************************************)
(* Phone target resolution (internal/phonetarget/resolve.go, policy.go),   *)
(* composed with the phone client it builds and probes.                    *)
(*                                                                         *)
(* At startup Resolve goes through the inventory once.  For each phone it  *)
(* picks the address, looks the admin password up in the Lens policy that  *)
(* wins for the phone, or falls back to the configured password, builds    *)
(* the client and probes it.  From then on the collectors call the clients *)
(* with the address, MAC and password found at startup.                    *)
(*                                                                         *)
(* The lookup is up to four Lens queries; policies may change between any  *)
(* two of them.  A policy is a record of what it is deployed to; "" marks  *)
(* a selector its scope does not use.  Nobody reads the policies after     *)
(* startup, so they stop changing then; a password changed on the phone    *)
(* itself is PhoneClient's Reconfigure.                                    *)
(***************************************************************************)
EXTENDS PhoneClient, Sequences

CONSTANTS
    Setups,         \* configurations with the inventories they may meet
    Traits,         \* Traits[p]: what policies of p's are selected by
    Fallback,       \* phone.auth.password
    Policies,       \* Policies[i]: scope and selectors of policy i
    InitialValues,  \* InitialValues[i]: the password policy i sets at first
    InitialWinners, \* InitialWinners[p]: the policies Lens names for p at first
    WinnerChoices   \* WinnerChoices[p]: sets of policies Lens may name for p

VARIABLES
    setup,          \* the configuration and the devices Resolve was given
    winners,        \* winners[p]: sources Lens names for p's password
    values,         \* values[i]: the password policy i sets, Unset if it has none
    rpc,            \* where Resolve stands
    at,             \* index of the device it is at
    source,         \* scope and collection of the winning source
    family,         \* policy family read for the device
    policyID,       \* the one policy found
    password,       \* the password for the device
    untouched,      \* Lens and its answers did not change during this lookup
    targets,        \* phones Resolve has made targets of
    unexpected      \* phones with api.unexpected at 1

lensVars == <<winners, values>>
lookupVars == <<source, family, policyID, password, untouched>>
vars == <<clientVars, setup, lensVars, rpc, at, lookupVars, targets, unexpected>>

\* What Resolve works from: the devices in order, phone.targets as a partial
\* function, phone.auth.from_lens_policy, whether there is a Lens client, and
\* phone.tls.verify_chain.  A device is identified if it has its tenant's ID and its own.
inventory == setup.inventory
Targets == setup.targets
FromLensPolicy == setup.fromLensPolicy
LensQuery == setup.lensQuery

Resolver == "resolver"
Collectors == Callers \ {Resolver}

\* The value of a policy that lacks the attribute; "" is an attribute without a value.
Unset == "unset"
PolicyValues == Passwords \cup {"", Unset}

NoSource == [scope |-> "", collection |-> ""]

ASSUME ResolverAssumption == Resolver \in Callers
ASSUME FallbackAssumption == Fallback \in Passwords /\ Passwords \cap {"", Unset} = {}
\* The inventory gives each phone its own MAC, though perhaps not a readable one.
ASSUME SetupsAssumption ==
    \A s \in Setups :
        /\ s.inventory \in Seq([phone : Phones, mac : MACText, identified : BOOLEAN,
                                 internalIP : Addresses \cup {""}])
        /\ s.verifyChain \in BOOLEAN
        /\ \A i \in 1 .. Len(s.inventory) : s.inventory[i].mac.digits = s.inventory[i].phone
        /\ DOMAIN s.targets \subseteq Phones
        /\ \A p \in DOMAIN s.targets : s.targets[p] \in Addresses \cup {""}

----------------------------------------------------------------------------
(* The pure parts. *)

\* The selectors getPolicies is given for a scope, besides tenant and scope.
Selectors_noModel ==
    [DEVICE |-> {"device"}, DEVICE_MODEL |-> {"model"},
     SITE |-> {"collection"}, FAMILY_SITE |-> {"collection", "family"},
     GROUP |-> {"collection"}, FAMILY_GROUP |-> {"collection", "family"},
     FAMILY_MODEL |-> {"family"}, GLOBAL |-> {}]

\* policyVariables, a scope that is not listed being unsupported.
Selectors ==
    [DEVICE |-> {"device"}, DEVICE_MODEL |-> {"model"},
     SITE |-> {"collection", "model"}, FAMILY_SITE |-> {"collection", "family"},
     GROUP |-> {"collection", "model"}, FAMILY_GROUP |-> {"collection", "family"},
     FAMILY_MODEL |-> {"family"}, GLOBAL |-> {}]

SupportedScopes == DOMAIN Selectors

\* Policy i is deployed to phone p: each selector it has is one of p's.
AppliesTo(i, p) ==
    LET d == Policies[i]
    IN  /\ d.device \in {"", p}
        /\ d.model \in {"", Traits[p].model}
        /\ d.family \in {"", Traits[p].family}
        /\ d.collection \in {""} \cup Traits[p].collections

\* The scopes at which Lens deploys policies by each of the selectors.
ScopesBy ==
    [device |-> {"DEVICE"}, model |-> {"DEVICE_MODEL", "SITE", "GROUP"},
     collection |-> {"SITE", "FAMILY_SITE", "GROUP", "FAMILY_GROUP"},
     family |-> {"FAMILY_SITE", "FAMILY_GROUP", "FAMILY_MODEL"}]

\* A policy has exactly the selectors its scope is deployed by, and Lens names for a
\* phone only policies deployed to it.
ASSUME PolicyAssumption ==
    /\ IsFiniteSet(DOMAIN Policies)
    /\ \A i \in DOMAIN Policies :
          /\ DOMAIN Policies[i] = {"scope", "device", "model", "collection", "family"}
          /\ Policies[i].scope \in SupportedScopes =>
                \A s \in DOMAIN ScopesBy : Policies[i][s] # "" <=> Policies[i].scope \in ScopesBy[s]
    /\ InitialValues \in [DOMAIN Policies -> PolicyValues]
ASSUME WinnersAssumption ==
    /\ DOMAIN InitialWinners = Phones
    /\ \A p \in Phones :
          /\ InitialWinners[p] \in WinnerChoices[p]
          /\ WinnerChoices[p] \subseteq SUBSET {i \in DOMAIN Policies : AppliesTo(i, p)}

\* The value a selector is given; the family comes from a query of its own.
policyVariables(p, src, fam) ==
    [device |-> p, model |-> Traits[p].model, collection |-> src.collection, family |-> fam]

\* policyVariables finds everything the scope needs, the family apart.
Selectable(p, src) ==
    /\ src.scope \in SupportedScopes
    /\ \A s \in Selectors[src.scope] \ {"family"} : policyVariables(p, src, "")[s] # ""

TargetAddress(d) ==
    IF d.phone \in DOMAIN Targets THEN Targets[d.phone] ELSE d.internalIP

\* What getPolicies returns for the variables.
Matching(src, selected) ==
    {i \in DOMAIN Policies :
        /\ Policies[i].scope = src.scope
        /\ \A s \in Selectors[src.scope] : Policies[i][s] = selected[s]}

----------------------------------------------------------------------------
(* Lens. *)

\* The sources that Lens names for p's password: the winning policies that set it.
Named(p) == {i \in winners[p] : values[i] # Unset}

\* Another policy wins for p, or its deployment becomes ambiguous or empty.
Redeploy(p, won) ==
    /\ changes < MaxChanges /\ winners[p] # won /\ rpc # "done"
    /\ changes' = changes + 1
    /\ winners' = [winners EXCEPT ![p] = won]
    /\ untouched' = FALSE
    /\ UNCHANGED <<host, device, nonces, client, conn, call, sent, setup, values, rpc, at,
                   source, family, policyID, password, targets, unexpected>>

\* A policy's password is changed or removed.
Rotate(i, value) ==
    /\ changes < MaxChanges /\ values[i] # value /\ rpc # "done"
    /\ changes' = changes + 1
    /\ values' = [values EXCEPT ![i] = value]
    /\ untouched' = FALSE
    /\ UNCHANGED <<host, device, nonces, client, conn, call, sent, setup, winners, rpc, at,
                   source, family, policyID, password, targets, unexpected>>

----------------------------------------------------------------------------
(* Resolve. *)

Here == inventory[at].phone

Init ==
    /\ ClientInit
    /\ setup \in Setups
    /\ host = [a \in Addresses |->
                  IF \E p \in Phones : a = Traits[p].lease
                  THEN CHOOSE p \in Phones : a = Traits[p].lease ELSE Nobody]
    /\ winners = InitialWinners
    /\ values = InitialValues
    /\ rpc = "device"
    /\ at = 1
    /\ source = NoSource
    /\ family = ""
    /\ policyID = 0
    /\ password = Fallback
    /\ untouched = TRUE
    /\ targets = {}
    /\ unexpected = {}

ResolveStep == UNCHANGED <<setup, lensVars, host, device, nonces, conn, sent>>

\* The password is taken from the configuration; api.unexpected reports it, and
\* if it cannot be recorded Resolve returns the error.
FallBack ==
    /\ password' = Fallback
    /\ \/ unexpected' = unexpected \cup {Here} /\ rpc' = "build"
       \/ unexpected' = unexpected /\ rpc' = "failed"

\* A device without an address is skipped.
SkipDevice ==
    /\ rpc = "device" /\ at <= Len(inventory)
    /\ TargetAddress(inventory[at]) = ""
    /\ at' = at + 1
    /\ ResolveStep /\ UNCHANGED <<client, call, changes, targets, rpc, lookupVars, unexpected>>

\* The configured password is used as it is, or replaced by the policy's.
NextDevice ==
    /\ rpc = "device" /\ at <= Len(inventory)
    /\ TargetAddress(inventory[at]) # ""
    /\ untouched' = TRUE
    /\ source' = NoSource /\ family' = "" /\ policyID' = 0
    /\ \/ ~ FromLensPolicy /\ rpc' = "build" /\ password' = Fallback /\ UNCHANGED unexpected
       \/ FromLensPolicy /\ ~ LensQuery /\ FallBack
       \/ FromLensPolicy /\ LensQuery /\ rpc' = "source" /\ UNCHANGED <<password, unexpected>>
    /\ ResolveStep /\ UNCHANGED <<client, call, changes, targets, at>>

\* Resolve returns its targets; the locals of its loop are gone.
Resolved ==
    /\ rpc = "device" /\ at > Len(inventory)
    /\ rpc' = "done"
    /\ source' = NoSource /\ family' = "" /\ policyID' = 0
    /\ password' = Fallback /\ untouched' = TRUE
    /\ ResolveStep /\ UNCHANGED <<client, call, changes, targets, at, unexpected>>

Lookup == ResolveStep /\ UNCHANGED <<client, call, changes, targets, at, untouched>>

\* Lens is asked for an identified device only; exactly one source must be named, and
\* its scope must be one that can be asked for.
ReadSource ==
    /\ rpc = "source"
    /\ IF inventory[at].identified /\ Cardinality(Named(Here)) = 1
       THEN LET i == CHOOSE j \in Named(Here) : TRUE
                src == [scope |-> Policies[i].scope, collection |-> Policies[i].collection]
            IN  IF Selectable(Here, src)
                THEN /\ source' = src
                     /\ rpc' = IF "family" \in Selectors[src.scope] THEN "family"
                               ELSE "policies"
                     /\ UNCHANGED <<password, unexpected>>
                ELSE FallBack /\ UNCHANGED source
       ELSE FallBack /\ UNCHANGED source
    /\ Lookup /\ UNCHANGED <<family, policyID>>

ReadFamily ==
    /\ rpc = "family"
    /\ IF Traits[Here].family # ""
       THEN /\ family' = Traits[Here].family
            /\ rpc' = "policies"
            /\ UNCHANGED <<password, unexpected>>
       ELSE FallBack /\ UNCHANGED family
    /\ Lookup /\ UNCHANGED <<source, policyID>>

\* resolve one winning Lens policy
OneMatch(found) == Cardinality(found) = 1

\* Of the policies Lens returns, those that carry the password attribute count.
ReadPolicies ==
    LET found == {i \in Matching(source, policyVariables(Here, source, family)) :
                     values[i] # Unset}
    IN  /\ rpc = "policies"
        /\ IF OneMatch(found)
           THEN /\ policyID' = CHOOSE i \in found : TRUE
                /\ rpc' = "value"
                /\ UNCHANGED <<password, unexpected>>
           ELSE FallBack /\ UNCHANGED policyID
        /\ Lookup /\ UNCHANGED <<source, family>>

\* An attribute without a value is taken for the password.
ReadValue_empty ==
    /\ rpc = "value"
    /\ password' = values[policyID] /\ rpc' = "build"
    /\ UNCHANGED unexpected
    /\ Lookup /\ UNCHANGED <<source, family, policyID>>

ReadValue ==
    /\ rpc = "value"
    /\ IF values[policyID] \notin {"", Unset}
       THEN /\ password' = values[policyID]
            /\ rpc' = "build"
            /\ UNCHANGED unexpected
       ELSE FallBack
    /\ Lookup /\ UNCHANGED <<source, family, policyID>>

\* A Lens query fails.
QueryFails ==
    /\ rpc \in {"source", "family", "policies", "value"}
    /\ changes < MaxChanges
    /\ changes' = changes + 1
    /\ untouched' = FALSE
    /\ FallBack
    /\ ResolveStep /\ UNCHANGED <<client, call, targets, at, source, family, policyID>>

\* phoneclient.New; its error ends Resolve, and startup, for every phone.
Build ==
    LET d == inventory[at]
        c == New(d.mac, TargetAddress(d), password, setup.verifyChain)
    IN  /\ rpc = "build"
        /\ IF c = NoClient
           THEN rpc' = "failed" /\ UNCHANGED <<client, call>>
           ELSE /\ client' = [client EXCEPT ![d.phone] = c]
                /\ call' = [call EXCEPT ![Resolver] = Started("probe", d.phone)]
                /\ rpc' = "probe"
        /\ ResolveStep /\ UNCHANGED <<changes, at, lookupVars, targets, unexpected>>

\* A phone that does not answer is left out.
Probed_skip ==
    LET result == call[Resolver].result
    IN  /\ rpc = "probe" /\ call[Resolver].pc = "returned"
        /\ EndCall(Resolver)
        /\ rpc' = "device" /\ at' = at + 1 /\ unexpected' = unexpected
        /\ targets' = IF result = "unreachable" THEN targets ELSE targets \cup {Here}
        /\ ResolveStep /\ UNCHANGED <<client, changes, lookupVars>>

\* An unreachable phone is reported, but stays a target.
Probed ==
    LET result == call[Resolver].result
    IN  /\ rpc = "probe" /\ call[Resolver].pc = "returned"
        /\ EndCall(Resolver)
        /\ \/ /\ unexpected' = IF result = "unreachable" THEN unexpected \cup {Here}
                               ELSE unexpected
              /\ targets' = targets \cup {Here}
              /\ at' = at + 1
              /\ rpc' = "device"
           \/ /\ result = "unreachable"
              /\ rpc' = "failed"
              /\ UNCHANGED <<unexpected, targets, at>>
        /\ ResolveStep /\ UNCHANGED <<client, changes, lookupVars>>

----------------------------------------------------------------------------
(* After startup: the collectors use the clients. *)

resolveVars == <<setup, lensVars, rpc, at, lookupVars, targets, unexpected>>

CollectorCall(o) ==
    \/ /\ rpc = "done"
       /\ \E p \in targets, op \in Ops : StartCall(o, op, p)
    \/ /\ call[o].pc = "returned"
       /\ EndCall(o)
       /\ UNCHANGED <<host, device, nonces, client, conn, sent, changes>>

ResolveNext ==
    \/ SkipDevice \/ NextDevice \/ Resolved \/ ReadSource \/ ReadFamily \/ ReadPolicies \/ ReadValue
    \/ QueryFails \/ Build \/ Probed

Next ==
    \/ ResolveNext
    \/ \E p \in Phones : \E won \in WinnerChoices[p] : Redeploy(p, won)
    \/ \E i \in DOMAIN Policies, w \in PolicyValues : Rotate(i, w)
    \/ (\E o \in Callers : CallStep(o)) /\ UNCHANGED resolveVars
    \/ (\E o \in Collectors : CollectorCall(o)) /\ UNCHANGED resolveVars
    \/ Environment /\ UNCHANGED resolveVars
    \/ rpc = "failed" /\ UNCHANGED vars

Spec == Init /\ [][Next]_vars

----------------------------------------------------------------------------
(* Properties. *)

\* Every variable has its type.
TypeOK ==
    /\ ClientTypeOK
    /\ setup \in Setups
    /\ DOMAIN winners = Phones /\ \A p \in Phones : winners[p] \in WinnerChoices[p]
    /\ values \in [DOMAIN Policies -> PolicyValues]
    /\ rpc \in {"device", "source", "family", "policies", "value", "build", "probe",
                "done", "failed"}
    /\ at \in 1 .. Len(inventory) + 1
    /\ policyID \in {0} \cup DOMAIN Policies
    /\ password \in Passwords
    /\ untouched \in BOOLEAN
    /\ targets \subseteq Phones /\ unexpected \subseteq Phones

\* The one policy that decides p's password, if Lens names one unmistakably: no other
\* policy that carries the attribute is deployed to p at the same place.
Winner(p) ==
    {i \in Named(p) :
        /\ Cardinality(Named(p)) = 1
        /\ Policies[i].scope \in SupportedScopes
        /\ values[i] # ""
        /\ ~ \E j \in DOMAIN Policies \ {i} :
              /\ Policies[j].scope = Policies[i].scope
              /\ Policies[j].collection = Policies[i].collection
              /\ AppliesTo(j, p) /\ values[j] # Unset}

\* However Lens changes between the queries, the policy whose value is read is one
\* that is deployed to the phone.  A lookup during which Lens did not change finds the
\* password of the phone's winning policy; when there is none, or several could be
\* meant, it takes the configured one and says so in api.unexpected.
WinningPassword ==
    /\ rpc = "value" => AppliesTo(policyID, Here)
    /\ rpc \in {"build", "probe"} /\ untouched /\ FromLensPolicy /\ LensQuery =>
          IF inventory[at].identified /\ Winner(Here) # {}
          THEN \E i \in Winner(Here) : password = values[i]
          ELSE password = Fallback /\ Here \in unexpected

\* Resolve is all or nothing: it ends with an error, or every phone with an
\* address is a target, also those that could not be reached or asked for.
EveryPhoneWithAddress ==
    rpc = "done" =>
        targets = {inventory[i].phone : i \in {j \in 1 .. Len(inventory) :
                                                  TargetAddress(inventory[j]) # ""}}
=============================================================================
