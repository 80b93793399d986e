--------------------------- MODULE MCPhoneTarget ---------------------------
(***************************************************************************)
(* PhoneTarget for TLC: two phones on one site, of different models; their *)
(* certificates write the MAC differently, and a stranger's names p1.      *)
(***************************************************************************)
EXTENDS PhoneTarget, TLC

CONSTANTS status, lines

MCCertCN == [p1 |-> [digits |-> "p1", form |-> "colons"],
             p2 |-> [digits |-> "p2", form |-> "plain"],
             stranger |-> [digits |-> "p1", form |-> "plain"]]

Digest(algorithm, qop) ==
    [scheme |-> "Digest", complete |-> TRUE, algorithm |-> algorithm, qop |-> qop]
Phone(mode, ch, pw) ==
    [mode |-> mode, challenge |-> ch, password |-> pw, oneNonce |-> FALSE]
Secure(ch, pw) == Phone("secure", ch, pw)
Plain == Digest("MD5", {"auth"})

MCInitialState == Secure(Plain, "policy")
MCPhoneStates ==
    {MCInitialState, Secure(Plain, "fallback"), [MCInitialState EXCEPT !.oneNonce = TRUE],
     Secure(Digest("SHA-256", {"auth", "auth-int"}), "policy"),
     Secure(Digest("", {}), "policy"), Secure(Digest("MD5", {"auth-int"}), "policy"),
     Secure(Digest("MD5-sess", {"auth"}), "policy"), Secure(NoChallenge, "policy")}
    \cup {Phone(m, Plain, "policy") : m \in Modes \ {"secure"}}

Device(p, form, ip) ==
    [phone |-> p, mac |-> [digits |-> p, form |-> form], identified |-> TRUE,
     internalIP |-> ip]

Setup(inv, addresses, fromPolicy, lens, chain) ==
    [inventory |-> inv, targets |-> addresses, fromLensPolicy |-> fromPolicy,
     lensQuery |-> lens, verifyChain |-> chain]
NoTargets == [p \in {} |-> ""]
Usual == <<Device("p1", "plain", "a1"), Device("p2", "plain", "a2")>>

\* As it should be, with and without chains; a phone without an address; a stale
\* address; a malformed MAC; an override and no policies; policies asked for without
\* a Lens client, and for a device without an ID.
MCSetups ==
    {Setup(Usual, NoTargets, TRUE, TRUE, TRUE),
     Setup(<<Usual[1]>>, NoTargets, TRUE, TRUE, FALSE),
     Setup(<<Device("p1", "colons", ""), Usual[2]>>, NoTargets, TRUE, TRUE, FALSE),
     Setup(<<Device("p1", "plain", "a2"), Usual[2]>>, NoTargets, TRUE, TRUE, FALSE),
     Setup(<<Usual[1], Device("p2", "malformed", "a2")>>, NoTargets, TRUE, TRUE, FALSE),
     Setup(<<Device("p1", "plain", "")>>, [p \in {"p1"} |-> "a1"], FALSE, TRUE, TRUE),
     Setup(<<Usual[1]>>, NoTargets, TRUE, FALSE, TRUE),
     Setup(<<[Usual[1] EXCEPT !.identified = FALSE]>>, NoTargets, TRUE, TRUE, TRUE)}

MCTraits ==
    [p1 |-> [model |-> "m1", family |-> "f1", collections |-> {"s1", "g1"}, lease |-> "a1"],
     p2 |-> [model |-> "m2", family |-> "f1", collections |-> {"s1"}, lease |-> "a2"]]

Deployed(scope, model, collection, fam) ==
    [scope |-> scope, device |-> "", model |-> model, collection |-> collection,
     family |-> fam]

\* 1 and 2 share a site, 4 and 5 are deployed alike, 6 has an unknown scope.  7 is
\* deployed like 1 but sets no password, until it is changed.
MCPolicies ==
    <<Deployed("SITE", "m1", "s1", ""), Deployed("SITE", "m2", "s1", ""),
      Deployed("FAMILY_GROUP", "", "g1", "f1"), Deployed("GROUP", "m1", "g1", ""),
      Deployed("GROUP", "m1", "g1", ""), Deployed("TAG", "", "", ""),
      Deployed("SITE", "m1", "s1", "")>>

MCInitialValues == [i \in DOMAIN MCPolicies |-> IF i = 7 THEN Unset ELSE "policy"]
MCInitialWinners == [p1 |-> {1}, p2 |-> {2}]
MCWinnerChoices == [p1 |-> {{}, {1}, {3}, {4}, {6}, {1, 3}}, p2 |-> {{2}}]

\* The two collectors make the same calls.
CollectorSymmetry == Permutations({status, lines})
=============================================================================
