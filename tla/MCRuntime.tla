----------------------------- MODULE MCRuntime -----------------------------
(***************************************************************************)
(* Small deployments of Runtime: what a process may be started with.       *)
(***************************************************************************)
EXTENDS Runtime, TLC

\* One collector of each kind of registration and interval.
MCCollectors == {<<"lens.cdr", 2>>, <<"phone.call_logs", 1>>, <<"selfobs.internal", 1>>}

A == [name |-> "a", padded |-> FALSE]
PaddedA == [name |-> "a", padded |-> TRUE]
B == [name |-> "b", padded |-> FALSE]
BlankTenant == [name |-> "", padded |-> TRUE]

MCDiscoveries == {<<>>, <<A, B>>}

\* Settings every deployment needs, and the ones of a Lens deployment.
Base == [endpoint |-> "set", instance |-> "set", token |-> "set", password |-> "set"]
Lens == [clientID |-> "set", clientSecret |-> "set"] @@ Base

NoFile == [path |-> "", layer |-> <<>>]
File(layer) == [path |-> "read", layer |-> layer]
Started(file, env) == [file |-> file, env |-> env]

\* Deployments that run.
Running ==
    { Started(NoFile, Lens),
      Started(File([tenants |-> <<PaddedA, BlankTenant>>, phoneEnabled |-> FALSE]),
              [lensCDR |-> 0, selfObs |-> 0] @@ Lens),
      Started(File([streamEnabled |-> FALSE, tenants |-> <<A, A>>, format |-> "JSON"]),
              [profiling |-> " ", phoneCallLogs |-> -1] @@ Lens),
      Started(File([targets |-> {"mac"}, tenants |-> <<PaddedA>>]), Base),
      Started(NoFile, Base) }

\* Deployments that one of the checks refuses.
Refused ==
    { Started([path |-> "unreadable", layer |-> <<>>], Lens),
      Started(File([clientSecret |-> "set"]), Base),
      Started(NoFile, [unknown |-> "set"] @@ Lens),
      Started(NoFile, [clientID |-> "set"] @@ Base),
      Started(NoFile, [password |-> " "] @@ Lens),
      Started(NoFile, [token |-> ""] @@ Lens),
      Started(File([targets |-> {"alias"}]), Base),
      Started(File([targets |-> {"mac"}, tenants |-> <<A, B>>]), Base),
      Started(File([targets |-> {"mac"}, tenants |-> <<A, B>>, phoneEnabled |-> FALSE]), Base),
      Started(File([pageSize |-> 5001]), Lens),
      Started(File([maxDevices |-> 0]), Lens),
      Started(File([stateDir |-> ""]), Lens),
      Started(File([stateDir |-> " "]), Lens),
      Started(File([protocol |-> "udp"]), Lens),
      Started(File([configParams |-> 51]), Lens),
      Started(File([format |-> "xml"]), Lens),
      Started(NoFile, [level |-> "loud"] @@ Lens) }

MCLayers == Running \cup Refused
=============================================================================
