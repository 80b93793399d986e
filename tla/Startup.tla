------------------------------ MODULE Startup ------------------------------
(***************************************************************************)
(* What the process is configured to run: the configuration                *)
(* (internal/config), the tenants its telemetry belongs to                 *)
(* (cmd/polylens2otel/tenant_emitter.go) and the collectors it registers   *)
(* (the Register functions of internal/collectors).                        *)
(*                                                                         *)
(* A configuration is a record; a layer (the YAML file, the environment)   *)
(* is a record of some of its fields.  A string is kept by what the code   *)
(* asks of it: "" and " " are blank, "set" is any other value.             *)
(***************************************************************************)
EXTENDS Integers, Sequences

CONSTANT TenantNames    \* the names a tenant ID may have

ASSUME NamesAssumption == {"", "_discovery"} \subseteq TenantNames

Elems(s) == {s[i] : i \in DOMAIN s}

----------------------------------------------------------------------------
(* config.Load. *)

\* The values no layer sets.  Intervals are in minutes.
Default ==
    [ level |-> "info", format |-> "json", endpoint |-> "", instance |-> "", token |-> "", protocol |-> "http",
      clientID |-> "", clientSecret |-> "", tenants |-> <<>>, pageSize |-> 10,
      streamEnabled |-> TRUE, phoneEnabled |-> TRUE, password |-> "", targets |-> {},
      configParams |-> 6, stateDir |-> "set", maxDevices |-> 500, profiling |-> "",
      lensDevices |-> 1, lensActiveCalls |-> 1, lensFirmware |-> 1440, lensCDR |-> 60,
      phoneCallLogs |-> 5, phoneNetworkInfo |-> 5, selfObs |-> 1 ]

\* The fields a file may not hold; profiling stands for the Pyroscope password.
yamlSecrets == {"clientSecret", "password", "token", "profiling"}

\* file.path: "" when no -config flag is given, else whether the file can be read
\* and parsed.  A field that Default lacks is a key the decoder does not know.
LoadFails(file, env) ==
    \/ file.path = "unreadable"
    \/ file.path # "" /\ DOMAIN file.layer \cap yamlSecrets # {}
    \/ \E k \in (IF file.path = "" THEN {} ELSE DOMAIN file.layer) \cup DOMAIN env :
          k \notin DOMAIN Default

\* f over g: k.Load merges a layer into what is loaded.
Over(f, g) == [k \in DOMAIN f \cup DOMAIN g |-> IF k \in DOMAIN f THEN f[k] ELSE g[k]]

\* The environment overrides the file, which overrides the defaults.
Load(file, env) ==
    Over(env, IF file.path = "" THEN Default ELSE Over(file.layer, Default))

----------------------------------------------------------------------------
(* Config.Validate. *)

Blank(s) == s \in {"", " "}

MaxPageSize == 5000
maxPhoneConfigParams == 50

\* Both credentials are there: the Lens API is used.
LensEnabled(cfg) == ~ Blank(cfg.clientID) /\ ~ Blank(cfg.clientSecret)

Missing(cfg) ==
    \/ Blank(cfg.endpoint) \/ Blank(cfg.instance) \/ Blank(cfg.token)
    \/ cfg.phoneEnabled /\ Blank(cfg.password)
    \/ Blank(cfg.clientID) # Blank(cfg.clientSecret)

\* Phones without Lens are identified by their key alone and belong to one tenant.
StaticTargetsBad(cfg) ==
    /\ Blank(cfg.clientID) /\ cfg.phoneEnabled /\ cfg.targets # {}
    /\ Len(cfg.tenants) > 1 \/ \E key \in cfg.targets : key # "mac"

Valid(cfg) ==
    /\ ~ Missing(cfg) /\ ~ StaticTargetsBad(cfg)
    /\ cfg.pageSize \in 1 .. MaxPageSize
    /\ cfg.maxDevices >= 1
    /\ cfg.stateDir # ""
    /\ cfg.protocol \in {"http", "grpc"}
    /\ cfg.configParams <= maxPhoneConfigParams

----------------------------------------------------------------------------
(* newLogger. *)

\* The level names that slog parses, in any case and with any offset, are kept as
\* one each.
slogLevels == {"debug", "info", "warn", "error"}

\* strings.ToLower, on the spellings of a format that differ in case only.
ToLower(s) == CASE s = "JSON" -> "json" [] s = "TEXT" -> "text" [] OTHER -> s

\* The level does not parse, or the format is neither.
LoggerFails(cfg) ==
    \/ cfg.level \notin slogLevels
    \/ ToLower(cfg.format) \notin {"json", "text"}

----------------------------------------------------------------------------
(* Tenants.  A tenant ID is a name, "" for a blank one, that may be written *)
(* with blanks around it.                                                   *)

TenantIDs == [name : TenantNames, padded : BOOLEAN]

discoveryTenantID == [name |-> "_discovery", padded |-> FALSE]

TrimSpace(t) == [t EXCEPT !.padded = FALSE]

\* tenantEmitter.SetTenants: trimmed, without blanks and duplicates.
SetTenants(ids) == {t \in {TrimSpace(i) : i \in Elems(ids)} : t.name # ""}

\* tenantEmitter.scoped: the tenants that process-level telemetry fans out to.
scoped(scope) == IF scope = {} THEN {discoveryTenantID} ELSE scope

\* tenantEmitter.WithTenant: the tenants that telemetry for one ID is stamped
\* with.
WithTenant(scope, id) == IF id.name = "" THEN scoped(scope) ELSE {id}

\* staticPhoneDevices: the tenants without Lens, and when it refuses.
StaticTenants(cfg) == IF cfg.tenants = <<>> THEN <<discoveryTenantID>> ELSE cfg.tenants
StaticFails(cfg) == Len(cfg.tenants) > 1 /\ cfg.targets # {}

----------------------------------------------------------------------------
(* Registration.  A collector is <<id, n>>: n numbers the CDR collectors,  *)
(* one for each entry of the tenant list, and is 1 for the others.         *)

LensPollers == {"lens.devices", "lens.active_calls", "lens.firmware"}
PhoneFixed == {"phone.status", "phone.lines", "phone.config"}
PhoneTimed == {"phone.call_logs", "phone.network_info"}

\* registerAll
Registers(cfg, phones, c) ==
    \/ c[1] \in LensPollers /\ LensEnabled(cfg)
    \/ c[1] = "lens.cdr" /\ LensEnabled(cfg) /\ c[2] <= Len(cfg.tenants)
    \/ c[1] \in PhoneFixed \cup PhoneTimed /\ cfg.phoneEnabled /\ phones
    \/ c[1] = "selfobs.internal"

\* The setting a collector's interval comes from.
IntervalKey ==
    [ id \in LensPollers \cup PhoneTimed \cup {"lens.cdr", "selfobs.internal"} |->
        CASE id = "lens.devices" -> "lensDevices"
          [] id = "lens.active_calls" -> "lensActiveCalls"
          [] id = "lens.firmware" -> "lensFirmware"
          [] id = "lens.cdr" -> "lensCDR"
          [] id = "phone.call_logs" -> "phoneCallLogs"
          [] id = "phone.network_info" -> "phoneNetworkInfo"
          [] id = "selfobs.internal" -> "selfObs" ]

\* The Lens collectors take the setting as it is; the others take it if it is
\* positive; the status, lines and config collectors have theirs fixed.
Unchecked == LensPollers \cup {"lens.cdr"}

Interval(cfg, c) ==
    CASE c[1] \in PhoneFixed -> IF c[1] = "phone.config" THEN 5 ELSE 1
      [] c[1] \in Unchecked -> cfg[IntervalKey[c[1]]]
      [] OTHER -> LET set == cfg[IntervalKey[c[1]]]
                  IN  IF set > 0 THEN set ELSE Default[IntervalKey[c[1]]]
=============================================================================
