------------------------ MODULE ServiceConfiguration ------------------------
(***************************************************************************)
(* What start() finds in the configuration: that of the file, changed by   *)
(* processEnvironmentVariables() of lib/configService.js, and, for ARGO,   *)
(* by the function of that name in lib/bindings/ARGOBinding.js.  Of the    *)
(* section of a binding only what decides on its start is kept.            *)
(***************************************************************************)

\* A section that is there, says "disabled", or names a file that cannot be read.
Settings == {"missing", "disabled", "enabled", "unreadable"}

File ==
    [HTTP : {"missing", "enabled", "unreadable"}, MQTT : Settings, AMQP : {"missing", "disabled", "enabled"}]

\* What the variables of each binding say: nothing, settings, that it is disabled,
\* a file that is not there (HTTP: its key, or only its certificate); empty:
\* IOTA_MQTT_REJECT_UNAUTHORIZED is all there is, without a value.  ARGO: enabled or not.
Environment ==
    [HTTP : {"nothing", "settings", "noKey", "noCertificate"},
     MQTT : {"nothing", "settings", "disabled", "noFile", "empty"},
     AMQP : {"nothing", "settings", "disabled"},
     ARGO : BOOLEAN]

\* An exception: fileExists(), which for the certificate looks at the key, or
\* a value for a section that is not there.
Rejected(file, env) ==
    \/ env.HTTP = "noKey" \/ env.MQTT = "noFile"
    \/ env.MQTT = "empty" /\ file.MQTT = "missing"

\* MQTT and AMQP: variables are added to the section, and can disable it but not enable it.
Added(section, says) ==
    CASE says \in {"nothing", "empty"} -> {section}
      [] says = "disabled" \/ section = "disabled" -> {"disabled"}
      [] says = "settings" /\ section = "unreadable" -> {"unreadable", "enabled"}
      [] OTHER -> {"enabled"}

\* HTTP: one variable, and nothing is left of what the file says.
Replaced(section, says) ==
    CASE says = "nothing" -> section
      [] says = "noCertificate" -> "unreadable"
      [] OTHER -> "enabled"

\* setConfig(), if it does not throw.
Configurations(file, env) ==
    {[b \in {"ARGO", "HTTP", "MQTT", "AMQP"} |->
        CASE b = "ARGO" -> IF env.ARGO THEN "enabled" ELSE "disabled"
          [] b = "HTTP" -> Replaced(file.HTTP, env.HTTP)
          [] b = "MQTT" -> mqtt
          [] b = "AMQP" -> amqp] : mqtt \in Added(file.MQTT, env.MQTT), amqp \in Added(file.AMQP, env.AMQP)}

=============================================================================
